------------------------------- MODULE Config -------------------------------
(***************************************************************************)
(* The configuration singleton and its lock-free start-up.  Any thread may *)
(* call initialize(path), or a getXXX method, which goes through           *)
(* getInstance and so may be the one that initializes.  The atomic flag is *)
(* accessed with acquire and release order, so its steps interleave and    *)
(* what was written before a store is seen after the load that reads it.   *)
(*                                                                         *)
(* The content of the files is left out: a file is one that the            *)
(* constructor accepts, or one it throws on (it cannot be parsed, or a     *)
(* required section or key is missing).                                    *)
(***************************************************************************)
CONSTANTS
  Threads,
  Files,                 \* configuration files that may be named
  Complete,              \* the ones the constructor accepts
  DEFAULT_CONFIG_FILE,
  None

ASSUME ConfigAssumption ==
  /\ Complete \subseteq Files
  /\ DEFAULT_CONFIG_FILE \in Files
  /\ None \notin Files

VARIABLES
  singleton_initialized_flag,
  instance,    \* the file the Config object was made from, or None
  pc,          \* thread -> where it is
  path,        \* thread -> config_file_path of its call of initialize
  method       \* thread -> the method it called

vars == <<singleton_initialized_flag, instance, pc, path, method>>

States == {"UNINITIALIZED", "INITIALIZING", "INITIALIZED"}
Methods == {"initialize", "getInstance"}

\* In "returned" a thread holds what initialize or getInstance promised it.
Labels == {"idle", "load", "exchange", "construct", "store", "spin", "returned"}

Init ==
  /\ singleton_initialized_flag = "UNINITIALIZED"
  /\ instance = None
  /\ pc = [t \in Threads |-> "idle"]
  /\ path = [t \in Threads |-> None]
  /\ method = [t \in Threads |-> "initialize"]

Goto(t, label) == pc' = [pc EXCEPT ![t] = label]

----------------------------------------------------------------------------
(* The calls *)

CallInitialize(t, f) ==
  /\ pc[t] = "idle"
  /\ Goto(t, "exchange")
  /\ path' = [path EXCEPT ![t] = f]
  /\ method' = [method EXCEPT ![t] = "initialize"]
  /\ UNCHANGED <<singleton_initialized_flag, instance>>

CallGetInstance(t) ==
  /\ pc[t] = "idle"
  /\ Goto(t, "load")
  /\ method' = [method EXCEPT ![t] = "getInstance"]
  /\ UNCHANGED <<singleton_initialized_flag, instance, path>>

\* The loop of getInstance.
Load(t) ==
  /\ pc[t] = "load"
  /\ IF singleton_initialized_flag = "INITIALIZED"
     THEN Goto(t, "returned") /\ UNCHANGED path
     ELSE /\ Goto(t, "exchange")
          /\ path' = [path EXCEPT ![t] = DEFAULT_CONFIG_FILE]
  /\ UNCHANGED <<singleton_initialized_flag, instance, method>>

----------------------------------------------------------------------------
(* The steps of initialize *)

\* Mutant of Claims: only a finished initialization keeps a thread out.
ClaimsUnlessDone == singleton_initialized_flag # "INITIALIZED"

\* When compare_exchange_strong succeeds.
Claims == singleton_initialized_flag = "UNINITIALIZED"

CompareExchange(t) ==
  /\ pc[t] = "exchange"
  /\ IF Claims
     THEN /\ singleton_initialized_flag' = "INITIALIZING"
          /\ Goto(t, "construct")
     ELSE /\ Goto(t, "spin")
          /\ UNCHANGED singleton_initialized_flag
  /\ UNCHANGED <<instance, path, method>>

\* Mutant of Accepted: the constructor only loads, without the sanity tests.
AcceptedUntested(f) == TRUE

\* The file loads and has the required sections and the private key.
Accepted(f) == f \in Complete

Construct(t) ==
  /\ pc[t] = "construct"
  /\ Accepted(path[t])
  /\ instance' = path[t]
  /\ Goto(t, "store")
  /\ UNCHANGED <<singleton_initialized_flag, path, method>>

\* The constructor throws: the exception leaves initialize (and getInstance),
\* and nobody takes the flag back.
ConstructThrows(t) ==
  /\ pc[t] = "construct"
  /\ ~Accepted(path[t])
  /\ Goto(t, "idle")
  /\ UNCHANGED <<singleton_initialized_flag, instance, path, method>>

\* Mutant of Stored: the store is forgotten.
StoredNever == singleton_initialized_flag

Stored == "INITIALIZED"

Store(t) ==
  /\ pc[t] = "store"
  /\ singleton_initialized_flag' = Stored
  /\ Goto(t, "spin")
  /\ UNCHANGED <<instance, path, method>>

\* Mutant of Finished: the loop is left out.
FinishedAtOnce == TRUE

\* What the final loop of initialize waits for.
Finished == singleton_initialized_flag = "INITIALIZED"

\* The end of initialize, and the way back into the loop of getInstance.
Return(t) ==
  /\ pc[t] = "spin"
  /\ Finished
  /\ Goto(t, IF method[t] = "initialize" THEN "returned" ELSE "load")
  /\ UNCHANGED <<singleton_initialized_flag, instance, path, method>>

\* The caller goes on.
Resume(t) ==
  /\ pc[t] = "returned"
  /\ Goto(t, "idle")
  /\ UNCHANGED <<singleton_initialized_flag, instance, path, method>>

Running(t) ==
  \/ Load(t) \/ CompareExchange(t) \/ Construct(t) \/ ConstructThrows(t)
  \/ Store(t) \/ Return(t)

Next ==
  \E t \in Threads : \/ CallGetInstance(t)
                     \/ \E f \in Files : CallInitialize(t, f)
                     \/ Running(t)
                     \/ Resume(t)

Spec == Init /\ [][Next]_vars

\* The scheduler runs every thread that is inside a call.
FairSpec == Spec /\ \A t \in Threads : WF_vars(Running(t))

----------------------------------------------------------------------------
(* Properties *)

\* Type correctness; its substance is that the Config object was made from a
\* file that passed the sanity tests.
TypeOK ==
  /\ singleton_initialized_flag \in States
  /\ instance \in Complete \cup {None}
  /\ pc \in [Threads -> Labels]
  /\ path \in [Threads -> Files \cup {None}]
  /\ method \in [Threads -> Methods]

\* "Concurrent callers only return when initialization has finished": whoever
\* returns from initialize or getInstance, winner or not, finds the object.
ReturnsInitialized ==
  \A t \in Threads : pc[t] = "returned" => instance # None

KeepsInstance == instance # None => instance' = instance

\* The object is made once: callers of getInstance keep references into it, so
\* no later or concurrent call of initialize may replace it.
InstanceStays == [][KeepsInstance]_vars

\* The flag says that a thread is initializing, and none is: one has thrown.
Abandoned ==
  /\ singleton_initialized_flag = "INITIALIZING"
  /\ instance = None
  /\ \A t \in Threads : pc[t] \notin {"construct", "store"}

\* Every call comes back.  The one thing that can keep it spinning for ever is
\* a constructor that threw, in whichever thread.
CallsEnd ==
  \A t \in Threads :
    pc[t] # "idle" ~> pc[t] \in {"idle", "returned"} \/ Abandoned
=============================================================================
