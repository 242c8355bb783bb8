---------------------------- MODULE Config_proofs ----------------------------
(***************************************************************************)
(* The start-up of the configuration object, for any number of threads and *)
(* any files.                                                              *)
(***************************************************************************)
EXTENDS Config, TLAPS

\* The threads that own the initialization.
Owns(t) == pc[t] \in {"construct", "store"}

\* The flag tells how far the one initialization is: nobody owns it before the
\* exchange and after the store, and meanwhile at most one thread does.
FlagAndOwner ==
  /\ singleton_initialized_flag = "UNINITIALIZED" => instance = None
  /\ singleton_initialized_flag = "INITIALIZED" => instance # None
  /\ \A t \in Threads : Owns(t) => singleton_initialized_flag = "INITIALIZING"
  /\ \A t, u \in Threads : Owns(t) /\ Owns(u) => t = u

\* The object appears between the two steps of the owner.
OwnerProgress ==
  \A t \in Threads : /\ pc[t] = "construct" => instance = None
                     /\ pc[t] = "store" => instance # None

\* Whoever has returned has seen the last value of the flag.
ReturnedSaw ==
  \A t \in Threads : pc[t] = "returned" =>
                       singleton_initialized_flag = "INITIALIZED"

\* The threads that wait to claim know where to load from.
PathKnown ==
  \A t \in Threads : pc[t] \in {"exchange", "construct"} => path[t] \in Files

IInv == TypeOK /\ FlagAndOwner /\ OwnerProgress /\ ReturnedSaw /\ PathKnown

\* Before any call the flag is down and nobody holds a reference.
LEMMA InvInit == Init => IInv
BY ConfigAssumption
   DEF Init, IInv, TypeOK, FlagAndOwner, OwnerProgress, ReturnedSaw, PathKnown,
       Owns, States, Methods, Labels

\* One step of a thread; all others stay where they are.
LEMMA InvStep == IInv /\ [Next]_vars => IInv'
<1> SUFFICES ASSUME IInv, [Next]_vars PROVE IInv'
  OBVIOUS
<1> USE ConfigAssumption
        DEF IInv, TypeOK, FlagAndOwner, OwnerProgress, ReturnedSaw, PathKnown,
            Owns, States, Methods, Labels, Goto
<1>1. ASSUME NEW t \in Threads, CallGetInstance(t) PROVE IInv'
  BY <1>1 DEF CallGetInstance
<1>2. ASSUME NEW t \in Threads, NEW f \in Files, CallInitialize(t, f)
      PROVE  IInv'
  BY <1>2 DEF CallInitialize
<1>3. ASSUME NEW t \in Threads, Load(t) PROVE IInv'
  BY <1>3 DEF Load
<1>4. ASSUME NEW t \in Threads, CompareExchange(t) PROVE IInv'
  BY <1>4 DEF CompareExchange, Claims
<1>5. ASSUME NEW t \in Threads, Construct(t) PROVE IInv'
  BY <1>5 DEF Construct, Accepted
<1>6. ASSUME NEW t \in Threads, ConstructThrows(t) PROVE IInv'
  BY <1>6 DEF ConstructThrows
<1>7. ASSUME NEW t \in Threads, Store(t) PROVE IInv'
  BY <1>7 DEF Store, Stored
<1>8. ASSUME NEW t \in Threads, Return(t) PROVE IInv'
  BY <1>8 DEF Return, Finished
<1>9. ASSUME NEW t \in Threads, Resume(t) PROVE IInv'
  BY <1>9 DEF Resume
<1>10. CASE UNCHANGED vars
  BY <1>10 DEF vars
<1> QED
  BY <1>1, <1>2, <1>3, <1>4, <1>5, <1>6, <1>7, <1>8, <1>9, <1>10
     DEF Next, Running

\* The invariant holds in every reachable state.
THEOREM Invariance == Spec => []IInv
BY InvInit, InvStep, PTL DEF Spec

\* Type correctness: the object is only ever made from a file that passed the
\* sanity tests of the constructor.
THEOREM TypeCorrect == Spec => []TypeOK
<1>1. IInv => TypeOK
  BY DEF IInv
<1> QED
  BY <1>1, Invariance, PTL

\* No caller returns before the object exists, whichever thread makes it.
THEOREM ReturnsInitializedHolds == Spec => []ReturnsInitialized
<1>1. IInv => ReturnsInitialized
  BY DEF IInv, FlagAndOwner, ReturnedSaw, ReturnsInitialized
<1> QED
  BY <1>1, Invariance, PTL

\* The object is never replaced, so references into it stay valid.
THEOREM InstanceStaysHolds == Spec => InstanceStays
<1>1. IInv /\ [Next]_vars => [KeepsInstance]_vars
  <2> SUFFICES ASSUME IInv, [Next]_vars, instance # None
               PROVE  instance' = instance
    BY DEF KeepsInstance
  <2>1. ASSUME NEW t \in Threads, Construct(t) PROVE FALSE
    BY <2>1 DEF Construct, IInv, OwnerProgress
  <2> QED
    BY <2>1 DEF Next, Running, CallGetInstance, CallInitialize, Load,
                CompareExchange, ConstructThrows, Store, Return, Resume, vars
<1> QED
  BY <1>1, Invariance, PTL DEF Spec, InstanceStays

\* No call has come back with the object.
NobodyReturned == \A t \in Threads : pc[t] # "returned"

\* The one escape that CallsEnd leaves is final: once a constructor has thrown,
\* the flag stays INITIALIZING, no later call of any thread initializes, with
\* whatever file, and none ever returns the object.
THEOREM AbandonedForGood ==
  Spec => [](Abandoned => [](Abandoned /\ NobodyReturned))
<1>1. IInv /\ Abandoned => NobodyReturned
  BY DEF IInv, ReturnedSaw, Abandoned, NobodyReturned
<1>2. IInv /\ Abandoned /\ [Next]_vars => Abandoned'
  <2> SUFFICES ASSUME IInv, Abandoned, [Next]_vars PROVE Abandoned'
    OBVIOUS
  <2> USE DEF IInv, TypeOK, Abandoned, Goto
  <2>1. ASSUME NEW t \in Threads,
               \/ CallGetInstance(t)
               \/ \E f \in Files : CallInitialize(t, f)
        PROVE  Abandoned'
    BY <2>1 DEF CallGetInstance, CallInitialize
  <2>2. ASSUME NEW t \in Threads, Load(t) \/ CompareExchange(t)
        PROVE  Abandoned'
    BY <2>2 DEF Load, CompareExchange, Claims
  <2>3. ASSUME NEW t \in Threads,
               Construct(t) \/ ConstructThrows(t) \/ Store(t) \/ Return(t)
        PROVE  FALSE
    BY <2>3 DEF Construct, ConstructThrows, Store, Return, Finished
  <2>4. ASSUME NEW t \in Threads, Resume(t)
        PROVE  Abandoned'
    BY <2>4 DEF Resume
  <2>5. CASE UNCHANGED vars
    BY <2>5 DEF vars
  <2> QED
    BY <2>1, <2>2, <2>3, <2>4, <2>5 DEF Next, Running
<1> QED
  BY <1>1, <1>2, Invariance, PTL DEF Spec
=============================================================================
