----------------------------- MODULE ClientCall -----------------------------
(***************************************************************************)
(* What the client library promises the thread that calls it: one call at  *)
(* a time, each ends at most once, and it ends with success only if the    *)
(* check-in service approved that very call.  Nothing is said of servers,  *)
(* connections and messages.                                               *)
(***************************************************************************)
EXTENDS Naturals

VARIABLES
  call,       \* the number of the current call
  promise,    \* what the caller sees of it
  approved    \* the calls the service has approved

vars == <<call, promise, approved>>

Init == call = 0 /\ promise = "none" /\ approved = {}

\* The next call starts when the last one has ended.
Start ==
  /\ promise # "pending"
  /\ call' = call + 1
  /\ promise' = "pending"
  /\ UNCHANGED approved

\* The service approves a call, be it over for the caller or not.
Approve ==
  /\ \E n \in 1 .. call : approved' = approved \cup {n}
  /\ UNCHANGED <<call, promise>>

Succeed ==
  /\ promise = "pending"
  /\ call \in approved
  /\ promise' = "success"
  /\ UNCHANGED <<call, approved>>

\* A call may fail at any time, approved or not.
Fail ==
  /\ promise = "pending"
  /\ promise' = "failure"
  /\ UNCHANGED <<call, approved>>

Next == Start \/ Approve \/ Succeed \/ Fail

Spec == Init /\ [][Next]_vars
=============================================================================
