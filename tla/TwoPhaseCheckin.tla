--------------------------- MODULE TwoPhaseCheckin ---------------------------
(***************************************************************************)
(* What two-phase check-in promises, without requests, tickets, timers or  *)
(* queues.  A voter is ELIGIBLE until a kiosk begins a check-in, PENDING   *)
(* for at most one window, and then either CHECKED_IN by a trusted device  *)
(* no later than the deadline, or ELIGIBLE again no earlier than the       *)
(* deadline.  CHECKED_IN is left only by a restart of the service, which   *)
(* forgets every status.                                                   *)
(***************************************************************************)
EXTENDS Integers

CONSTANTS Roll,      \* the registered voters
          Window,    \* how long a check-in may stay pending
          Epoch,     \* the clock at the start
          None       \* no deadline

VARIABLES status,    \* the status of each voter
          deadline,  \* the end of the window of a pending check-in
          clock,
          boot       \* how often the service has been started

vars == <<status, deadline, clock, boot>>

Init == /\ status = [v \in Roll |-> "ELIGIBLE"]
        /\ deadline = [v \in Roll |-> None]
        /\ clock = Epoch
        /\ boot = 1

Begin(v) == /\ status[v] = "ELIGIBLE"
            /\ status' = [status EXCEPT ![v] = "PENDING"]
            /\ deadline' = [deadline EXCEPT ![v] = clock + Window]
            /\ UNCHANGED <<clock, boot>>

Complete(v) == /\ status[v] = "PENDING"
               /\ clock <= deadline[v]
               /\ status' = [status EXCEPT ![v] = "CHECKED_IN"]
               /\ deadline' = [deadline EXCEPT ![v] = None]
               /\ UNCHANGED <<clock, boot>>

Lapse(v) == /\ status[v] = "PENDING"
            /\ clock >= deadline[v]
            /\ status' = [status EXCEPT ![v] = "ELIGIBLE"]
            /\ deadline' = [deadline EXCEPT ![v] = None]
            /\ UNCHANGED <<clock, boot>>

Restart == /\ boot' = boot + 1
           /\ status' = [v \in Roll |-> "ELIGIBLE"]
           /\ deadline' = [v \in Roll |-> None]
           /\ UNCHANGED clock

Tick == /\ clock' = clock + 1
        /\ UNCHANGED <<status, deadline, boot>>

Next == \/ \E v \in Roll : Begin(v) \/ Complete(v) \/ Lapse(v)
        \/ Restart
        \/ Tick

Spec == Init /\ [][Next]_vars
=============================================================================
