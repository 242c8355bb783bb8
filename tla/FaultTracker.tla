---------------------------- MODULE FaultTracker ----------------------------
(***************************************************************************)
(* The record of faulty clients.  The io_context thread reports faults and *)
(* the cleanup thread of the check-in service removes old records; both    *)
(* hold the mutex, so each is one step.  Of a record the time of the last  *)
(* report is kept: the descriptions only grow until the record goes.       *)
(***************************************************************************)
EXTENDS Integers

CONSTANTS
  Clients,
  cleanup_threshold,   \* time without a report after which a record is old
  SLEEP,               \* the pause of the cleanup thread
  NoRecord

VARIABLES
  clock,       \* the system clock
  clientMap,   \* client -> lastReportTime, or NoRecord
  wake,        \* when the cleanup thread ends its sleep
  reported     \* history: client -> when a fault was last reported

NoRecords == [c \in Clients |-> NoRecord]

\* The singleton of a new process; its cleanup thread starts with a cleanup.
TrackerInit ==
  /\ clientMap = NoRecords
  /\ wake = clock
  /\ reported = NoRecords

\* Mutant of Refreshed: emplace, which leaves the time of an existing record.
RefreshedOnce(c) == [clientMap EXCEPT ![c] = IF @ = NoRecord THEN clock ELSE @]

\* operator[] makes the record if there is none; the time is always set.
Refreshed(c) == [clientMap EXCEPT ![c] = clock]

reportFault(c) ==
  /\ clientMap' = Refreshed(c)
  /\ reported' = [reported EXCEPT ![c] = clock]
  /\ UNCHANGED wake

\* Mutant of Old: the operands are swapped.
OldSwapped(c) ==
  clientMap[c] # NoRecord /\ clientMap[c] - clock > cleanup_threshold

Old(c) == clientMap[c] # NoRecord /\ clock - clientMap[c] > cleanup_threshold

clearOldRecords ==
  clientMap' = [c \in Clients |-> IF Old(c) THEN NoRecord ELSE clientMap[c]]

\* One round of the cleanup thread.
CleanupRound ==
  /\ clock >= wake
  /\ clearOldRecords
  /\ wake' = clock + SLEEP
  /\ UNCHANGED reported
=============================================================================
