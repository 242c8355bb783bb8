---------------------------- MODULE WarningCache ----------------------------
(***************************************************************************)
(* From a log call to an operator's screen: the bounded queue of the       *)
(* asynchronous logger, its one worker thread with the sink that caches    *)
(* warnings, and the query server, whose sessions read a command, run it   *)
(* and write the answer, in a chain.  Log calls of the service and the     *)
(* handlers of the sessions share the io_context thread, so a log call     *)
(* that waits for room in the queue holds up the sessions too.             *)
(*                                                                         *)
(* A warning is its number in the order of the log calls.                  *)
(***************************************************************************)
EXTENDS Integers, Sequences, SequencesExt

CONSTANTS
  Sessions,      \* connections to the query server
  QueueSize,     \* the capacity of the log queue
  SendBuffer,    \* how many warnings the socket takes in one go
  MaxWarnings    \* bound: how many warnings are logged

ASSUME WarningCacheAssumption ==
  /\ QueueSize \in Nat \ {0}
  /\ SendBuffer \in Nat
  /\ MaxWarnings \in Nat

VARIABLES
  io_thread,   \* "free", or the level of the log call it is in
  logged,      \* how many warnings were logged
  log_queue,   \* messages the worker has not taken, oldest first
  warnings,    \* the cache
  discarded,   \* history: warnings that were removed or cleared
  phase,       \* session -> "closed", "reading" or "writing"
  command,     \* session -> the command it waits for an answer to
  view         \* history: session -> the answer to its last get_warnings,
               \* void once anybody has removed or cleared warnings

vars == <<io_thread, logged, log_queue, warnings, discarded, phase, command,
          view>>

Levels == {"warn", "other"}
Indices == 0 .. MaxWarnings
Commands == [op : {"get_warnings", "clear_warnings", "unknown"}]
              \cup [op : {"remove_warning"}, index : Indices]
None == [op |-> "none"]       \* nothing asked
Endless == [op |-> "endless"] \* waiting for the end of a line that never comes

Init ==
  /\ io_thread = "free"
  /\ logged = 0
  /\ log_queue = <<>>
  /\ warnings = <<>>
  /\ discarded = {}
  /\ phase = [s \in Sessions |-> "closed"]
  /\ command = [s \in Sessions |-> None]
  /\ view = [s \in Sessions |-> <<>>]

----------------------------------------------------------------------------
(* Logging *)

\* Mutant of Post: overflow policy overrun_oldest.
PostOverrun(m) ==
  log_queue' = Append(IF Len(log_queue) < QueueSize THEN log_queue
                                                    ELSE Tail(log_queue), m)

\* Mutant of Post: the room test is off by one.
PostOverfull(m) ==
  Len(log_queue) <= QueueSize /\ log_queue' = Append(log_queue, m)

\* Overflow policy block: the caller waits until there is room.
Post(m) == Len(log_queue) < QueueSize /\ log_queue' = Append(log_queue, m)

\* A handler of the check-in service reaches a log call.
Handler(level) ==
  /\ io_thread = "free"
  /\ level = "warn" => logged < MaxWarnings
  /\ io_thread' = level
  /\ UNCHANGED <<logged, log_queue, warnings, discarded, phase, command, view>>

\* The log call returns, when the message is in the queue.
Log ==
  /\ io_thread # "free"
  /\ logged' = IF io_thread = "warn" THEN logged + 1 ELSE logged
  /\ Post([level |-> io_thread, id |-> logged'])
  /\ io_thread' = "free"
  /\ UNCHANGED <<warnings, discarded, phase, command, view>>

\* The sink keeps messages of level warn and of no other.
sink_it_(m) ==
  warnings' = IF m.level = "warn" THEN Append(warnings, m.id) ELSE warnings

\* The worker takes the oldest message and hands it to the sinks.
Worker ==
  /\ log_queue # <<>>
  /\ log_queue' = Tail(log_queue)
  /\ sink_it_(Head(log_queue))
  /\ UNCHANGED <<io_thread, logged, discarded, phase, command, view>>

----------------------------------------------------------------------------
(* The query server *)

\* The next accept is always started, so a closed session can come back.
Connect(s) ==
  /\ phase[s] = "closed"
  /\ phase' = [phase EXCEPT ![s] = "reading"]
  /\ UNCHANGED <<io_thread, logged, log_queue, warnings, discarded, command,
                 view>>

\* The operator's program sends a command once it has the last answer.
SendCommand(s, k) ==
  /\ phase[s] = "reading"
  /\ command[s] = None
  /\ command' = [command EXCEPT ![s] = k]
  /\ UNCHANGED <<io_thread, logged, log_queue, warnings, discarded, phase, view>>

\* The operator disconnects, or the read or the write fails: the chain ends.
Disconnect(s) ==
  /\ phase[s] # "closed"
  /\ phase' = [phase EXCEPT ![s] = "closed"]
  /\ command' = [command EXCEPT ![s] = None]
  /\ view' = [view EXCEPT ![s] = <<>>]
  /\ UNCHANGED <<io_thread, logged, log_queue, warnings, discarded>>

\* The session's read handler gets a command: until its async_write is done
\* the session reads nothing.
Runs(s, op) ==
  /\ io_thread = "free"
  /\ phase[s] = "reading"
  /\ command[s] \in Commands
  /\ command[s].op = op
  /\ phase' = [phase EXCEPT ![s] = "writing"]
  /\ UNCHANGED <<io_thread, logged, log_queue, command>>

NoViews == [s \in Sessions |-> <<>>]

get_warnings_snapshot(s) ==
  /\ Runs(s, "get_warnings")
  /\ view' = [view EXCEPT ![s] = warnings]
  /\ UNCHANGED <<warnings, discarded>>

clear(s) ==
  /\ Runs(s, "clear_warnings")
  /\ warnings' = <<>>
  /\ discarded' = discarded \cup Range(warnings)
  /\ view' = NoViews

\* Mutant of remove_warning_at: an index beyond the end removes the last one,
\* and the answer still says "invalid index".
remove_warning_clamped(s) ==
  LET i == command[s].index + 1 IN
  /\ Runs(s, "remove_warning")
  /\ IF i \in 1 .. Len(warnings)
     THEN /\ warnings' = RemoveAt(warnings, i)
          /\ discarded' = discarded \cup {warnings[i]}
          /\ view' = NoViews
     ELSE /\ warnings' = IF warnings = <<>> THEN <<>> ELSE Front(warnings)
          /\ discarded' = discarded \cup (Range(warnings) \ Range(warnings'))
          /\ UNCHANGED view

\* remove_warning_at: an index beyond the end changes nothing.
remove_warning_at(s) ==
  LET i == command[s].index + 1 IN
  /\ Runs(s, "remove_warning")
  /\ IF i \in 1 .. Len(warnings)
     THEN /\ warnings' = RemoveAt(warnings, i)
          /\ discarded' = discarded \cup {warnings[i]}
          /\ view' = NoViews
     ELSE UNCHANGED <<warnings, discarded, view>>

\* Mutant of UnknownCommand: it is read and not answered.
UnknownCommandIgnored(s) ==
  /\ io_thread = "free" /\ phase[s] = "reading"
  /\ command[s].op = "unknown"
  /\ UNCHANGED vars

UnknownCommand(s) ==
  /\ Runs(s, "unknown")
  /\ UNCHANGED <<warnings, discarded, view>>

HandleCommand(s) ==
  get_warnings_snapshot(s) \/ clear(s) \/ remove_warning_at(s)
    \/ UnknownCommand(s)

\* The completion handler of async_write: the answer is out, and the next read
\* starts.  The answer is a local variable of the handler: what the socket
\* did not take at once is sent from memory that is no longer the answer's, so
\* a long answer can arrive damaged, and without its end of line.
Written(s) ==
  /\ io_thread = "free"
  /\ phase[s] = "writing"
  /\ phase' = [phase EXCEPT ![s] = "reading"]
  /\ \/ command' = [command EXCEPT ![s] = None] /\ UNCHANGED view
     \/ /\ command[s].op = "get_warnings"
        /\ Len(view[s]) > SendBuffer
        /\ \E k \in {None, Endless} : command' = [command EXCEPT ![s] = k]
        /\ view' = [view EXCEPT ![s] = <<>>]
  /\ UNCHANGED <<io_thread, logged, log_queue, warnings, discarded>>

----------------------------------------------------------------------------
Query(s) == HandleCommand(s) \/ Written(s)

Next ==
  \/ \E level \in Levels : Handler(level)
  \/ Log
  \/ Worker
  \/ \E s \in Sessions : \/ Query(s)
                         \/ Connect(s)
                         \/ \E k \in Commands : SendCommand(s, k)
                         \/ Disconnect(s)

Spec == Init /\ [][Next]_vars

\* Both threads run, and the io_context runs its handlers in the order in which
\* they became ready, so other handlers do not keep a session waiting for ever.
\* Operators and the clients that cause warnings promise nothing.
FairSpec ==
  /\ Spec
  /\ WF_vars(Log)
  /\ WF_vars(Worker)
  /\ \A s \in Sessions : SF_vars(Query(s))

----------------------------------------------------------------------------
(* Properties *)

\* Type correctness; its substance is the bound of the log queue.
TypeOK ==
  /\ io_thread \in Levels \cup {"free"}
  /\ logged \in 0 .. MaxWarnings
  /\ log_queue \in Seq([level : Levels, id : 0 .. MaxWarnings])
  /\ Len(log_queue) <= QueueSize
  /\ warnings \in Seq(1 .. MaxWarnings)
  /\ discarded \subseteq 1 .. MaxWarnings
  /\ phase \in [Sessions -> {"closed", "reading", "writing"}]
  /\ command \in [Sessions -> Commands \cup {None, Endless}]
  /\ view \in [Sessions -> Seq(1 .. MaxWarnings)]

\* Positions of the queue with a warning that is on its way to the cache.
Underway == {i \in DOMAIN log_queue : log_queue[i].level = "warn"}

\* No warning is lost, doubled or overtaken: the cache, and behind it the
\* queue, hold in the order they were logged exactly the warnings that nobody
\* has removed.
WarningsAccountedFor ==
  /\ \A i, j \in DOMAIN warnings : i < j => warnings[i] < warnings[j]
  /\ \A i, j \in Underway : i < j => log_queue[i].id < log_queue[j].id
  /\ \A i \in DOMAIN warnings, j \in Underway : warnings[i] < log_queue[j].id
  /\ Range(warnings) \cup {log_queue[i].id : i \in Underway}
       = 1 .. logged \ discarded

\* The index of a warning in the last answer a session got still names that
\* warning, whatever was logged meanwhile, until someone removes or clears.
ShownIndicesStand == \A s \in Sessions : IsPrefix(view[s], warnings)

\* Every command gets its answer, unless the answer comes without an end.
CommandsAnswered ==
  \A s \in Sessions : command[s] \in Commands ~> command[s] \notin Commands
=============================================================================
