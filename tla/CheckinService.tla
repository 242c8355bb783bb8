--------------------------- MODULE CheckinService ---------------------------
(***************************************************************************)
(* The check-in service: the voter status table, the pending-check-in      *)
(* timers, the ticket store and its CSV file, and the handlers of the two  *)
(* request kinds.  Connections, TLS and framing are left to the transport: *)
(* here a dispatched request comes with the client identity c that the TLS *)
(* certificate authenticated.                                              *)
(*                                                                         *)
(* One io_context thread runs every handler, so a handler is one action.   *)
(* What interleaves is the order of handlers: requests of several clients, *)
(* timer completions that wait in the ready queue, and the end of the      *)
(* process (killed from outside, or by an exception that leaves run()).    *)
(*                                                                         *)
(* The clock `now` is both steady_clock (timers) and system_clock          *)
(* (freshness): the model assumes the system clock is not stepped.         *)
(***************************************************************************)
EXTENDS Freshness, Sequences

CONSTANTS
  Uids,              \* voter IDs that can occur in a request
  Roll,              \* the voter IDs of the voter list file
  Kiosks,            \* client IDs dispatched as ClientType::UntrustedClient
  Trusted,           \* client IDs dispatched as ClientType::TrustedClient
  CheckinRequests,   \* the check-in requests clients may send
  TicketRequests,    \* the ticket requests clients may send
  PinColumn,         \* the PIN column of the voter list, as text (digits)
  TIMEOUT_INTERVAL,  \* the pending window, in clock units
  Epoch,             \* the clock at the first start
  MaxTime,           \* bound: the clock stops here
  MaxTickets,        \* bound: how many tickets are ever drawn
  MaxBoots,          \* bound: how often the service is started
  None

Clients == Kiosks \cup Trusted
Tickets == 1 .. MaxTickets

ASSUME CheckinAssumption ==
  /\ Roll \subseteq Uids
  /\ None \notin Uids /\ None \notin Clients
  /\ None \notin [expiry : Nat, armed : BOOLEAN]
  /\ Kiosks \cap Trusted = {}
  /\ CheckinRequests \subseteq
       [client_id_num : Clients, signed_by : Clients, voter : Uids,
        verified_voter : Uids, id_signed : BOOLEAN, ts : UInt64]
  /\ TicketRequests \subseteq
       [client_id : Clients, signed_by : Clients, ticket : Tickets,
        pin : Nat, ts : UInt64]
  /\ TIMEOUT_INTERVAL \in Nat \ {0}
  /\ Epoch \in Nat /\ Epoch > REQUEST_FRESHNESS_INTERVAL
  /\ MaxTime \in Nat /\ Epoch <= MaxTime
  /\ MaxTime + REQUEST_FRESHNESS_INTERVAL < HALF
  /\ MaxTickets \in Nat
  /\ MaxBoots \in Nat

VARIABLES
  running,             \* "up", or how the process ended: "killed" or "threw"
  boot,                \* which start of the service this is
  now,                 \* the clock
  voter_status_table,  \* voter -> VoterStatus
  request_timers,      \* voter -> its Timer (expiry, wait still armed) or None
  ready_timeouts,      \* voter -> timer completions waiting in the ready queue
  client_tickets_map,  \* ticket -> voter, in memory
  ticket_file,         \* ticket -> voter, in ticket_validation.csv
  drawn,               \* how many tickets generate_secret has drawn
  fault,               \* the client the last step reported to the FaultTracker
  reply                \* the response the last step wrote, if it wrote one

volatile == <<voter_status_table, request_timers, ready_timeouts>>
vars == <<running, boot, now, volatile, client_tickets_map, ticket_file,
          drawn, fault, reply>>

VoterStatus == {"ELIGIBLE", "PENDING", "CHECKED_IN"}
NoReply == [kind |-> "none"]

\* Mutant of CheckinReply: the body is copied before the ticket is set.
CheckinReplyEarly(c, ok, v, t) ==
  [kind |-> "checkin", to |-> c, approved |-> ok, voter |-> v, ticket |-> None]

\* CheckinResponse and TicketResponse, both signed.  The ticket of a
\* TicketResponse stands for the secret that was stored with it.
CheckinReply(c, ok, v, t) ==
  [kind |-> "checkin", to |-> c, approved |-> ok, voter |-> v, ticket |-> t]
TicketReply(c, ok, v, t) ==
  [kind |-> "ticket", to |-> c, approved |-> ok, voter |-> v, ticket |-> t]

Replies == {NoReply} \cup
  [kind : {"checkin", "ticket"}, to : Clients, approved : BOOLEAN,
   voter : Uids, ticket : Tickets \cup {None}]

NoTimers == [v \in Roll |-> None]
NoTickets == [t \in Tickets |-> None]

\* The constructor, with no ticket file left by an earlier deployment.
Init ==
  /\ running = "up"
  /\ boot = 1
  /\ now = Epoch
  /\ voter_status_table = [v \in Roll |-> "ELIGIBLE"]
  /\ request_timers = NoTimers
  /\ ready_timeouts = [v \in Roll |-> 0]
  /\ client_tickets_map = NoTickets
  /\ ticket_file = NoTickets
  /\ drawn = 0
  /\ fault = None
  /\ reply = NoReply

\* What is done with a report is the FaultTracker's business.
reportFault(c) == fault' = c

----------------------------------------------------------------------------
(* Phase 1: a check-in request from an untrusted client (kiosk). *)

\* The identity claimed in the body is the TLS identity, and then
\* validate_client_request, in its order: client signature, ID-service
\* signature, claimed voter against verified voter.
IdentityOk(c, r) == r.client_id_num = c
ClientSigned(r) == r.signed_by = r.client_id_num
SameVoter(r) == r.voter = r.verified_voter

\* What remains is the timestamp, which may have two outcomes.
Genuine(r) == ClientSigned(r) /\ r.id_signed /\ SameVoter(r)
PassesValidation(r) == Genuine(r) /\ MayBeFresh(now, r.ts)
FailsValidation(r) == ~Genuine(r) \/ MayBeStale(now, r.ts)

\* Mutant of CheckinFault: every request that fails validation is one, as it
\* is for ticket requests.
CheckinFaultInvalid(c, r) == ~IdentityOk(c, r) \/ FailsValidation(r)

\* The rejections that file a fault; a bad ID-service signature, a stale
\* timestamp, an unknown voter and a voter who is not ELIGIBLE do not.
CheckinFault(c, r) ==
  \/ ~IdentityOk(c, r)
  \/ ~ClientSigned(r)
  \/ r.id_signed /\ ~SameVoter(r)

\* Mutants of Eligible: voter_status_table[v] in place of find, which inserts
\* the default ELIGIBLE; and a test against CHECKED_IN only.
EligibleByDefault(v) == v \notin Roll \/ voter_status_table[v] = "ELIGIBLE"
EligibleUnlessCheckedIn(v) == v \in Roll /\ voter_status_table[v] # "CHECKED_IN"

\* The find in voter_status_table and the status test.
Eligible(v) == v \in Roll /\ voter_status_table[v] = "ELIGIBLE"

\* Mutant of start_timer: the async_wait is forgotten.
start_timer_without_wait(v) ==
  request_timers' = [request_timers EXCEPT ![v] =
                       [expiry |-> now + TIMEOUT_INTERVAL, armed |-> FALSE]]

\* start_timer: the map owns the Timer, so overwriting an entry would destroy
\* the old timer and cancel its wait.
start_timer(v) ==
  request_timers' = [request_timers EXCEPT ![v] =
                       [expiry |-> now + TIMEOUT_INTERVAL, armed |-> TRUE]]

\* The approved branch of handle_checkin_request.  The CSV append can fail
\* (logged only).  generate_secret and the final asio::write can throw; the
\* exception leaves run() and ends the process.
AcceptCheckin(c, r) ==
  /\ running = "up"
  /\ IdentityOk(c, r)
  /\ PassesValidation(r)
  /\ Eligible(r.voter)
  /\ drawn < MaxTickets
  /\ voter_status_table' = [voter_status_table EXCEPT ![r.voter] = "PENDING"]
  /\ start_timer(r.voter)
  /\ drawn' = drawn + 1
  /\ client_tickets_map' = [client_tickets_map EXCEPT ![drawn'] = r.voter]
  /\ \/ ticket_file' = [ticket_file EXCEPT ![drawn'] = r.voter]
     \/ UNCHANGED ticket_file
  /\ \/ /\ reply' = CheckinReply(c, TRUE, r.voter, drawn')
        /\ UNCHANGED running
     \/ /\ running' = "threw"
        /\ reply' = NoReply
  /\ fault' = None
  /\ UNCHANGED <<boot, now, ready_timeouts>>

\* Mutant of RejectCheckin: a refused request gets no answer.
RejectCheckinSilent(c, r) ==
  /\ running = "up"
  /\ \/ ~IdentityOk(c, r)
     \/ FailsValidation(r)
     \/ ~Eligible(r.voter)
  /\ IF CheckinFault(c, r) THEN reportFault(c) ELSE fault' = None
  /\ reply' = NoReply
  /\ UNCHANGED <<running, boot, now, volatile, client_tickets_map, ticket_file,
                 drawn>>

\* Every refusal answers with a signed approved=false response.
RejectCheckin(c, r) ==
  /\ running = "up"
  /\ \/ ~IdentityOk(c, r)
     \/ FailsValidation(r)
     \/ ~Eligible(r.voter)
  /\ IF CheckinFault(c, r) THEN reportFault(c) ELSE fault' = None
  /\ \/ /\ reply' = CheckinReply(c, FALSE, r.voter, None)
        /\ UNCHANGED running
     \/ /\ running' = "threw"
        /\ reply' = NoReply
  /\ UNCHANGED <<boot, now, volatile, client_tickets_map, ticket_file, drawn>>

\* An exception leaves the handler and run().  A check-in payload that does not
\* parse: the parse error is caught and logged, and CheckinRequest::FromJson
\* then throws.  A signature OpenSSL cannot process, in a request of either
\* kind: Verifier::finalize throws.
HandlerThrows ==
  /\ running = "up"
  /\ running' = "threw"
  /\ reply' = NoReply
  /\ fault' = None
  /\ UNCHANGED <<boot, now, volatile, client_tickets_map, ticket_file, drawn>>

----------------------------------------------------------------------------
(* Phase 2: a ticket request from a trusted client. *)

\* Mutant of read_from_csv: the map is replaced by what the file holds.
read_from_csv_only == ticket_file

\* read_from_csv runs first on every ticket request: a line of the file
\* overrides the entry in memory.
read_from_csv ==
  [t \in Tickets |-> IF ticket_file[t] # None THEN ticket_file[t]
                                              ELSE client_tickets_map[t]]

\* std::to_string on the requested PIN, which is compared as text with the
\* PIN column that find_voter returns.
to_string[n \in Nat] ==
  IF n < 10 THEN <<n>> ELSE Append(to_string[n \div 10], n % 10)

PinMatches(v, pin) == to_string[pin] = PinColumn[v]

\* The checks that end in a fault and no answer, in the code's order: claimed
\* identity, known ticket, client signature (and then freshness).
AuthenticTicket(c, r) ==
  /\ r.client_id = c
  /\ read_from_csv[r.ticket] # None
  /\ r.signed_by = r.client_id

\* Mutants of InWindow: a missing timer counts as "not expired"; one clock unit
\* of grace after the expiry.
InWindowWithoutTimer(v) ==
  request_timers[v] # None => now <= request_timers[v].expiry
InWindowWithGrace(v) ==
  request_timers[v] # None /\ now <= request_timers[v].expiry + 1

\* The window test on the voter's current timer (it is the voter's timer, not
\* the ticket's: no timer of the ticket is kept).
InWindow(v) ==
  /\ request_timers[v] # None
  /\ now >= request_timers[v].expiry - TIMEOUT_INTERVAL
  /\ now <= request_timers[v].expiry

\* The status test of the approved branch.
AfterRedeem(s) == IF s = "PENDING" THEN "CHECKED_IN" ELSE s

TicketStep ==
  /\ running = "up"
  /\ client_tickets_map' = read_from_csv
  /\ UNCHANGED <<running, boot, now, ready_timeouts, ticket_file, drawn>>

\* A parse error is logged; a TicketRequest that cannot be built is a fault.
MalformedTicket(c) ==
  /\ TicketStep
  /\ reportFault(c) \/ fault' = None
  /\ reply' = NoReply
  /\ UNCHANGED <<voter_status_table, request_timers>>

RejectTicket(c, r) ==
  /\ TicketStep
  /\ ~AuthenticTicket(c, r) \/ MayBeStale(now, r.ts)
  /\ reportFault(c)
  /\ reply' = NoReply
  /\ UNCHANGED <<voter_status_table, request_timers>>

DenyPin(c, r) ==
  LET v == read_from_csv[r.ticket] IN
  /\ TicketStep
  /\ AuthenticTicket(c, r) /\ MayBeFresh(now, r.ts)
  /\ ~PinMatches(v, r.pin)
  /\ reply' = TicketReply(c, FALSE, v, None)
  /\ fault' = None
  /\ UNCHANGED <<voter_status_table, request_timers>>

DenyWindow(c, r) ==
  LET v == read_from_csv[r.ticket] IN
  /\ TicketStep
  /\ AuthenticTicket(c, r) /\ MayBeFresh(now, r.ts)
  /\ PinMatches(v, r.pin)
  /\ ~InWindow(v)
  /\ reportFault(c)
  /\ reply' = TicketReply(c, FALSE, v, None)
  /\ UNCHANGED <<voter_status_table, request_timers>>

\* The approved branch: the timer leaves the map, its wait is cancelled unless
\* it is already queued, and the approval is sent whatever the status was (a
\* write error is only logged).
RedeemTicket(c, r) ==
  LET v == read_from_csv[r.ticket] IN
  /\ TicketStep
  /\ AuthenticTicket(c, r) /\ MayBeFresh(now, r.ts)
  /\ PinMatches(v, r.pin)
  /\ InWindow(v)
  /\ request_timers' = [request_timers EXCEPT ![v] = None]
  /\ voter_status_table' = [voter_status_table EXCEPT ![v] =
                              AfterRedeem(@)]
  /\ reply' = TicketReply(c, TRUE, v, r.ticket)
  /\ fault' = None

----------------------------------------------------------------------------
(* Timers, the clock and the process. *)

\* asio moves an expired wait to the ready queue, where it can no longer be
\* cancelled.
ExpireTimer(v) ==
  /\ running = "up"
  /\ request_timers[v] # None
  /\ request_timers[v].armed
  /\ now >= request_timers[v].expiry
  /\ request_timers' = [request_timers EXCEPT ![v] =
                          [expiry |-> @.expiry, armed |-> FALSE]]
  /\ ready_timeouts' = [ready_timeouts EXCEPT ![v] = @ + 1]
  /\ reply' = NoReply
  /\ fault' = None
  /\ UNCHANGED <<running, boot, now, voter_status_table, client_tickets_map,
                 ticket_file, drawn>>

\* Mutants of AfterTimeout: the timer is erased and the status kept; the
\* status is reset whatever it is.
AfterTimeoutKeeps(s) == s
AfterTimeoutReverts(s) == "ELIGIBLE"

\* The status test of the timeout handler.
AfterTimeout(s) == IF s = "PENDING" THEN "ELIGIBLE" ELSE s

\* The completion knows only the voter: it erases whatever timer the voter has.
handle_verification_timeout(v) ==
  /\ running = "up"
  /\ ready_timeouts[v] > 0
  /\ ready_timeouts' = [ready_timeouts EXCEPT ![v] = @ - 1]
  /\ request_timers' = [request_timers EXCEPT ![v] = None]
  /\ voter_status_table' = [voter_status_table EXCEPT ![v] =
                              AfterTimeout(@)]
  /\ reply' = NoReply
  /\ fault' = None
  /\ UNCHANGED <<running, boot, now, client_tickets_map, ticket_file, drawn>>

Tick ==
  /\ now < MaxTime
  /\ now' = now + 1
  /\ reply' = NoReply
  /\ fault' = None
  /\ UNCHANGED <<running, boot, volatile, client_tickets_map, ticket_file,
                 drawn>>

Kill ==
  /\ running = "up"
  /\ running' = "killed"
  /\ reply' = NoReply
  /\ fault' = None
  /\ UNCHANGED <<boot, now, volatile, client_tickets_map, ticket_file, drawn>>

\* The constructor of a new process: everything in memory is initial again,
\* the ticket file is what the earlier processes left.
Start ==
  /\ running # "up"
  /\ boot < MaxBoots
  /\ running' = "up"
  /\ boot' = boot + 1
  /\ voter_status_table' = [v \in Roll |-> "ELIGIBLE"]
  /\ request_timers' = NoTimers
  /\ ready_timeouts' = [v \in Roll |-> 0]
  /\ client_tickets_map' = NoTickets
  /\ fault' = None
  /\ reply' = NoReply
  /\ UNCHANGED <<now, ticket_file, drawn>>

Next ==
  \/ \E c \in Kiosks, r \in CheckinRequests :
       AcceptCheckin(c, r) \/ RejectCheckin(c, r)
  \/ HandlerThrows
  \/ \E c \in Trusted : MalformedTicket(c)
  \/ \E c \in Trusted, r \in TicketRequests :
       RejectTicket(c, r) \/ DenyPin(c, r) \/ DenyWindow(c, r)
         \/ RedeemTicket(c, r)
  \/ \E v \in Roll : ExpireTimer(v) \/ handle_verification_timeout(v)
  \/ Tick
  \/ Kill
  \/ Start

Spec == Init /\ [][Next]_vars

\* Time passes, and the io_context thread gets round to due timers and to its
\* ready queue.  Clients, operators and restarts promise nothing.
Fairness ==
  /\ WF_vars(Tick)
  /\ \A v \in Roll : /\ WF_vars(ExpireTimer(v))
                     /\ WF_vars(handle_verification_timeout(v))

----------------------------------------------------------------------------
(* Properties *)

\* Type correctness.  Its substance: every ticket, in memory or in the file,
\* belongs to a voter of the roll, and so does every timer.
TypeOK ==
  /\ running \in {"up", "killed", "threw"}
  /\ boot \in Nat
  /\ now \in Nat
  /\ voter_status_table \in [Roll -> VoterStatus]
  /\ request_timers \in [Roll -> [expiry : Nat, armed : BOOLEAN] \cup {None}]
  /\ ready_timeouts \in [Roll -> Nat]
  /\ client_tickets_map \in [Tickets -> Roll \cup {None}]
  /\ ticket_file \in [Tickets -> Roll \cup {None}]
  /\ drawn \in 0 .. MaxTickets
  /\ fault \in Clients \cup {None}
  /\ reply \in Replies

\* At every clock value the service reaches, the freshness test on machine
\* integers answers every 64-bit timestamp the way it is meant to, but for the
\* one timestamp 2^63 ahead, whatever the build does with that one.
FreshIsExact == \A ts \in UInt64 : FreshCorrect(now, ts)

\* A voter is PENDING exactly while request_timers holds a timer for the
\* voter, and then exactly one completion is still to come: the armed wait or
\* one entry in the ready queue.  Without it a voter is stuck PENDING, or is
\* reverted by a completion of an earlier check-in.
PendingHasOneTimeout ==
  \A v \in Roll :
    /\ voter_status_table[v] = "PENDING" <=> request_timers[v] # None
    /\ request_timers[v] # None =>
         ready_timeouts[v] = IF request_timers[v].armed THEN 0 ELSE 1

\* The steps the next two properties allow.
RevertsOnlyWhenDue ==
  \A v \in Roll :
    /\ voter_status_table[v] = "PENDING"
    /\ voter_status_table'[v] = "ELIGIBLE"
    /\ boot' = boot
    => now >= request_timers[v].expiry

ApprovesOnlyPending ==
  reply'.kind = "ticket" /\ reply'.approved =>
    /\ voter_status_table[reply'.voter] = "PENDING"
    /\ voter_status_table'[reply'.voter] = "CHECKED_IN"

\* A pending check-in is given up only after its own window has passed: a
\* queued timeout never takes back a later check-in of the same voter, and
\* neither do denied ticket requests.
NoEarlyRevert == [][RevertsOnlyWhenDue]_vars

\* An approved TicketResponse is sent only in the step that moves its voter
\* from PENDING to CHECKED_IN, although the handler sends it whatever the
\* status was: so two trusted devices are never both told yes.
ApprovalChecksIn == [][ApprovesOnlyPending]_vars

\* No check-in stays pending: one whose window ends within the model's time
\* is completed or given up, unless the process ends first.
PendingResolves ==
  \A v \in Roll :
    /\ voter_status_table[v] = "PENDING"
    /\ request_timers[v] # None /\ request_timers[v].expiry <= MaxTime
    ~> voter_status_table[v] # "PENDING" \/ running # "up"

\* The end of the window of each pending check-in.
Deadlines == [v \in Roll |-> IF request_timers[v] = None
                             THEN None ELSE request_timers[v].expiry]

\* The service implements the abstract two-phase protocol, the timer's expiry
\* being the deadline.
Abstract == INSTANCE TwoPhaseCheckin WITH
  Window <- TIMEOUT_INTERVAL,
  status <- voter_status_table,
  deadline <- Deadlines,
  clock <- now

\* Every step is a begin, a completion no later than the deadline, a lapse no
\* earlier than it, a restart, a tick, or invisible.
ImplementsTwoPhase == Abstract!Spec
=============================================================================
