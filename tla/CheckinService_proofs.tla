----------------------- MODULE CheckinService_proofs -----------------------
(***************************************************************************)
(* Theorems about CheckinService, for every voter roll, set of clients,    *)
(* set of requests, window, freshness interval and bound.                  *)
(***************************************************************************)
EXTENDS CheckinService, TLAPS

(* The freshness test, for the real width of the types and every interval *)

\* On a plausible clock the test is exact, except 2^63 ahead of the clock.
THEOREM FreshExact ==
  ASSUME NEW current \in PlausibleClock, NEW ts \in UInt64
  PROVE  FreshCorrect(current, ts)
<1> USE FreshnessAssumption
<1> SUFFICES ASSUME ts # current + HALF
             PROVE  /\ MayBeFresh(current, ts) <=> Within(current, ts)
                    /\ MayBeStale(current, ts) <=> ~Within(current, ts)
  BY DEF FreshCorrect
<1> DEFINE d == UnsignedDifference(current, ts)
<1>1. /\ current \in Nat /\ ts \in Nat
      /\ REQUEST_FRESHNESS_INTERVAL < current /\ current < HALF
      /\ ts < 2 * HALF
  BY DEF PlausibleClock, UInt64
<1>2. /\ d \in Nat
      /\ d # HALF
      /\ Within(current, ts) <=> d <= REQUEST_FRESHNESS_INTERVAL
  BY <1>1 DEF UnsignedDifference, Within
<1>3. CASE d < HALF
  <2>1. Magnitudes(current, ts) = {d}
    BY <1>2, <1>3 DEF Magnitudes, AbsOutcomes, AsInt64
  <2> QED
    BY <1>2, <2>1 DEF MayBeFresh, MayBeStale
<1>4. CASE d > HALF
  <2>1. ts > current /\ d = ts - current
    BY <1>1, <1>4 DEF UnsignedDifference
  <2>2. AsInt64(d) = d - 2 * HALF /\ d - 2 * HALF < 0 /\ d - 2 * HALF # -HALF
    BY <1>1, <1>2, <1>4, <2>1 DEF AsInt64
  <2>3. Magnitudes(current, ts) = {2 * HALF - d}
    BY <1>2, <2>2 DEF Magnitudes, AbsOutcomes
  <2>4. 2 * HALF - d > REQUEST_FRESHNESS_INTERVAL
    BY <1>1, <2>1
  <2>5. ~Within(current, ts)
    BY <1>2, <1>4
  <2> QED
    BY <1>1, <1>2, <2>3, <2>4, <2>5 DEF MayBeFresh, MayBeStale
<1> QED
  BY <1>1, <1>2, <1>3, <1>4

\* A request that can pass the test is fresh, or exactly 2^63 ahead.
LEMMA FreshSound ==
  ASSUME NEW current \in PlausibleClock, NEW ts \in UInt64,
         MayBeFresh(current, ts)
  PROVE  Within(current, ts) \/ ts = current + HALF
BY FreshExact DEF FreshCorrect

----------------------------------------------------------------------------
(* The inductive invariant *)

\* A timer whose wait was moved to the ready queue is due.
QueuedIsDue ==
  \A v \in Roll : request_timers[v] # None /\ ~request_timers[v].armed =>
                    now >= request_timers[v].expiry

\* A completion outlives its timer only when the voter was checked in
\* meanwhile, so it never meets a later check-in of the voter.
OrphanIsCheckedIn ==
  \A v \in Roll : request_timers[v] = None /\ ready_timeouts[v] # 0 =>
                    voter_status_table[v] = "CHECKED_IN"

\* The inductive invariant.
IInv == TypeOK /\ PendingHasOneTimeout /\ QueuedIsDue /\ OrphanIsCheckedIn

----------------------------------------------------------------------------
(* Facts about single handlers *)

\* read_from_csv leaves every ticket with a voter of the roll or none.
LEMMA MergedTickets ==
  ASSUME TypeOK
  PROVE  read_from_csv \in [Tickets -> Roll \cup {None}]
BY DEF TypeOK, read_from_csv

\* A ticket request that passes the authentication checks names a ticket of a
\* voter of the roll.
LEMMA TicketVoter ==
  ASSUME TypeOK, NEW c, NEW r \in TicketRequests,
         AuthenticTicket(c, r)
  PROVE  read_from_csv[r.ticket] \in Roll
<1>1. r.ticket \in Tickets
  BY CheckinAssumption
<1>2. read_from_csv[r.ticket] # None
  BY DEF AuthenticTicket
<1> QED
  BY <1>1, <1>2, MergedTickets

\* Every response the handlers write is well-formed.
LEMMA ReplyTypes ==
  /\ NoReply \in Replies
  /\ \A c \in Clients, ok \in BOOLEAN, v \in Uids, t \in Tickets \cup {None} :
       CheckinReply(c, ok, v, t) \in Replies /\ TicketReply(c, ok, v, t) \in Replies
BY DEF NoReply, Replies, CheckinReply, TicketReply

----------------------------------------------------------------------------
(* Type correctness *)

\* The type invariant is inductive by itself.
LEMMA TypeStep == TypeOK /\ [Next]_vars => TypeOK'
<1> SUFFICES ASSUME TypeOK, [Next]_vars PROVE TypeOK'
  OBVIOUS
<1> USE CheckinAssumption, FreshnessAssumption
<1>1. ASSUME NEW c \in Kiosks, NEW r \in CheckinRequests, AcceptCheckin(c, r)
      PROVE  TypeOK'
  <2>1. r.voter \in Roll /\ c \in Clients /\ r.voter \in Uids
    BY <1>1 DEF AcceptCheckin, Eligible, Clients
  <2>2. drawn' \in Tickets /\ drawn' \in 0 .. MaxTickets
    BY <1>1 DEF AcceptCheckin, TypeOK, Tickets
  <2>3. voter_status_table' \in [Roll -> VoterStatus]
    BY <1>1 DEF AcceptCheckin, TypeOK, VoterStatus
  <2>4. request_timers' \in [Roll -> [expiry : Nat, armed : BOOLEAN] \cup {None}]
    <3>1. [expiry |-> now + TIMEOUT_INTERVAL, armed |-> TRUE]
            \in [expiry : Nat, armed : BOOLEAN]
      BY DEF TypeOK
    <3> QED
      BY <1>1, <3>1 DEF AcceptCheckin, start_timer, TypeOK
  <2>5. /\ client_tickets_map' \in [Tickets -> Roll \cup {None}]
        /\ ticket_file' \in [Tickets -> Roll \cup {None}]
    BY <1>1, <2>1 DEF AcceptCheckin, TypeOK
  <2>6. running' \in {"up", "killed", "threw"} /\ reply' \in Replies
    <3>1. CheckinReply(c, TRUE, r.voter, drawn') \in Replies
      BY <2>1, <2>2, ReplyTypes
    <3> QED
      BY <1>1, <3>1, ReplyTypes DEF AcceptCheckin, TypeOK
  <2> QED
    BY <1>1, <2>2, <2>3, <2>4, <2>5, <2>6 DEF AcceptCheckin, TypeOK
<1>2. ASSUME NEW c \in Kiosks, NEW r \in CheckinRequests, RejectCheckin(c, r)
      PROVE  TypeOK'
  <2>1. r.voter \in Uids /\ c \in Clients
    BY DEF Clients
  <2>2. reply' \in Replies
    <3>1. CheckinReply(c, FALSE, r.voter, None) \in Replies
      BY <2>1, ReplyTypes
    <3> QED
      BY <1>2, <3>1, ReplyTypes DEF RejectCheckin
  <2>3. fault' \in Clients \cup {None}
    BY <1>2, <2>1 DEF RejectCheckin, reportFault
  <2> QED
    BY <1>2, <2>2, <2>3 DEF RejectCheckin, TypeOK, volatile
<1>3. ASSUME HandlerThrows PROVE TypeOK'
  BY <1>3, ReplyTypes DEF HandlerThrows, TypeOK, volatile
<1>4. ASSUME NEW c \in Trusted, MalformedTicket(c) PROVE TypeOK'
  BY <1>4, ReplyTypes, MergedTickets
     DEF MalformedTicket, TicketStep, reportFault, TypeOK, Clients
<1>5. ASSUME NEW c \in Trusted, NEW r \in TicketRequests, RejectTicket(c, r)
      PROVE  TypeOK'
  BY <1>5, ReplyTypes, MergedTickets
     DEF RejectTicket, TicketStep, reportFault, TypeOK, Clients
<1>6. ASSUME NEW c \in Trusted, NEW r \in TicketRequests, DenyPin(c, r)
      PROVE  TypeOK'
  <2>1. read_from_csv[r.ticket] \in Uids /\ c \in Clients
    BY <1>6, TicketVoter DEF DenyPin, Clients
  <2> QED
    BY <1>6, <2>1, ReplyTypes, MergedTickets DEF DenyPin, TicketStep, TypeOK
<1>7. ASSUME NEW c \in Trusted, NEW r \in TicketRequests, DenyWindow(c, r)
      PROVE  TypeOK'
  <2>1. read_from_csv[r.ticket] \in Uids /\ c \in Clients
    BY <1>7, TicketVoter DEF DenyWindow, Clients
  <2> QED
    BY <1>7, <2>1, ReplyTypes, MergedTickets
       DEF DenyWindow, TicketStep, reportFault, TypeOK
<1>8. ASSUME NEW c \in Trusted, NEW r \in TicketRequests, RedeemTicket(c, r)
      PROVE  TypeOK'
  <2>1. read_from_csv[r.ticket] \in Uids /\ c \in Clients
    BY <1>8, TicketVoter DEF RedeemTicket, Clients
  <2>2. r.ticket \in Tickets
    OBVIOUS
  <2>3. voter_status_table' \in [Roll -> VoterStatus]
    BY <1>8 DEF RedeemTicket, AfterRedeem, VoterStatus, TypeOK
  <2> QED
    BY <1>8, <2>1, <2>2, <2>3, ReplyTypes, MergedTickets
       DEF RedeemTicket, TicketStep, TypeOK
<1>9. ASSUME NEW v \in Roll, ExpireTimer(v) PROVE TypeOK'
  BY <1>9, ReplyTypes DEF ExpireTimer, TypeOK
<1>10. ASSUME NEW v \in Roll, handle_verification_timeout(v) PROVE TypeOK'
  <2>1. voter_status_table' \in [Roll -> VoterStatus]
    BY <1>10 DEF handle_verification_timeout, AfterTimeout, VoterStatus, TypeOK
  <2> QED
    BY <1>10, <2>1, ReplyTypes DEF handle_verification_timeout, TypeOK
<1>12. ASSUME Tick PROVE TypeOK'
  BY <1>12, ReplyTypes DEF Tick, TypeOK, volatile
<1>13. ASSUME Kill PROVE TypeOK'
  BY <1>13, ReplyTypes DEF Kill, TypeOK, volatile
<1>14. ASSUME Start PROVE TypeOK'
  BY <1>14, ReplyTypes DEF Start, TypeOK, NoTimers, NoTickets, VoterStatus
<1>15. CASE UNCHANGED vars
  BY <1>15 DEF vars, volatile, TypeOK
<1> QED
  BY <1>1, <1>2, <1>3, <1>4, <1>5, <1>6, <1>7, <1>8, <1>9, <1>10, <1>12,
     <1>13, <1>14, <1>15 DEF Next

\* The type invariant: the service keeps its tables well-typed, and every
\* ticket it knows or has filed belongs to a voter of the roll.
THEOREM TypeCorrect == Spec => []TypeOK
<1>1. Init => TypeOK
  BY CheckinAssumption, ReplyTypes
     DEF Init, TypeOK, NoTimers, NoTickets, VoterStatus, Tickets
<1> QED
  BY <1>1, TypeStep, PTL DEF Spec

----------------------------------------------------------------------------
(* The inductive invariant *)

\* What a timer entry that is not None looks like.
LEMMA TimerType ==
  ASSUME TypeOK, NEW v \in Roll, request_timers[v] # None
  PROVE  request_timers[v] \in [expiry : Nat, armed : BOOLEAN]
BY DEF TypeOK

\* Steps that touch neither statuses nor timers keep the invariant, also when
\* the clock advances.
LEMMA QuietStep ==
  ASSUME IInv, TypeOK', UNCHANGED volatile, now' >= now
  PROVE  IInv'
<1>1. PendingHasOneTimeout' /\ OrphanIsCheckedIn'
  BY DEF IInv, PendingHasOneTimeout, OrphanIsCheckedIn, volatile
<1>2. QueuedIsDue'
  BY TimerType DEF IInv, TypeOK, QueuedIsDue, volatile
<1> QED
  BY <1>1, <1>2 DEF IInv

\* A redeemed ticket belongs to a voter who is PENDING and has a timer.
LEMMA RedeemsPending ==
  ASSUME IInv, NEW c, NEW r \in TicketRequests, RedeemTicket(c, r)
  PROVE  LET v == read_from_csv[r.ticket]
         IN  /\ v \in Roll
             /\ request_timers[v] # None
             /\ now <= request_timers[v].expiry
             /\ voter_status_table[v] = "PENDING"
<1> DEFINE v == read_from_csv[r.ticket]
<1>1. v \in Roll
  BY TicketVoter DEF IInv, RedeemTicket
<1>2. request_timers[v] # None /\ now <= request_timers[v].expiry
  BY DEF RedeemTicket, InWindow
<1> QED
  BY <1>1, <1>2 DEF IInv, PendingHasOneTimeout

\* An approved check-in request arms the one timer of its voter.
LEMMA AcceptStep ==
  ASSUME IInv, TypeOK', NEW c, NEW r \in CheckinRequests, AcceptCheckin(c, r)
  PROVE  IInv'
<1> DEFINE w == r.voter
           T == [expiry |-> now + TIMEOUT_INTERVAL, armed |-> TRUE]
<1>1. w \in Roll /\ voter_status_table[w] = "ELIGIBLE"
  BY DEF AcceptCheckin, Eligible
<1>2. ready_timeouts[w] = 0
  BY <1>1 DEF IInv, PendingHasOneTimeout, OrphanIsCheckedIn
<1>3. T # None
  <2>1. T \in [expiry : Nat, armed : BOOLEAN]
    BY CheckinAssumption DEF IInv, TypeOK
  <2> QED
    BY <2>1, CheckinAssumption
<1>4. /\ voter_status_table' = [voter_status_table EXCEPT ![w] = "PENDING"]
      /\ request_timers' = [request_timers EXCEPT ![w] = T]
      /\ ready_timeouts' = ready_timeouts /\ now' = now
  BY DEF AcceptCheckin, start_timer
<1>5. /\ voter_status_table \in [Roll -> VoterStatus]
      /\ request_timers \in [Roll -> [expiry : Nat, armed : BOOLEAN] \cup {None}]
  BY DEF IInv, TypeOK
<1>6. PendingHasOneTimeout'
  BY <1>1, <1>2, <1>3, <1>4, <1>5 DEF IInv, PendingHasOneTimeout
<1>7. QueuedIsDue'
  BY <1>1, <1>4, <1>5 DEF IInv, QueuedIsDue
<1>8. OrphanIsCheckedIn'
  BY <1>1, <1>2, <1>4, <1>5 DEF IInv, OrphanIsCheckedIn
<1> QED
  BY <1>6, <1>7, <1>8 DEF IInv

\* A redeemed ticket leaves at most a completion of a checked-in voter behind.
LEMMA RedeemStep ==
  ASSUME IInv, TypeOK', NEW c, NEW r \in TicketRequests, RedeemTicket(c, r)
  PROVE  IInv'
<1> DEFINE w == read_from_csv[r.ticket]
<1>1. /\ w \in Roll
      /\ request_timers[w] # None
      /\ voter_status_table[w] = "PENDING"
  BY RedeemsPending
<1>2. /\ voter_status_table' = [voter_status_table EXCEPT ![w] = "CHECKED_IN"]
      /\ request_timers' = [request_timers EXCEPT ![w] = None]
      /\ ready_timeouts' = ready_timeouts /\ now' = now
  BY <1>1 DEF RedeemTicket, TicketStep, AfterRedeem, IInv, TypeOK
<1>3. /\ voter_status_table \in [Roll -> VoterStatus]
      /\ request_timers \in [Roll -> [expiry : Nat, armed : BOOLEAN] \cup {None}]
  BY DEF IInv, TypeOK
<1>4. PendingHasOneTimeout'
  BY <1>1, <1>2, <1>3 DEF IInv, PendingHasOneTimeout
<1>5. QueuedIsDue'
  BY <1>1, <1>2, <1>3 DEF IInv, QueuedIsDue
<1>6. OrphanIsCheckedIn'
  BY <1>1, <1>2, <1>3 DEF IInv, OrphanIsCheckedIn
<1> QED
  BY <1>4, <1>5, <1>6 DEF IInv

\* An expired wait becomes the one queued completion of its timer.
LEMMA ExpireStep ==
  ASSUME IInv, TypeOK', NEW w \in Roll, ExpireTimer(w)
  PROVE  IInv'
<1> DEFINE T == [expiry |-> request_timers[w].expiry, armed |-> FALSE]
<1>1. /\ request_timers' = [request_timers EXCEPT ![w] = T]
      /\ ready_timeouts' = [ready_timeouts EXCEPT ![w] = @ + 1]
      /\ voter_status_table' = voter_status_table /\ now' = now
      /\ request_timers[w] # None /\ request_timers[w].armed
      /\ now >= request_timers[w].expiry
  BY DEF ExpireTimer
<1>2. T # None
  <2>1. T \in [expiry : Nat, armed : BOOLEAN]
    BY <1>1, TimerType DEF IInv
  <2> QED
    BY <2>1, CheckinAssumption
<1>3. /\ ready_timeouts \in [Roll -> Nat]
      /\ request_timers \in [Roll -> [expiry : Nat, armed : BOOLEAN] \cup {None}]
  BY DEF IInv, TypeOK
<1>4. PendingHasOneTimeout'
  BY <1>1, <1>2, <1>3 DEF IInv, PendingHasOneTimeout
<1>5. QueuedIsDue'
  BY <1>1, <1>2, <1>3 DEF IInv, QueuedIsDue
<1>6. OrphanIsCheckedIn'
  BY <1>1, <1>2, <1>3 DEF IInv, OrphanIsCheckedIn
<1> QED
  BY <1>4, <1>5, <1>6 DEF IInv

\* A completion removes the timer it belongs to, or finds a checked-in voter.
LEMMA TimeoutStep ==
  ASSUME IInv, TypeOK', NEW w \in Roll, handle_verification_timeout(w)
  PROVE  IInv'
<1>1. /\ voter_status_table' = [voter_status_table EXCEPT ![w] =
                                  AfterTimeout(voter_status_table[w])]
      /\ request_timers' = [request_timers EXCEPT ![w] = None]
      /\ ready_timeouts' = [ready_timeouts EXCEPT ![w] = @ - 1]
      /\ ready_timeouts[w] > 0 /\ now' = now
  BY DEF handle_verification_timeout
<1>2. /\ voter_status_table \in [Roll -> VoterStatus]
      /\ ready_timeouts \in [Roll -> Nat]
      /\ request_timers \in [Roll -> [expiry : Nat, armed : BOOLEAN] \cup {None}]
  BY DEF IInv, TypeOK
<1>3. AfterTimeout(voter_status_table[w]) # "PENDING"
  BY DEF AfterTimeout
<1>4. PendingHasOneTimeout'
  BY <1>1, <1>2, <1>3 DEF IInv, PendingHasOneTimeout
<1>5. QueuedIsDue'
  BY <1>1, <1>2 DEF IInv, QueuedIsDue
<1>6. OrphanIsCheckedIn'
  <2>1. CASE request_timers[w] = None
    BY <1>1, <1>2, <2>1 DEF IInv, OrphanIsCheckedIn, AfterTimeout
  <2>2. CASE request_timers[w] # None
    <3>1. ready_timeouts[w] = 1
      BY <1>1, <2>2 DEF IInv, PendingHasOneTimeout
    <3> QED
      BY <1>1, <1>2, <3>1 DEF IInv, OrphanIsCheckedIn
  <2> QED
    BY <2>1, <2>2
<1> QED
  BY <1>4, <1>5, <1>6 DEF IInv

\* The invariant holds initially.
LEMMA InvInit == Init => IInv
<1>1. Init => TypeOK
  BY CheckinAssumption, ReplyTypes
     DEF Init, TypeOK, NoTimers, NoTickets, VoterStatus, Tickets
<1> QED
  BY <1>1 DEF Init, IInv, PendingHasOneTimeout, QueuedIsDue,
              OrphanIsCheckedIn, NoTimers

\* Every handler, and the end and start of the process, keep the invariant.
LEMMA InvStep == IInv /\ [Next]_vars => IInv'
<1> SUFFICES ASSUME IInv, [Next]_vars PROVE IInv'
  OBVIOUS
<1>0. TypeOK' /\ now \in Nat
  BY TypeStep DEF IInv, TypeOK
<1>1. ASSUME NEW c \in Kiosks, NEW r \in CheckinRequests, AcceptCheckin(c, r)
      PROVE  IInv'
  BY <1>0, <1>1, AcceptStep
<1>2. ASSUME NEW c \in Kiosks, NEW r \in CheckinRequests, RejectCheckin(c, r)
      PROVE  IInv'
  BY <1>0, <1>2, QuietStep DEF RejectCheckin, volatile
<1>3. ASSUME HandlerThrows PROVE IInv'
  BY <1>0, <1>3, QuietStep DEF HandlerThrows, volatile
<1>4. ASSUME NEW c \in Trusted, MalformedTicket(c) PROVE IInv'
  BY <1>0, <1>4, QuietStep DEF MalformedTicket, TicketStep, volatile
<1>5. ASSUME NEW c \in Trusted, NEW r \in TicketRequests,
             RejectTicket(c, r) \/ DenyPin(c, r) \/ DenyWindow(c, r)
      PROVE  IInv'
  <2>1. UNCHANGED volatile /\ now' = now
    BY <1>5 DEF RejectTicket, DenyPin, DenyWindow, TicketStep, volatile
  <2> QED
    BY <1>0, <2>1, QuietStep
<1>6. ASSUME NEW c \in Trusted, NEW r \in TicketRequests, RedeemTicket(c, r)
      PROVE  IInv'
  BY <1>0, <1>6, RedeemStep
<1>7. ASSUME NEW v \in Roll, ExpireTimer(v) PROVE IInv'
  BY <1>0, <1>7, ExpireStep
<1>8. ASSUME NEW v \in Roll, handle_verification_timeout(v) PROVE IInv'
  BY <1>0, <1>8, TimeoutStep
<1>9. ASSUME Kill PROVE IInv'
  BY <1>0, <1>9, QuietStep DEF Kill, volatile
<1>10. ASSUME Tick PROVE IInv'
  BY <1>0, <1>10, QuietStep DEF Tick, volatile
<1>11. ASSUME Start PROVE IInv'
  BY <1>0, <1>11 DEF Start, IInv, PendingHasOneTimeout, QueuedIsDue,
                     OrphanIsCheckedIn, NoTimers
<1>12. CASE UNCHANGED vars
  BY <1>0, <1>12, QuietStep DEF vars, volatile
<1> QED
  BY <1>1, <1>2, <1>3, <1>4, <1>5, <1>6, <1>7, <1>8, <1>9, <1>10, <1>11,
     <1>12 DEF Next

\* The invariant holds in every reachable state.
THEOREM Invariance == Spec => []IInv
BY InvInit, InvStep, PTL DEF Spec

\* PENDING voters and timers correspond, and every timer has exactly one
\* completion still to come: no voter is stuck PENDING for want of a timeout.
THEOREM OneTimeout == Spec => []PendingHasOneTimeout
<1>1. IInv => PendingHasOneTimeout
  BY DEF IInv
<1> QED
  BY <1>1, Invariance, PTL

----------------------------------------------------------------------------
(* The clock *)

\* The clock stays in the range where the freshness test is exact.
ClockOK == now \in Epoch .. MaxTime

\* The step of the clock and of the run counter in any step.
LEMMA ClockStep ==
  ASSUME IInv, ClockOK, [Next]_vars
  PROVE  /\ ClockOK'
         /\ now \in Nat /\ now' \in Nat /\ now' >= now
         /\ boot \in Nat /\ boot' \in Nat /\ boot' >= boot
<1> USE CheckinAssumption
<1>0. now \in Nat /\ boot \in Nat
  BY DEF IInv, TypeOK
<1>1. (now' = now \/ Tick) /\ (boot' = boot \/ Start)
  BY DEF Next, AcceptCheckin, RejectCheckin, HandlerThrows, MalformedTicket,
         RejectTicket, DenyPin, DenyWindow, RedeemTicket, TicketStep,
         ExpireTimer, handle_verification_timeout, Tick, Kill,
         Start, vars
<1>2. now' = now \/ (now' = now + 1 /\ now' <= MaxTime)
  BY <1>0, <1>1 DEF Tick
<1>3. boot' = boot \/ boot' = boot + 1
  BY <1>1 DEF Start
<1> QED
  BY <1>0, <1>2, <1>3 DEF ClockOK

\* The freshness test is exact at every clock value the service reaches.
THEOREM FreshnessExact == Spec => []FreshIsExact
<1>1. Init => ClockOK
  BY CheckinAssumption DEF Init, ClockOK
<1>2. IInv /\ ClockOK /\ [Next]_vars => ClockOK'
  BY ClockStep
<1>3. ClockOK => FreshIsExact
  <2> SUFFICES ASSUME ClockOK, NEW ts \in UInt64
               PROVE  FreshCorrect(now, ts)
    BY DEF FreshIsExact
  <2>1. now \in PlausibleClock
    BY CheckinAssumption, FreshnessAssumption DEF ClockOK, PlausibleClock
  <2> QED
    BY <2>1, FreshExact
<1> QED
  BY <1>1, <1>2, <1>3, Invariance, PTL DEF Spec

----------------------------------------------------------------------------
(* Action properties *)

\* Which steps change the status of a voter within one run, and how.
LEMMA StatusChange ==
  ASSUME IInv, [Next]_vars, boot' = boot, NEW v \in Roll,
         voter_status_table'[v] # voter_status_table[v]
  PROVE  \/ /\ voter_status_table[v] = "ELIGIBLE"
            /\ voter_status_table'[v] = "PENDING"
         \/ /\ voter_status_table[v] = "PENDING"
            /\ voter_status_table'[v] = "CHECKED_IN"
         \/ /\ voter_status_table[v] = "PENDING"
            /\ voter_status_table'[v] = "ELIGIBLE"
            /\ now >= request_timers[v].expiry
<1> USE DEF IInv
<1>0. voter_status_table \in [Roll -> VoterStatus] /\ boot \in Nat
  BY DEF TypeOK
<1>1. ASSUME NEW c \in Kiosks, NEW r \in CheckinRequests, AcceptCheckin(c, r)
      PROVE  /\ voter_status_table[v] = "ELIGIBLE"
             /\ voter_status_table'[v] = "PENDING"
  BY <1>0, <1>1 DEF AcceptCheckin, Eligible
<1>2. ASSUME NEW c \in Trusted, NEW r \in TicketRequests, RedeemTicket(c, r)
      PROVE  /\ voter_status_table[v] = "PENDING"
             /\ voter_status_table'[v] = "CHECKED_IN"
  BY <1>0, <1>2 DEF RedeemTicket, AfterRedeem
<1>3. ASSUME NEW w \in Roll, handle_verification_timeout(w)
      PROVE  /\ voter_status_table[v] = "PENDING"
             /\ voter_status_table'[v] = "ELIGIBLE"
             /\ now >= request_timers[v].expiry
  <2>1. /\ voter_status_table[v] = "PENDING"
        /\ voter_status_table'[v] = "ELIGIBLE"
        /\ v = w /\ ready_timeouts[v] > 0
    BY <1>0, <1>3 DEF handle_verification_timeout, AfterTimeout
  <2>2. request_timers[v] # None /\ ~request_timers[v].armed
    BY <2>1 DEF PendingHasOneTimeout
  <2> QED
    BY <2>1, <2>2 DEF QueuedIsDue
<1>4. ASSUME \/ \E c \in Kiosks, r \in CheckinRequests : RejectCheckin(c, r)
             \/ HandlerThrows
             \/ \E c \in Trusted : MalformedTicket(c)
             \/ \E c \in Trusted, r \in TicketRequests :
                  RejectTicket(c, r) \/ DenyPin(c, r) \/ DenyWindow(c, r)
             \/ \E w \in Roll : ExpireTimer(w)
             \/ Tick \/ Kill \/ UNCHANGED vars
      PROVE  FALSE
  BY <1>4 DEF RejectCheckin, HandlerThrows, MalformedTicket, RejectTicket,
              DenyPin, DenyWindow, ExpireTimer, Tick, Kill,
              vars, volatile
<1>5. ~Start
  BY <1>0 DEF Start
<1> QED
  BY <1>1, <1>2, <1>3, <1>4, <1>5 DEF Next

\* A queued timeout never takes back a check-in before its own window ends.
THEOREM NoEarlyRevertHolds == Spec => NoEarlyRevert
<1>1. IInv /\ [Next]_vars => [RevertsOnlyWhenDue]_vars
  BY StatusChange DEF RevertsOnlyWhenDue
<1> QED
  BY <1>1, Invariance, PTL DEF Spec, NoEarlyRevert

KeepsCheckedIn ==
  \A v \in Roll :
    voter_status_table[v] = "CHECKED_IN" /\ boot' = boot =>
      voter_status_table'[v] = "CHECKED_IN"

\* Within one run of the service nothing takes a check-in back, in particular
\* not a timeout that was already queued when the ticket was redeemed.
CheckedInIsFinal == [][KeepsCheckedIn]_vars

\* Within one run of the service, checked in is checked in.
THEOREM CheckedInIsFinalHolds == Spec => CheckedInIsFinal
<1>1. IInv /\ [Next]_vars => [KeepsCheckedIn]_vars
  BY StatusChange DEF KeepsCheckedIn
<1> QED
  BY <1>1, Invariance, PTL DEF Spec, CheckedInIsFinal

\* An approved TicketResponse checks its voter in, in the same step.
THEOREM ApprovalChecksInHolds == Spec => ApprovalChecksIn
<1>1. IInv /\ [Next]_vars => [ApprovesOnlyPending]_vars
  <2> SUFFICES ASSUME IInv, Next, reply'.kind = "ticket", reply'.approved
               PROVE  ApprovesOnlyPending
    BY DEF ApprovesOnlyPending
  <2>1. ASSUME NEW c \in Trusted, NEW r \in TicketRequests, RedeemTicket(c, r)
        PROVE  ApprovesOnlyPending
    <3> DEFINE w == read_from_csv[r.ticket]
    <3>1. w \in Roll /\ voter_status_table[w] = "PENDING"
      BY <2>1, RedeemsPending
    <3>2. reply'.voter = w
      BY <2>1 DEF RedeemTicket, TicketReply
    <3>3. voter_status_table'[w] = "CHECKED_IN"
      BY <2>1, <3>1 DEF RedeemTicket, AfterRedeem, IInv, TypeOK
    <3> QED
      BY <3>1, <3>2, <3>3 DEF ApprovesOnlyPending
  <2>2. ASSUME NEW c \in Trusted, NEW r \in TicketRequests,
               DenyPin(c, r) \/ DenyWindow(c, r)
        PROVE  FALSE
    BY <2>2 DEF DenyPin, DenyWindow, TicketReply
  <2>3. ASSUME NEW c \in Kiosks, NEW r \in CheckinRequests,
               AcceptCheckin(c, r) \/ RejectCheckin(c, r)
        PROVE  FALSE
    BY <2>3 DEF AcceptCheckin, RejectCheckin, CheckinReply, NoReply
  <2>4. ASSUME \/ HandlerThrows
               \/ \E c \in Trusted : MalformedTicket(c)
               \/ \E c \in Trusted, r \in TicketRequests : RejectTicket(c, r)
               \/ \E w \in Roll : ExpireTimer(w) \/ handle_verification_timeout(w)
               \/ Tick \/ Kill \/ Start
        PROVE  FALSE
    BY <2>4 DEF HandlerThrows, MalformedTicket, RejectTicket, ExpireTimer,
                handle_verification_timeout, Tick, Kill, Start,
                NoReply
  <2> QED
    BY <2>1, <2>2, <2>3, <2>4 DEF Next
<1> QED
  BY <1>1, Invariance, PTL DEF Spec, ApprovalChecksIn

----------------------------------------------------------------------------
(* Refinement *)

\* A step that changes neither statuses, timers, clock nor run is invisible.
LEMMA Invisible ==
  ASSUME UNCHANGED volatile, now' = now, boot' = boot
  PROVE  UNCHANGED Abstract!vars
BY DEF Abstract!vars, Deadlines, volatile

\* Every step of the service is a step of the abstract protocol or invisible.
LEMMA StepRefines == IInv /\ [Next]_vars => [Abstract!Next]_(Abstract!vars)
<1> SUFFICES ASSUME IInv, [Next]_vars
             PROVE  Abstract!Next \/ UNCHANGED Abstract!vars
  OBVIOUS
<1>0. /\ voter_status_table \in [Roll -> VoterStatus]
      /\ request_timers \in [Roll -> [expiry : Nat, armed : BOOLEAN] \cup {None}]
  BY DEF IInv, TypeOK
<1>1. ASSUME NEW c \in Kiosks, NEW r \in CheckinRequests, AcceptCheckin(c, r)
      PROVE  Abstract!Next
  <2>1. r.voter \in Roll /\ voter_status_table[r.voter] = "ELIGIBLE"
    BY <1>1 DEF AcceptCheckin, Eligible
  <2>2. [expiry |-> now + TIMEOUT_INTERVAL, armed |-> TRUE] # None
    <3>1. [expiry |-> now + TIMEOUT_INTERVAL, armed |-> TRUE]
            \in [expiry : Nat, armed : BOOLEAN]
      BY CheckinAssumption DEF IInv, TypeOK
    <3> QED
      BY <3>1, CheckinAssumption
  <2>3. Deadlines' = [Deadlines EXCEPT ![r.voter] = now + TIMEOUT_INTERVAL]
    BY <1>0, <1>1, <2>1, <2>2 DEF AcceptCheckin, start_timer, Deadlines
  <2>4. Abstract!Begin(r.voter)
    BY <1>1, <2>1, <2>3 DEF AcceptCheckin, Abstract!Begin
  <2> QED
    BY <2>1, <2>4 DEF Abstract!Next
<1>2. ASSUME NEW c \in Trusted, NEW r \in TicketRequests, RedeemTicket(c, r)
      PROVE  Abstract!Next
  <2> DEFINE w == read_from_csv[r.ticket]
  <2>1. /\ w \in Roll
        /\ request_timers[w] # None
        /\ now <= request_timers[w].expiry
        /\ voter_status_table[w] = "PENDING"
    BY <1>2, RedeemsPending
  <2>2. Deadlines' = [Deadlines EXCEPT ![w] = None]
    BY <1>0, <1>2, <2>1 DEF RedeemTicket, Deadlines
  <2>3. Deadlines[w] = request_timers[w].expiry
    BY <2>1 DEF Deadlines
  <2>4. voter_status_table' = [voter_status_table EXCEPT ![w] = "CHECKED_IN"]
    BY <1>0, <1>2, <2>1 DEF RedeemTicket, AfterRedeem
  <2>5. Abstract!Complete(w)
    BY <1>2, <2>1, <2>2, <2>3, <2>4
       DEF RedeemTicket, TicketStep, Abstract!Complete
  <2> QED
    BY <2>1, <2>5 DEF Abstract!Next
<1>3. ASSUME NEW w \in Roll, handle_verification_timeout(w)
      PROVE  Abstract!Next \/ UNCHANGED Abstract!vars
  <2>1. Deadlines' = [Deadlines EXCEPT ![w] = None]
    BY <1>0, <1>3 DEF handle_verification_timeout, Deadlines
  <2>2. CASE request_timers[w] # None
    <3>1. voter_status_table[w] = "PENDING" /\ ~request_timers[w].armed
      BY <1>3, <2>2 DEF handle_verification_timeout, IInv, PendingHasOneTimeout
    <3>2. now >= Deadlines[w]
      BY <2>2, <3>1 DEF IInv, QueuedIsDue, Deadlines
    <3>3. voter_status_table' = [voter_status_table EXCEPT ![w] = "ELIGIBLE"]
      BY <1>0, <1>3, <3>1 DEF handle_verification_timeout, AfterTimeout
    <3>4. Abstract!Lapse(w)
      BY <1>3, <2>1, <3>1, <3>2, <3>3
         DEF handle_verification_timeout, Abstract!Lapse
    <3> QED
      BY <3>4 DEF Abstract!Next
  <2>3. CASE request_timers[w] = None
    <3>1. voter_status_table[w] # "PENDING"
      BY <2>3 DEF IInv, PendingHasOneTimeout
    <3>2. /\ voter_status_table' = voter_status_table
          /\ request_timers' = request_timers
      BY <1>0, <1>3, <2>3, <3>1 DEF handle_verification_timeout, AfterTimeout
    <3> QED
      BY <1>3, <3>2 DEF handle_verification_timeout, Abstract!vars, Deadlines
  <2> QED
    BY <2>2, <2>3
<1>4. ASSUME NEW w \in Roll, ExpireTimer(w) PROVE UNCHANGED Abstract!vars
  <2> DEFINE T == [expiry |-> request_timers[w].expiry, armed |-> FALSE]
  <2>1. T # None
    <3>1. T \in [expiry : Nat, armed : BOOLEAN]
      BY <1>4, TimerType DEF IInv, ExpireTimer
    <3> QED
      BY <3>1, CheckinAssumption
  <2>2. Deadlines' = Deadlines
    BY <1>0, <1>4, <2>1 DEF ExpireTimer, Deadlines
  <2> QED
    BY <1>4, <2>2 DEF ExpireTimer, Abstract!vars
<1>5. ASSUME Start PROVE Abstract!Next
  <2>1. Deadlines' = [v \in Roll |-> None]
    BY <1>5 DEF Start, NoTimers, Deadlines
  <2> QED
    BY <1>5, <2>1 DEF Start, Abstract!Restart, Abstract!Next
<1>6. ASSUME Tick PROVE Abstract!Next
  BY <1>6 DEF Tick, volatile, Deadlines, Abstract!Tick, Abstract!Next
<1>7. ASSUME \/ \E c \in Kiosks, r \in CheckinRequests : RejectCheckin(c, r)
             \/ HandlerThrows
             \/ \E c \in Trusted : MalformedTicket(c)
             \/ \E c \in Trusted, r \in TicketRequests :
                  RejectTicket(c, r) \/ DenyPin(c, r) \/ DenyWindow(c, r)
             \/ Kill \/ UNCHANGED vars
      PROVE  UNCHANGED Abstract!vars
  <2>1. UNCHANGED volatile /\ now' = now /\ boot' = boot
    BY <1>7 DEF RejectCheckin, HandlerThrows, MalformedTicket, RejectTicket,
                DenyPin, DenyWindow, TicketStep, Kill, vars,
                volatile
  <2> QED
    BY <2>1, Invisible
<1> QED
  BY <1>1, <1>2, <1>3, <1>4, <1>5, <1>6, <1>7 DEF Next

\* The check-in service implements the abstract two-phase protocol.
THEOREM Refinement == Spec => ImplementsTwoPhase
<1>1. Init => Abstract!Init
  BY DEF Init, NoTimers, Deadlines, Abstract!Init
<1> QED
  BY <1>1, Invariance, StepRefines, PTL
     DEF Spec, ImplementsTwoPhase, Abstract!Spec
=============================================================================
