----------------------- MODULE CheckinHistory_proofs -----------------------
(***************************************************************************)
(* Theorems about what the service grants over time.                       *)
(***************************************************************************)
EXTENDS CheckinHistory, CheckinService_proofs

\* What is recorded about a grant.
GrantOK(g) ==
  /\ g.request \in CheckinRequests
  /\ g.request.voter \in Roll
  /\ g.at \in Epoch .. now
  /\ g.boot \in Nat /\ g.boot <= boot
  /\ Within(g.at, g.request.ts) \/ g.request.ts = g.at + HALF

\* While its run lasts, a grant keeps its voter from being ELIGIBLE until the
\* window has passed.
Holds(g) ==
  LET v == g.request.voter IN
  \/ voter_status_table[v] = "CHECKED_IN"
  \/ /\ request_timers[v] # None
     /\ request_timers[v].expiry >= g.at + TIMEOUT_INTERVAL
  \/ now >= g.at + TIMEOUT_INTERVAL

GrantsHold ==
  \A g \in granted : GrantOK(g) /\ (g.boot = boot => Holds(g))

\* Every timer was started by a grant of this run.
TimerFromGrant ==
  \A v \in Roll : request_timers[v] # None =>
    \E g \in granted :
      /\ g.request.voter = v /\ g.boot = boot
      /\ g.at \in Nat /\ g.at <= now
      /\ request_timers[v].expiry = g.at + TIMEOUT_INTERVAL

\* While its run lasts, the voter of a redeemed ticket stays CHECKED_IN.
RedeemedCheckedIn ==
  \A d \in redeemed :
    /\ d.voter \in Roll
    /\ d.boot \in Nat /\ d.boot <= boot
    /\ d.boot = boot => voter_status_table[d.voter] = "CHECKED_IN"

\* The inductive invariant of the specification with history.
HInv ==
  /\ IInv
  /\ ClockOK
  /\ GrantsHold
  /\ TimerFromGrant
  /\ RedeemedCheckedIn
  /\ OneCheckinPerRun
  /\ NoReplayedCheckin
  /\ RedeemedAfterGrant

----------------------------------------------------------------------------
\* History adds nothing to what the service does.
LEMMA HistoryStep == [HNext]_hvars => [Next]_vars
BY DEF HNext, HAccept, HRedeem, Other, Next, hvars

\* A timer is not replaced by another one: while a voter has a timer, its
\* expiry stays.
LEMMA TimerKept ==
  ASSUME IInv, [Next]_vars, boot' = boot, NEW v \in Roll,
         request_timers[v] # None, request_timers'[v] # None
  PROVE  request_timers'[v].expiry = request_timers[v].expiry
<1>0. request_timers \in [Roll -> [expiry : Nat, armed : BOOLEAN] \cup {None}]
  BY DEF IInv, TypeOK
<1>1. ASSUME NEW c \in Kiosks, NEW r \in CheckinRequests, AcceptCheckin(c, r)
      PROVE  request_timers'[v] = request_timers[v]
  <2>1. v # r.voter
    BY <1>1 DEF AcceptCheckin, Eligible, IInv, PendingHasOneTimeout
  <2> QED
    BY <1>0, <1>1, <2>1 DEF AcceptCheckin, start_timer
<1>2. ASSUME NEW c \in Trusted, NEW r \in TicketRequests, RedeemTicket(c, r)
      PROVE  request_timers'[v] = request_timers[v]
  BY <1>0, <1>2 DEF RedeemTicket
<1>3. ASSUME NEW w \in Roll, handle_verification_timeout(w)
      PROVE  request_timers'[v] = request_timers[v]
  BY <1>0, <1>3 DEF handle_verification_timeout
<1>4. ASSUME NEW w \in Roll, ExpireTimer(w)
      PROVE  request_timers'[v].expiry = request_timers[v].expiry
  BY <1>0, <1>4 DEF ExpireTimer
<1>5. ASSUME \/ \E c \in Kiosks, r \in CheckinRequests : RejectCheckin(c, r)
             \/ HandlerThrows
             \/ \E c \in Trusted : MalformedTicket(c)
             \/ \E c \in Trusted, r \in TicketRequests :
                  RejectTicket(c, r) \/ DenyPin(c, r) \/ DenyWindow(c, r)
             \/ Tick \/ Kill \/ UNCHANGED vars
      PROVE  request_timers' = request_timers
  BY <1>5 DEF RejectCheckin, HandlerThrows, MalformedTicket, RejectTicket,
              DenyPin, DenyWindow, Tick, Kill, vars, volatile
<1>6. ~Start
  BY DEF Start, IInv, TypeOK
<1> QED
  BY <1>1, <1>2, <1>3, <1>4, <1>5, <1>6 DEF Next

\* Only an approved check-in request starts a timer.
LEMMA NoTimerStarted ==
  ASSUME IInv, NEW v \in Roll, request_timers'[v] # None,
         \/ Other
         \/ \E c \in Trusted, r \in TicketRequests : RedeemTicket(c, r)
         \/ UNCHANGED vars
  PROVE  request_timers[v] # None
<1>0. request_timers \in [Roll -> [expiry : Nat, armed : BOOLEAN] \cup {None}]
  BY DEF IInv, TypeOK
<1>1. ASSUME \/ \E c \in Kiosks, r \in CheckinRequests : RejectCheckin(c, r)
             \/ HandlerThrows
             \/ \E c \in Trusted : MalformedTicket(c)
             \/ \E c \in Trusted, r \in TicketRequests :
                  RejectTicket(c, r) \/ DenyPin(c, r) \/ DenyWindow(c, r)
             \/ Tick \/ Kill \/ UNCHANGED vars
      PROVE  request_timers' = request_timers
  BY <1>1 DEF RejectCheckin, HandlerThrows, MalformedTicket, RejectTicket,
              DenyPin, DenyWindow, Tick, Kill, vars, volatile
<1>2. ASSUME NEW c \in Trusted, NEW r \in TicketRequests, RedeemTicket(c, r)
      PROVE  request_timers[v] # None
  BY <1>0, <1>2 DEF RedeemTicket
<1>3. ASSUME NEW w \in Roll, ExpireTimer(w) \/ handle_verification_timeout(w)
      PROVE  request_timers[v] # None
  BY <1>0, <1>3 DEF ExpireTimer, handle_verification_timeout
<1>4. ~Start
  BY DEF Start, NoTimers
<1> QED
  BY <1>1, <1>2, <1>3, <1>4 DEF Other

\* A grant keeps holding through every step of its run.
LEMMA HoldsStep ==
  ASSUME IInv, ClockOK, [Next]_vars, boot' = boot,
         NEW g, g.request.voter \in Roll, g.at \in Nat, Holds(g)
  PROVE  Holds(g)'
<1> DEFINE v == g.request.voter
<1>0. /\ now \in Nat /\ now' \in Nat /\ now' >= now
      /\ TIMEOUT_INTERVAL \in Nat
      /\ voter_status_table \in [Roll -> VoterStatus]
      /\ request_timers \in [Roll -> [expiry : Nat, armed : BOOLEAN] \cup {None}]
  BY ClockStep, CheckinAssumption DEF IInv, TypeOK
<1>1. CASE voter_status_table[v] = "CHECKED_IN"
  <2>1. voter_status_table'[v] = "CHECKED_IN"
    BY <1>1, StatusChange
  <2> QED
    BY <2>1 DEF Holds
<1>2. CASE now >= g.at + TIMEOUT_INTERVAL
  BY <1>0, <1>2 DEF Holds
<1>3. CASE /\ request_timers[v] # None
           /\ request_timers[v].expiry >= g.at + TIMEOUT_INTERVAL
  <2>1. voter_status_table[v] = "PENDING"
    BY <1>3 DEF IInv, PendingHasOneTimeout
  <2>2. CASE voter_status_table'[v] = "CHECKED_IN"
    BY <2>2 DEF Holds
  <2>3. CASE voter_status_table'[v] = "ELIGIBLE"
    <3>1. now >= request_timers[v].expiry /\ request_timers[v].expiry \in Nat
      BY <1>3, <2>1, <2>3, StatusChange, TimerType DEF IInv
    <3> QED
      BY <1>0, <1>3, <3>1 DEF Holds
  <2>4. CASE voter_status_table'[v] = "PENDING"
    <3>1. request_timers'[v] # None
      BY <2>4, InvStep DEF IInv, PendingHasOneTimeout
    <3>2. request_timers'[v].expiry = request_timers[v].expiry
      BY <1>3, <3>1, TimerKept
    <3> QED
      BY <1>3, <3>1, <3>2 DEF Holds
  <2> QED
    BY <2>1, <2>2, <2>3, <2>4, StatusChange
<1> QED
  BY <1>1, <1>2, <1>3 DEF Holds

\* What an approved check-in request adds: a grant that is well-formed and
\* holds, and the timer of that grant.
LEMMA NewGrant ==
  ASSUME IInv, ClockOK, NEW c \in Kiosks, NEW r \in CheckinRequests,
         AcceptCheckin(c, r), NEW g, g = Grant(r)
  PROVE  /\ GrantOK(g)' /\ Holds(g)'
         /\ r.voter \in Roll
         /\ request_timers'[r.voter].expiry = now + TIMEOUT_INTERVAL
<1>0. /\ now \in Nat /\ boot \in Nat /\ TIMEOUT_INTERVAL \in Nat
      /\ request_timers \in [Roll -> [expiry : Nat, armed : BOOLEAN] \cup {None}]
      /\ now' = now /\ boot' = boot
  BY CheckinAssumption DEF IInv, TypeOK, AcceptCheckin
<1>1. r.voter \in Roll /\ g.request = r /\ g.at = now /\ g.boot = boot
  BY DEF AcceptCheckin, Eligible, Grant
<1>2. request_timers'[r.voter] =
        [expiry |-> now + TIMEOUT_INTERVAL, armed |-> TRUE]
  BY <1>0, <1>1 DEF AcceptCheckin, start_timer
<1>3. request_timers'[r.voter] # None
  <2>1. request_timers'[r.voter] \in [expiry : Nat, armed : BOOLEAN]
    BY <1>0, <1>2
  <2> QED
    BY <2>1, CheckinAssumption
<1>4. Holds(g)'
  BY <1>0, <1>1, <1>2, <1>3 DEF Holds
<1>5. now \in PlausibleClock /\ r.ts \in UInt64
  BY <1>0, CheckinAssumption, FreshnessAssumption DEF ClockOK, PlausibleClock
<1>6. Within(now, r.ts) \/ r.ts = now + HALF
  BY <1>5, FreshSound DEF AcceptCheckin, PassesValidation
<1>7. GrantOK(g)'
  BY <1>0, <1>1, <1>6, CheckinAssumption DEF GrantOK, ClockOK, Within
<1> QED
  BY <1>1, <1>2, <1>4, <1>7

\* A request that was approved is not approved again in the same run: the
\* voter is ELIGIBLE again only after the window, and by then the timestamp
\* cannot pass the freshness test.
LEMMA NotTwice ==
  ASSUME HInv, NEW c \in Kiosks, NEW r \in CheckinRequests,
         AcceptCheckin(c, r), NEW g \in granted, g.request = r, g.boot = boot
  PROVE  FALSE
<1> DEFINE F == REQUEST_FRESHNESS_INTERVAL
<1>1. /\ r.voter \in Roll /\ voter_status_table[r.voter] = "ELIGIBLE"
      /\ request_timers[r.voter] = None
  BY DEF AcceptCheckin, Eligible, HInv, IInv, PendingHasOneTimeout
<1>2. GrantOK(g) /\ Holds(g)
  BY DEF HInv, GrantsHold
<1>3. now >= g.at + TIMEOUT_INTERVAL
  BY <1>1, <1>2 DEF Holds
<1>4. /\ now \in PlausibleClock /\ r.ts \in UInt64
      /\ now \in Nat /\ g.at \in Nat /\ now + F < HALF
      /\ g.at + F < HALF /\ g.at <= now
  BY <1>2, CheckinAssumption, FreshnessAssumption
     DEF HInv, IInv, TypeOK, ClockOK, PlausibleClock, GrantOK
<1>5. Within(now, r.ts) \/ r.ts = now + HALF
  BY <1>4, FreshSound DEF AcceptCheckin, PassesValidation
<1>6. Within(g.at, r.ts) \/ r.ts = g.at + HALF
  BY <1>2 DEF GrantOK
<1>7. /\ TIMEOUT_INTERVAL \in Nat \ {0} /\ F \in Nat /\ HALF \in Nat
      /\ TIMEOUT_INTERVAL > 2 * F /\ r.ts \in Nat
  BY <1>4, CheckinAssumption, FreshnessAssumption, ReplayAssumption DEF UInt64
<1> QED
  BY <1>3, <1>4, <1>5, <1>6, <1>7 DEF Within

----------------------------------------------------------------------------
(* The invariant is inductive *)

\* The conjuncts about grants and timers.
LEMMA GrantsStep ==
  ASSUME HInv, [HNext]_hvars
  PROVE  GrantsHold' /\ TimerFromGrant'
<1>0. /\ IInv /\ ClockOK /\ [Next]_vars
      /\ now \in Nat /\ now' \in Nat /\ now' >= now
      /\ boot \in Nat /\ boot' \in Nat /\ boot' >= boot
      /\ Epoch \in Nat /\ TIMEOUT_INTERVAL \in Nat
  BY HistoryStep, ClockStep, CheckinAssumption DEF HInv
<1>1. ASSUME NEW g \in granted
      PROVE  GrantOK(g)' /\ (g.boot = boot' => Holds(g)')
  <2>1. GrantOK(g) /\ (g.boot = boot => Holds(g))
    BY DEF HInv, GrantsHold
  <2>2. GrantOK(g)'
    BY <1>0, <2>1 DEF GrantOK, Within
  <2>3. ASSUME g.boot = boot' PROVE Holds(g)'
    <3>1. boot' = boot
      BY <1>0, <2>1, <2>3 DEF GrantOK
    <3>2. g.request.voter \in Roll /\ g.at \in Nat /\ Holds(g)
      BY <1>0, <2>1, <2>3, <3>1 DEF GrantOK
    <3> QED
      BY <1>0, <3>1, <3>2, HoldsStep
  <2> QED
    BY <2>2, <2>3
<1>2. ASSUME NEW v \in Roll, request_timers[v] # None, request_timers'[v] # None,
             granted \subseteq granted'
      PROVE  \E g \in granted' :
               /\ g.request.voter = v /\ g.boot = boot'
               /\ g.at \in Nat /\ g.at <= now'
               /\ request_timers'[v].expiry = g.at + TIMEOUT_INTERVAL
  <2>1. boot' = boot
    <3>1. ~Start
      BY <1>2 DEF Start, NoTimers
    <3> QED
      BY <1>0, <3>1
         DEF Next, AcceptCheckin, RejectCheckin, HandlerThrows,
             MalformedTicket, RejectTicket, DenyPin, DenyWindow, RedeemTicket,
             TicketStep, ExpireTimer, handle_verification_timeout,
             Tick, Kill, vars
  <2>2. request_timers'[v].expiry = request_timers[v].expiry
    BY <1>0, <1>2, <2>1, TimerKept
  <2>3. PICK g \in granted :
          /\ g.request.voter = v /\ g.boot = boot
          /\ g.at \in Nat /\ g.at <= now
          /\ request_timers[v].expiry = g.at + TIMEOUT_INTERVAL
    BY <1>2 DEF HInv, TimerFromGrant
  <2>4. g \in granted' /\ g.at <= now'
    BY <1>0, <1>2, <2>3
  <2> QED
    BY <2>1, <2>2, <2>3, <2>4
<1>3. ASSUME NEW c \in Kiosks, NEW r \in CheckinRequests, HAccept(c, r)
      PROVE  GrantsHold' /\ TimerFromGrant'
  <2>1. AcceptCheckin(c, r) /\ granted' = granted \cup {Grant(r)}
    BY <1>3 DEF HAccept
  <2>2. PICK n : n = Grant(r)
    OBVIOUS
  <2>3. /\ GrantOK(n)' /\ Holds(n)'
        /\ r.voter \in Roll
        /\ request_timers'[r.voter].expiry = now + TIMEOUT_INTERVAL
    BY <1>0, <2>1, <2>2, NewGrant
  <2>4. GrantsHold'
    BY <1>1, <2>1, <2>2, <2>3 DEF GrantsHold
  <2>5. ASSUME NEW v \in Roll, request_timers'[v] # None
        PROVE  \E g \in granted' :
                 /\ g.request.voter = v /\ g.boot = boot'
                 /\ g.at \in Nat /\ g.at <= now'
                 /\ request_timers'[v].expiry = g.at + TIMEOUT_INTERVAL
    <3>1. CASE v = r.voter
      <4>1. /\ n \in granted' /\ n.request.voter = v /\ n.at = now
            /\ n.boot = boot /\ boot' = boot
        BY <2>1, <2>2, <3>1 DEF Grant, AcceptCheckin
      <4> QED
        BY <1>0, <2>3, <3>1, <4>1
    <3>2. CASE v # r.voter
      <4>1. request_timers[v] # None
        BY <1>0, <2>1, <2>5, <3>2
           DEF AcceptCheckin, start_timer, IInv, TypeOK
      <4> QED
        BY <1>2, <2>1, <2>5, <4>1
    <3> QED
      BY <3>1, <3>2
  <2> QED
    BY <2>4, <2>5 DEF TimerFromGrant
<1>4. ASSUME \/ \E c \in Trusted, r \in TicketRequests : HRedeem(c, r)
             \/ Other /\ UNCHANGED <<granted, redeemed>>
             \/ UNCHANGED hvars
      PROVE  GrantsHold' /\ TimerFromGrant'
  <2>1. /\ granted' = granted
        /\ \/ Other
           \/ \E c \in Trusted, r \in TicketRequests : RedeemTicket(c, r)
           \/ UNCHANGED vars
    BY <1>4 DEF HRedeem, hvars
  <2>2. GrantsHold'
    BY <1>1, <2>1 DEF GrantsHold
  <2>3. \A v \in Roll : request_timers'[v] # None => request_timers[v] # None
    BY <1>0, <2>1, NoTimerStarted
  <2> QED
    BY <1>2, <2>1, <2>2, <2>3 DEF TimerFromGrant
<1> QED
  BY <1>3, <1>4 DEF HNext

\* The conjuncts about redemptions.
LEMMA RedemptionsStep ==
  ASSUME HInv, [HNext]_hvars
  PROVE  RedeemedCheckedIn' /\ OneCheckinPerRun' /\ RedeemedAfterGrant'
<1>0. /\ IInv /\ ClockOK /\ [Next]_vars
      /\ boot \in Nat /\ boot' \in Nat /\ boot' >= boot
      /\ voter_status_table \in [Roll -> VoterStatus]
  BY HistoryStep, ClockStep DEF HInv, IInv, TypeOK
<1>1. ASSUME NEW d \in redeemed
      PROVE  /\ d.voter \in Roll /\ d.boot \in Nat /\ d.boot <= boot'
             /\ d.boot = boot' => voter_status_table'[d.voter] = "CHECKED_IN"
  <2>1. /\ d.voter \in Roll /\ d.boot \in Nat /\ d.boot <= boot
        /\ d.boot = boot => voter_status_table[d.voter] = "CHECKED_IN"
    BY DEF HInv, RedeemedCheckedIn
  <2>2. ASSUME d.boot = boot'
        PROVE  voter_status_table'[d.voter] = "CHECKED_IN"
    <3>1. boot' = boot /\ voter_status_table[d.voter] = "CHECKED_IN"
      BY <1>0, <2>1, <2>2
    <3> QED
      BY <1>0, <2>1, <3>1, StatusChange
  <2> QED
    BY <1>0, <2>1, <2>2
<1>2. ASSUME redeemed' = redeemed, granted \subseteq granted'
      PROVE  RedeemedCheckedIn' /\ OneCheckinPerRun' /\ RedeemedAfterGrant'
  BY <1>1, <1>2 DEF HInv, RedeemedCheckedIn, OneCheckinPerRun,
                    RedeemedAfterGrant
<1>3. ASSUME NEW c \in Trusted, NEW r \in TicketRequests, HRedeem(c, r)
      PROVE  RedeemedCheckedIn' /\ OneCheckinPerRun' /\ RedeemedAfterGrant'
  <2>1. /\ RedeemTicket(c, r) /\ redeemed' = redeemed \cup {Redemption(r)}
        /\ granted' = granted
    BY <1>3 DEF HRedeem
  <2>2. PICK n : n = Redemption(r)
    OBVIOUS
  <2>3. /\ n.voter \in Roll /\ n.boot = boot /\ n.at = now
        /\ request_timers[n.voter] # None
        /\ now <= request_timers[n.voter].expiry
        /\ voter_status_table[n.voter] = "PENDING"
    BY <1>0, <2>1, <2>2, RedeemsPending DEF Redemption
  <2>4. voter_status_table'[n.voter] = "CHECKED_IN" /\ boot' = boot
    BY <1>0, <2>1, <2>2, <2>3
       DEF RedeemTicket, TicketStep, AfterRedeem, Redemption
  <2>5. RedeemedCheckedIn'
    BY <1>0, <1>1, <2>1, <2>2, <2>3, <2>4 DEF RedeemedCheckedIn
  <2>6. \A d \in redeemed : ~(d.voter = n.voter /\ d.boot = n.boot)
    BY <2>3 DEF HInv, RedeemedCheckedIn
  <2>7. OneCheckinPerRun'
    BY <2>1, <2>2, <2>6 DEF HInv, OneCheckinPerRun
  <2>8. \E g \in granted :
          /\ g.request.voter = n.voter /\ g.boot = n.boot
          /\ g.at <= n.at /\ n.at <= g.at + TIMEOUT_INTERVAL
    BY <2>3 DEF HInv, TimerFromGrant
  <2>9. RedeemedAfterGrant'
    BY <2>1, <2>2, <2>8 DEF HInv, RedeemedAfterGrant
  <2> QED
    BY <2>5, <2>7, <2>9
<1> QED
  BY <1>2, <1>3 DEF HNext, HAccept, hvars

\* The conjunct about replays.
LEMMA ReplayStep ==
  ASSUME HInv, [HNext]_hvars
  PROVE  NoReplayedCheckin'
<1>1. ASSUME NEW c \in Kiosks, NEW r \in CheckinRequests, HAccept(c, r)
      PROVE  NoReplayedCheckin'
  <2>1. AcceptCheckin(c, r) /\ granted' = granted \cup {Grant(r)}
    BY <1>1 DEF HAccept
  <2>2. PICK n : n = Grant(r)
    OBVIOUS
  <2>3. n.request = r /\ n.boot = boot
    BY <2>2 DEF Grant
  <2>4. \A g \in granted : ~(g.request = n.request /\ g.boot = n.boot)
    BY <2>1, <2>3, NotTwice
  <2> QED
    BY <2>1, <2>2, <2>4 DEF HInv, NoReplayedCheckin
<1>2. ASSUME granted' = granted PROVE NoReplayedCheckin'
  BY <1>2 DEF HInv, NoReplayedCheckin
<1> QED
  BY <1>1, <1>2 DEF HNext, HRedeem, hvars

\* The invariant with history holds in every reachable state.
THEOREM HistoryInvariance == HSpec => []HInv
<1>1. HInit => HInv
  <2> SUFFICES ASSUME HInit PROVE HInv
    OBVIOUS
  <2>1. IInv
    BY InvInit DEF HInit
  <2>2. ClockOK
    BY CheckinAssumption DEF HInit, Init, ClockOK
  <2>3. GrantsHold /\ TimerFromGrant /\ RedeemedCheckedIn
    BY DEF HInit, Init, NoTimers, GrantsHold, TimerFromGrant, RedeemedCheckedIn
  <2>4. OneCheckinPerRun /\ NoReplayedCheckin /\ RedeemedAfterGrant
    BY DEF HInit, OneCheckinPerRun, NoReplayedCheckin, RedeemedAfterGrant
  <2> QED
    BY <2>1, <2>2, <2>3, <2>4 DEF HInv
<1>2. HInv /\ [HNext]_hvars => HInv'
  <2> SUFFICES ASSUME HInv, [HNext]_hvars PROVE HInv'
    OBVIOUS
  <2>1. IInv' /\ ClockOK'
    BY HistoryStep, InvStep, ClockStep DEF HInv
  <2> QED
    BY <2>1, GrantsStep, RedemptionsStep, ReplayStep DEF HInv
<1> QED
  BY <1>1, <1>2, PTL DEF HSpec

\* Within one run of the service a voter is checked in at most once.
THEOREM OneCheckin == HSpec => []OneCheckinPerRun
<1>1. HInv => OneCheckinPerRun
  BY DEF HInv
<1> QED
  BY <1>1, HistoryInvariance, PTL

\* Within one run of the service no check-in request is approved twice.
THEOREM NoReplay == HSpec => []NoReplayedCheckin
<1>1. HInv => NoReplayedCheckin
  BY DEF HInv
<1> QED
  BY <1>1, HistoryInvariance, PTL

\* Every redemption falls into the window of an approved check-in request.
THEOREM RedemptionHasGrant == HSpec => []RedeemedAfterGrant
<1>1. HInv => RedeemedAfterGrant
  BY DEF HInv
<1> QED
  BY <1>1, HistoryInvariance, PTL

----------------------------------------------------------------------------
(* Which ticket is redeemed *)

\* The ticket of a grant is one that was drawn, and no two grants share it.
TicketsApart ==
  /\ \A g \in granted : g.ticket \in 1 .. drawn
  /\ \A g, h \in granted : g.ticket = h.ticket => g = h

\* Voter v was granted ticket t, in this run or in an earlier one.
GrantedTo(t, v) == \E g \in granted : g.ticket = t /\ g.request.voter = v

\* Every ticket, in memory or in the file, was granted to the voter it is kept
\* for.
TicketsGranted ==
  \A t \in Tickets :
    /\ client_tickets_map[t] # None => GrantedTo(t, client_tickets_map[t])
    /\ ticket_file[t] # None => GrantedTo(t, ticket_file[t])

\* Whoever is checked in presented a ticket of his own: one that an approved
\* request gave out for that voter.  The file that survives restarts and
\* overrides the tickets in memory at every request never turns a ticket over
\* to another voter.
RedeemedOwnTicket == \A d \in redeemed : GrantedTo(d.ticket, d.voter)

\* What is true of "the ticket is single-use": within one run of the service
\* no ticket is redeemed twice, although redeeming removes it neither from the
\* memory nor from the file.
TicketOncePerRun ==
  \A a, b \in redeemed : a.ticket = b.ticket /\ a.boot = b.boot => a = b

\* The grants of one voter in one run lie a whole window apart, so at no time
\* does a voter have two check-ins pending, whatever kiosks the requests come
\* from.
WindowsApart ==
  \A g, h \in granted :
    g.request.voter = h.request.voter /\ g.boot = h.boot =>
      \/ g = h
      \/ g.at + TIMEOUT_INTERVAL <= h.at
      \/ h.at + TIMEOUT_INTERVAL <= g.at

\* The second layer of the inductive invariant.
TInv == TicketsApart /\ TicketsGranted /\ RedeemedOwnTicket /\ WindowsApart

\* A voter who is granted a check-in had none, or one whose window has passed.
LEMMA GrantsAfterWindow ==
  ASSUME HInv, NEW c \in Kiosks, NEW r \in CheckinRequests,
         AcceptCheckin(c, r), NEW g \in granted,
         g.request.voter = r.voter, g.boot = boot
  PROVE  g.at + TIMEOUT_INTERVAL <= now
<1>1. /\ r.voter \in Roll /\ voter_status_table[r.voter] = "ELIGIBLE"
      /\ request_timers[r.voter] = None
  BY DEF AcceptCheckin, Eligible, HInv, IInv, PendingHasOneTimeout
<1>2. GrantOK(g) /\ Holds(g)
  BY DEF HInv, GrantsHold
<1>3. now >= g.at + TIMEOUT_INTERVAL
  BY <1>1, <1>2 DEF Holds
<1>4. now \in Nat /\ g.at \in Nat /\ TIMEOUT_INTERVAL \in Nat
  BY <1>2, CheckinAssumption DEF GrantOK, HInv, IInv, TypeOK
<1> QED
  BY <1>3, <1>4

\* An approved check-in request preserves the second layer.
LEMMA AcceptTickets ==
  ASSUME HInv, TInv, NEW c \in Kiosks, NEW r \in CheckinRequests, HAccept(c, r)
  PROVE  TInv'
<1>1. /\ AcceptCheckin(c, r) /\ granted' = granted \cup {Grant(r)}
      /\ redeemed' = redeemed /\ drawn' = drawn + 1
  BY DEF HAccept, AcceptCheckin
<1>2. PICK n : n = Grant(r)
  OBVIOUS
<1>3. /\ n \in granted' /\ granted' = granted \cup {n}
      /\ n.request = r /\ n.ticket = drawn + 1 /\ n.at = now /\ n.boot = boot
  BY <1>1, <1>2 DEF Grant
<1>4. /\ drawn \in Nat /\ drawn + 1 \in Tickets
      /\ client_tickets_map \in [Tickets -> Roll \cup {None}]
      /\ ticket_file \in [Tickets -> Roll \cup {None}]
  BY <1>1, CheckinAssumption DEF HInv, IInv, TypeOK, AcceptCheckin, Tickets
<1>5. \A g \in granted : g.ticket \in 1 .. drawn
  BY DEF TInv, TicketsApart
<1>6. TicketsApart'
  <2>1. \A g \in granted' : g.ticket \in 1 .. drawn'
    BY <1>1, <1>3, <1>4, <1>5
  <2>2. \A g \in granted : g.ticket # n.ticket
    BY <1>3, <1>4, <1>5
  <2>3. \A g, h \in granted : g.ticket = h.ticket => g = h
    BY DEF TInv, TicketsApart
  <2> QED
    BY <1>3, <2>1, <2>2, <2>3 DEF TicketsApart
<1>7. ASSUME NEW t \in Tickets
      PROVE  /\ \/ t = drawn + 1 /\ client_tickets_map'[t] = r.voter
                \/ client_tickets_map'[t] = client_tickets_map[t]
             /\ \/ t = drawn + 1 /\ ticket_file'[t] = r.voter
                \/ ticket_file'[t] = ticket_file[t]
  BY <1>1, <1>4 DEF AcceptCheckin
<1>8. TicketsGranted'
  <2> SUFFICES ASSUME NEW t \in Tickets
               PROVE  /\ client_tickets_map'[t] # None =>
                           GrantedTo(t, client_tickets_map[t])'
                      /\ ticket_file'[t] # None =>
                           GrantedTo(t, ticket_file[t])'
    BY DEF TicketsGranted
  <2>1. /\ client_tickets_map[t] # None => GrantedTo(t, client_tickets_map[t])
        /\ ticket_file[t] # None => GrantedTo(t, ticket_file[t])
    BY DEF TInv, TicketsGranted
  <2>2. \A u, v : GrantedTo(u, v) => \E g \in granted' :
                  g.ticket = u /\ g.request.voter = v
    BY <1>3 DEF GrantedTo
  <2>3. \E g \in granted' : g.ticket = drawn + 1 /\ g.request.voter = r.voter
    BY <1>3
  <2>4. client_tickets_map'[t] # None =>
          \E g \in granted' :
            g.ticket = t /\ g.request.voter = client_tickets_map'[t]
    BY <1>7, <2>1, <2>2, <2>3
  <2>5. ticket_file'[t] # None =>
          \E g \in granted' : g.ticket = t /\ g.request.voter = ticket_file'[t]
    BY <1>7, <2>1, <2>2, <2>3
  <2> QED
    BY <2>4, <2>5 DEF GrantedTo
<1>9. RedeemedOwnTicket'
  BY <1>1, <1>3 DEF TInv, RedeemedOwnTicket, GrantedTo
<1>10. WindowsApart'
  <2>1. \A g \in granted :
          g.request.voter = n.request.voter /\ g.boot = n.boot =>
            g.at + TIMEOUT_INTERVAL <= n.at
    BY <1>1, <1>3, GrantsAfterWindow
  <2> QED
    BY <1>3, <2>1 DEF TInv, WindowsApart
<1> QED
  BY <1>6, <1>8, <1>9, <1>10 DEF TInv

\* So does a redemption: the ticket it takes was granted to its voter.
LEMMA RedeemTickets ==
  ASSUME HInv, TInv, NEW c \in Trusted, NEW r \in TicketRequests, HRedeem(c, r)
  PROVE  TInv'
<1>1. /\ RedeemTicket(c, r) /\ redeemed' = redeemed \cup {Redemption(r)}
      /\ granted' = granted /\ drawn' = drawn /\ ticket_file' = ticket_file
      /\ client_tickets_map' = read_from_csv
  BY DEF HRedeem, RedeemTicket, TicketStep
<1>2. \A t \in Tickets :
        read_from_csv[t] # None => GrantedTo(t, read_from_csv[t])
  BY DEF TInv, TicketsGranted, read_from_csv
<1>3. TicketsApart' /\ WindowsApart'
  BY <1>1 DEF TInv, TicketsApart, WindowsApart
<1>4. TicketsGranted'
  BY <1>1, <1>2 DEF TInv, TicketsGranted, GrantedTo
<1>5. r.ticket \in Tickets /\ read_from_csv[r.ticket] # None
  BY <1>1, CheckinAssumption DEF RedeemTicket, AuthenticTicket
<1>6. PICK n : n = Redemption(r)
  OBVIOUS
<1>7. n.ticket = r.ticket /\ n.voter = read_from_csv[r.ticket]
  BY <1>6 DEF Redemption
<1>8. RedeemedOwnTicket'
  BY <1>1, <1>2, <1>5, <1>6, <1>7 DEF TInv, RedeemedOwnTicket, GrantedTo
<1> QED
  BY <1>3, <1>4, <1>8 DEF TInv

\* The steps that grant nothing keep the tickets, merge the file into the
\* memory, or start a process that knows none.
LEMMA OtherTickets ==
  ASSUME TInv,
         \/ Other /\ UNCHANGED <<granted, redeemed>>
         \/ UNCHANGED hvars
  PROVE  TInv'
<1>1. granted' = granted /\ redeemed' = redeemed
  BY DEF hvars
<1>2. /\ drawn' = drawn /\ ticket_file' = ticket_file
      /\ client_tickets_map' \in {client_tickets_map, read_from_csv, NoTickets}
  BY DEF Other, RejectCheckin, HandlerThrows, MalformedTicket, RejectTicket,
         DenyPin, DenyWindow, TicketStep, ExpireTimer,
         handle_verification_timeout, Tick, Kill, Start, hvars, vars
<1>3. TicketsApart' /\ WindowsApart' /\ RedeemedOwnTicket'
  BY <1>1, <1>2 DEF TInv, TicketsApart, WindowsApart, RedeemedOwnTicket,
                    GrantedTo
<1>4. \A t \in Tickets :
        client_tickets_map'[t] # None =>
          \/ client_tickets_map'[t] = client_tickets_map[t]
          \/ client_tickets_map'[t] = ticket_file[t]
  BY <1>2 DEF read_from_csv, NoTickets
<1>5. TicketsGranted'
  BY <1>1, <1>2, <1>4 DEF TInv, TicketsGranted, GrantedTo
<1> QED
  BY <1>3, <1>5 DEF TInv

\* The second layer holds in every reachable state.
THEOREM TicketInvariance == HSpec => []TInv
<1>1. HInit => TInv
  BY DEF HInit, Init, NoTickets, TInv, TicketsApart, TicketsGranted,
         RedeemedOwnTicket, WindowsApart
<1>2. HInv /\ TInv /\ [HNext]_hvars => TInv'
  BY AcceptTickets, RedeemTickets, OtherTickets DEF HNext
<1> QED
  BY <1>1, <1>2, HistoryInvariance, PTL DEF HSpec

\* A voter is checked in only on a ticket that was granted to that voter,
\* whatever the file brings back after a restart.
THEOREM RedeemedOwnTicketHolds == HSpec => []RedeemedOwnTicket
<1>1. TInv => RedeemedOwnTicket
  BY DEF TInv
<1> QED
  BY <1>1, TicketInvariance, PTL

\* Within one run of the service no ticket is redeemed twice: it belongs to
\* one voter, and the voter is checked in once.
THEOREM TicketOncePerRunHolds == HSpec => []TicketOncePerRun
<1>1. HInv /\ TInv => TicketOncePerRun
  <2> SUFFICES ASSUME HInv, TInv, NEW a \in redeemed, NEW b \in redeemed,
                      a.ticket = b.ticket, a.boot = b.boot
               PROVE  a = b
    BY DEF TicketOncePerRun
  <2>1. GrantedTo(a.ticket, a.voter) /\ GrantedTo(b.ticket, b.voter)
    BY DEF TInv, RedeemedOwnTicket
  <2>2. a.voter = b.voter
    BY <2>1 DEF GrantedTo, TInv, TicketsApart
  <2> QED
    BY <2>2 DEF HInv, OneCheckinPerRun
<1> QED
  BY <1>1, HistoryInvariance, TicketInvariance, PTL

\* Two check-ins of one voter in one run of the service are a window apart.
THEOREM WindowsApartHolds == HSpec => []WindowsApart
<1>1. TInv => WindowsApart
  BY DEF TInv
<1> QED
  BY <1>1, TicketInvariance, PTL
=============================================================================
