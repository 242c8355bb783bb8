--------------------------- MODULE CheckinHistory ---------------------------
(***************************************************************************)
(* The check-in service with a record of what it granted: every approved   *)
(* check-in request and every redeemed ticket, with the time and the run   *)
(* of the service.  The two history variables restrict nothing; they let   *)
(* properties relate an answer to the ones given long before it.           *)
(***************************************************************************)
EXTENDS CheckinService

\* The pending window (minutes) is longer than two freshness intervals
\* (milliseconds) in every configuration of the repository.
ASSUME ReplayAssumption == TIMEOUT_INTERVAL > 2 * REQUEST_FRESHNESS_INTERVAL

VARIABLES granted,   \* approved check-in requests
          redeemed   \* approved ticket requests

hvars == <<vars, granted, redeemed>>

Grant(r) == [request |-> r, ticket |-> drawn + 1, at |-> now, boot |-> boot]

Redemption(r) == [ticket |-> r.ticket, voter |-> read_from_csv[r.ticket],
                  at |-> now, boot |-> boot]

HInit == Init /\ granted = {} /\ redeemed = {}

HAccept(c, r) == /\ AcceptCheckin(c, r)
                 /\ granted' = granted \cup {Grant(r)}
                 /\ UNCHANGED redeemed

HRedeem(c, r) == /\ RedeemTicket(c, r)
                 /\ redeemed' = redeemed \cup {Redemption(r)}
                 /\ UNCHANGED granted

\* The steps that grant nothing.
Other ==
  \/ \E c \in Kiosks, r \in CheckinRequests : RejectCheckin(c, r)
  \/ HandlerThrows
  \/ \E c \in Trusted : MalformedTicket(c)
  \/ \E c \in Trusted, r \in TicketRequests :
       RejectTicket(c, r) \/ DenyPin(c, r) \/ DenyWindow(c, r)
  \/ \E v \in Roll : ExpireTimer(v) \/ handle_verification_timeout(v)
  \/ Tick
  \/ Kill
  \/ Start

HNext ==
  \/ \E c \in Kiosks, r \in CheckinRequests : HAccept(c, r)
  \/ \E c \in Trusted, r \in TicketRequests : HRedeem(c, r)
  \/ Other /\ UNCHANGED <<granted, redeemed>>

HSpec == HInit /\ [][HNext]_hvars

HFairSpec == HSpec /\ Fairness

----------------------------------------------------------------------------
(* Properties *)

\* One voter, one vote: within one run of the service at most one ticket is
\* redeemed for a voter, whatever tickets the voter holds, old or new.
OneCheckinPerRun ==
  \A a, b \in redeemed : a.voter = b.voter /\ a.boot = b.boot => a = b

\* A recorded check-in request is worth nothing to a kiosk that replays it:
\* within one run it is approved at most once.  Nothing in the service
\* remembers requests; what rules the replay out is that the voter is not
\* ELIGIBLE before the window has passed, and that the timestamp is stale by
\* then (the window is more than two freshness intervals).
NoReplayedCheckin ==
  \A a, b \in granted : a.request = b.request /\ a.boot = b.boot => a = b

\* Whoever is checked in was identified shortly before: a redemption falls
\* within one window after an approved request for the voter in the same run.
RedeemedAfterGrant ==
  \A d \in redeemed : \E g \in granted :
    /\ g.request.voter = d.voter
    /\ g.boot = d.boot
    /\ g.at <= d.at /\ d.at <= g.at + TIMEOUT_INTERVAL

----------------------------------------------------------------------------
(* Statements of the documentation that the code does not keep. *)

\* "A ticket stays valid" for the window: no ticket is redeemed later than one
\* window after it was issued.
TicketExpires ==
  \A d \in redeemed : \A g \in granted :
    g.ticket = d.ticket => d.at <= g.at + TIMEOUT_INTERVAL

\* "The ticket is single-use": no ticket is redeemed twice.
TicketSingleUse ==
  \A a, b \in redeemed : a.ticket = b.ticket => a = b
=============================================================================
