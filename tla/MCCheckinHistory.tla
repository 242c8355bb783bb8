-------------------------- MODULE MCCheckinHistory --------------------------
(***************************************************************************)
(* Instances of CheckinHistory.  The request sets hold honest requests of  *)
(* every client, and every way of deviating from one in one field, which   *)
(* is all the handlers can tell apart.  A timestamp is fresh for three     *)
(* clock values; those of the two kiosks overlap in one of them, where the *)
(* kiosks race for the voter, and together they leave time for a second    *)
(* check-in after the first window.                                        *)
(***************************************************************************)
EXTENDS CheckinHistory

CONSTANTS k1, k2,        \* kiosks
          d1,            \* a trusted device
          v1, v2,        \* registered voters
          stranger       \* a voter ID that is not on the roll

Early == Epoch + 1
Late == Epoch + 3

\* Fresh only at the start of the clock.
Oldest == Epoch - 1

\* A timestamp HALF ahead of a clock value: the difference is INT64_MIN.
Overflowing == HALF + Epoch + 1

Checkin(c, signer, v, w, ok, ts) ==
  [client_id_num |-> c, signed_by |-> signer, voter |-> v,
   verified_voter |-> w, id_signed |-> ok, ts |-> ts]

Honest(c, v, ts) == Checkin(c, c, v, v, TRUE, ts)

\* A request whose client is not the dispatched one claims a false identity.
MCCheckinRequests ==
  {Honest(k1, v1, Early), Honest(k2, v1, Late),
   Honest(k1, v2, Oldest), Honest(k1, stranger, Oldest),
   Honest(k1, v1, Overflowing),
   Checkin(k1, k2, v1, v1, TRUE, Early),
   Checkin(k1, k1, v1, v1, FALSE, Early),
   Checkin(k1, k1, v1, v2, TRUE, Early)}

Ticket(c, signer, t, pin, ts) ==
  [client_id |-> c, signed_by |-> signer, ticket |-> t, pin |-> pin, ts |-> ts]

MCTicketRequests ==
  {Ticket(d1, d1, t, pin, Early) : t \in Tickets, pin \in {42, 7}}
    \cup {Ticket(d1, d1, t, 42, Late) : t \in Tickets}
    \cup {Ticket(d1, k1, 1, 42, Early), Ticket(k1, k1, 1, 42, Early)}

MCPinColumn == [v \in Roll |-> IF v = v1 THEN <<4, 2>> ELSE <<7>>]
=============================================================================
