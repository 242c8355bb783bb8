-------------------------- MODULE MCPollbookSystem --------------------------
(***************************************************************************)
(* Instances of PollbookSystem.  The service takes exactly the requests    *)
(* that honest clients send.                                               *)
(***************************************************************************)
EXTENDS PollbookSystem

CONSTANTS k1, k2,    \* kiosks
          d1, d2,    \* trusted devices
          v1         \* a registered voter

MCCheckinRequests ==
  {[client_id_num |-> k, signed_by |-> k, voter |-> v, verified_voter |-> v,
    id_signed |-> TRUE, ts |-> t] :
     k \in Kiosks, v \in Uids, t \in Epoch .. MaxTime}

MCTicketRequests ==
  [client_id : Trusted, signed_by : Trusted, ticket : Tickets, pin : Pins,
   ts : Epoch .. MaxTime]

MCPinColumn == [v \in Roll |-> <<7>>]
=============================================================================
