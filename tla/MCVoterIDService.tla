-------------------------- MODULE MCVoterIDService --------------------------
(***************************************************************************)
(* Instances of VoterIDService: one voter on file and five requests.  Of   *)
(* these one is in order, one has ID data that is too short, one names a   *)
(* voter who is not on file, one is signed with the other key and one is   *)
(* stale.                                                                  *)
(***************************************************************************)
EXTENDS VoterIDService

CONSTANTS e1, e2,      \* endpoints
          i1, i2,      \* client IDs
          key1, key2   \* public keys

Request(i, k, fresh, u, n) ==
  [client_id_num |-> i, signed_by |-> k, fresh |-> fresh, uid |-> u,
   name |-> n]

MCUids == {1, 2, 255}
MCVoterData == [u \in {1} |-> "ada"]
MCRequests == {Request(i1, key1, TRUE, 1, "ada"),
               Request(i2, key2, TRUE, None, "ada"),
               Request(i2, key1, TRUE, 2, "ada"),
               Request(i1, key2, TRUE, 1, "ada"),
               Request(i1, key1, FALSE, 1, "ada")}
=============================================================================
