------------------------ MODULE MCCheckinConnections ------------------------
(***************************************************************************)
(* Instances of CheckinConnections.                                        *)
(***************************************************************************)
EXTENDS CheckinConnections, TLC

CONSTANTS e1, e2,      \* endpoints
          i1, i2,      \* client IDs
          key1, key2   \* public keys

\* Endpoints and keys are only compared for equality.
Interchangeable == Permutations(Endpoints) \cup Permutations(Keys)
=============================================================================
