------------------------------ MODULE MCConfig ------------------------------
(***************************************************************************)
(* Instances of Config.                                                    *)
(***************************************************************************)
EXTENDS Config

CONSTANTS t1, t2, t3,               \* threads
          default, other, broken    \* configuration files
=============================================================================
