--------------------------- MODULE MCWarningCache ---------------------------
(***************************************************************************)
(* Instances of WarningCache.                                              *)
(***************************************************************************)
EXTENDS WarningCache

CONSTANTS s1, s2    \* operators' sessions
=============================================================================
