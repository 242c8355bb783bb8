-------------------------- MODULE MCPollbookClient --------------------------
(***************************************************************************)
(* Instance of PollbookClient.                                             *)
(***************************************************************************)
EXTENDS PollbookClient
CONSTANTS v1, v2   \* voters
=============================================================================
