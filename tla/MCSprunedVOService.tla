-------------------------- MODULE MCSprunedVOService --------------------------
(***************************************************************************)
(* One call at a time beside the bootstrap, with the numbers of the code   *)
(* and of the main network: four servers, three of which make a consensus, *)
(* and all of the retries.                                                 *)
(***************************************************************************)
EXTENDS SprunedVOService

CONSTANTS c1
=============================================================================
