------------------------ MODULE MCElectrodConnection -------------------------
(***************************************************************************)
(* One connection: a call and a fee estimation besides what the connection *)
(* does itself.  Seven requests let each of them run, and one of them      *)
(* wait while the others come and go.                                      *)
(***************************************************************************)
EXTENDS ElectrodConnection

CONSTANTS r1, w1
=============================================================================
