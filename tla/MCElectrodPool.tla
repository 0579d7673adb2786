--------------------------- MODULE MCElectrodPool ----------------------------
(***************************************************************************)
(* Two connections are required, and there are slots for three.            *)
(***************************************************************************)
EXTENDS ElectrodPool

CONSTANTS c1
=============================================================================
