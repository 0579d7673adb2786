------------------------------ MODULE MCP2PPool ------------------------------
(***************************************************************************)
(* Two connections are required, there are slots for three, and two gets   *)
(* at once, of two blocks.  Gets and blocks are alike.                     *)
(***************************************************************************)
EXTENDS P2PPool

CONSTANTS g1, g2, b1, b2

Symmetry == Permutations({g1, g2}) \cup Permutations({b1, b2})
=============================================================================
