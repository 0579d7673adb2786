----------------------------- MODULE MCMempool ------------------------------
(***************************************************************************)
(* A small instance of MempoolObserver: a and b spend different outpoints, *)
(* b with a witness, d and e spend both.  The limit holds none of those    *)
(* that spend outpoint 2, and a miner finds b.                             *)
(***************************************************************************)
EXTENDS MempoolObserver

CONSTANTS a, b, d, e

MCTxid == [t \in Tx |-> <<t, "txid">>]
MCWId == [t \in Tx |-> IF t = b THEN <<t, "witness">> ELSE <<t, "txid">>]
MCSpends == [t \in Tx |-> IF t = a THEN {1} ELSE IF t = b THEN {2} ELSE {1, 2}]
MCSize == [t \in Tx |-> IF t = a THEN 2 ELSE 3]
MCBlocks == <<{b}>>

\* Both a and b with a witness, in one block.
BothWId == [t \in Tx |-> IF t \in {a, b} THEN <<t, "witness">> ELSE <<t, "txid">>]
BothBlocks == <<{a, b}>>

\* d and e spend both outpoints, a the first; a miner finds e.
LostSpends == [t \in Tx |-> IF t = a THEN {1} ELSE {1, 2}]
LostBlocks == <<{e}>>
=============================================================================
