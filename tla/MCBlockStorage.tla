--------------------------- MODULE MCBlockStorage ----------------------------
(***************************************************************************)
(* Small instances of BlockStorage: blocks m1, m2, m3 of the main chain,   *)
(* and s2, which competes with m2.                                         *)
(***************************************************************************)
EXTENDS BlockStorage, FiniteSetsExt

CONSTANTS m1, m2, m3, s2

MCHeight == [b \in Block |-> IF b = m1 THEN 1 ELSE IF b = m3 THEN 3 ELSE 2]

MCChain == [b \in Block |-> Block \cap (IF b = s2 THEN {m1, s2}
                                        ELSE IF b = m1 THEN {m1}
                                        ELSE IF b = m2 THEN {m1, m2} ELSE {m1, m2, m3})]

\* s2 is twice as large as the others: the limit of 20 holds two units of 7,
\* and three are over it by less than the margin that check leaves.
MCSizeOf == [S \in SUBSET Block |-> MapThenSumSet(LAMBDA b : IF b = s2 THEN 14 ELSE 7, S)]

\* Every block has a coinbase; m2 and s2 have a second transaction, ...
Coinbase(b) == <<"coinbase", b>>

\* ... each its own,
OwnTxs == [b \in Block |-> IF b \in {m2, s2} THEN <<Coinbase(b), <<"spend", b>>>> ELSE <<Coinbase(b)>>]

\* ... or the same in both, as in two blocks that compete.
SharedTxs == [b \in Block |-> IF b \in {m2, s2} THEN <<Coinbase(b), <<"spend">>>> ELSE <<Coinbase(b)>>]
=============================================================================
