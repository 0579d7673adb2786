--------------------------- MODULE MCBlocksReactor ---------------------------
(***************************************************************************)
(* A small instance of BlocksReactor: the main chain m2 to m4, and s2, s3, *)
(* which compete with m2 and m3.                                           *)
(***************************************************************************)
EXTENDS BlocksReactor

CONSTANTS m2, m3, m4, s2, s3

MCHeight == [b \in Block |-> IF b \in {m2, s2} THEN 2
                             ELSE IF b \in {m3, s3} THEN 3 ELSE 4]

MCChain == [b \in Block |->
    LET branch == IF b \in {s2, s3} THEN {s2, s3} ELSE {m2, m3, m4}
    IN {c \in branch \cap Block : MCHeight[c] <= MCHeight[b]}]

\* The hashes are not in the order of the heights.
MCHashRank == [b \in Block |-> CASE b = m2 -> 5 [] b = s2 -> 4 [] b = m4 -> 3
                                 [] b = s3 -> 2 [] b = m3 -> 1]
=============================================================================
