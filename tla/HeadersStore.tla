---------------------------- MODULE HeadersStore -----------------------------
(***************************************************************************)
(* What the rest of spruned may assume of the stored headers, whatever the *)
(* Electrum servers answer: they form a stack.  Headers are only added     *)
(* above the highest one, a batch at a time, and the lowest header of a    *)
(* batch links to the header stored just below it.  Headers are only       *)
(* dropped from the top, and never below the beginning of the chunk of the *)
(* highest one.                                                            *)
(*                                                                         *)
(* The block reactor's bootstrap, the storage integrity check and the RPC  *)
(* queries by height all read the table between two such steps.            *)
(***************************************************************************)
EXTENDS Integers

CONSTANTS Block, Genesis, Height, Prev, ChunkSize

VARIABLE chain      \* the set of stored blocks

Init == chain = {}

ChunkStart(h) == h - (h % ChunkSize)

Top(S) == CHOOSE b \in S : \A c \in S : Height[c] <= Height[b]

Above == {b \in Block : \A c \in chain : Height[c] < Height[b]}

\* A batch of headers goes above everything stored, linked at its bottom.
Extend ==
    \E batch \in SUBSET Above :
        /\ batch # {}
        /\ \E first \in batch :
              /\ \A b \in batch : Height[first] <= Height[b]
              /\ first = Genesis \/ Prev[first] \in chain
        /\ chain' = chain \cup batch

\* The headers from some height on are dropped, at most the top chunk's.
Truncate ==
    /\ chain # {}
    /\ \E h \in ChunkStart(Height[Top(chain)]) .. Height[Top(chain)] :
         chain' = {b \in chain : Height[b] < h}

Next == Extend \/ Truncate

Spec == Init /\ [][Next]_chain
=============================================================================
