----------------------------- MODULE BlockStore ------------------------------
(***************************************************************************)
(* What the block storage promises, kills included, to who reads it: whole *)
(* blocks appear one at a time, and are lost only if the cache tracks them *)
(* or they are out of the range that is kept; a block is forgotten by the  *)
(* cache only when it is not stored any more, so that nothing that was     *)
(* tracked stays on the disk unaccounted for.                              *)
(***************************************************************************)
EXTENDS Integers

CONSTANTS Block, Height, Chain, KeepBlocks

VARIABLES
    stored,     \* the blocks that can be read
    cached,     \* the blocks that the cache accounts for
    best        \* the best header

vars == <<stored, cached, best>>

Kept ==
    IF Height[best] > KeepBlocks
    THEN {b \in Chain[best] : Height[b] >= Height[best] - KeepBlocks}
    ELSE {}

Init == stored = {} /\ cached = {} /\ best \in Block

Save(b) ==
    /\ stored' = stored \cup {b}
    /\ cached' = cached \/ cached' = cached \cup {b}
    /\ UNCHANGED best

Drop ==
    /\ stored' \subseteq stored
    /\ stored \ stored' \subseteq cached \cup (Block \ Kept)
    /\ cached' \subseteq cached
    /\ (cached \ cached') \cap stored' = {}
    /\ UNCHANGED best

Move == best' \in Block /\ UNCHANGED <<stored, cached>>

Next == Drop \/ Move \/ \E b \in Block : Save(b)

Spec == Init /\ [][Next]_vars
=============================================================================
