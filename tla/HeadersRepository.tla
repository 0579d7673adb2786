-------------------------- MODULE HeadersRepository --------------------------
(***************************************************************************)
(* The sqlite table of block headers behind HeadersSQLiteRepository        *)
(* (spruned/repositories/headers_repository.py), as pure operators on its  *)
(* contents.                                                               *)
(*                                                                         *)
(* A header is identified with its block.  The contents of the table are a *)
(* function `rows' from the stored blocks to their row id: the block hash  *)
(* is UNIQUE, the id is the INTEGER PRIMARY KEY, which sqlite sets to the  *)
(* largest id in use plus one.  A list of headers, in the code always      *)
(* ascending in height and without repetition, is the set of its blocks.   *)
(*                                                                         *)
(* Proof-of-work bits, timestamps and the raw 80 bytes are not kept: every *)
(* block of Block is one whose header passes verify_pow.                   *)
(***************************************************************************)
EXTENDS Integers, FiniteSets

CONSTANTS
    Block,      \* the blocks in existence, on every branch
    Genesis,    \* the block at height 0
    Height,     \* Height[b]: the height of block b
    Prev,       \* Prev[b]: the block whose hash b carries as previous hash
    NoBlock     \* None: no header

ASSUME BlockAssumption ==
    /\ IsFiniteSet(Block)
    /\ Genesis \in Block
    /\ NoBlock \notin Block
    /\ Height \in [Block -> Nat]
    /\ Prev \in [Block \ {Genesis} -> Block]
    /\ \A b \in Block : (Height[b] = 0) <=> (b = Genesis)
    /\ \A b \in Block \ {Genesis} : Height[b] = Height[Prev[b]] + 1

EmptyTable == [b \in {} |-> 0]

Lowest(S)  == CHOOSE b \in S : \A c \in S : Height[b] <= Height[c]
Highest(S) == CHOOSE b \in S : \A c \in S : Height[c] <= Height[b]

(***************************************************************************)
(* Queries.                                                                *)
(***************************************************************************)

\* get_best_header: the row with the largest id, which the code takes for
\* the best one.
BestHeader(rows) ==
    IF DOMAIN rows = {} THEN NoBlock
    ELSE CHOOSE b \in DOMAIN rows : \A c \in DOMAIN rows : rows[c] <= rows[b]

LastId(rows) == IF DOMAIN rows = {} THEN 0 ELSE rows[BestHeader(rows)]

\* get_block_hash and get_header_at_height: one_or_none on the height.
HeaderAtHeight(rows, h) ==
    IF \E b \in DOMAIN rows : Height[b] = h
    THEN CHOOSE b \in DOMAIN rows : Height[b] = h
    ELSE NoBlock

\* get_block_header: the previous and the next hash of a header are those of
\* the rows whose ids are one less and one more.
Neighbour(rows, b, step) ==
    IF \E c \in DOMAIN rows : rows[c] = rows[b] + step
    THEN CHOOSE c \in DOMAIN rows : rows[c] = rows[b] + step
    ELSE NoBlock

(***************************************************************************)
(* Updates.  Each runs inside @database.atomic: one sqlite transaction.    *)
(* remove_header_at_height has no caller that the program reaches.         *)
(***************************************************************************)

\* The rows that the inserts of save_headers(S) would add, in list order.
InsertRows(rows, S) ==
    [b \in DOMAIN rows \cup S |->
        IF b \in DOMAIN rows THEN rows[b]
        ELSE LastId(rows) + Cardinality({c \in S : Height[c] <= Height[b]})]

\* IntegrityError at flush: a hash or a height is already in the table.
Clashes(rows, S) ==
    \E b \in S, c \in DOMAIN rows : b = c \/ Height[b] = Height[c]

\* The check on the first header of the list: the row one below it must exist
\* (query.one() raises NoResultFound) and carry its previous hash.
ParentMissing(rows, S) ==
    Height[Lowest(S)] # 0 /\ HeaderAtHeight(rows, Height[Lowest(S)] - 1) = NoBlock
ParentUnchecked(rows, S) == FALSE   \* variant with a bug: no link check

ParentDiffers(rows, S) ==
    Height[Lowest(S)] # 0
      /\ HeaderAtHeight(rows, Height[Lowest(S)] - 1) # Prev[Lowest(S)]

\* save_headers (and save_header, for a list of one): what the call does.
SaveOutcome(rows, S) ==
    IF S = {} THEN "saved"
    ELSE IF ParentMissing(rows, S) THEN "noresult"
    ELSE IF ParentDiffers(rows, S) \/ Clashes(rows, S) THEN "inconsistent"
    ELSE "saved"

\* Variants with a bug: strictly after the height, only at the height, and the
\* other side of it.
RemoveAfter(rows, h) ==
    [b \in {c \in DOMAIN rows : Height[c] <= h} |-> rows[b]]
RemoveOnlyAt(rows, h) ==
    [b \in {c \in DOMAIN rows : Height[c] # h} |-> rows[b]]
RemoveBelow(rows, h) ==
    [b \in {c \in DOMAIN rows : Height[c] >= h} |-> rows[b]]

\* remove_headers_after_height: despite its name, from that height on.
RemoveFrom(rows, h) ==
    [b \in {c \in DOMAIN rows : Height[c] < h} |-> rows[b]]
=============================================================================
