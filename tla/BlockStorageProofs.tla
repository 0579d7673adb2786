------------------------- MODULE BlockStorageProofs --------------------------
(***************************************************************************)
(* Proofs about BlockStorage, for every set of blocks, every limit and     *)
(* number of kept blocks, and a kill at any write.                         *)
(*                                                                         *)
(* IInv is inductive: besides the three invariants it says that a process  *)
(* that is not running has nothing in memory, which is what a start finds. *)
(***************************************************************************)
EXTENDS BlockStorage, TLAPS

AtRest == ~up => index = NoKeys /\ total = 0 /\ dumpSize = 0

IInv == TypeOK /\ IndexDumped /\ TotalCovers /\ AtRest
-----------------------------------------------------------------------------
(* Sizes and transactions *)

\* The first transactions of a block are transactions of the block.
LEMMA FirstAreOwn ==
    ASSUME NEW b \in Block, NEW n \in 0..Len(TxSeq[b])
    PROVE  FirstTxs(b, n) \subseteq TxsOf(b)
<1>1. Len(TxSeq[b]) \in Nat
    BY BlockAssumption
<1>2. QED
    BY <1>1 DEF FirstTxs, TxsOf

LEMMA OwnAreKnown ==
    ASSUME NEW S \in SUBSET Block
    PROVE  TxsOfAll(S) \subseteq TxsOfAll(Block)
BY DEF TxsOfAll

\* A set of blocks takes as much as a part of it and the rest.
LEMMA SizeOfParts ==
    ASSUME NEW S \in SUBSET Block, NEW T \in SUBSET S
    PROVE  /\ SizeOf[S] \in Nat /\ SizeOf[T] \in Nat /\ SizeOf[S \ T] \in Nat
           /\ SizeOf[S] = SizeOf[S \ T] + SizeOf[T]
<1>1. S \ T \in SUBSET Block /\ T \in SUBSET Block /\ (S \ T) \cap T = {} /\ (S \ T) \cup T = S
    OBVIOUS
<1>2. QED
    BY <1>1, SizeAssumption

\* Only the empty set takes nothing.
LEMMA SizePositive ==
    ASSUME NEW S \in SUBSET Block, SizeOf[S] = 0
    PROVE  S = {}
<1>1. SUFFICES ASSUME NEW b \in S PROVE FALSE
    OBVIOUS
<1>2. SizeOf[S] = SizeOf[S \ {b}] + SizeOf[{b}] /\ SizeOf[S \ {b}] \in Nat /\ SizeOf[{b}] \in Nat
    BY SizeOfParts
<1>3. SizeOf[{b}] > 0
    BY SizeAssumption
<1>4. QED
    BY <1>2, <1>3

\* The margin that check leaves.
LEMMA Margin ==
    ASSUME NEW m \in Nat, NEW l \in Nat, 11 * m <= 10 * l
    PROVE  m <= l
OBVIOUS

LEMMA OwnDouble ==
    ASSUME NEW n \in Nat, n = n + n
    PROVE  n = 0
OBVIOUS

LEMMA SizeOfNone == SizeOf[{}] = 0
<1>1. {} \in SUBSET Block /\ {} \cap {} = {} /\ {} \cup {} = {}
    OBVIOUS
<1>2. SizeOf[{}] \in Nat
    BY <1>1, SizeAssumption
<1>3. SizeOf[{}] = SizeOf[{}] + SizeOf[{}]
    BY <1>1, SizeAssumption
<1>4. QED
    BY <1>2, <1>3, OwnDouble

\* One more block takes at most its own size.
LEMMA SizeOfOneMore ==
    ASSUME NEW S \in SUBSET Block, NEW b \in Block
    PROVE  /\ SizeOf[S] \in Nat /\ SizeOf[{b}] \in Nat /\ SizeOf[S \cup {b}] \in Nat
           /\ SizeOf[S \cup {b}] <= SizeOf[S] + SizeOf[{b}]
<1>1. CASE b \in S
    <2>1. S \cup {b} = S /\ {b} \in SUBSET Block
        BY <1>1
    <2>2. SizeOf[S] \in Nat /\ SizeOf[{b}] \in Nat
        BY <2>1, SizeAssumption
    <2>3. SizeOf[S] <= SizeOf[S] + SizeOf[{b}]
        BY <2>2
    <2>4. QED
        BY <2>1, <2>2, <2>3, Zenon
<1>2. CASE b \notin S
    <2>1. S \cap {b} = {} /\ {b} \in SUBSET Block /\ S \cup {b} \in SUBSET Block
        BY <1>2
    <2>2. SizeOf[S \cup {b}] = SizeOf[S] + SizeOf[{b}]
        BY <2>1, SizeAssumption
    <2>3. SizeOf[S] \in Nat /\ SizeOf[{b}] \in Nat
        BY <2>1, SizeAssumption
    <2>4. QED
        BY <2>2, <2>3
<1>3. QED
    BY <1>1, <1>2
-----------------------------------------------------------------------------
(* The cache agent's check *)

\* A check that starts from the index in LevelDB and a total that covers it only
\* removes tracked blocks, and saves the index unless nothing has changed.
LEMMA CheckKeeps ==
    ASSUME TypeOK, NEW ix \in Ages, NEW n \in Nat, NEW purged \in SUBSET indexed,
           dump = ix, n >= SizeOf[DOMAIN ix],
           CheckFrom(ix, n, n, purged)
    PROVE  /\ txs' \subseteq txs /\ indexed' \subseteq indexed
           /\ index' \in Ages /\ total' \in Nat
           /\ dump' = index' /\ dumpSize' = total'
           /\ total' >= SizeOf[DOMAIN index']
           /\ SizeOf[DOMAIN index'] <= Limit
           /\ DOMAIN index' \subseteq DOMAIN ix
           /\ (DOMAIN ix \ DOMAIN index') \cap indexed' = {}
           /\ purged \cap indexed' = {}
<1> DEFINE left == indexed \ purged
           live == Live(ix, left)
           size == LiveTotal(ix, n, left)
           stale == DOMAIN ix \ left
<1>1. PICK E \in Evictions(live, size) :
         /\ RemoveBlocks(purged \cup E)
         /\ index' = Restrict(live, DOMAIN live \ E)
         /\ total' = size - SizeOf[E]
         /\ dump' = IF (DOMAIN ix # {} /\ n = 0) \/ total' # n THEN index' ELSE dump
         /\ dumpSize' = total'
    BY DEF CheckFrom
<1>2. DOMAIN ix \subseteq Block /\ ix \in [DOMAIN ix -> 0..clock]
    BY DEF Ages
<1>3. /\ DOMAIN live = DOMAIN ix \cap left
      /\ live \in [DOMAIN live -> 0..clock]
      /\ \A b \in DOMAIN live : live[b] = ix[b]
    BY <1>2 DEF Live, Restrict
<1>4. E \subseteq DOMAIN live
    BY <1>1 DEF Evictions
<1>5. /\ DOMAIN index' = DOMAIN live \ E
      /\ index' \in [DOMAIN index' -> 0..clock]
      /\ \A b \in DOMAIN index' : index'[b] = ix[b]
    BY <1>1, <1>3, <1>4 DEF Restrict
<1>6. stale \subseteq DOMAIN ix /\ DOMAIN ix \ stale = DOMAIN live
    BY <1>3
<1>7. /\ SizeOf[DOMAIN ix] = SizeOf[DOMAIN live] + SizeOf[stale]
      /\ SizeOf[DOMAIN live] = SizeOf[DOMAIN index'] + SizeOf[E]
      /\ SizeOf[DOMAIN live] \in Nat /\ SizeOf[stale] \in Nat
      /\ SizeOf[DOMAIN index'] \in Nat /\ SizeOf[E] \in Nat
    <2>1. DOMAIN ix \in SUBSET Block /\ DOMAIN live \in SUBSET Block
        BY <1>2, <1>3
    <2>2. QED
        BY <2>1, <1>4, <1>5, <1>6, SizeOfParts
<1>8. size = n - SizeOf[stale] /\ total' = n - SizeOf[stale] - SizeOf[E]
    BY <1>1, <1>7 DEF LiveTotal
<1>9. total' \in Nat /\ total' >= SizeOf[DOMAIN index']
    BY <1>7, <1>8, SizeAssumption, <1>2
<1>10. dump' = index'
    <2>1. SUFFICES ASSUME total' = n PROVE index' = ix
        BY <1>1
    <2>2. SizeOf[stale] = 0 /\ SizeOf[E] = 0
        BY <2>1, <1>7, <1>8
    <2>3. stale \in SUBSET Block /\ E \in SUBSET Block
        BY <1>2, <1>3, <1>4
    <2>4. stale = {} /\ E = {}
        BY <2>2, <2>3, SizePositive
    <2>5. DOMAIN index' = DOMAIN ix
        BY <2>4, <1>3, <1>5
    <2>6. QED
        BY <2>5, <1>2, <1>5
<1>11. SizeOf[DOMAIN index'] <= Limit
    <2>1. CASE size <= Limit
        BY <2>1, <1>1, <1>7, <1>8, <1>9, BoundAssumption
    <2>2. CASE ~(size <= Limit) /\ E = DOMAIN live
        BY <2>2, <1>5, SizeOfNone, BoundAssumption
    <2>3. CASE ~(size <= Limit) /\ E # DOMAIN live
        <3>1. Fits(size - SizeOf[E])
            BY <2>3, <1>1 DEF Evictions
        <3>2. 11 * total' <= 10 * Limit
            BY <3>1, <1>1 DEF Fits
        <3>3. Limit \in Nat
            BY BoundAssumption
        <3>4. total' <= Limit
            BY <3>2, <3>3, <1>9, Margin
        <3>5. QED
            BY <3>3, <3>4, <1>7, <1>9
    <2>4. QED
        BY <2>1, <2>2, <2>3
<1>12. txs' \subseteq txs /\ indexed' = indexed \ (purged \cup E)
    BY <1>1 DEF RemoveBlocks
<1>13. index' \in Ages
    <2>1. DOMAIN index' \in SUBSET Block
        BY <1>2, <1>3, <1>5
    <2>2. QED
        BY <2>1, <1>5 DEF Ages
<1>14. (DOMAIN ix \ DOMAIN index') \cap indexed' = {}
    BY <1>3, <1>5, <1>12
<1>15. DOMAIN index' \subseteq DOMAIN ix
    BY <1>3, <1>5
<1>16. QED
    BY <1>1, <1>9, <1>10, <1>11, <1>12, <1>13, <1>14, <1>15
-----------------------------------------------------------------------------
(* What the handlers, whole or cut short, do to LevelDB *)

\* At most transactions of b and its index key are added.
Adds(b) ==
    /\ txs \subseteq txs' /\ txs' \subseteq txs \cup TxsOf(b)
    /\ indexed \subseteq indexed' /\ indexed' \subseteq indexed \cup {b}

\* At most transactions and index keys of the blocks of S are removed.
Removes(S) ==
    /\ txs \ TxsOfAll(S) \subseteq txs' /\ txs' \subseteq txs
    /\ indexed \ S \subseteq indexed' /\ indexed' \subseteq indexed

LEMMA SaveAdds ==
    ASSUME NEW b \in Block, SaveBlock(b)
    PROVE  Adds(b) /\ b \in indexed' /\ TxsOf(b) \subseteq txs'
BY DEF SaveBlock, PutBlock, TxsOf, Adds

LEMMA SaveCutAdds ==
    ASSUME NEW b \in Block, SaveBlockCut(b)
    PROVE  Adds(b)
<1>1. CASE SaveBlock(b)
    BY <1>1, SaveAdds
<1>2. CASE \E n \in 0..Len(TxSeq[b]) : PutBlock(b, n, FALSE)
    <2>1. PICK n \in 0..Len(TxSeq[b]) : PutBlock(b, n, FALSE)
        BY <1>2
    <2>2. FirstTxs(b, n) \subseteq TxsOf(b)
        BY FirstAreOwn
    <2>3. QED
        BY <2>1, <2>2 DEF PutBlock, Adds
<1>3. QED
    BY <1>1, <1>2 DEF SaveBlockCut

LEMMA RemoveRemoves ==
    ASSUME NEW S \in SUBSET Block, RemoveBlocks(S)
    PROVE  Removes(S)
BY DEF RemoveBlocks, Removes

LEMMA RemoveCutRemoves ==
    ASSUME NEW before \in SUBSET Block, NEW S \in SUBSET Block, NEW ix,
           RemoveBlocksCut(before, S, ix)
    PROVE  Removes(before \cup S)
<1>1. PICK done \in SUBSET S, b \in S :
         \E n \in 0..Len(TxSeq[b]) : DeleteBlocks(before \cup done, b, n)
    BY DEF RemoveBlocksCut
<1>2. PICK n \in 0..Len(TxSeq[b]) : DeleteBlocks(before \cup done, b, n)
    BY <1>1
<1>3. FirstTxs(b, n) \subseteq TxsOf(b)
    BY FirstAreOwn
<1>4. TxsOfAll(before \cup done) \cup FirstTxs(b, n) \subseteq TxsOfAll(before \cup S)
    BY <1>3 DEF TxsOfAll
<1>5. QED
    BY <1>2, <1>4 DEF DeleteBlocks, Removes

LEMMA EvictsTracked ==
    ASSUME NEW ix, NEW left, NEW n, NEW E \in Evictions(Live(ix, left), n)
    PROVE  E \subseteq DOMAIN ix
<1>1. E \subseteq DOMAIN Live(ix, left)
    BY DEF Evictions
<1>2. QED
    BY <1>1 DEF Live, Restrict

\* A check removes the blocks that are to be purged and blocks that are tracked,
LEMMA CheckRemoves ==
    ASSUME NEW ix, NEW n, NEW m, NEW purged \in SUBSET Block,
           DOMAIN ix \subseteq Block, CheckFrom(ix, n, m, purged)
    PROVE  \E E \in SUBSET DOMAIN ix : Removes(purged \cup E)
<1> DEFINE left == indexed \ purged
<1>1. PICK E \in Evictions(Live(ix, left), LiveTotal(ix, n, left)) :
         RemoveBlocks(purged \cup E)
    BY DEF CheckFrom
<1>2. E \subseteq DOMAIN ix
    BY EvictsTracked
<1>3. Removes(purged \cup E)
    BY <1>1, <1>2, RemoveRemoves
<1>4. QED
    BY <1>2, <1>3

\* and so does one that a kill cuts short.
LEMMA CheckCutRemoves ==
    ASSUME NEW ix, NEW n, NEW purged \in SUBSET Block,
           DOMAIN ix \subseteq Block, CheckCut(ix, n, purged)
    PROVE  \E E \in SUBSET DOMAIN ix : Removes(purged \cup E)
<1> DEFINE left == indexed \ purged
<1>1. PICK E \in Evictions(Live(ix, left), LiveTotal(ix, n, left)) :
         RemoveBlocksCut(purged, E, Live(ix, left)) \/ RemoveBlocks(purged \cup E)
    BY DEF CheckCut
<1>2. E \subseteq DOMAIN ix
    BY EvictsTracked
<1>3. Removes(purged \cup E)
    BY <1>1, <1>2, RemoveRemoves, RemoveCutRemoves
<1>4. QED
    BY <1>2, <1>3

LEMMA ReadRemoves ==
    ASSUME NEW b \in Block, ReadBlock(b)
    PROVE  \/ SeenCorrupted(b) /\ Removes({b})
           \/ UNCHANGED <<txs, indexed>>
BY RemoveRemoves DEF ReadBlock
-----------------------------------------------------------------------------
(* The invariant *)

\* LevelDB stays well-formed.
LEMMA AddsKeepsTypes ==
    ASSUME TypeOK, NEW b \in Block, Adds(b)
    PROVE  txs' \subseteq TxsOfAll(Block) /\ indexed' \subseteq Block
<1>1. TxsOf(b) \subseteq TxsOfAll(Block)
    BY DEF TxsOfAll
<1>2. QED
    BY <1>1 DEF TypeOK, Adds

LEMMA RemovesKeepsTypes ==
    ASSUME TypeOK, NEW S, Removes(S)
    PROVE  txs' \subseteq TxsOfAll(Block) /\ indexed' \subseteq Block
BY DEF TypeOK, Removes

LEMMA NoKeysType == NoKeys \in Ages /\ DOMAIN NoKeys = {}
<1>1. NoKeys \in [{} -> 0..clock] /\ {} \in SUBSET Block
    BY DEF NoKeys
<1>2. QED
    BY <1>1 DEF Ages, NoKeys

LEMMA AgesOfBlocks ==
    ASSUME NEW ix \in Ages
    PROVE  DOMAIN ix \subseteq Block /\ ix \in [DOMAIN ix -> 0..clock]
BY DEF Ages

LEMMA NoDumpIsNoIndex ==
    ASSUME clock \in 0..MaxClock
    PROVE  NoDump \notin Ages
<1>1. MaxClock \in Nat
    BY BoundAssumption
<1>2. \A S \in SUBSET Block : [S -> 0..clock] \subseteq [S -> 0..MaxClock]
    BY <1>1
<1>3. QED
    BY <1>2, DumpAssumption DEF Ages

\* A kill leaves the invariant's process part at rest.
LEMMA KillAtRest ==
    ASSUME TypeOK, NothingInMemory, UNCHANGED <<dump, versioned, tip, clock>>,
           txs' \subseteq TxsOfAll(Block), indexed' \subseteq Block
    PROVE  IInv'
<1>1. TypeOK'
    <2>1. index' \in Ages' /\ dump' \in (Ages \cup {NoDump})'
        BY NoKeysType DEF TypeOK, NothingInMemory, Ages
    <2>2. scheduled' \in [Block -> 0..MaxSaves]
        BY BoundAssumption DEF NothingInMemory
    <2>3. QED
        BY <2>1, <2>2 DEF TypeOK, NothingInMemory
<1>2. TotalCovers'
    BY NoKeysType, SizeOfNone DEF TotalCovers, NothingInMemory
<1>3. QED
    BY <1>1, <1>2 DEF IInv, IndexDumped, AtRest, NothingInMemory

\* Handlers that leave the agent, its dump and the clock alone.
LEMMA DiskStepKeeps ==
    ASSUME IInv, UNCHANGED <<dump, versioned, up, agent, clock>>,
           txs' \subseteq TxsOfAll(Block), indexed' \subseteq Block,
           awaited' \subseteq Block \X Callers, scheduled' \in [Block -> 0..MaxSaves],
           tip' \in Block
    PROVE  IInv'
BY DEF IInv, TypeOK, IndexDumped, TotalCovers, AtRest, agent, Ages

LEMMA InitIInv == Init => IInv
<1> SUFFICES ASSUME Init PROVE IInv
    OBVIOUS
<1>1. TypeOK
    <2>1. NoKeys \in Ages
        BY NoKeysType
    <2>2. 0 \in 0..MaxSaves /\ 0 \in 0..MaxClock
        BY BoundAssumption
    <2>3. scheduled \in [Block -> 0..MaxSaves]
        BY <2>2 DEF Init
    <2>4. QED
        BY <2>1, <2>2, <2>3 DEF Init, TypeOK
<1>2. TotalCovers
    BY NoKeysType, SizeOfNone DEF Init, TotalCovers
<1>3. QED
    BY <1>1, <1>2 DEF Init, IInv, IndexDumped, AtRest

LEMMA CheckStepKeeps ==
    ASSUME IInv, NEW ix \in Ages, NEW n \in Nat, NEW purged \in SUBSET indexed,
           dump = ix, n >= SizeOf[DOMAIN ix], CheckFrom(ix, n, n, purged),
           up' = TRUE, UNCHANGED <<versioned, tasks, tip, clock>>
    PROVE  IInv'
<1>1. /\ txs' \subseteq txs /\ indexed' \subseteq indexed
      /\ index' \in Ages /\ total' \in Nat
      /\ dump' = index' /\ dumpSize' = total'
      /\ total' >= SizeOf[DOMAIN index']
    BY CheckKeeps DEF IInv
<1>2. index' \in Ages' /\ dump' \in (Ages \cup {NoDump})'
    BY <1>1 DEF Ages
<1>3. TypeOK'
    BY <1>1, <1>2 DEF IInv, TypeOK, tasks
<1>4. QED
    BY <1>1, <1>3 DEF IInv, IndexDumped, TotalCovers, AtRest

LEMMA TrackKeeps ==
    ASSUME IInv, NEW b \in Block, Track(b), up, UNCHANGED <<versioned, up, awaited, tip, clock>>,
           txs' \subseteq TxsOfAll(Block), indexed' \subseteq Block,
           scheduled' \in [Block -> 0..MaxSaves]
    PROVE  IInv'
<1>1. index \in Ages /\ total \in Nat /\ clock \in 0..MaxClock
    BY DEF IInv, TypeOK
<1>2. DOMAIN index \subseteq Block /\ index \in [DOMAIN index -> 0..clock]
    BY <1>1, AgesOfBlocks
<1>3. DOMAIN index' = DOMAIN index \cup {b} /\ index' \in [DOMAIN index \cup {b} -> 0..clock]
    BY <1>1, <1>2, BoundAssumption DEF Track
<1>4. index' \in Ages'
    BY <1>2, <1>3 DEF Ages
<1>5. /\ SizeOf[DOMAIN index] \in Nat /\ SizeOf[{b}] \in Nat /\ SizeOf[DOMAIN index'] \in Nat
      /\ SizeOf[DOMAIN index'] <= SizeOf[DOMAIN index] + SizeOf[{b}]
    BY <1>2, <1>3, SizeOfOneMore
<1>6. total' = total + SizeOf[{b}] /\ dumpSize' = total' /\ dump' = index'
    BY DEF Track
<1>7. total' \in Nat /\ total' >= SizeOf[DOMAIN index']
    BY <1>1, <1>5, <1>6 DEF IInv, TotalCovers
<1>8. TypeOK'
    BY <1>4, <1>6, <1>7 DEF IInv, TypeOK
<1>9. QED
    BY <1>6, <1>7, <1>8 DEF IInv, IndexDumped, TotalCovers, AtRest

LEMMA StartKeeps ==
    ASSUME IInv, Start
    PROVE  IInv'
<1>1. CASE dump = NoDump
    <2>1. dump' = NoKeys /\ index' = NoKeys /\ total' = 0 /\ dumpSize' = 0 /\ up'
        BY <1>1 DEF Start, IInv, AtRest, agent
    <2>2. NoKeys \in Ages'
        BY NoKeysType DEF Start, Ages
    <2>3. TypeOK'
        BY <1>1, <2>1, <2>2 DEF Start, IInv, TypeOK, tasks
    <2>4. TotalCovers'
        BY <2>1, NoKeysType, SizeOfNone DEF TotalCovers
    <2>5. QED
        BY <2>1, <2>3, <2>4 DEF IInv, IndexDumped, AtRest
<1>2. CASE dump # NoDump
    <2>1. dump \in Ages
        BY <1>2 DEF IInv, TypeOK
    <2>2. SizeOf[DOMAIN dump] \in Nat
        BY <2>1, AgesOfBlocks, SizeAssumption
    <2>3. Untracked \in SUBSET indexed
        BY DEF Untracked
    <2>4. /\ CheckFrom(dump, SizeOf[DOMAIN dump], SizeOf[DOMAIN dump], Untracked)
          /\ up' = TRUE /\ UNCHANGED <<versioned, tasks, tip, clock>>
        BY <1>2 DEF Start
    <2>5. QED
        BY <2>1, <2>2, <2>3, <2>4, CheckStepKeeps
<1>3. QED
    BY <1>1, <1>2

LEMMA CheckingKeeps ==
    ASSUME IInv, Check
    PROVE  IInv'
<1>1. index \in Ages /\ total \in Nat /\ dump = index /\ dumpSize = total
    BY DEF IInv, TypeOK, IndexDumped, Check
<1>2. CheckFrom(index, total, total, {}) /\ up' = TRUE
    BY <1>1 DEF Check, IInv, TypeOK
<1>3. total >= SizeOf[DOMAIN index] /\ {} \in SUBSET indexed
    BY DEF IInv, TotalCovers
<1>4. UNCHANGED <<versioned, tasks, tip, clock>>
    BY DEF Check
<1>5. QED
    BY <1>1, <1>2, <1>3, <1>4, CheckStepKeeps

\* StartCut changes nothing but the blocks; the other kills also end the process.
LEMMA KillsKeep ==
    ASSUME IInv, KillStep
    PROVE  IInv'
<1>1. TypeOK
    BY DEF IInv
<1>2. CASE StartCut
    <2>1. txs' \subseteq TxsOfAll(Block) /\ indexed' \subseteq Block
        <3>1. Untracked \in SUBSET Block
            BY <1>1 DEF Untracked, TypeOK
        <3>2. CASE RemoveBlocksCut({}, Untracked, NoKeys)
            BY <1>1, <3>1, <3>2, RemoveCutRemoves, RemovesKeepsTypes
        <3>3. CASE dump # NoDump /\ CheckCut(dump, SizeOf[DOMAIN dump], Untracked)
            <4>1. DOMAIN dump \subseteq Block
                BY <1>1, <3>3, AgesOfBlocks DEF TypeOK
            <4>2. QED
                BY <1>1, <3>1, <3>3, <4>1, CheckCutRemoves, RemovesKeepsTypes
        <3>4. QED
            BY <1>2, <3>2, <3>3 DEF StartCut
    <2>2. QED
        BY <1>1, <1>2, <2>1, DiskStepKeeps DEF StartCut, tasks, TypeOK
<1>3. ASSUME NEW b \in Block, KillSaving(b) PROVE IInv'
    <2>1. Adds(b)
        BY <1>3, SaveCutAdds DEF KillSaving
    <2>2. QED
        BY <1>1, <1>3, <2>1, AddsKeepsTypes, KillAtRest DEF KillSaving
<1>4. ASSUME NEW b \in Block, KillReading(b) PROVE IInv'
    <2>1. Removes({} \cup {b})
        BY <1>4, RemoveCutRemoves DEF KillReading
    <2>2. QED
        BY <1>1, <1>4, <2>1, RemovesKeepsTypes, KillAtRest DEF KillReading
<1>5. CASE KillChecking
    <2>1. DOMAIN index \subseteq Block
        BY <1>1, AgesOfBlocks DEF TypeOK
    <2>2. \E E \in SUBSET DOMAIN index : Removes({} \cup E)
        BY <1>5, <2>1, CheckCutRemoves DEF KillChecking
    <2>3. QED
        BY <1>1, <1>5, <2>2, RemovesKeepsTypes, KillAtRest DEF KillChecking
<1>6. CASE Kill
    BY <1>1, <1>6, KillAtRest DEF Kill, disk, TypeOK
<1>7. QED
    BY <1>2, <1>3, <1>4, <1>5, <1>6 DEF KillStep

\* Every step keeps the invariant.
LEMMA StepKeeps ==
    ASSUME IInv, [Next]_vars
    PROVE  IInv'
<1>1. TypeOK
    BY DEF IInv
<1>2. CASE UNCHANGED vars
    BY <1>1, <1>2, DiskStepKeeps DEF vars, agent, TypeOK
<1>3. CASE Erase
    <2>1. up' = FALSE /\ index' = index /\ total' = total /\ dumpSize' = dumpSize /\ ~up
        BY <1>3 DEF Erase, agent, IInv, TypeOK
    <2>2. TypeOK'
        BY <1>1, <1>3 DEF Erase, TypeOK, agent, tasks, Ages
    <2>3. QED
        BY <2>1, <2>2 DEF IInv, IndexDumped, TotalCovers, AtRest
<1>4. CASE Start
    BY <1>4, StartKeeps
<1>5. ASSUME NEW b \in Block, GetVerboseBlock(b) PROVE IInv'
    BY <1>1, <1>5, DiskStepKeeps DEF GetVerboseBlock, Await, disk, TypeOK
<1>0. ASSUME NEW b \in Block, GetBlockObject(b) PROVE IInv'
    BY <1>1, <1>0, DiskStepKeeps DEF GetBlockObject, Await, disk, TypeOK
<1>6. ASSUME NEW b \in Block, GetRawBlock(b) PROVE IInv'
    <2>1. txs' \subseteq TxsOfAll(Block) /\ indexed' \subseteq Block
        BY <1>1, <1>6, ReadRemoves, RemovesKeepsTypes DEF GetRawBlock, TypeOK
    <2>2. QED
        BY <1>1, <1>6, <2>1, DiskStepKeeps DEF GetRawBlock, Await, TypeOK
<1>7. ASSUME NEW b \in Block, ObserveBlock(b) PROVE IInv'
    <2>1. txs' \subseteq TxsOfAll(Block) /\ indexed' \subseteq Block
        BY <1>1, <1>7, ReadRemoves, RemovesKeepsTypes DEF ObserveBlock, TypeOK
    <2>2. QED
        BY <1>1, <1>7, <2>1, DiskStepKeeps DEF ObserveBlock, Await, TypeOK
<1>8. ASSUME NEW b \in Block, AskMissing(b) PROVE IInv'
    BY <1>1, <1>8, DiskStepKeeps DEF AskMissing, Await, disk, TypeOK
<1>9. ASSUME NEW b \in Block, Answered(b) PROVE IInv'
    <2>1. scheduled' \in [Block -> 0..MaxSaves]
        BY <1>1, <1>9, BoundAssumption DEF Answered, TypeOK
    <2>2. QED
        BY <1>1, <1>9, <2>1, DiskStepKeeps DEF Answered, disk, TypeOK
<1>10. ASSUME NEW b \in Block, SaveTracked(b) PROVE IInv'
    <2>1. txs' \subseteq TxsOfAll(Block) /\ indexed' \subseteq Block
        BY <1>1, <1>10, SaveAdds, AddsKeepsTypes DEF SaveTracked
    <2>2. scheduled' \in [Block -> 0..MaxSaves]
        BY <1>1, <1>10, BoundAssumption DEF SaveTracked, TypeOK
    <2>3. QED
        BY <1>10, <2>1, <2>2, TrackKeeps DEF SaveTracked
<1>11. ASSUME NEW b \in Block, NEW caller \in Callers, NotAnswered(b, caller) PROVE IInv'
    BY <1>1, <1>11, DiskStepKeeps DEF NotAnswered, disk, TypeOK
<1>12. ASSUME NEW b \in Block, NEW caller \in Callers, SaveUntracked(b, caller) PROVE IInv'
    <2>1. txs' \subseteq TxsOfAll(Block) /\ indexed' \subseteq Block
        BY <1>1, <1>12, SaveAdds, AddsKeepsTypes DEF SaveUntracked
    <2>2. QED
        BY <1>1, <1>12, <2>1, DiskStepKeeps DEF SaveUntracked, TypeOK
<1>13. CASE Check
    BY <1>13, CheckingKeeps
<1>14. CASE KillStep
    BY <1>14, KillsKeep
<1>15. CASE MoveHeaders
    BY <1>1, <1>15, DiskStepKeeps DEF MoveHeaders, disk, tasks, TypeOK
<1>16. CASE Tick
    <2>1. clock' \in 0..MaxClock /\ 0..clock \subseteq 0..clock'
        BY <1>1, <1>16, BoundAssumption DEF Tick, TypeOK
    <2>2. Ages \subseteq Ages'
        BY <2>1 DEF Ages
    <2>3. TypeOK'
        BY <1>1, <1>16, <2>1, <2>2 DEF Tick, TypeOK, disk, agent, tasks
    <2>4. QED
        BY <1>16, <2>3 DEF Tick, IInv, IndexDumped, TotalCovers, AtRest, disk, agent, tasks
<1>17. QED
    BY <1>0, <1>2, <1>3, <1>4, <1>5, <1>6, <1>7, <1>8, <1>9, <1>10, <1>11, <1>12,
       <1>13, <1>14, <1>15, <1>16 DEF Next

\* The state is well-formed, the cache index in LevelDB is the one in memory,
\* and the total covers the tracked blocks, whatever is asked for and wherever
\* the process is killed.
THEOREM Invariant == Spec => []IInv
BY InitIInv, StepKeeps, PTL DEF Spec

THEOREM TypeCorrect == Spec => []TypeOK
BY Invariant, PTL DEF IInv

\* What a kill leaves in LevelDB is never an older cache index.
THEOREM IndexIsDumped == Spec => []IndexDumped
BY Invariant, PTL DEF IInv

\* Blocks tracked twice make the total too large, never too small.
THEOREM TotalIsEnough == Spec => []TotalCovers
BY Invariant, PTL DEF IInv
-----------------------------------------------------------------------------
(* The limit *)

LEMMA SmallerTakesLess ==
    ASSUME NEW S \in SUBSET Block, NEW T \in SUBSET S, NEW m \in Nat, SizeOf[S] <= m
    PROVE  SizeOf[T] <= m
<1>1. SizeOf[S] = SizeOf[S \ T] + SizeOf[T] /\ SizeOf[S \ T] \in Nat /\ SizeOf[T] \in Nat
    BY SizeOfParts
<1>2. QED
    BY <1>1

\* A check leaves the tracked blocks within the limit, and a start everything
\* that is out of the kept range.
THEOREM LimitHolds == Spec => WithinLimit
<1>1. ASSUME IInv, Check PROVE SizeOf[DOMAIN index'] <= Limit
    <2>1. /\ TypeOK /\ index \in Ages /\ total \in Nat /\ dump = index
          /\ total >= SizeOf[DOMAIN index] /\ {} \in SUBSET indexed
        BY <1>1 DEF IInv, TypeOK, IndexDumped, TotalCovers, Check
    <2>2. CheckFrom(index, total, total, {})
        BY <1>1 DEF Check, IInv, IndexDumped
    <2>3. QED
        BY <2>1, <2>2, CheckKeeps
<1>2. ASSUME IInv, Start, dump # NoDump PROVE SizeOf[indexed' \ Extemped] <= Limit
    <2>1. /\ TypeOK /\ dump \in Ages /\ DOMAIN dump \subseteq Block
          /\ Untracked \in SUBSET indexed
        BY <1>2, AgesOfBlocks DEF IInv, TypeOK, Untracked
    <2>2. SizeOf[DOMAIN dump] \in Nat
        BY <2>1, SizeAssumption
    <2>3. CheckFrom(dump, SizeOf[DOMAIN dump], SizeOf[DOMAIN dump], Untracked)
        BY <1>2 DEF Start
    <2>4. /\ indexed' \subseteq indexed
          /\ SizeOf[DOMAIN index'] <= Limit
          /\ DOMAIN index' \subseteq DOMAIN dump
          /\ (DOMAIN dump \ DOMAIN index') \cap indexed' = {}
          /\ Untracked \cap indexed' = {}
        BY <2>1, <2>2, <2>3, CheckKeeps
    <2>5. indexed' \ Extemped \subseteq DOMAIN index'
        BY <1>2, <2>4 DEF Untracked
    <2>6. DOMAIN index' \in SUBSET Block /\ Limit \in Nat
        BY <2>1, <2>4, BoundAssumption
    <2>7. QED
        BY <2>4, <2>5, <2>6, SmallerTakesLess
<1>3. IInv /\ [Next]_vars => [CutToLimit]_vars
    BY <1>1, <1>2 DEF CutToLimit
<1>4. QED
    BY <1>3, Invariant, PTL DEF Spec, WithinLimit
-----------------------------------------------------------------------------
(* Whole blocks, when no transaction is in two of them *)

OwnTransactions == \A b, c \in Block : b # c => TxsOf(b) \cap TxsOf(c) = {}

LEMMA RemoveSpares ==
    ASSUME OwnTransactions, NEW S \in SUBSET Block, RemoveBlocks(S),
           NEW b \in Block, Whole(b), b \in indexed'
    PROVE  Whole(b)'
<1>1. b \notin S
    BY DEF RemoveBlocks
<1>2. TxsOf(b) \cap TxsOfAll(S) = {}
    BY <1>1 DEF OwnTransactions, TxsOfAll
<1>3. TxsOf(b) \subseteq txs'
    BY <1>2 DEF RemoveBlocks, Whole
<1>4. QED
    BY <1>3 DEF Whole, TxsOf, FirstTxs

LEMMA AddSpares ==
    ASSUME NEW c \in Block, Adds(c), NEW b \in Block, Whole(b)
    PROVE  Whole(b)'
BY DEF Adds, Whole, TxsOf, FirstTxs

LEMMA SameSpares ==
    ASSUME UNCHANGED <<txs, indexed>>, NEW b \in Block, Whole(b)
    PROVE  Whole(b)'
BY DEF Whole, TxsOf, FirstTxs

\* A check, at a start or later, deletes whole blocks as a whole.
LEMMA CheckRemovesWhole ==
    ASSUME NEW ix, NEW n, NEW m, NEW purged \in SUBSET Block,
           DOMAIN ix \subseteq Block, CheckFrom(ix, n, m, purged)
    PROVE  \E S \in SUBSET Block : RemoveBlocks(S) /\ S \subseteq purged \cup DOMAIN ix
<1> DEFINE left == indexed \ purged
<1>1. PICK E \in Evictions(Live(ix, left), LiveTotal(ix, n, left)) :
         RemoveBlocks(purged \cup E)
    BY DEF CheckFrom
<1>2. E \subseteq DOMAIN ix
    BY EvictsTracked
<1>3. purged \cup E \in SUBSET Block
    BY <1>2
<1>4. QED
    BY <1>1, <1>2, <1>3

\* If no two blocks share a transaction, only a kill leaves a block in the index
\* that cannot be read any more.
THEOREM BrokenByKillsOnly == OwnTransactions => (Spec => OnlyKillsBreak)
<1> SUFFICES ASSUME OwnTransactions PROVE Spec => OnlyKillsBreak
    OBVIOUS
<1>1. ASSUME IInv, Next, ~KillStep, NEW b \in Block, Whole(b), b \in indexed'
      PROVE  Whole(b)'
    <2>1. TypeOK
        BY <1>1 DEF IInv
    <2>2. CASE Erase
        BY <1>1, <2>2 DEF Erase
    <2>3. CASE Start
        <3>1. CASE dump = NoDump
            BY <1>1, <2>3, <3>1, SameSpares DEF Start
        <3>2. CASE dump # NoDump
            <4>1. DOMAIN dump \subseteq Block /\ Untracked \in SUBSET Block
                BY <2>1, <3>2, AgesOfBlocks DEF TypeOK, Untracked
            <4>2. CheckFrom(dump, SizeOf[DOMAIN dump], SizeOf[DOMAIN dump], Untracked)
                BY <2>3, <3>2 DEF Start
            <4>3. QED
                BY <1>1, <4>1, <4>2, CheckRemovesWhole, RemoveSpares
        <3>3. QED
            BY <3>1, <3>2
    <2>4. CASE Check
        <3>1. DOMAIN index \subseteq Block /\ {} \in SUBSET Block
            BY <2>1, AgesOfBlocks DEF TypeOK
        <3>2. QED
            BY <1>1, <2>4, <3>1, CheckRemovesWhole, RemoveSpares DEF Check
    <2>5. ASSUME NEW c \in Block, ReadBlock(c) PROVE Whole(b)'
        BY <1>1, <2>5, SameSpares, RemoveSpares DEF ReadBlock
    <2>6. ASSUME NEW c \in Block, SaveBlock(c) PROVE Whole(b)'
        BY <1>1, <2>6, SaveAdds, AddSpares
    <2>7. ASSUME UNCHANGED <<txs, indexed>> PROVE Whole(b)'
        BY <1>1, <2>7, SameSpares
    <2>8. ASSUME NEW c \in Block,
                 \/ GetVerboseBlock(c) \/ GetRawBlock(c) \/ GetBlockObject(c)
                 \/ ObserveBlock(c) \/ AskMissing(c)
                 \/ Answered(c) \/ SaveTracked(c)
                 \/ \E caller \in Callers : NotAnswered(c, caller) \/ SaveUntracked(c, caller)
          PROVE  Whole(b)'
        <3>1. CASE GetRawBlock(c) \/ ObserveBlock(c)
            BY <2>5, <3>1 DEF GetRawBlock, ObserveBlock
        <3>2. CASE SaveTracked(c) \/ \E caller \in Callers : SaveUntracked(c, caller)
            BY <2>6, <3>2 DEF SaveTracked, SaveUntracked
        <3>3. CASE GetVerboseBlock(c) \/ GetBlockObject(c) \/ AskMissing(c) \/ Answered(c)
                   \/ \E caller \in Callers : NotAnswered(c, caller)
            BY <2>7, <3>3 DEF GetVerboseBlock, GetBlockObject, AskMissing, Answered, NotAnswered, disk
        <3>4. QED
            BY <2>8, <3>1, <3>2, <3>3
    <2>9. CASE MoveHeaders \/ Tick
        BY <2>7, <2>9 DEF MoveHeaders, Tick, disk
    <2>10. QED
        BY <1>1, <2>2, <2>3, <2>4, <2>8, <2>9 DEF Next
<1>2. IInv /\ [Next]_vars => [Breaks => KillStep]_vars
    BY <1>1 DEF Breaks
<1>3. QED
    BY <1>2, Invariant, PTL DEF Spec, OnlyKillsBreak
-----------------------------------------------------------------------------
(* The abstract store *)

LEMMA TrackedIsDumped ==
    ASSUME TypeOK
    PROVE  /\ Tracked \subseteq Block
           /\ dump \in Ages => Tracked = DOMAIN dump
<1>1. NoDump \notin Ages
    BY NoDumpIsNoIndex DEF TypeOK
<1>2. QED
    BY <1>1, AgesOfBlocks DEF TypeOK, Tracked

LEMMA WholeAfterAdd ==
    ASSUME OwnTransactions, TypeOK, NEW b \in Block, Adds(b)
    PROVE  WholeBlocks \subseteq WholeBlocks' /\ WholeBlocks' \subseteq WholeBlocks \cup {b}
<1>1. ASSUME NEW c \in Block, Whole(c) PROVE Whole(c)'
    BY <1>1, AddSpares
<1>2. ASSUME NEW c \in Block, c # b, Whole(c)' PROVE Whole(c)
    <2>1. TxsOf(c) \cap TxsOf(b) = {}
        BY <1>2 DEF OwnTransactions
    <2>2. TxsOf(c) \subseteq txs' /\ c \in indexed'
        BY <1>2 DEF Whole, TxsOf, FirstTxs
    <2>3. QED
        BY <1>2, <2>1, <2>2 DEF Adds, Whole
<1>3. QED
    BY <1>1, <1>2 DEF WholeBlocks

LEMMA WholeAfterRemoval ==
    ASSUME OwnTransactions, NEW S \in SUBSET Block, Removes(S)
    PROVE  WholeBlocks \ S \subseteq WholeBlocks' /\ WholeBlocks' \subseteq WholeBlocks
<1>1. ASSUME NEW c \in Block, c \notin S, Whole(c) PROVE Whole(c)'
    <2>1. TxsOf(c) \cap TxsOfAll(S) = {}
        BY <1>1 DEF OwnTransactions, TxsOfAll
    <2>2. TxsOf(c) \subseteq txs' /\ c \in indexed'
        BY <1>1, <2>1 DEF Removes, Whole
    <2>3. QED
        BY <2>2 DEF Whole, TxsOf, FirstTxs
<1>2. ASSUME NEW c \in Block, Whole(c)' PROVE Whole(c)
    BY <1>2 DEF Removes, Whole, TxsOf, FirstTxs
<1>3. QED
    BY <1>1, <1>2 DEF WholeBlocks

StoreVars == <<WholeBlocks, Tracked, tip>>

LEMMA SameStore ==
    ASSUME UNCHANGED <<txs, indexed, dump>>
    PROVE  WholeBlocks' = WholeBlocks /\ Tracked' = Tracked
BY DEF WholeBlocks, Whole, TxsOf, FirstTxs, Tracked

\* A save that finishes, or one cut short before the cache index is saved.
LEMMA AddIsSave ==
    ASSUME OwnTransactions, TypeOK, NEW b \in Block, Adds(b), tip' = tip,
           \/ Tracked' = Tracked
           \/ Whole(b)' /\ Tracked' = Tracked \cup {b}
    PROVE  Store!Save(b) \/ UNCHANGED StoreVars
<1>1. WholeBlocks \subseteq WholeBlocks' /\ WholeBlocks' \subseteq WholeBlocks \cup {b}
    BY WholeAfterAdd
<1>2. Whole(b)' => b \in WholeBlocks'
    BY DEF WholeBlocks
<1>3. WholeBlocks' = WholeBlocks \/ WholeBlocks' = WholeBlocks \cup {b}
    BY <1>1
<1>4. CASE Tracked' = Tracked
    BY <1>3, <1>4 DEF Store!Save, StoreVars
<1>5. CASE Whole(b)' /\ Tracked' = Tracked \cup {b}
    BY <1>1, <1>2, <1>5 DEF Store!Save
<1>6. QED
    BY <1>4, <1>5

\* A removal, whole or cut short, of blocks that are tracked or out of range.
LEMMA RemovalIsDrop ==
    ASSUME OwnTransactions, TypeOK, NEW S \in SUBSET Block, Removes(S), tip' = tip,
           S \cap WholeBlocks \subseteq Tracked \cup (Block \ Extemped),
           Tracked' \subseteq Tracked, (Tracked \ Tracked') \cap indexed' = {}
    PROVE  Store!Drop
<1>1. WholeBlocks \ S \subseteq WholeBlocks' /\ WholeBlocks' \subseteq WholeBlocks
    BY WholeAfterRemoval
<1>2. WholeBlocks' \subseteq indexed'
    BY DEF WholeBlocks, Whole
<1>3. Store!Kept = Extemped
    BY DEF Store!Kept, Extemped
<1>4. QED
    BY <1>1, <1>2, <1>3 DEF Store!Drop

\* A check that starts from the index in LevelDB.
LEMMA CheckIsDrop ==
    ASSUME OwnTransactions, TypeOK, NEW ix \in Ages, NEW n \in Nat,
           NEW purged \in SUBSET indexed, dump = ix, n >= SizeOf[DOMAIN ix],
           CheckFrom(ix, n, n, purged), purged \subseteq Block \ Extemped, tip' = tip
    PROVE  Store!Drop
<1>1. DOMAIN ix \subseteq Block /\ purged \in SUBSET Block
    BY AgesOfBlocks DEF TypeOK
<1>2. PICK E \in SUBSET DOMAIN ix : Removes(purged \cup E)
    BY <1>1, CheckRemoves
<1>3. /\ index' \in Ages /\ dump' = index'
      /\ DOMAIN index' \subseteq DOMAIN ix
      /\ (DOMAIN ix \ DOMAIN index') \cap indexed' = {}
    BY CheckKeeps
<1>4. NoDump \notin Ages
    BY NoDumpIsNoIndex DEF TypeOK
<1>5. Tracked = DOMAIN ix /\ Tracked' = DOMAIN index'
    BY <1>3, <1>4 DEF Tracked
<1>6. QED
    BY <1>1, <1>2, <1>3, <1>5, RemovalIsDrop

LEMMA CheckCutIsDrop ==
    ASSUME OwnTransactions, TypeOK, NEW ix \in Ages, NEW n,
           NEW purged \in SUBSET indexed, dump = ix,
           CheckCut(ix, n, purged), purged \subseteq Block \ Extemped,
           UNCHANGED <<dump, tip>>
    PROVE  Store!Drop
<1>1. DOMAIN ix \subseteq Block /\ purged \in SUBSET Block
    BY AgesOfBlocks DEF TypeOK
<1>2. PICK E \in SUBSET DOMAIN ix : Removes(purged \cup E)
    BY <1>1, CheckCutRemoves
<1>3. Tracked = DOMAIN ix /\ Tracked' = Tracked
    BY TrackedIsDumped DEF Tracked
<1>4. QED
    BY <1>1, <1>2, <1>3, RemovalIsDrop

LEMMA KillIsStoreStep ==
    ASSUME OwnTransactions, IInv, KillStep
    PROVE  Store!Next \/ UNCHANGED StoreVars
<1>1. TypeOK /\ Untracked \in SUBSET indexed /\ Untracked \subseteq Block \ Extemped
    BY DEF IInv, Untracked, TypeOK
<1>2. CASE StartCut
    <2>1. UNCHANGED <<dump, tip>>
        BY <1>2 DEF StartCut
    <2>2. CASE RemoveBlocksCut({}, Untracked, NoKeys)
        <3>1. Removes({} \cup Untracked) /\ Untracked \in SUBSET Block
            BY <1>1, <2>2, RemoveCutRemoves
        <3>2. Removes(Untracked) /\ Tracked' = Tracked
            BY <2>1, <3>1 DEF Tracked
        <3>3. QED
            BY <1>1, <2>1, <3>1, <3>2, RemovalIsDrop DEF Store!Next
    <2>3. CASE dump # NoDump /\ CheckCut(dump, SizeOf[DOMAIN dump], Untracked)
        BY <1>1, <2>1, <2>3, CheckCutIsDrop DEF Store!Next, TypeOK
    <2>4. QED
        BY <1>2, <2>2, <2>3 DEF StartCut
<1>3. ASSUME NEW b \in Block, KillSaving(b) PROVE Store!Next \/ UNCHANGED StoreVars
    <2>1. Adds(b) /\ tip' = tip /\ Tracked' = Tracked
        BY <1>3, SaveCutAdds DEF KillSaving, Tracked
    <2>2. QED
        BY <1>1, <2>1, AddIsSave DEF Store!Next
<1>4. ASSUME NEW b \in Block, KillReading(b) PROVE Store!Next \/ UNCHANGED StoreVars
    <2>1. Removes({} \cup {b})
        BY <1>4, RemoveCutRemoves DEF KillReading
    <2>2. Removes({b}) /\ tip' = tip /\ Tracked' = Tracked
        BY <1>4, <2>1 DEF KillReading, Tracked
    <2>3. {b} \cap WholeBlocks = {}
        BY <1>4 DEF KillReading, SeenCorrupted, WholeBlocks
    <2>4. QED
        BY <1>1, <2>2, <2>3, RemovalIsDrop DEF Store!Next
<1>5. CASE KillChecking
    <2>1. index \in Ages /\ dump = index /\ UNCHANGED <<dump, tip>>
        BY <1>5 DEF KillChecking, IInv, TypeOK, IndexDumped
    <2>2. CheckCut(index, total, {}) /\ {} \in SUBSET indexed
        BY <1>5 DEF KillChecking
    <2>3. QED
        BY <1>1, <2>1, <2>2, CheckCutIsDrop DEF Store!Next
<1>6. CASE Kill
    BY <1>6, SameStore DEF Kill, disk, StoreVars
<1>7. QED
    BY <1>2, <1>3, <1>4, <1>5, <1>6 DEF KillStep

LEMMA ReadIsStoreStep ==
    ASSUME OwnTransactions, TypeOK, NEW b \in Block, ReadBlock(b), UNCHANGED <<dump, tip>>
    PROVE  Store!Next \/ UNCHANGED StoreVars
<1>1. CASE SeenCorrupted(b) /\ Removes({b})
    <2>1. {b} \cap WholeBlocks = {} /\ Tracked' = Tracked
        BY <1>1 DEF SeenCorrupted, WholeBlocks, Tracked
    <2>2. QED
        BY <1>1, <2>1, RemovalIsDrop DEF Store!Next
<1>2. CASE UNCHANGED <<txs, indexed>>
    BY <1>2, SameStore DEF StoreVars
<1>3. QED
    BY <1>1, <1>2, ReadRemoves

LEMMA StartIsStoreStep ==
    ASSUME OwnTransactions, IInv, Start
    PROVE  Store!Next \/ UNCHANGED StoreVars
<1>1. TypeOK /\ Untracked \in SUBSET indexed /\ Untracked \subseteq Block \ Extemped
    BY DEF IInv, Untracked, TypeOK
<1>2. CASE dump = NoDump
    <2>1. dump' = NoKeys /\ UNCHANGED <<txs, indexed, tip>>
        BY <1>2 DEF Start
    <2>2. Tracked = {} /\ Tracked' = {}
        BY <1>2, <2>1, NoKeysType DEF Tracked
    <2>3. WholeBlocks' = WholeBlocks
        BY <2>1 DEF WholeBlocks, Whole, TxsOf, FirstTxs
    <2>4. QED
        BY <2>1, <2>2, <2>3 DEF StoreVars
<1>3. CASE dump # NoDump
    <2>1. dump \in Ages /\ tip' = tip
        BY <1>1, <1>3 DEF TypeOK, Start
    <2>2. SizeOf[DOMAIN dump] \in Nat
        BY <2>1, AgesOfBlocks, SizeAssumption
    <2>3. CheckFrom(dump, SizeOf[DOMAIN dump], SizeOf[DOMAIN dump], Untracked)
        BY <1>3 DEF Start
    <2>4. QED
        BY <1>1, <2>1, <2>2, <2>3, CheckIsDrop DEF Store!Next
<1>4. QED
    BY <1>2, <1>3

LEMMA CheckIsStoreStep ==
    ASSUME OwnTransactions, IInv, Check
    PROVE  Store!Next
<1>1. /\ TypeOK /\ index \in Ages /\ total \in Nat /\ dump = index
      /\ total >= SizeOf[DOMAIN index] /\ tip' = tip
    BY DEF IInv, TypeOK, IndexDumped, TotalCovers, Check
<1>2. CheckFrom(index, total, total, {}) /\ {} \in SUBSET indexed
    BY DEF Check, IInv, IndexDumped
<1>3. QED
    BY <1>1, <1>2, CheckIsDrop DEF Store!Next

\* save_block and track: the block is whole and accounted for.
LEMMA SaveIsStoreStep ==
    ASSUME OwnTransactions, IInv, NEW b \in Block, SaveBlock(b), tip' = tip, up,
           dump' = dump \/ Track(b)
    PROVE  Store!Next \/ UNCHANGED StoreVars
<1>1. TypeOK /\ Adds(b) /\ dump = index /\ index \in Ages
    BY SaveAdds DEF IInv, TypeOK, IndexDumped
<1>2. Whole(b)'
    BY SaveAdds DEF Whole, TxsOf, FirstTxs
<1>3. CASE dump' = dump
    <2>1. Tracked' = Tracked
        BY <1>3 DEF Tracked
    <2>2. QED
        BY <1>1, <2>1, AddIsSave DEF Store!Next
<1>4. CASE Track(b)
    <2>1. dump' = index' /\ DOMAIN index' = DOMAIN index \cup {b}
          /\ index' \in [DOMAIN index \cup {b} -> 0..clock]
        BY <1>1, <1>4, AgesOfBlocks, BoundAssumption DEF Track, TypeOK
    <2>2. index' \in Ages
        BY <1>1, <2>1, AgesOfBlocks DEF Ages
    <2>3. NoDump \notin Ages
        BY <1>1, NoDumpIsNoIndex DEF TypeOK
    <2>4. Tracked = DOMAIN index /\ Tracked' = DOMAIN index'
        BY <1>1, <2>1, <2>2, <2>3 DEF Tracked
    <2>5. QED
        BY <1>1, <1>2, <2>1, <2>4, AddIsSave DEF Store!Next
<1>5. QED
    BY <1>3, <1>4

\* Nothing is stored before the database has its version.
Fresh == ~versioned => ~up /\ indexed = {} /\ dump = NoDump

LEMMA FreshInvariant == Spec => []Fresh
<1>1. Init => Fresh
    BY DEF Init, Fresh
<1>2. Fresh /\ [Next]_vars => Fresh'
    <2>1. SUFFICES ASSUME Fresh, [Next]_vars PROVE Fresh'
        OBVIOUS
    <2>2. CASE UNCHANGED vars
        BY <2>1, <2>2 DEF vars, Fresh
    <2>3. CASE Erase
        BY <2>3 DEF Erase, Fresh
    <2>4. CASE Next /\ ~Erase
        <3>1. versioned' = versioned /\ (up \/ versioned)
            BY <2>4 DEF Next, KillStep, Start, StartCut, KillSaving, KillReading, KillChecking,
               Kill, GetVerboseBlock, GetRawBlock, GetBlockObject, ObserveBlock, AskMissing, Answered,
               SaveTracked, NotAnswered, SaveUntracked, Check, MoveHeaders, Tick, disk
        <3>2. QED
            BY <2>1, <3>1 DEF Fresh
    <2>5. QED
        BY <2>1, <2>2, <2>3, <2>4
<1>3. QED
    BY <1>1, <1>2, PTL DEF Spec

LEMMA StoreStep ==
    ASSUME OwnTransactions, IInv, Fresh, [Next]_vars
    PROVE  Store!Next \/ UNCHANGED StoreVars
<1>1. TypeOK
    BY DEF IInv
<1>2. ASSUME UNCHANGED <<txs, indexed, dump, tip>> PROVE UNCHANGED StoreVars
    BY <1>2, SameStore DEF StoreVars
<1>3. CASE UNCHANGED vars
    BY <1>2, <1>3 DEF vars
<1>4. CASE Erase
    <2>1. indexed = {} /\ indexed' = {} /\ dump' = dump /\ tip' = tip
        BY <1>4 DEF Erase, Fresh
    <2>2. QED
        BY <2>1 DEF StoreVars, WholeBlocks, Whole, Tracked
<1>5. CASE Start
    BY <1>5, StartIsStoreStep
<1>6. ASSUME NEW b \in Block,
             \/ GetVerboseBlock(b) \/ GetRawBlock(b) \/ GetBlockObject(b)
             \/ ObserveBlock(b) \/ AskMissing(b)
             \/ Answered(b) \/ SaveTracked(b)
             \/ \E caller \in Callers : NotAnswered(b, caller) \/ SaveUntracked(b, caller)
      PROVE  Store!Next \/ UNCHANGED StoreVars
    <2>1. CASE GetRawBlock(b) \/ ObserveBlock(b)
        BY <1>1, <2>1, ReadIsStoreStep DEF GetRawBlock, ObserveBlock
    <2>2. CASE SaveTracked(b) \/ \E caller \in Callers : SaveUntracked(b, caller)
        BY <2>2, SaveIsStoreStep DEF SaveTracked, SaveUntracked
    <2>3. CASE GetVerboseBlock(b) \/ GetBlockObject(b) \/ AskMissing(b) \/ Answered(b)
               \/ \E caller \in Callers : NotAnswered(b, caller)
        BY <1>2, <2>3 DEF GetVerboseBlock, GetBlockObject, AskMissing, Answered, NotAnswered, disk
    <2>4. QED
        BY <1>6, <2>1, <2>2, <2>3
<1>7. CASE Check
    BY <1>7, CheckIsStoreStep
<1>8. CASE KillStep
    BY <1>8, KillIsStoreStep
<1>9. CASE MoveHeaders
    <2>1. tip' \in Block /\ WholeBlocks' = WholeBlocks /\ Tracked' = Tracked
        BY <1>9, SameStore DEF MoveHeaders, disk
    <2>2. QED
        BY <2>1 DEF Store!Move, Store!Next
<1>10. CASE Tick
    BY <1>2, <1>10 DEF Tick, disk
<1>11. QED
    BY <1>3, <1>4, <1>5, <1>6, <1>7, <1>8, <1>9, <1>10 DEF Next

\* The storage, killed at any write, is a store of whole blocks, if no two blocks
\* share a transaction.
THEOREM StoreImplemented == OwnTransactions => (Spec => ImplementsBlockStore)
<1> SUFFICES ASSUME OwnTransactions PROVE Spec => ImplementsBlockStore
    OBVIOUS
<1>1. Init => Store!Init
    BY DEF Init, Store!Init, WholeBlocks, Whole, Tracked
<1>2. IInv /\ Fresh /\ [Next]_vars => [Store!Next]_StoreVars
    BY StoreStep
<1>3. QED
    BY <1>1, <1>2, Invariant, FreshInvariant, PTL DEF Spec, ImplementsBlockStore, Store!Spec, Store!vars, StoreVars
=============================================================================
