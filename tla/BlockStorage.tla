---------------------------- MODULE BlockStorage -----------------------------
(***************************************************************************)
(* What spruned keeps of the blocks it downloads: transactions and block   *)
(* indexes in LevelDB (blockchain_repository.py), the cache agent's index  *)
(* of the blocks that RPC calls asked for (cache.py), and the integrity    *)
(* check that main.py runs at every start (repository.py).                 *)
(*                                                                         *)
(* A handler runs without an await, so nothing of the process interleaves  *)
(* with it; but every put and delete goes straight to LevelDB (ldb_batch   *)
(* opens a write batch that nothing writes to), so a kill leaves the       *)
(* prefix of its writes.  Each handler is one action, and Kill... is the   *)
(* same handler cut short.                                                 *)
(*                                                                         *)
(* The headers, the peers and the callers are the environment: the best    *)
(* header moves, also to another branch, and a block that was asked for    *)
(* arrives at any later time, or never.                                    *)
(***************************************************************************)
EXTENDS Integers, Sequences, FiniteSets, Functions

CONSTANTS
    Block,          \* the blocks that some header stands for
    Height,         \* Height[b], a number
    Chain,          \* Chain[b]: the blocks from the lowest one up to b
    TxSeq,          \* TxSeq[b]: its transactions in order, the coinbase first
    SizeOf,         \* SizeOf[S]: the bytes that the blocks of S take together
    Limit,          \* CacheAgent.limit
    KeepBlocks,     \* Repository.keep_blocks
    Callers,        \* which of AllCallers run: RPC calls, mempool observer, blocks reactor
    NoDump,         \* no cache index in LevelDB
    MaxClock,       \* bound: values of time.time() told apart
    MaxTotal,       \* bound: CacheAgent.index['total'], which grows by every save
    MaxSaves,       \* bound: saves of one block scheduled and not yet run
    MaxAwaited      \* bound: downloads under way

AllCallers == {"getblock", "observer", "reactor"}

ASSUME BlockAssumption ==
    /\ IsFiniteSet(Block)
    /\ Height \in [Block -> Nat]
    /\ Chain \in [Block -> SUBSET Block]
    /\ DOMAIN TxSeq = Block
    /\ \A b \in Block : TxSeq[b] \in Seq(UNION {Range(TxSeq[c]) : c \in Block}) \ {<<>>}

ASSUME SizeAssumption ==
    /\ SizeOf \in [SUBSET Block -> Nat]
    /\ \A S, T \in SUBSET Block :
          S \cap T = {} => SizeOf[S \cup T] = SizeOf[S] + SizeOf[T]
    /\ \A b \in Block : SizeOf[{b}] > 0

ASSUME BoundAssumption ==
    /\ Limit \in Nat
    /\ KeepBlocks \in Nat
    /\ Callers \subseteq AllCallers
    /\ MaxClock \in Nat /\ MaxTotal \in Nat /\ MaxSaves \in Nat /\ MaxAwaited \in Nat

ASSUME DumpAssumption ==
    NoDump \notin UNION {[S -> 0..MaxClock] : S \in SUBSET Block}

VARIABLES
    (* LevelDB, which outlives the process *)
    txs,        \* transactions under TRANSACTION_PREFIX
    indexed,    \* blocks under BLOCK_INDEX_PREFIX
    dump,       \* cache_index: each tracked block's saved_at, or NoDump
    versioned,  \* DB_VERSION is the current one
    (* the process *)
    up,         \* main_task has run
    index,      \* CacheAgent.index['keys']: each tracked block's saved_at
    total,      \* CacheAgent.index['total']
    dumpSize,   \* CacheAgent._last_dump_size
    awaited,    \* downloads under way: <<block, caller>>
    scheduled,  \* async_save_block tasks created and not yet run, for each block
    (* the environment *)
    tip,        \* the best header
    clock       \* int(time.time())

disk == <<txs, indexed, dump, versioned>>
agent == <<index, total, dumpSize>>
tasks == <<awaited, scheduled>>
vars == <<txs, indexed, dump, versioned, up, index, total, dumpSize,
          awaited, scheduled, tip, clock>>
-----------------------------------------------------------------------------
(* A block and its transactions in LevelDB *)

FirstTxs(b, n) == {TxSeq[b][i] : i \in 1..n}

TxsOf(b) == FirstTxs(b, Len(TxSeq[b]))

TxsOfAll(S) == UNION {TxsOf(b) : b \in S}

Whole(b) == b \in indexed /\ TxsOf(b) \subseteq txs

\* get_transactions_by_block_hash finds the first transaction, and misses a later one.
SeenCorrupted(b) == b \in indexed /\ TxSeq[b][1] \in txs /\ ~Whole(b)

\* The first n transactions of b are put, then perhaps the index key.
PutBlock(b, n, withIndex) ==
    /\ txs' = txs \cup FirstTxs(b, n)
    /\ indexed' = IF withIndex THEN indexed \cup {b} ELSE indexed

\* save_block
SaveBlock(b) == PutBlock(b, Len(TxSeq[b]), TRUE)

SaveBlockCut(b) ==
    \/ \E n \in 0..Len(TxSeq[b]) : PutBlock(b, n, FALSE)
    \/ SaveBlock(b)

\* The blocks of S are deleted, and the first n transactions of one more.
DeleteBlocks(S, b, n) ==
    /\ txs' = txs \ (TxsOfAll(S) \cup FirstTxs(b, n))
    /\ indexed' = indexed \ S

\* A variant with a bug: the block index keeps the key.
RemoveTxsOnly(S) ==
    /\ txs' = txs \ TxsOfAll(S)
    /\ UNCHANGED indexed

\* remove_block, for each block of S
RemoveBlocks(S) ==
    /\ txs' = txs \ TxsOfAll(S)
    /\ indexed' = indexed \ S
-----------------------------------------------------------------------------
(* The cache agent *)

NoKeys == [b \in {} |-> 0]

\* E holds the blocks of ix that were saved first (ties in any order).
Oldest(ix, E) == \A b \in E, c \in DOMAIN ix \ E : ix[b] <= ix[c]

\* A variant with a bug: the margin is added to the limit.
FitsLoosely(n) == 10 * n <= 11 * Limit

Fits(n) == 11 * n <= 10 * Limit

\* check deletes the oldest blocks, one at a time, until what is left fits.
Evictions(ix, n) ==
    IF n <= Limit THEN {{}}
    ELSE {E \in SUBSET DOMAIN ix :
            /\ Oldest(ix, E)
            /\ E = DOMAIN ix \/ Fits(n - SizeOf[E])
            /\ E # {} => \E b \in E : Oldest(ix, E \ {b}) /\ ~Fits(n - SizeOf[E \ {b}])}

\* Variants with a bug: the index waits for the next check to be saved; the
\* clock is read late.
TrackUnsaved(b) ==
    /\ index' = [c \in DOMAIN index \cup {b} |-> IF c = b THEN clock ELSE index[c]]
    /\ total' = total + SizeOf[{b}]
    /\ UNCHANGED <<dump, dumpSize>>
TrackLate(b) ==
    /\ index' = [c \in DOMAIN index \cup {b} |-> IF c = b THEN clock + 1 ELSE index[c]]
    /\ total' = total + SizeOf[{b}]
    /\ dump' = index'
    /\ dumpSize' = total'

\* track
Track(b) ==
    /\ index' = [c \in DOMAIN index \cup {b} |-> IF c = b THEN clock ELSE index[c]]
    /\ total' = total + SizeOf[{b}]
    /\ dump' = index'
    /\ dumpSize' = total'

\* _purge_stales
Live(ix, left) == Restrict(ix, DOMAIN ix \cap left)

\* A variant with a bug: what is left is subtracted.
LeftTotal(ix, n, left) == n - SizeOf[DOMAIN ix \cap left]

LiveTotal(ix, n, left) == n - SizeOf[DOMAIN ix \ left]

\* check, with the index and the totals it starts from, after the blocks of
\* purged were removed.
CheckFrom(ix, n, lastDumped, purged) ==
    LET live == Live(ix, indexed \ purged)
        size == LiveTotal(ix, n, indexed \ purged)
    IN \E E \in Evictions(live, size) :
         /\ RemoveBlocks(purged \cup E)
         /\ index' = Restrict(live, DOMAIN live \ E)
         /\ total' = size - SizeOf[E]
         /\ LET pending == DOMAIN ix # {} /\ lastDumped = 0
            IN dump' = IF pending \/ total' # lastDumped THEN index' ELSE dump
         /\ dumpSize' = total'

\* A kill while blocks of S are removed, those that ix saved first going first.
RemoveBlocksCut(before, S, ix) ==
    \E done \in SUBSET S, b \in S :
        /\ b \notin done
        /\ Oldest(ix, done) /\ Oldest(ix, done \cup {b})
        /\ \E n \in 0..Len(TxSeq[b]) : DeleteBlocks(before \cup done, b, n)

\* A kill during check: between two deletions, or before the index is saved.
CheckCut(ix, n, purged) ==
    LET live == Live(ix, indexed \ purged)
    IN \E E \in Evictions(live, LiveTotal(ix, n, indexed \ purged)) :
         \/ RemoveBlocksCut(purged, E, live)
         \/ RemoveBlocks(purged \cup E)

NothingInMemory ==
    /\ up' = FALSE
    /\ index' = NoKeys /\ total' = 0 /\ dumpSize' = 0
    /\ awaited' = {} /\ scheduled' = [b \in Block |-> 0]
-----------------------------------------------------------------------------
(* Starting *)

Init ==
    /\ txs = {} /\ indexed = {} /\ dump = NoDump /\ versioned = FALSE
    /\ up = FALSE
    /\ index = NoKeys /\ total = 0 /\ dumpSize = 0
    /\ awaited = {} /\ scheduled = [b \in Block |-> 0]
    /\ tip \in Block
    /\ clock = 0

\* app.py: a database without the current version is erased, then stamped.
Erase ==
    /\ ~up /\ ~versioned
    /\ txs' = {} /\ indexed' = {} /\ dump' = NoDump
    /\ versioned' = TRUE
    /\ UNCHANGED <<up, agent, tasks, tip, clock>>

\* get_extemped_blockhash
Extemped ==
    IF Height[tip] > KeepBlocks
    THEN {b \in Chain[tip] : Height[b] >= Height[tip] - KeepBlocks}
    ELSE {}

\* A variant with a bug: the kept range is not looked at.
UntrackedOrKept == IF dump = NoDump THEN {} ELSE indexed \ DOMAIN dump

\* What ensure_integrity removes: nothing if there is no cache index yet.
Untracked ==
    IF dump = NoDump THEN {} ELSE indexed \ (Extemped \cup DOMAIN dump)

\* main_task: ensure_integrity, which loads the cache index, then cache.check.
Start ==
    /\ ~up /\ versioned
    /\ up' = TRUE
    /\ IF dump = NoDump
       THEN /\ dump' = NoKeys
            /\ UNCHANGED <<txs, indexed, agent>>
       ELSE LET size == SizeOf[DOMAIN dump]
            IN CheckFrom(dump, size, size, Untracked)
    /\ UNCHANGED <<versioned, tasks, tip, clock>>

\* Killed before it is over.
StartCut ==
    /\ ~up /\ versioned
    /\ \/ RemoveBlocksCut({}, Untracked, NoKeys)
       \/ dump # NoDump /\ CheckCut(dump, SizeOf[DOMAIN dump], Untracked)
    /\ UNCHANGED <<dump, versioned, up, agent, tasks, tip, clock>>
-----------------------------------------------------------------------------
(* Running: who reads and saves blocks *)

Await(b, caller) ==
    /\ caller \in Callers
    /\ Cardinality(awaited) < MaxAwaited
    /\ awaited' = awaited \cup {<<b, caller>>}

\* get_transactions_by_block_hash: a block seen to be corrupted is removed.
ReadBlock(b) ==
    IF SeenCorrupted(b) THEN RemoveBlocks({b}) ELSE UNCHANGED <<txs, indexed>>

\* getblock with mode 1 reads the index only.
GetVerboseBlock(b) ==
    /\ up
    /\ b \in Chain[tip] \ indexed
    /\ Await(b, "getblock")
    /\ UNCHANGED <<disk, up, agent, scheduled, tip, clock>>

\* getblock with mode 0 reads the transactions; when they do not parse, it asks
\* for the block again although it is stored.
GetRawBlock(b) ==
    /\ up
    /\ b \in Chain[tip]
    /\ ReadBlock(b)
    /\ Await(b, "getblock")
    /\ UNCHANGED <<dump, versioned, up, agent, scheduled, tip, clock>>

\* get_block_object, which ZeroMQ's processblock calls for a new header, does not
\* look into the storage.
GetBlockObject(b) ==
    /\ up
    /\ b \in Chain[tip]
    /\ Await(b, "getblock")
    /\ UNCHANGED <<disk, up, agent, scheduled, tip, clock>>

\* MempoolObserver.on_block_header, for a new best header or again after a failure.
\* A block read from the storage may or may not parse.
ObserveBlock(b) ==
    /\ up
    /\ b = tip \/ <<b, "observer">> \in awaited
    /\ ReadBlock(b)
    /\ \/ Await(b, "observer")
       \/ Whole(b) /\ awaited' = awaited \ {<<b, "observer">>}
    /\ UNCHANGED <<dump, versioned, up, agent, scheduled, tip, clock>>

\* The blocks reactor asks for what the index does not have of the last blocks.
AskMissing(b) ==
    /\ up
    /\ b \in Chain[tip] \ indexed
    /\ Height[b] >= Height[tip] - KeepBlocks
    /\ Await(b, "reactor")
    /\ UNCHANGED <<disk, up, agent, scheduled, tip, clock>>

\* _get_block: every failed try before the answer has saved the block once more.
Answered(b) ==
    /\ up
    /\ <<b, "getblock">> \in awaited
    /\ awaited' = awaited \ {<<b, "getblock">>}
    /\ \E n \in (scheduled[b] + 1)..MaxSaves : scheduled' = [scheduled EXCEPT ![b] = n]
    /\ UNCHANGED <<disk, up, agent, tip, clock>>

NotAnswered(b, caller) ==
    /\ up
    /\ <<b, caller>> \in awaited
    /\ awaited' = awaited \ {<<b, caller>>}
    /\ UNCHANGED <<disk, up, agent, scheduled, tip, clock>>

\* async_save_block, with the cache agent as tracker
SaveTracked(b) ==
    /\ up
    /\ scheduled[b] > 0
    /\ total + SizeOf[{b}] <= MaxTotal
    /\ scheduled' = [scheduled EXCEPT ![b] = @ - 1]
    /\ SaveBlock(b)
    /\ Track(b)
    /\ UNCHANGED <<versioned, up, awaited, tip, clock>>

\* The observer and the reactor save what they asked for, without a tracker.
SaveUntracked(b, caller) ==
    /\ up
    /\ caller # "getblock"
    /\ <<b, caller>> \in awaited
    /\ awaited' = awaited \ {<<b, caller>>}
    /\ SaveBlock(b)
    /\ UNCHANGED <<dump, versioned, up, agent, scheduled, tip, clock>>

\* lurk calls check every ten minutes.
Check ==
    /\ up
    /\ CheckFrom(index, total, dumpSize, {})
    /\ UNCHANGED <<versioned, up, tasks, tip, clock>>
-----------------------------------------------------------------------------
(* Kills, and the environment *)

\* A kill in the middle of a handler leaves the writes made so far.
KillSaving(b) ==
    /\ up
    /\ scheduled[b] > 0 \/ \E caller \in AllCallers \ {"getblock"} : <<b, caller>> \in awaited
    /\ SaveBlockCut(b)
    /\ UNCHANGED <<dump, versioned, tip, clock>>
    /\ NothingInMemory

KillReading(b) ==
    /\ up
    /\ b \in Chain[tip] \/ <<b, "observer">> \in awaited
    /\ SeenCorrupted(b)
    /\ RemoveBlocksCut({}, {b}, NoKeys)
    /\ UNCHANGED <<dump, versioned, tip, clock>>
    /\ NothingInMemory

KillChecking ==
    /\ up
    /\ CheckCut(index, total, {})
    /\ UNCHANGED <<dump, versioned, tip, clock>>
    /\ NothingInMemory

Kill ==
    /\ up
    /\ UNCHANGED <<disk, tip, clock>>
    /\ NothingInMemory

\* The headers table: a header on top, a catch-up, a rollback, another branch.
MoveHeaders ==
    /\ up
    /\ tip' \in Block \ {tip}
    /\ UNCHANGED <<disk, up, agent, tasks, clock>>

Tick ==
    /\ up
    /\ clock < MaxClock
    /\ clock' = clock + 1
    /\ UNCHANGED <<disk, up, agent, tasks, tip>>

KillStep ==
    \/ StartCut
    \/ \E b \in Block : KillSaving(b) \/ KillReading(b)
    \/ KillChecking
    \/ Kill

Next ==
    \/ Erase \/ Start
    \/ \E b \in Block :
          \/ GetVerboseBlock(b) \/ GetRawBlock(b) \/ GetBlockObject(b)
          \/ ObserveBlock(b) \/ AskMissing(b)
          \/ Answered(b) \/ SaveTracked(b)
          \/ \E caller \in Callers : NotAnswered(b, caller) \/ SaveUntracked(b, caller)
    \/ Check
    \/ KillStep
    \/ MoveHeaders \/ Tick

Spec == Init /\ [][Next]_vars
-----------------------------------------------------------------------------
(* Properties *)

Ages == UNION {[S -> 0..clock] : S \in SUBSET Block}

\* The state is well-formed, and no block was saved in the future.
TypeOK ==
    /\ txs \subseteq TxsOfAll(Block)
    /\ indexed \subseteq Block
    /\ dump \in Ages \cup {NoDump}
    /\ versioned \in BOOLEAN /\ up \in BOOLEAN
    /\ index \in Ages
    /\ total \in Nat /\ dumpSize \in Nat
    /\ awaited \subseteq Block \X Callers
    /\ scheduled \in [Block -> 0..MaxSaves]
    /\ tip \in Block
    /\ clock \in 0..MaxClock

\* The cache index in LevelDB is the one in memory whenever a handler is over,
\* although check saves it only if the total has changed since the last save.
IndexDumped == up => dump = index /\ dumpSize = total

\* The total never says less than the tracked blocks take: purges and
\* evictions of blocks tracked twice do not make it run short.
TotalCovers == total >= SizeOf[DOMAIN index]

\* After check the tracked blocks are within the limit, and after a start that
\* found a cache index, so are all the blocks on disk but those in the kept range.
CutToLimit ==
    /\ Check => SizeOf[DOMAIN index'] <= Limit
    /\ Start /\ dump # NoDump => SizeOf[indexed' \ Extemped] <= Limit

WithinLimit == [][CutToLimit]_vars

\* Only a kill leaves in the index a block that could be read before and cannot
\* any more: neither the removal of another block, nor a read, nor a check does.
Breaks == \E b \in Block : Whole(b) /\ b \in indexed' /\ ~Whole(b)'

OnlyKillsBreak == [][Breaks => KillStep]_vars

\* With transactions of their own for each block, the storage is a BlockStore:
\* a kill at any write neither loses a kept block that is not tracked, nor
\* leaves a tracked one unaccounted for.
Tracked == IF dump = NoDump THEN {} ELSE DOMAIN dump

WholeBlocks == {b \in Block : Whole(b)}

Store == INSTANCE BlockStore WITH stored <- WholeBlocks, cached <- Tracked, best <- tip

ImplementsBlockStore == Store!Spec

\* README.md:38: "keep the last ~50 (default settings) blocks on the local
\* storage".  No step but a kill drops a block of the last KeepBlocks ones, on a
\* chain longer than that.
KeptBlocksStay ==
    [][\A b \in Extemped : Whole(b) /\ ~Whole(b)' => KillStep]_vars

\* README.md:117: "Cache size (in megabytes) (default: 50)".  A check deletes
\* nothing while the tracked blocks fit into the cache.
KeptWhileItFits ==
    [][Check /\ SizeOf[DOMAIN index] <= Limit => indexed \subseteq indexed']_vars
=============================================================================
