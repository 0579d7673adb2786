# TLA+ models of spruned

spruned is a bitcoin light client: it keeps the headers of the chain that
Electrum servers announce, downloads blocks from bitcoin peers when they are
asked for, caches them, and answers part of bitcoind's JSON-RPC interface.
Everything runs on one asyncio loop in one process: a coroutine is atomic
between two awaits and everything can happen during an await. There are no
threads to speak of; the hard behaviours are interleavings of coroutines, state
captured before an await and used after it, answers of servers that disagree,
lost answers, and a kill and restart of the process with what LevelDB and
sqlite kept.

These modules model that code. Every definition is translated from the source
under `src/spruned`; `PROJECT.json` maps each to its lines.

## Inventory

| Part | State | Operations | What is hard | What makes it correct |
|---|---|---|---|---|
| headers reactor (`daemon/tasks/headers_reactor.py`) | last processed header, `synced`, lock, orphans, error count | `on_new_header`, three ways to catch up, rollback, `check_headers` | announcements of many servers interleave; the local best header is captured before awaits of many seconds; retries recurse while the lock is held | one writer at a time; the table stays a stack; synced means aligned; every call returns; a stale branch is left when the servers have outgrown it |
| headers repository (`repositories/headers_repository.py`) | the sqlite table `headers` | save one, save many, remove from a height, queries by hash, height, id | "best" and "next/previous" go by row id, not by height or hash | ids follow heights; neighbours are parents |
| transactions and batches (`application/database.py`) | nesting counter, sessions | `atomic`, `ldb_batch` | decorated coroutines leave the transaction at their first await; the batch counter after an exception | an update is all or nothing |
| block repository (`repositories/blockchain_repository.py`) | LevelDB: transactions, block index | save and remove blocks and transactions, queries | a kill between two puts; a transaction shared by blocks | an indexed block is complete or repaired |
| repository integrity (`repositories/repository.py`) | what it finds on disk | `ensure_integrity` | runs at start on whatever a kill left | afterwards headers, blocks and cache index agree |
| cache agent (`application/cache.py`) | index of block sizes, total | track, check, delete, `lurk` | the index and the blocks are written at different times | the total is the sum; the limit is respected |
| blocks reactor (`daemon/tasks/blocks_reactor.py`) | last processed block, lock, bootstrap state | `on_header`, `check`, bootstrap | headers move while blocks are fetched; partial answers | the last blocks are there |
| mempool repository and observer (`repositories/mempool_repository.py`, `application/mempool_observer.py`) | transactions, outpoints, double spends, forget pool, projection | add, remove, replace, new block | several indexes over the same transactions; expiry | the indexes agree |
| connection pools (`daemon/connectionpool_base_impl.py`, `daemon/connection_base_impl.py`, `daemon/electrod/electrod_connection.py`, `daemon/bitcoin_p2p/p2p_connection.py`) | connections, scores, observers | connect, error, disconnect, pick, call | errors and disconnections race with calls | counts of live connections; a bad peer goes away |
| stratum client (`dependencies/connectrum.py`) | requests in flight, subscriptions | send, answer, notification, close | answers out of order, after a timeout, or never | each answer reaches its caller |
| inventory batcher (`dependencies/pycoinnet/inv_batcher.py`, `MappingQueue.py`, `inv_fetcher.py`) | work queue, futures | enqueue, fetch, retry, expire | a peer that stops answering; items skipped | every future is resolved |
| value-object service (`application/spruned_vo_service.py`) | none of its own | `getblock`, `getrawtransaction`, ... with retries | blocks expire and reorganise between lookups | an answer is about one block |
| fee estimation (`daemon/electrod/electrod_fee_estimation.py`) | rates per server | collect, project | servers disagree | the projection has a quorum |
| ZMQ publishers (`daemon/zeromq.py`) | topics | publish a transaction, a hash, a block | depend on the callbacks of the reactors | what is stored is announced |
| JSON-RPC server, settings, logging, migrations, start-up (`application/jsonrpc_server.py`, `context.py`, `migrations`, `app.py`, `main.py`, `builder.py`) | configuration | request dispatch | little state | - |

How they interact: an Electrum connection pushes each announced header to
`HeadersReactor.on_new_header`; the reactor writes the headers table, and calls
the callbacks that start the block bootstrap and the p2p pool when the best
height is hit, and the blocks reactor, the mempool observer and the ZMQ
publishers on a new header. The blocks reactor reads the headers table and asks
the p2p interface for blocks, which the batcher fetches from peers; it writes
them to LevelDB, which reports their sizes to the cache agent, which deletes
blocks again. The value-object service reads all of them for the RPC server.
At start, `ensure_integrity` repairs what the last kill left on disk.

## Plan

In this order, the most important behaviour first. All are modelled and checked,
and every safety property that a passing run checks is proved, but those under
*Checked only*.

1. `HeadersRepository`, `HeadersStore`, `HeadersReactor`, their runs and proofs.
2. `BlockStorage`: block repository, cache agent, integrity check, with a kill
   between any two writes; `BlockStore`, an abstract store of whole blocks that
   it implements; proofs of the cache's accounting and of what the check and
   the start guarantee.
3. `BlocksReactor`, on headers that move: does it keep the last blocks, does the
   bootstrap end, what runs `check` in the assembled program.
4. `MempoolRepository` and `MempoolObserver`: what announcements, conflicts,
   blocks and tasks leave in the indexes.
5. `StratumClient` and `ElectrodConnection`, one connection to a server;
   `ElectrodPool`, the pool of them: scores, reconnection, what a call without an answer is charged.
6. `InvBatcher` and `P2PPool`: the gets of blocks and their peers.
7. `FeeCollector` and `SprunedVOService`: retries over all of the above.
8. Proofs of the invariants of 3, 5, 6 and 7, for any blocks, servers, connections
   and calls.
9. Proofs about 4, for any transactions and conflicts; of when the headers are
   aligned and linked; of the lock and the list of the blocks reactor.
10. Left: that each model is an environment the others allow for is argued, not
   proved; what is proved of `StratumClient` and `ElectrodPool` could be joined.

How the modules depend on each other:

| Module | Extends | Instance | Proofs |
|---|---|---|---|
| `HeadersReactor` | `HeadersRepository`; implements `HeadersStore` | `MCHeadersReactor` | `HeadersReactorProofs` |
| `BlockStorage` | implements `BlockStore` | `MCBlockStorage` | `BlockStorageProofs` |
| `BlocksReactor` | | `MCBlocksReactor` | `BlocksReactorProofs` |
| `MempoolObserver` | `MempoolRepository` | `MCMempool` | `MempoolProofs` |
| `ElectrodConnection` | `StratumClient` | `MCElectrodConnection` | `ElectrodConnectionProofs` |
| `ElectrodPool` | | `MCElectrodPool` | `ElectrodPoolProofs` |
| `P2PPool` | `InvBatcher` | `MCP2PPool` | `P2PPoolProofs` |
| `SprunedVOService` | `FeeCollector` | `MCSprunedVOService` | `SprunedVOServiceProofs` |

## The headers

### Modules

- `HeadersRepository` - the sqlite table as pure operators. The table is a
  function from stored blocks to row ids; a header *is* its block, the tree of
  blocks is the constants `Block`, `Genesis`, `Height`, `Prev`. `SaveOutcome`
  says which of three things a save does: it succeeds, it raises
  `HeadersInconsistencyException`, or `query.one()` raises `NoResultFound`, which
  nobody catches. Only headers that pass `verify_pow` are members of `Block`.
- `HeadersReactor` - the reactor, on top of it. A call of `on_new_header` is a
  member of `Task`; `pc[t]` is the await it is suspended at and `frame[t]` its
  local variables, among them the header it captured before the await. Servers
  are the environment: each answer comes from a server whose tip is in `Tips`,
  possibly a different one each time, or does not come. A network partition, a
  slow server and a server on another branch are all of this kind. `Restart`
  kills the process at any step and keeps only the table.
- `HeadersStore` - the abstract specification: a set of stored blocks that is
  extended on top, linked at the bottom of each batch, or truncated within the
  chunk of the highest header.
- `MCHeadersReactor` - instances: a main chain, a branch, servers that agree,
  lag or are on both branches; the table that an earlier run left.
- `HeadersReactorProofs` - the proofs, of the table first.

What is abstracted: bytes, proof of work, timestamps (the fallback loop may find
the last header too recent or not, at any time), scores and disconnections of
peers, and the durations of sleeps. `check_headers` wake-ups that only schedule
the next wake-up are not actions.

What cannot happen is left out. At another header of the same height `on_new_header`
charges the peer and evaluates `peer.server_info`, which a connection does not have:
`PingEnds` ends the call there. The pause and the second opinion that follow in the text
(`on_inconsistent_header_received`, `on_new_orphan`, `remove_header_at_height`) are not
reached, and have no action.

### Runs

| Run | Shows | Instance |
|---|---|---|
| `HeadersFork` | type, row ids follow heights, captured headers stay valid across awaits, the table starts at genesis, the last processed header is the best row (`LastIsBest`), `HeadersStore` is implemented | 2 calls, main chain to 8, branch from 2 to 4, chunks of 4 headers saved every 2 chunks, 1 retry, `MaxSyncErrors` 1, every failure |
| `HeadersAgree` | when all servers have one chain, synced means aligned (`AlignedWhenSynced`) and rows side by side are parent and child (`NeighboursAreParents`); every call returns (`CallsReturn`); once nothing fails any more a stale branch that the servers have outgrown is left and their tip is reached for good (`LeavesOutgrownBranch`) | 2 calls, main chain and stale branch to 7, any table left behind, failures, 1 retry, fairness |

The bounds are small but every case occurs in them: a chain of three chunks, so
that a download saves, keeps, and saves again; a fork inside a chunk and one
that crosses a chunk; a gap of one header, of a few, and of more than
`MaxSingle`; a retry that succeeds and one that is refused. `MaxSyncErrors` caps
`_sync_errors`, which only matters once it reaches 100; `Task` bounds the calls
in progress; chunk length, chunks between saves and retries are scaled down
from 2016, 5 and 5 through constants.

Fairness: asyncio resumes every coroutine whose await is over, each sleep ends
and `rpc_call` bounds every request with a timeout, hence weak fairness of the
steps of a call. `asyncio.Lock` wakes its waiters in order, hence strong fairness
of taking the lock. `LeavesOutgrownBranch` assumes besides
(`Calm`) that from some time on no call fails, the process is not killed, and servers
announce their tips, which the pool ensures by replacing lost connections: nothing
is promised to a process that is killed for ever. Its premise `Outgrown` is about the
table at the start: empty, on the servers' chain, or with a best header below their tips.
The servers' chain is a constant. A branch exactly as high as it is never left in
the model; in the program the next block of the servers' chain outgrows it.

### Proofs

`HeadersReactorProofs` proves for every tree of blocks, every set of servers,
any number of concurrent calls and any chunk size: `TypeCorrect`, `RowIdsFollow`,
`CaptureSafe`, `Anchored`, `LastProcessedIsBest` (the five invariants of `HeadersFork`) and
`StoreImplemented` (`Spec => ImplementsStore`).

None of them is inductive by itself. `Inv` adds three things. The table is
*stacked*: no two rows have the same height, and the ids are 1..n in the order
of the heights. A call in the critical section holds the lock, so that only one
call's frame says anything about the table. And the frame of a chunk download
says where it is: the headers kept for a later save are below the chunk under
way and above the table, and the table has nothing above the captured header
but what the call itself saved, all of it below the chunk under way. That is
why the next chunk fits on top, and why the one chunk that does not, the genesis
chunk downloaded again, is refused as a clash instead of breaking the order. `LastIsBest`
is part of `Inv`, and is why an announcement of the last processed header may return at once.

The first part of the module has the lemmas about the table: the row with the
largest id is the highest (`BestIsTop`), dropping the rows from a height on or
adding headers above all others keeps it stacked (`RemoveFromStacked`,
`InsertStacked`). Row ids of a batch are ranks, so the second needs that the
ranks of n distinct heights are exactly 1..n (`Ranks`), shown by counting.

The assumptions are `BlockAssumption` (finitely many blocks, heights grow by one
along `Prev`, height 0 is genesis only) and `ReactorAssumption` (a server's chain
has one block per height and is closed under `Prev`; the numeric constants are
natural numbers).

Two more theorems are of servers that agree, and of any table that an earlier run
may have left, with rows of an abandoned branch (`StaleSpec`, `LinkedSpec`).

`Aligned`: if every server has the tip `T` and no download is cut short, then a
reactor that is synced, with the lock free, has its last processed header as best
row, and that is `T` or the header below it. `AgreeInv` says for each place of a call
which of the captured headers are on the chain of `T`, that no call
between the places where `synced` is cleared and set sees it set, that the fallback
loop polls for nothing below `T`, and that `bestHit` is the last processed header
while synced: a call that finds the header already processed returns on that alone.

`Neighbours`: if the tips lie on one chain and nothing is cut short, the row before a
header is its parent's, provided that each chunk is saved by itself (then servers may
lag) or no server lags (then any number of chunks may be saved together). `LinkInv` says
that the headers kept for a later save are one piece of every server's chain, from where
the download began. Both hypotheses are needed: without them the counterexamples
named under *Findings* come up (`WholeChainStored` with `TipsFork` or `TipsLag`).

## The block storage

### Modules

- `BlockStorage` - LevelDB, the cache agent and the integrity check. On disk are
  `txs`, `indexed`, `dump` (the cache index as it was last saved) and the
  version; in memory are the agent's `index`, `total` and `dumpSize`, and the
  tasks that will save a block. `GetBlockObject`, `GetVerboseBlock` and `GetRawBlock` are what the RPC
calls and the ZMQ publishers ask of the service: the second serves a stored block, the
others may download one that is there. A handler (`save_block`, `remove_block`, `track`,
  `check`, `ensure_integrity`) has no await and is one action. `ldb_batch` opens
  a batch, but the repository puts and deletes on the database itself, so each
  write is on disk at once: the `Kill...` actions and `StartCut` are the same
  handlers cut after any of their writes. `SizeOf` gives the bytes of a set of
  blocks. `Callers` says who asks for blocks: RPC calls (which track what they
  save), the mempool observer and the blocks reactor (which do not).
- `BlockStore` - the abstract specification: a block is whole or not there, is
  lost only if the cache tracks it or the kept range does not contain it, and is
  not forgotten by the cache while it is there.
- `MCBlockStorage` - instances: a chain of three blocks and one that competes
  with the second; transactions of their own, or one in common.
- `BlockStorageProofs` - the proofs.

What is abstracted: keys, values and encodings; `saved_at` is a clock with few
values; the peers (an asked block arrives or does not); the best header moves at
will, since the headers reactor may catch up, roll back and change branch. A
kill is of the process; LevelDB writes that the operating system has not synced
are not lost.

### Runs

| Run | Shows | Instance |
|---|---|---|
| `Storage` | type, the index on disk is the one in memory, its total covers the tracked blocks, checks and starts cut to the limit, only kills leave an unreadable block in the index, `BlockStore` is implemented | each block its own transactions; RPC calls, the observer and the reactor |
| `FindingSharedTx` | a counterexample, see *Findings* | competing blocks that share a transaction; the reactor |

The limit holds two of the small blocks; three are over it, but by less than the
margin that `check` leaves, and one block is twice as large, so that an eviction
stops early, late, or empties the cache. `MaxTotal` caps the total, which grows
with every save: it is high enough for a block that is tracked twice. One
download at a time and one save at a time (`MaxAwaited`, `MaxSaves`) suffice since
neither handler reads what another download does; two clock values tell older
from newer. Nothing is assumed about fairness: all properties are of safety.

### Proofs

`BlockStorageProofs` proves for any blocks, sizes, limit and range: `TypeCorrect`,
`IndexIsDumped`, `TotalIsEnough`, `LimitHolds`; and for blocks that share no
transaction (`OwnTransactions`) `BrokenByKillsOnly` and `StoreImplemented`. The
hypothesis is needed: `FindingSharedTx` is what happens without it.

The inductive invariant joins the type, `IndexDumped`, `TotalCovers`, and that a
process that is down has nothing in memory. `IndexDumped` is the delicate part.
`check` saves the index only if the total differs from the last one saved, which
is sound because whatever it takes out has a positive size and the total never
runs short of what is left (`TotalCovers`). For the refinement, every handler
is classed as one that adds one block, whole or in part, or as one that removes a
set of blocks, whole or in part; a kill inside either still leaves every other
block as it was, because no two blocks share a transaction. `SizeAssumption` (the
size of disjoint sets adds up, and a block is not empty) stands for the sum over
the blocks; the instance defines it as the sum.

## The last blocks

`BlocksReactor` models the loop `check` and the bootstrap of the blocks. A chain of
calls of `check` that schedule one another is a member of `Loop`; there may be
several, as every notification of the pool starts one. `best[t]` is the best
header as the call read it before it waited for the lock, `request[t]` the
blocks it awaits. The bootstrap takes the same lock for its whole loop of rounds;
`missing` is its list. The headers table is the chain ending at `tip`, which the
environment moves at will; a block is stored or not. `Notified` says whether the pool
tells its observers that it is connected.

| Run | Shows | Instance |
|---|---|---|
| `Blocks` | type and lock; nothing is missing below the last processed block (`NoGapBelowLast`); the bootstrap goes through its list (`BootstrapIsThorough`) and ends (`BootstrapEnds`); the best header is reached (`FollowsBest`) | 2 loops and the bootstrap, a main chain of three blocks and a branch of two, hashes not in the order of heights, 2 blocks kept, batches of 2, 1 move of the header or loss of a peer, `Notified` |
| `FindingBlocks` | as the program is wired, nothing follows the best header | the same, not `Notified` |

Kept blocks, batch and number of loops are the smallest for which a window is cut
by the batch, starts at the last block, or starts above it. `MaxMoves` lets the
header move to the other branch, forward, or back.

Two histories state what the code does not promise: `from`, where the windows began
since the reactor last started anew, and `skipped`, blocks below a window that began
while the last processed block was on another branch: those are never asked for.
Fairness: a coroutine that waits for nothing goes on, `asyncio.Lock` wakes waiters
in order, the pool looks for connections, and a block that is asked for again and
again is at last sent and saved. Without the last, the bootstrap need not end.

`BlocksReactorProofs` proves `NoGapBelowLast` for any blocks and branches, any order
of the hashes, any number of kept blocks and size of a batch, and any number of loops.
A window is the lower end of one chain from some height on, so that with a block it
contains all blocks of that chain between the height and the block; it begins at the
last processed block or above it; and whoever awaits blocks holds the lock. The
inductive invariant therefore says of a loop that is fetching that *each* block of its
request would do as the last one, since the order of the hashes may make it so. The
assumption needed is that the chain of a block's ancestor is the part of the block's
chain up to it.

It also proves `TypeOK`, of which the interesting part is who holds the lock, and
`BootstrapIsThorough`: the bootstrap is not over before its list is empty, if
`Required > 2`. The hypothesis is the code's own arithmetic: a round waits for half of
the required connections, and asks for half as many blocks as there are connections,
which may be none if one or two are required; the code requires eight.

## The mempool

`MempoolRepository` is the repository as operators on the record of its indexes.
Its removals call one another, over sets whose order Python does not fix, and
raise when an index lacks what they expect: a removal is therefore a stack of calls,
run to its end or to the exception, in every order. A transaction has a txid and
a witness id, since the code files it under the one and blocks name it by both.
`MempoolObserver` has the handlers: an announcement, a transaction, a block and its
download with retries, and the tasks the repository created, in their order.

Nothing in `on_transaction` looks whether a transaction was asked for, or is there
already. The transactions of `Unasked` arrive also when nobody asked; one that the
repository has is recorded as a double spend of itself, and the history `again` is set:
the other indexes are as the code leaves them, and the properties say nothing from then on.

| Run | Shows | Instance |
|---|---|---|
| `Mempool` | type; the answers of `getmempoolinfo` are what is held, once the pending projections have run, and never negative before (`Ledger`); the indexes agree unless a removal was torn (`IndexesAgree`); what a block contains stays out (`MinedStaysOut`); a block takes out only what it has or what conflicts (`EvictedForConflict`); a clean-up wipes everything (`CleanWipes`) | 4 transactions over 2 outpoints, one with a witness and one sent unasked, one block, a mempool over its limit |
| `FindingDoubleSpend` | a counterexample, see *Findings* | 3 transactions, 2 of which spend the same two outpoints, one block |

The four transactions are two that do not conflict and two that conflict with both
and with each other; one of them is too large for the limit, so that the clean-up
runs. Two values of the clock tell more than 600 seconds apart; ticks wait until
tasks have run. `MaxWork` is more than the longest removal of the instance takes; a
removal of more calls is left out, so that a smaller bound would hide behaviours, and
what is proved holds for every bound. Deadlock is not checked: when all transactions
have come and the block is found, nothing is left to do. Nothing is assumed about
fairness, as all of the properties are of safety.

`torn`, `loose` and `again` are histories. A removal is torn by a `KeyError`: a double spend
that was recorded for an outpoint which a mined transaction freed. `loose`
transactions were on their way when the block was found, or have an older entry
in the forget pool, or come unasked: they may come back.

`MempoolProofs` proves all six, and when their premise holds for good (`AnswersOnce`), for any transactions, names, conflicts, sizes, limit,
blocks and tries. A removal is a stack of calls that make others, run for as long as it
takes; what is proved of it is always that a set of works is closed under one call
(`RunStays`). Such a set says what is the case half way, of the pool and of the calls that are
left, counted from the bottom of the stack, where nothing changes while calls above
it are made. Each call's effect is stated once (`Does`), field by field, and everything
else speaks of effects.

| Theorem | States | Inductive invariant, and the closed sets behind it |
|---|---|---|
| `Types` | `TypeOK` | `TypeInv`; `Shrinking`: a removal only takes away, and remembers what it took |
| `AnswersOnce` | `Unasked = {} => ~again` | `AskedInv`: if peers send only what they were asked for, once, data is not on its way and there at the same time |
| `StaysOut` | `MinedStaysOut` | `JobInv`, `HeldInv`, `OutInv`: data is held once and not while it is asked for; what a block has is barred by the forget pool until the next stretch, and by the chain from then on. `Tidy`, `Cleared`: each id of the block is gone, or a call that sees to it is left |
| `Indexes` | `IndexesAgree` | `IndexInv`; `Sound`: an outpoint names who is held or about to be taken out of it, no one twice (`FreesRight`), and a double spend that is about to go is taken out before (`DoublesRight`). A `TypeError` does no harm, as it is raised by a call that a block or the clean-up makes itself: nothing but others of the kind is left (`Bottom`) |
| `Balances` | `Ledger` | `LedgerInv`, that is `Balanced`: for both counters, the partial sums over the tasks end in the right total and none is negative; `Booked`, for a removal that adds one projection with each transaction it takes |
| `Wipes` | `CleanWipes` | `FiledInv`: what is held is filed by time. `Wiping`: a clean-up that found too many bytes goes on until nothing is filed, as no projection runs before it ends; then nothing is held |
| `Evicts` | `EvictedForConflict` | `LockInv`: one clean-up at a time. `Evicting`: who goes was named, or is doomed by a double spend in conflict with it whose own removal is finished by a call further down the stack (`Doomed`) |

The sums of `Ledger` are recursive functions. What they compute is proved by
induction over the naturals, which the module derives from the well-foundedness
of `<` (`Induction`) in a form without operator parameters, and their existence with
it (`Recursion`).

## The Electrum servers

`StratumClient` is the client's state as operators: requests in flight, the future of
each, the subscription's queue, the transport. `ElectrodConnection` adds all that
awaits it - `connect`, the keepalive, the subscription, `rpc_call` and `ping` with
their timers, `client.RPC` without - and a server that answers in any order, wrongly,
with an error, or never. `ElectrodPool` is the pool over many of them: a connection
is only its phase, its errors, and the tasks that an error schedules, and a call asks one; the score, who
is counted and who may be picked follow from these.

| Run | Shows | Instance |
|---|---|---|
| `Electrum` | type and distinct requests; who awaits a request finds it answered, or it is in flight (`WaitersReachable`); no header between the subscription's answer and its handling is lost (`NothingMissed`); whatever has a timer returns (`CallsReturn`) | one call with a timer, one without, 7 requests, 3 headers |
| `Pool` | type: no counter of a connection falls below zero; the pool comes to rest (`PoolSettles`) | 2 connections required of 3 slots, a start score of 2, one call, one fault |

Seven requests are one for each coroutine and a few keepalives: one request can wait
while others come and go. `MaxId` and `MaxHeaders` stop the instance, so deadlock is
not checked; in `Pool` `MaxFaults` does. Three slots let a round start more than are
missing. The start score of 10 is scaled to 2, so that errors of connect alone reach
zero. Fairness: timers fire and ready tasks run; in `Pool`, calls of the server are
answered or fail. Nothing is asked of the server in `Electrum`.

A notification that has no header in it ends the polling of the queue for good
(`PollFails`): the headers after it stay in the queue, where `NothingMissed` still finds
them. An answer that is empty (`CallRefuses`) makes the call itself handle an error of the
peer, of which none is counted; a missing one (`CallMisses`) is handled by the call
before its error is counted, and by a task after that. All callers of the pool's `call` ask one
connection and want an exception: `agreement` and `fail_silent` are left out.

`ElectrodConnectionProofs` proves `TypeOK`, `WaitersReachable` and `NothingMissed` for
any number of calls, pings, requests and headers. The invariant ties three things
together. Each caller that awaits a request has one of its own, which is answered, or
in flight and, while the link lives, still to be answered (`WaiterOK`). The keepalive
and the subscription begin only when `connect` has come as far as the code that starts
them (`OrderOK`), so that nobody waits when the client is made anew. And the headers
the server sent are with the observers, in the queue, or in the answer that the
subscriber has not seen yet (`HeadersOK`): `NothingMissed` needs to know which, at each
place of the subscriber.

`ElectrodPoolProofs` proves `TypeOK` for any numbers of servers, slots and calls. It is
inductive: a connection's counters go down only by tasks that were counted up, and one that is
being made has been asked for nothing.

## The bitcoin peers

`InvBatcher` is the batcher for the one item it is asked for: where the item is, and
which tokens of peers wait in the first of its two stages. `P2PPool` has the connect
loop, the connections with their errors, and `get`, which builds a batcher over one
connection or two. A batcher takes over the block callback of its peers: `owner` is
the get that did so last. A connection goes deaf when its `process_events` ends.

| Run | Shows | Instance |
|---|---|---|
| `P2P` | type, and that a score of zero closes; a get returns its own block (`GetsOwnBlock`); its second connection is never asked (`SecondNeverAsked`); there are never more connections than required (`NeverTooMany`) | 2 gets at once, 2 blocks, 2 connections required of 3 slots, 3 faults, symmetry in gets and blocks |

No liveness is checked: `get` ends by its timer whatever happens, and whether a block
comes is up to the peers. Symmetry is sound since the instance checks no liveness and
gets and blocks are only compared. The score that connections start with is the code's
own; two gets at once are the least that contend for a connection, and three faults
fail, or make deaf, every connection that there is.

`P2PPoolProofs` proves all four for any numbers of slots, peers, required connections,
gets, blocks and faults. `NeverTooMany` is not inductive, as it does not count the
connections under way that may yet be established: `Inv` counts them. A round begins
only when none is under way, and starts no more than are missing (`RoundKeepsLimit`,
which rests on counting the lowest slots, `LowestAreFew`). `SecondNeverAsked` needs to
know which token is at the head of the batcher's first stage while the item is asked
for: the other one of the peer that was asked. After a timeout the item meets that one
next, and stays with the stage that passes over it. `GetsOwnBlock` follows from what a
batcher was made for, whoever owns the callbacks.

## The service

`SprunedVOService` has what the RPC calls and `processblock` of the ZMQ publishers
await, with their retries, and the collector of fees (`FeeCollector`) with its
bootstrap. A measurement is only its age, relative to the age that the two tests of
the code compare with; the arithmetic on fees is left out.

| Run | Shows | Instance |
|---|---|---|
| `Service` | type and the bounds of all retries; a collect that returns leaves rates enough to answer (`CollectSuffices`); every call returns (`CallsReturn`) | one call at a time and the bootstrap, 4 servers of which 3 make a consensus, all retries as in the code |

Calls share nothing but the measurements and the transactions sent, which every step
reads anew; one call and the bootstrap already interleave at every await of a
collect. Fairness: the p2p `get` and the pool's `call` have timers and sleeps end.
The requests of the collector have no timer: that the server answers or the
connection raises is assumed, and `Electrum` shows that a lost connection does not do
so by itself.

`SprunedVOServiceProofs` proves `TypeOK`, that is all bounds of retries, and
`CollectSuffices`, for any calls, servers, consensus and bounds. What collect accepts is
a part of what `get_rates` finds (`ValidIsMeasured`), in the same step: no await lies
between the two.

## Findings

Each of these is a run in which TLC refutes, by a trace of the code's own steps,
a statement quoted in `PROJECT.json`.

- Purging a block deletes the transactions that a block of the other branch
  shares with it (`FindingSharedTx`).
- The loop that keeps the last blocks never starts, since the p2p pool does not
  tell its observers that it is connected (`FindingBlocks`).
- A double spend can outlive the transaction it conflicts with: of an outpoint with
  one double spend the entry is dropped whosever it is, and nested removals drop
  another one's (`FindingDoubleSpend`).

The models also show the following, which the properties are stated around. For some
there is a definition that states the expectation and does not hold; it has no run,
and to reproduce its counterexample it is named as the property of a cfg.

Headers:

- A stale branch that is as high as the servers' chain is not left: the line that logs the
  inconsistency raises `AttributeError`, after the peer was charged and before any
  rollback, at every announcement (headers_reactor.py:173). The comment at line 219 says
  "our is orphan. rolling back"; the tests give the reactor a peer that has the
  attribute. `Converges`, `LeavesOutgrownBranch` without its premise, does not hold
  on the instance of `HeadersAgree`.
- Stored headers need not form one chain: only the first header of a batch is
  checked against the table, and the rest of the batch may come from servers on
  different branches, or miss a height (headers_repository.py:113;
  `WholeChainStored`, with `TipsFork`, or with `TipsLag` and two chunks to a save).
- A header saved on arrival runs no new-header callback, since `synced` is false
  while it is saved (headers_reactor.py:62; `SavedHeaderAnnounced`).
- A rollback does not remember what it drops as orphans (headers_reactor.py:375).
- The fallback loop can die of `int(None)` (headers_reactor.py:96).

Blocks:

- A block saved twice counts twice in the cache's total, so that blocks are
  evicted that would fit (cache.py:76; `KeptWhileItFits`).
- The cache evicts blocks of the range that is to be kept, if an RPC call
  downloaded them (cache.py:102); `BlockStore` lets tracked blocks go.
- On a chain not longer than `keep_blocks`, the start protects no block
  (repository.py:135); `BlockStore` keeps nothing there.
- The integrity check at start looks at block index keys only, and leaves blocks
  in the index of which a kill left a part (repository.py:96).
- After a change of branch, a window of the blocks reactor that begins at the height
  of its last block skips the blocks of the new branch below it (blocks_reactor.py:87).
- The bootstrap takes a block off its list before it saves it: one whose save
  fails is not asked for again (blocks_reactor.py:182).

Mempool:

- A transaction that arrives again, or is sent unasked while it is held, becomes a double
  spend of itself: its entry is dropped from `_transactions` while its outpoints still
  name it (mempool_repository.py:97).
- A transaction in two entries of the forget pool is forgotten no longer once the
  older entry is cleaned (mempool_repository.py:193); and the pool's lock, taken
  when there is nothing to forget, is kept for good (mempool_repository.py:174).
- The clean-up of a full mempool removes everything, not the oldest transactions:
  the bytes it waits for are counted by tasks that run after it (mempool_repository.py:178).
- A block that contains a double spend evicts whatever else conflicts with it, and
  a double spend left behind makes a later removal raise half way: a block's
  transaction may then stay (`BlockClears`, with `BothWId` and `BothBlocks`).

Electrum servers:

- An answer that comes after its timeout raises inside the dispatcher, which drops
  it; a lost connection resolves no request, so that the keepalive and the fee
  estimation, which have no timer, wait for ever (connectrum.py:190).
- A malformed notification ends the polling of a connection, which stays connected and
  announces no more headers (electrod_connection.py:135).
- A server that does not show block 1 keeps its client open, with two errors: it is
  counted, and picked, like any other (electrod_connection.py:73).
- Only a score of exactly zero disconnects; the connect loop starts what is missing
  while earlier connects are under way, and dies if there are too many connections of
  which none has a score (electrod_connection.py:196). A missing answer is charged
  twice, an empty one at once and with no error counted (electrod_connection.py:254).

Bitcoin peers:

- The second peer of a `get` is never asked, as the item stays with the stage that
  passed over the first one, but it is charged for the timeout (inv_batcher.py:59).
- A get, or a request for a transaction, takes the block callback of its peers from
  the gets before it, which can then only time out (inv_batcher.py:92).
- A connection whose messages are no longer read counts as established until gets
  that pick it have charged it (PeerEvent.py:50).
- "Privileged" connections are those with the lowest scores
  (connectionpool_base_impl.py:130), and `add_success` does not change a score.

Service:

- An empty answer to a fee estimation is stored as `None`; every later look at that
  rate raises, and the bootstrap of the collector ends for good
  (electrod_fee_estimation.py:103). It also ends if there are fewer connections than
  a consensus takes.
- `estimatefee` falls back to the last estimate, whatever rate it was for
  (spruned_vo_service.py:233).
- processblock tries again after `NoPeersException` only; any other failure, such as
  a block that did not come, is not retried (zeromq.py:118).

## Not modelled

The JSON-RPC server, configuration, logging, migrations and the vendored bitcoin
serialisation have next to no state that steps could get wrong; they are left to
tests. Of the components listed as partly modelled these parts are left out: the files
of known peers and the choice of a host among them (any host may be picked), the
DNS bootstrap, addresses received from peers, the bloom filter, pings of bitcoin peers,
the wire format and its handshake, ZMQ sockets, SQL transactions after an exception.
The code that nothing reaches is left out as well: the second opinion on a header and the
removal of one header by height, and `agreement` and `fail_silent` of the Electrum pool's
`call`. The arithmetic of fees and the formatting of answers are functions of their arguments.
Composed state is limited to what the handlers share: that the reactors, pools and
the service are checked one by one rests on each model taking the others as an
environment that may do anything they may do.

## Checked only

Proved for all constants are the theorems listed in `PROJECT.json`, from the assumptions
named in the modules. Model-checked only are:

- liveness, as the prover has no rule for it under fairness: `LeavesOutgrownBranch`,
  `BootstrapEnds`, `FollowsBest`, `CallsReturn`, `PoolSettles`;
- the definitions that state an expectation and do not hold, which are named under
  *Findings*.

`AlignedWhenSynced`, `NeighboursAreParents`, `BootstrapIsThorough`, `BrokenByKillsOnly`
and `ImplementsStore` of the block storage are proved under the hypotheses that their
theorems name. The runs check them on instances that satisfy these.
