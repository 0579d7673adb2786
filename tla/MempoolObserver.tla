-------------------------- MODULE MempoolObserver ---------------------------
(***************************************************************************)
(* spruned/application/mempool_observer.py on its repository: peers        *)
(* announce transactions and send the ones they are asked for, the headers *)
(* reactor announces blocks, the event loop runs the repository's tasks in *)
(* the order in which they were created.                                   *)
(*                                                                         *)
(* The environment: peers are on the same chain; they announce             *)
(* transactions that conflict with one another, but none that is in a      *)
(* block or conflicts with one for longer than 600 seconds.  A transaction *)
(* that was asked for may arrive at any later time, or never.  Those of    *)
(* Unasked also arrive when nobody asked, any number of times:             *)
(* on_transaction takes what it is given.  Given one that it has, it files *)
(* the transaction as a double spend of itself, and the repository's       *)
(* bookkeeping is lost: what the properties say ends there (again).        *)
(***************************************************************************)
EXTENDS MempoolRepository

CONSTANTS
    Blocks,         \* the transactions of each block of the chain, in order
    Unasked,        \* transactions that peers also send unasked
    MaxTries        \* 10: fetches of a block that are retried

ASSUME ObserverAssumption ==
    /\ Blocks \in Seq(SUBSET Tx)
    /\ \A i, j \in DOMAIN Blocks : i # j => Blocks[i] \cap Blocks[j] = {}
    /\ Unasked \subseteq Tx
    /\ MaxTries \in Nat

VARIABLES
    pool,       \* the repository
    clock,      \* time.time(), in stretches of more than 600 seconds
    asked,      \* transactions asked for and not received
    minedAt,    \* when each block so far was found
    job,        \* on_block_header for each block of the chain: where it is
    tries,      \* its argument i
    loose,      \* history: transactions that a block could not bar for good
    torn,       \* history: a removal raised KeyError half way
    again       \* history: a transaction arrived that was held or a double spend

vars == <<pool, clock, asked, minedAt, job, tries, loose, torn, again>>

Index == DOMAIN Blocks
JobStates == {"none", "fetching", "waiting", "done", "raised", "given up"}

TakenOut == UNION {Blocks[i] : i \in {j \in Index : job[j] = "done"}}
MinedBefore(now) == UNION {Blocks[i] : i \in {j \in 1..Len(minedAt) : minedAt[j] < now}}

\* The forget pool has an older entry of t, as after an eviction: when that one is
\* cleaned, t is forgotten no longer, whatever its newer entry says.
ForgottenBefore(t) == \E k \in Clock : k < clock /\ {Txid[t], WId[t]} \cap pool.forgetAt[k] # {}

Conflict(t, u) == Spends[t] \cap Spends[u] # {}

Init ==
    /\ pool = EmptyPool
    /\ clock = 0
    /\ asked = {}
    /\ minedAt = <<>>
    /\ job = [i \in Index |-> "none"]
    /\ tries = [i \in Index |-> 0]
    /\ loose = {}
    /\ torn = FALSE
    /\ again = FALSE
-----------------------------------------------------------------------------
\* on_transaction_hash: an inv of a peer; what is new is asked of that peer.
OnTransactionHash(t) ==
    /\ \A u \in MinedBefore(clock) : u # t /\ ~Conflict(t, u)
    /\ ~Refused(pool, Txid[t])
    /\ pool' = AddSeen(pool, Txid[t])
    /\ asked' = asked \cup {t}
    /\ UNCHANGED <<clock, minedAt, job, tries, loose, torn, again>>

\* on_transaction: the answer to a getdata, or a transaction nobody asked for.
OnTransaction(t) ==
    /\ \/ t \in asked /\ asked' = asked \ {t} /\ UNCHANGED loose
       \/ t \in Unasked /\ loose' = loose \cup ({t} \cap TakenOut) /\ UNCHANGED asked
    /\ again' = (again \/ WId[t] \in pool.full \cup pool.dspends)
    /\ pool' = AddTransaction(pool, t, clock)
    /\ UNCHANGED <<clock, minedAt, job, tries, torn>>

\* The reactor announces the next block.
OnBlockHeader(i) ==
    /\ i = Len(minedAt) + 1
    /\ minedAt' = Append(minedAt, clock)
    /\ job' = [job EXCEPT ![i] = "fetching"]
    /\ UNCHANGED <<pool, clock, asked, tries, loose, torn, again>>

\* The block is in LevelDB, or a peer sent it and it was saved.  An exception of
\* on_new_block is not one that on_block_header catches.
BlockFetched(i) ==
    /\ job[i] = "fetching"
    /\ \E work \in OnNewBlock(pool, Blocks[i], clock) :
         /\ pool' = work.pool
         /\ job' = [job EXCEPT ![i] = IF work.raised = "no" THEN "done" ELSE "raised"]
         /\ torn' = (torn \/ work.raised = "KeyError")
    /\ loose' = loose \cup {t \in Blocks[i] : t \in asked \/ ForgottenBefore(t)}
    /\ UNCHANGED <<clock, asked, minedAt, tries, again>>

\* No peer, or no answer within 15 seconds.
FetchFails(i) ==
    /\ job[i] = "fetching"
    /\ IF tries[i] > MaxTries
       THEN job' = [job EXCEPT ![i] = "given up"] /\ UNCHANGED tries
       ELSE job' = [job EXCEPT ![i] = "waiting"] /\ tries' = [tries EXCEPT ![i] = @ + 1]
    /\ UNCHANGED <<pool, clock, asked, minedAt, loose, torn, again>>

\* async_delayed_task, 10 seconds later.
Retry(i) ==
    /\ job[i] = "waiting"
    /\ job' = [job EXCEPT ![i] = "fetching"]
    /\ UNCHANGED <<pool, clock, asked, minedAt, tries, loose, torn, again>>

\* The event loop runs the task that was created first.
RunTask ==
    LET task == Head(pool.tasks)
        rest == [pool EXCEPT !.tasks = Tail(@)]
    IN /\ pool.tasks # <<>>
       /\ CASE task[1] = "add" -> pool' = Project(rest, 1, task[2], clock) /\ UNCHANGED torn
            [] task[1] = "sub" -> pool' = Project(rest, -1, task[2], clock) /\ UNCHANGED torn
            [] task[1] = "forget" -> pool' = CleanForgetPool(rest, clock) /\ UNCHANGED torn
            [] task[1] = "clean" -> \E work \in CleanMempool(rest, clock) :
                                      /\ pool' = work.pool
                                      /\ torn' = (torn \/ work.raised = "KeyError")
       /\ UNCHANGED <<clock, asked, minedAt, job, tries, loose, again>>

\* What is ready runs, and fetching a block is given up, within a stretch.
Tick ==
    /\ clock < MaxClock
    /\ pool.tasks = <<>> /\ \A i \in Index : job[i] \notin {"fetching", "waiting"}
    /\ clock' = clock + 1
    /\ UNCHANGED <<pool, asked, minedAt, job, tries, loose, torn, again>>

BlockStep(i) == BlockFetched(i) \/ FetchFails(i) \/ Retry(i)

Next ==
    \/ \E t \in Tx : OnTransactionHash(t) \/ OnTransaction(t)
    \/ \E i \in Index : OnBlockHeader(i) \/ BlockStep(i)
    \/ RunTask
    \/ Tick

Spec == Init /\ [][Next]_vars
-----------------------------------------------------------------------------
(* Properties *)

\* The sizes of the transactions of a set of witness ids, together.
Weight[ids \in SUBSET WIds] ==
    IF ids = {} THEN 0
    ELSE LET id == CHOOSE i \in ids : TRUE IN Size[DataOf(id)] + Weight[ids \ {id}]

\* What a projection adds to one of the counters.
Signed(task, amount) == IF task[1] = "add" THEN amount ELSE IF task[1] = "sub" THEN -amount ELSE 0

\* The two counters once the first n tasks under way have run.
Counts(p) ==
    LET count[n \in 0..Len(p.tasks)] ==
          IF n = 0 THEN p.count ELSE count[n - 1] + Signed(p.tasks[n], 1)
    IN count

Totals(p) ==
    LET bytes[n \in 0..Len(p.tasks)] ==
          IF n = 0 THEN p.bytes ELSE bytes[n - 1] + Signed(p.tasks[n], p.tasks[n][2])
    IN bytes

\* The repository and the observer hold what their operations expect: an entry is
\* seen only or has data.
TypeOK ==
    /\ pool.seen \subseteq Id /\ pool.full \subseteq WIds /\ pool.dspends \subseteq WIds
    /\ pool.forget \subseteq Id /\ pool.byTime \in Dated /\ pool.forgetAt \in Dated
    /\ pool.outs \in [Outpoint -> SUBSET WIds] /\ pool.dsByOut \in [Outpoint -> SUBSET WIds]
    /\ pool.lastForgetClean \in 0..clock /\ clock \in Clock
    /\ \A i \in DOMAIN pool.tasks : pool.tasks[i][1] \in {"add", "sub", "clean", "forget"}
    /\ pool.seen \cap pool.full = {}
    /\ asked \subseteq Tx /\ loose \subseteq Tx /\ {torn, again} \subseteq BOOLEAN
    /\ job \in [Index -> JobStates] /\ tries \in [Index -> 0..MaxTries + 1]

\* What getmempoolinfo answers, once the projections under way are run, is the
\* number and the length of the transactions held with their data, and it is
\* never negative before: no removal is projected twice, forgotten, or before
\* what it removes was added, also when a handler raises half way.  (Until a
\* transaction arrives that the repository has.)
Ledger ==
    LET last == Len(pool.tasks) IN
    ~again =>
      /\ Counts(pool)[last] = Cardinality(pool.full)
      /\ Totals(pool)[last] = Weight[pool.full]
      /\ \A n \in 0..last : Counts(pool)[n] >= 0 /\ Totals(pool)[n] >= 0

\* Unless a removal was torn or a transaction arrived again, _outpoints names exactly
\* the transactions held with data, one for each outpoint, and
\* _double_spends_by_outpoint only double spends that are known and spend the outpoint.
IndexesAgree ==
    ~torn /\ ~again =>
      /\ \A o \in Outpoint : pool.outs[o] = {id \in pool.full : o \in Outpoints(id)}
      /\ \A o \in Outpoint : Cardinality(pool.outs[o]) <= 1
      /\ \A o \in Outpoint : pool.dsByOut[o] \subseteq {id \in pool.dspends : o \in Outpoints(id)}

\* A transaction of a block that on_new_block has gone through comes back into
\* the mempool only if it was still asked for, or is sent unasked later
\* (add_transaction, unlike add_seen, does not look at the forget pool), or had an
\* older entry in the forget pool.
MinedStaysOut ==
    ~again => \A i \in Index : job[i] = "done" =>
      \A t \in Blocks[i] \ loose :
         Txid[t] \notin pool.seen /\ WId[t] \notin pool.full \cup pool.dspends

\* A block removes the data of a transaction only if it has the transaction, or
\* if a double spend conflicts with it, and that may be the double spend of some
\* other transaction.  The double spend goes as well, if no removal was torn.
\* (Until a transaction arrives that the repository has.)
EvictedForConflict ==
    [][~again' => \A id \in pool.full \ pool'.full :
         \/ pool.cleanLock /\ ~pool'.cleanLock
         \/ \E i \in Index : job[i] = "fetching" /\ job'[i] # "fetching" /\ DataOf(id) \in Blocks[i]
         \/ \E d \in pool.dspends : /\ d \notin pool'.dspends \/ torn'
                                    /\ Conflict(DataOf(id), DataOf(d))]_vars

\* The clean-up takes everything with it, not the oldest transactions up to 95%
\* of the limit: the bytes it looks at are brought down by tasks that run later.
\* (It stops half way at a transaction that was held before and is announced again.)
CleanWipes ==
    [][/\ pool.cleanLock /\ ~pool'.cleanLock /\ ~torn' /\ ~again
       /\ \A k \in Clock : pool.byTime[k] \cap pool.seen = {}
       => pool'.full \in {{}, pool.full}]_vars

\* When on_block_header ends, by returning or by an exception, no transaction of
\* the block is left that did not arrive after it: as a test of the observer says.
BlockClears ==
    \A i \in Index : job[i] \in {"done", "raised"} =>
      \A t \in Blocks[i] \ loose : ~Known(pool, Txid[t])

\* _delete_outpoints: "remove double spends related to this transaction".  The data
\* of a transaction does not leave while a double spend of it stays.
DoubleSpendsGo ==
    [][\A id \in pool.full \ pool'.full, d \in pool.dspends :
         Conflict(DataOf(id), DataOf(d)) => d \notin pool'.dspends \/ torn']_vars
=============================================================================
