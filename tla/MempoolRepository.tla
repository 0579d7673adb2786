------------------------- MODULE MempoolRepository --------------------------
(***************************************************************************)
(* spruned/repositories/mempool_repository.py, as pure operators on the    *)
(* repository's contents `pool'.                                           *)
(*                                                                         *)
(* A transaction has two names: its txid, which peers announce and blocks  *)
(* hash, and its witness id, under which on_transaction files its data.    *)
(* They are equal unless the transaction carries a witness.                *)
(*                                                                         *)
(* No method awaits between two of its steps (the tasks only await locks   *)
(* they have just found free), so each is one operator.  The removals call *)
(* one another: remove_transaction -> _delete_outpoints ->                 *)
(* _remove_double_spend -> remove_transaction.  A removal is a stack of    *)
(* the calls still to be made, run to its end or to an exception, which    *)
(* leaves what was done so far.                                            *)
(***************************************************************************)
EXTENDS Integers, Sequences, FiniteSets, SequencesExt

CONSTANTS
    Tx,             \* the transactions peers may send
    Txid,           \* Txid[t]: its hash without witness
    WId,            \* WId[t]: its hash with witness
    Outpoint,
    Spends,         \* Spends[t]: the outpoints it spends
    Size,           \* Size[t]: its length in bytes
    MaxBytes,       \* _max_mempool_size_bytes
    MaxClock,       \* bound: stretches of more than 600 seconds told apart
    MaxWork         \* bound: the calls that one removal makes, all together

ASSUME MempoolAssumption ==
    /\ IsFiniteSet(Tx)
    /\ Spends \in [Tx -> SUBSET Outpoint] /\ \A t \in Tx : IsFiniteSet(Spends[t])
    /\ Size \in [Tx -> Nat \ {0}]
    /\ DOMAIN Txid = Tx /\ DOMAIN WId = Tx
    /\ \A t, u \in Tx : t # u => Txid[t] # Txid[u] /\ WId[t] # WId[u] /\ Txid[t] # WId[u]
    /\ MaxBytes \in Nat /\ MaxClock \in Nat /\ MaxWork \in Nat

Clock == 0..MaxClock

\* Data is filed under witness ids only.
WIds == {WId[t] : t \in Tx}
Id == {Txid[t] : t \in Tx} \cup WIds
DataOf(id) == CHOOSE t \in Tx : WId[t] = id
Outpoints(id) == Spends[DataOf(id)]

Dated == [Clock -> SUBSET Id]
Undated == [k \in Clock |-> {}]
Unheld == [o \in Outpoint |-> {}]

(***************************************************************************)
(* seen and full are the keys of _transactions whose entry has no data yet *)
(* (size and outpoints None) and has it.  A key of a dict with an empty    *)
(* value stands for a key that is not there: the code deletes them.        *)
(* tasks are the coroutines handed to create_task and not yet run, with    *)
(* the size that a projection adds or takes.                               *)
(***************************************************************************)
EmptyPool ==
    [seen |-> {}, full |-> {}, byTime |-> Undated, outs |-> Unheld,
     dspends |-> {}, dsByOut |-> Unheld,
     forget |-> {}, forgetAt |-> Undated, lastForgetClean |-> 0,
     count |-> 0, bytes |-> 0, cleanLock |-> FALSE, forgetLock |-> FALSE,
     tasks |-> <<>>]

Known(pool, id) == id \in pool.seen \cup pool.full

\* Variant with a bug: a removal is not projected.
CreateTaskNoSub(pool, kind, size) ==
    IF kind = "sub" THEN pool ELSE [pool EXCEPT !.tasks = Append(@, <<kind, size>>)]

CreateTask(pool, kind, size) == [pool EXCEPT !.tasks = Append(@, <<kind, size>>)]

\* Variants with bugs: the forget pool is not asked, or only what was seen is refused.
RefusedUnlessForgotten(pool, id) == Known(pool, id) \/ id \in pool.dspends

RefusedIfSeen(pool, id) == id \in pool.seen

\* add_seen refuses what it knows or was told to forget.
Refused(pool, id) == Known(pool, id) \/ id \in pool.dspends \/ id \in pool.forget

AddSeen(pool, id) == [pool EXCEPT !.seen = @ \cup {id}]

\* ids join the entry of a dict from times to sets of ids.
Record(d, now, ids) == [d EXCEPT ![now] = @ \cup ids]

Forget(pool, ids, now) ==
    [pool EXCEPT !.forget = @ \cup ids, !.forgetAt = Record(@, now, ids)]
-----------------------------------------------------------------------------
(***************************************************************************)
(* Removals.  A work is the pool, the calls still to be made, and the      *)
(* exception if one was raised; a call leads to a set of works, since the  *)
(* order in which Python goes through a set is not determined.             *)
(***************************************************************************)

Work(pool, todo) == [pool |-> pool, todo |-> todo, raised |-> "no"]

Raise(pool, error) == {[pool |-> pool, todo |-> <<>>, raised |-> error]}

\* The same call for each member of S, in any order.
Calls(op, S, arg) == {[i \in DOMAIN s |-> <<op, s[i], arg>>] : s \in SetToSeqs(S)}

\* The call on top of the stack is replaced by the ones it makes.
Becomes(work, pool, callLists) == {Work(pool, calls \o Tail(work.todo)) : calls \in callLists}

Then(callLists, call) == {Append(calls, call) : calls \in callLists}

\* remove_transaction.  The data of an entry that was only seen has no outpoints
\* to iterate over, which raises; the projection task it created raises as well.
RemoveTransaction(work, id) ==
    LET pool == work.pool
        gone == [pool EXCEPT !.seen = @ \ {id}, !.full = @ \ {id}]
        forget == <<"forget", id, id>>
    IN IF id \in pool.seen THEN Raise(gone, "TypeError")
       ELSE IF id \in pool.full
       THEN Becomes(work, CreateTask(gone, "sub", Size[DataOf(id)]),
                    Then(Calls("free", Outpoints(id), id), forget))
       ELSE Becomes(work, pool, {<<forget>>})

Put(d, key, ids) == [d EXCEPT ![key] = ids]

\* One round of _delete_outpoints.  The branch for an outpoint that several
\* transactions hold would raise.
FreeOutpoint(work, o) ==
    LET pool == work.pool
    IN IF pool.outs[o] = {} THEN Raise(pool, "KeyError")
       ELSE IF Cardinality(pool.outs[o]) > 1 THEN Raise(pool, "TypeError")
       ELSE Becomes(work, [pool EXCEPT !.outs = Put(@, o, {}), !.dsByOut = Put(@, o, {})],
                    Calls("dspend", pool.dsByOut[o], o))

RemoveDoubleSpend(work, id) ==
    IF id \notin work.pool.dspends THEN Raise(work.pool, "KeyError")
    ELSE Becomes(work, work.pool, Then(Calls("dsout", Outpoints(id), id), <<"dsdone", id, id>>))

\* One round of the loop of _remove_double_spend, and what follows the loop.
LeaveOutpoint(work, o, id) ==
    LET pool == work.pool
        several == Cardinality(pool.dsByOut[o]) > 1
        left == IF several THEN pool.dsByOut[o] \ {id} ELSE {}
    IN IF several /\ id \notin pool.dsByOut[o] THEN Raise(pool, "KeyError")
       ELSE Becomes(work, [pool EXCEPT !.dsByOut = Put(@, o, left)], Calls("tx", pool.outs[o], o))

DoubleSpendDone(work, id, now) ==
    Becomes(work, Forget([work.pool EXCEPT !.dspends = @ \ {id}], {id}, now), {<<>>})

\* One round of the loop of on_new_block.
RemoveMined(work, id) ==
    IF Known(work.pool, id) THEN RemoveTransaction(work, id)
    ELSE IF id \in work.pool.dspends THEN RemoveDoubleSpend(work, id)
    ELSE Becomes(work, work.pool, {<<>>})

\* min(d, key=d.get): sets are ordered by strict inclusion, so the first key
\* stays unless the set of a later one is smaller; keys are in order of time.
OldestKey(d) ==
    LET Beats(k, l) == d[k] # {} /\ (d[l] = {} \/ (d[k] # d[l] /\ d[k] \subseteq d[l]))
        oldest[k \in Clock] ==
            IF k = 0 THEN 0
            ELSE IF Beats(k, oldest[k - 1]) THEN k ELSE oldest[k - 1]
    IN oldest[MaxClock]

\* An id leaves the entry of a time.
Strike(d, key, id) == [d EXCEPT ![key] = @ \ {id}]

\* Variant with a bug: one transaction is removed, whatever the bytes are.
CleanNextOne(work) ==
    LET pool == work.pool
        key == OldestKey(pool.byTime)
    IN IF pool.bytes <= MaxBytes \/ pool.byTime = Undated
       THEN Becomes(work, pool, {<<>>})
       ELSE UNION {Becomes(work, [pool EXCEPT !.byTime = Strike(@, key, id)],
                           {<<<<"tx", id, id>>>>}) : id \in pool.byTime[key]}

\* _clean_mempool, up to its next removal.  The bytes are counted by tasks, and
\* no task runs before it ends.
CleanNext(work) ==
    LET pool == work.pool
        key == OldestKey(pool.byTime)
    IN IF pool.bytes * 100 <= MaxBytes * 95 \/ pool.byTime = Undated
       THEN Becomes(work, pool, {<<>>})
       ELSE UNION {Becomes(work, [pool EXCEPT !.byTime = Strike(@, key, id)],
                           {<<<<"tx", id, id>>, <<"clean", id, id>>>>}) : id \in pool.byTime[key]}

Call(work, now) ==
    LET call == Head(work.todo) IN
    CASE call[1] = "tx"     -> RemoveTransaction(work, call[2])
      [] call[1] = "free"   -> FreeOutpoint(work, call[2])
      [] call[1] = "dspend" -> RemoveDoubleSpend(work, call[2])
      [] call[1] = "dsout"  -> LeaveOutpoint(work, call[2], call[3])
      [] call[1] = "dsdone" -> DoubleSpendDone(work, call[2], now)
      [] call[1] = "forget" -> Becomes(work, Forget(work.pool, {call[2]}, now), {<<>>})
      [] call[1] = "mined"  -> RemoveMined(work, call[2])
      [] call[1] = "clean"  -> CleanNext(work)

Step(work, now) == IF work.todo = <<>> THEN {work} ELSE Call(work, now)

\* What may be the case when the calls of callLists are over; removals of more
\* than MaxWork calls are left out.
Run(pool, callLists, now) ==
    LET after[n \in Nat] ==
          IF n = 0 THEN {Work(pool, calls) : calls \in callLists}
          ELSE UNION {Step(work, now) : work \in after[n - 1]}
    IN {work \in after[MaxWork] : work.todo = <<>>}
-----------------------------------------------------------------------------
(* The methods that handlers and tasks call *)

Hold(d, t) == [o \in Outpoint |-> IF o \in Spends[t] THEN d[o] \cup {WId[t]} ELSE d[o]]

\* add_transaction when no outpoint is held.
Admit(pool, t, now) ==
    CreateTask([pool EXCEPT !.outs = Hold(@, t),
                            !.seen = @ \ {WId[t]}, !.full = @ \cup {WId[t]},
                            !.byTime = Record(@, now, {WId[t]})], "add", Size[t])

\* Variants with bugs: the outpoints are not looked up, or a double spend takes
\* the place of what it conflicts with.
AddTransactionUnchecked(pool, t, now) == Admit(pool, t, now)

AddTransactionReplacing(pool, t, now) ==
    Admit([pool EXCEPT !.full = {id \in @ : Outpoints(id) \cap Spends[t] = {}}], t, now)

\* add_transaction.  An outpoint that is held makes it a double spend, even of
\* itself; popping the key of a double spend that was not seen under it raises.
AddTransaction(pool, t, now) ==
    IF \E o \in Spends[t] : pool.outs[o] # {}
    THEN [pool EXCEPT !.dspends = @ \cup {WId[t]}, !.dsByOut = Hold(@, t),
                      !.seen = @ \ {WId[t]}, !.full = @ \ {WId[t]}]
    ELSE Admit(pool, t, now)

\* on_new_block for a block with these transactions: witness hashes, then hashes.
OnNewBlock(pool, txs, now) ==
    LET w == {WId[t] : t \in txs}
        h == {Txid[t] : t \in txs}
    IN Run(Forget(pool, w \cup h, now),
           {p \o q : p \in Calls("mined", w, 0), q \in Calls("mined", h, 0)}, now)

CleanMempool(pool, now) ==
    {[work EXCEPT !.pool = [@ EXCEPT !.cleanLock = FALSE]] :
        work \in Run(pool, {<<<<"clean", 0, 0>>>>}, now)}

\* _clean_forget_pool.  min_value is not looked up again: a second round deletes
\* the same key, which raises and leaves _last_forget_pool_clean as it was.
CleanForgetPool(pool, now) ==
    LET key == OldestKey(pool.forgetAt)
        rest == Put(pool.forgetAt, key, {})
        free == [pool EXCEPT !.forgetLock = FALSE]
    IN IF key >= now THEN [free EXCEPT !.lastForgetClean = now]
       ELSE [free EXCEPT !.forget = @ \ pool.forgetAt[key], !.forgetAt = rest,
                         !.lastForgetClean = IF rest = Undated THEN now ELSE @]

\* _project_transaction: the counters, then the two clean-ups it may start.  The
\* lock of the second is kept even if there is nothing to forget.
Project(pool, sign, size, now) ==
    LET counted == [pool EXCEPT !.count = @ + sign, !.bytes = @ + sign * size]
        cleaning == IF sign = 1 /\ counted.bytes > MaxBytes /\ ~counted.cleanLock
                    THEN CreateTask([counted EXCEPT !.cleanLock = TRUE], "clean", 0)
                    ELSE counted
        locking == [cleaning EXCEPT !.forgetLock = TRUE]
    IN IF now = pool.lastForgetClean \/ pool.forgetLock THEN cleaning
       ELSE IF pool.forgetAt = Undated THEN locking
       ELSE CreateTask(locking, "forget", 0)
=============================================================================
