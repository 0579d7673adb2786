---------------------------- MODULE MempoolProofs -----------------------------
(***************************************************************************)
(* The mempool, for any transactions and blocks, any sizes and conflicts,  *)
(* any limit, number of tries, and length of a removal.                    *)
(*                                                                         *)
(* A removal is a stack of calls, and each call makes others.  So most of  *)
(* what follows is of one form: a set W of works is closed under Step, the *)
(* start of the removal is in W, and then its end is (RunStays).  W says   *)
(* what is the case half way, of the pool and of the calls still to be     *)
(* made, the k-th of them counted from the bottom (Deep): a call that      *)
(* makes others leaves those below it alone.  The closed sets:             *)
(*                                                                         *)
(*   Shrinking     nothing comes, and what goes is remembered              *)
(*   Tidy, Cleared what is left of what a block names is in a call         *)
(*   Sound         the indexes differ from the data by what is in calls    *)
(*   Booked        the counters, with the tasks, are those of the data     *)
(*   Filing        data that is not filed by time is the next to go        *)
(*   Wiping        a clean-up that began goes on until nothing is left     *)
(*   Plain         no clean-up is started                                  *)
(*   Evicting      who goes was named, or goes with a double spend         *)
(*                                                                         *)
(* The invariants of the observer: TypeInv; JobInv, HeldInv and OutInv for *)
(* what is mined; IndexInv for the indexes; LedgerInv for the counters;    *)
(* FiledInv and LockInv for the clean-up.                                  *)
(***************************************************************************)
EXTENDS MempoolObserver, FiniteSetTheorems, SequenceTheorems, WellFoundedInduction, TLAPS

\* What holds of 0 and of the successor of each number it holds of, holds of all.
LEMMA Induction ==
    ASSUME NEW T \in SUBSET Nat, 0 \in T, \A n \in T : n + 1 \in T
    PROVE  T = Nat
<1> DEFINE R == {ss \in Nat \X Nat : ss[1] < ss[2]}
<1>1. IsWellFoundedOn(R, Nat)
    BY NatLessThanWellFounded, Zenon DEF OpToRel
<1> HIDE DEF R
<1>2. SUFFICES ASSUME Nat \ T # {} PROVE FALSE
    OBVIOUS
<1>3. PICK m \in Nat \ T : \A n \in Nat \ T : ~ (<<n, m>> \in R)
    <2> DEFINE U == Nat \ T
    <2>1. U \in SUBSET Nat /\ U # {}
        BY <1>2
    <2> HIDE DEF U
    <2>2. \E x \in U : \A y \in U : ~ (<<y, x>> \in R)
        BY <2>1, <1>1, WFMin
    <2>3. QED
        BY <2>2 DEF U
<1>4. ASSUME NEW n \in Nat \ T PROVE m <= n
    <2>1. <<n, m>> \in Nat \X Nat /\ ~ (<<n, m>> \in R)
        BY <1>3
    <2>2. QED
        BY <2>1 DEF R
<1>5. m - 1 \in T /\ m = (m - 1) + 1
    BY <1>4
<1>6. QED
    BY <1>5

\* A function on the naturals may be defined by its value at 0 and by how each
\* value follows from the one before.
Unfolds(V, v0, G) ==
    \E h \in [Nat -> V] : h[0] = v0 /\ \A n \in Nat : h[n + 1] = G[<<n, h[n]>>]

\* Such a function exists.
LEMMA Recursion ==
    ASSUME NEW V, NEW v0 \in V, NEW G \in [Nat \X V -> V]
    PROVE  Unfolds(V, v0, G)
<1> DEFINE Begins(g, n) == /\ g \in [0..n -> V] /\ g[0] = v0
                           /\ \A k \in 0..n : k < n => g[k + 1] = G[<<k, g[k]>>]
           T == {n \in Nat : \E g \in [0..n -> V] : Begins(g, n)}
           Same == {n \in Nat : \A i, j \in Nat : n <= i /\ n <= j =>
                        \A g, h : Begins(g, i) /\ Begins(h, j) => g[n] = h[n]}
<1>1. T = Nat
    <2>1. 0 \in T
        <3>1. Begins([k \in 0..0 |-> v0], 0)
            OBVIOUS
        <3>2. QED
            BY <3>1
    <2>2. ASSUME NEW n \in T PROVE n + 1 \in T
        <3>1. PICK g \in [0..n -> V] : Begins(g, n)
            OBVIOUS
        <3> DEFINE f == [k \in 0..(n + 1) |-> IF k <= n THEN g[k] ELSE G[<<n, g[n]>>]]
        <3>2. n \in Nat /\ n \in 0..n /\ g[n] \in V
            OBVIOUS
        <3>3. G[<<n, g[n]>>] \in V
            BY <3>2
        <3>4. f \in [0..(n + 1) -> V] /\ f[0] = v0
            BY <3>1, <3>2, <3>3
        <3>5. ASSUME NEW k \in 0..(n + 1), k < n + 1 PROVE f[k + 1] = G[<<k, f[k]>>]
            <4>1. CASE k = n
                BY <4>1, <3>2
            <4>2. CASE k < n
                BY <4>2, <3>1, <3>2
            <4>3. QED
                BY <4>1, <4>2, <3>2, <3>5
        <3>6. Begins(f, n + 1)
            BY <3>4, <3>5
        <3> HIDE DEF f, Begins
        <3>7. QED
            BY <3>2, <3>4, <3>6
    <2>3. QED
        BY <2>1, <2>2, Induction
<1>2. Same = Nat
    <2>1. 0 \in Same
        OBVIOUS
    <2>2. ASSUME NEW n \in Same PROVE n + 1 \in Same
        <3>1. ASSUME NEW i \in Nat, NEW j \in Nat, n + 1 <= i, n + 1 <= j,
                     NEW g, NEW h, Begins(g, i), Begins(h, j)
              PROVE  g[n + 1] = h[n + 1]
            <4> n \in Nat /\ n <= i /\ n <= j
                BY <3>1
            <4>1. g[n] = h[n]
                <5> HIDE DEF Begins
                <5>1. Begins(g, i) /\ Begins(h, j)
                    BY <3>1
                <5>2. QED
                    BY <5>1
            <4>2. g[n + 1] = G[<<n, g[n]>>] /\ h[n + 1] = G[<<n, h[n]>>]
                BY <3>1
            <4>3. QED
                BY <4>1, <4>2
        <3>2. QED
            BY <3>1
    <2>3. QED
        BY <2>1, <2>2, Induction
<1> DEFINE part == [n \in Nat |-> CHOOSE g \in [0..n -> V] : Begins(g, n)]
           h == [n \in Nat |-> part[n][n]]
<1>3. ASSUME NEW n \in Nat PROVE Begins(part[n], n)
    <2>1. \E g \in [0..n -> V] : Begins(g, n)
        BY <1>1
    <2>2. QED
        BY <2>1
<1> HIDE DEF part
<1>4. h \in [Nat -> V] /\ h[0] = v0
    BY <1>3
<1>5. ASSUME NEW n \in Nat PROVE h[n + 1] = G[<<n, h[n]>>]
    <2>1. part[n + 1][n] = part[n][n]
        <3>1. n \in Same
            BY <1>2
        <3>3. Begins(part[n], n) /\ Begins(part[n + 1], n + 1)
            BY <1>3
        <3>2. QED
            BY <3>1, <3>3
    <2>2. part[n + 1][n + 1] = G[<<n, part[n + 1][n]>>]
        BY <1>3
    <2>3. QED
        BY <2>1, <2>2
<1>6. QED
    BY <1>4, <1>5 DEF Unfolds

\* A removal that starts in a set of works, none of which a call leaves, ends in it.
LEMMA RunStays ==
    ASSUME NEW W, NEW pool0, NEW callLists, NEW now,
           \A calls \in callLists : Work(pool0, calls) \in W,
           \A work \in W : Step(work, now) \subseteq W
    PROVE  Run(pool0, callLists, now) \subseteq {work \in W : work.todo = <<>>}
<1> DEFINE first == {Work(pool0, calls) : calls \in callLists}
           next(S) == UNION {Step(work, now) : work \in S}
           G == [x \in Nat \X SUBSET W |-> next(x[2])]
           Is(f) == f = [n \in Nat |-> IF n = 0 THEN first ELSE next(f[n - 1])]
           after == CHOOSE f : Is(f)
<1>1. first \in SUBSET W /\ \A S \in SUBSET W : next(S) \in SUBSET W
    OBVIOUS
<1>2. PICK h \in [Nat -> SUBSET W] : h[0] = first /\ \A n \in Nat : h[n + 1] = G[<<n, h[n]>>]
    <2> DEFINE V == SUBSET W
    <2>1. first \in V /\ G \in [Nat \X V -> V]
        BY <1>1
    <2> HIDE DEF first, next, V, G
    <2>2. Unfolds(V, first, G)
        BY <2>1, Recursion
    <2>3. QED
        BY <2>2 DEF V, Unfolds
<1>3. \A n \in Nat : h[n + 1] = next(h[n])
    BY <1>2
<1> HIDE DEF first, next, G
<1>4. Is(h)
    <2>1. ASSUME NEW n \in Nat, n # 0 PROVE h[n] = next(h[n - 1])
        <3>1. n - 1 \in Nat /\ n = (n - 1) + 1
            BY <2>1
        <3>2. QED
            BY <3>1, <1>3
    <2>2. h = [n \in Nat |-> h[n]]
        OBVIOUS
    <2>3. QED
        BY <2>1, <2>2, <1>2
<1>5. Is(after)
    BY <1>4
<1>6. {n \in Nat : after[n] \subseteq W} = Nat
    <2> DEFINE T == {n \in Nat : after[n] \subseteq W}
    <2>1. 0 \in T
        BY <1>5, <1>1
    <2>2. ASSUME NEW n \in T PROVE n + 1 \in T
        <3>1. n \in Nat /\ n + 1 \in Nat /\ n + 1 # 0 /\ (n + 1) - 1 = n
            OBVIOUS
        <3> HIDE DEF after
        <3>2. after[n + 1] = next(after[n])
            BY <1>5, <3>1
        <3>3. next(after[n]) \in SUBSET W
            BY <1>1
        <3>4. QED
            BY <3>1, <3>2, <3>3
    <2>3. QED
        BY <2>1, <2>2, Induction
<1>7. Run(pool0, callLists, now) = {work \in after[MaxWork] : work.todo = <<>>}
    BY DEF Run, first, next
<1>8. QED
    BY <1>6, <1>7, MempoolAssumption
-----------------------------------------------------------------------------
(***************************************************************************)
(* The shapes of a pool and of a removal that is under way.                *)
(***************************************************************************)
Arg == Id \cup Outpoint \cup {0}
Task == {"add", "sub", "clean", "forget"} \X Int

Entries ==
    [seen : SUBSET Id, full : SUBSET WIds, byTime : [Clock -> SUBSET WIds],
     outs : [Outpoint -> SUBSET WIds], dspends : SUBSET WIds,
     dsByOut : [Outpoint -> SUBSET WIds], forget : SUBSET Id, forgetAt : Dated,
     lastForgetClean : Int, count : Int, bytes : Int,
     cleanLock : BOOLEAN, forgetLock : BOOLEAN, tasks : Seq(Task)]

\* Outpoints name who spends them, and no outpoint is held twice.
Indexed(p) ==
    \A o \in Outpoint : /\ \A id \in p.outs[o] \cup p.dsByOut[o] : o \in Outpoints(id)
                        /\ \A i, j \in p.outs[o] : i = j

Pools == {p \in Entries : Indexed(p)}

CallSet == ({"tx", "dspend", "dsdone"} \X WIds \X Arg)
           \cup ({"free", "dsout"} \X Outpoint \X WIds)
           \cup ({"forget", "mined"} \X Id \X Arg)
           \cup ({"clean"} \X Arg \X Arg)

Works == [pool : Pools, todo : Seq(CallSet), raised : {"no", "TypeError", "KeyError"}]

\* A witness id names its transaction; there are finitely many ids, and each
\* transaction spends finitely many outpoints.
LEMMA IdFacts ==
    /\ WIds \subseteq Id /\ IsFiniteSet(Id) /\ IsFiniteSet(WIds)
    /\ \A t \in Tx : WId[t] \in WIds /\ Txid[t] \in Id /\ DataOf(WId[t]) = t
    /\ \A id \in WIds : /\ DataOf(id) \in Tx /\ WId[DataOf(id)] = id
                        /\ Size[DataOf(id)] \in Nat \ {0}
                        /\ Outpoints(id) = Spends[DataOf(id)]
                        /\ Outpoints(id) \subseteq Outpoint /\ IsFiniteSet(Outpoints(id))
<1>1. \A t \in Tx : WId[t] \in WIds /\ Txid[t] \in Id /\ DataOf(WId[t]) = t
    BY MempoolAssumption DEF WIds, Id, DataOf
<1>2. \A id \in WIds : DataOf(id) \in Tx /\ WId[DataOf(id)] = id
    BY <1>1 DEF WIds
<1>3. IsFiniteSet(WIds) /\ IsFiniteSet({Txid[t] : t \in Tx})
    <2>1. IsFiniteSet(Tx)
        BY MempoolAssumption
    <2> DEFINE w == [t \in Tx |-> WId[t]]
               h == [t \in Tx |-> Txid[t]]
               txids == {Txid[t] : t \in Tx}
    <2>2. w \in Surjection(Tx, WIds) /\ h \in Surjection(Tx, txids)
        BY DEF WIds, Surjection
    <2> HIDE DEF w, h, txids
    <2>3. IsFiniteSet(WIds) /\ IsFiniteSet(txids)
        BY <2>1, <2>2, FS_Surjection
    <2>4. QED
        BY <2>3 DEF txids
<1>4. IsFiniteSet(Id)
    BY <1>3, FS_Union DEF Id, WIds
<1>5. \A id \in WIds : Outpoints(id) \subseteq Outpoint /\ IsFiniteSet(Outpoints(id))
    BY <1>2, MempoolAssumption DEF Outpoints
<1>6. \A id \in WIds : Size[DataOf(id)] \in Nat \ {0}
    BY <1>2, MempoolAssumption
<1>7. QED
    BY <1>1, <1>2, <1>3, <1>4, <1>5, <1>6 DEF WIds, Id, Outpoints

\* The calls of a list are the same call for each member of a set, once.
Lists(calls, op, S, arg) ==
    /\ \A i \in 1..Len(calls) : calls[i] = <<op, calls[i][2], arg>> /\ calls[i][2] \in S
    /\ \A x \in S : \E i \in 1..Len(calls) : calls[i] = <<op, x, arg>>
    /\ \A i, j \in 1..Len(calls) : i # j => calls[i] # calls[j]

\* A list of calls has one for each member of the set, in some order.
LEMMA CallsList ==
    ASSUME NEW op, NEW S, NEW arg, IsFiniteSet(S), NEW calls \in Calls(op, S, arg), NEW C,
           \A x \in S : <<op, x, arg>> \in C
    PROVE  calls \in Seq(C) /\ Lists(calls, op, S, arg)
<1>1. PICK s \in SetToSeqs(S) : calls = [i \in DOMAIN s |-> <<op, s[i], arg>>]
    BY DEF Calls
<1> DEFINE n == Cardinality(S)
<1>2. n \in Nat
    BY FS_CardinalityType
<1>3. s \in [1..n -> S] /\ \A i, j \in 1..n : i # j => s[i] # s[j]
    BY DEF SetToSeqs
<1>4. \A x \in S : \E i \in 1..n : s[i] = x
    <2>1. IsFiniteSet(1..n) /\ Cardinality(1..n) = n
        BY <1>2, FS_Interval
    <2>2. s \in Injection(1..n, S)
        BY <1>3 DEF Injection, IsInjective
    <2>3. s \in Surjection(1..n, S)
        <3>1. Cardinality(1..n) = Cardinality(S)
            BY <2>1
        <3> HIDE DEF n
        <3>2. QED
            BY <2>1, <2>2, <3>1, FS_Injection
    <2>4. QED
        BY <2>3 DEF Surjection
<1> HIDE DEF n
<1>5. calls = [i \in 1..n |-> <<op, s[i], arg>>]
    BY <1>1, <1>3
<1>6. calls \in [1..n -> C]
    BY <1>3, <1>5
<1>7. calls \in Seq(C) /\ Len(calls) = n
    BY <1>2, <1>6
<1>8. \A i, j \in 1..n : i # j => calls[i] # calls[j]
    BY <1>3, <1>5
<1>9. \A x \in S : \E i \in 1..n : calls[i] = <<op, x, arg>>
    BY <1>4, <1>5
<1>10. \A i \in 1..n : calls[i] = <<op, calls[i][2], arg>> /\ calls[i][2] \in S
    BY <1>3, <1>5
<1>11. QED
    BY <1>7, <1>8, <1>9, <1>10 DEF Lists

\* What a call makes of the stack it was on top of.
LEMMA Stacked ==
    ASSUME NEW C, NEW calls \in Seq(C), NEW todo \in Seq(C), todo # <<>>, NEW new,
           new = calls \o Tail(todo)
    PROVE  /\ new \in Seq(C) /\ Len(new) = Len(calls) + Len(todo) - 1
           /\ Len(todo) \in Nat /\ Len(todo) > 0 /\ Len(calls) \in Nat
           /\ \A i \in 1..Len(calls) : i \in 1..Len(new) /\ new[i] = calls[i]
           /\ \A i \in 1..Len(new) : i > Len(calls) =>
                 /\ i - Len(calls) + 1 \in 1..Len(todo)
                 /\ i - Len(calls) + 1 > 1
                 /\ new[i] = todo[i - Len(calls) + 1]
           /\ \A j \in 1..Len(todo) : j > 1 =>
                 /\ Len(calls) + j - 1 \in 1..Len(new)
                 /\ Len(calls) + j - 1 > Len(calls)
                 /\ new[Len(calls) + j - 1] = todo[j]
<1> DEFINE rest == Tail(todo)
<1>1. Len(todo) \in Nat /\ Len(todo) > 0 /\ Len(calls) \in Nat
    OBVIOUS
<1>2. rest \in Seq(C) /\ Len(rest) = Len(todo) - 1
    OBVIOUS
<1>3. \A i \in 1..Len(rest) : rest[i] = todo[i + 1]
    OBVIOUS
<1> HIDE DEF rest
<1>4. new = calls \o rest
    BY DEF rest
<1>5. new \in Seq(C) /\ Len(new) = Len(calls) + Len(rest)
    BY <1>2, <1>4
<1>6. \A i \in 1..Len(new) : new[i] = IF i <= Len(calls) THEN calls[i] ELSE rest[i - Len(calls)]
    BY <1>2, <1>4, <1>5, ConcatProperties
<1>7. QED
    BY <1>1, <1>2, <1>3, <1>5, <1>6

\* The calls of a stack by their height in it: a call on top that makes others
\* leaves those below where they are.
Deep(w, k) == w.todo[Len(w.todo) + 1 - k]

Kept(w, v) ==
    /\ v.raised = "no" /\ Len(w.todo) \in Nat /\ Len(w.todo) > 0
    /\ Len(v.todo) \in Nat /\ Len(v.todo) >= Len(w.todo) - 1
    /\ \A k \in 1..Len(w.todo) : k < Len(w.todo) => Deep(v, k) = Deep(w, k)

\* From low up, the stack has one call for each member of S.
OnTop(v, low, op, S, arg) ==
    /\ \A k \in low..Len(v.todo) : \E x \in S : Deep(v, k) = <<op, x, arg>>
    /\ \A x \in S : \E k \in low..Len(v.todo) : Deep(v, k) = <<op, x, arg>>
    /\ \A k, l \in low..Len(v.todo) : k # l => Deep(v, k) # Deep(v, l)

\* A call raises, or puts its own calls on the stack.
Ends(v, error) == v.todo = <<>> /\ v.raised = error

Goes(w, v, calls) ==
    /\ calls \in Seq(CallSet) /\ v.todo = calls \o Tail(w.todo) /\ v.raised = "no"

\* A call that makes others leaves what was below it on the stack.
LEMMA GoesKeeps ==
    ASSUME NEW w \in Works, w.todo # <<>>, NEW v, NEW calls, Goes(w, v, calls)
    PROVE  /\ Kept(w, v) /\ Len(calls) \in Nat
           /\ Len(v.todo) = Len(calls) + Len(w.todo) - 1
           /\ \A k \in Len(w.todo)..Len(v.todo) :
                 /\ Len(v.todo) + 1 - k \in 1..Len(calls)
                 /\ Deep(v, k) = calls[Len(v.todo) + 1 - k]
<1> DEFINE n == Len(w.todo)
           m == Len(v.todo)
           new == v.todo
           todo == w.todo
<1>1. todo \in Seq(CallSet) /\ calls \in Seq(CallSet) /\ new = calls \o Tail(todo) /\ v.raised = "no"
    BY DEF Works, Goes
<1>2. /\ m = Len(calls) + n - 1 /\ n \in Nat /\ n > 0 /\ Len(calls) \in Nat
      /\ \A i \in 1..Len(calls) : new[i] = calls[i]
      /\ \A i \in 1..m : i > Len(calls) => new[i] = todo[i - Len(calls) + 1]
    <2> HIDE DEF new, todo
    <2>1. todo # <<>>
        BY DEF todo
    <2>2. QED
        BY <1>1, <2>1, Stacked DEF n, m, new, todo
<1> HIDE DEF n, m, new, todo
<1>3. ASSUME NEW k \in 1..n, k < n PROVE new[m + 1 - k] = todo[n + 1 - k]
    <2>1. m + 1 - k \in 1..m /\ m + 1 - k > Len(calls) /\ (m + 1 - k) - Len(calls) + 1 = n + 1 - k
        BY <1>2, <1>3
    <2>2. QED
        BY <1>2, <2>1
<1>4. ASSUME NEW k \in n..m PROVE m + 1 - k \in 1..Len(calls) /\ new[m + 1 - k] = calls[m + 1 - k]
    BY <1>2
<1>5. QED
    BY <1>1, <1>2, <1>3, <1>4 DEF Kept, Deep, n, m, new, todo

\* The calls for a set of names are on top of the rest.
LEMMA GoesList ==
    ASSUME NEW w \in Works, w.todo # <<>>, NEW v, NEW op, NEW S, NEW arg, NEW calls,
           Lists(calls, op, S, arg), Goes(w, v, calls)
    PROVE  Kept(w, v) /\ OnTop(v, Len(w.todo), op, S, arg)
<1> DEFINE n == Len(w.todo)
           m == Len(v.todo)
<1>1. /\ Kept(w, v) /\ m = Len(calls) + n - 1 /\ n \in Nat /\ n > 0 /\ Len(calls) \in Nat
      /\ \A k \in n..m : m + 1 - k \in 1..Len(calls) /\ Deep(v, k) = calls[m + 1 - k]
    BY GoesKeeps DEF Kept
<1>2. /\ \A i \in 1..Len(calls) : \E x \in S : calls[i] = <<op, x, arg>>
      /\ \A x \in S : \E i \in 1..Len(calls) : calls[i] = <<op, x, arg>>
      /\ \A i, j \in 1..Len(calls) : i # j => calls[i] # calls[j]
    BY DEF Lists
<1> HIDE DEF n, m
<1>3. \A k \in n..m : \E x \in S : Deep(v, k) = <<op, x, arg>>
    BY <1>1, <1>2
<1>4. ASSUME NEW x \in S PROVE \E k \in n..m : Deep(v, k) = <<op, x, arg>>
    <2>1. PICK i \in 1..Len(calls) : calls[i] = <<op, x, arg>>
        BY <1>2
    <2>2. m + 1 - i \in n..m /\ m + 1 - (m + 1 - i) = i
        BY <1>1
    <2>3. QED
        BY <1>1, <2>1, <2>2
<1>5. ASSUME NEW k \in n..m, NEW l \in n..m, k # l PROVE Deep(v, k) # Deep(v, l)
    <2>1. m + 1 - k \in 1..Len(calls) /\ m + 1 - l \in 1..Len(calls) /\ m + 1 - k # m + 1 - l
        BY <1>1, <1>5
    <2>2. Deep(v, k) = calls[m + 1 - k] /\ Deep(v, l) = calls[m + 1 - l]
        BY <1>1
    <2>3. QED
        BY ONLY <1>2, <2>1, <2>2
<1>6. QED
    BY <1>1, <1>3, <1>4, <1>5 DEF OnTop, n, m

\* The same, with one more call below them.
LEMMA GoesOver ==
    ASSUME NEW w \in Works, w.todo # <<>>, NEW v, NEW op, NEW S, NEW arg, NEW calls \in Seq(CallSet),
           NEW last \in CallSet, Lists(calls, op, S, arg), Goes(w, v, Append(calls, last))
    PROVE  /\ Kept(w, v) /\ Len(v.todo) >= Len(w.todo) /\ Deep(v, Len(w.todo)) = last
           /\ OnTop(v, Len(w.todo) + 1, op, S, arg)
<1> DEFINE n == Len(w.todo)
           m == Len(v.todo)
           all == Append(calls, last)
<1>1. /\ Kept(w, v) /\ m = Len(all) + n - 1 /\ n \in Nat /\ n > 0
      /\ \A k \in n..m : m + 1 - k \in 1..Len(all) /\ Deep(v, k) = all[m + 1 - k]
    <2> HIDE DEF all
    <2>1. Goes(w, v, all)
        BY DEF all
    <2>2. QED
        BY <2>1, GoesKeeps DEF Kept
<1>2. /\ \A i \in 1..Len(calls) : \E x \in S : calls[i] = <<op, x, arg>>
      /\ \A x \in S : \E i \in 1..Len(calls) : calls[i] = <<op, x, arg>>
      /\ \A i, j \in 1..Len(calls) : i # j => calls[i] # calls[j]
    BY DEF Lists
<1>3. /\ Len(calls) \in Nat /\ Len(all) = Len(calls) + 1 /\ all[Len(all)] = last
      /\ \A i \in 1..Len(calls) : all[i] = calls[i]
    OBVIOUS
<1> HIDE DEF n, m, all
<1>4. m >= n /\ Deep(v, n) = last
    <2>1. m >= n /\ n \in n..m /\ m + 1 - n = Len(all)
        BY <1>1, <1>3
    <2>2. QED
        BY <1>1, <1>3, <2>1
<1>5. \A k \in (n + 1)..m : m + 1 - k \in 1..Len(calls) /\ Deep(v, k) = calls[m + 1 - k]
    <2> TAKE k \in (n + 1)..m
    <2>1. k \in n..m /\ m + 1 - k \in 1..Len(calls)
        BY <1>1, <1>3
    <2>2. QED
        BY <1>1, <1>3, <2>1
<1>6. \A k \in (n + 1)..m : \E x \in S : Deep(v, k) = <<op, x, arg>>
    BY <1>5, <1>2
<1>7. ASSUME NEW x \in S PROVE \E k \in (n + 1)..m : Deep(v, k) = <<op, x, arg>>
    <2>1. PICK i \in 1..Len(calls) : calls[i] = <<op, x, arg>>
        BY <1>2
    <2>2. m + 1 - i \in (n + 1)..m /\ m + 1 - (m + 1 - i) = i
        BY <1>1, <1>3
    <2>3. QED
        BY <1>5, <2>1, <2>2
<1>8. ASSUME NEW k \in (n + 1)..m, NEW l \in (n + 1)..m, k # l PROVE Deep(v, k) # Deep(v, l)
    <2> DEFINE i == m + 1 - k
               j == m + 1 - l
    <2>1. i # j
        BY <1>1, <1>3, <1>8
    <2>2. /\ i \in 1..Len(calls) /\ Deep(v, k) = calls[i]
          /\ j \in 1..Len(calls) /\ Deep(v, l) = calls[j]
        BY <1>5
    <2> HIDE DEF i, j
    <2>3. calls[i] # calls[j]
        BY <1>2, <2>1, <2>2
    <2>4. QED
        BY <2>2, <2>3
<1>9. QED
    BY <1>1, <1>4, <1>6, <1>7, <1>8 DEF OnTop, n, m
-----------------------------------------------------------------------------
(***************************************************************************)
(* What each call does, field by field.                                    *)
(***************************************************************************)

\* No call of a removal changes these.
SameCounters(p, q) ==
    /\ q.lastForgetClean = p.lastForgetClean /\ q.count = p.count /\ q.bytes = p.bytes
    /\ q.cleanLock = p.cleanLock /\ q.forgetLock = p.forgetLock

SameEntries(p, q) == q.seen = p.seen /\ q.full = p.full /\ q.tasks = p.tasks
SameOutpoints(p, q) == q.outs = p.outs /\ q.dsByOut = p.dsByOut
SameForgotten(p, q) == q.forget = p.forget /\ q.forgetAt = p.forgetAt

\* An id is forgotten now.
Forgets(p, q, id, now) ==
    /\ q.forget = p.forget \cup {id}
    /\ q.forgetAt = [p.forgetAt EXCEPT ![now] = p.forgetAt[now] \cup {id}]

\* What the calls that only return leave.
Returns(w, v) == Kept(w, v) /\ Len(v.todo) = Len(w.todo) - 1

TxEffect(w, v, id) ==
    LET p == w.pool
        q == v.pool
    IN /\ SameCounters(p, q) /\ SameOutpoints(p, q) /\ SameForgotten(p, q)
       /\ q.byTime = p.byTime /\ q.dspends = p.dspends
       /\ q.seen = p.seen \ {id} /\ q.full = p.full \ {id}
       /\ \/ id \in p.seen /\ Ends(v, "TypeError") /\ q.tasks = p.tasks
          \/ /\ id \notin p.seen /\ id \in p.full
             /\ q.tasks = Append(p.tasks, <<"sub", Size[DataOf(id)]>>)
             /\ Kept(w, v) /\ Len(v.todo) >= Len(w.todo)
             /\ Deep(v, Len(w.todo)) = <<"forget", id, id>>
             /\ OnTop(v, Len(w.todo) + 1, "free", Outpoints(id), id)
          \/ /\ id \notin p.seen \cup p.full /\ q.tasks = p.tasks
             /\ Kept(w, v) /\ Len(v.todo) = Len(w.todo)
             /\ Deep(v, Len(w.todo)) = <<"forget", id, id>>

FreeEffect(w, v, o) ==
    LET p == w.pool
        q == v.pool
    IN /\ SameCounters(p, q) /\ SameEntries(p, q) /\ SameForgotten(p, q)
       /\ q.byTime = p.byTime /\ q.dspends = p.dspends
       /\ \/ p.outs[o] = {} /\ SameOutpoints(p, q) /\ Ends(v, "KeyError")
          \/ /\ p.outs[o] # {}
             /\ q.outs = [p.outs EXCEPT ![o] = {}] /\ q.dsByOut = [p.dsByOut EXCEPT ![o] = {}]
             /\ Kept(w, v) /\ OnTop(v, Len(w.todo), "dspend", p.dsByOut[o], o)

DspendEffect(w, v, id) ==
    /\ v.pool = w.pool
    /\ \/ id \notin w.pool.dspends /\ Ends(v, "KeyError")
       \/ /\ id \in w.pool.dspends /\ Kept(w, v) /\ Len(v.todo) >= Len(w.todo)
          /\ Deep(v, Len(w.todo)) = <<"dsdone", id, id>>
          /\ OnTop(v, Len(w.todo) + 1, "dsout", Outpoints(id), id)

DsoutEffect(w, v, o, id) ==
    LET p == w.pool
        q == v.pool
    IN /\ SameCounters(p, q) /\ SameEntries(p, q) /\ SameForgotten(p, q)
       /\ q.byTime = p.byTime /\ q.dspends = p.dspends /\ q.outs = p.outs
       /\ \/ q.dsByOut = p.dsByOut /\ Ends(v, "KeyError")
          \/ /\ \E left \in SUBSET (p.dsByOut[o] \ {id}) : q.dsByOut = [p.dsByOut EXCEPT ![o] = left]
             /\ Kept(w, v) /\ OnTop(v, Len(w.todo), "tx", p.outs[o], o)

DsdoneEffect(w, v, id, now) ==
    LET p == w.pool
        q == v.pool
    IN /\ SameCounters(p, q) /\ SameEntries(p, q) /\ SameOutpoints(p, q)
       /\ q.byTime = p.byTime /\ q.dspends = p.dspends \ {id}
       /\ Forgets(p, q, id, now) /\ Returns(w, v)

ForgetEffect(w, v, id, now) ==
    LET p == w.pool
        q == v.pool
    IN /\ SameCounters(p, q) /\ SameEntries(p, q) /\ SameOutpoints(p, q)
       /\ q.byTime = p.byTime /\ q.dspends = p.dspends
       /\ Forgets(p, q, id, now) /\ Returns(w, v)

MinedEffect(w, v, id) ==
    \/ id \in w.pool.seen \cup w.pool.full /\ TxEffect(w, v, id)
    \/ /\ id \notin w.pool.seen \cup w.pool.full /\ id \in w.pool.dspends
       /\ DspendEffect(w, v, id)
    \/ /\ id \notin w.pool.seen \cup w.pool.full \cup w.pool.dspends
       /\ v.pool = w.pool /\ Returns(w, v)

CleanEffect(w, v) ==
    LET p == w.pool
        q == v.pool
    IN /\ SameCounters(p, q) /\ SameEntries(p, q) /\ SameOutpoints(p, q) /\ SameForgotten(p, q)
       /\ q.dspends = p.dspends
       /\ \/ /\ p.bytes * 100 <= MaxBytes * 95 \/ p.byTime = Undated
             /\ q = p /\ Returns(w, v)
          \/ /\ ~(p.bytes * 100 <= MaxBytes * 95)
             /\ \E key \in Clock : \E id \in p.byTime[key] :
                  /\ q.byTime = [p.byTime EXCEPT ![key] = p.byTime[key] \ {id}]
                  /\ Kept(w, v) /\ Len(v.todo) = Len(w.todo) + 1
                  /\ Deep(v, Len(w.todo)) = <<"clean", id, id>>
                  /\ Deep(v, Len(v.todo)) = <<"tx", id, id>>

\* remove_transaction has its effect.
LEMMA TxStep ==
    ASSUME NEW w \in Works, w.todo # <<>>, NEW id \in Id, NEW v \in RemoveTransaction(w, id)
    PROVE  v \in Works /\ TxEffect(w, v, id)
<1> DEFINE p == w.pool
           g == [p EXCEPT !.seen = @ \ {id}, !.full = @ \ {id}]
           rest == Tail(w.todo)
<1>1. /\ p \in Pools /\ g \in Pools /\ rest \in Seq(CallSet)
      /\ SameCounters(p, g) /\ SameOutpoints(p, g) /\ SameForgotten(p, g)
      /\ g.byTime = p.byTime /\ g.dspends = p.dspends /\ g.tasks = p.tasks
      /\ g.seen = p.seen \ {id} /\ g.full = p.full \ {id}
    <2>1. p \in Entries /\ Indexed(p) /\ rest \in Seq(CallSet)
        BY DEF Works, Pools
    <2>2. /\ g \in Entries
          /\ SameCounters(p, g) /\ SameOutpoints(p, g) /\ SameForgotten(p, g)
          /\ g.byTime = p.byTime /\ g.dspends = p.dspends /\ g.tasks = p.tasks
          /\ g.seen = p.seen \ {id} /\ g.full = p.full \ {id}
        BY <2>1 DEF Entries, SameCounters, SameOutpoints, SameForgotten
    <2> HIDE DEF g, p, rest
    <2>3. QED
        BY <2>1, <2>2 DEF Pools, Indexed, SameOutpoints
<1>2. <<"forget", id, id>> \in CallSet
    BY DEF CallSet, Arg
<1> HIDE DEF g
<1>3. CASE id \in p.seen
    <2>1. v = [pool |-> g, todo |-> <<>>, raised |-> "TypeError"]
        BY <1>3 DEF RemoveTransaction, Raise, g
    <2>2. QED
        BY <1>1, <1>3, <2>1 DEF Works, TxEffect, Ends
<1>4. CASE id \notin p.seen /\ id \in p.full
    <2> DEFINE size == Size[DataOf(id)]
               more == Append(g.tasks, <<"sub", size>>)
               c == [g EXCEPT !.tasks = more]
    <2>1. id \in WIds /\ size \in Int
        BY <1>1, <1>4, IdFacts DEF Pools, Entries
    <2>2. <<"sub", size>> \in Task
        BY <2>1 DEF Task
    <2> HIDE DEF size
    <2>3. /\ c \in Pools /\ c.tasks = Append(p.tasks, <<"sub", size>>)
          /\ SameCounters(p, c) /\ SameOutpoints(p, c) /\ SameForgotten(p, c)
          /\ c.byTime = p.byTime /\ c.dspends = p.dspends
          /\ c.seen = p.seen \ {id} /\ c.full = p.full \ {id}
        <3>1. g \in Entries /\ Indexed(g)
            BY <1>1 DEF Pools
        <3>4. more \in Seq(Task)
            BY <2>2, <3>1 DEF Entries
        <3> HIDE DEF more
        <3>2. /\ c \in Entries /\ c.tasks = more
              /\ SameCounters(g, c) /\ SameOutpoints(g, c) /\ SameForgotten(g, c)
              /\ c.byTime = g.byTime /\ c.dspends = g.dspends
              /\ c.seen = g.seen /\ c.full = g.full
            BY <3>1, <3>4 DEF Entries, SameCounters, SameOutpoints, SameForgotten
        <3> HIDE DEF c, p
        <3>3. QED
            BY <1>1, <3>1, <3>2 DEF more, Pools, Indexed, SameCounters, SameOutpoints, SameForgotten
    <2> HIDE DEF c
    <2>4. v \in Becomes(w, c, Then(Calls("free", Outpoints(id), id), <<"forget", id, id>>))
        BY <1>4 DEF RemoveTransaction, CreateTask, c, g, size
    <2>5. PICK frees \in Calls("free", Outpoints(id), id) :
             v = Work(c, Append(frees, <<"forget", id, id>>) \o rest)
        BY <2>4 DEF Becomes, Then
    <2>6. \A o \in Outpoints(id) : <<"free", o, id>> \in CallSet
        BY <2>1, IdFacts DEF CallSet
    <2>7. frees \in Seq(CallSet) /\ Lists(frees, "free", Outpoints(id), id)
        BY <2>1, <2>6, IdFacts, CallsList
    <2>8. Append(frees, <<"forget", id, id>>) \in Seq(CallSet)
        BY <2>7, <1>2
    <2>9. v \in Works /\ Goes(w, v, Append(frees, <<"forget", id, id>>))
        BY <1>1, <2>3, <2>5, <2>8 DEF Works, Work, Goes
    <2>10. v.pool = c
        BY <2>5 DEF Work
    <2>11. /\ Kept(w, v) /\ Len(v.todo) >= Len(w.todo)
           /\ Deep(v, Len(w.todo)) = <<"forget", id, id>>
           /\ OnTop(v, Len(w.todo) + 1, "free", Outpoints(id), id)
        BY <1>2, <2>7, <2>9, GoesOver
    <2>12. QED
        BY <1>4, <2>3, <2>9, <2>10, <2>11 DEF TxEffect, size
<1>5. CASE id \notin p.seen /\ id \notin p.full
    <2>1. v = Work(p, <<<<"forget", id, id>>>> \o rest)
        BY <1>5 DEF RemoveTransaction, Becomes
    <2>2. v \in Works /\ Goes(w, v, <<<<"forget", id, id>>>>)
        BY <1>1, <1>2, <2>1 DEF Works, Work, Goes
    <2>3. v.pool = p /\ p.seen = p.seen \ {id} /\ p.full = p.full \ {id}
        BY <1>1, <1>5, <2>1 DEF Work, Pools
    <2> DEFINE calls == <<<<"forget", id, id>>>>
    <2>4. Len(calls) = 1 /\ calls[1] = <<"forget", id, id>>
        OBVIOUS
    <2>5. Kept(w, v) /\ Len(v.todo) = Len(w.todo) /\ Deep(v, Len(w.todo)) = <<"forget", id, id>>
        <3> HIDE DEF calls
        <3>1. Goes(w, v, calls)
            BY <2>2 DEF calls
        <3>2. /\ Kept(w, v) /\ Len(v.todo) = Len(calls) + Len(w.todo) - 1
              /\ \A k \in Len(w.todo)..Len(v.todo) : Deep(v, k) = calls[Len(v.todo) + 1 - k]
            BY <3>1, GoesKeeps
        <3>3. /\ Len(v.todo) = Len(w.todo) /\ Len(w.todo) \in Len(w.todo)..Len(v.todo)
              /\ Len(v.todo) + 1 - Len(w.todo) = 1
            BY <2>4, <3>2 DEF Kept
        <3>4. Deep(v, Len(w.todo)) = calls[Len(v.todo) + 1 - Len(w.todo)]
            BY <3>2, <3>3
        <3>5. QED
            BY <2>4, <3>2, <3>3, <3>4
    <2>6. QED
        BY <1>5, <2>2, <2>3, <2>5 DEF TxEffect, SameCounters, SameOutpoints, SameForgotten
<1>6. QED
    BY <1>3, <1>4, <1>5

\* Work and Becomes, on a pool that is one.
LEMMA Becoming ==
    ASSUME NEW w \in Works, w.todo # <<>>, NEW q \in Pools, NEW calls \in Seq(CallSet),
           NEW v, v = Work(q, calls \o Tail(w.todo))
    PROVE  v \in Works /\ v.pool = q /\ Goes(w, v, calls)
<1>1. Tail(w.todo) \in Seq(CallSet)
    BY DEF Works
<1>2. calls \o Tail(w.todo) \in Seq(CallSet)
    BY <1>1
<1>3. QED
    BY <1>2 DEF Work, Works, Goes

\* A call that makes no other one.
LEMMA Returning ==
    ASSUME NEW w \in Works, w.todo # <<>>, NEW q \in Pools, NEW v,
           v = Work(q, <<>> \o Tail(w.todo))
    PROVE  v \in Works /\ v.pool = q /\ Returns(w, v)
<1>1. Tail(w.todo) \in Seq(CallSet) /\ <<>> \in Seq(CallSet) /\ Len(<<>>) = 0
    BY DEF Works
<1>2. <<>> \o Tail(w.todo) \in Seq(CallSet)
    BY <1>1
<1> DEFINE none == <<>>
<1>3. v \in Works /\ v.pool = q /\ Goes(w, v, none) /\ Len(none) = 0
    BY <1>1, <1>2 DEF Work, Works, Goes
<1> HIDE DEF none
<1>4. Kept(w, v) /\ Len(v.todo) = Len(none) + Len(w.todo) - 1
    BY <1>3, GoesKeeps
<1>5. QED
    BY <1>3, <1>4 DEF Returns, Kept

\* A call that raises.
LEMMA Ending ==
    ASSUME NEW q \in Pools, NEW error \in {"TypeError", "KeyError"}, NEW v \in Raise(q, error)
    PROVE  v \in Works /\ v.pool = q /\ Ends(v, error)
<1>1. v = [pool |-> q, todo |-> <<>>, raised |-> error] /\ <<>> \in Seq(CallSet)
    BY DEF Raise
<1>2. QED
    BY <1>1 DEF Works, Ends

\* A round of _delete_outpoints has its effect.
LEMMA FreeStep ==
    ASSUME NEW w \in Works, w.todo # <<>>, NEW o \in Outpoint, NEW v \in FreeOutpoint(w, o)
    PROVE  v \in Works /\ FreeEffect(w, v, o)
<1> DEFINE p == w.pool
           g == [p EXCEPT !.outs = Put(@, o, {}), !.dsByOut = Put(@, o, {})]
<1>1. p \in Pools /\ p \in Entries /\ Indexed(p) /\ p.outs[o] \in SUBSET WIds /\ p.dsByOut[o] \in SUBSET WIds
    BY DEF Works, Pools, Entries
<1>2. CASE p.outs[o] = {}
    <2>1. v \in Raise(p, "KeyError")
        BY <1>2 DEF FreeOutpoint
    <2>2. v \in Works /\ v.pool = p /\ Ends(v, "KeyError")
        BY <1>1, <2>1, Ending
    <2>3. QED
        BY <1>2, <2>2 DEF FreeEffect, SameCounters, SameEntries, SameForgotten, SameOutpoints
<1>3. CASE p.outs[o] # {}
    <2>1. ~(Cardinality(p.outs[o]) > 1)
        <3>1. PICK x \in p.outs[o] : TRUE
            BY <1>3
        <3>2. p.outs[o] = {x}
            BY <1>1, <3>1 DEF Indexed
        <3>3. Cardinality({x}) = 1
            BY FS_Singleton
        <3>4. QED
            BY <3>2, <3>3
    <2>2. /\ g \in Entries
          /\ SameCounters(p, g) /\ SameEntries(p, g) /\ SameForgotten(p, g)
          /\ g.byTime = p.byTime /\ g.dspends = p.dspends
          /\ g.outs = [p.outs EXCEPT ![o] = {}] /\ g.dsByOut = [p.dsByOut EXCEPT ![o] = {}]
        BY <1>1 DEF Entries, Put, SameCounters, SameEntries, SameForgotten
    <2>3. v \in Becomes(w, g, Calls("dspend", p.dsByOut[o], o))
        BY <1>3, <2>1 DEF FreeOutpoint
    <2> HIDE DEF g
    <2>4. g \in Pools
        BY <1>1, <2>2 DEF Pools, Indexed, Entries
    <2>5. PICK calls \in Calls("dspend", p.dsByOut[o], o) : v = Work(g, calls \o Tail(w.todo))
        BY <2>3 DEF Becomes
    <2>6. \A x \in p.dsByOut[o] : <<"dspend", x, o>> \in CallSet
        BY <1>1 DEF CallSet, Arg
    <2>7. calls \in Seq(CallSet) /\ Lists(calls, "dspend", p.dsByOut[o], o)
        BY <1>1, <2>6, IdFacts, FS_Subset, CallsList
    <2>8. v \in Works /\ v.pool = g /\ Goes(w, v, calls)
        BY <2>4, <2>5, <2>7, Becoming
    <2>9. Kept(w, v) /\ OnTop(v, Len(w.todo), "dspend", p.dsByOut[o], o)
        BY <2>7, <2>8, GoesList
    <2>10. QED
        BY <1>3, <2>2, <2>8, <2>9 DEF FreeEffect
<1>4. QED
    BY <1>2, <1>3

\* _remove_double_spend has its effect, up to its loop.
LEMMA DspendStep ==
    ASSUME NEW w \in Works, w.todo # <<>>, NEW id \in WIds, NEW v \in RemoveDoubleSpend(w, id)
    PROVE  v \in Works /\ DspendEffect(w, v, id)
<1>1. w.pool \in Pools
    BY DEF Works
<1>2. CASE id \notin w.pool.dspends
    <2>1. v \in Raise(w.pool, "KeyError")
        BY <1>2 DEF RemoveDoubleSpend
    <2>2. v \in Works /\ v.pool = w.pool /\ Ends(v, "KeyError")
        BY <1>1, <2>1, Ending
    <2>3. QED
        BY <1>2, <2>2 DEF DspendEffect
<1>3. CASE id \in w.pool.dspends
    <2>1. v \in Becomes(w, w.pool, Then(Calls("dsout", Outpoints(id), id), <<"dsdone", id, id>>))
        BY <1>3 DEF RemoveDoubleSpend
    <2>2. PICK outs \in Calls("dsout", Outpoints(id), id) :
             v = Work(w.pool, Append(outs, <<"dsdone", id, id>>) \o Tail(w.todo))
        BY <2>1 DEF Becomes, Then
    <2>3. \A o \in Outpoints(id) : <<"dsout", o, id>> \in CallSet
        BY IdFacts DEF CallSet
    <2>4. outs \in Seq(CallSet) /\ Lists(outs, "dsout", Outpoints(id), id)
        BY <2>3, IdFacts, CallsList
    <2>5. Append(outs, <<"dsdone", id, id>>) \in Seq(CallSet)
        <3>1. <<"dsdone", id, id>> \in CallSet
            BY IdFacts DEF CallSet, Arg
        <3>2. QED
            BY <2>4, <3>1
    <2>6. v \in Works /\ v.pool = w.pool /\ Goes(w, v, Append(outs, <<"dsdone", id, id>>))
        <3> DEFINE calls == Append(outs, <<"dsdone", id, id>>)
        <3>1. calls \in Seq(CallSet) /\ v = Work(w.pool, calls \o Tail(w.todo))
            BY <2>2, <2>5
        <3> HIDE DEF calls
        <3>2. v \in Works /\ v.pool = w.pool /\ Goes(w, v, calls)
            BY <1>1, <3>1, Becoming
        <3>3. QED
            BY <3>2 DEF calls
    <2>7. /\ Kept(w, v) /\ Len(v.todo) >= Len(w.todo)
          /\ Deep(v, Len(w.todo)) = <<"dsdone", id, id>>
          /\ OnTop(v, Len(w.todo) + 1, "dsout", Outpoints(id), id)
        <3>1. <<"dsdone", id, id>> \in CallSet
            BY IdFacts DEF CallSet, Arg
        <3>2. QED
            BY <2>4, <2>6, <3>1, GoesOver
    <2>8. QED
        BY <1>3, <2>6, <2>7 DEF DspendEffect
<1>4. QED
    BY <1>2, <1>3

\* A round of the loop of _remove_double_spend has its effect.
LEMMA DsoutStep ==
    ASSUME NEW w \in Works, w.todo # <<>>, NEW o \in Outpoint, NEW id \in WIds,
           NEW v \in LeaveOutpoint(w, o, id)
    PROVE  v \in Works /\ DsoutEffect(w, v, o, id)
<1> DEFINE p == w.pool
           several == Cardinality(p.dsByOut[o]) > 1
           left == IF several THEN p.dsByOut[o] \ {id} ELSE {}
           g == [p EXCEPT !.dsByOut = Put(@, o, left)]
<1>1. p \in Pools /\ p \in Entries /\ Indexed(p) /\ p.outs[o] \in SUBSET WIds /\ p.dsByOut[o] \in SUBSET WIds
    BY DEF Works, Pools, Entries
<1>2. CASE several /\ id \notin p.dsByOut[o]
    <2>1. v \in Raise(p, "KeyError")
        BY <1>2 DEF LeaveOutpoint
    <2>2. v \in Works /\ v.pool = p /\ Ends(v, "KeyError")
        BY <1>1, <2>1, Ending
    <2>3. QED
        BY <2>2 DEF DsoutEffect, SameCounters, SameEntries, SameForgotten
<1>3. CASE ~(several /\ id \notin p.dsByOut[o])
    <2>1. v \in Becomes(w, g, Calls("tx", p.outs[o], o))
        BY <1>3 DEF LeaveOutpoint
    <2>2. left \in SUBSET (p.dsByOut[o] \ {id})
        OBVIOUS
    <2> HIDE DEF left
    <2>3. /\ g \in Entries
          /\ SameCounters(p, g) /\ SameEntries(p, g) /\ SameForgotten(p, g)
          /\ g.byTime = p.byTime /\ g.dspends = p.dspends /\ g.outs = p.outs
          /\ g.dsByOut = [p.dsByOut EXCEPT ![o] = left]
        BY <1>1, <2>2 DEF Entries, Put, SameCounters, SameEntries, SameForgotten
    <2> HIDE DEF g
    <2>4. g \in Pools
        <3>1. \A oo \in Outpoint : g.dsByOut[oo] \subseteq p.dsByOut[oo]
            BY <1>1, <2>2, <2>3 DEF Entries
        <3>2. QED
            BY <1>1, <2>3, <3>1 DEF Pools, Indexed
    <2>5. PICK calls \in Calls("tx", p.outs[o], o) : v = Work(g, calls \o Tail(w.todo))
        BY <2>1 DEF Becomes
    <2>6. \A x \in p.outs[o] : <<"tx", x, o>> \in CallSet
        BY <1>1 DEF CallSet, Arg
    <2>7. calls \in Seq(CallSet) /\ Lists(calls, "tx", p.outs[o], o)
        BY <1>1, <2>6, IdFacts, FS_Subset, CallsList
    <2>8. v \in Works /\ v.pool = g /\ Goes(w, v, calls)
        BY <2>4, <2>5, <2>7, Becoming
    <2>9. Kept(w, v) /\ OnTop(v, Len(w.todo), "tx", p.outs[o], o)
        BY <2>7, <2>8, GoesList
    <2>10. QED
        BY <2>2, <2>3, <2>8, <2>9 DEF DsoutEffect
<1>4. QED
    BY <1>2, <1>3

\* Forget, and the end of a double spend.
ForgetsAll(p, q, ids, now) ==
    /\ SameCounters(p, q) /\ SameEntries(p, q) /\ SameOutpoints(p, q)
    /\ q.byTime = p.byTime /\ q.dspends = p.dspends
    /\ q.forget = p.forget \cup ids
    /\ q.forgetAt = [p.forgetAt EXCEPT ![now] = p.forgetAt[now] \cup ids]

\* What forgetting ids does to each field.
LEMMA ForgetFields ==
    ASSUME NEW p \in Pools, NEW ids \in SUBSET Id, NEW now \in Clock
    PROVE  Forget(p, ids, now) \in Pools /\ ForgetsAll(p, Forget(p, ids, now), ids, now)
<1> DEFINE at == Record(p.forgetAt, now, ids)
           q == Forget(p, ids, now)
<1>1. p \in Entries /\ Indexed(p)
    BY DEF Pools
<1>2. at \in Dated /\ at = [p.forgetAt EXCEPT ![now] = p.forgetAt[now] \cup ids]
    BY <1>1 DEF Entries, Dated, Record
<1>3. q = [p EXCEPT !.forget = @ \cup ids, !.forgetAt = at]
    BY DEF Forget
<1> HIDE DEF at, q
<1>4. /\ q \in Entries /\ SameCounters(p, q) /\ SameEntries(p, q) /\ SameOutpoints(p, q)
      /\ q.byTime = p.byTime /\ q.dspends = p.dspends
      /\ q.forget = p.forget \cup ids /\ q.forgetAt = at
    BY <1>1, <1>2, <1>3 DEF Entries, SameCounters, SameEntries, SameOutpoints
<1>5. QED
    BY <1>1, <1>2, <1>4 DEF q, Pools, Indexed, SameOutpoints, ForgetsAll

\* The last step of remove_transaction has its effect.
LEMMA ForgetStep ==
    ASSUME NEW w \in Works, w.todo # <<>>, NEW id \in Id, NEW now \in Clock,
           NEW v \in Becomes(w, Forget(w.pool, {id}, now), {<<>>})
    PROVE  v \in Works /\ ForgetEffect(w, v, id, now)
<1> DEFINE q == Forget(w.pool, {id}, now)
<1>1. /\ q \in Pools /\ SameCounters(w.pool, q) /\ SameEntries(w.pool, q) /\ SameOutpoints(w.pool, q)
      /\ q.byTime = w.pool.byTime /\ q.dspends = w.pool.dspends /\ Forgets(w.pool, q, id, now)
    <2> DEFINE ids == {id}
    <2>1. w.pool \in Pools /\ ids \in SUBSET Id /\ q = Forget(w.pool, ids, now)
        BY DEF Works
    <2> HIDE DEF q, ids
    <2>2. q \in Pools /\ ForgetsAll(w.pool, q, ids, now)
        BY <2>1, ForgetFields
    <2>3. QED
        BY <2>2 DEF Forgets, ForgetsAll, ids
<1>2. v = Work(q, <<>> \o Tail(w.todo)) /\ <<>> \in Seq(CallSet)
    BY DEF Becomes
<1> HIDE DEF q
<1>3. v \in Works /\ v.pool = q /\ Returns(w, v)
    BY <1>1, <1>2, Returning
<1>4. QED
    BY <1>1, <1>3 DEF ForgetEffect

\* The end of _remove_double_spend has its effect.
LEMMA DsdoneStep ==
    ASSUME NEW w \in Works, w.todo # <<>>, NEW id \in WIds, NEW now \in Clock,
           NEW v \in DoubleSpendDone(w, id, now)
    PROVE  v \in Works /\ DsdoneEffect(w, v, id, now)
<1> DEFINE p == w.pool
           g == [p EXCEPT !.dspends = @ \ {id}]
           q == Forget(g, {id}, now)
<1>1. p \in Entries /\ Indexed(p)
    BY DEF Works, Pools
<1>2. /\ g \in Entries /\ SameCounters(p, g) /\ SameEntries(p, g) /\ SameOutpoints(p, g)
      /\ SameForgotten(p, g) /\ g.byTime = p.byTime /\ g.dspends = p.dspends \ {id}
    BY <1>1 DEF Entries, SameCounters, SameEntries, SameOutpoints, SameForgotten
<1>3. v = Work(q, <<>> \o Tail(w.todo)) /\ <<>> \in Seq(CallSet)
    BY DEF DoubleSpendDone, Becomes
<1> HIDE DEF g, p
<1>4. g \in Pools
    BY <1>1, <1>2 DEF Pools, Indexed, SameOutpoints
<1>5. /\ q \in Pools /\ SameCounters(g, q) /\ SameEntries(g, q) /\ SameOutpoints(g, q)
      /\ q.byTime = g.byTime /\ q.dspends = g.dspends /\ Forgets(g, q, id, now)
    <2> DEFINE ids == {id}
    <2>1. ids \in SUBSET Id /\ q = Forget(g, ids, now)
        BY IdFacts
    <2> HIDE DEF q, ids
    <2>2. q \in Pools /\ ForgetsAll(g, q, ids, now)
        BY <1>4, <2>1, ForgetFields
    <2>3. QED
        BY <2>2 DEF Forgets, ForgetsAll, ids
<1> HIDE DEF q
<1>6. v \in Works /\ v.pool = q /\ Returns(w, v)
    BY <1>3, <1>5, Returning
<1>7. QED
    BY <1>2, <1>5, <1>6 DEF p, DsdoneEffect, SameCounters, SameEntries, SameOutpoints, SameForgotten, Forgets

\* The key that min returns is one of the times.
LEMMA OldestIsATime ==
    ASSUME NEW d
    PROVE  OldestKey(d) \in Clock
<1> DEFINE Beats(k, l) == d[k] # {} /\ (d[l] = {} \/ (d[k] # d[l] /\ d[k] \subseteq d[l]))
           Next1(n, k) == IF n + 1 <= MaxClock /\ Beats(n + 1, k) THEN n + 1 ELSE k
           G == [x \in Nat \X Clock |-> Next1(x[1], x[2])]
           Is(f) == f = [k \in Clock |-> IF k = 0 THEN 0
                                         ELSE IF Beats(k, f[k - 1]) THEN k ELSE f[k - 1]]
           oldest == CHOOSE f : Is(f)
<1>1. 0 \in Clock /\ MaxClock \in Clock /\ MaxClock \in Nat
    BY MempoolAssumption DEF Clock
<1>2. G \in [Nat \X Clock -> Clock]
    BY <1>1 DEF Clock
<1>3. PICK h \in [Nat -> Clock] : h[0] = 0 /\ \A n \in Nat : h[n + 1] = G[<<n, h[n]>>]
    <2> HIDE DEF G
    <2>1. Unfolds(Clock, 0, G)
        BY <1>1, <1>2, Recursion
    <2>2. QED
        BY <2>1 DEF Unfolds
<1> DEFINE g == [k \in Clock |-> h[k]]
<1>4. g \in [Clock -> Clock]
    BY <1>1 DEF Clock
<1>5. Is(g)
    <2>1. ASSUME NEW k \in Clock, k # 0
          PROVE  g[k] = IF Beats(k, g[k - 1]) THEN k ELSE g[k - 1]
        <3>1. k \in Nat /\ k - 1 \in Nat /\ k - 1 \in Clock /\ k = (k - 1) + 1 /\ k <= MaxClock
            BY <1>1, <2>1 DEF Clock
        <3>2. h[k - 1] \in Clock /\ h[k] = G[<<k - 1, h[k - 1]>>]
            BY <1>3, <3>1
        <3>3. G[<<k - 1, h[k - 1]>>] = Next1(k - 1, h[k - 1])
            BY <3>1, <3>2
        <3> HIDE DEF G, Beats
        <3>4. QED
            BY <3>1, <3>2, <3>3
    <2>2. g[0] = 0
        BY <1>1, <1>3
    <2> HIDE DEF Beats, g
    <2>3. g = [k \in Clock |-> g[k]]
        BY <1>4
    <2>4. QED
        BY <2>1, <2>2, <2>3
<1>6. Is(oldest)
    <2> HIDE DEF g, Beats
    <2>1. QED
        BY <1>5
<1> HIDE DEF oldest
<1>7. {n \in Nat : n <= MaxClock => oldest[n] \in Clock} = Nat
    <2> DEFINE T == {n \in Nat : n <= MaxClock => oldest[n] \in Clock}
    <2>1. 0 \in T
        BY <1>1, <1>6
    <2>2. ASSUME NEW n \in T PROVE n + 1 \in T
        <3>1. SUFFICES ASSUME n + 1 <= MaxClock PROVE oldest[n + 1] \in Clock
            OBVIOUS
        <3>2. n \in Nat /\ n + 1 \in Clock /\ n + 1 # 0 /\ (n + 1) - 1 = n /\ oldest[n] \in Clock
            BY <1>1, <3>1 DEF Clock
        <3> HIDE DEF Beats
        <3>3. oldest[n + 1] = IF Beats(n + 1, oldest[n]) THEN n + 1 ELSE oldest[n]
            BY <1>6, <3>2
        <3>4. QED
            BY <3>2, <3>3
    <2>3. QED
        BY <2>1, <2>2, Induction
<1>8. OldestKey(d) = oldest[MaxClock]
    BY DEF OldestKey, oldest
<1>9. QED
    BY <1>1, <1>7, <1>8

\* A round of the loop of on_new_block has its effect.
LEMMA MinedStep ==
    ASSUME NEW w \in Works, w.todo # <<>>, NEW id \in Id, NEW v \in RemoveMined(w, id)
    PROVE  v \in Works /\ MinedEffect(w, v, id)
<1>1. w.pool \in Pools /\ w.pool.dspends \subseteq WIds
    BY DEF Works, Pools, Entries
<1>2. CASE Known(w.pool, id)
    <2>1. v \in RemoveTransaction(w, id)
        BY <1>2 DEF RemoveMined
    <2>2. QED
        BY <1>2, <2>1, TxStep DEF MinedEffect, Known
<1>3. CASE ~Known(w.pool, id) /\ id \in w.pool.dspends
    <2>1. v \in RemoveDoubleSpend(w, id) /\ id \in WIds
        BY <1>1, <1>3 DEF RemoveMined
    <2>2. v \in Works /\ DspendEffect(w, v, id)
        BY <2>1, DspendStep
    <2>3. QED
        BY <1>3, <2>2 DEF MinedEffect, Known
<1>4. CASE ~Known(w.pool, id) /\ id \notin w.pool.dspends
    <2>1. v = Work(w.pool, <<>> \o Tail(w.todo)) /\ <<>> \in Seq(CallSet)
        BY <1>4 DEF RemoveMined, Becomes
    <2>2. v \in Works /\ v.pool = w.pool /\ Returns(w, v)
        BY <1>1, <2>1, Returning
    <2>3. QED
        BY <1>4, <2>2 DEF MinedEffect, Known
<1>5. QED
    BY <1>2, <1>3, <1>4

\* A round of _clean_mempool has its effect.
LEMMA CleanStep ==
    ASSUME NEW w \in Works, w.todo # <<>>, NEW v \in CleanNext(w)
    PROVE  v \in Works /\ CleanEffect(w, v)
<1> DEFINE p == w.pool
           key == OldestKey(p.byTime)
           small == p.bytes * 100 <= MaxBytes * 95
<1>1. p \in Pools /\ p \in Entries /\ Indexed(p) /\ key \in Clock
    BY OldestIsATime DEF Works, Pools
<1>2. CASE small \/ p.byTime = Undated
    <2>1. v = Work(p, <<>> \o Tail(w.todo)) /\ <<>> \in Seq(CallSet)
        BY <1>2 DEF CleanNext, Becomes
    <2>2. v \in Works /\ v.pool = p /\ Returns(w, v)
        BY <1>1, <2>1, Returning
    <2>3. QED
        BY <1>2, <2>2 DEF CleanEffect, SameCounters, SameEntries, SameOutpoints, SameForgotten
<1>3. CASE ~(small \/ p.byTime = Undated)
    <2> DEFINE G(id) == [p EXCEPT !.byTime = Strike(@, key, id)]
               C(id) == <<<<"tx", id, id>>, <<"clean", id, id>>>>
    <2>1. PICK id \in p.byTime[key] : v \in Becomes(w, G(id), {C(id)})
        BY <1>3 DEF CleanNext
    <2> HIDE DEF key
    <2>2. id \in WIds /\ C(id) \in Seq(CallSet)
        <3>1. id \in WIds /\ <<"tx", id, id>> \in CallSet /\ <<"clean", id, id>> \in CallSet
            BY <1>1, IdFacts DEF Entries, CallSet, Arg
        <3>2. QED
            BY <3>1
    <2> DEFINE q == G(id)
    <2>3. /\ q \in Entries /\ SameCounters(p, q) /\ SameEntries(p, q) /\ SameOutpoints(p, q)
          /\ SameForgotten(p, q) /\ q.dspends = p.dspends
          /\ q.byTime = [p.byTime EXCEPT ![key] = p.byTime[key] \ {id}]
        BY <1>1, <2>2 DEF Entries, Strike, SameCounters, SameEntries, SameOutpoints, SameForgotten
    <2>4. v = Work(q, C(id) \o Tail(w.todo))
        BY <2>1 DEF Becomes
    <2> HIDE DEF q, p
    <2>5. q \in Pools
        BY <1>1, <2>3 DEF Pools, Indexed, SameOutpoints
    <2>6. v \in Works /\ v.pool = q /\ Goes(w, v, C(id))
        <3> HIDE DEF C
        <3>1. QED
            BY <2>2, <2>4, <2>5, Becoming
    <2>7. /\ Len(C(id)) = 2 /\ C(id)[1] = <<"tx", id, id>> /\ C(id)[2] = <<"clean", id, id>>
        OBVIOUS
    <2>8. /\ Kept(w, v) /\ Len(v.todo) = Len(w.todo) + 1
          /\ Deep(v, Len(w.todo)) = <<"clean", id, id>>
          /\ Deep(v, Len(v.todo)) = <<"tx", id, id>>
        <3> HIDE DEF C
        <3>1. /\ Kept(w, v) /\ Len(v.todo) = Len(C(id)) + Len(w.todo) - 1
              /\ \A k \in Len(w.todo)..Len(v.todo) : Deep(v, k) = C(id)[Len(v.todo) + 1 - k]
            BY <2>6, GoesKeeps
        <3> DEFINE n == Len(w.todo)
                   m == Len(v.todo)
        <3>2. m = n + 1 /\ n \in n..m /\ m \in n..m /\ m + 1 - n = 2 /\ m + 1 - m = 1
            BY <2>7, <3>1 DEF Kept
        <3>3. Deep(v, n) = C(id)[m + 1 - n] /\ Deep(v, m) = C(id)[m + 1 - m]
            BY <3>1, <3>2
        <3> HIDE DEF n, m
        <3>4. Deep(v, n) = <<"clean", id, id>> /\ Deep(v, m) = <<"tx", id, id>>
            BY <2>7, <3>2, <3>3
        <3>5. QED
            BY <3>1, <3>2, <3>4 DEF n, m
    <2>9. QED
        BY <1>1, <1>3, <2>3, <2>6, <2>8 DEF CleanEffect, p
<1>4. QED
    BY <1>2, <1>3

\* The call on top of the stack, and what it does.
Does(w, v, call, now) ==
    \/ call[1] = "tx" /\ call[2] \in WIds /\ TxEffect(w, v, call[2])
    \/ call[1] = "free" /\ call[2] \in Outpoint /\ call[3] \in WIds /\ FreeEffect(w, v, call[2])
    \/ call[1] = "dspend" /\ call[2] \in WIds /\ DspendEffect(w, v, call[2])
    \/ /\ call[1] = "dsout" /\ call[2] \in Outpoint /\ call[3] \in WIds
       /\ DsoutEffect(w, v, call[2], call[3])
    \/ call[1] = "dsdone" /\ call[2] \in WIds /\ DsdoneEffect(w, v, call[2], now)
    \/ call[1] = "forget" /\ call[2] \in Id /\ ForgetEffect(w, v, call[2], now)
    \/ call[1] = "mined" /\ call[2] \in Id /\ MinedEffect(w, v, call[2])
    \/ call[1] = "clean" /\ CleanEffect(w, v)

\* Every call has the effect of its kind.
LEMMA CallDoes ==
    ASSUME NEW w \in Works, w.todo # <<>>, NEW now \in Clock, NEW v \in Call(w, now)
    PROVE  v \in Works /\ Head(w.todo) = w.todo[1] /\ Does(w, v, w.todo[1], now)
<1> DEFINE call == w.todo[1]
<1>1. call \in CallSet /\ Head(w.todo) = call
    BY DEF Works
<1>2. CASE call[1] = "tx"
    <2>1. call[2] \in WIds /\ v \in RemoveTransaction(w, call[2])
        BY <1>1, <1>2 DEF CallSet, Call
    <2>2. v \in Works /\ TxEffect(w, v, call[2])
        BY <2>1, IdFacts, TxStep
    <2>3. QED
        BY <1>1, <1>2, <2>1, <2>2 DEF Does
<1>3. CASE call[1] = "free"
    <2>1. call[2] \in Outpoint /\ call[3] \in WIds /\ v \in FreeOutpoint(w, call[2])
        BY <1>1, <1>3 DEF CallSet, Call
    <2>2. v \in Works /\ FreeEffect(w, v, call[2])
        BY <2>1, FreeStep
    <2>3. QED
        BY <1>1, <1>3, <2>1, <2>2 DEF Does
<1>4. CASE call[1] = "dspend"
    <2>1. call[2] \in WIds /\ v \in RemoveDoubleSpend(w, call[2])
        BY <1>1, <1>4 DEF CallSet, Call
    <2>2. v \in Works /\ DspendEffect(w, v, call[2])
        BY <2>1, DspendStep
    <2>3. QED
        BY <1>1, <1>4, <2>1, <2>2 DEF Does
<1>5. CASE call[1] = "dsout"
    <2>1. call[2] \in Outpoint /\ call[3] \in WIds /\ v \in LeaveOutpoint(w, call[2], call[3])
        BY <1>1, <1>5 DEF CallSet, Call
    <2>2. v \in Works /\ DsoutEffect(w, v, call[2], call[3])
        BY <2>1, DsoutStep
    <2>3. QED
        BY <1>1, <1>5, <2>1, <2>2 DEF Does
<1>6. CASE call[1] = "dsdone"
    <2>1. call[2] \in WIds /\ v \in DoubleSpendDone(w, call[2], now)
        BY <1>1, <1>6 DEF CallSet, Call
    <2>2. v \in Works /\ DsdoneEffect(w, v, call[2], now)
        BY <2>1, DsdoneStep
    <2>3. QED
        BY <1>1, <1>6, <2>1, <2>2 DEF Does
<1>7. CASE call[1] = "forget"
    <2>1. call[2] \in Id /\ v \in Becomes(w, Forget(w.pool, {call[2]}, now), {<<>>})
        BY <1>1, <1>7 DEF CallSet, Call
    <2>2. v \in Works /\ ForgetEffect(w, v, call[2], now)
        BY <2>1, ForgetStep
    <2>3. QED
        BY <1>1, <1>7, <2>1, <2>2 DEF Does
<1>8. CASE call[1] = "mined"
    <2>1. call[2] \in Id /\ v \in RemoveMined(w, call[2])
        BY <1>1, <1>8 DEF CallSet, Call
    <2>2. v \in Works /\ MinedEffect(w, v, call[2])
        BY <2>1, MinedStep
    <2>3. QED
        BY <1>1, <1>8, <2>1, <2>2 DEF Does
<1>9. CASE call[1] = "clean"
    <2>1. v \in CleanNext(w)
        BY <1>1, <1>9 DEF Call
    <2>2. v \in Works /\ CleanEffect(w, v)
        BY <2>1, CleanStep
    <2>3. QED
        BY <1>1, <1>9, <2>2 DEF Does
<1>10. QED
    BY <1>1, <1>2, <1>3, <1>4, <1>5, <1>6, <1>7, <1>8, <1>9 DEF CallSet

\* A step of a removal is a call that does what it does, or there is none to make.
LEMMA StepDoes ==
    ASSUME NEW w \in Works, NEW now \in Clock, NEW v \in Step(w, now)
    PROVE  \/ v = w /\ w.todo = <<>>
           \/ /\ w.todo # <<>> /\ v \in Works /\ Len(w.todo) \in Nat /\ Len(w.todo) > 0
              /\ Does(w, v, Deep(w, Len(w.todo)), now)
<1>1. CASE w.todo = <<>>
    BY <1>1 DEF Step
<1>2. CASE w.todo # <<>>
    <2>1. v \in Call(w, now)
        BY <1>2 DEF Step
    <2>2. Len(w.todo) \in Nat /\ Len(w.todo) > 0 /\ Deep(w, Len(w.todo)) = w.todo[1]
        BY <1>2 DEF Works, Deep
    <2>3. QED
        BY <1>2, <2>1, <2>2, CallDoes
<1>3. QED
    BY <1>1, <1>2

\* Every call of the stack is one.
LEMMA DeepIsCall ==
    ASSUME NEW w \in Works, NEW k \in 1..Len(w.todo)
    PROVE  Deep(w, k) \in CallSet
<1>1. Len(w.todo) \in Nat /\ Len(w.todo) + 1 - k \in 1..Len(w.todo)
    BY DEF Works
<1>2. QED
    BY <1>1 DEF Works, Deep

(***************************************************************************)
(* A removal only takes away, and remembers what it took.                  *)
(***************************************************************************)
Shrunk(p, q, now) ==
    /\ SameCounters(p, q)
    /\ q.seen \subseteq p.seen /\ q.full \subseteq p.full /\ q.dspends \subseteq p.dspends
    /\ \A o \in Outpoint : q.outs[o] \subseteq p.outs[o] /\ q.dsByOut[o] \subseteq p.dsByOut[o]
    /\ \A k \in Clock : /\ q.byTime[k] \subseteq p.byTime[k]
                        /\ k # now => q.forgetAt[k] = p.forgetAt[k]
    /\ p.forget \subseteq q.forget

\* Every effect only takes away.
LEMMA EffectShrinks ==
    ASSUME NEW w \in Works, NEW v \in Works, NEW now \in Clock, NEW call \in CallSet, Does(w, v, call, now)
    PROVE  Shrunk(w.pool, v.pool, now)
<1> DEFINE p == w.pool
           q == v.pool
<1>1. /\ p.outs \in [Outpoint -> SUBSET WIds] /\ p.dsByOut \in [Outpoint -> SUBSET WIds]
      /\ p.byTime \in [Clock -> SUBSET WIds] /\ p.forgetAt \in [Clock -> SUBSET Id]
    BY DEF Works, Pools, Entries, Dated
<1> HIDE DEF p, q
<1> USE DEF Shrunk, SameCounters, SameEntries, SameOutpoints, SameForgotten
<1>2. ASSUME NEW id, TxEffect(w, v, id) PROVE Shrunk(p, q, now)
    BY <1>1, <1>2 DEF TxEffect, p, q
<1>3. ASSUME NEW o \in Outpoint, FreeEffect(w, v, o) PROVE Shrunk(p, q, now)
    BY <1>1, <1>3 DEF FreeEffect, p, q
<1>4. ASSUME NEW id, DspendEffect(w, v, id) PROVE Shrunk(p, q, now)
    BY <1>4 DEF DspendEffect, p, q
<1>5. ASSUME NEW o \in Outpoint, NEW id, DsoutEffect(w, v, o, id) PROVE Shrunk(p, q, now)
    BY <1>1, <1>5 DEF DsoutEffect, p, q
<1>6. ASSUME NEW id, DsdoneEffect(w, v, id, now) PROVE Shrunk(p, q, now)
    BY <1>1, <1>6 DEF DsdoneEffect, Forgets, p, q
<1>7. ASSUME NEW id, ForgetEffect(w, v, id, now) PROVE Shrunk(p, q, now)
    BY <1>1, <1>7 DEF ForgetEffect, Forgets, p, q
<1>8. ASSUME NEW id, MinedEffect(w, v, id) PROVE Shrunk(p, q, now)
    <2>1. CASE TxEffect(w, v, id)
        BY <1>2, <2>1
    <2>2. CASE DspendEffect(w, v, id)
        BY <1>4, <2>2
    <2>3. CASE v.pool = w.pool
        BY <2>3 DEF p, q
    <2>4. QED
        BY <1>8, <2>1, <2>2, <2>3 DEF MinedEffect
<1>9. ASSUME CleanEffect(w, v) PROVE Shrunk(p, q, now)
    BY <1>1, <1>9 DEF CleanEffect, p, q
<1>10. QED
    BY ONLY Does(w, v, call, now), <1>2, <1>3, <1>4, <1>5, <1>6, <1>7, <1>8, <1>9 DEF Does, p, q

\* Taking away twice is taking away.
LEMMA ShrunkTwice ==
    ASSUME NEW p, NEW q, NEW r, NEW now, Shrunk(p, q, now), Shrunk(q, r, now)
    PROVE  Shrunk(p, r, now)
BY DEF Shrunk, SameCounters

\* An exception ends a removal.
Shrinking(p0, now) ==
    {w \in Works : Shrunk(p0, w.pool, now) /\ (w.raised # "no" => w.todo = <<>>)}

\* A call raises and ends the removal, or leaves what was below it.
LEMMA EffectHalts ==
    ASSUME NEW w, NEW v, NEW now, NEW call, Does(w, v, call, now)
    PROVE  /\ v.raised # "no" => v.todo = <<>>
           /\ v.raised = "no" => Kept(w, v)
BY DEF Does, TxEffect, FreeEffect, DspendEffect, DsoutEffect, DsdoneEffect, ForgetEffect,
       MinedEffect, CleanEffect, Ends, Kept, Returns

\* What a step of a removal is, once the removal is known to take away.
LEMMA ShrinkingStep ==
    ASSUME NEW p0, NEW now \in Clock, NEW w \in Shrinking(p0, now), NEW v \in Step(w, now)
    PROVE  /\ v \in Shrinking(p0, now)
           /\ \/ v = w
              \/ /\ w.todo # <<>> /\ w.raised = "no" /\ Shrunk(w.pool, v.pool, now)
                 /\ Len(w.todo) \in Nat /\ Len(w.todo) > 0
                 /\ Deep(w, Len(w.todo)) \in CallSet /\ Does(w, v, Deep(w, Len(w.todo)), now)
                 /\ v.raised = "no" => Kept(w, v)
<1>1. w \in Works /\ Shrunk(p0, w.pool, now) /\ (w.raised # "no" => w.todo = <<>>)
    BY DEF Shrinking
<1>2. CASE v = w /\ w.todo = <<>>
    BY <1>2
<1>3. CASE /\ w.todo # <<>> /\ v \in Works /\ Len(w.todo) \in Nat /\ Len(w.todo) > 0
           /\ Does(w, v, Deep(w, Len(w.todo)), now)
    <2>1. Deep(w, Len(w.todo)) \in CallSet
        BY <1>1, <1>3, DeepIsCall
    <2>2. Shrunk(w.pool, v.pool, now)
        BY <1>1, <1>3, <2>1, EffectShrinks
    <2>3. Shrunk(p0, v.pool, now)
        BY <1>1, <2>2, ShrunkTwice
    <2>4. (v.raised # "no" => v.todo = <<>>) /\ (v.raised = "no" => Kept(w, v))
        BY <1>3, EffectHalts
    <2>5. QED
        BY <1>1, <1>3, <2>1, <2>2, <2>3, <2>4 DEF Shrinking
<1>4. QED
    BY <1>1, <1>2, <1>3, StepDoes

\* A removal starts with nothing taken away.
LEMMA ShrinkingStart ==
    ASSUME NEW p0 \in Pools, NEW now \in Clock, NEW calls \in Seq(CallSet)
    PROVE  Work(p0, calls) \in Shrinking(p0, now)
BY DEF Shrinking, Shrunk, SameCounters, Work, Works
-----------------------------------------------------------------------------
(***************************************************************************)
(* What the other operations do to a pool, field by field.                 *)
(***************************************************************************)
SameHeld(p, q) ==
    /\ q.seen = p.seen /\ q.full = p.full /\ q.outs = p.outs /\ q.dspends = p.dspends
    /\ q.dsByOut = p.dsByOut /\ q.byTime = p.byTime

\* add_seen, field by field.
LEMMA AddSeenFields ==
    ASSUME NEW p \in Pools, NEW id \in Id
    PROVE  LET q == AddSeen(p, id) IN
           /\ q \in Pools /\ SameCounters(p, q) /\ SameOutpoints(p, q) /\ SameForgotten(p, q)
           /\ q.seen = p.seen \cup {id} /\ q.full = p.full /\ q.tasks = p.tasks
           /\ q.byTime = p.byTime /\ q.dspends = p.dspends
<1> DEFINE q == AddSeen(p, id)
<1>1. p \in Entries /\ Indexed(p)
    BY DEF Pools
<1>2. /\ q \in Entries /\ SameCounters(p, q) /\ SameOutpoints(p, q) /\ SameForgotten(p, q)
      /\ q.seen = p.seen \cup {id} /\ q.full = p.full /\ q.tasks = p.tasks
      /\ q.byTime = p.byTime /\ q.dspends = p.dspends
    BY <1>1 DEF AddSeen, Entries, SameCounters, SameOutpoints, SameForgotten
<1> HIDE DEF q
<1>3. q \in Pools
    BY <1>1, <1>2 DEF Pools, Indexed, SameOutpoints
<1>4. QED
    BY <1>2, <1>3 DEF q

\* A transaction that is held, or recorded as a double spend.
HeldNow(p, q, t, now) ==
    /\ \A o \in Spends[t] : p.outs[o] = {}
    /\ SameCounters(p, q) /\ SameForgotten(p, q)
    /\ q.dspends = p.dspends /\ q.dsByOut = p.dsByOut
    /\ q.outs = Hold(p.outs, t) /\ q.byTime = [p.byTime EXCEPT ![now] = p.byTime[now] \cup {WId[t]}]
    /\ q.seen = p.seen \ {WId[t]} /\ q.full = p.full \cup {WId[t]}
    /\ q.tasks = Append(p.tasks, <<"add", Size[t]>>)

DoubleNow(p, q, t) ==
    /\ SameCounters(p, q) /\ SameForgotten(p, q)
    /\ q.dspends = p.dspends \cup {WId[t]} /\ q.dsByOut = Hold(p.dsByOut, t)
    /\ q.outs = p.outs /\ q.byTime = p.byTime /\ q.tasks = p.tasks
    /\ q.seen = p.seen \ {WId[t]} /\ q.full = p.full \ {WId[t]}

\* Who holds the outpoints, after an addition.
LEMMA HoldType ==
    ASSUME NEW d \in [Outpoint -> SUBSET WIds], NEW t \in Tx
    PROVE  /\ Hold(d, t) \in [Outpoint -> SUBSET WIds]
           /\ \A o \in Outpoint : Hold(d, t)[o] = IF o \in Spends[t] THEN d[o] \cup {WId[t]} ELSE d[o]
BY IdFacts DEF Hold

\* add_transaction holds the data, or files a double spend.
LEMMA AddFields ==
    ASSUME NEW p \in Pools, NEW t \in Tx, NEW now \in Clock
    PROVE  LET q == AddTransaction(p, t, now) IN
           q \in Pools /\ (HeldNow(p, q, t, now) \/ DoubleNow(p, q, t))
<1> DEFINE q == AddTransaction(p, t, now)
           id == WId[t]
<1>1. p \in Entries /\ Indexed(p) /\ id \in WIds
    BY IdFacts DEF Pools
<1>2. Outpoints(id) = Spends[t] /\ Spends[t] \subseteq Outpoint /\ Size[t] \in Int
    BY IdFacts, MempoolAssumption
<1>3. CASE \E o \in Spends[t] : p.outs[o] # {}
    <2> DEFINE ds == Hold(p.dsByOut, t)
    <2>1. ds \in [Outpoint -> SUBSET WIds]
        BY <1>1, HoldType DEF Entries
    <2>2. q = [p EXCEPT !.dspends = @ \cup {id}, !.dsByOut = ds, !.seen = @ \ {id}, !.full = @ \ {id}]
        BY <1>3 DEF AddTransaction
    <2> HIDE DEF q, id, ds
    <2>3. /\ q \in Entries /\ SameCounters(p, q) /\ SameForgotten(p, q)
          /\ q.dspends = p.dspends \cup {id} /\ q.dsByOut = ds
          /\ q.outs = p.outs /\ q.byTime = p.byTime /\ q.tasks = p.tasks
          /\ q.seen = p.seen \ {id} /\ q.full = p.full \ {id}
        BY <1>1, <2>1, <2>2 DEF Entries, SameCounters, SameForgotten
    <2>4. q \in Pools
        <3>1. \A o \in Outpoint : ds[o] = IF o \in Spends[t] THEN p.dsByOut[o] \cup {id} ELSE p.dsByOut[o]
            BY <1>1, HoldType DEF Entries, ds, id
        <3>2. ASSUME NEW o \in Outpoint PROVE \A i \in q.outs[o] \cup q.dsByOut[o] : o \in Outpoints(i)
            <4>1. q.outs[o] = p.outs[o] /\ q.dsByOut[o] \subseteq p.dsByOut[o] \cup (IF o \in Spends[t] THEN {id} ELSE {})
                BY <2>3, <3>1
            <4>2. \A i \in p.outs[o] \cup p.dsByOut[o] : o \in Outpoints(i)
                BY <1>1 DEF Indexed
            <4> HIDE DEF Outpoints
            <4>3. QED
                BY ONLY <4>1, <4>2, <1>2
        <3>3. \A o \in Outpoint : \A i, j \in q.outs[o] : i = j
            BY <1>1, <2>3 DEF Indexed
        <3>4. QED
            BY <2>3, <3>2, <3>3 DEF Pools, Indexed
    <2>5. QED
        BY <2>3, <2>4 DEF DoubleNow, q, id, ds
<1>4. CASE ~\E o \in Spends[t] : p.outs[o] # {}
    <2> DEFINE held == Hold(p.outs, t)
               at == Record(p.byTime, now, {id})
               g == [p EXCEPT !.outs = held, !.seen = @ \ {id}, !.full = @ \cup {id}, !.byTime = at]
               more == Append(g.tasks, <<"add", Size[t]>>)
    <2>1. held \in [Outpoint -> SUBSET WIds]
        BY <1>1, HoldType DEF Entries
    <2>2. at \in [Clock -> SUBSET WIds] /\ at = [p.byTime EXCEPT ![now] = p.byTime[now] \cup {id}]
        BY <1>1 DEF Record, Entries
    <2>3. q = [g EXCEPT !.tasks = more]
        BY <1>4 DEF AddTransaction, Admit, CreateTask
    <2> HIDE DEF q, id, held, at, more
    <2>4. /\ g \in Entries /\ SameCounters(p, g) /\ SameForgotten(p, g)
          /\ g.dspends = p.dspends /\ g.dsByOut = p.dsByOut
          /\ g.outs = held /\ g.byTime = at /\ g.tasks = p.tasks
          /\ g.seen = p.seen \ {id} /\ g.full = p.full \cup {id}
        BY <1>1, <2>1, <2>2 DEF Entries, SameCounters, SameForgotten
    <2> HIDE DEF g
    <2>5. more \in Seq(Task)
        <3>1. <<"add", Size[t]>> \in Task
            BY <1>2 DEF Task
        <3>2. QED
            BY <2>4, <3>1 DEF more, Entries
    <2>6. /\ q \in Entries /\ SameCounters(g, q) /\ SameForgotten(g, q) /\ SameHeld(g, q)
          /\ q.tasks = more
        BY <2>3, <2>4, <2>5 DEF Entries, SameCounters, SameForgotten, SameHeld
    <2>7. q \in Pools
        <3>1. \A o \in Outpoint : held[o] = IF o \in Spends[t] THEN p.outs[o] \cup {id} ELSE p.outs[o]
            BY <1>1, HoldType DEF Entries, held, id
        <3>2. \A o \in Spends[t] : p.outs[o] = {}
            BY <1>4
        <3>3. q.outs = held /\ q.dsByOut = p.dsByOut
            BY <2>4, <2>6 DEF SameHeld
        <3>4. ASSUME NEW o \in Outpoint PROVE /\ \A i \in q.outs[o] \cup q.dsByOut[o] : o \in Outpoints(i)
                                              /\ \A i, j \in q.outs[o] : i = j
            <4>1. q.outs[o] = (IF o \in Spends[t] THEN {id} ELSE p.outs[o]) /\ q.dsByOut[o] = p.dsByOut[o]
                BY <3>1, <3>2, <3>3
            <4>2. /\ \A i \in p.outs[o] \cup p.dsByOut[o] : o \in Outpoints(i)
                  /\ \A i, j \in p.outs[o] : i = j
                BY <1>1 DEF Indexed
            <4>3. QED
                BY ONLY <4>1, <4>2, <1>2
        <3>5. QED
            BY <2>6, <3>4 DEF Pools, Indexed
    <2>8. HeldNow(p, q, t, now)
        BY <1>4, <2>2, <2>4, <2>6 DEF HeldNow, SameCounters, SameForgotten, SameHeld, id, held, more
    <2>9. QED
        BY <2>7, <2>8 DEF q
<1>5. QED
    BY <1>3, <1>4

ForgetsNow(p, q, ids, now) ==
    /\ SameCounters(p, q) /\ SameHeld(p, q) /\ q.tasks = p.tasks
    /\ q.forget = p.forget \cup ids /\ q.forgetAt[now] = p.forgetAt[now] \cup ids
    /\ \A k \in Clock : k # now => q.forgetAt[k] = p.forgetAt[k]

\* Forgetting ids leaves a pool, also when it has a name of its own.
LEMMA ForgetIsPool ==
    ASSUME NEW p \in Pools, NEW ids \in SUBSET Id, NEW now \in Clock, NEW q, q = Forget(p, ids, now)
    PROVE  q \in Pools /\ ForgetsNow(p, q, ids, now)
<1>1. q \in Pools /\ ForgetsAll(p, q, ids, now) /\ p.forgetAt \in [Clock -> SUBSET Id]
    BY ForgetFields DEF Pools, Entries, Dated
<1>2. QED
    BY <1>1 DEF ForgetsAll, ForgetsNow, SameEntries, SameOutpoints, SameHeld

\* Only the tasks change.
LEMMA TasksFields ==
    ASSUME NEW p \in Pools, NEW tasks \in Seq(Task), NEW q, q = [p EXCEPT !.tasks = tasks]
    PROVE  /\ q \in Pools /\ SameCounters(p, q) /\ SameHeld(p, q) /\ SameForgotten(p, q)
           /\ q.tasks = tasks
<1>1. p \in Entries /\ Indexed(p)
    BY DEF Pools
<1>2. /\ q \in Entries /\ SameCounters(p, q) /\ SameHeld(p, q) /\ SameForgotten(p, q)
      /\ q.tasks = tasks
    BY <1>1 DEF Entries, SameCounters, SameHeld, SameForgotten
<1>3. QED
    BY <1>1, <1>2 DEF Pools, Indexed, SameHeld

\* A projection counts, and may create the tasks of the clean-ups.
Projects(p, q, sign, size) ==
    /\ SameHeld(p, q) /\ SameForgotten(p, q) /\ q.lastForgetClean = p.lastForgetClean
    /\ q.count = p.count + sign /\ q.bytes = p.bytes + sign * size
    /\ \/ q.cleanLock = p.cleanLock /\ q.tasks \in {p.tasks, Append(p.tasks, <<"forget", 0>>)}
       \/ /\ ~p.cleanLock /\ q.cleanLock
          /\ q.tasks \in {Append(p.tasks, <<"clean", 0>>),
                          Append(Append(p.tasks, <<"clean", 0>>), <<"forget", 0>>)}

\* _project_transaction, field by field.
LEMMA ProjectFields ==
    ASSUME NEW p \in Pools, NEW sign \in {1, -1}, NEW size \in Int, NEW now \in Clock
    PROVE  Project(p, sign, size, now) \in Pools /\ Projects(p, Project(p, sign, size, now), sign, size)
<1> DEFINE counted == [p EXCEPT !.count = @ + sign, !.bytes = @ + sign * size]
           starts == sign = 1 /\ counted.bytes > MaxBytes /\ ~counted.cleanLock
           locked == [counted EXCEPT !.cleanLock = TRUE]
           cleaning == IF starts THEN CreateTask(locked, "clean", 0) ELSE counted
           locking == [cleaning EXCEPT !.forgetLock = TRUE]
           q == Project(p, sign, size, now)
<1>0. p \in Entries /\ Indexed(p) /\ sign * size \in Int /\ sign \in Int
    BY DEF Pools
<1> DEFINE amount == sign * size
<1>1. /\ counted \in Entries /\ SameHeld(p, counted) /\ SameForgotten(p, counted)
      /\ counted.lastForgetClean = p.lastForgetClean /\ counted.tasks = p.tasks
      /\ counted.count = p.count + sign /\ counted.bytes = p.bytes + amount
      /\ counted.cleanLock = p.cleanLock
    <2>1. amount \in Int
        BY <1>0
    <2> DEFINE ncount == p.count + sign
               nbytes == p.bytes + amount
    <2>2. ncount \in Int /\ nbytes \in Int
        BY <1>0, <2>1 DEF Entries
    <2>3. counted = [p EXCEPT !.count = ncount, !.bytes = nbytes]
        OBVIOUS
    <2> HIDE DEF amount, counted, ncount, nbytes
    <2>4. /\ counted \in Entries /\ SameHeld(p, counted) /\ SameForgotten(p, counted)
          /\ counted.lastForgetClean = p.lastForgetClean /\ counted.tasks = p.tasks
          /\ counted.count = ncount /\ counted.bytes = nbytes
          /\ counted.cleanLock = p.cleanLock
        BY <1>0, <2>2, <2>3 DEF Entries, SameHeld, SameForgotten
    <2>5. QED
        BY <2>4 DEF ncount, nbytes
<1> HIDE DEF counted
<1>2. /\ locked \in Entries /\ SameHeld(counted, locked) /\ SameForgotten(counted, locked)
      /\ locked.lastForgetClean = counted.lastForgetClean /\ locked.tasks = counted.tasks
      /\ locked.count = counted.count /\ locked.bytes = counted.bytes /\ locked.cleanLock = TRUE
    BY <1>1 DEF Entries, SameHeld, SameForgotten
<1> HIDE DEF locked
<1>3. ASSUME NEW r \in Entries, NEW kind \in {"clean", "forget"}, NEW s, s = CreateTask(r, kind, 0)
      PROVE  /\ s \in Entries /\ SameHeld(r, s) /\ SameForgotten(r, s)
             /\ s.lastForgetClean = r.lastForgetClean /\ s.tasks = Append(r.tasks, <<kind, 0>>)
             /\ s.count = r.count /\ s.bytes = r.bytes /\ s.cleanLock = r.cleanLock
    <2> DEFINE more == Append(r.tasks, <<kind, 0>>)
    <2>1. more \in Seq(Task) /\ s = [r EXCEPT !.tasks = more]
        <3>1. <<kind, 0>> \in Task
            BY DEF Task
        <3>2. QED
            BY <1>3, <3>1 DEF Entries, CreateTask
    <2> HIDE DEF more
    <2>2. /\ s \in Entries /\ SameHeld(r, s) /\ SameForgotten(r, s)
          /\ s.lastForgetClean = r.lastForgetClean /\ s.tasks = more
          /\ s.count = r.count /\ s.bytes = r.bytes /\ s.cleanLock = r.cleanLock
        BY <2>1 DEF Entries, SameHeld, SameForgotten
    <2>3. QED
        BY <2>2 DEF more
<1>4. /\ cleaning \in Entries /\ SameHeld(p, cleaning) /\ SameForgotten(p, cleaning)
      /\ cleaning.lastForgetClean = p.lastForgetClean
      /\ cleaning.count = p.count + sign /\ cleaning.bytes = p.bytes + amount
      /\ \/ cleaning.cleanLock = p.cleanLock /\ cleaning.tasks = p.tasks
         \/ /\ ~p.cleanLock /\ cleaning.cleanLock
            /\ cleaning.tasks = Append(p.tasks, <<"clean", 0>>)
    <2>1. CASE ~starts
        BY <1>1, <2>1
    <2>2. CASE starts
        <3> DEFINE s == CreateTask(locked, "clean", 0)
        <3>1. cleaning = s /\ ~p.cleanLock
            BY <1>1, <2>2
        <3> HIDE DEF starts, amount
        <3>2. /\ s \in Entries /\ SameHeld(locked, s) /\ SameForgotten(locked, s)
              /\ s.lastForgetClean = locked.lastForgetClean /\ s.tasks = Append(locked.tasks, <<"clean", 0>>)
              /\ s.count = locked.count /\ s.bytes = locked.bytes /\ s.cleanLock = locked.cleanLock
            BY <1>2, <1>3
        <3> HIDE DEF s, cleaning
        <3>3. QED
            BY <1>1, <1>2, <3>1, <3>2 DEF SameHeld, SameForgotten
    <2>3. QED
        BY <2>1, <2>2
<1> HIDE DEF cleaning, amount
<1>5. /\ locking \in Entries /\ SameHeld(cleaning, locking) /\ SameForgotten(cleaning, locking)
      /\ locking.lastForgetClean = cleaning.lastForgetClean /\ locking.tasks = cleaning.tasks
      /\ locking.count = cleaning.count /\ locking.bytes = cleaning.bytes
      /\ locking.cleanLock = cleaning.cleanLock
    BY <1>4 DEF Entries, SameHeld, SameForgotten
<1>6. q = cleaning \/ q = locking \/ q = CreateTask(locking, "forget", 0)
    BY DEF Project, cleaning, locked, counted, amount
<1> HIDE DEF locking, q
<1>7. /\ q \in Entries /\ SameHeld(p, q) /\ SameForgotten(p, q)
      /\ q.lastForgetClean = p.lastForgetClean /\ q.cleanLock = cleaning.cleanLock
      /\ q.count = p.count + sign /\ q.bytes = p.bytes + amount
      /\ q.tasks \in {cleaning.tasks, Append(cleaning.tasks, <<"forget", 0>>)}
    <2>1. CASE q = cleaning
        BY <1>4, <2>1
    <2>2. CASE q = locking
        BY <1>4, <1>5, <2>2 DEF SameHeld, SameForgotten
    <2>3. CASE q = CreateTask(locking, "forget", 0)
        <3>1. /\ q \in Entries /\ SameHeld(locking, q) /\ SameForgotten(locking, q)
              /\ q.lastForgetClean = locking.lastForgetClean
              /\ q.tasks = Append(locking.tasks, <<"forget", 0>>)
              /\ q.count = locking.count /\ q.bytes = locking.bytes /\ q.cleanLock = locking.cleanLock
            BY <1>3, <1>5, <2>3
        <3>2. QED
            BY <1>4, <1>5, <3>1 DEF SameHeld, SameForgotten
    <2>4. QED
        BY <1>6, <2>1, <2>2, <2>3
<1>8. q \in Pools
    BY <1>0, <1>7 DEF Pools, Indexed, SameHeld
<1>9. Projects(p, q, sign, size)
    BY <1>4, <1>7 DEF Projects, amount
<1>10. QED
    BY <1>8, <1>9 DEF q

\* The clean-up of the forget pool takes one entry, of an earlier time, or none.
CleansForget(p, q, now) ==
    /\ SameHeld(p, q) /\ q.count = p.count /\ q.bytes = p.bytes /\ q.cleanLock = p.cleanLock
    /\ q.tasks = p.tasks /\ q.lastForgetClean \in {p.lastForgetClean, now}
    /\ \/ SameForgotten(p, q)
       \/ \E key \in Clock : /\ key < now /\ q.forget = p.forget \ p.forgetAt[key]
                             /\ q.forgetAt = [p.forgetAt EXCEPT ![key] = {}]

\* _clean_forget_pool, field by field.
LEMMA CleanForgetFields ==
    ASSUME NEW p \in Pools, NEW now \in Clock
    PROVE  CleanForgetPool(p, now) \in Pools /\ CleansForget(p, CleanForgetPool(p, now), now)
<1> DEFINE key == OldestKey(p.forgetAt)
           rest == Put(p.forgetAt, key, {})
           free == [p EXCEPT !.forgetLock = FALSE]
           last == IF rest = Undated THEN now ELSE free.lastForgetClean
           q == CleanForgetPool(p, now)
<1>1. p \in Entries /\ Indexed(p) /\ key \in Clock /\ now \in Int
    BY OldestIsATime, MempoolAssumption DEF Pools, Clock
<1>2. /\ free \in Entries /\ SameHeld(p, free) /\ SameForgotten(p, free) /\ free.count = p.count
      /\ free.bytes = p.bytes /\ free.cleanLock = p.cleanLock /\ free.tasks = p.tasks
      /\ free.lastForgetClean = p.lastForgetClean
    BY <1>1 DEF Entries, SameHeld, SameForgotten
<1>3. rest \in Dated /\ rest = [p.forgetAt EXCEPT ![key] = {}]
    BY <1>1 DEF Entries, Dated, Put
<1>4. last \in Int /\ last \in {p.lastForgetClean, now}
    BY <1>1, <1>2 DEF Entries
<1>5. \/ q = [free EXCEPT !.lastForgetClean = now]
      \/ /\ key < now
         /\ q = [free EXCEPT !.forget = @ \ p.forgetAt[key], !.forgetAt = rest, !.lastForgetClean = last]
    <2>1. key \in Int
        BY <1>1, MempoolAssumption DEF Clock
    <2> HIDE DEF key, rest, free
    <2>2. key >= now \/ key < now
        BY <1>1, <2>1
    <2>3. QED
        BY <2>1, <2>2, <1>1 DEF CleanForgetPool, key, rest, free
<1> HIDE DEF key, rest, free, last, q
<1>6. CASE q = [free EXCEPT !.lastForgetClean = now]
    <2>1. /\ q \in Entries /\ SameHeld(free, q) /\ SameForgotten(free, q) /\ q.count = free.count
          /\ q.bytes = free.bytes /\ q.cleanLock = free.cleanLock /\ q.tasks = free.tasks
          /\ q.lastForgetClean = now
        BY <1>1, <1>2, <1>6 DEF Entries, SameHeld, SameForgotten
    <2>2. q \in Pools
        BY <1>1, <1>2, <2>1 DEF Pools, Indexed, SameHeld
    <2>3. QED
        BY <1>2, <2>1, <2>2 DEF CleansForget, SameHeld, SameForgotten, q
<1>7. CASE /\ key < now
           /\ q = [free EXCEPT !.forget = @ \ p.forgetAt[key], !.forgetAt = rest, !.lastForgetClean = last]
    <2>1. /\ q \in Entries /\ SameHeld(free, q) /\ q.forget = free.forget \ p.forgetAt[key]
          /\ q.forgetAt = rest /\ q.count = free.count
          /\ q.bytes = free.bytes /\ q.cleanLock = free.cleanLock /\ q.tasks = free.tasks
          /\ q.lastForgetClean = last
        BY <1>2, <1>3, <1>4, <1>7 DEF Entries, SameHeld
    <2>2. q \in Pools
        BY <1>1, <1>2, <2>1 DEF Pools, Indexed, SameHeld
    <2>3. QED
        BY <1>1, <1>2, <1>3, <1>4, <1>7, <2>1, <2>2 DEF CleansForget, SameHeld, SameForgotten, q
<1>8. QED
    BY <1>5, <1>6, <1>7
-----------------------------------------------------------------------------
(***************************************************************************)
(* The removals of a block and of a clean-up, from their first call.       *)
(***************************************************************************)
Named(txs) == {WId[t] : t \in txs} \cup {Txid[t] : t \in txs}

\* The stack has a call for each of ids, and no other.
AllMined(w, ids) ==
    /\ \A k \in 1..Len(w.todo) : \E x \in ids : Deep(w, k) = <<"mined", x, 0>>
    /\ \A x \in ids : \E k \in 1..Len(w.todo) : Deep(w, k) = <<"mined", x, 0>>

BlockStarts(w, p, txs, now) ==
    w.pool = Forget(p, Named(txs), now) /\ w.raised = "no" /\ AllMined(w, Named(txs))

CleanStarts(w, p) ==
    w.pool = p /\ w.raised = "no" /\ Len(w.todo) = 1 /\ Deep(w, 1) = <<"clean", 0, 0>>

\* The removals of a block end in any closed set that their starts are in.
LEMMA BlockRun ==
    ASSUME NEW p \in Pools, NEW txs \in SUBSET Tx, NEW now \in Clock, NEW W,
           \A w \in Works : BlockStarts(w, p, txs, now) => w \in W,
           \A w \in W : Step(w, now) \subseteq W
    PROVE  OnNewBlock(p, txs, now) \subseteq {w \in W : w.todo = <<>>}
<1> DEFINE ws == {WId[t] : t \in txs}
           hs == {Txid[t] : t \in txs}
           q == Forget(p, ws \cup hs, now)
           lists == {c \o d : c \in Calls("mined", ws, 0), d \in Calls("mined", hs, 0)}
<1>1. ws \in SUBSET Id /\ hs \in SUBSET Id /\ Named(txs) = ws \cup hs /\ OnNewBlock(p, txs, now) = Run(q, lists, now)
    BY IdFacts DEF Named, OnNewBlock
<1>2. q \in Pools
    <2> DEFINE ids == ws \cup hs
    <2>1. ids \in SUBSET Id
        BY <1>1
    <2> HIDE DEF ids
    <2>2. Forget(p, ids, now) \in Pools
        BY <2>1, ForgetFields
    <2>3. QED
        BY <2>2 DEF ids
<1>3. IsFiniteSet(ws) /\ IsFiniteSet(hs)
    BY <1>1, IdFacts, FS_Subset
<1>4. \A x \in ws \cup hs : <<"mined", x, 0>> \in CallSet
    BY <1>1 DEF CallSet, Arg
<1> HIDE DEF ws, hs, q
<1>5. ASSUME NEW c \in Calls("mined", ws, 0), NEW d \in Calls("mined", hs, 0)
      PROVE  Work(q, c \o d) \in W
    <2>1. c \in Seq(CallSet) /\ Lists(c, "mined", ws, 0)
        BY <1>3, <1>4, CallsList
    <2>2. d \in Seq(CallSet) /\ Lists(d, "mined", hs, 0)
        BY <1>3, <1>4, CallsList
    <2> DEFINE e == c \o d
               w == Work(q, e)
    <2>3. /\ e \in Seq(CallSet) /\ Len(e) = Len(c) + Len(d) /\ Len(c) \in Nat /\ Len(d) \in Nat
          /\ \A i \in 1..Len(e) : e[i] = IF i <= Len(c) THEN c[i] ELSE d[i - Len(c)]
        BY <2>1, <2>2, ConcatProperties
    <2>4. /\ \A i \in 1..Len(c) : \E x \in ws : c[i] = <<"mined", x, 0>>
          /\ \A x \in ws : \E i \in 1..Len(c) : c[i] = <<"mined", x, 0>>
          /\ \A i \in 1..Len(d) : \E x \in hs : d[i] = <<"mined", x, 0>>
          /\ \A x \in hs : \E i \in 1..Len(d) : d[i] = <<"mined", x, 0>>
        BY <2>1, <2>2 DEF Lists
    <2> HIDE DEF e
    <2>5. w \in Works /\ w.pool = q /\ w.raised = "no" /\ w.todo = e
        BY <1>2, <2>3 DEF Work, Works
    <2> HIDE DEF w
    <2>6. \A i \in 1..Len(e) : \E x \in ws \cup hs : e[i] = <<"mined", x, 0>>
        <3> TAKE i \in 1..Len(e)
        <3>1. CASE i <= Len(c)
            <4>1. i \in 1..Len(c) /\ e[i] = c[i]
                BY <2>3, <3>1
            <4>2. PICK x \in ws : c[i] = <<"mined", x, 0>>
                BY <2>4, <4>1
            <4>3. QED
                BY <4>1, <4>2
        <3>2. CASE i > Len(c)
            <4>1. i - Len(c) \in 1..Len(d) /\ e[i] = d[i - Len(c)]
                BY <2>3, <3>2
            <4>2. PICK x \in hs : d[i - Len(c)] = <<"mined", x, 0>>
                BY <2>4, <4>1
            <4>3. QED
                BY <4>1, <4>2
        <3>3. QED
            BY <2>3, <3>1, <3>2
    <2>7. \A x \in ws \cup hs : \E i \in 1..Len(e) : e[i] = <<"mined", x, 0>>
        <3> TAKE x \in ws \cup hs
        <3>1. CASE x \in ws
            BY <2>3, <2>4, <3>1
        <3>2. CASE x \in hs
            <4>1. PICK j \in 1..Len(d) : d[j] = <<"mined", x, 0>>
                BY <2>4, <3>2
            <4>2. Len(c) + j \in 1..Len(e) /\ ~(Len(c) + j <= Len(c)) /\ (Len(c) + j) - Len(c) = j
                BY <2>3
            <4>3. QED
                BY <2>3, <4>1, <4>2
        <3>3. QED
            BY <3>1, <3>2
    <2>8. AllMined(w, ws \cup hs)
        <3>1. \A k \in 1..Len(e) : Deep(w, k) = e[Len(e) + 1 - k] /\ Len(e) + 1 - k \in 1..Len(e)
                                   /\ Len(e) + 1 - (Len(e) + 1 - k) = k
            BY <2>3, <2>5 DEF Deep
        <3>2. \A k \in 1..Len(e) : \E x \in ws \cup hs : Deep(w, k) = <<"mined", x, 0>>
            <4> TAKE k \in 1..Len(e)
            <4>1. PICK x \in ws \cup hs : e[Len(e) + 1 - k] = <<"mined", x, 0>>
                BY <2>6, <3>1
            <4>2. QED
                BY <3>1, <4>1
        <3>3. \A x \in ws \cup hs : \E k \in 1..Len(e) : Deep(w, k) = <<"mined", x, 0>>
            <4> TAKE x \in ws \cup hs
            <4>1. PICK i \in 1..Len(e) : e[i] = <<"mined", x, 0>>
                BY <2>7
            <4>2. Len(e) + 1 - i \in 1..Len(e) /\ Deep(w, Len(e) + 1 - i) = e[i]
                BY <3>1
            <4>3. QED
                BY <4>1, <4>2
        <3>4. QED
            BY <2>5, <3>2, <3>3 DEF AllMined
    <2>9. w \in W
        BY <1>1, <2>5, <2>8 DEF q, BlockStarts
    <2>10. QED
        BY <2>9 DEF w, e
<1>6. \A calls \in lists : Work(q, calls) \in W
    <2> TAKE calls \in lists
    <2>1. PICK c \in Calls("mined", ws, 0), d \in Calls("mined", hs, 0) : calls = c \o d
        OBVIOUS
    <2>2. Work(q, c \o d) \in W
        BY <1>5
    <2>3. QED
        BY <2>1, <2>2
<1> HIDE DEF lists
<1>7. Run(q, lists, now) \subseteq {w \in W : w.todo = <<>>}
    BY <1>6, RunStays
<1>8. QED
    BY <1>1, <1>7

\* A clean-up ends a removal and gives its lock back.
Unlocks(p, q) ==
    /\ SameHeld(p, q) /\ SameForgotten(p, q) /\ q.lastForgetClean = p.lastForgetClean
    /\ q.count = p.count /\ q.bytes = p.bytes /\ q.tasks = p.tasks /\ ~q.cleanLock

\* So do the removals of a clean-up, which then gives its lock back.
LEMMA CleanRun ==
    ASSUME NEW p \in Pools, NEW now \in Clock, NEW W \in SUBSET Works,
           \A w \in Works : CleanStarts(w, p) => w \in W,
           \A w \in W : Step(w, now) \subseteq W
    PROVE  \A v \in CleanMempool(p, now) :
              \E w \in W : /\ w.todo = <<>> /\ v.raised = w.raised
                           /\ v.pool \in Pools /\ Unlocks(w.pool, v.pool)
<1> DEFINE call == <<"clean", 0, 0>>
           lists == {<<call>>}
<1>1. call \in CallSet
    BY DEF CallSet, Arg
<1>2. \A calls \in lists : Work(p, calls) \in W
    <2> HIDE DEF call
    <2>1. <<call>> \in Seq(CallSet) /\ Len(<<call>>) = 1 /\ <<call>>[1] = call
        BY <1>1
    <2> DEFINE one == <<call>>
               w == Work(p, one)
    <2> HIDE DEF one
    <2>2. w \in Works /\ w.pool = p /\ w.raised = "no" /\ w.todo = one
        BY <2>1 DEF Work, Works, one
    <2>3. Len(one) = 1 /\ one[1] = call
        BY DEF one
    <2>4. Len(w.todo) = 1 /\ Deep(w, 1) = call
        BY <2>2, <2>3 DEF Deep
    <2> HIDE DEF w
    <2>5. w \in W
        BY <2>2, <2>4 DEF call, CleanStarts
    <2>6. QED
        BY <2>5 DEF w, one
<1> HIDE DEF lists
<1>3. Run(p, lists, now) \subseteq {w \in W : w.todo = <<>>}
    BY <1>2, RunStays
<1>4. ASSUME NEW v \in CleanMempool(p, now)
      PROVE  \E w \in W : /\ w.todo = <<>> /\ v.raised = w.raised
                          /\ v.pool \in Pools /\ Unlocks(w.pool, v.pool)
    <2>1. PICK w \in Run(p, lists, now) : v = [w EXCEPT !.pool = [@ EXCEPT !.cleanLock = FALSE]]
        BY DEF CleanMempool, lists, call
    <2>2. w \in W /\ w \in Works /\ w.todo = <<>>
        BY <1>3, <2>1
    <2> DEFINE r == w.pool
               q == [r EXCEPT !.cleanLock = FALSE]
    <2>3. v.pool = q /\ v.raised = w.raised
        BY <2>1, <2>2 DEF Works
    <2>4. r \in Entries /\ Indexed(r)
        BY <2>2 DEF Works, Pools
    <2> HIDE DEF r
    <2>5. q \in Entries /\ Unlocks(r, q)
        BY <2>4 DEF Entries, Unlocks, SameHeld, SameForgotten
    <2> HIDE DEF q
    <2>6. q \in Pools
        BY <2>4, <2>5 DEF Pools, Indexed, Unlocks, SameHeld
    <2>7. QED
        BY <2>2, <2>3, <2>5, <2>6 DEF r
<1>5. QED
    BY <1>4

\* The set of works that a removal from p0 can be in, when nothing more is asked of them.
LEMMA ShrinkingCloses ==
    ASSUME NEW p0, NEW now \in Clock
    PROVE  \A w \in Shrinking(p0, now) : Step(w, now) \subseteq Shrinking(p0, now)
BY ShrinkingStep
-----------------------------------------------------------------------------
(***************************************************************************)
(* The types of the observer's state.                                      *)
(***************************************************************************)
TypeInv ==
    /\ pool \in Pools /\ pool.seen \cap pool.full = {}
    /\ clock \in Clock /\ pool.lastForgetClean \in 0..clock
    /\ asked \subseteq Tx /\ loose \subseteq Tx /\ torn \in BOOLEAN /\ again \in BOOLEAN
    /\ job \in [Index -> JobStates] /\ tries \in [Index -> 0..MaxTries + 1]
    /\ minedAt \in Seq(Clock) /\ Len(minedAt) <= Len(Blocks)

\* The blocks, and what is in them.
LEMMA IndexFacts ==
    /\ Len(Blocks) \in Nat /\ Index = 1..Len(Blocks) /\ MaxTries \in Nat
    /\ \A i \in Index : Blocks[i] \in SUBSET Tx
    /\ \A i, j \in Index : i # j => Blocks[i] \cap Blocks[j] = {}
BY ObserverAssumption DEF Index

\* The first task leaves the list, and nothing else changes.
TakesFirst(p, r, task) ==
    /\ p.tasks # <<>> /\ task = Head(p.tasks) /\ r.tasks = Tail(p.tasks)
    /\ SameCounters(p, r) /\ SameHeld(p, r) /\ SameForgotten(p, r)

Runs(task, rest) ==
    \/ /\ task[1] = "add" /\ UNCHANGED torn
       /\ pool' = Project(rest, 1, task[2], clock) /\ Projects(rest, pool', 1, task[2])
    \/ /\ task[1] = "sub" /\ UNCHANGED torn
       /\ pool' = Project(rest, -1, task[2], clock) /\ Projects(rest, pool', -1, task[2])
    \/ task[1] = "forget" /\ UNCHANGED torn /\ CleansForget(rest, pool', clock)
    \/ /\ task[1] = "clean"
       /\ \E work \in CleanMempool(rest, clock) :
            pool' = work.pool /\ torn' = (torn \/ work.raised = "KeyError")

\* The first task runs, on a pool that no longer has it.
LEMMA TaskRuns ==
    ASSUME pool \in Pools, clock \in Clock, RunTask
    PROVE  \E task \in Task, rest \in Pools :
              /\ TakesFirst(pool, rest, task) /\ Runs(task, rest)
              /\ task[1] # "clean" => pool' \in Pools
<1> DEFINE task == Head(pool.tasks)
           left == Tail(pool.tasks)
           rest == [pool EXCEPT !.tasks = left]
<1>1. pool.tasks \in Seq(Task) /\ pool.tasks # <<>>
    BY DEF RunTask, Pools, Entries
<1>2. task \in Task /\ left \in Seq(Task)
    BY <1>1
<1>3. rest \in Pools /\ TakesFirst(pool, rest, task)
    <2> DEFINE q == rest
    <2> HIDE DEF left
    <2>1. q = [pool EXCEPT !.tasks = left]
        OBVIOUS
    <2> HIDE DEF q
    <2>2. q \in Pools /\ SameCounters(pool, q) /\ SameHeld(pool, q) /\ SameForgotten(pool, q)
          /\ q.tasks = left
        BY <1>2, <2>1, TasksFields
    <2>3. QED
        BY <1>1, <2>2 DEF q, TakesFirst, left
<1>4. CASE /\ task[1] = "add" /\ UNCHANGED torn /\ pool' = Project(rest, 1, task[2], clock)
    <2> HIDE DEF task, rest
    <2>1. task[2] \in Int
        BY <1>2 DEF Task
    <2>2. pool' \in Pools /\ Projects(rest, pool', 1, task[2])
        BY <1>3, <1>4, <2>1, ProjectFields
    <2>3. QED
        BY <1>2, <1>3, <1>4, <2>2 DEF Runs
<1>5. CASE /\ task[1] = "sub" /\ UNCHANGED torn /\ pool' = Project(rest, -1, task[2], clock)
    <2> HIDE DEF task, rest
    <2>1. task[2] \in Int
        BY <1>2 DEF Task
    <2>2. pool' \in Pools /\ Projects(rest, pool', -1, task[2])
        BY <1>3, <1>5, <2>1, ProjectFields
    <2>3. QED
        BY <1>2, <1>3, <1>5, <2>2 DEF Runs
<1>6. CASE /\ task[1] = "forget" /\ UNCHANGED torn /\ pool' = CleanForgetPool(rest, clock)
    <2> HIDE DEF task, rest
    <2>1. pool' \in Pools /\ CleansForget(rest, pool', clock)
        BY <1>3, <1>6, CleanForgetFields
    <2>2. QED
        BY <1>2, <1>3, <1>6, <2>1 DEF Runs
<1>7. CASE /\ task[1] = "clean"
           /\ \E work \in CleanMempool(rest, clock) :
                pool' = work.pool /\ torn' = (torn \/ work.raised = "KeyError")
    <2> HIDE DEF task, rest
    <2>1. QED
        BY <1>2, <1>3, <1>7 DEF Runs
<1>8. QED
    <2>1. task[1] \in {"add", "sub", "clean", "forget"}
        BY <1>2 DEF Task
    <2>2. QED
        BY <1>4, <1>5, <1>6, <1>7, <2>1 DEF RunTask

\* What is true of a pool after the removals of a block or a clean-up.
LEMMA BlockShrinks ==
    ASSUME NEW p \in Pools, NEW txs \in SUBSET Tx, NEW now \in Clock,
           NEW w \in OnNewBlock(p, txs, now)
    PROVE  w \in Shrinking(Forget(p, Named(txs), now), now)
<1> DEFINE p0 == Forget(p, Named(txs), now)
           W == Shrinking(p0, now)
<1>1. \A v \in Works : BlockStarts(v, p, txs, now) => v \in W
    BY DEF BlockStarts, Shrinking, Shrunk, SameCounters
<1>2. \A v \in W : Step(v, now) \subseteq W
    <2> HIDE DEF p0
    <2>1. QED
        BY ShrinkingCloses
<1> HIDE DEF W, p0
<1>3. OnNewBlock(p, txs, now) \subseteq {v \in W : v.todo = <<>>}
    BY <1>1, <1>2, BlockRun
<1>4. QED
    BY <1>3 DEF W, p0

\* A clean-up only takes away.
LEMMA CleanShrinks ==
    ASSUME NEW p \in Pools, NEW now \in Clock, NEW v \in CleanMempool(p, now)
    PROVE  /\ v.pool \in Pools
           /\ \E w \in Shrinking(p, now) : v.raised = w.raised /\ Unlocks(w.pool, v.pool)
<1> DEFINE W == Shrinking(p, now)
<1>1. \A w \in Works : CleanStarts(w, p) => w \in W
    BY DEF CleanStarts, Shrinking, Shrunk, SameCounters
<1>2. W \in SUBSET Works /\ \A w \in W : Step(w, now) \subseteq W
    BY ShrinkingCloses DEF Shrinking
<1> HIDE DEF W
<1>3. \A u \in CleanMempool(p, now) :
         \E w \in W : /\ w.todo = <<>> /\ u.raised = w.raised
                      /\ u.pool \in Pools /\ Unlocks(w.pool, u.pool)
    BY <1>1, <1>2, CleanRun
<1>4. QED
    BY <1>3 DEF W

\* The names of transactions are ids.
LEMMA NamedIds ==
    ASSUME NEW txs \in SUBSET Tx
    PROVE  Named(txs) \in SUBSET Id
BY IdFacts DEF Named

\* The types hold at first.
LEMMA InitTypeInv ==
    Init => TypeInv
<1> SUFFICES ASSUME Init PROVE TypeInv
    OBVIOUS
<1>1. 0 \in Clock /\ 0 \in 0..0 /\ MaxClock \in Nat
    BY MempoolAssumption DEF Clock
<1>2. pool \in Pools /\ pool.seen \cap pool.full = {} /\ pool.lastForgetClean = 0
    <2>1. Undated \in [Clock -> SUBSET WIds] /\ Undated \in Dated /\ Unheld \in [Outpoint -> SUBSET WIds]
          /\ \A o \in Outpoint : Unheld[o] = {}
        BY DEF Undated, Unheld, Dated
    <2>2. pool = EmptyPool
        BY DEF Init
    <2>3. <<>> \in Seq(Task)
        OBVIOUS
    <2> HIDE DEF Undated
    <2>4. pool \in Entries
        BY <2>1, <2>2, <2>3 DEF EmptyPool, Entries
    <2>5. Indexed(pool)
        BY <2>1, <2>2 DEF EmptyPool, Indexed
    <2>6. QED
        BY <2>2, <2>4, <2>5 DEF Pools, EmptyPool
<1>3. /\ clock = 0 /\ asked = {} /\ minedAt = <<>> /\ loose = {} /\ torn = FALSE /\ again = FALSE
      /\ job \in [Index -> JobStates] /\ tries \in [Index -> 0..MaxTries + 1]
    BY IndexFacts DEF Init, JobStates
<1>4. minedAt \in Seq(Clock) /\ Len(minedAt) <= Len(Blocks)
    BY <1>3, IndexFacts
<1> HIDE DEF Init
<1>5. QED
    BY <1>1, <1>2, <1>3, <1>4 DEF TypeInv

\* Every step keeps the types.
LEMMA NextTypeInv ==
    TypeInv /\ [Next]_vars => TypeInv'
<1> SUFFICES ASSUME TypeInv, [Next]_vars PROVE TypeInv'
    OBVIOUS
<1> USE DEF TypeInv
<1>1. pool.seen \subseteq Id /\ pool.full \subseteq WIds /\ clock \in Int /\ pool.lastForgetClean \in Int
      /\ \A t \in Tx : WId[t] \in WIds /\ Txid[t] \in Id
    BY IdFacts, MempoolAssumption DEF Pools, Entries, Clock
<1>2. ASSUME NEW t \in Tx, OnTransactionHash(t) PROVE TypeInv'
    <2>1. Txid[t] \in Id /\ Txid[t] \notin pool.full
        BY <1>1, <1>2 DEF OnTransactionHash, Refused, Known
    <2>2. /\ pool' \in Pools /\ SameCounters(pool, pool')
          /\ pool'.seen = pool.seen \cup {Txid[t]} /\ pool'.full = pool.full
        BY <1>2, <2>1, AddSeenFields DEF OnTransactionHash
    <2>3. QED
        BY <1>2, <2>1, <2>2 DEF OnTransactionHash, SameCounters
<1>3. ASSUME NEW t \in Tx, OnTransaction(t) PROVE TypeInv'
    <2>1. pool' \in Pools /\ (HeldNow(pool, pool', t, clock) \/ DoubleNow(pool, pool', t))
        BY <1>3, AddFields DEF OnTransaction
    <2>2. pool'.lastForgetClean = pool.lastForgetClean /\ pool'.seen \cap pool'.full = {}
        BY <2>1 DEF HeldNow, DoubleNow, SameCounters
    <2>3. asked' \subseteq Tx /\ loose' \subseteq Tx /\ again' \in BOOLEAN
        BY <1>3 DEF OnTransaction
    <2>4. QED
        BY <1>3, <2>1, <2>2, <2>3 DEF OnTransaction
<1>4. ASSUME NEW i \in Index, OnBlockHeader(i) PROVE TypeInv'
    <2>1. i = Len(minedAt) + 1 /\ i <= Len(Blocks) /\ minedAt' \in Seq(Clock) /\ Len(minedAt') = i
        BY <1>4, IndexFacts DEF OnBlockHeader
    <2>2. job' \in [Index -> JobStates]
        BY <1>4 DEF OnBlockHeader, JobStates
    <2>3. QED
        BY <1>4, <2>1, <2>2 DEF OnBlockHeader
<1>5. ASSUME NEW i \in Index, BlockFetched(i) PROVE TypeInv'
    <2>1. PICK work \in OnNewBlock(pool, Blocks[i], clock) :
             /\ pool' = work.pool
             /\ job' = [job EXCEPT ![i] = IF work.raised = "no" THEN "done" ELSE "raised"]
             /\ torn' = (torn \/ work.raised = "KeyError")
        BY <1>5 DEF BlockFetched
    <2> DEFINE txs == Blocks[i]
               p0 == Forget(pool, Named(txs), clock)
    <2>2. txs \in SUBSET Tx
        BY IndexFacts
    <2> HIDE DEF txs
    <2>3. work \in Shrinking(p0, clock) /\ work \in OnNewBlock(pool, txs, clock)
        BY <2>1, <2>2, BlockShrinks DEF txs
    <2> DEFINE ids == Named(txs)
    <2> HIDE DEF ids
    <2>4. SameCounters(pool, p0) /\ SameHeld(pool, p0)
        <3>1. p0 = Forget(pool, ids, clock) /\ ids \in SUBSET Id
            BY <2>2, NamedIds DEF ids
        <3> HIDE DEF p0
        <3>2. ForgetsNow(pool, p0, ids, clock)
            BY <3>1, ForgetIsPool
        <3>3. QED
            BY <3>2 DEF ForgetsNow
    <2> HIDE DEF p0
    <2>5. pool' \in Pools /\ Shrunk(p0, pool', clock)
        BY <2>1, <2>3 DEF Shrinking, Works
    <2>6. pool'.seen \cap pool'.full = {} /\ pool'.lastForgetClean = pool.lastForgetClean
        BY <2>4, <2>5 DEF Shrunk, SameCounters, SameHeld
    <2>7. job' \in [Index -> JobStates] /\ torn' \in BOOLEAN
        BY <2>1 DEF JobStates
    <2>8. loose' \subseteq Tx /\ UNCHANGED <<clock, asked, minedAt, tries, again>>
        BY <1>5, <2>2 DEF BlockFetched, txs
    <2>9. QED
        BY <2>5, <2>6, <2>7, <2>8
<1>6. ASSUME NEW i \in Index, FetchFails(i) \/ Retry(i) PROVE TypeInv'
    <2>1. job' \in [Index -> JobStates]
        BY <1>6 DEF FetchFails, Retry, JobStates
    <2>2. tries' \in [Index -> 0..MaxTries + 1]
        <3>1. tries[i] \in 0..MaxTries + 1 /\ MaxTries \in Nat
            BY IndexFacts
        <3>2. tries[i] > MaxTries \/ tries[i] + 1 \in 0..MaxTries + 1
            BY <3>1
        <3>3. QED
            BY <1>6, <3>2 DEF FetchFails, Retry
    <2>3. QED
        BY <1>6, <2>1, <2>2 DEF FetchFails, Retry
<1>7. ASSUME RunTask PROVE TypeInv'
    <2>1. PICK task \in Task, rest \in Pools :
             /\ TakesFirst(pool, rest, task) /\ Runs(task, rest)
             /\ task[1] # "clean" => pool' \in Pools
        BY <1>7, TaskRuns
    <2>2. /\ pool' \in Pools /\ pool'.seen \subseteq pool.seen /\ pool'.full \subseteq pool.full
          /\ pool'.lastForgetClean \in {pool.lastForgetClean, clock} /\ torn' \in BOOLEAN
        <3>1. CASE task[1] # "clean"
            BY <2>1, <3>1 DEF TakesFirst, Runs, Projects, CleansForget, SameHeld, SameCounters
        <3>2. CASE task[1] = "clean"
            <4>1. PICK v \in CleanMempool(rest, clock) :
                     pool' = v.pool /\ torn' = (torn \/ v.raised = "KeyError")
                BY <2>1, <3>2 DEF Runs
            <4>2. v.pool \in Pools
                BY <4>1, CleanShrinks
            <4>3. PICK w \in Shrinking(rest, clock) : Unlocks(w.pool, v.pool)
                BY <4>1, CleanShrinks
            <4>4. Shrunk(rest, w.pool, clock)
                BY <4>3 DEF Shrinking
            <4>5. QED
                BY <2>1, <4>1, <4>2, <4>3, <4>4 DEF TakesFirst, Shrunk, Unlocks, SameHeld, SameCounters
        <3>3. QED
            BY <3>1, <3>2
    <2>3. clock \in 0..clock
        BY MempoolAssumption DEF Clock
    <2>4. UNCHANGED <<clock, asked, minedAt, job, tries, loose, again>>
        BY <1>7 DEF RunTask
    <2>5. QED
        BY <2>2, <2>3, <2>4
<1>8. ASSUME Tick PROVE TypeInv'
    <2>1. clock' = clock + 1 /\ clock' \in Clock /\ pool.lastForgetClean \in 0..clock'
        BY <1>8, MempoolAssumption DEF Tick, Clock
    <2>2. QED
        BY <1>8, <2>1 DEF Tick
<1>9. CASE UNCHANGED vars
    BY <1>9 DEF vars
<1>10. QED
    BY <1>2, <1>3, <1>4, <1>5, <1>6, <1>7, <1>8, <1>9 DEF Next, BlockStep

\* The state is well typed: what the observer's handlers and the repository's
\* tasks leave behind is always what their next operation expects.
THEOREM Types == Spec => []TypeOK
<1>1. TypeInv => TypeOK
    <2> SUFFICES ASSUME TypeInv PROVE TypeOK
        OBVIOUS
    <2>1. pool \in Entries
        BY DEF TypeInv, Pools
    <2>2. \A i \in DOMAIN pool.tasks : pool.tasks[i][1] \in {"add", "sub", "clean", "forget"}
        BY <2>1 DEF Entries, Task
    <2>3. pool.byTime \in Dated
        BY <2>1, IdFacts DEF Entries, Dated
    <2>4. QED
        BY <2>1, <2>2, <2>3, IdFacts DEF TypeInv, TypeOK, Entries
<1>2. QED
    BY <1>1, InitTypeInv, NextTypeInv, PTL DEF Spec
-----------------------------------------------------------------------------
(***************************************************************************)
(* Which call makes which, and which fields it can change.                 *)
(***************************************************************************)
Made(p, call, new) ==
    \/ call[1] \in {"tx", "mined"} /\ new = <<"forget", call[2], call[2]>>
    \/ /\ call[1] \in {"tx", "mined"} /\ call[2] \in p.full \ p.seen
       /\ new[1] = "free" /\ new[2] \in Outpoints(call[2]) /\ new[3] = call[2]
    \/ call[1] = "free" /\ new[1] = "dspend" /\ new[2] \in p.dsByOut[call[2]]
    \/ /\ call[1] \in {"dspend", "mined"} /\ call[2] \in p.dspends
       /\ new[1] = "dsout" /\ new[2] \in Outpoints(call[2]) /\ new[3] = call[2]
    \/ /\ call[1] \in {"dspend", "mined"} /\ call[2] \in p.dspends
       /\ new = <<"dsdone", call[2], call[2]>>
    \/ call[1] = "dsout" /\ new[1] = "tx" /\ new[2] \in p.outs[call[2]]
    \/ /\ call[1] = "clean" /\ new[1] \in {"clean", "tx"}
       /\ \E key \in Clock : new[2] \in p.byTime[key]

\* After a call, the stack has what was below it, and above that its own calls.
LEMMA NewCalls ==
    ASSUME NEW w, NEW v, NEW now, NEW call, Does(w, v, call, now), v.raised = "no"
    PROVE  \A k \in 1..Len(v.todo) :
              \/ k < Len(w.todo) /\ k \in 1..Len(w.todo) /\ Deep(v, k) = Deep(w, k)
              \/ k >= Len(w.todo) /\ Made(w.pool, call, Deep(v, k))
<1> SUFFICES ASSUME NEW k \in 1..Len(v.todo)
             PROVE  \/ k < Len(w.todo) /\ k \in 1..Len(w.todo) /\ Deep(v, k) = Deep(w, k)
                    \/ k >= Len(w.todo) /\ Made(w.pool, call, Deep(v, k))
    OBVIOUS
<1> DEFINE n == Len(w.todo)
           m == Len(v.todo)
           new == Deep(v, k)
           p == w.pool
<1>1. Kept(w, v) /\ n \in Nat /\ m \in Nat
    BY EffectHalts DEF Kept
<1>2. CASE k < n
    BY <1>1, <1>2 DEF Kept
<1>3. CASE k >= n
    <2>1. k \in n..m /\ (k = n \/ k \in (n + 1)..m)
        BY <1>1, <1>3
    <2>2. SUFFICES Made(p, call, new)
        BY <1>3
    <2> HIDE DEF n, m, new, p
    <2>3. ~Ends(v, "TypeError") /\ ~Ends(v, "KeyError")
        BY DEF Ends
    <2>4. ASSUME TxEffect(w, v, call[2]), call[1] \in {"tx", "mined"} PROVE Made(p, call, new)
        <3> DEFINE id == call[2]
        <3>1. CASE id \notin p.seen /\ id \in p.full
            <4>1. Deep(v, n) = <<"forget", id, id>> /\ OnTop(v, n + 1, "free", Outpoints(id), id)
                BY <2>3, <2>4, <3>1 DEF TxEffect, n, p
            <4>2. k = n \/ \E x \in Outpoints(id) : new = <<"free", x, id>>
                BY <2>1, <4>1 DEF OnTop, m, new
            <4> HIDE DEF id
            <4>3. CASE k = n
                BY <2>4, <4>1, <4>3 DEF Made, new, id
            <4>4. CASE \E x \in Outpoints(id) : new = <<"free", x, id>>
                BY <2>4, <3>1, <4>4 DEF Made, id
            <4>5. QED
                BY <4>2, <4>3, <4>4
        <3>2. CASE ~(id \notin p.seen /\ id \in p.full)
            <4>1. Len(v.todo) = Len(w.todo) /\ Deep(v, n) = <<"forget", id, id>>
                BY <2>3, <2>4, <3>2 DEF TxEffect, n, p
            <4>2. k = n
                BY <1>1, <2>1, <4>1 DEF m, n
            <4>3. QED
                BY <2>4, <4>1, <4>2 DEF Made, new
        <3>3. QED
            BY <3>1, <3>2
    <2>5. ASSUME DspendEffect(w, v, call[2]), call[1] \in {"dspend", "mined"} PROVE Made(p, call, new)
        <3> DEFINE id == call[2]
        <3>1. /\ id \in p.dspends /\ Deep(v, n) = <<"dsdone", id, id>>
              /\ OnTop(v, n + 1, "dsout", Outpoints(id), id)
            BY <2>3, <2>5 DEF DspendEffect, n, p
        <3>2. k = n \/ \E x \in Outpoints(id) : new = <<"dsout", x, id>>
            BY <2>1, <3>1 DEF OnTop, m, new
        <3> HIDE DEF id
        <3>3. CASE k = n
            BY <2>5, <3>1, <3>3 DEF Made, new, id
        <3>4. CASE \E x \in Outpoints(id) : new = <<"dsout", x, id>>
            BY <2>5, <3>1, <3>4 DEF Made, id
        <3>5. QED
            BY <3>2, <3>3, <3>4
    <2>6. ASSUME Returns(w, v) PROVE FALSE
        BY <1>1, <1>3, <2>1, <2>6 DEF Returns, n, m
    <2>7. CASE call[1] = "tx" /\ TxEffect(w, v, call[2])
        BY <2>4, <2>7
    <2>8. CASE call[1] = "free" /\ FreeEffect(w, v, call[2])
        <3>1. OnTop(v, n, "dspend", p.dsByOut[call[2]], call[2])
            BY <2>3, <2>8 DEF FreeEffect, n, p
        <3>2. \E x \in p.dsByOut[call[2]] : new = <<"dspend", x, call[2]>>
            BY <2>1, <3>1 DEF OnTop, m, new
        <3>3. QED
            BY <2>8, <3>2 DEF Made
    <2>9. CASE call[1] = "dspend" /\ DspendEffect(w, v, call[2])
        BY <2>5, <2>9
    <2>10. CASE call[1] = "dsout" /\ DsoutEffect(w, v, call[2], call[3])
        <3>1. OnTop(v, n, "tx", p.outs[call[2]], call[2])
            BY <2>3, <2>10 DEF DsoutEffect, n, p
        <3>2. \E x \in p.outs[call[2]] : new = <<"tx", x, call[2]>>
            BY <2>1, <3>1 DEF OnTop, m, new
        <3>3. QED
            BY <2>10, <3>2 DEF Made
    <2>11. CASE DsdoneEffect(w, v, call[2], now) \/ ForgetEffect(w, v, call[2], now)
        BY <2>6, <2>11 DEF DsdoneEffect, ForgetEffect
    <2>12. CASE call[1] = "mined" /\ MinedEffect(w, v, call[2])
        BY <2>4, <2>5, <2>6, <2>12 DEF MinedEffect
    <2>13. CASE call[1] = "clean" /\ CleanEffect(w, v)
        <3>1. PICK key \in Clock : \E id \in p.byTime[key] :
                 /\ m = n + 1 /\ Deep(v, n) = <<"clean", id, id>> /\ Deep(v, m) = <<"tx", id, id>>
            BY <2>6, <2>13 DEF CleanEffect, n, m, p
        <3>2. k = n \/ k = m
            BY <1>1, <2>1, <3>1
        <3>3. QED
            BY <2>13, <3>1, <3>2 DEF Made, new
    <2>14. QED
        BY <2>7, <2>8, <2>9, <2>10, <2>11, <2>12, <2>13 DEF Does
<1>4. QED
    BY <1>1, <1>2, <1>3

\* The id leaves one set, or the set stays.
Loses(S, R, id, may) == R = S \/ (may /\ R = S \ {id})

Touches(p, q, call, now) ==
    /\ Loses(p.seen, q.seen, call[2], call[1] \in {"tx", "mined"})
    /\ Loses(p.full, q.full, call[2], call[1] \in {"tx", "mined"})
    /\ Loses(p.dspends, q.dspends, call[2], call[1] = "dsdone")
    /\ call[1] \in {"tx", "mined"} => q.seen = p.seen \ {call[2]} /\ q.full = p.full \ {call[2]}
    /\ call[1] # "free" => q.outs = p.outs
    /\ call[1] \notin {"free", "dsout"} => q.dsByOut = p.dsByOut
    /\ call[1] # "clean" => q.byTime = p.byTime
    /\ q.tasks # p.tasks =>
          /\ call[1] \in {"tx", "mined"} /\ call[2] \in p.full /\ q.full = p.full \ {call[2]}
          /\ q.tasks = Append(p.tasks, <<"sub", Size[DataOf(call[2])]>>)
    /\ q.full # p.full => q.tasks # p.tasks \/ call[2] \in p.seen
    /\ IF call[1] \in {"dsdone", "forget"}
       THEN q.forgetAt = [p.forgetAt EXCEPT ![now] = p.forgetAt[now] \cup {call[2]}]
       ELSE q.forgetAt = p.forgetAt

\* What a call of each kind can take.
LEMMA CallTouches ==
    ASSUME NEW w \in Works, NEW v \in Works, NEW now, NEW call, Does(w, v, call, now)
    PROVE  Touches(w.pool, v.pool, call, now)
<1> DEFINE p == w.pool
           q == v.pool
<1>0. p.tasks \in Seq(Task)
    BY DEF Works, Pools, Entries
<1> USE DEF SameEntries, SameOutpoints, SameForgotten
<1> HIDE DEF p, q
<1>1. ASSUME TxEffect(w, v, call[2]), call[1] \in {"tx", "mined"} PROVE Touches(p, q, call, now)
    <2>1. /\ SameOutpoints(p, q) /\ SameForgotten(p, q) /\ q.byTime = p.byTime /\ q.dspends = p.dspends
          /\ q.seen = p.seen \ {call[2]} /\ q.full = p.full \ {call[2]}
        BY <1>1 DEF TxEffect, p, q
    <2>2. \/ call[2] \in p.seen /\ q.tasks = p.tasks
          \/ call[2] \in p.full /\ q.tasks = Append(p.tasks, <<"sub", Size[DataOf(call[2])]>>)
          \/ call[2] \notin p.full /\ q.tasks = p.tasks
        BY <1>1 DEF TxEffect, p, q
    <2>3. \A e : Append(p.tasks, e) # p.tasks
        BY <1>0 DEF p
    <2>4. QED
        BY <1>1, <2>1, <2>2, <2>3 DEF Touches, Loses
<1>2. ASSUME DspendEffect(w, v, call[2]), call[1] = "dspend" PROVE Touches(p, q, call, now)
    BY <1>2 DEF Touches, Loses, DspendEffect, p, q
<1>3. CASE call[1] = "tx" /\ TxEffect(w, v, call[2])
    BY <1>1, <1>3 DEF p, q
<1>4. CASE call[1] = "free" /\ FreeEffect(w, v, call[2])
    BY <1>4 DEF Touches, Loses, FreeEffect, p, q
<1>5. CASE call[1] = "dspend" /\ DspendEffect(w, v, call[2])
    BY <1>2, <1>5 DEF p, q
<1>6. CASE call[1] = "dsout" /\ DsoutEffect(w, v, call[2], call[3])
    BY <1>6 DEF Touches, Loses, DsoutEffect, p, q
<1>7. CASE call[1] = "dsdone" /\ DsdoneEffect(w, v, call[2], now)
    BY <1>7 DEF Touches, Loses, DsdoneEffect, Forgets, p, q
<1>8. CASE call[1] = "forget" /\ ForgetEffect(w, v, call[2], now)
    BY <1>8 DEF Touches, Loses, ForgetEffect, Forgets, p, q
<1>9. CASE call[1] = "mined" /\ MinedEffect(w, v, call[2])
    <2>1. CASE v.pool = w.pool /\ call[2] \notin w.pool.seen \cup w.pool.full
        BY <1>9, <2>1 DEF Touches, Loses, p, q
    <2>2. CASE TxEffect(w, v, call[2])
        BY <1>1, <1>9, <2>2 DEF p, q
    <2>3. CASE DspendEffect(w, v, call[2]) /\ call[2] \notin w.pool.seen \cup w.pool.full
        BY <1>9, <2>3, <2>1 DEF DspendEffect
    <2>4. QED
        BY <1>9, <2>1, <2>2, <2>3 DEF MinedEffect
<1>10. CASE call[1] = "clean" /\ CleanEffect(w, v)
    BY <1>10 DEF Touches, Loses, CleanEffect, p, q
<1>11. QED
    BY ONLY Does(w, v, call, now), <1>3, <1>4, <1>5, <1>6, <1>7, <1>8, <1>9, <1>10 DEF Does, p, q

\* A call stays on the stack until it is made.
Pending(w, call) == \E k \in 1..Len(w.todo) : Deep(w, k) = call

\* A call that is left stays left, or is the one that was made.
LEMMA PendingStep ==
    ASSUME NEW w, NEW v, NEW now, Does(w, v, Deep(w, Len(w.todo)), now), v.raised = "no", NEW c
    PROVE  /\ Pending(w, c) /\ c # Deep(w, Len(w.todo)) => Pending(v, c)
           /\ Pending(v, c) => Pending(w, c) \/ Made(w.pool, Deep(w, Len(w.todo)), c)
<1> DEFINE n == Len(w.todo)
           call == Deep(w, n)
<1>1. Kept(w, v)
    BY EffectHalts
<1>2. \A k \in 1..Len(v.todo) :
         \/ k < n /\ k \in 1..n /\ Deep(v, k) = Deep(w, k)
         \/ k >= n /\ Made(w.pool, call, Deep(v, k))
    BY NewCalls
<1> HIDE DEF call
<1>3. ASSUME Pending(w, c), c # Deep(w, n) PROVE Pending(v, c)
    <2>1. PICK k \in 1..n : Deep(w, k) = c
        BY <1>3 DEF Pending
    <2>2. k < n /\ Deep(v, k) = Deep(w, k) /\ k \in 1..Len(v.todo)
        BY <1>1, <1>3, <2>1 DEF Kept
    <2>3. QED
        BY <2>1, <2>2 DEF Pending
<1>4. ASSUME Pending(v, c) PROVE Pending(w, c) \/ Made(w.pool, call, c)
    BY <1>2, <1>4 DEF Pending
<1>5. QED
    BY <1>3, <1>4 DEF call
-----------------------------------------------------------------------------
(***************************************************************************)
(* What a removal leaves of what was seen and of the forget pool, and that *)
(* a block's removals are complete unless one raises.                      *)
(***************************************************************************)
Tidy(p0, ids, now) ==
    {w \in Shrinking(p0, now) :
        /\ \A k \in 1..Len(w.todo) : Deep(w, k)[1] \in {"mined", "forget"} => Deep(w, k)[2] \in WIds \cup ids
        /\ p0.seen \subseteq w.pool.seen \cup WIds \cup ids
        /\ w.pool.forgetAt[now] \subseteq p0.forgetAt[now] \cup WIds \cup ids}

\* Every step of a removal keeps its calls tidy.
LEMMA TidyCloses ==
    ASSUME NEW p0, NEW ids, NEW now \in Clock
    PROVE  \A w \in Tidy(p0, ids, now) : Step(w, now) \subseteq Tidy(p0, ids, now)
<1> SUFFICES ASSUME NEW w \in Tidy(p0, ids, now), NEW v \in Step(w, now)
             PROVE  v \in Tidy(p0, ids, now)
    OBVIOUS
<1> DEFINE n == Len(w.todo)
           call == Deep(w, n)
           mine == WIds \cup ids
<1>1. /\ w \in Shrinking(p0, now)
      /\ \A k \in 1..n : Deep(w, k)[1] \in {"mined", "forget"} => Deep(w, k)[2] \in mine
      /\ p0.seen \subseteq w.pool.seen \cup mine
      /\ w.pool.forgetAt[now] \subseteq p0.forgetAt[now] \cup mine
    BY DEF Tidy
<1>2. /\ v \in Shrinking(p0, now)
      /\ \/ v = w
         \/ /\ n \in Nat /\ n > 0 /\ call \in CallSet /\ Does(w, v, call, now)
    BY <1>1, ShrinkingStep
<1>3. CASE v = w
    BY <1>3
<1>4. CASE n \in Nat /\ n > 0 /\ call \in CallSet /\ Does(w, v, call, now)
    <2>1. w \in Works /\ v \in Works /\ (v.raised # "no" => v.todo = <<>>)
        BY <1>1, <1>2 DEF Shrinking
    <2>2. Touches(w.pool, v.pool, call, now)
        BY <1>4, <2>1, CallTouches
    <2>3. w.pool.forgetAt \in [Clock -> SUBSET Id]
        BY <2>1 DEF Works, Pools, Entries, Dated
    <2>4. call[1] \in {"tx", "mined", "forget", "dsdone"} => call[2] \in mine
        <3>1. n \in 1..n
            BY <1>4
        <3>2. call[1] \in {"tx", "dsdone"} => call[2] \in WIds
            BY <1>4 DEF CallSet
        <3>3. QED
            BY <1>1, <3>1, <3>2
    <2>5. ASSUME NEW k \in 1..Len(v.todo), Deep(v, k)[1] \in {"mined", "forget"}
          PROVE  Deep(v, k)[2] \in mine
        <3>1. v.raised = "no"
            <4>1. CASE v.todo = <<>>
                BY <2>5, <4>1
            <4>2. QED
                BY <2>1, <4>1
        <3>2. \/ k \in 1..n /\ Deep(v, k) = Deep(w, k)
              \/ Made(w.pool, call, Deep(v, k))
            BY <1>4, <3>1, NewCalls
        <3>3. CASE k \in 1..n /\ Deep(v, k) = Deep(w, k)
            BY <1>1, <2>5, <3>3
        <3>4. CASE Made(w.pool, call, Deep(v, k))
            <4> HIDE DEF call, mine
            <4>1. call[1] \in {"tx", "mined"} /\ Deep(v, k) = <<"forget", call[2], call[2]>>
                BY <2>5, <3>4 DEF Made
            <4>2. QED
                BY <2>4, <4>1
        <3>5. QED
            BY <3>2, <3>3, <3>4
    <2>6. p0.seen \subseteq v.pool.seen \cup mine
        <3> HIDE DEF call, mine
        <3>1. QED
            BY <1>1, <2>2, <2>4 DEF Touches, Loses
    <2>7. v.pool.forgetAt[now] \subseteq p0.forgetAt[now] \cup mine
        <3> HIDE DEF call, mine
        <3>1. QED
            BY <1>1, <2>2, <2>3, <2>4 DEF Touches
    <2>8. QED
        BY <1>2, <2>5, <2>6, <2>7 DEF Tidy
<1>5. QED
    BY <1>2, <1>3, <1>4

\* Each id is gone, or a call that sees to it is on the stack.
Gone(p, id) == id \notin p.seen \cup p.full \cup p.dspends

Cleared(p0, ids, now) ==
    {w \in Shrinking(p0, now) :
        w.raised = "no" =>
          \A id \in ids :
             \/ Gone(w.pool, id)
             \/ Pending(w, <<"mined", id, 0>>)
             \/ id \notin w.pool.seen \cup w.pool.full /\ Pending(w, <<"dsdone", id, id>>)}

\* Every step keeps what a block names gone, or about to go.
LEMMA ClearedCloses ==
    ASSUME NEW p0, NEW ids, NEW now \in Clock, p0.full \cap p0.dspends = {}
    PROVE  \A w \in Cleared(p0, ids, now) : Step(w, now) \subseteq Cleared(p0, ids, now)
<1> SUFFICES ASSUME NEW w \in Cleared(p0, ids, now), NEW v \in Step(w, now)
             PROVE  v \in Cleared(p0, ids, now)
    OBVIOUS
<1> DEFINE n == Len(w.todo)
           call == Deep(w, n)
<1>1. w \in Shrinking(p0, now)
    BY DEF Cleared
<1>2. /\ v \in Shrinking(p0, now)
      /\ \/ v = w
         \/ /\ w.raised = "no" /\ Shrunk(w.pool, v.pool, now)
            /\ n \in Nat /\ n > 0 /\ call \in CallSet /\ Does(w, v, call, now)
            /\ v.raised = "no" => Kept(w, v)
    BY <1>1, ShrinkingStep
<1>3. CASE v = w
    BY <1>3
<1>4. CASE /\ w.raised = "no" /\ Shrunk(w.pool, v.pool, now)
           /\ n \in Nat /\ n > 0 /\ call \in CallSet /\ Does(w, v, call, now)
           /\ v.raised = "no" => Kept(w, v)
    <2>1. SUFFICES ASSUME v.raised = "no", NEW id \in ids
                   PROVE  \/ Gone(v.pool, id)
                          \/ Pending(v, <<"mined", id, 0>>)
                          \/ id \notin v.pool.seen \cup v.pool.full /\ Pending(v, <<"dsdone", id, id>>)
        BY <1>2 DEF Cleared
    <2>2. \/ Gone(w.pool, id)
          \/ Pending(w, <<"mined", id, 0>>)
          \/ id \notin w.pool.seen \cup w.pool.full /\ Pending(w, <<"dsdone", id, id>>)
        BY <1>4 DEF Cleared
    <2>3. /\ v.pool.seen \subseteq w.pool.seen /\ v.pool.full \subseteq w.pool.full
          /\ v.pool.dspends \subseteq w.pool.dspends
        BY <1>4 DEF Shrunk
    <2>4. ASSUME NEW c, Pending(w, c), c # call PROVE Pending(v, c)
        BY <1>4, <2>1, <2>4, PendingStep
    <2>5. CASE Gone(w.pool, id)
        BY <2>3, <2>5 DEF Gone
    <2>6. CASE Pending(w, <<"mined", id, 0>>)
        <3>1. CASE call = <<"mined", id, 0>>
            <4>1. MinedEffect(w, v, id)
                BY <1>4, <3>1 DEF Does
            <4>2. ~Ends(v, "TypeError") /\ ~Ends(v, "KeyError")
                BY <2>1 DEF Ends
            <4>3. CASE TxEffect(w, v, id) /\ id \in w.pool.seen \cup w.pool.full
                <5>1. id \in w.pool.full /\ v.pool.seen = w.pool.seen \ {id} /\ v.pool.full = w.pool.full \ {id}
                    BY <4>2, <4>3 DEF TxEffect
                <5>2. id \notin v.pool.dspends
                    BY <1>1, <1>2, <5>1 DEF Shrinking, Shrunk
                <5>3. QED
                    BY <5>1, <5>2 DEF Gone
            <4>4. CASE id \notin w.pool.seen \cup w.pool.full /\ DspendEffect(w, v, id)
                <5>1. Len(v.todo) >= n /\ Deep(v, n) = <<"dsdone", id, id>> /\ v.pool = w.pool
                    BY <4>2, <4>4 DEF DspendEffect
                <5>2. n \in 1..Len(v.todo)
                    BY <1>4, <2>1, <5>1 DEF Kept
                <5>3. QED
                    BY <4>4, <5>1, <5>2 DEF Pending
            <4>5. CASE id \notin w.pool.seen \cup w.pool.full \cup w.pool.dspends /\ v.pool = w.pool
                BY <4>5 DEF Gone
            <4>6. QED
                BY <4>1, <4>3, <4>4, <4>5 DEF MinedEffect
        <3>2. CASE call # <<"mined", id, 0>>
            BY <2>4, <2>6, <3>2
        <3>3. QED
            BY <3>1, <3>2
    <2>7. CASE id \notin w.pool.seen \cup w.pool.full /\ Pending(w, <<"dsdone", id, id>>)
        <3>1. CASE call = <<"dsdone", id, id>>
            <4>1. DsdoneEffect(w, v, id, now)
                BY <1>4, <3>1 DEF Does
            <4>2. QED
                BY <2>7, <4>1 DEF DsdoneEffect, SameEntries, Gone
        <3>2. CASE call # <<"dsdone", id, id>>
            BY <2>3, <2>4, <2>7, <3>2
        <3>3. QED
            BY <3>1, <3>2
    <2>8. QED
        BY <2>2, <2>5, <2>6, <2>7
<1>5. QED
    BY <1>2, <1>3, <1>4

\* What a removal, or a task, leaves.
Sheds(p, q, ids, now) ==
    /\ q.seen \subseteq p.seen /\ q.full \subseteq p.full /\ q.dspends \subseteq p.dspends
    /\ p.seen \subseteq q.seen \cup WIds \cup ids
    /\ ids \subseteq q.forget
    /\ \A x \in p.forget : x \in q.forget \/ \E key \in Clock : key < now /\ x \in p.forgetAt[key]
    /\ \A k \in Clock : k # now => q.forgetAt[k] \subseteq p.forgetAt[k]
    /\ q.forgetAt[now] \subseteq p.forgetAt[now] \cup WIds \cup ids

\* A block takes away only, and all it names if nothing raised.
LEMMA BlockSheds ==
    ASSUME NEW p \in Pools, NEW txs \in SUBSET Tx, NEW now \in Clock, NEW work \in OnNewBlock(p, txs, now)
    PROVE  /\ Sheds(p, work.pool, Named(txs), now)
           /\ p.full \cap p.dspends = {} /\ work.raised = "no" =>
                 \A id \in Named(txs) : Gone(work.pool, id)
<1> DEFINE ids == Named(txs)
           p0 == Forget(p, ids, now)
           T == Tidy(p0, ids, now)
           C == Cleared(p0, ids, now)
<1>1. ids \in SUBSET Id
    BY NamedIds
<1> HIDE DEF ids
<1>2. /\ p0 \in Pools /\ SameCounters(p, p0) /\ SameHeld(p, p0) /\ p0.forget = p.forget \cup ids
      /\ p0.forgetAt[now] = p.forgetAt[now] \cup ids
      /\ \A k \in Clock : k # now => p0.forgetAt[k] = p.forgetAt[k]
    <2>1. p0 = Forget(p, ids, now)
        OBVIOUS
    <2> HIDE DEF p0, T, C
    <2>2. p0 \in Pools /\ ForgetsNow(p, p0, ids, now)
        BY <1>1, <2>1, ForgetIsPool
    <2>3. QED
        BY <2>2 DEF ForgetsNow
<1> HIDE DEF p0
<1>3. \A w \in Works : BlockStarts(w, p, txs, now) =>
         /\ w.pool = p0 /\ w.raised = "no" /\ AllMined(w, ids) /\ w \in Shrinking(p0, now)
    BY DEF BlockStarts, p0, ids, Shrinking, Shrunk, SameCounters
<1>4. work \in T
    <2>1. \A w \in Works : BlockStarts(w, p, txs, now) => w \in T
        <3> TAKE w \in Works
        <3> HAVE BlockStarts(w, p, txs, now)
        <3>1. /\ w.pool = p0 /\ w.raised = "no" /\ AllMined(w, ids) /\ w \in Shrinking(p0, now)
            BY <1>3
        <3>2. \A k \in 1..Len(w.todo) : Deep(w, k)[2] \in ids
            BY <3>1 DEF AllMined
        <3>3. QED
            BY <3>1, <3>2 DEF Tidy
    <2>2. \A w \in T : Step(w, now) \subseteq T
        BY TidyCloses
    <2> HIDE DEF T
    <2>3. OnNewBlock(p, txs, now) \subseteq {w \in T : w.todo = <<>>}
        BY <2>1, <2>2, BlockRun
    <2>4. QED
        BY <2>3
<1>5. Shrunk(p0, work.pool, now) /\ p0.seen \subseteq work.pool.seen \cup WIds \cup ids
      /\ work.pool.forgetAt[now] \subseteq p0.forgetAt[now] \cup WIds \cup ids
    BY <1>4 DEF Tidy, Shrinking
<1>6. Sheds(p, work.pool, ids, now)
    BY <1>2, <1>5 DEF Shrunk, Sheds, SameHeld
<1>7. ASSUME p.full \cap p.dspends = {}, work.raised = "no" PROVE \A id \in ids : Gone(work.pool, id)
    <2>1. p0.full \cap p0.dspends = {}
        BY <1>2, <1>7 DEF SameHeld
    <2>2. \A w \in Works : BlockStarts(w, p, txs, now) => w \in C
        <3> TAKE w \in Works
        <3> HAVE BlockStarts(w, p, txs, now)
        <3>1. /\ w.pool = p0 /\ w.raised = "no" /\ AllMined(w, ids) /\ w \in Shrinking(p0, now)
            BY <1>3
        <3>2. \A x \in ids : Pending(w, <<"mined", x, 0>>)
            BY <3>1 DEF AllMined, Pending
        <3>3. QED
            BY <3>1, <3>2 DEF Cleared
    <2>3. \A w \in C : Step(w, now) \subseteq C
        BY <2>1, ClearedCloses
    <2> HIDE DEF C
    <2>4. OnNewBlock(p, txs, now) \subseteq {w \in C : w.todo = <<>>}
        BY <2>2, <2>3, BlockRun
    <2>5. work \in C /\ Len(work.todo) = 0
        BY <2>4
    <2>6. \A c : ~Pending(work, c)
        BY <2>5 DEF Pending
    <2>7. QED
        BY <1>7, <2>5, <2>6 DEF C, Cleared
<1>8. QED
    BY <1>6, <1>7 DEF ids

\* A clean-up takes away only.
LEMMA CleanSheds ==
    ASSUME NEW p \in Pools, NEW now \in Clock, NEW v \in CleanMempool(p, now)
    PROVE  Sheds(p, v.pool, {}, now)
<1> DEFINE T == Tidy(p, {}, now)
<1>1. \A w \in Works : CleanStarts(w, p) => w \in T
    <2> TAKE w \in Works
    <2> HAVE CleanStarts(w, p)
    <2>1. w.pool = p /\ w.raised = "no" /\ Len(w.todo) = 1 /\ Deep(w, 1) = <<"clean", 0, 0>>
        BY DEF CleanStarts
    <2>2. w \in Shrinking(p, now)
        BY <2>1 DEF Shrinking, Shrunk, SameCounters
    <2>3. \A k \in 1..Len(w.todo) : Deep(w, k)[1] = "clean"
        BY <2>1
    <2>4. QED
        BY <2>1, <2>2, <2>3 DEF Tidy
<1>2. T \in SUBSET Works /\ \A w \in T : Step(w, now) \subseteq T
    BY TidyCloses DEF Tidy, Shrinking
<1> HIDE DEF T
<1>3. \A u \in CleanMempool(p, now) :
         \E w \in T : /\ w.todo = <<>> /\ u.raised = w.raised
                      /\ u.pool \in Pools /\ Unlocks(w.pool, u.pool)
    BY <1>1, <1>2, CleanRun
<1>4. PICK w \in T : Unlocks(w.pool, v.pool)
    BY <1>3
<1>5. /\ Shrunk(p, w.pool, now) /\ p.seen \subseteq w.pool.seen \cup WIds
      /\ w.pool.forgetAt[now] \subseteq p.forgetAt[now] \cup WIds
    BY DEF T, Tidy, Shrinking
<1>6. QED
    BY <1>4, <1>5 DEF Unlocks, SameHeld, SameForgotten, Shrunk, Sheds

\* So does every task.
LEMMA TaskSheds ==
    ASSUME pool \in Pools, clock \in Clock, RunTask
    PROVE  Sheds(pool, pool', {}, clock)
<1>1. PICK task \in Task, rest \in Pools : TakesFirst(pool, rest, task) /\ Runs(task, rest)
    BY TaskRuns
<1>2. /\ rest.seen = pool.seen /\ rest.full = pool.full /\ rest.dspends = pool.dspends
      /\ rest.forget = pool.forget /\ rest.forgetAt = pool.forgetAt
      /\ pool.forgetAt \in [Clock -> SUBSET Id]
    BY <1>1 DEF TakesFirst, SameHeld, SameForgotten, Pools, Entries, Dated
<1>3. CASE \E sign, size : Projects(rest, pool', sign, size)
    BY <1>2, <1>3 DEF Projects, SameHeld, SameForgotten, Sheds
<1>4. CASE CleansForget(rest, pool', clock)
    <2>1. SameHeld(rest, pool')
        BY <1>4 DEF CleansForget
    <2>2. CASE SameForgotten(rest, pool')
        BY <1>2, <2>1, <2>2 DEF SameHeld, SameForgotten, Sheds
    <2>3. CASE \E key \in Clock : /\ key < clock /\ pool'.forget = rest.forget \ rest.forgetAt[key]
                                  /\ pool'.forgetAt = [rest.forgetAt EXCEPT ![key] = {}]
        BY <1>2, <2>1, <2>3 DEF SameHeld, Sheds
    <2>4. QED
        BY <1>4, <2>2, <2>3 DEF CleansForget
<1>5. CASE \E v \in CleanMempool(rest, clock) : pool' = v.pool
    <2>1. Sheds(rest, pool', {}, clock)
        BY <1>5, CleanSheds
    <2>2. QED
        BY <1>2, <2>1 DEF Sheds
<1>6. QED
    BY <1>1, <1>3, <1>4, <1>5 DEF Runs
-----------------------------------------------------------------------------
(***************************************************************************)
(* What is mined stays out.                                                *)
(***************************************************************************)
\* t is in a block of an earlier stretch.
Settled(t, m, now) == \E i \in 1..Len(m) : m[i] < now /\ t \in Blocks[i]

\* The same transactions, by a predicate that has its arguments.
LEMMA SettledMeans ==
    \A t : t \in MinedBefore(clock) <=> Settled(t, minedAt, clock)
BY DEF MinedBefore, Settled

\* A block is fetched in the stretch in which it was found.
JobInv ==
    /\ \A i \in 1..Len(minedAt) : minedAt[i] <= clock
    /\ \A i \in Index : job[i] # "none" => i \in 1..Len(minedAt)
    /\ \A i \in Index : job[i] \in {"fetching", "waiting"} => minedAt[i] = clock

\* Every step keeps JobInv.
LEMMA NextJobInv ==
    TypeInv /\ JobInv /\ [Next]_vars => JobInv'
<1> SUFFICES ASSUME TypeInv, JobInv, [Next]_vars PROVE JobInv'
    OBVIOUS
<1> USE DEF JobInv
<1>1. /\ job \in [Index -> JobStates] /\ minedAt \in Seq(Clock) /\ Len(minedAt) \in Nat
      /\ clock \in Clock /\ clock \in Int /\ \A i \in 1..Len(minedAt) : minedAt[i] \in Int
    BY MempoolAssumption DEF TypeInv, Clock
<1>2. ASSUME NEW i \in Index, OnBlockHeader(i) PROVE JobInv'
    <2>1. /\ i = Len(minedAt) + 1 /\ minedAt' = Append(minedAt, clock) /\ clock' = clock
          /\ job' = [job EXCEPT ![i] = "fetching"]
        BY <1>2 DEF OnBlockHeader
    <2>2. /\ Len(minedAt') = i /\ minedAt'[i] = clock
          /\ \A j \in 1..Len(minedAt) : minedAt'[j] = minedAt[j] /\ j \in 1..i
        BY <1>1, <2>1
    <2>3. \A j \in 1..i : j = i \/ j \in 1..Len(minedAt)
        BY <1>1, <2>1
    <2>4. \A j \in Index : job'[j] = IF j = i THEN "fetching" ELSE job[j]
        BY <1>1, <2>1
    <2>5. i \in 1..i
        BY <1>1, <2>1
    <2>6. \A j \in 1..Len(minedAt') : minedAt'[j] <= clock'
        BY <1>1, <2>1, <2>2, <2>3
    <2>7. ASSUME NEW j \in Index PROVE /\ job'[j] # "none" => j \in 1..Len(minedAt')
                                       /\ job'[j] \in {"fetching", "waiting"} => minedAt'[j] = clock'
        BY <2>1, <2>2, <2>4, <2>5
    <2>8. QED
        BY <2>6, <2>7
<1>3. ASSUME NEW i \in Index, BlockStep(i) PROVE JobInv'
    <2>1. /\ job[i] \in {"fetching", "waiting"} /\ UNCHANGED <<clock, minedAt>>
          /\ \E s : job' = [job EXCEPT ![i] = s]
        BY <1>3 DEF BlockStep, BlockFetched, FetchFails, Retry
    <2>2. QED
        BY <1>1, <2>1
<1>4. ASSUME Tick PROVE JobInv'
    BY <1>1, <1>4 DEF Tick
<1>5. CASE UNCHANGED <<clock, minedAt, job>>
    BY <1>5
<1>6. QED
    BY <1>2, <1>3, <1>4, <1>5
    DEF Next, OnTransactionHash, OnTransaction, RunTask, vars

\* What arrives again is remembered.
LEMMA AgainStays ==
    TypeInv /\ [Next]_vars /\ ~again' => ~again
<1> SUFFICES ASSUME TypeInv, [Next]_vars, again PROVE again'
    BY DEF TypeInv
<1>1. ASSUME NEW t \in Tx, OnTransaction(t) PROVE again'
    BY <1>1 DEF OnTransaction
<1>2. CASE UNCHANGED again
    BY <1>2
<1>3. QED
    BY <1>1, <1>2 DEF Next, OnTransactionHash, OnBlockHeader, BlockStep, BlockFetched, FetchFails,
                      Retry, RunTask, Tick, vars

\* Until a transaction arrives again, no data is both held and a double spend.
HeldInv == ~again => pool.full \cap pool.dspends = {}

\* If nothing is sent unasked, nothing that is asked for is held.  The txid of a
\* transaction with a witness bars it meanwhile, since its data is not filed under it.
AskedInv ==
    Unasked = {} =>
      /\ ~again
      /\ \A t \in asked : WId[t] \notin pool.full \cup pool.dspends
      /\ \A t \in Tx : Txid[t] # WId[t] /\ (t \in asked \/ WId[t] \in pool.full \cup pool.dspends) =>
            Txid[t] \in pool.seen \cup pool.forget \/ Settled(t, minedAt, clock)
      /\ \A t \in Tx : Txid[t] # WId[t] => \A k \in Clock : Txid[t] \in pool.forgetAt[k] =>
            \E i \in 1..Len(minedAt) : t \in Blocks[i] /\ minedAt[i] = k

\* Unless loose, a transaction of a block that is done is forgotten for the stretch
\* the block was found in, and no clean-up before the next forgets that.
OutInv ==
    ~again => \A i \in Index : job[i] = "done" => \A t \in Blocks[i] \ loose :
       /\ t \notin asked /\ Txid[t] \notin pool.seen /\ WId[t] \notin pool.full \cup pool.dspends
       /\ \/ Settled(t, minedAt, clock)
          \/ Txid[t] \in pool.forget /\ \A k \in Clock : k < clock => Txid[t] \notin pool.forgetAt[k]

\* Different transactions have different names.
LEMMA Names ==
    \A t, u \in Tx : /\ t # u => Txid[t] # Txid[u] /\ WId[t] # WId[u] /\ Txid[t] # WId[u]
                     /\ Txid[t] # WId[t] => Txid[t] \notin WIds
BY MempoolAssumption DEF WIds

\* A removal keeps to the rules, if the ids it was given are of a block found now.
LEMMA ShedsAskedInv ==
    ASSUME NEW ids, NEW txs \in SUBSET Tx, ids \subseteq Named(txs),
           TypeInv, AskedInv, Sheds(pool, pool', ids, clock),
           UNCHANGED <<clock, asked, minedAt, again>>,
           txs = {} \/ \E i \in 1..Len(minedAt) : txs = Blocks[i] /\ minedAt[i] = clock
    PROVE  AskedInv'
<1> SUFFICES ASSUME Unasked = {} PROVE AskedInv'
    BY DEF AskedInv
<1>1. \A t \in Tx : Txid[t] # WId[t] => Txid[t] \notin WIds /\ (Txid[t] \in ids => t \in txs)
    BY Names DEF Named
<1>2. /\ pool'.full \subseteq pool.full /\ pool'.dspends \subseteq pool.dspends
      /\ pool.seen \subseteq pool'.seen \cup WIds \cup ids /\ ids \subseteq pool'.forget
      /\ \A x \in pool.forget : x \in pool'.forget \/ \E key \in Clock : key < clock /\ x \in pool.forgetAt[key]
      /\ \A k \in Clock : k # clock => pool'.forgetAt[k] \subseteq pool.forgetAt[k]
      /\ pool'.forgetAt[clock] \subseteq pool.forgetAt[clock] \cup WIds \cup ids
    BY DEF Sheds
<1>3. ASSUME NEW t \in Tx, Txid[t] # WId[t], t \in asked \/ WId[t] \in pool.full \cup pool.dspends
      PROVE  Txid[t] \in pool'.seen \cup pool'.forget \/ Settled(t, minedAt, clock)
    <2>1. CASE Txid[t] \in pool.seen
        BY <1>1, <1>2, <1>3, <2>1
    <2>2. CASE Txid[t] \in pool.forget
        <3>1. CASE \E key \in Clock : key < clock /\ Txid[t] \in pool.forgetAt[key]
            BY <1>3, <3>1 DEF AskedInv, Settled
        <3>2. QED
            BY <1>2, <2>2, <3>1
    <2>3. QED
        BY <1>3, <2>1, <2>2 DEF AskedInv
<1>4. ASSUME NEW t \in Tx, Txid[t] # WId[t], NEW k \in Clock, Txid[t] \in pool'.forgetAt[k]
      PROVE  \E i \in 1..Len(minedAt) : t \in Blocks[i] /\ minedAt[i] = k
    <2>1. CASE Txid[t] \in pool.forgetAt[k]
        BY <1>4, <2>1 DEF AskedInv
    <2>2. CASE Txid[t] \notin pool.forgetAt[k]
        <3>1. k = clock /\ Txid[t] \in ids
            BY <1>1, <1>2, <1>4, <2>2
        <3>2. QED
            BY <1>1, <1>4, <3>1
    <2>3. QED
        BY <2>1, <2>2
<1>5. QED
    BY <1>2, <1>3, <1>4 DEF AskedInv

\* A removal brings back nothing that a block has removed.
LEMMA ShedsOutInv ==
    ASSUME NEW ids, TypeInv, OutInv, ~again, Sheds(pool, pool', ids, clock),
           UNCHANGED <<clock, asked, minedAt>>, loose \subseteq loose',
           NEW i \in Index, job[i] = "done", NEW t \in Blocks[i] \ loose'
    PROVE  /\ t \notin asked' /\ Txid[t] \notin pool'.seen /\ WId[t] \notin pool'.full \cup pool'.dspends
           /\ \/ Settled(t, minedAt', clock')
              \/ Txid[t] \in pool'.forget /\ \A k \in Clock : k < clock' => Txid[t] \notin pool'.forgetAt[k]
<1>1. /\ t \notin asked /\ Txid[t] \notin pool.seen /\ WId[t] \notin pool.full \cup pool.dspends
      /\ \/ Settled(t, minedAt, clock)
         \/ Txid[t] \in pool.forget /\ \A k \in Clock : k < clock => Txid[t] \notin pool.forgetAt[k]
    BY DEF OutInv
<1>2. /\ pool'.seen \subseteq pool.seen /\ pool'.full \subseteq pool.full
      /\ pool'.dspends \subseteq pool.dspends
      /\ \A x \in pool.forget : x \in pool'.forget \/ \E key \in Clock : key < clock /\ x \in pool.forgetAt[key]
      /\ \A k \in Clock : k # clock => pool'.forgetAt[k] \subseteq pool.forgetAt[k]
    BY DEF Sheds
<1>3. \A k \in Clock : k < clock => k # clock
    BY MempoolAssumption DEF TypeInv, Clock
<1>4. QED
    BY <1>1, <1>2, <1>3

\* Every step keeps HeldInv.
LEMMA NextHeldInv ==
    TypeInv /\ HeldInv /\ [Next]_vars => HeldInv'
<1> SUFFICES ASSUME TypeInv, HeldInv, [Next]_vars, ~again' PROVE pool'.full \cap pool'.dspends = {}
    BY DEF HeldInv
<1>1. /\ pool \in Pools /\ clock \in Clock /\ pool.full \cap pool.dspends = {}
    BY AgainStays DEF TypeInv, HeldInv
<1>2. ASSUME NEW t \in Tx, OnTransactionHash(t) PROVE pool'.full \cap pool'.dspends = {}
    BY <1>1, <1>2, IdFacts, AddSeenFields DEF OnTransactionHash
<1>3. ASSUME NEW t \in Tx, OnTransaction(t) PROVE pool'.full \cap pool'.dspends = {}
    <2>1. /\ WId[t] \notin pool.full \cup pool.dspends
          /\ (HeldNow(pool, pool', t, clock) \/ DoubleNow(pool, pool', t))
        BY <1>1, <1>3, AddFields DEF OnTransaction
    <2>2. QED
        BY <1>1, <2>1 DEF HeldNow, DoubleNow
<1>4. ASSUME NEW i \in Index, BlockFetched(i) PROVE pool'.full \cap pool'.dspends = {}
    <2> DEFINE txs == Blocks[i]
    <2>1. txs \in SUBSET Tx /\ \E work \in OnNewBlock(pool, txs, clock) : pool' = work.pool
        BY <1>4, IndexFacts DEF BlockFetched
    <2> HIDE DEF txs
    <2>2. \A work \in OnNewBlock(pool, txs, clock) : Sheds(pool, work.pool, Named(txs), clock)
        BY <1>1, <2>1, BlockSheds
    <2>3. QED
        BY <1>1, <2>1, <2>2 DEF Sheds
<1>5. ASSUME RunTask PROVE pool'.full \cap pool'.dspends = {}
    <2>1. Sheds(pool, pool', {}, clock)
        BY <1>1, <1>5, TaskSheds DEF RunTask
    <2>2. QED
        BY <1>1, <2>1 DEF Sheds
<1>6. CASE UNCHANGED pool
    BY <1>1, <1>6
<1>7. QED
    BY <1>2, <1>3, <1>4, <1>5, <1>6
    DEF Next, BlockStep, OnBlockHeader, FetchFails, Retry, Tick, vars

\* Every step keeps AskedInv.
LEMMA NextAskedInv ==
    TypeInv /\ JobInv /\ AskedInv /\ [Next]_vars => AskedInv'
<1> SUFFICES ASSUME TypeInv, JobInv, AskedInv, [Next]_vars, Unasked = {} PROVE AskedInv'
    BY DEF AskedInv
<1>1. /\ pool \in Pools /\ clock \in Clock /\ asked \subseteq Tx /\ clock \in Int
      /\ minedAt \in Seq(Clock) /\ Len(minedAt) \in Nat
    BY MempoolAssumption DEF TypeInv, Clock
<1>2. ASSUME NEW t \in Tx, OnTransactionHash(t) PROVE AskedInv'
    <2>1. /\ Txid[t] \notin pool.seen \cup pool.full \cup pool.dspends \cup pool.forget
          /\ ~Settled(t, minedAt, clock)
          /\ asked' = asked \cup {t} /\ UNCHANGED <<clock, minedAt, again>>
        BY <1>2, SettledMeans DEF OnTransactionHash, Refused, Known
    <2>2. /\ SameForgotten(pool, pool') /\ pool'.seen = pool.seen \cup {Txid[t]}
          /\ pool'.full = pool.full /\ pool'.dspends = pool.dspends
        BY <1>1, <1>2, IdFacts, AddSeenFields DEF OnTransactionHash
    <2>3. WId[t] \notin pool.full \cup pool.dspends
        BY <2>1 DEF AskedInv
    <2>4. \A u \in asked' : WId[u] \notin pool'.full \cup pool'.dspends
        BY <2>1, <2>2, <2>3 DEF AskedInv
    <2>5. ASSUME NEW u \in Tx, Txid[u] # WId[u], u \in asked' \/ WId[u] \in pool'.full \cup pool'.dspends
          PROVE  Txid[u] \in pool'.seen \cup pool'.forget \/ Settled(u, minedAt, clock)
        BY <2>1, <2>2, <2>5 DEF AskedInv, SameForgotten
    <2>6. QED
        BY <2>1, <2>2, <2>4, <2>5 DEF AskedInv, SameForgotten
<1>3. ASSUME NEW t \in Tx, OnTransaction(t) PROVE AskedInv'
    <2>1. /\ t \in asked /\ asked' = asked \ {t} /\ UNCHANGED <<clock, minedAt>>
          /\ again' = (again \/ WId[t] \in pool.full \cup pool.dspends)
          /\ (HeldNow(pool, pool', t, clock) \/ DoubleNow(pool, pool', t))
        BY <1>1, <1>3, AddFields DEF OnTransaction
    <2>2. WId[t] \notin pool.full \cup pool.dspends
        BY <2>1 DEF AskedInv
    <2>3. /\ SameForgotten(pool, pool') /\ pool.seen \subseteq pool'.seen \cup {WId[t]}
          /\ \/ pool'.full = pool.full \cup {WId[t]} /\ pool'.dspends = pool.dspends
             \/ pool'.dspends = pool.dspends \cup {WId[t]} /\ pool'.full = pool.full \ {WId[t]}
        BY <2>1 DEF HeldNow, DoubleNow
    <2>4. ~again'
        BY <2>1, <2>2 DEF AskedInv
    <2>5. \A u \in asked' : WId[u] \notin pool'.full \cup pool'.dspends
        <3>1. \A u \in asked' : u \in asked /\ WId[u] # WId[t]
            BY <1>1, <2>1, Names
        <3>2. QED
            BY <2>3, <3>1 DEF AskedInv
    <2>6. ASSUME NEW u \in Tx, Txid[u] # WId[u], u \in asked' \/ WId[u] \in pool'.full \cup pool'.dspends
          PROVE  Txid[u] \in pool'.seen \cup pool'.forget \/ Settled(u, minedAt, clock)
        <3>1. u \in asked \/ WId[u] \in pool.full \cup pool.dspends
            <4>1. WId[u] = WId[t] => u = t
                BY Names
            <4>2. QED
                BY <2>1, <2>3, <2>6, <4>1
        <3>2. Txid[u] # WId[t]
            BY <2>6, Names
        <3>3. QED
            BY <2>3, <2>6, <3>1, <3>2 DEF AskedInv, SameForgotten
    <2>7. QED
        BY <2>1, <2>3, <2>4, <2>5, <2>6 DEF AskedInv, SameForgotten
<1>4. ASSUME NEW i \in Index, OnBlockHeader(i) PROVE AskedInv'
    <2>1. minedAt' = Append(minedAt, clock) /\ UNCHANGED <<pool, clock, asked, again>>
        BY <1>4 DEF OnBlockHeader
    <2>2. \A j \in 1..Len(minedAt) : j \in 1..Len(minedAt') /\ minedAt'[j] = minedAt[j]
        BY <1>1, <2>1
    <2>3. \A t : Settled(t, minedAt, clock) => Settled(t, minedAt', clock)
        BY <2>2 DEF Settled
    <2>4. QED
        BY <2>1, <2>2, <2>3 DEF AskedInv
<1>5. ASSUME NEW i \in Index, BlockFetched(i) PROVE AskedInv'
    <2>1. /\ \E work \in OnNewBlock(pool, Blocks[i], clock) : pool' = work.pool
          /\ UNCHANGED <<clock, asked, minedAt, again>> /\ job[i] = "fetching"
        BY <1>5 DEF BlockFetched
    <2>2. Blocks[i] \in SUBSET Tx /\ i \in 1..Len(minedAt) /\ minedAt[i] = clock
        BY <2>1, IndexFacts DEF JobInv
    <2> DEFINE txs == Blocks[i]
               ids == Named(txs)
    <2>3. Sheds(pool, pool', ids, clock)
        <3> HIDE DEF txs
        <3>1. \A work \in OnNewBlock(pool, txs, clock) : Sheds(pool, work.pool, Named(txs), clock)
            BY <1>1, <2>2, BlockSheds DEF txs
        <3>2. QED
            BY <2>1, <3>1 DEF txs
    <2>4. txs \in SUBSET Tx /\ ids \subseteq Named(txs) /\ \E j \in 1..Len(minedAt) : txs = Blocks[j] /\ minedAt[j] = clock
        BY <2>2
    <2> HIDE DEF txs, ids
    <2>5. QED
        BY <2>1, <2>3, <2>4, ShedsAskedInv
<1>6. ASSUME RunTask PROVE AskedInv'
    <2> DEFINE none == {}
    <2>1. Sheds(pool, pool', none, clock) /\ UNCHANGED <<clock, asked, minedAt, again>>
        BY <1>1, <1>6, TaskSheds DEF RunTask
    <2>2. none \in SUBSET Tx /\ none \subseteq Named(none) /\ none = {}
        OBVIOUS
    <2> HIDE DEF none
    <2>3. QED
        BY <2>1, <2>2, ShedsAskedInv
<1>7. ASSUME Tick PROVE AskedInv'
    <2>1. clock' = clock + 1 /\ UNCHANGED <<pool, asked, minedAt, again>>
        BY <1>7 DEF Tick
    <2>2. \A t : Settled(t, minedAt, clock) => Settled(t, minedAt, clock')
        <3>1. \A j \in 1..Len(minedAt) : minedAt[j] \in Int
            BY <1>1, MempoolAssumption DEF Clock
        <3>2. QED
            BY <1>1, <2>1, <3>1 DEF Settled
    <2>3. QED
        BY <2>1, <2>2 DEF AskedInv
<1>8. CASE UNCHANGED <<pool, clock, asked, minedAt, again>>
    BY <1>8 DEF AskedInv
<1>9. QED
    BY <1>2, <1>3, <1>4, <1>5, <1>6, <1>7, <1>8 DEF Next, BlockStep, FetchFails, Retry, vars

\* Every step keeps OutInv.
LEMMA NextOutInv ==
    TypeInv /\ JobInv /\ HeldInv /\ OutInv /\ [Next]_vars => OutInv'
<1> SUFFICES ASSUME TypeInv, JobInv, HeldInv, OutInv, [Next]_vars, ~again' PROVE OutInv'
    BY DEF OutInv
<1>0. ~again
    BY AgainStays
<1>1. /\ pool \in Pools /\ clock \in Clock /\ asked \subseteq Tx /\ clock \in Int
      /\ minedAt \in Seq(Clock) /\ Len(minedAt) \in Nat /\ job \in [Index -> JobStates]
      /\ \A i \in Index : Blocks[i] \in SUBSET Tx
    BY MempoolAssumption, IndexFacts DEF TypeInv, Clock
<1> DEFINE Stays(i, t) ==
        /\ t \notin asked' /\ Txid[t] \notin pool'.seen /\ WId[t] \notin pool'.full \cup pool'.dspends
        /\ \/ Settled(t, minedAt', clock')
           \/ Txid[t] \in pool'.forget /\ \A k \in Clock : k < clock' => Txid[t] \notin pool'.forgetAt[k]
<1>2. SUFFICES ASSUME NEW i \in Index, job'[i] = "done", NEW t \in Blocks[i] \ loose'
               PROVE  Stays(i, t)
    BY DEF OutInv
<1>3. t \in Tx
    BY <1>1
<1>4. ASSUME job[i] = "done", t \notin loose
      PROVE  /\ t \notin asked /\ Txid[t] \notin pool.seen /\ WId[t] \notin pool.full \cup pool.dspends
             /\ \/ Settled(t, minedAt, clock)
                \/ Txid[t] \in pool.forget /\ \A k \in Clock : k < clock => Txid[t] \notin pool.forgetAt[k]
    BY <1>0, <1>4 DEF OutInv
<1>5. ASSUME NEW u \in Tx, OnTransactionHash(u) PROVE Stays(i, t)
    <2>1. /\ Txid[u] \notin pool.forget /\ ~Settled(u, minedAt, clock)
          /\ asked' = asked \cup {u} /\ UNCHANGED <<clock, minedAt, job, loose>>
        BY <1>5, SettledMeans DEF OnTransactionHash, Refused
    <2>2. /\ SameForgotten(pool, pool') /\ pool'.seen = pool.seen \cup {Txid[u]}
          /\ pool'.full = pool.full /\ pool'.dspends = pool.dspends
        BY <1>1, <1>5, IdFacts, AddSeenFields DEF OnTransactionHash
    <2>3. u # t /\ Txid[u] # Txid[t]
        BY <1>2, <1>3, <1>4, <2>1, Names
    <2>4. QED
        BY <1>2, <1>4, <2>1, <2>2, <2>3 DEF SameForgotten
<1>6. ASSUME NEW u \in Tx, OnTransaction(u) PROVE Stays(i, t)
    <2>1. /\ \/ u \in asked /\ UNCHANGED loose
             \/ loose' = loose \cup ({u} \cap TakenOut)
          /\ asked' \subseteq asked /\ UNCHANGED <<clock, minedAt, job>>
          /\ (HeldNow(pool, pool', u, clock) \/ DoubleNow(pool, pool', u))
        BY <1>1, <1>6, AddFields DEF OnTransaction
    <2>2. WId[u] # WId[t]
        <3>1. job[i] = "done" /\ t \in Blocks[i] /\ t \notin loose'
            BY <1>2, <2>1
        <3>2. t \in TakenOut
            BY <3>1 DEF TakenOut
        <3>3. u # t
            BY <1>4, <2>1, <3>1, <3>2
        <3>4. QED
            BY <1>3, <3>3, Names
    <2>3. /\ SameForgotten(pool, pool') /\ pool'.seen \subseteq pool.seen
          /\ pool'.full \subseteq pool.full \cup {WId[u]} /\ pool'.dspends \subseteq pool.dspends \cup {WId[u]}
        BY <2>1 DEF HeldNow, DoubleNow
    <2>4. QED
        BY <1>2, <1>4, <2>1, <2>2, <2>3 DEF SameForgotten
<1>7. ASSUME NEW j \in Index, OnBlockHeader(j) PROVE Stays(i, t)
    <2>1. /\ minedAt' = Append(minedAt, clock) /\ UNCHANGED <<pool, clock, asked, loose>>
          /\ job' = [job EXCEPT ![j] = "fetching"]
        BY <1>7 DEF OnBlockHeader
    <2>2. job[i] = "done"
        BY <1>1, <1>2, <2>1
    <2>3. \A k \in 1..Len(minedAt) : k \in 1..Len(minedAt') /\ minedAt'[k] = minedAt[k]
        BY <1>1, <2>1
    <2>4. Settled(t, minedAt, clock) => Settled(t, minedAt', clock)
        BY <2>3 DEF Settled
    <2>5. QED
        BY <1>2, <1>4, <2>1, <2>2, <2>4
<1>8. ASSUME NEW j \in Index, BlockFetched(j) PROVE Stays(i, t)
    <2>1. PICK work \in OnNewBlock(pool, Blocks[j], clock) :
             /\ pool' = work.pool
             /\ job' = [job EXCEPT ![j] = IF work.raised = "no" THEN "done" ELSE "raised"]
        BY <1>8 DEF BlockFetched
    <2>2. /\ UNCHANGED <<clock, asked, minedAt>>
          /\ loose' = loose \cup {u \in Blocks[j] : u \in asked \/ ForgottenBefore(u)}
        BY <1>8 DEF BlockFetched
    <2> DEFINE txs == Blocks[j]
               ids == Named(txs)
    <2>3. Sheds(pool, pool', ids, clock) /\ (work.raised = "no" => \A id \in ids : Gone(pool', id))
        <3> HIDE DEF txs
        <3>1. work \in OnNewBlock(pool, txs, clock) /\ txs \in SUBSET Tx
            BY <1>1, <2>1 DEF txs
        <3>2. pool.full \cap pool.dspends = {}
            BY <1>0 DEF HeldInv
        <3>3. QED
            BY <1>1, <2>1, <3>1, <3>2, BlockSheds
    <2>4. CASE i # j
        <3>1. job[i] = "done"
            BY <1>1, <1>2, <2>1, <2>4
        <3> HIDE DEF ids
        <3>2. loose \subseteq loose'
            BY <2>2
        <3>3. QED
            BY <1>2, <2>2, <2>3, <3>1, <3>2, <1>0, ShedsOutInv
    <2>5. CASE i = j
        <3>1. work.raised = "no"
            BY <1>1, <1>2, <2>1, <2>5
        <3>2. Txid[t] \in ids /\ WId[t] \in ids
            BY <1>2, <2>5 DEF Named
        <3>3. Gone(pool', Txid[t]) /\ Gone(pool', WId[t])
            BY <2>3, <3>1, <3>2
        <3>4. t \notin asked /\ ~ForgottenBefore(t)
            BY <1>2, <2>2, <2>5
        <3>5. \A k \in Clock : k < clock => Txid[t] \notin pool.forgetAt[k]
            BY <3>4 DEF ForgottenBefore
        <3> HIDE DEF ids
        <3>6. Txid[t] \in pool'.forget /\ \A k \in Clock : k # clock => pool'.forgetAt[k] \subseteq pool.forgetAt[k]
            BY <2>3, <3>2 DEF Sheds
        <3>7. \A k \in Clock : k < clock => k # clock
            BY <1>1, MempoolAssumption DEF Clock
        <3>8. QED
            BY <2>2, <3>3, <3>4, <3>5, <3>6, <3>7 DEF Gone
    <2>6. QED
        BY <2>4, <2>5
<1>9. ASSUME NEW j \in Index, FetchFails(j) \/ Retry(j) PROVE Stays(i, t)
    <2>1. /\ UNCHANGED <<pool, clock, asked, minedAt, loose>>
          /\ \E s \in {"given up", "waiting", "fetching"} : job' = [job EXCEPT ![j] = s]
        BY <1>9 DEF FetchFails, Retry
    <2>2. job[i] = "done"
        BY <1>1, <1>2, <2>1
    <2>3. QED
        BY <1>2, <1>4, <2>1, <2>2
<1>10. ASSUME RunTask PROVE Stays(i, t)
    <2> DEFINE none == {}
    <2>1. Sheds(pool, pool', none, clock) /\ UNCHANGED <<clock, asked, minedAt, job, loose>>
        BY <1>1, <1>10, TaskSheds DEF RunTask
    <2> HIDE DEF none
    <2>2. QED
        BY <1>2, <2>1, <1>0, ShedsOutInv
<1>11. ASSUME Tick PROVE Stays(i, t)
    <2>1. clock' = clock + 1 /\ UNCHANGED <<pool, asked, minedAt, job, loose>>
        BY <1>11 DEF Tick
    <2>2. i \in 1..Len(minedAt) /\ minedAt[i] <= clock /\ minedAt[i] \in Int
        BY <1>1, <1>2, <2>1, MempoolAssumption DEF JobInv, Clock
    <2>3. Settled(t, minedAt, clock')
        BY <1>1, <1>2, <2>1, <2>2 DEF Settled
    <2>4. QED
        BY <1>2, <1>4, <2>1, <2>3
<1>12. CASE UNCHANGED vars
    BY <1>2, <1>4, <1>12 DEF vars
<1>13. QED
    BY <1>5, <1>6, <1>7, <1>8, <1>9, <1>10, <1>11, <1>12 DEF Next, BlockStep

\* They hold at first.
LEMMA InitOut ==
    Init => JobInv /\ HeldInv /\ AskedInv /\ OutInv
<1> SUFFICES ASSUME Init PROVE JobInv /\ HeldInv /\ AskedInv /\ OutInv
    OBVIOUS
<1>1. /\ pool.seen = {} /\ pool.full = {} /\ pool.dspends = {} /\ pool.forget = {}
      /\ pool.forgetAt = Undated /\ asked = {} /\ Len(minedAt) = 0 /\ ~again
      /\ \A i \in Index : job[i] = "none"
    BY DEF Init, EmptyPool
<1>2. \A k \in Clock : pool.forgetAt[k] = {}
    BY <1>1 DEF Undated
<1>3. QED
    BY <1>1, <1>2 DEF JobInv, HeldInv, AskedInv, OutInv

\* If peers send only what they were asked for, once for each time, no transaction
\* arrives that the repository has, and what the other theorems say holds for good.
THEOREM AnswersOnce == Spec => [](Unasked = {} => ~again)
<1>1. AskedInv => (Unasked = {} => ~again)
    BY DEF AskedInv
<1>2. QED
    BY <1>1, InitTypeInv, InitOut, NextTypeInv, NextJobInv, NextAskedInv, PTL DEF Spec

\* What a block took out of the mempool stays out, unless it was still asked for,
\* is sent unasked, or had an older entry in the forget pool.
THEOREM StaysOut == Spec => []MinedStaysOut
<1>1. OutInv => MinedStaysOut
    BY DEF OutInv, MinedStaysOut
<1>2. QED
    BY <1>1, InitTypeInv, InitOut, NextTypeInv, NextJobInv, NextHeldInv, NextOutInv, PTL DEF Spec
-----------------------------------------------------------------------------
(***************************************************************************)
(* The indexes, while a removal is under way.                              *)
(***************************************************************************)
Starting == {"mined", "clean"}

\* Only a call that a block or the clean-up makes itself can meet a transaction
\* whose data is not there: below it there are only others of the kind.
Bottom(w) ==
    \A k \in 1..Len(w.todo) :
        (Deep(w, k)[1] = "tx" /\ Deep(w, k)[2] \in w.pool.seen) \/ Deep(w, k)[1] \in Starting =>
            \A j \in 1..Len(w.todo) : j < k => Deep(w, j)[1] \in Starting

\* _outpoints names who is held, or about to be taken out of it.
OutsRight(w) ==
    /\ \A o \in Outpoint, x \in WIds :
          x \in w.pool.outs[o] <=> (x \in w.pool.full /\ o \in Outpoints(x)) \/ Pending(w, <<"free", o, x>>)
    /\ \A o \in Outpoint : w.pool.outs[o] \cap w.pool.seen = {}

FreesRight(w) ==
    \A k \in 1..Len(w.todo) : Deep(w, k)[1] = "free" =>
        /\ Deep(w, k)[3] \notin w.pool.full
        /\ \A l \in 1..Len(w.todo) : k # l => Deep(w, k) # Deep(w, l)

\* _double_spends_by_outpoint names double spends, and one that is about to go is
\* taken out of it before.
DoublesRight(w) ==
    /\ \A o \in Outpoint : w.pool.dsByOut[o] \subseteq w.pool.dspends
    /\ \A k \in 1..Len(w.todo) : Deep(w, k)[1] = "dsdone" =>
          \A o \in Outpoint : Deep(w, k)[2] \in w.pool.dsByOut[o] =>
             \E j \in 1..Len(w.todo) : j > k /\ Deep(w, j) = <<"dsout", o, Deep(w, k)[2]>>

Sound(p0, now) ==
    {w \in Shrinking(p0, now) : Bottom(w) /\ (w.raised # "KeyError" =>
                                                OutsRight(w) /\ FreesRight(w) /\ DoublesRight(w))}

\* A call keeps Bottom.
LEMMA BottomStep ==
    ASSUME NEW w \in Works, NEW v \in Works, NEW now, Len(w.todo) \in Nat, Len(w.todo) > 0,
           Does(w, v, Deep(w, Len(w.todo)), now), v.raised = "no", Shrunk(w.pool, v.pool, now),
           Bottom(w), OutsRight(w)
    PROVE  Bottom(v)
<1> DEFINE n == Len(w.todo)
           m == Len(v.todo)
           call == Deep(w, n)
<1>1. Kept(w, v) /\ n \in 1..n /\ m \in Nat
    BY EffectHalts DEF Kept
<1>2. \A k \in 1..m : \/ k < n /\ k \in 1..n /\ Deep(v, k) = Deep(w, k)
                      \/ k >= n /\ Made(w.pool, call, Deep(v, k))
    BY NewCalls
<1>3. v.pool.seen \subseteq w.pool.seen
    BY DEF Shrunk
<1>4. ASSUME NEW k \in 1..m, (Deep(v, k)[1] = "tx" /\ Deep(v, k)[2] \in v.pool.seen) \/ Deep(v, k)[1] \in Starting,
             NEW j \in 1..m, j < k
      PROVE  Deep(v, j)[1] \in Starting
    <2>1. CASE k < n
        <3>1. /\ k \in 1..n /\ Deep(v, k) = Deep(w, k) /\ j \in 1..n /\ j < n
              /\ Deep(v, j) = Deep(w, j)
            BY <1>1, <1>2, <1>4, <2>1
        <3>2. QED
            BY <1>3, <1>4, <3>1 DEF Bottom
    <2>2. CASE k >= n
        <3>1. Made(w.pool, call, Deep(v, k))
            BY <1>1, <1>2, <2>2
        <3>2. call[1] # "dsout"
            <4>1. SUFFICES ASSUME call[1] = "dsout" PROVE FALSE
                OBVIOUS
            <4>2. call[2] \in Outpoint
                BY <4>1 DEF Does
            <4> HIDE DEF call
            <4>3. Deep(v, k)[1] = "tx" /\ Deep(v, k)[2] \in w.pool.outs[call[2]]
                BY <3>1, <4>1 DEF Made
            <4>4. QED
                BY <1>3, <1>4, <4>2, <4>3 DEF OutsRight, Starting
        <3>3. call[1] = "clean"
            <4> HIDE DEF call
            <4>1. QED
                BY <1>4, <3>1, <3>2 DEF Made, Starting
        <3>4. CleanEffect(w, v)
            BY <3>3 DEF Does
        <3>5. ~Returns(w, v)
            BY <1>1, <2>2 DEF Returns
        <3>6. m = n + 1 /\ Deep(v, n)[1] = "clean"
            <4>1. PICK id : m = n + 1 /\ Deep(v, n) = <<"clean", id, id>>
                BY <3>4, <3>5 DEF CleanEffect
            <4>2. QED
                BY <4>1
        <3>7. j = n \/ (j < n /\ j \in 1..n)
            BY <1>1, <1>4, <3>6
        <3>8. CASE j < n /\ j \in 1..n
            <4>1. Deep(v, j) = Deep(w, j)
                BY <1>1, <1>2, <3>8
            <4>2. QED
                BY <1>1, <3>3, <3>8, <4>1 DEF Bottom, Starting
        <3>9. QED
            BY <3>6, <3>7, <3>8 DEF Starting
    <2>3. QED
        BY <1>1, <2>1, <2>2
<1>5. QED
    BY <1>4 DEF Bottom

\* A call keeps OutsRight: what left its outpoints is about to be freed.
LEMMA OutsStep ==
    ASSUME NEW w \in Works, NEW v \in Works, NEW now, Len(w.todo) \in Nat, Len(w.todo) > 0,
           Does(w, v, Deep(w, Len(w.todo)), now), v.raised = "no", Shrunk(w.pool, v.pool, now),
           OutsRight(w), FreesRight(w), Deep(w, Len(w.todo)) \in CallSet
    PROVE  OutsRight(v)
<1> DEFINE n == Len(w.todo)
           call == Deep(w, n)
           p == w.pool
           q == v.pool
<1>1. n \in 1..n /\ Touches(p, q, call, now)
    BY CallTouches
<1>2. \A c : /\ Pending(w, c) /\ c # call => Pending(v, c)
             /\ Pending(v, c) => Pending(w, c) \/ Made(p, call, c)
    BY PendingStep
<1>3. \A o \in Outpoint, x \in WIds :
         x \in p.outs[o] <=> (x \in p.full /\ o \in Outpoints(x)) \/ Pending(w, <<"free", o, x>>)
    BY DEF OutsRight
<1>4. \A o \in Outpoint : q.outs[o] \cap q.seen = {}
    BY DEF OutsRight, Shrunk
<1>5. p \in Entries /\ Indexed(p)
    BY DEF Works, Pools
<1>6. SUFFICES ASSUME NEW o \in Outpoint, NEW x \in WIds
               PROVE  x \in q.outs[o] <=> (x \in q.full /\ o \in Outpoints(x)) \/ Pending(v, <<"free", o, x>>)
    BY <1>4 DEF OutsRight
<1> DEFINE c == <<"free", o, x>>
<1>7. c[1] = "free" /\ c[2] = o /\ c[3] = x
    OBVIOUS
<1>8. CASE call[1] = "free"
    <2>1. FreeEffect(w, v, call[2]) /\ call[2] \in Outpoint
        BY <1>8 DEF Does
    <2>2. p.outs[call[2]] # {} /\ q.outs = [p.outs EXCEPT ![call[2]] = {}] /\ q.full = p.full
        BY <2>1 DEF FreeEffect, Ends, SameEntries
    <2>3. Pending(v, c) => Pending(w, c)
        <3> HIDE DEF call, c
        <3>1. ~Made(p, call, c)
            BY <1>7, <1>8 DEF Made
        <3>2. QED
            BY <1>2, <3>1
    <2>4. CASE o # call[2]
        <3>1. Pending(w, c) => Pending(v, c)
            BY <1>2, <2>4
        <3>2. q.outs[o] = p.outs[o]
            BY <1>5, <2>2, <2>4 DEF Entries
        <3> HIDE DEF p, q, call
        <3>3. QED
            BY <1>3, <2>2, <2>3, <3>1, <3>2
    <2>5. CASE o = call[2]
        <3>1. q.outs[o] = {}
            BY <1>5, <2>2, <2>5 DEF Entries
        <3>2. SUFFICES ASSUME (x \in p.full /\ o \in Outpoints(x)) \/ Pending(v, c) PROVE FALSE
            BY <2>2, <3>1
        <3>3. x \in p.outs[o]
            BY <1>3, <2>3, <3>2
        <3>4. call = <<"free", o, call[3]>> /\ call[3] \in WIds
            BY <1>8, <2>5 DEF CallSet
        <3>5. Pending(w, <<"free", o, call[3]>>)
            BY <1>1, <3>4 DEF Pending
        <3>6. call[3] \in p.outs[o]
            BY <1>3, <3>4, <3>5
        <3>7. call[3] = x
            BY <1>5, <3>3, <3>6 DEF Indexed
        <3>8. x \notin p.full
            BY <1>1, <1>8, <3>7 DEF FreesRight
        <3>9. PICK k \in 1..Len(v.todo) : Deep(v, k) = c
            BY <3>2, <3>8 DEF Pending
        <3>10. \/ k < n /\ k \in 1..n /\ Deep(v, k) = Deep(w, k)
               \/ Made(p, call, c)
            BY <3>9, NewCalls
        <3>11. k < n /\ k \in 1..n /\ Deep(w, k) = call
            <4>1. ~Made(p, call, c)
                <5> HIDE DEF call, c
                <5>1. QED
                    BY <1>7, <1>8 DEF Made
            <4>2. QED
                BY <3>4, <3>7, <3>9, <3>10, <4>1
        <3>12. QED
            BY <1>1, <1>8, <3>11 DEF FreesRight
    <2>6. QED
        BY <2>4, <2>5
<1>9. CASE call[1] \in {"tx", "mined"} /\ call[2] \in p.full \ p.seen
    <2> DEFINE id == call[2]
    <2>1. TxEffect(w, v, id)
        BY <1>9 DEF Does, MinedEffect
    <2>2. /\ q.outs = p.outs /\ q.full = p.full \ {id} /\ Kept(w, v)
          /\ OnTop(v, n + 1, "free", Outpoints(id), id)
        BY <1>9, <2>1 DEF TxEffect, SameOutpoints, Ends
    <2>3. \A oo \in Outpoints(id) : Pending(v, <<"free", oo, id>>)
        <3> TAKE oo \in Outpoints(id)
        <3>1. PICK k \in (n + 1)..Len(v.todo) : Deep(v, k) = <<"free", oo, id>>
            BY <2>2 DEF OnTop
        <3>2. k \in 1..Len(v.todo)
            BY <1>1, <2>2 DEF Kept
        <3>3. QED
            BY <3>1, <3>2 DEF Pending
    <2>4. Pending(w, c) => Pending(v, c)
        BY <1>2, <1>7, <1>9
    <2>5. Pending(v, c) => Pending(w, c) \/ (x = id /\ o \in Outpoints(id))
        <3>1. Made(p, call, c) => x = id /\ o \in Outpoints(id)
            <4> HIDE DEF c
            <4>1. Made(p, call, c) => c[2] \in Outpoints(id) /\ c[3] = id
                <5> HIDE DEF call
                <5>1. QED
                    BY <1>7, <1>9 DEF Made
            <4>2. QED
                BY <1>7, <4>1
        <3>2. QED
            BY <1>2, <3>1
    <2>6. id \in p.full
        BY <1>9
    <2> HIDE DEF p, q, call, id, c
    <2>7. CASE x = id
        <3>1. o \in Outpoints(id) => Pending(v, c)
            BY <2>3, <2>7 DEF c
        <3>2. Pending(w, c) => x \in p.outs[o]
            BY <1>3 DEF c
        <3>3. x \in p.outs[o] => o \in Outpoints(x)
            BY <1>5 DEF Indexed, p
        <3>4. QED
            BY <1>3, <2>2, <2>5, <2>6, <2>7, <3>1, <3>2, <3>3 DEF c
    <2>8. CASE x # id
        BY <1>3, <2>2, <2>4, <2>5, <2>8 DEF c
    <2>9. QED
        BY <2>7, <2>8 DEF c
<1>10. CASE call[1] # "free" /\ ~(call[1] \in {"tx", "mined"} /\ call[2] \in p.full \ p.seen)
    <2>1. q.outs = p.outs
        BY <1>1, <1>10 DEF Touches
    <2>2. q.full = p.full
        <3>1. CASE call[1] \notin {"tx", "mined"}
            BY <1>1, <3>1 DEF Touches, Loses
        <3>2. CASE call[1] \in {"tx", "mined"} /\ call[2] \notin p.full
            BY <1>1, <3>2 DEF Touches
        <3>3. CASE call[1] \in {"tx", "mined"} /\ call[2] \in p.seen
            <4>1. TxEffect(w, v, call[2])
                BY <3>3 DEF Does, MinedEffect
            <4>2. QED
                BY <3>3, <4>1 DEF TxEffect, Ends
        <3>4. QED
            BY <1>10, <3>1, <3>2, <3>3
    <2>3. Pending(w, c) => Pending(v, c)
        BY <1>2, <1>7, <1>10
    <2>4. Pending(v, c) => Pending(w, c)
        <3>1. ~Made(p, call, c)
            <4> HIDE DEF call, c
            <4>1. QED
                BY <1>7, <1>10 DEF Made
        <3>2. QED
            BY <1>2, <3>1
    <2>5. QED
        BY <1>3, <2>1, <2>2, <2>3, <2>4
<1>11. QED
    BY <1>8, <1>9, <1>10

\* A call keeps FreesRight.
LEMMA FreesStep ==
    ASSUME NEW w \in Works, NEW v \in Works, NEW now, Len(w.todo) \in Nat, Len(w.todo) > 0,
           Does(w, v, Deep(w, Len(w.todo)), now), v.raised = "no", Shrunk(w.pool, v.pool, now),
           FreesRight(w)
    PROVE  FreesRight(v)
<1> DEFINE n == Len(w.todo)
           m == Len(v.todo)
           call == Deep(w, n)
           id == call[2]
           p == w.pool
           q == v.pool
<1>1. Kept(w, v) /\ n \in 1..n /\ m \in Nat /\ Touches(p, q, call, now)
    BY EffectHalts, CallTouches DEF Kept
<1>2. \A k \in 1..m : \/ k < n /\ k \in 1..n /\ Deep(v, k) = Deep(w, k)
                      \/ k >= n /\ Made(p, call, Deep(v, k))
    BY NewCalls
<1>3. q.full \subseteq p.full
    BY DEF Shrunk
<1>4. ASSUME NEW k \in 1..m, k >= n, Deep(v, k)[1] = "free"
      PROVE  /\ call[1] \in {"tx", "mined"} /\ id \in p.full \ p.seen /\ Deep(v, k)[3] = id
             /\ k \in (n + 1)..m /\ OnTop(v, n + 1, "free", Outpoints(id), id)
    <2>1. Made(p, call, Deep(v, k))
        BY <1>1, <1>2, <1>4
    <2>2. call[1] \in {"tx", "mined"} /\ id \in p.full \ p.seen /\ Deep(v, k)[3] = id
        <3> HIDE DEF call
        <3>1. QED
            BY <1>4, <2>1 DEF Made
    <2>3. TxEffect(w, v, id)
        BY <2>2 DEF Does, MinedEffect
    <2>4. Deep(v, n) = <<"forget", id, id>> /\ OnTop(v, n + 1, "free", Outpoints(id), id)
        BY <2>2, <2>3 DEF TxEffect, Ends
    <2>5. k # n
        BY <1>4, <2>4
    <2>6. QED
        BY <1>1, <1>4, <2>2, <2>4, <2>5
<1>5. ASSUME NEW k \in 1..m, k < n, Deep(v, k)[1] = "free"
      PROVE  Deep(v, k)[3] \notin p.full /\ k \in 1..n /\ Deep(w, k) = Deep(v, k)
    BY <1>1, <1>2, <1>5 DEF FreesRight
<1>6. ASSUME NEW k \in 1..m, Deep(v, k)[1] = "free" PROVE Deep(v, k)[3] \notin q.full
    <2>1. CASE k < n
        BY <1>3, <1>5, <1>6, <2>1
    <2>2. CASE k >= n
        <3>1. Deep(v, k)[3] = id /\ q.full = p.full \ {id}
            BY <1>1, <1>4, <1>6, <2>2 DEF Touches
        <3>2. QED
            BY <3>1
    <2>3. QED
        BY <1>1, <2>1, <2>2
<1>7. ASSUME NEW k \in 1..m, Deep(v, k)[1] = "free", NEW l \in 1..m, k # l
      PROVE  Deep(v, k) # Deep(v, l)
    <2>1. SUFFICES ASSUME Deep(v, k) = Deep(v, l) PROVE FALSE
        OBVIOUS
    <2>2. Deep(v, l)[1] = "free"
        BY <1>7, <2>1
    <2>3. CASE k < n /\ l < n
        <3>1. Deep(w, k) = Deep(w, l) /\ k \in 1..n /\ l \in 1..n /\ Deep(w, k)[1] = "free"
            BY <1>5, <1>7, <2>1, <2>2, <2>3
        <3>2. QED
            BY <1>7, <3>1 DEF FreesRight
    <2>4. CASE k < n /\ l >= n
        BY <1>4, <1>5, <1>7, <2>1, <2>2, <2>4
    <2>5. CASE k >= n /\ l < n
        BY <1>4, <1>5, <1>7, <2>1, <2>2, <2>5
    <2>6. CASE k >= n /\ l >= n
        <3>1. k \in (n + 1)..m /\ l \in (n + 1)..m /\ OnTop(v, n + 1, "free", Outpoints(id), id)
            BY <1>4, <1>7, <2>2, <2>6
        <3>2. QED
            BY <1>7, <2>1, <3>1 DEF OnTop
    <2>7. QED
        BY <1>1, <2>3, <2>4, <2>5, <2>6
<1>8. QED
    BY <1>6, <1>7 DEF FreesRight

\* A call keeps DoublesRight.
LEMMA DoublesStep ==
    ASSUME NEW w \in Works, NEW v \in Works, NEW now, Len(w.todo) \in Nat, Len(w.todo) > 0,
           Does(w, v, Deep(w, Len(w.todo)), now), v.raised = "no", Shrunk(w.pool, v.pool, now),
           DoublesRight(w)
    PROVE  DoublesRight(v)
<1> DEFINE n == Len(w.todo)
           m == Len(v.todo)
           call == Deep(w, n)
           id == call[2]
           p == w.pool
           q == v.pool
<1>1. Kept(w, v) /\ n \in 1..n /\ m \in Nat /\ Touches(p, q, call, now)
    BY EffectHalts, CallTouches DEF Kept
<1>2. \A k \in 1..m : \/ k < n /\ k \in 1..n /\ Deep(v, k) = Deep(w, k)
                      \/ k >= n /\ Made(p, call, Deep(v, k))
    BY NewCalls
<1>3. /\ \A o \in Outpoint : q.dsByOut[o] \subseteq p.dsByOut[o] /\ p.dsByOut[o] \subseteq p.dspends
      /\ p \in Entries /\ Indexed(p)
    BY DEF Shrunk, DoublesRight, Works, Pools
<1>4. ASSUME NEW o \in Outpoint PROVE q.dsByOut[o] \subseteq q.dspends
    <2>1. CASE call[1] = "dsdone"
        <3>1. id \notin p.dsByOut[o]
            BY <1>1, <2>1 DEF DoublesRight
        <3>2. q.dspends = p.dspends \/ q.dspends = p.dspends \ {id}
            BY <1>1 DEF Touches, Loses
        <3>3. QED
            BY <1>3, <3>1, <3>2
    <2>2. CASE call[1] # "dsdone"
        BY <1>1, <1>3, <2>2 DEF Touches, Loses
    <2>3. QED
        BY <2>1, <2>2
<1>5. ASSUME NEW k \in 1..m, Deep(v, k)[1] = "dsdone", NEW o \in Outpoint, Deep(v, k)[2] \in q.dsByOut[o]
      PROVE  \E j \in 1..m : j > k /\ Deep(v, j) = <<"dsout", o, Deep(v, k)[2]>>
    <2> DEFINE d == Deep(v, k)[2]
    <2>1. CASE k < n
        <3>1. k \in 1..n /\ Deep(w, k) = Deep(v, k) /\ d \in p.dsByOut[o]
            BY <1>1, <1>2, <1>3, <1>5, <2>1
        <3>2. PICK j \in 1..n : j > k /\ Deep(w, j) = <<"dsout", o, d>>
            BY <1>5, <3>1 DEF DoublesRight
        <3>3. j # n
            <4>1. SUFFICES ASSUME j = n PROVE FALSE
                OBVIOUS
            <4> HIDE DEF d
            <4>2. call[1] = "dsout" /\ call[2] = o /\ call[3] = d
                BY <3>2, <4>1
            <4>3. DsoutEffect(w, v, o, d)
                BY <4>2 DEF Does
            <4>4. d \notin q.dsByOut[o]
                BY <1>3, <4>3 DEF DsoutEffect, Ends, Entries
            <4>5. QED
                BY <1>5, <4>4 DEF d
        <3>4. j < n /\ Deep(v, j) = Deep(w, j) /\ j \in 1..m
            BY <1>1, <3>3 DEF Kept
        <3>5. QED
            BY <3>2, <3>4
    <2>2. CASE k >= n
        <3>1. Made(p, call, Deep(v, k))
            BY <1>1, <1>2, <2>2
        <3>2. call[1] \in {"dspend", "mined"} /\ id \in p.dspends /\ Deep(v, k) = <<"dsdone", id, id>>
            <4> HIDE DEF call
            <4>1. QED
                BY <1>5, <3>1 DEF Made
        <3>3. DspendEffect(w, v, id)
            <4>1. CASE call[1] = "dspend"
                BY <4>1 DEF Does
            <4>2. CASE call[1] = "mined"
                <5>1. (MinedEffect(w, v, id) /\ v.pool = w.pool) \/ TxEffect(w, v, id)
                    BY <4>2 DEF Does, MinedEffect, DspendEffect
                <5>2. ~TxEffect(w, v, id)
                    <6>1. SUFFICES ASSUME TxEffect(w, v, id) PROVE FALSE
                        OBVIOUS
                    <6>2. \/ k = n /\ Deep(v, n) = <<"forget", id, id>>
                          \/ k \in (n + 1)..m /\ OnTop(v, n + 1, "free", Outpoints(id), id)
                        BY <1>1, <2>2, <6>1 DEF TxEffect, Ends
                    <6>3. Deep(v, k)[1] = "forget" \/ Deep(v, k)[1] = "free"
                        <7>1. CASE k = n /\ Deep(v, n) = <<"forget", id, id>>
                            BY <7>1
                        <7>2. CASE k \in (n + 1)..m /\ OnTop(v, n + 1, "free", Outpoints(id), id)
                            <8>1. PICK y : Deep(v, k) = <<"free", y, id>>
                                BY <7>2 DEF OnTop
                            <8>2. QED
                                BY <8>1
                        <7>3. QED
                            BY <6>2, <7>1, <7>2
                    <6>4. QED
                        BY <1>5, <6>3
                <5>3. ~Returns(w, v)
                    BY <1>1, <2>2 DEF Returns
                <5>4. QED
                    BY <4>2, <5>2, <5>3 DEF Does, MinedEffect
            <4>3. QED
                BY <3>2, <4>1, <4>2
        <3>4. OnTop(v, n + 1, "dsout", Outpoints(id), id)
            BY <3>3 DEF DspendEffect, Ends
        <3>5. k = n
            <4>1. CASE k \in (n + 1)..m
                <5>1. PICK y : Deep(v, k) = <<"dsout", y, id>>
                    BY <3>4, <4>1 DEF OnTop
                <5>2. QED
                    BY <1>5, <5>1
            <4>2. QED
                BY <1>1, <2>2, <4>1
        <3>6. d = id
            BY <3>2
        <3>7. o \in Outpoints(id)
            BY <1>3, <1>5, <3>6 DEF Indexed
        <3>8. PICK j \in (n + 1)..m : Deep(v, j) = <<"dsout", o, id>>
            BY <3>4, <3>7 DEF OnTop
        <3>9. j \in 1..m /\ j > k
            BY <1>1, <3>5
        <3>10. QED
            BY <3>6, <3>8, <3>9
    <2>3. QED
        BY <1>1, <2>1, <2>2
<1>6. QED
    BY <1>4, <1>5 DEF DoublesRight

\* Only the removal of what was seen without its data raises a TypeError.
LEMMA TypeErrors ==
    ASSUME NEW w, NEW v, NEW now, NEW call, Does(w, v, call, now), v.raised = "TypeError"
    PROVE  call[1] \in {"tx", "mined"} /\ call[2] \in w.pool.seen /\ TxEffect(w, v, call[2])
<1> DEFINE id == call[2]
<1>1. ASSUME TxEffect(w, v, id) PROVE id \in w.pool.seen
    BY <1>1 DEF TxEffect, Kept
<1>2. ~DspendEffect(w, v, id) /\ ~Returns(w, v) /\ ~FreeEffect(w, v, id)
    BY DEF DspendEffect, Returns, FreeEffect, Kept, Ends
<1>3. ~CleanEffect(w, v) /\ \A d : ~DsoutEffect(w, v, id, d)
    BY DEF CleanEffect, Returns, DsoutEffect, Kept, Ends
<1>4. QED
    BY <1>1, <1>2, <1>3 DEF Does, MinedEffect, DsdoneEffect, ForgetEffect

\* Every step of a removal keeps the indexes sound.
LEMMA SoundCloses ==
    ASSUME NEW p0, NEW now \in Clock, p0.seen \cap p0.full = {}
    PROVE  \A w \in Sound(p0, now) : Step(w, now) \subseteq Sound(p0, now)
<1> SUFFICES ASSUME NEW w \in Sound(p0, now), NEW v \in Step(w, now)
             PROVE  v \in Sound(p0, now)
    OBVIOUS
<1> DEFINE n == Len(w.todo)
           call == Deep(w, n)
           id == call[2]
<1>1. w \in Shrinking(p0, now) /\ Bottom(w)
    BY DEF Sound
<1>2. /\ v \in Shrinking(p0, now)
      /\ \/ v = w
         \/ /\ w.raised = "no" /\ Shrunk(w.pool, v.pool, now)
            /\ n \in Nat /\ n > 0 /\ call \in CallSet /\ Does(w, v, call, now)
    BY <1>1, ShrinkingStep
<1>3. CASE v = w
    BY <1>3
<1>4. CASE /\ w.raised = "no" /\ Shrunk(w.pool, v.pool, now)
           /\ n \in Nat /\ n > 0 /\ call \in CallSet /\ Does(w, v, call, now)
    <2>1. OutsRight(w) /\ FreesRight(w) /\ DoublesRight(w)
        BY <1>4 DEF Sound
    <2>2. w \in Works /\ v \in Works /\ v.raised \in {"no", "TypeError", "KeyError"}
          /\ (v.raised # "no" => v.todo = <<>>) /\ Shrunk(p0, w.pool, now)
        BY <1>1, <1>2 DEF Shrinking, Works
    <2>3. CASE v.raised = "no"
        BY <1>1, <1>2, <1>4, <2>1, <2>2, <2>3, BottomStep, OutsStep, FreesStep, DoublesStep DEF Sound
    <2>4. ASSUME v.raised # "no" PROVE Len(v.todo) = 0 /\ Bottom(v) /\ \A c : ~Pending(v, c)
        <3>1. Len(v.todo) = 0
            BY <2>2, <2>4
        <3>2. QED
            BY <3>1 DEF Bottom, Pending
    <2>5. CASE v.raised = "KeyError"
        BY <1>2, <2>4, <2>5 DEF Sound
    <2>6. CASE v.raised = "TypeError"
        <3>1. call[1] \in {"tx", "mined"} /\ id \in w.pool.seen /\ TxEffect(w, v, id)
            BY <1>4, <2>6, TypeErrors
        <3>2. \A k \in 1..n : Deep(w, k)[1] # "free"
            <4> TAKE k \in 1..n
            <4>1. CASE k = n
                BY <3>1, <4>1
            <4>2. CASE k < n
                <5>1. n \in 1..n
                    BY <1>4
                <5>2. Deep(w, k)[1] \in Starting
                    BY <1>1, <3>1, <4>2, <5>1 DEF Bottom, Starting
                <5>3. QED
                    BY <5>2 DEF Starting
            <4>3. QED
                BY <1>4, <4>1, <4>2
        <3>3. \A o, x : ~Pending(w, <<"free", o, x>>)
            <4> TAKE o, x
            <4> DEFINE c == <<"free", o, x>>
            <4>1. c[1] = "free"
                OBVIOUS
            <4> HIDE DEF c
            <4>2. ~Pending(w, c)
                BY <3>2, <4>1 DEF Pending
            <4>3. QED
                BY <4>2 DEF c
        <3>4. id \notin w.pool.full
            BY <2>2, <3>1 DEF Shrunk
        <3>5. /\ v.pool.outs = w.pool.outs /\ v.pool.full = w.pool.full /\ v.pool.seen \subseteq w.pool.seen
              /\ v.pool.dsByOut = w.pool.dsByOut /\ v.pool.dspends = w.pool.dspends
            BY <3>1, <3>4 DEF TxEffect, SameOutpoints
        <3>6. OutsRight(v)
            BY <2>1, <2>4, <2>6, <3>3, <3>5 DEF OutsRight
        <3>7. FreesRight(v) /\ DoublesRight(v)
            BY <2>1, <2>4, <2>6, <3>5 DEF FreesRight, DoublesRight
        <3>8. QED
            BY <1>2, <2>4, <2>6, <3>6, <3>7 DEF Sound
    <2>7. QED
        BY <2>2, <2>3, <2>5, <2>6
<1>5. QED
    BY <1>2, <1>3, <1>4

\* The indexes between two handlers.
Agreed(p) ==
    \A o \in Outpoint :
       /\ \A x \in WIds : x \in p.outs[o] <=> x \in p.full /\ o \in Outpoints(x)
       /\ p.dsByOut[o] \subseteq p.dspends

\* The indexes of a pool at rest are sound.
LEMMA SoundStart ==
    ASSUME NEW p \in Pools, p.seen \cap p.full = {}, Agreed(p), NEW now \in Clock, NEW w \in Works,
           w.pool = p, w.raised = "no", \A k \in 1..Len(w.todo) : Deep(w, k)[1] \in Starting
    PROVE  w \in Sound(p, now)
<1>1. w \in Shrinking(p, now)
    BY DEF Shrinking, Shrunk, SameCounters
<1>2. Bottom(w)
    BY DEF Bottom
<1>3. \A k \in 1..Len(w.todo) : Deep(w, k)[1] # "free" /\ Deep(w, k)[1] # "dsdone"
    BY DEF Starting
<1>4. \A o, x : ~Pending(w, <<"free", o, x>>)
    <2> TAKE o, x
    <2> DEFINE c == <<"free", o, x>>
    <2>1. c[1] = "free"
        OBVIOUS
    <2> HIDE DEF c
    <2>2. ~Pending(w, c)
        BY <1>3, <2>1 DEF Pending
    <2>3. QED
        BY <2>2 DEF c
<1>5. \A o \in Outpoint : p.outs[o] \cap p.seen = {}
    <2>1. \A o \in Outpoint : p.outs[o] \subseteq WIds
        BY DEF Pools, Entries
    <2>2. QED
        BY <2>1 DEF Agreed
<1>6. OutsRight(w) /\ FreesRight(w) /\ DoublesRight(w)
    BY <1>3, <1>4, <1>5 DEF OutsRight, FreesRight, DoublesRight, Agreed
<1>7. QED
    BY <1>1, <1>2, <1>6 DEF Sound

\* When the removal is over without a KeyError, they agree again.
LEMMA SoundEnd ==
    ASSUME NEW p0, NEW now, NEW w \in Sound(p0, now), w.todo = <<>>, w.raised # "KeyError"
    PROVE  Agreed(w.pool)
<1>1. OutsRight(w) /\ DoublesRight(w)
    BY DEF Sound
<1>2. \A c : ~Pending(w, c)
    <2>1. Len(w.todo) = 0
        OBVIOUS
    <2>2. QED
        BY <2>1 DEF Pending
<1>3. QED
    BY <1>1, <1>2 DEF OutsRight, DoublesRight, Agreed

\* The removals of a block keep the indexes.
LEMMA BlockSound ==
    ASSUME NEW p \in Pools, p.seen \cap p.full = {}, Agreed(p), NEW txs \in SUBSET Tx,
           NEW now \in Clock, NEW work \in OnNewBlock(p, txs, now)
    PROVE  work \in Sound(Forget(p, Named(txs), now), now) /\ work.todo = <<>>
<1> DEFINE ids == Named(txs)
           p0 == Forget(p, ids, now)
           S == Sound(p0, now)
<1>1. ids \in SUBSET Id
    BY NamedIds
<1> HIDE DEF ids
<1>2. p0 \in Pools /\ p0.seen \cap p0.full = {} /\ Agreed(p0)
    <2>1. p0 = Forget(p, ids, now)
        OBVIOUS
    <2> HIDE DEF p0, S
    <2>2. p0 \in Pools /\ ForgetsNow(p, p0, ids, now)
        BY <1>1, <2>1, ForgetIsPool
    <2>3. QED
        BY <2>2 DEF ForgetsNow, SameHeld, Agreed
<1> HIDE DEF p0
<1>3. \A w \in Works : BlockStarts(w, p, txs, now) => w \in S
    <2> TAKE w \in Works
    <2> HAVE BlockStarts(w, p, txs, now)
    <2>1. w.pool = p0 /\ w.raised = "no" /\ AllMined(w, ids)
        BY DEF BlockStarts, p0, ids
    <2>2. \A k \in 1..Len(w.todo) : Deep(w, k)[1] \in Starting
        BY <2>1 DEF AllMined, Starting
    <2>3. QED
        BY <1>2, <2>1, <2>2, SoundStart
<1>4. \A w \in S : Step(w, now) \subseteq S
    BY <1>2, SoundCloses
<1> HIDE DEF S
<1>5. OnNewBlock(p, txs, now) \subseteq {w \in S : w.todo = <<>>}
    BY <1>3, <1>4, BlockRun
<1>6. QED
    BY <1>5 DEF S, p0, ids

\* The removals of a clean-up keep the indexes.
LEMMA CleanSound ==
    ASSUME NEW p \in Pools, p.seen \cap p.full = {}, Agreed(p), NEW now \in Clock,
           NEW v \in CleanMempool(p, now), v.raised # "KeyError"
    PROVE  Agreed(v.pool)
<1> DEFINE S == Sound(p, now)
<1>1. \A w \in Works : CleanStarts(w, p) => w \in S
    <2> TAKE w \in Works
    <2> HAVE CleanStarts(w, p)
    <2>1. w.pool = p /\ w.raised = "no" /\ \A k \in 1..Len(w.todo) : Deep(w, k)[1] \in Starting
        BY DEF CleanStarts, Starting
    <2>2. QED
        BY <2>1, SoundStart
<1>2. S \in SUBSET Works /\ \A w \in S : Step(w, now) \subseteq S
    BY SoundCloses DEF Sound, Shrinking
<1> HIDE DEF S
<1>3. \A u \in CleanMempool(p, now) :
         \E w \in S : /\ w.todo = <<>> /\ u.raised = w.raised
                      /\ u.pool \in Pools /\ Unlocks(w.pool, u.pool)
    BY <1>1, <1>2, CleanRun
<1>4. PICK w \in S : w.todo = <<>> /\ v.raised = w.raised /\ Unlocks(w.pool, v.pool)
    BY <1>3
<1>5. Agreed(w.pool)
    BY <1>4, SoundEnd DEF S
<1>6. QED
    BY <1>4, <1>5 DEF Agreed, Unlocks, SameHeld

IndexInv == ~torn /\ ~again => Agreed(pool)

\* Every step keeps IndexInv.
LEMMA NextIndexInv ==
    TypeInv /\ IndexInv /\ [Next]_vars => IndexInv'
<1> SUFFICES ASSUME TypeInv, IndexInv, [Next]_vars, ~torn', ~again' PROVE Agreed(pool')
    BY DEF IndexInv
<1>0. ~again
    BY AgainStays
<1>1. /\ pool \in Pools /\ clock \in Clock /\ asked \subseteq Tx /\ pool.seen \cap pool.full = {}
      /\ torn \in BOOLEAN
    BY DEF TypeInv
<1>2. ASSUME NEW t \in Tx, OnTransactionHash(t) PROVE Agreed(pool')
    <2>1. pool'.full = pool.full /\ pool'.dspends = pool.dspends /\ SameOutpoints(pool, pool') /\ ~torn
        BY <1>1, <1>2, IdFacts, AddSeenFields DEF OnTransactionHash
    <2>2. QED
        BY <1>0, <2>1 DEF IndexInv, Agreed, SameOutpoints
<1>3. ASSUME NEW t \in Tx, OnTransaction(t) PROVE Agreed(pool')
    <2>1. ~torn /\ WId[t] \notin pool.full \cup pool.dspends /\ (HeldNow(pool, pool', t, clock) \/ DoubleNow(pool, pool', t))
        BY <1>1, <1>3, AddFields DEF OnTransaction
    <2>2. Agreed(pool)
        BY <1>0, <2>1 DEF IndexInv
    <2>3. WId[t] \notin pool.full \cup pool.dspends /\ WId[t] \in WIds /\ Outpoints(WId[t]) = Spends[t]
        BY <2>1, IdFacts
    <2>4. pool.outs \in [Outpoint -> SUBSET WIds] /\ pool.dsByOut \in [Outpoint -> SUBSET WIds]
        BY <1>1 DEF Pools, Entries
    <2> HIDE DEF Agreed
    <2> SUFFICES ASSUME NEW o \in Outpoint
                 PROVE  /\ \A x \in WIds : x \in pool'.outs[o] <=> x \in pool'.full /\ o \in Outpoints(x)
                        /\ pool'.dsByOut[o] \subseteq pool'.dspends
        BY DEF Agreed
    <2>5. /\ \A x \in WIds : x \in pool.outs[o] <=> x \in pool.full /\ o \in Outpoints(x)
          /\ pool.dsByOut[o] \subseteq pool.dspends
        BY <2>2 DEF Agreed
    <2>6. CASE HeldNow(pool, pool', t, clock)
        <3>1. /\ pool'.outs[o] = IF o \in Spends[t] THEN pool.outs[o] \cup {WId[t]} ELSE pool.outs[o]
              /\ pool'.dsByOut = pool.dsByOut /\ pool'.dspends = pool.dspends
              /\ pool'.full = pool.full \cup {WId[t]}
            <4>1. /\ pool'.outs = Hold(pool.outs, t)
                  /\ pool'.dsByOut = pool.dsByOut /\ pool'.dspends = pool.dspends
                  /\ pool'.full = pool.full \cup {WId[t]}
                BY <2>6 DEF HeldNow
            <4>2. Hold(pool.outs, t)[o] = IF o \in Spends[t] THEN pool.outs[o] \cup {WId[t]} ELSE pool.outs[o]
                BY DEF Hold
            <4>3. QED
                BY ONLY <4>1, <4>2
        <3> HIDE DEF Outpoints
        <3>2. QED
            BY ONLY <2>3, <2>5, <3>1
    <2>7. CASE DoubleNow(pool, pool', t)
        <3>1. /\ pool'.dsByOut[o] = IF o \in Spends[t] THEN pool.dsByOut[o] \cup {WId[t]} ELSE pool.dsByOut[o]
              /\ pool'.outs = pool.outs /\ pool'.dspends = pool.dspends \cup {WId[t]}
              /\ pool'.full = pool.full \ {WId[t]}
            <4>1. /\ pool'.dsByOut = Hold(pool.dsByOut, t)
                  /\ pool'.outs = pool.outs /\ pool'.dspends = pool.dspends \cup {WId[t]}
                  /\ pool'.full = pool.full \ {WId[t]}
                BY <2>7 DEF DoubleNow
            <4>2. Hold(pool.dsByOut, t)[o] = IF o \in Spends[t] THEN pool.dsByOut[o] \cup {WId[t]} ELSE pool.dsByOut[o]
                BY DEF Hold
            <4>3. QED
                BY ONLY <4>1, <4>2
        <3> HIDE DEF Outpoints
        <3>2. QED
            BY ONLY <2>3, <2>5, <3>1
    <2>8. QED
        BY <2>1, <2>6, <2>7
<1>4. ASSUME NEW i \in Index, BlockFetched(i) PROVE Agreed(pool')
    <2>1. PICK work \in OnNewBlock(pool, Blocks[i], clock) :
             pool' = work.pool /\ torn' = (torn \/ work.raised = "KeyError")
        BY <1>4 DEF BlockFetched
    <2> DEFINE txs == Blocks[i]
               p0 == Forget(pool, Named(txs), clock)
    <2>2. work \in OnNewBlock(pool, txs, clock) /\ txs \in SUBSET Tx /\ ~torn /\ work.raised # "KeyError"
        BY <1>1, <2>1, IndexFacts
    <2> HIDE DEF txs
    <2>3. work \in Sound(p0, clock) /\ work.todo = <<>>
        BY <1>0, <1>1, <2>2, BlockSound DEF IndexInv
    <2> HIDE DEF p0
    <2>4. QED
        BY <2>1, <2>2, <2>3, SoundEnd
<1>5. ASSUME RunTask PROVE Agreed(pool')
    <2>1. PICK task \in Task, rest \in Pools : TakesFirst(pool, rest, task) /\ Runs(task, rest)
        BY <1>1, <1>5, TaskRuns
    <2>2. ~torn
        BY <1>1, <2>1 DEF Runs
    <2>3. Agreed(rest) /\ rest.seen \cap rest.full = {}
        BY <1>0, <1>1, <2>1, <2>2 DEF IndexInv, Agreed, TakesFirst, SameHeld
    <2>4. CASE \E sign, size : Projects(rest, pool', sign, size)
        BY <2>3, <2>4 DEF Projects, SameHeld, Agreed
    <2>5. CASE CleansForget(rest, pool', clock)
        BY <2>3, <2>5 DEF CleansForget, SameHeld, Agreed
    <2>6. CASE \E v \in CleanMempool(rest, clock) : pool' = v.pool /\ torn' = (torn \/ v.raised = "KeyError")
        <3>1. PICK v \in CleanMempool(rest, clock) : pool' = v.pool /\ v.raised # "KeyError"
            BY <2>6
        <3>2. QED
            BY <1>1, <2>3, <3>1, CleanSound
    <2>7. QED
        BY <2>1, <2>4, <2>5, <2>6 DEF Runs
<1>6. CASE UNCHANGED <<pool, torn>>
    BY <1>0, <1>6 DEF IndexInv
<1>7. QED
    BY <1>2, <1>3, <1>4, <1>5, <1>6
    DEF Next, BlockStep, OnBlockHeader, FetchFails, Retry, Tick, vars

\* _outpoints names exactly the transactions held, one for each outpoint, and
\* _double_spends_by_outpoint only known double spends that spend the outpoint.
THEOREM Indexes == Spec => []IndexesAgree
<1>1. TypeInv /\ IndexInv => IndexesAgree
    <2> SUFFICES ASSUME TypeInv, IndexInv, ~torn, ~again, NEW o \in Outpoint
                 PROVE  /\ pool.outs[o] = {id \in pool.full : o \in Outpoints(id)}
                        /\ Cardinality(pool.outs[o]) <= 1
                        /\ pool.dsByOut[o] \subseteq {id \in pool.dspends : o \in Outpoints(id)}
        BY DEF IndexesAgree
    <2>1. /\ pool.outs[o] \subseteq WIds /\ pool.full \subseteq WIds /\ Agreed(pool) /\ Indexed(pool)
        BY DEF TypeInv, IndexInv, Pools, Entries
    <2>2. pool.outs[o] = {id \in pool.full : o \in Outpoints(id)}
        BY <2>1 DEF Agreed
    <2>3. pool.dsByOut[o] \subseteq {id \in pool.dspends : o \in Outpoints(id)}
        BY <2>1 DEF Agreed, Indexed
    <2>4. Cardinality(pool.outs[o]) <= 1
        <3>1. CASE pool.outs[o] = {}
            BY <3>1, FS_EmptySet
        <3>2. CASE pool.outs[o] # {}
            <4>1. PICK x \in pool.outs[o] : TRUE
                BY <3>2
            <4>2. pool.outs[o] = {x}
                BY <2>1, <4>1 DEF Indexed
            <4>3. Cardinality({x}) = 1
                BY FS_Singleton
            <4>4. QED
                BY <4>2, <4>3
        <3>3. QED
            BY <3>1, <3>2
    <2>5. QED
        BY <2>2, <2>3, <2>4
<1>2. Init => IndexInv
    <2> SUFFICES ASSUME Init PROVE Agreed(pool)
        BY DEF IndexInv
    <2>1. pool.full = {} /\ pool.outs = Unheld /\ pool.dsByOut = Unheld
        BY DEF Init, EmptyPool
    <2>2. \A o \in Outpoint : pool.outs[o] = {} /\ pool.dsByOut[o] = {}
        BY <2>1 DEF Unheld
    <2>3. QED
        BY <2>1, <2>2 DEF Agreed
<1>3. QED
    BY <1>1, <1>2, InitTypeInv, InitOut, NextTypeInv, NextJobInv, NextHeldInv, NextIndexInv, PTL DEF Spec
-----------------------------------------------------------------------------
(***************************************************************************)
(* The books: what the counters will be once the projections have run.     *)
(***************************************************************************)

\* Weight is a function: its value follows from its value for a smaller set.
WeightBody(f, ids) ==
    IF ids = {} THEN 0
    ELSE LET id == CHOOSE i \in ids : TRUE IN Size[DataOf(id)] + f[ids \ {id}]

\* Weight is the function that its definition says: it exists.
LEMMA WeightIs ==
    Weight = [ids \in SUBSET WIds |-> WeightBody(Weight, ids)]
<1> DEFINE S == SUBSET WIds
           V == [S -> Int]
           zero == [ids \in S |-> 0]
           next(f) == [ids \in S |-> WeightBody(f, ids)]
           G == [nf \in Nat \X V |-> next(nf[2])]
<1>1. \A ids \in S : /\ IsFiniteSet(ids) /\ Cardinality(ids) \in Nat
                     /\ ids # {} => /\ (CHOOSE i \in ids : TRUE) \in ids
                                    /\ Cardinality(ids) # 0
    BY IdFacts, FS_Subset, FS_CardinalityType, FS_EmptySet
<1>2. \A f \in V, ids \in S : WeightBody(f, ids) \in Int
    <2> TAKE f \in V, ids \in S
    <2>1. CASE ids = {}
        BY <2>1 DEF WeightBody
    <2>2. CASE ids # {}
        <3> DEFINE id == CHOOSE i \in ids : TRUE
        <3>1. id \in WIds /\ ids \ {id} \in S
            BY <1>1, <2>2
        <3> HIDE DEF id
        <3>2. Size[DataOf(id)] \in Nat /\ f[ids \ {id}] \in Int
            BY <3>1, IdFacts
        <3>3. WeightBody(f, ids) = Size[DataOf(id)] + f[ids \ {id}]
            BY <2>2 DEF WeightBody, id
        <3>4. QED
            BY <3>2, <3>3
    <2>3. QED
        BY <2>1, <2>2
<1> HIDE DEF S
<1>3. zero \in V /\ \A f \in V : next(f) \in V
    BY <1>2
<1> HIDE DEF V, zero, next
<1>4. G \in [Nat \X V -> V] /\ \A n \in Nat, f \in V : G[<<n, f>>] = next(f)
    BY <1>3
<1> HIDE DEF G
<1>5. PICK h \in [Nat -> V] : h[0] = zero /\ \A n \in Nat : h[n + 1] = G[<<n, h[n]>>]
    <2>1. Unfolds(V, zero, G)
        BY <1>3, <1>4, Recursion
    <2>2. QED
        BY <2>1 DEF Unfolds
<1>6. \A n \in Nat : h[n + 1] = next(h[n])
    BY <1>4, <1>5
<1> DEFINE W == [ids \in S |-> h[Cardinality(ids)][ids]]
<1>7. \A ids \in S : W[ids] = WeightBody(W, ids)
    <2> TAKE ids \in S
    <2>1. W[ids] = h[Cardinality(ids)][ids]
        OBVIOUS
    <2>2. CASE ids = {}
        <3>1. h[0][ids] = 0
            BY <1>5 DEF zero
        <3>2. QED
            BY <2>1, <2>2, <3>1, FS_EmptySet DEF WeightBody
    <2>3. CASE ids # {}
        <3> DEFINE id == CHOOSE i \in ids : TRUE
                   less == ids \ {id}
                   n == Cardinality(less)
        <3>1. id \in ids /\ IsFiniteSet(ids) /\ less \in S
            BY <1>1, <2>3 DEF S
        <3>2. Cardinality(ids) = n + 1 /\ n \in Nat
            <4>1. Cardinality(less) = Cardinality(ids) - 1
                BY <3>1, FS_RemoveElement
            <4>2. Cardinality(ids) \in Nat /\ Cardinality(less) \in Nat
                BY <1>1, <3>1
            <4>3. QED
                BY <4>1, <4>2
        <3>3. h[n + 1] = next(h[n])
            BY <1>6, <3>2
        <3>4. next(h[n])[ids] = WeightBody(h[n], ids)
            BY DEF next
        <3>5. WeightBody(h[n], ids) = Size[DataOf(id)] + h[n][less]
            BY <2>3 DEF WeightBody
        <3>6. WeightBody(W, ids) = Size[DataOf(id)] + W[less]
            BY <2>3 DEF WeightBody
        <3>7. W[less] = h[n][less]
            BY <3>1
        <3> HIDE DEF W, n, less, id
        <3>8. QED
            BY <2>1, <3>2, <3>3, <3>4, <3>5, <3>6, <3>7
    <2>4. QED
        BY <2>2, <2>3
<1>8. W = [ids \in S |-> WeightBody(W, ids)]
    <2> HIDE DEF WeightBody
    <2>1. W = [ids \in S |-> W[ids]]
        OBVIOUS
    <2> HIDE DEF W
    <2>2. QED
        BY <1>7, <2>1
<1> HIDE DEF W
<1>9. Weight = CHOOSE f : f = [ids \in S |-> WeightBody(f, ids)]
    BY DEF Weight, WeightBody, S
<1> HIDE DEF WeightBody
<1>10. QED
    BY <1>8, <1>9 DEF S

\* Together they weigh as much as any of them and the others.
LEMMA WeightOf ==
    /\ Weight[{}] = 0
    /\ \A ids \in SUBSET WIds : /\ Weight[ids] \in Nat
                                /\ \A id \in ids : Weight[ids] = Size[DataOf(id)] + Weight[ids \ {id}]
<1> DEFINE Splits(ids) == \A id \in ids : Weight[ids] = Size[DataOf(id)] + Weight[ids \ {id}]
           T == {n \in Nat : \A ids \in SUBSET WIds :
                                Cardinality(ids) <= n => Weight[ids] \in Nat /\ Splits(ids)}
<1>1. \A ids \in SUBSET WIds : Weight[ids] = WeightBody(Weight, ids)
    <2> DEFINE S == SUBSET WIds
    <2> HIDE DEF WeightBody, S
    <2>1. Weight = [ids \in S |-> WeightBody(Weight, ids)]
        BY WeightIs DEF S
    <2> DEFINE B(ids) == WeightBody(Weight, ids)
    <2>2. Weight = [ids \in S |-> B(ids)]
        BY <2>1
    <2> HIDE DEF B
    <2>3. \A ids \in S : Weight[ids] = B(ids)
        BY <2>2
    <2>4. QED
        BY <2>3 DEF B, S
<1>2. \A ids \in SUBSET WIds : IsFiniteSet(ids) /\ Cardinality(ids) \in Nat
    BY IdFacts, FS_Subset, FS_CardinalityType
<1>3. Weight[{}] = 0
    BY <1>1 DEF WeightBody
<1>4. 0 \in T
    <2>1. \A ids \in SUBSET WIds : Cardinality(ids) <= 0 => ids = {}
        BY <1>2, FS_EmptySet
    <2>2. QED
        BY <1>3, <2>1
<1>5. \A n \in T : n + 1 \in T
    <2> TAKE n \in T
    <2>1. n \in Nat /\ \A l \in SUBSET WIds :
                         Cardinality(l) <= n => Weight[l] \in Nat /\ Splits(l)
        OBVIOUS
    <2> SUFFICES ASSUME NEW ids \in SUBSET WIds, Cardinality(ids) = n + 1
                 PROVE  Weight[ids] \in Nat /\ Splits(ids)
        <3> HIDE DEF Splits
        <3>1. \A l \in SUBSET WIds :
                 Cardinality(l) <= n + 1 => Cardinality(l) <= n \/ Cardinality(l) = n + 1
            BY <1>2, <2>1
        <3>2. QED
            BY <2>1, <3>1
    <2> HIDE DEF T
    <2>2. ids # {}
        BY <1>2, <2>1, FS_EmptySet
    <2> DEFINE c == CHOOSE i \in ids : TRUE
    <2>3. c \in ids /\ Weight[ids] = Size[DataOf(c)] + Weight[ids \ {c}]
        BY <1>1, <2>2 DEF WeightBody
    <2> HIDE DEF c
    <2>4. \A i \in ids : Cardinality(ids \ {i}) = n
        <3> TAKE i \in ids
        <3>1. IsFiniteSet(ids) /\ Cardinality(ids) = n + 1
            BY <1>2
        <3>2. Cardinality(ids \ {i}) = Cardinality(ids) - 1
            BY <3>1, FS_RemoveElement
        <3>3. QED
            BY <2>1, <3>1, <3>2
    <2>5. Size[DataOf(c)] \in Nat /\ Weight[ids \ {c}] \in Nat
        BY <2>1, <2>3, <2>4, IdFacts
    <2>6. ASSUME NEW i \in ids PROVE Weight[ids] = Size[DataOf(i)] + Weight[ids \ {i}]
        <3>1. CASE i = c
            BY <2>3, <3>1
        <3>2. CASE i # c
            <4>1. (ids \ {c}) \ {i} = (ids \ {i}) \ {c}
                OBVIOUS
            <4> DEFINE both == (ids \ {c}) \ {i}
            <4>2. Weight[ids \ {c}] = Size[DataOf(i)] + Weight[both]
                BY <2>1, <2>3, <2>4, <3>2
            <4>3. Weight[ids \ {i}] = Size[DataOf(c)] + Weight[both]
                BY <2>1, <2>3, <2>4, <3>2, <4>1
            <4>4. Size[DataOf(i)] \in Nat /\ Weight[ids \ {i}] \in Nat
                BY <2>1, <2>4, IdFacts
            <4>5. both \in SUBSET WIds /\ Cardinality(both) \in Nat
                BY <1>2
            <4>6. Weight[both] = Weight[ids \ {c}] - Size[DataOf(i)]
                  /\ Weight[both] = Weight[ids \ {i}] - Size[DataOf(c)]
                <5>1. Cardinality(both) <= n
                    <6>1. Cardinality((ids \ {c}) \ {i}) = Cardinality(ids \ {c}) - 1
                        BY <1>2, <3>2, FS_RemoveElement
                    <6>2. QED
                        BY <2>1, <2>3, <2>4, <4>5, <6>1
                <5>2. Weight[both] \in Nat
                    BY <2>1, <4>5, <5>1
                <5>3. QED
                    BY <2>5, <4>2, <4>3, <4>4, <5>2
            <4>7. QED
                BY <2>3, <2>5, <4>4, <4>6
        <3>3. QED
            BY <3>1, <3>2
    <2>7. QED
        BY <2>3, <2>5, <2>6
<1>6. T = Nat
    <2>1. T \in SUBSET Nat
        OBVIOUS
    <2> HIDE DEF T
    <2>2. QED
        BY <1>4, <1>5, <2>1, Induction
<1>7. QED
    BY <1>2, <1>3, <1>6

\* What a task adds to each counter.
Ones == [task \in Task |-> Signed(task, 1)]
Sizes == [task \in Task |-> Signed(task, task[2])]

\* From v0, the tasks lead to total, and to nothing negative before.
Balanced(v0, tasks, a, total) ==
    \E f \in [0..Len(tasks) -> Nat] :
        /\ f[0] = v0 /\ f[Len(tasks)] = total
        /\ \A n \in 1..Len(tasks) : f[n] = f[n - 1] + a[tasks[n]]

\* A task that is appended changes the total by its amount.
LEMMA BalancedAppend ==
    ASSUME NEW tasks \in Seq(Task), NEW task \in Task, NEW a \in [Task -> Int], NEW v0, NEW total,
           Balanced(v0, tasks, a, total), total + a[task] \in Nat
    PROVE  Balanced(v0, Append(tasks, task), a, total + a[task])
<1> DEFINE n == Len(tasks)
           new == Append(tasks, task)
<1>1. PICK f \in [0..n -> Nat] : /\ f[0] = v0 /\ f[n] = total
                                 /\ \A i \in 1..n : f[i] = f[i - 1] + a[tasks[i]]
    BY DEF Balanced
<1>2. n \in Nat /\ Len(new) = n + 1 /\ new[n + 1] = task /\ \A i \in 1..n : new[i] = tasks[i]
    OBVIOUS
<1> HIDE DEF n, new
<1> DEFINE g == [i \in 0..(n + 1) |-> IF i = n + 1 THEN total + a[task] ELSE f[i]]
<1>3. g \in [0..(n + 1) -> Nat] /\ g[0] = v0 /\ g[n + 1] = total + a[task]
    BY <1>1, <1>2
<1>4. \A i \in 1..(n + 1) : g[i] = g[i - 1] + a[new[i]]
    <2> TAKE i \in 1..(n + 1)
    <2>1. g[i - 1] = f[i - 1]
        BY <1>2
    <2>2. CASE i = n + 1
        <3>1. g[i] = total + a[task] /\ f[i - 1] = total /\ new[i] = task
            BY <1>1, <1>2, <2>2
        <3>2. QED
            BY <2>1, <3>1
    <2>3. CASE i # n + 1
        <3>1. i \in 1..n /\ g[i] = f[i]
            BY <1>2, <2>3
        <3>2. QED
            BY <1>1, <1>2, <2>1, <3>1
    <2>4. QED
        BY <2>2, <2>3
<1> HIDE DEF g
<1>5. QED
    BY <1>2, <1>3, <1>4 DEF Balanced, new

\* A task that has run moves its amount into the counter.
LEMMA BalancedTail ==
    ASSUME NEW tasks \in Seq(Task), tasks # <<>>, NEW a \in [Task -> Int], NEW v0, NEW total,
           Balanced(v0, tasks, a, total)
    PROVE  Balanced(v0 + a[Head(tasks)], Tail(tasks), a, total)
<1> DEFINE n == Len(tasks)
           new == Tail(tasks)
<1>1. PICK f \in [0..n -> Nat] : /\ f[0] = v0 /\ f[n] = total
                                 /\ \A i \in 1..n : f[i] = f[i - 1] + a[tasks[i]]
    BY DEF Balanced
<1>2. /\ n \in Nat /\ n > 0 /\ Len(new) = n - 1 /\ Head(tasks) = tasks[1]
      /\ \A i \in 1..(n - 1) : new[i] = tasks[i + 1]
    OBVIOUS
<1> HIDE DEF n, new
<1> DEFINE g == [i \in 0..(n - 1) |-> f[i + 1]]
<1>3. g \in [0..(n - 1) -> Nat] /\ g[0] = v0 + a[Head(tasks)] /\ g[n - 1] = total
    BY <1>1, <1>2
<1>4. \A i \in 1..(n - 1) : g[i] = g[i - 1] + a[new[i]]
    <2> TAKE i \in 1..(n - 1)
    <2>1. i + 1 \in 1..n /\ (i + 1) - 1 = i /\ (i - 1) + 1 = i /\ i - 1 \in 0..(n - 1) /\ i \in 0..(n - 1)
        BY <1>2
    <2>2. f[i + 1] = f[i] + a[tasks[i + 1]]
        BY <1>1, <2>1
    <2>3. QED
        BY <1>2, <2>1, <2>2
<1> HIDE DEF g
<1>5. QED
    BY <1>2, <1>3, <1>4 DEF Balanced, new

\* A function is given by its value at 0 and its differences.
SumsUp(f, v0, s, m) == f[0] = v0 /\ \A n \in 1..m : f[n] = f[n - 1] + s[n]

\* Two sums of the same amounts are the same.
LEMMA OneSum ==
    ASSUME NEW m \in Nat, NEW f, NEW v0, NEW s, NEW h, SumsUp(f, v0, s, m), SumsUp(h, v0, s, m)
    PROVE  \A n \in 0..m : f[n] = h[n]
<1>1. /\ f[0] = v0 /\ \A n \in 1..m : f[n] = f[n - 1] + s[n]
      /\ h[0] = v0 /\ \A n \in 1..m : h[n] = h[n - 1] + s[n]
    BY DEF SumsUp
<1> DEFINE T == {n \in Nat : n <= m => f[n] = h[n]}
<1>2. 0 \in T
    BY <1>1
<1>3. \A n \in T : n + 1 \in T
    <2> SUFFICES ASSUME NEW n \in T, n + 1 <= m PROVE f[n + 1] = h[n + 1]
        OBVIOUS
    <2>1. n + 1 \in 1..m /\ (n + 1) - 1 = n /\ f[n] = h[n]
        OBVIOUS
    <2>2. QED
        BY <1>1, <2>1
<1>4. T \in SUBSET Nat
    OBVIOUS
<1> HIDE DEF T
<1>5. T = Nat
    BY <1>2, <1>3, <1>4, Induction
<1>6. QED
    BY <1>5 DEF T

\* The functions that Ledger looks at are the ones that balance.
LEMMA BalancedMeans ==
    ASSUME NEW p \in Pools, NEW total
    PROVE  /\ Balanced(p.count, p.tasks, Ones, total) =>
                /\ Counts(p)[Len(p.tasks)] = total
                /\ \A n \in 0..Len(p.tasks) : Counts(p)[n] >= 0
           /\ Balanced(p.bytes, p.tasks, Sizes, total) =>
                /\ Totals(p)[Len(p.tasks)] = total
                /\ \A n \in 0..Len(p.tasks) : Totals(p)[n] >= 0
<1> DEFINE m == Len(p.tasks)
           C(f) == [n \in 0..m |-> IF n = 0 THEN p.count ELSE f[n - 1] + Signed(p.tasks[n], 1)]
           B(f) == [n \in 0..m |-> IF n = 0 THEN p.bytes ELSE f[n - 1] + Signed(p.tasks[n], p.tasks[n][2])]
<1>1. p.tasks \in Seq(Task) /\ m \in Nat /\ \A n \in 1..m : p.tasks[n] \in Task
    BY DEF Pools, Entries
<1>2. Counts(p) = CHOOSE f : f = C(f)
    BY DEF Counts
<1>3. Totals(p) = CHOOSE f : f = B(f)
    BY DEF Totals
<1>4. \A n \in 1..m : /\ Ones[p.tasks[n]] = Signed(p.tasks[n], 1)
                      /\ Sizes[p.tasks[n]] = Signed(p.tasks[n], p.tasks[n][2])
    BY <1>1 DEF Ones, Sizes
<1> HIDE DEF m
<1>6. ASSUME Balanced(p.count, p.tasks, Ones, total)
      PROVE  Counts(p)[m] = total /\ \A n \in 0..m : Counts(p)[n] >= 0
    <2> DEFINE s == [n \in 1..m |-> Signed(p.tasks[n], 1)]
               v0 == p.count
    <2>1. PICK h \in [0..m -> Nat] : /\ h[0] = v0 /\ h[m] = total
                                     /\ \A n \in 1..m : h[n] = h[n - 1] + Ones[p.tasks[n]]
        BY <1>6 DEF Balanced, m
    <2>2. \A n \in 1..m : h[n] = h[n - 1] + s[n]
        BY <1>4, <2>1
    <2>3. \A f : C(f) = [n \in 0..m |-> IF n = 0 THEN v0 ELSE f[n - 1] + s[n]]
        BY <1>1
    <2>4. h = C(h)
        <3>1. \A n \in 0..m : h[n] = IF n = 0 THEN v0 ELSE h[n - 1] + s[n]
            <4> HIDE DEF s, v0
            <4>1. QED
                BY <1>1, <2>1, <2>2
        <3>2. h = [n \in 0..m |-> h[n]]
            OBVIOUS
        <3> HIDE DEF s, v0, C
        <3>3. QED
            BY <2>3, <3>1, <3>2
    <2>5. Counts(p) = C(Counts(p))
        <3> HIDE DEF C
        <3>1. QED
            BY <1>2, <2>4
    <2> HIDE DEF s, v0
    <2>6. Counts(p) = [n \in 0..m |-> IF n = 0 THEN v0 ELSE Counts(p)[n - 1] + s[n]]
        <3> HIDE DEF C
        <3>1. QED
            BY <2>3, <2>5
    <2> HIDE DEF C
    <2> DEFINE f == Counts(p)
    <2> HIDE DEF f
    <2>7. f = [n \in 0..m |-> IF n = 0 THEN v0 ELSE f[n - 1] + s[n]]
        BY <2>6 DEF f
    <2>8. SumsUp(f, v0, s, m)
        <3> DEFINE E(n) == IF n = 0 THEN v0 ELSE f[n - 1] + s[n]
        <3>1. f = [n \in 0..m |-> E(n)]
            BY <2>7
        <3> HIDE DEF E
        <3>2. \A n \in 0..m : f[n] = E(n)
            BY <3>1
        <3>3. QED
            BY <1>1, <3>2 DEF E, SumsUp
    <2>9. \A n \in 0..m : f[n] = h[n]
        <3>1. SumsUp(h, v0, s, m)
            BY <2>1, <2>2 DEF SumsUp
        <3>2. QED
            BY <1>1, <2>8, <3>1, OneSum
    <2>10. QED
        BY <1>1, <2>1, <2>9 DEF f
<1>7. ASSUME Balanced(p.bytes, p.tasks, Sizes, total)
      PROVE  Totals(p)[m] = total /\ \A n \in 0..m : Totals(p)[n] >= 0
    <2> DEFINE s == [n \in 1..m |-> Signed(p.tasks[n], p.tasks[n][2])]
               v0 == p.bytes
    <2>1. PICK h \in [0..m -> Nat] : /\ h[0] = v0 /\ h[m] = total
                                     /\ \A n \in 1..m : h[n] = h[n - 1] + Sizes[p.tasks[n]]
        BY <1>7 DEF Balanced, m
    <2>2. \A n \in 1..m : h[n] = h[n - 1] + s[n]
        BY <1>4, <2>1
    <2>3. \A f : B(f) = [n \in 0..m |-> IF n = 0 THEN v0 ELSE f[n - 1] + s[n]]
        BY <1>1
    <2>4. h = B(h)
        <3>1. \A n \in 0..m : h[n] = IF n = 0 THEN v0 ELSE h[n - 1] + s[n]
            <4> HIDE DEF s, v0
            <4>1. QED
                BY <1>1, <2>1, <2>2
        <3>2. h = [n \in 0..m |-> h[n]]
            OBVIOUS
        <3> HIDE DEF s, v0, B
        <3>3. QED
            BY <2>3, <3>1, <3>2
    <2>5. Totals(p) = B(Totals(p))
        <3> HIDE DEF B
        <3>1. QED
            BY <1>3, <2>4
    <2> HIDE DEF s, v0
    <2>6. Totals(p) = [n \in 0..m |-> IF n = 0 THEN v0 ELSE Totals(p)[n - 1] + s[n]]
        <3> HIDE DEF B
        <3>1. QED
            BY <2>3, <2>5
    <2> HIDE DEF B
    <2> DEFINE f == Totals(p)
    <2> HIDE DEF f
    <2>7. f = [n \in 0..m |-> IF n = 0 THEN v0 ELSE f[n - 1] + s[n]]
        BY <2>6 DEF f
    <2>8. SumsUp(f, v0, s, m)
        <3> DEFINE E(n) == IF n = 0 THEN v0 ELSE f[n - 1] + s[n]
        <3>1. f = [n \in 0..m |-> E(n)]
            BY <2>7
        <3> HIDE DEF E
        <3>2. \A n \in 0..m : f[n] = E(n)
            BY <3>1
        <3>3. QED
            BY <1>1, <3>2 DEF E, SumsUp
    <2>9. \A n \in 0..m : f[n] = h[n]
        <3>1. SumsUp(h, v0, s, m)
            BY <2>1, <2>2 DEF SumsUp
        <3>2. QED
            BY <1>1, <2>8, <3>1, OneSum
    <2>10. QED
        BY <1>1, <2>1, <2>9 DEF f
<1>8. QED
    BY <1>6, <1>7 DEF m

Books(p) ==
    /\ Balanced(p.count, p.tasks, Ones, Cardinality(p.full))
    /\ Balanced(p.bytes, p.tasks, Sizes, Weight[p.full])

\* What each kind of task adds to the counters.
LEMMA TaskAmounts ==
    /\ Ones \in [Task -> Int] /\ Sizes \in [Task -> Int]
    /\ \A kind, size : <<kind, size>> \in Task =>
          /\ kind = "add" => Ones[<<kind, size>>] = 1 /\ Sizes[<<kind, size>>] = size
          /\ kind = "sub" => Ones[<<kind, size>>] = -1 /\ Sizes[<<kind, size>>] = -size
          /\ kind \in {"clean", "forget"} => Ones[<<kind, size>>] = 0 /\ Sizes[<<kind, size>>] = 0
<1>1. ASSUME NEW task \in Task, NEW amount \in Int
      PROVE  /\ Signed(task, amount) \in Int
             /\ task[1] = "add" => Signed(task, amount) = amount
             /\ task[1] = "sub" => Signed(task, amount) = -amount
             /\ task[1] \in {"clean", "forget"} => Signed(task, amount) = 0
    BY DEF Signed
<1>2. \A task \in Task : task[2] \in Int
    BY DEF Task
<1> HIDE DEF Task
<1>3. Ones \in [Task -> Int] /\ Sizes \in [Task -> Int]
    BY <1>1, <1>2 DEF Ones, Sizes
<1>4. ASSUME NEW kind, NEW size, <<kind, size>> \in Task
      PROVE  /\ kind = "add" => Ones[<<kind, size>>] = 1 /\ Sizes[<<kind, size>>] = size
             /\ kind = "sub" => Ones[<<kind, size>>] = -1 /\ Sizes[<<kind, size>>] = -size
             /\ kind \in {"clean", "forget"} => Ones[<<kind, size>>] = 0 /\ Sizes[<<kind, size>>] = 0
    <2> DEFINE task == <<kind, size>>
    <2>1. task \in Task /\ task[1] = kind /\ task[2] = size /\ size \in Int
        BY <1>2, <1>4
    <2> HIDE DEF task
    <2>2. Ones[task] = Signed(task, 1) /\ Sizes[task] = Signed(task, size)
        BY <2>1 DEF Ones, Sizes
    <2>3. QED
        BY <1>1, <2>1, <2>2 DEF task
<1>5. QED
    BY <1>3, <1>4

\* What becomes of the books when a transaction comes or goes with its projection.
LEMMA BooksAdd ==
    ASSUME NEW p \in Pools, NEW q \in Pools, NEW id \in WIds \ p.full, Books(p),
           SameCounters(p, q), q.full = p.full \cup {id},
           q.tasks = Append(p.tasks, <<"add", Size[DataOf(id)]>>)
    PROVE  Books(q)
<1> DEFINE size == Size[DataOf(id)]
           task == <<"add", size>>
           less == p.full
           more == q.full
<1>1. p.full \in SUBSET WIds /\ q.full \in SUBSET WIds /\ p.tasks \in Seq(Task) /\ size \in Nat
    BY IdFacts DEF Pools, Entries
<1>2. task \in Task /\ Ones[task] = 1 /\ Sizes[task] = size
    <2>1. task \in Task
        BY <1>1 DEF Task
    <2>2. QED
        BY <2>1, TaskAmounts
<1>3. Cardinality(q.full) = Cardinality(p.full) + 1 /\ Cardinality(p.full) \in Nat /\ Cardinality(q.full) \in Nat
    BY <1>1, IdFacts, FS_Subset, FS_AddElement, FS_CardinalityType
<1>4. Weight[q.full] = Weight[p.full] + size /\ Weight[p.full] \in Nat /\ Weight[q.full] \in Nat
    <2>1. id \in more /\ more \ {id} = less /\ less \in SUBSET WIds /\ more \in SUBSET WIds
        BY <1>1
    <2> HIDE DEF more, less, size
    <2>2. Weight[more] = size + Weight[more \ {id}] /\ Weight[less] \in Nat /\ Weight[more] \in Nat
        BY <2>1, WeightOf DEF size
    <2>3. Weight[more] = size + Weight[less]
        BY <2>1, <2>2
    <2>4. Weight[more] = Weight[less] + size
        BY <1>1, <2>2, <2>3
    <2>5. QED
        BY <2>2, <2>4 DEF more, less
<1> HIDE DEF task, size, less, more
<1>5. /\ Cardinality(p.full) + Ones[task] = Cardinality(q.full)
      /\ Weight[p.full] + Sizes[task] = Weight[q.full]
    BY <1>1, <1>2, <1>3, <1>4
<1>6. Balanced(p.count, Append(p.tasks, task), Ones, Cardinality(p.full) + Ones[task])
    BY <1>1, <1>2, <1>3, <1>5, TaskAmounts, BalancedAppend DEF Books
<1>7. Balanced(p.bytes, Append(p.tasks, task), Sizes, Weight[p.full] + Sizes[task])
    BY <1>1, <1>2, <1>4, <1>5, TaskAmounts, BalancedAppend DEF Books
<1>8. q.count = p.count /\ q.bytes = p.bytes /\ q.tasks = Append(p.tasks, task)
    BY DEF SameCounters, task, size
<1>9. QED
    BY <1>5, <1>6, <1>7, <1>8 DEF Books

\* A removal with its projection keeps the books.
LEMMA BooksSub ==
    ASSUME NEW p \in Pools, NEW q \in Pools, NEW id \in p.full, Books(p),
           SameCounters(p, q), q.full = p.full \ {id},
           q.tasks = Append(p.tasks, <<"sub", Size[DataOf(id)]>>)
    PROVE  Books(q)
<1> DEFINE size == Size[DataOf(id)]
           task == <<"sub", size>>
           less == q.full
           more == p.full
<1>1. p.full \in SUBSET WIds /\ q.full \in SUBSET WIds /\ p.tasks \in Seq(Task) /\ size \in Nat
    BY IdFacts DEF Pools, Entries
<1>2. task \in Task /\ Ones[task] = -1 /\ Sizes[task] = -size
    <2>1. task \in Task
        BY <1>1 DEF Task
    <2>2. QED
        BY <2>1, TaskAmounts
<1>3. Cardinality(q.full) = Cardinality(p.full) - 1 /\ Cardinality(p.full) \in Nat /\ Cardinality(q.full) \in Nat
    <2>1. IsFiniteSet(p.full) /\ IsFiniteSet(q.full)
        BY <1>1, IdFacts, FS_Subset
    <2>2. Cardinality(p.full \ {id}) = Cardinality(p.full) - 1
        BY <2>1, FS_RemoveElement
    <2>3. QED
        BY <2>1, <2>2, FS_CardinalityType
<1>4. Weight[q.full] = Weight[p.full] - size /\ Weight[q.full] \in Nat /\ Weight[p.full] \in Nat
    <2>1. id \in more /\ more \ {id} = less /\ less \in SUBSET WIds /\ more \in SUBSET WIds
        BY <1>1
    <2> HIDE DEF more, less, size
    <2>2. Weight[more] = size + Weight[more \ {id}] /\ Weight[less] \in Nat /\ Weight[more] \in Nat
        BY <2>1, WeightOf DEF size
    <2>3. QED
        BY <1>1, <2>1, <2>2 DEF more, less
<1> HIDE DEF task, size, less, more
<1>5. Cardinality(p.full) + Ones[task] = Cardinality(q.full) /\ Weight[p.full] + Sizes[task] = Weight[q.full]
    BY <1>1, <1>2, <1>3, <1>4
<1>6. Balanced(p.count, Append(p.tasks, task), Ones, Cardinality(p.full) + Ones[task])
    BY <1>1, <1>2, <1>3, <1>5, TaskAmounts, BalancedAppend DEF Books
<1>7. Balanced(p.bytes, Append(p.tasks, task), Sizes, Weight[p.full] + Sizes[task])
    BY <1>1, <1>2, <1>4, <1>5, TaskAmounts, BalancedAppend DEF Books
<1>8. q.count = p.count /\ q.bytes = p.bytes /\ q.tasks = Append(p.tasks, task)
    BY DEF SameCounters, task, size
<1>9. QED
    BY <1>5, <1>6, <1>7, <1>8 DEF Books

\* Nothing that counts comes or goes.
SameBooks(p, q) == q.count = p.count /\ q.bytes = p.bytes /\ q.full = p.full /\ q.tasks = p.tasks

\* What leaves books, tasks and data alone keeps them.
LEMMA BooksSame ==
    ASSUME NEW p, NEW q, Books(p), SameBooks(p, q)
    PROVE  Books(q)
BY DEF Books, SameBooks

\* A removal keeps the books, also when it raises.
Booked(p0, now) ==
    {w \in Shrinking(p0, now) : w.pool.seen \cap w.pool.full = {} /\ Books(w.pool)}

\* Every step of a removal keeps the books.
LEMMA BookedCloses ==
    ASSUME NEW p0, NEW now \in Clock
    PROVE  \A w \in Booked(p0, now) : Step(w, now) \subseteq Booked(p0, now)
<1> SUFFICES ASSUME NEW w \in Booked(p0, now), NEW v \in Step(w, now)
             PROVE  v \in Booked(p0, now)
    OBVIOUS
<1> DEFINE n == Len(w.todo)
           call == Deep(w, n)
           p == w.pool
           q == v.pool
<1>1. w \in Shrinking(p0, now) /\ p.seen \cap p.full = {} /\ Books(p)
    BY DEF Booked
<1>2. /\ v \in Shrinking(p0, now)
      /\ \/ v = w
         \/ n \in Nat /\ n > 0 /\ call \in CallSet /\ Does(w, v, call, now) /\ Shrunk(p, q, now)
    BY <1>1, ShrinkingStep
<1>3. CASE v = w
    BY <1>3
<1>4. CASE n \in Nat /\ n > 0 /\ call \in CallSet /\ Does(w, v, call, now) /\ Shrunk(p, q, now)
    <2>1. w \in Works /\ v \in Works /\ p \in Pools /\ q \in Pools
        BY <1>1, <1>2 DEF Shrinking, Works
    <2>2. Touches(p, q, call, now)
        BY <1>4, <2>1, CallTouches
    <2>3. SameCounters(p, q) /\ q.seen \cap q.full = {}
        BY <1>1, <1>4 DEF Shrunk
    <2> HIDE DEF p, q, call
    <2>4. CASE q.tasks = p.tasks
        <3>1. q.full = p.full
            BY <1>1, <2>2, <2>4 DEF Touches, Loses
        <3>2. SameBooks(p, q)
            BY <2>3, <2>4, <3>1 DEF SameBooks, SameCounters
        <3>3. QED
            BY <1>1, <1>2, <2>3, <3>2, BooksSame DEF Booked, q
    <2>5. CASE q.tasks # p.tasks
        <3> DEFINE id == call[2]
        <3>1. id \in p.full /\ q.full = p.full \ {id} /\ q.tasks = Append(p.tasks, <<"sub", Size[DataOf(id)]>>)
            BY <2>2, <2>5 DEF Touches
        <3> HIDE DEF id
        <3>2. Books(q)
            BY <1>1, <2>1, <2>3, <3>1, BooksSub
        <3>3. QED
            BY <1>2, <2>3, <3>2 DEF Booked, q
    <2>6. QED
        BY <2>4, <2>5
<1>5. QED
    BY <1>2, <1>3, <1>4

\* The removals of a block keep the books.
LEMMA BlockBooks ==
    ASSUME NEW p \in Pools, p.seen \cap p.full = {}, Books(p), NEW txs \in SUBSET Tx,
           NEW now \in Clock, NEW work \in OnNewBlock(p, txs, now)
    PROVE  Books(work.pool)
<1> DEFINE ids == Named(txs)
           p0 == Forget(p, ids, now)
           S == Booked(p0, now)
<1>1. ids \in SUBSET Id
    BY NamedIds
<1> HIDE DEF ids
<1>2. p0 \in Pools /\ p0.seen \cap p0.full = {} /\ Books(p0)
    <2>1. p0 = Forget(p, ids, now)
        OBVIOUS
    <2> HIDE DEF p0, S
    <2>2. p0 \in Pools /\ ForgetsNow(p, p0, ids, now)
        BY <1>1, <2>1, ForgetIsPool
    <2>3. SameBooks(p, p0)
        BY <2>2 DEF ForgetsNow, SameHeld, SameBooks, SameCounters
    <2>4. QED
        BY <2>2, <2>3, BooksSame DEF ForgetsNow, SameHeld
<1> HIDE DEF p0
<1>3. \A w \in Works : BlockStarts(w, p, txs, now) => w \in S
    <2> TAKE w \in Works
    <2> HAVE BlockStarts(w, p, txs, now)
    <2>1. w.pool = p0 /\ w.raised = "no"
        BY DEF BlockStarts, p0, ids
    <2>2. w \in Shrinking(p0, now)
        BY <2>1 DEF Shrinking, Shrunk, SameCounters
    <2>3. QED
        BY <1>2, <2>1, <2>2 DEF Booked
<1>4. \A w \in S : Step(w, now) \subseteq S
    BY BookedCloses
<1> HIDE DEF S
<1>5. OnNewBlock(p, txs, now) \subseteq {w \in S : w.todo = <<>>}
    BY <1>3, <1>4, BlockRun
<1>6. QED
    BY <1>5 DEF S, Booked

\* The removals of a clean-up keep the books.
LEMMA CleanBooks ==
    ASSUME NEW p \in Pools, p.seen \cap p.full = {}, Books(p), NEW now \in Clock,
           NEW v \in CleanMempool(p, now)
    PROVE  Books(v.pool)
<1> DEFINE S == Booked(p, now)
<1>1. \A w \in Works : CleanStarts(w, p) => w \in S
    <2> TAKE w \in Works
    <2> HAVE CleanStarts(w, p)
    <2>1. w.pool = p /\ w.raised = "no"
        BY DEF CleanStarts
    <2>2. w \in Shrinking(p, now)
        BY <2>1 DEF Shrinking, Shrunk, SameCounters
    <2>3. QED
        BY <2>1, <2>2 DEF Booked
<1>2. S \in SUBSET Works /\ \A w \in S : Step(w, now) \subseteq S
    BY BookedCloses DEF Booked, Shrinking
<1> HIDE DEF S
<1>3. \A u \in CleanMempool(p, now) :
         \E w \in S : /\ w.todo = <<>> /\ u.raised = w.raised
                      /\ u.pool \in Pools /\ Unlocks(w.pool, u.pool)
    BY <1>1, <1>2, CleanRun
<1>4. PICK w \in S : Unlocks(w.pool, v.pool)
    BY <1>3
<1>5. Books(w.pool) /\ SameBooks(w.pool, v.pool)
    BY <1>4 DEF S, Booked, Unlocks, SameHeld, SameBooks
<1>6. QED
    BY <1>5, BooksSame

\* A task takes what it projects out of the projections that are left.
LEMMA ProjectBooks ==
    ASSUME NEW p \in Pools, NEW r \in Pools, NEW q \in Pools, NEW task \in Task, NEW sign,
           Books(p), TakesFirst(p, r, task), Projects(r, q, sign, task[2]),
           (task[1] = "add" /\ sign = 1) \/ (task[1] = "sub" /\ sign = -1)
    PROVE  Books(q)
<1>1. /\ p.tasks \in Seq(Task) /\ p.tasks # <<>> /\ task = Head(p.tasks) /\ r.tasks = Tail(p.tasks)
      /\ r.count = p.count /\ r.bytes = p.bytes /\ r.full = p.full /\ q.full = r.full
      /\ p.count \in Int /\ p.bytes \in Int /\ r.tasks \in Seq(Task) /\ q.tasks \in Seq(Task)
    BY DEF Pools, Entries, TakesFirst, SameCounters, SameHeld, Projects
<1>2. task[2] \in Int /\ task = <<task[1], task[2]>>
    BY DEF Task
<1>3. Ones[task] = sign /\ Sizes[task] = sign * task[2]
    BY <1>2, TaskAmounts
<1>4. q.count = p.count + Ones[task] /\ q.bytes = p.bytes + Sizes[task]
    BY <1>1, <1>3 DEF Projects
<1> DEFINE c == Cardinality(p.full)
           b == Weight[p.full]
<1>5. c \in Nat /\ b \in Nat
    <2>1. p.full \in SUBSET WIds
        BY DEF Pools, Entries
    <2>2. QED
        BY <2>1, IdFacts, WeightOf, FS_Subset, FS_CardinalityType
<1> HIDE DEF c, b
<1>6. Balanced(q.count, r.tasks, Ones, c) /\ Balanced(q.bytes, r.tasks, Sizes, b)
    <2>1. Balanced(p.count, p.tasks, Ones, c) /\ Balanced(p.bytes, p.tasks, Sizes, b)
        BY DEF Books, c, b
    <2>2. Ones \in [Task -> Int] /\ Sizes \in [Task -> Int]
        BY TaskAmounts
    <2>3. Balanced(p.count + Ones[Head(p.tasks)], Tail(p.tasks), Ones, c)
        BY <1>1, <2>1, <2>2, BalancedTail
    <2>4. Balanced(p.bytes + Sizes[Head(p.tasks)], Tail(p.tasks), Sizes, b)
        BY <1>1, <2>1, <2>2, BalancedTail
    <2>5. QED
        BY <1>1, <1>4, <2>3, <2>4
<1>7. ASSUME NEW tasks \in Seq(Task), NEW kind \in {"clean", "forget"},
             Balanced(q.count, tasks, Ones, c), Balanced(q.bytes, tasks, Sizes, b)
      PROVE  /\ Append(tasks, <<kind, 0>>) \in Seq(Task)
             /\ Balanced(q.count, Append(tasks, <<kind, 0>>), Ones, c)
             /\ Balanced(q.bytes, Append(tasks, <<kind, 0>>), Sizes, b)
    <2> DEFINE e == <<kind, 0>>
    <2>1. e \in Task /\ Ones[e] = 0 /\ Sizes[e] = 0
        <3>1. e \in Task
            BY DEF Task
        <3>2. QED
            BY <3>1, TaskAmounts
    <2> HIDE DEF e
    <2>2. /\ Balanced(q.count, Append(tasks, e), Ones, c + Ones[e])
          /\ Balanced(q.bytes, Append(tasks, e), Sizes, b + Sizes[e])
        <3>1. Ones \in [Task -> Int] /\ Sizes \in [Task -> Int]
            BY TaskAmounts
        <3>2. c + Ones[e] \in Nat /\ b + Sizes[e] \in Nat
            BY <1>5, <2>1
        <3>3. Balanced(q.count, Append(tasks, e), Ones, c + Ones[e])
            BY <1>7, <2>1, <3>1, <3>2, BalancedAppend
        <3>4. Balanced(q.bytes, Append(tasks, e), Sizes, b + Sizes[e])
            BY <1>7, <2>1, <3>1, <3>2, BalancedAppend
        <3>5. QED
            BY <3>3, <3>4
    <2>3. c + Ones[e] = c /\ b + Sizes[e] = b /\ Append(tasks, e) \in Seq(Task)
        BY <1>5, <2>1
    <2>4. QED
        BY <2>2, <2>3 DEF e
<1> DEFINE cleaned == Append(r.tasks, <<"clean", 0>>)
<1>8. /\ cleaned \in Seq(Task) /\ Balanced(q.count, cleaned, Ones, c) /\ Balanced(q.bytes, cleaned, Sizes, b)
    BY <1>1, <1>6, <1>7
<1>9. q.tasks \in {r.tasks, Append(r.tasks, <<"forget", 0>>), cleaned, Append(cleaned, <<"forget", 0>>)}
    BY DEF Projects
<1> HIDE DEF cleaned
<1>10. Balanced(q.count, q.tasks, Ones, c) /\ Balanced(q.bytes, q.tasks, Sizes, b)
    BY <1>1, <1>6, <1>7, <1>8, <1>9
<1>11. QED
    BY <1>1, <1>10 DEF Books, c, b

\* The other tasks weigh nothing.
LEMMA OtherBooks ==
    ASSUME NEW p \in Pools, NEW r \in Pools, NEW task \in Task, Books(p), TakesFirst(p, r, task),
           task[1] \in {"clean", "forget"}
    PROVE  Books(r)
<1>1. /\ p.tasks \in Seq(Task) /\ p.tasks # <<>> /\ task = Head(p.tasks) /\ r.tasks = Tail(p.tasks)
      /\ r.count = p.count /\ r.bytes = p.bytes /\ r.full = p.full
      /\ p.count \in Int /\ p.bytes \in Int
    BY DEF Pools, Entries, TakesFirst, SameCounters, SameHeld
<1>2. task = <<task[1], task[2]>>
    BY DEF Task
<1>3. Ones[task] = 0 /\ Sizes[task] = 0
    BY <1>2, TaskAmounts
<1>4. /\ Balanced(p.count + Ones[task], r.tasks, Ones, Cardinality(p.full))
      /\ Balanced(p.bytes + Sizes[task], r.tasks, Sizes, Weight[p.full])
    BY <1>1, TaskAmounts, BalancedTail DEF Books
<1>5. QED
    BY <1>1, <1>3, <1>4 DEF Books

LedgerInv == ~again => Books(pool)

\* Every step keeps LedgerInv.
LEMMA NextLedgerInv ==
    TypeInv /\ LedgerInv /\ [Next]_vars => LedgerInv'
<1> SUFFICES ASSUME TypeInv, Books(pool), [Next]_vars, ~again' PROVE Books(pool')
    BY AgainStays DEF LedgerInv
<1>1. /\ pool \in Pools /\ clock \in Clock /\ asked \subseteq Tx /\ pool.seen \cap pool.full = {}
    BY DEF TypeInv
<1>2. ASSUME NEW t \in Tx, OnTransactionHash(t) PROVE Books(pool')
    <2>1. SameCounters(pool, pool') /\ pool'.full = pool.full /\ pool'.tasks = pool.tasks
        BY <1>1, <1>2, IdFacts, AddSeenFields DEF OnTransactionHash
    <2>2. QED
        BY <2>1, BooksSame DEF SameBooks, SameCounters
<1>3. ASSUME NEW t \in Tx, OnTransaction(t) PROVE Books(pool')
    <2> DEFINE id == WId[t]
    <2>1. pool' \in Pools /\ id \notin pool.full /\ (HeldNow(pool, pool', t, clock) \/ DoubleNow(pool, pool', t))
        BY <1>1, <1>3, AddFields DEF OnTransaction
    <2>2. id \in WIds \ pool.full /\ DataOf(id) = t
        BY <2>1, IdFacts
    <2>3. CASE HeldNow(pool, pool', t, clock)
        <3>1. /\ SameCounters(pool, pool') /\ pool'.full = pool.full \cup {id}
              /\ pool'.tasks = Append(pool.tasks, <<"add", Size[DataOf(id)]>>)
            BY <2>2, <2>3 DEF HeldNow
        <3> HIDE DEF id
        <3>2. QED
            BY <1>1, <2>1, <2>2, <3>1, BooksAdd
    <2>4. CASE DoubleNow(pool, pool', t)
        <3>1. SameCounters(pool, pool') /\ pool'.full = pool.full \ {id} /\ pool'.tasks = pool.tasks
            BY <2>4 DEF DoubleNow
        <3>2. SameBooks(pool, pool')
            BY <2>2, <3>1 DEF SameBooks, SameCounters
        <3>3. QED
            BY <3>2, BooksSame
    <2>5. QED
        BY <2>1, <2>3, <2>4
<1>4. ASSUME NEW i \in Index, BlockFetched(i) PROVE Books(pool')
    <2>1. PICK work \in OnNewBlock(pool, Blocks[i], clock) : pool' = work.pool
        BY <1>4 DEF BlockFetched
    <2> DEFINE txs == Blocks[i]
    <2>2. work \in OnNewBlock(pool, txs, clock) /\ txs \in SUBSET Tx
        BY <2>1, IndexFacts
    <2> HIDE DEF txs
    <2>3. QED
        BY <1>1, <2>1, <2>2, BlockBooks
<1>5. ASSUME RunTask PROVE Books(pool')
    <2>1. PICK task \in Task, rest \in Pools :
             TakesFirst(pool, rest, task) /\ Runs(task, rest) /\ (task[1] # "clean" => pool' \in Pools)
        BY <1>1, <1>5, TaskRuns
    <2>2. CASE \/ task[1] = "add" /\ Projects(rest, pool', 1, task[2])
               \/ task[1] = "sub" /\ Projects(rest, pool', -1, task[2])
        <3>1. pool' \in Pools
            BY <2>1, <2>2
        <3>2. CASE task[1] = "add" /\ Projects(rest, pool', 1, task[2])
            <4>1. PICK sign : sign = 1 /\ Projects(rest, pool', sign, task[2])
                BY <3>2
            <4>2. (task[1] = "add" /\ sign = 1) \/ (task[1] = "sub" /\ sign = -1)
                BY <3>2, <4>1
            <4>3. pool \in Pools /\ TakesFirst(pool, rest, task) /\ Projects(rest, pool', sign, task[2])
                BY <1>1, <2>1, <4>1
            <4>4. QED
                BY <3>1, <4>2, <4>3, ProjectBooks
        <3>3. CASE task[1] = "sub" /\ Projects(rest, pool', -1, task[2])
            <4>1. PICK sign : sign = -1 /\ Projects(rest, pool', sign, task[2])
                BY <3>3
            <4>2. (task[1] = "add" /\ sign = 1) \/ (task[1] = "sub" /\ sign = -1)
                BY <3>3, <4>1
            <4>3. pool \in Pools /\ TakesFirst(pool, rest, task) /\ Projects(rest, pool', sign, task[2])
                BY <1>1, <2>1, <4>1
            <4>4. QED
                BY <3>1, <4>2, <4>3, ProjectBooks
        <3>4. QED
            BY <2>2, <3>2, <3>3
    <2>3. CASE task[1] = "forget" /\ CleansForget(rest, pool', clock)
        <3>1. Books(rest)
            BY <1>1, <2>1, <2>3, OtherBooks
        <3>2. SameBooks(rest, pool')
            BY <2>3 DEF CleansForget, SameHeld, SameBooks
        <3>3. QED
            BY <3>1, <3>2, BooksSame
    <2>4. CASE task[1] = "clean" /\ \E v \in CleanMempool(rest, clock) : pool' = v.pool
        <3>1. Books(rest)
            BY <1>1, <2>1, <2>4, OtherBooks
        <3>2. rest.seen \cap rest.full = {}
            BY <1>1, <2>1 DEF TakesFirst, SameHeld
        <3>3. QED
            BY <1>1, <2>4, <3>1, <3>2, CleanBooks
    <2>5. QED
        BY <2>1, <2>2, <2>3, <2>4 DEF Runs
<1>6. CASE UNCHANGED pool
    BY <1>6
<1>7. QED
    BY <1>2, <1>3, <1>4, <1>5, <1>6
    DEF Next, BlockStep, OnBlockHeader, FetchFails, Retry, Tick, vars

\* Once the projections under way have run, the counters are the number and the
\* bytes of the transactions held, and neither is negative on the way.
THEOREM Balances == Spec => []Ledger
<1>1. TypeInv /\ LedgerInv => Ledger
    <2> SUFFICES ASSUME TypeInv, LedgerInv, ~again PROVE Ledger
        BY DEF Ledger
    <2>1. pool \in Pools /\ Books(pool)
        BY DEF TypeInv, LedgerInv
    <2>2. /\ Counts(pool)[Len(pool.tasks)] = Cardinality(pool.full)
          /\ \A n \in 0..Len(pool.tasks) : Counts(pool)[n] >= 0
        BY <2>1, BalancedMeans DEF Books
    <2>3. /\ Totals(pool)[Len(pool.tasks)] = Weight[pool.full]
          /\ \A n \in 0..Len(pool.tasks) : Totals(pool)[n] >= 0
        BY <2>1, BalancedMeans DEF Books
    <2>4. QED
        BY <2>2, <2>3 DEF Ledger
<1>2. Init => LedgerInv
    <2> SUFFICES ASSUME Init PROVE Books(pool)
        BY DEF LedgerInv
    <2>1. pool.count = 0 /\ pool.bytes = 0 /\ pool.tasks = <<>> /\ pool.full = {}
        BY DEF Init, EmptyPool
    <2>2. Cardinality(pool.full) = 0 /\ Weight[pool.full] = 0
        BY <2>1, FS_EmptySet, WeightOf
    <2>3. \A a : Balanced(0, <<>>, a, 0)
        <3> TAKE a
        <3> DEFINE f == [n \in 0..0 |-> 0]
                   none == <<>>
        <3>1. Len(none) = 0
            OBVIOUS
        <3> HIDE DEF none
        <3>2. f \in [0..Len(none) -> Nat] /\ f[0] = 0 /\ f[Len(none)] = 0
            BY <3>1
        <3>3. \A n \in 1..Len(none) : f[n] = f[n - 1] + a[none[n]]
            BY <3>1
        <3> HIDE DEF f
        <3>4. QED
            BY <3>2, <3>3 DEF Balanced, none
    <2>4. QED
        BY <2>1, <2>2, <2>3 DEF Books
<1>3. QED
    BY <1>1, <1>2, InitTypeInv, InitOut, NextTypeInv, NextJobInv, NextHeldInv, NextLedgerInv, PTL DEF Spec
-----------------------------------------------------------------------------
(***************************************************************************)
(* The clean-up, and the ids filed by time.                                *)
(***************************************************************************)
Filed(p) == \A id \in p.full : \E k \in Clock : id \in p.byTime[k]

\* While a removal is under way, one id that is held may be filed no longer: the
\* one that the clean-up is about to remove.
Filing(p0, now) ==
    {w \in Shrinking(p0, now) :
        \A id \in w.pool.full :
           \/ \E k \in Clock : id \in w.pool.byTime[k]
           \/ Len(w.todo) > 0 /\ Deep(w, Len(w.todo)) = <<"tx", id, id>>}

\* Every step of a removal keeps data filed, or its removal next.
LEMMA FilingCloses ==
    ASSUME NEW p0, NEW now \in Clock
    PROVE  \A w \in Filing(p0, now) : Step(w, now) \subseteq Filing(p0, now)
<1> SUFFICES ASSUME NEW w \in Filing(p0, now), NEW v \in Step(w, now)
             PROVE  v \in Filing(p0, now)
    OBVIOUS
<1> DEFINE n == Len(w.todo)
           call == Deep(w, n)
           p == w.pool
           q == v.pool
<1>1. w \in Shrinking(p0, now)
    BY DEF Filing
<1>2. /\ v \in Shrinking(p0, now)
      /\ \/ v = w
         \/ n \in Nat /\ n > 0 /\ call \in CallSet /\ Does(w, v, call, now) /\ Shrunk(p, q, now)
    BY <1>1, ShrinkingStep
<1>3. CASE v = w
    BY <1>3
<1>4. CASE n \in Nat /\ n > 0 /\ call \in CallSet /\ Does(w, v, call, now) /\ Shrunk(p, q, now)
    <2>1. w \in Works /\ v \in Works /\ p \in Entries
        BY <1>1, <1>2 DEF Shrinking, Works, Pools
    <2>2. Touches(p, q, call, now)
        BY <1>4, <2>1, CallTouches
    <2>3. SUFFICES ASSUME NEW id \in q.full
                   PROVE  \/ \E k \in Clock : id \in q.byTime[k]
                          \/ Len(v.todo) > 0 /\ Deep(v, Len(v.todo)) = <<"tx", id, id>>
        BY <1>2 DEF Filing
    <2>4. id \in p.full /\ (call = <<"tx", id, id>> \/ \E k \in Clock : id \in p.byTime[k])
        BY <1>4 DEF Filing, Shrunk
    <2>5. CASE call = <<"tx", id, id>>
        <3>1. call[1] = "tx" /\ call[2] = id
            BY <2>5
        <3>2. q.full = p.full \ {id}
            BY <2>2, <3>1 DEF Touches
        <3>3. QED
            BY <3>2
    <2>6. CASE \E k \in Clock : id \in p.byTime[k]
        <3>1. CASE call[1] # "clean"
            BY <2>2, <2>6, <3>1 DEF Touches
        <3>2. CASE call[1] = "clean"
            <4>1. CleanEffect(w, v)
                BY <1>4, <3>2 DEF Does
            <4>2. CASE q = p
                BY <2>6, <4>2
            <4>3. CASE q # p
                <5>1. PICK key \in Clock : \E x \in p.byTime[key] :
                         /\ q.byTime = [p.byTime EXCEPT ![key] = p.byTime[key] \ {x}]
                         /\ Len(v.todo) = n + 1 /\ Deep(v, Len(v.todo)) = <<"tx", x, x>>
                    BY <4>1, <4>3 DEF CleanEffect
                <5>2. PICK x \in p.byTime[key] :
                         /\ q.byTime = [p.byTime EXCEPT ![key] = p.byTime[key] \ {x}]
                         /\ Len(v.todo) = n + 1 /\ Deep(v, Len(v.todo)) = <<"tx", x, x>>
                    BY <5>1
                <5>3. p.byTime \in [Clock -> SUBSET WIds]
                    BY <2>1 DEF Entries
                <5>4. CASE x = id
                    BY <1>4, <5>2, <5>4
                <5>5. CASE x # id
                    BY <2>6, <5>2, <5>3, <5>5
                <5>6. QED
                    BY <5>4, <5>5
            <4>4. QED
                BY <4>2, <4>3
        <3>3. QED
            BY <3>1, <3>2
    <2>7. QED
        BY <2>4, <2>5, <2>6
<1>5. QED
    BY <1>2, <1>3, <1>4

\* It holds when a removal starts.
LEMMA FilingStart ==
    ASSUME NEW p \in Pools, Filed(p), NEW now \in Clock, NEW w \in Works, w.pool = p, w.raised = "no"
    PROVE  w \in Filing(p, now)
BY DEF Filing, Filed, Shrinking, Shrunk, SameCounters

\* When it is over, what is held is filed.
LEMMA FilingEnd ==
    ASSUME NEW p0, NEW now, NEW w \in Filing(p0, now), w.todo = <<>>
    PROVE  Filed(w.pool)
<1>1. Len(w.todo) = 0
    OBVIOUS
<1>2. QED
    BY <1>1 DEF Filing, Filed

\* The removals of a block keep data filed.
LEMMA BlockFiled ==
    ASSUME NEW p \in Pools, Filed(p), NEW txs \in SUBSET Tx,
           NEW now \in Clock, NEW work \in OnNewBlock(p, txs, now)
    PROVE  Filed(work.pool)
<1> DEFINE ids == Named(txs)
           p0 == Forget(p, ids, now)
           S == Filing(p0, now)
<1>1. ids \in SUBSET Id
    BY NamedIds
<1> HIDE DEF ids
<1>2. p0 \in Pools /\ Filed(p0)
    <2>1. p0 = Forget(p, ids, now)
        OBVIOUS
    <2> HIDE DEF p0, S
    <2>2. p0 \in Pools /\ ForgetsNow(p, p0, ids, now)
        BY <1>1, <2>1, ForgetIsPool
    <2>3. QED
        BY <2>2 DEF ForgetsNow, SameHeld, Filed
<1> HIDE DEF p0
<1>3. \A w \in Works : BlockStarts(w, p, txs, now) => w \in S
    <2> TAKE w \in Works
    <2> HAVE BlockStarts(w, p, txs, now)
    <2>1. w.pool = p0 /\ w.raised = "no"
        BY DEF BlockStarts, p0, ids
    <2>2. QED
        BY <1>2, <2>1, FilingStart
<1>4. \A w \in S : Step(w, now) \subseteq S
    BY FilingCloses
<1> HIDE DEF S
<1>5. OnNewBlock(p, txs, now) \subseteq {w \in S : w.todo = <<>>}
    BY <1>3, <1>4, BlockRun
<1>6. QED
    BY <1>5, FilingEnd DEF S

\* The removals of a clean-up keep data filed.
LEMMA CleanFiled ==
    ASSUME NEW p \in Pools, Filed(p), NEW now \in Clock, NEW v \in CleanMempool(p, now)
    PROVE  Filed(v.pool)
<1> DEFINE S == Filing(p, now)
<1>1. \A w \in Works : CleanStarts(w, p) => w \in S
    BY FilingStart DEF CleanStarts
<1>2. S \in SUBSET Works /\ \A w \in S : Step(w, now) \subseteq S
    BY FilingCloses DEF Filing, Shrinking
<1> HIDE DEF S
<1>3. \A u \in CleanMempool(p, now) :
         \E w \in S : /\ w.todo = <<>> /\ u.raised = w.raised
                      /\ u.pool \in Pools /\ Unlocks(w.pool, u.pool)
    BY <1>1, <1>2, CleanRun
<1>4. PICK w \in S : w.todo = <<>> /\ Unlocks(w.pool, v.pool)
    BY <1>3
<1>5. Filed(w.pool)
    BY <1>4, FilingEnd DEF S
<1>6. QED
    BY <1>4, <1>5 DEF Filed, Unlocks, SameHeld

FiledInv == Filed(pool)

\* Every step keeps FiledInv.
LEMMA NextFiledInv ==
    TypeInv /\ FiledInv /\ [Next]_vars => FiledInv'
<1> SUFFICES ASSUME TypeInv, Filed(pool), [Next]_vars PROVE Filed(pool')
    BY DEF FiledInv
<1>1. pool \in Pools /\ clock \in Clock /\ asked \subseteq Tx
    BY DEF TypeInv
<1>2. ASSUME NEW t \in Tx, OnTransactionHash(t) PROVE Filed(pool')
    <2>1. pool'.full = pool.full /\ pool'.byTime = pool.byTime
        BY <1>1, <1>2, IdFacts, AddSeenFields DEF OnTransactionHash
    <2>2. QED
        BY <2>1 DEF Filed
<1>3. ASSUME NEW t \in Tx, OnTransaction(t) PROVE Filed(pool')
    <2>1. HeldNow(pool, pool', t, clock) \/ DoubleNow(pool, pool', t)
        BY <1>1, <1>3, AddFields DEF OnTransaction
    <2>2. CASE DoubleNow(pool, pool', t)
        BY <2>2 DEF DoubleNow, Filed
    <2>3. CASE HeldNow(pool, pool', t, clock)
        <3> DEFINE id == WId[t]
        <3>1. pool.byTime \in [Clock -> SUBSET WIds]
            BY <1>1 DEF Pools, Entries
        <3>2. /\ pool'.byTime = [pool.byTime EXCEPT ![clock] = pool.byTime[clock] \cup {id}]
              /\ pool'.full = pool.full \cup {id}
            BY <2>3 DEF HeldNow
        <3> HIDE DEF id
        <3>3. id \in pool'.byTime[clock] /\ \A k \in Clock : pool.byTime[k] \subseteq pool'.byTime[k]
            BY <1>1, <3>1, <3>2
        <3>4. QED
            BY <1>1, <3>2, <3>3 DEF Filed
    <2>4. QED
        BY <2>1, <2>2, <2>3
<1>4. ASSUME NEW i \in Index, BlockFetched(i) PROVE Filed(pool')
    <2>1. PICK work \in OnNewBlock(pool, Blocks[i], clock) : pool' = work.pool
        BY <1>4 DEF BlockFetched
    <2> DEFINE txs == Blocks[i]
    <2>2. work \in OnNewBlock(pool, txs, clock) /\ txs \in SUBSET Tx
        BY <2>1, IndexFacts
    <2> HIDE DEF txs
    <2>3. QED
        BY <1>1, <2>1, <2>2, BlockFiled
<1>5. ASSUME RunTask PROVE Filed(pool')
    <2>1. PICK task \in Task, rest \in Pools : TakesFirst(pool, rest, task) /\ Runs(task, rest)
        BY <1>1, <1>5, TaskRuns
    <2>2. Filed(rest)
        BY <2>1 DEF TakesFirst, SameHeld, Filed
    <2>3. CASE SameHeld(rest, pool')
        BY <2>2, <2>3 DEF SameHeld, Filed
    <2>4. CASE \E v \in CleanMempool(rest, clock) : pool' = v.pool
        BY <1>1, <2>2, <2>4, CleanFiled
    <2>5. QED
        BY <2>1, <2>3, <2>4 DEF Runs, Projects, CleansForget
<1>6. CASE UNCHANGED pool
    BY <1>6
<1>7. QED
    BY <1>2, <1>3, <1>4, <1>5, <1>6
    DEF Next, BlockStep, OnBlockHeader, FetchFails, Retry, Tick, vars

\* The clean-up stops at once if the bytes are down.
Enough(p) == p.bytes * 100 <= MaxBytes * 95

Wiping(p0, now) ==
    {w \in Sound(p0, now) :
        /\ w \in Filing(p0, now) /\ w.raised # "TypeError"
        /\ \A k \in Clock : w.pool.byTime[k] \cap w.pool.seen = {}
        /\ \A k \in 1..Len(w.todo) :
              /\ Deep(w, k)[1] # "mined"
              /\ Deep(w, k)[1] = "tx" => Deep(w, k)[2] \notin w.pool.seen
        /\ Enough(p0) => w.pool.full = p0.full /\ \A k \in 1..Len(w.todo) : Deep(w, k)[1] = "clean"
        /\ ~Enough(p0) /\ w.raised = "no" =>
              w.pool.byTime = Undated \/ \E k \in 1..Len(w.todo) : Deep(w, k)[1] = "clean"}

\* Every step of a clean-up that found too many bytes wipes.
LEMMA WipingCloses ==
    ASSUME NEW p0, NEW now \in Clock, p0.seen \cap p0.full = {}
    PROVE  \A w \in Wiping(p0, now) : Step(w, now) \subseteq Wiping(p0, now)
<1> SUFFICES ASSUME NEW w \in Wiping(p0, now), NEW v \in Step(w, now)
             PROVE  v \in Wiping(p0, now)
    OBVIOUS
<1> DEFINE n == Len(w.todo)
           m == Len(v.todo)
           call == Deep(w, n)
           p == w.pool
           q == v.pool
<1>1. /\ w \in Sound(p0, now) /\ w \in Filing(p0, now) /\ w \in Shrinking(p0, now)
      /\ \A k \in Clock : p.byTime[k] \cap p.seen = {}
      /\ \A k \in 1..n : Deep(w, k)[1] # "mined" /\ (Deep(w, k)[1] = "tx" => Deep(w, k)[2] \notin p.seen)
      /\ Enough(p0) => p.full = p0.full /\ \A k \in 1..n : Deep(w, k)[1] = "clean"
      /\ ~Enough(p0) /\ w.raised = "no" => p.byTime = Undated \/ \E k \in 1..n : Deep(w, k)[1] = "clean"
    BY DEF Wiping, Sound
<1>2. /\ v \in Sound(p0, now) /\ v \in Filing(p0, now) /\ v \in Shrinking(p0, now)
      /\ \/ v = w
         \/ /\ w.raised = "no" /\ Shrunk(p, q, now)
            /\ n \in Nat /\ n > 0 /\ call \in CallSet /\ Does(w, v, call, now)
            /\ v.raised = "no" => Kept(w, v)
    BY <1>1, ShrinkingStep, SoundCloses, FilingCloses
<1>3. CASE v = w
    BY <1>3
<1>4. CASE /\ w.raised = "no" /\ Shrunk(p, q, now)
           /\ n \in Nat /\ n > 0 /\ call \in CallSet /\ Does(w, v, call, now)
           /\ v.raised = "no" => Kept(w, v)
    <2>1. /\ w \in Works /\ v \in Works /\ SameCounters(p0, p) /\ n \in 1..n
          /\ (v.raised # "no" => v.todo = <<>>)
        BY <1>1, <1>2, <1>4 DEF Shrinking, Shrunk
    <2>2. Touches(p, q, call, now)
        BY <1>4, <2>1, CallTouches
    <2>3. call[1] # "mined" /\ (call[1] = "tx" => call[2] \notin p.seen)
        BY <1>1, <2>1
    <2>4. v.raised # "TypeError"
        BY <1>4, <2>3, TypeErrors
    <2>5. q.seen \subseteq p.seen /\ \A k \in Clock : q.byTime[k] \cap q.seen = {}
        BY <1>1, <1>4 DEF Shrunk
    <2>6. ASSUME v.raised # "no" PROVE m = 0
        BY <2>1, <2>6
    <2>7. \A k \in 1..m :
             /\ v.raised = "no" /\ m \in Nat
             /\ \/ k < n /\ k \in 1..n /\ Deep(v, k) = Deep(w, k)
                \/ k >= n /\ Made(p, call, Deep(v, k))
        BY <1>4, <2>6, NewCalls DEF Kept
    <2>8. ASSUME NEW k \in 1..m
          PROVE  Deep(v, k)[1] # "mined" /\ (Deep(v, k)[1] = "tx" => Deep(v, k)[2] \notin q.seen)
        <3>1. CASE k < n /\ k \in 1..n /\ Deep(v, k) = Deep(w, k)
            BY <1>1, <2>5, <3>1
        <3>2. CASE Made(p, call, Deep(v, k))
            <4>1. \A o \in Outpoint : p.outs[o] \cap p.seen = {}
                BY <1>1, <1>4 DEF Sound, OutsRight
            <4>2. call[1] = "dsout" => call[2] \in Outpoint
                BY <1>4 DEF Does
            <4> DEFINE new == Deep(v, k)
            <4> HIDE DEF call, new, p, q
            <4>3. new[1] # "mined"
                <5>1. \A x : <<"forget", x, x>>[1] = "forget" /\ <<"dsdone", x, x>>[1] = "dsdone"
                    OBVIOUS
                <5>2. QED
                    BY <3>2, <5>1 DEF Made, new
            <4>4. ASSUME new[1] = "tx" PROVE new[2] \notin p.seen
                <5>1. \A x : <<"forget", x, x>>[1] = "forget" /\ <<"dsdone", x, x>>[1] = "dsdone"
                    OBVIOUS
                <5>2. \/ call[1] = "dsout" /\ new[2] \in p.outs[call[2]]
                      \/ \E key \in Clock : new[2] \in p.byTime[key]
                    BY <3>2, <4>4, <5>1 DEF Made, new
                <5>3. QED
                    BY <1>1, <4>1, <4>2, <5>2 DEF p
            <4>5. QED
                BY <2>5, <4>3, <4>4 DEF new
        <3>3. QED
            BY <2>7, <3>1, <3>2
    <2>9. ASSUME Enough(p0) PROVE q.full = p0.full /\ \A k \in 1..m : Deep(v, k)[1] = "clean"
        <3>1. call[1] = "clean" /\ p.bytes = p0.bytes /\ p.full = p0.full
            BY <1>1, <2>1, <2>9 DEF SameCounters
        <3>2. q = p /\ Returns(w, v)
            BY <1>4, <2>9, <3>1 DEF Does, CleanEffect, Enough
        <3>3. \A k \in 1..m : k < n /\ k \in 1..n /\ Deep(v, k) = Deep(w, k)
            BY <2>1, <3>2 DEF Returns, Kept
        <3>4. QED
            BY <1>1, <2>9, <3>1, <3>2, <3>3
    <2>10. ASSUME ~Enough(p0), v.raised = "no"
           PROVE  q.byTime = Undated \/ \E k \in 1..m : Deep(v, k)[1] = "clean"
        <3>1. Kept(w, v) /\ p.bytes = p0.bytes
            BY <1>4, <2>1, <2>10 DEF SameCounters
        <3>2. CASE call[1] = "clean"
            <4>1. CleanEffect(w, v)
                BY <1>4, <3>2 DEF Does
            <4>2. CASE p.byTime = Undated
                <5>1. \A key \in Clock : p.byTime[key] = {}
                    BY <4>2 DEF Undated
                <5>2. q = p
                    BY <4>1, <5>1 DEF CleanEffect
                <5>3. QED
                    BY <4>2, <5>2
            <4>3. CASE p.byTime # Undated
                <5>1. PICK x : m = n + 1 /\ Deep(v, n) = <<"clean", x, x>>
                    BY <2>10, <3>1, <4>1, <4>3 DEF CleanEffect, Enough
                <5>2. n \in 1..m /\ Deep(v, n)[1] = "clean"
                    BY <1>4, <5>1
                <5>3. QED
                    BY <5>2
            <4>4. QED
                BY <4>2, <4>3
        <3>3. CASE call[1] # "clean"
            <4>1. q.byTime = p.byTime
                BY <2>2, <3>3 DEF Touches
            <4>2. ASSUME NEW k \in 1..n, Deep(w, k)[1] = "clean" PROVE k \in 1..m /\ Deep(v, k)[1] = "clean"
                <5>1. k < n
                    BY <1>4, <3>3, <4>2
                <5>2. QED
                    BY <3>1, <4>2, <5>1 DEF Kept
            <4>3. QED
                BY <1>1, <1>4, <2>10, <4>1, <4>2
        <3>4. QED
            BY <3>2, <3>3
    <2>11. QED
        BY <1>2, <2>4, <2>5, <2>8, <2>9, <2>10 DEF Wiping
<1>5. QED
    BY <1>2, <1>3, <1>4

\* A clean-up takes everything or nothing.
LEMMA CleanWiping ==
    ASSUME NEW p \in Pools, p.seen \cap p.full = {}, Agreed(p), Filed(p), NEW now \in Clock,
           \A k \in Clock : p.byTime[k] \cap p.seen = {},
           NEW v \in CleanMempool(p, now), v.raised # "KeyError"
    PROVE  v.pool.full \in {{}, p.full}
<1> DEFINE S == Wiping(p, now)
<1>1. \A w \in Works : CleanStarts(w, p) => w \in S
    <2> TAKE w \in Works
    <2> HAVE CleanStarts(w, p)
    <2>1. w.pool = p /\ w.raised = "no" /\ Len(w.todo) = 1 /\ Deep(w, 1) = <<"clean", 0, 0>>
        BY DEF CleanStarts
    <2>2. \A k \in 1..Len(w.todo) : Deep(w, k)[1] = "clean"
        BY <2>1
    <2>3. w \in Sound(p, now)
        BY <2>1, <2>2, SoundStart DEF Starting
    <2>4. w \in Filing(p, now)
        BY <2>1, FilingStart
    <2>5. \E k \in 1..Len(w.todo) : Deep(w, k)[1] = "clean"
        BY <2>1
    <2>6. QED
        BY <2>1, <2>2, <2>3, <2>4, <2>5 DEF Wiping
<1>2. S \in SUBSET Works /\ \A w \in S : Step(w, now) \subseteq S
    BY WipingCloses DEF Wiping, Sound, Shrinking
<1> HIDE DEF S
<1>3. \A u \in CleanMempool(p, now) :
         \E w \in S : /\ w.todo = <<>> /\ u.raised = w.raised
                      /\ u.pool \in Pools /\ Unlocks(w.pool, u.pool)
    BY <1>1, <1>2, CleanRun
<1>4. PICK w \in S : w.todo = <<>> /\ v.raised = w.raised /\ Unlocks(w.pool, v.pool)
    BY <1>3
<1>5. w \in Works /\ w.raised = "no" /\ Len(w.todo) = 0 /\ Filed(w.pool)
    BY <1>4, FilingEnd DEF S, Wiping, Sound, Shrinking, Works
<1>6. CASE Enough(p)
    BY <1>4, <1>6 DEF S, Wiping, Unlocks, SameHeld
<1>7. CASE ~Enough(p)
    <2>1. w.pool.byTime = Undated
        BY <1>5, <1>7 DEF S, Wiping
    <2>2. \A k \in Clock : w.pool.byTime[k] = {}
        BY <2>1 DEF Undated
    <2>3. w.pool.full = {}
        BY <1>5, <2>2 DEF Filed
    <2>4. QED
        BY <1>4, <2>3 DEF Unlocks, SameHeld
<1>8. QED
    BY <1>6, <1>7

\* Only the clean-up gives its lock back.
LEMMA OnlyCleanUnlocks ==
    ASSUME TypeInv, Next, pool.cleanLock, ~pool'.cleanLock
    PROVE  \E rest \in Pools, task \in Task : \E v \in CleanMempool(rest, clock) :
              /\ TakesFirst(pool, rest, task) /\ task[1] = "clean"
              /\ pool' = v.pool /\ torn' = (torn \/ v.raised = "KeyError")
<1>1. pool \in Pools /\ clock \in Clock /\ asked \subseteq Tx
    BY DEF TypeInv
<1>2. ASSUME NEW t \in Tx, OnTransactionHash(t) PROVE FALSE
    BY <1>1, <1>2, IdFacts, AddSeenFields DEF OnTransactionHash, SameCounters
<1>3. ASSUME NEW t \in Tx, OnTransaction(t) PROVE FALSE
    BY <1>1, <1>3, AddFields DEF OnTransaction, HeldNow, DoubleNow, SameCounters
<1>4. ASSUME NEW i \in Index, BlockFetched(i) PROVE FALSE
    <2>1. PICK work \in OnNewBlock(pool, Blocks[i], clock) : pool' = work.pool
        BY <1>4 DEF BlockFetched
    <2> DEFINE txs == Blocks[i]
               ids == Named(txs)
               p0 == Forget(pool, ids, clock)
    <2>2. work \in OnNewBlock(pool, txs, clock) /\ txs \in SUBSET Tx
        BY <2>1, IndexFacts
    <2> HIDE DEF txs
    <2>3. ids \in SUBSET Id /\ work \in Shrinking(p0, clock)
        BY <1>1, <2>2, NamedIds, BlockShrinks
    <2>4. p0 = Forget(pool, ids, clock)
        OBVIOUS
    <2> HIDE DEF ids, p0
    <2>5. ForgetsNow(pool, p0, ids, clock)
        BY <1>1, <2>3, <2>4, ForgetIsPool
    <2>6. QED
        BY <2>1, <2>3, <2>5 DEF Shrinking, Shrunk, ForgetsNow, SameCounters
<1>5. CASE RunTask
    <2>1. PICK task \in Task, rest \in Pools : TakesFirst(pool, rest, task) /\ Runs(task, rest)
        BY <1>1, <1>5, TaskRuns
    <2>2. rest.cleanLock = pool.cleanLock
        BY <2>1 DEF TakesFirst, SameCounters
    <2>3. ~CleansForget(rest, pool', clock) /\ \A sign, size : ~Projects(rest, pool', sign, size)
        BY <2>2 DEF CleansForget, Projects
    <2>4. QED
        BY <2>1, <2>3 DEF Runs
<1>6. pool' # pool
    OBVIOUS
<1>7. QED
    BY <1>2, <1>3, <1>4, <1>5, <1>6
    DEF Next, BlockStep, OnBlockHeader, FetchFails, Retry, Tick

\* The clean-up takes everything or nothing, unless it raises or meets a transaction
\* that is announced again.
THEOREM Wipes == Spec => CleanWipes
<1> DEFINE Wipe == /\ pool.cleanLock /\ ~pool'.cleanLock /\ ~torn' /\ ~again
                   /\ \A k \in Clock : pool.byTime[k] \cap pool.seen = {}
                   => pool'.full \in {{}, pool.full}
<1>1. TypeInv /\ IndexInv /\ FiledInv /\ [Next]_vars => [Wipe]_vars
    <2> SUFFICES ASSUME TypeInv, IndexInv, FiledInv, Next, pool.cleanLock, ~pool'.cleanLock, ~torn', ~again,
                        \A k \in Clock : pool.byTime[k] \cap pool.seen = {}
                 PROVE  pool'.full \in {{}, pool.full}
        BY DEF vars
    <2>1. PICK rest \in Pools, task \in Task : \E v \in CleanMempool(rest, clock) :
              /\ TakesFirst(pool, rest, task) /\ task[1] = "clean"
              /\ pool' = v.pool /\ torn' = (torn \/ v.raised = "KeyError")
        BY OnlyCleanUnlocks
    <2>2. PICK v \in CleanMempool(rest, clock) :
              TakesFirst(pool, rest, task) /\ pool' = v.pool /\ torn' = (torn \/ v.raised = "KeyError")
        BY <2>1
    <2>3. torn \in BOOLEAN /\ ~torn /\ v.raised # "KeyError" /\ clock \in Clock /\ pool.seen \cap pool.full = {}
        BY <2>2 DEF TypeInv
    <2>4. SameHeld(pool, rest)
        BY <2>2 DEF TakesFirst
    <2>5. Agreed(rest) /\ Filed(rest) /\ rest.seen \cap rest.full = {}
        BY <2>3, <2>4 DEF IndexInv, FiledInv, Agreed, Filed, SameHeld
    <2>6. \A k \in Clock : rest.byTime[k] \cap rest.seen = {}
        BY <2>4 DEF SameHeld
    <2>7. v.pool.full \in {{}, rest.full}
        BY <2>3, <2>5, <2>6, CleanWiping
    <2>8. QED
        BY <2>2, <2>4, <2>7 DEF SameHeld
<1>2. Init => FiledInv /\ IndexInv
    <2> SUFFICES ASSUME Init PROVE Filed(pool) /\ Agreed(pool)
        BY DEF FiledInv, IndexInv
    <2>1. pool.full = {} /\ pool.outs = Unheld /\ pool.dsByOut = Unheld
        BY DEF Init, EmptyPool
    <2>2. \A o \in Outpoint : pool.outs[o] = {} /\ pool.dsByOut[o] = {}
        BY <2>1 DEF Unheld
    <2>3. QED
        BY <2>1, <2>2 DEF Filed, Agreed
<1>3. QED
    BY <1>1, <1>2, InitTypeInv, InitOut, NextTypeInv, NextJobInv, NextHeldInv, NextIndexInv, NextFiledInv,
       PTL DEF Spec, CleanWipes
-----------------------------------------------------------------------------
(***************************************************************************)
(* One clean-up at a time, and what a block evicts.                        *)
(***************************************************************************)
OneClean(tasks, lock) ==
    \A i \in 1..Len(tasks) : tasks[i][1] = "clean" =>
        lock /\ \A j \in 1..Len(tasks) : tasks[j][1] = "clean" => i = j

\* Another task leaves the clean-up the only one.
LEMMA OneCleanAppend ==
    ASSUME NEW tasks \in Seq(Task), NEW lock, OneClean(tasks, lock), NEW kind, NEW size,
           kind # "clean"
    PROVE  OneClean(Append(tasks, <<kind, size>>), lock)
<1> DEFINE e == <<kind, size>>
           new == Append(tasks, e)
<1>1. e[1] # "clean"
    OBVIOUS
<1> HIDE DEF e
<1>2. /\ Len(tasks) \in Nat /\ Len(new) = Len(tasks) + 1 /\ new[Len(tasks) + 1] = e
      /\ \A i \in 1..Len(tasks) : new[i] = tasks[i]
    OBVIOUS
<1> HIDE DEF new
<1>3. \A i \in 1..Len(new) : new[i][1] = "clean" => i \in 1..Len(tasks) /\ tasks[i][1] = "clean"
    BY <1>1, <1>2
<1>4. OneClean(new, lock)
    BY <1>3 DEF OneClean
<1>5. QED
    BY <1>4 DEF new, e

\* The clean-up that takes the lock is the only one.
LEMMA OneCleanStart ==
    ASSUME NEW tasks \in Seq(Task), OneClean(tasks, FALSE), NEW size
    PROVE  OneClean(Append(tasks, <<"clean", size>>), TRUE)
<1> DEFINE new == Append(tasks, <<"clean", size>>)
<1>1. /\ Len(tasks) \in Nat /\ Len(new) = Len(tasks) + 1
      /\ \A i \in 1..Len(tasks) : new[i] = tasks[i]
    OBVIOUS
<1> HIDE DEF new
<1>2. \A i \in 1..Len(tasks) : tasks[i][1] # "clean"
    BY DEF OneClean
<1>3. \A i \in 1..Len(new) : new[i][1] = "clean" => i = Len(tasks) + 1
    BY <1>1, <1>2
<1>4. QED
    BY <1>3 DEF OneClean, new

\* When the clean-up runs, no other one is left.
LEMMA OneCleanTail ==
    ASSUME NEW tasks \in Seq(Task), tasks # <<>>, NEW lock, OneClean(tasks, lock)
    PROVE  /\ OneClean(Tail(tasks), lock)
           /\ Head(tasks)[1] = "clean" => \A i \in 1..Len(Tail(tasks)) : Tail(tasks)[i][1] # "clean"
<1> DEFINE new == Tail(tasks)
<1>1. /\ Len(tasks) \in Nat /\ Len(new) = Len(tasks) - 1 /\ Head(tasks) = tasks[1]
      /\ 1 \in 1..Len(tasks)
      /\ \A i \in 1..Len(new) : i + 1 \in 1..Len(tasks) /\ new[i] = tasks[i + 1] /\ i + 1 # 1
    OBVIOUS
<1> HIDE DEF new
<1>2. OneClean(new, lock)
    <2> SUFFICES ASSUME NEW i \in 1..Len(new), new[i][1] = "clean"
                 PROVE  lock /\ \A j \in 1..Len(new) : new[j][1] = "clean" => i = j
        BY DEF OneClean
    <2>1. lock /\ \A j \in 1..Len(tasks) : tasks[j][1] = "clean" => i + 1 = j
        BY <1>1 DEF OneClean
    <2>2. \A j \in 1..Len(new) : new[j][1] = "clean" => i + 1 = j + 1
        BY <1>1, <2>1
    <2>3. QED
        BY <2>1, <2>2
<1>3. ASSUME Head(tasks)[1] = "clean", NEW i \in 1..Len(new) PROVE new[i][1] # "clean"
    <2>1. \A j \in 1..Len(tasks) : tasks[j][1] = "clean" => 1 = j
        BY <1>1, <1>3 DEF OneClean
    <2>2. QED
        BY <1>1, <2>1
<1>4. QED
    BY <1>2, <1>3 DEF new

\* A removal creates no clean-up.
Plain(p0, now) ==
    {w \in Shrinking(p0, now) :
        \A i \in 1..Len(w.pool.tasks) : w.pool.tasks[i][1] = "clean" =>
            i \in 1..Len(p0.tasks) /\ p0.tasks[i][1] = "clean"}

\* A removal creates no clean-up.
LEMMA PlainCloses ==
    ASSUME NEW p0, NEW now \in Clock
    PROVE  \A w \in Plain(p0, now) : Step(w, now) \subseteq Plain(p0, now)
<1> SUFFICES ASSUME NEW w \in Plain(p0, now), NEW v \in Step(w, now)
             PROVE  v \in Plain(p0, now)
    OBVIOUS
<1> DEFINE n == Len(w.todo)
           call == Deep(w, n)
           old == w.pool.tasks
           new == v.pool.tasks
<1>1. w \in Shrinking(p0, now) /\ \A i \in 1..Len(old) : old[i][1] = "clean" =>
                                     i \in 1..Len(p0.tasks) /\ p0.tasks[i][1] = "clean"
    BY DEF Plain
<1>2. /\ v \in Shrinking(p0, now)
      /\ \/ v = w
         \/ call \in CallSet /\ Does(w, v, call, now)
    BY <1>1, ShrinkingStep
<1>3. CASE new = old
    BY <1>1, <1>2, <1>3 DEF Plain
<1>4. CASE new # old /\ Does(w, v, call, now)
    <2>1. w \in Works /\ v \in Works /\ old \in Seq(Task)
        BY <1>1, <1>2 DEF Shrinking, Works, Pools, Entries
    <2>2. PICK size : new = Append(old, <<"sub", size>>)
        <3>1. Touches(w.pool, v.pool, call, now)
            BY <1>4, <2>1, CallTouches
        <3> HIDE DEF call
        <3>2. QED
            BY <1>4, <3>1 DEF Touches
    <2> DEFINE e == <<"sub", size>>
    <2>3. e[1] # "clean" /\ new = Append(old, e)
        BY <2>2
    <2> HIDE DEF e, old, new
    <2>4. \A i \in 1..Len(new) : new[i][1] = "clean" => i \in 1..Len(old) /\ old[i][1] = "clean"
        BY <2>1, <2>3
    <2>5. QED
        BY <1>1, <1>2, <2>4 DEF Plain, new
<1>5. QED
    BY <1>2, <1>3, <1>4

\* It has created none when it starts.
LEMMA PlainStart ==
    ASSUME NEW p \in Pools, NEW now \in Clock, NEW w \in Works, w.pool = p, w.raised = "no"
    PROVE  w \in Plain(p, now)
BY DEF Plain, Shrinking, Shrunk, SameCounters

\* The removals of a block leave the clean-up the only one.
LEMMA BlockPlain ==
    ASSUME NEW p \in Pools, OneClean(p.tasks, p.cleanLock), NEW txs \in SUBSET Tx,
           NEW now \in Clock, NEW work \in OnNewBlock(p, txs, now)
    PROVE  OneClean(work.pool.tasks, work.pool.cleanLock)
<1> DEFINE ids == Named(txs)
           p0 == Forget(p, ids, now)
           S == Plain(p0, now)
<1>1. ids \in SUBSET Id
    BY NamedIds
<1> HIDE DEF ids
<1>2. p0 \in Pools /\ OneClean(p0.tasks, p0.cleanLock)
    <2>1. p0 = Forget(p, ids, now)
        OBVIOUS
    <2> HIDE DEF p0, S
    <2>2. p0 \in Pools /\ ForgetsNow(p, p0, ids, now)
        BY <1>1, <2>1, ForgetIsPool
    <2>3. QED
        BY <2>2 DEF ForgetsNow, SameCounters
<1> HIDE DEF p0
<1>3. \A w \in Works : BlockStarts(w, p, txs, now) => w \in S
    <2> TAKE w \in Works
    <2> HAVE BlockStarts(w, p, txs, now)
    <2>1. w.pool = p0 /\ w.raised = "no"
        BY DEF BlockStarts, p0, ids
    <2>2. QED
        BY <1>2, <2>1, PlainStart
<1>4. \A w \in S : Step(w, now) \subseteq S
    BY PlainCloses
<1> HIDE DEF S
<1>5. OnNewBlock(p, txs, now) \subseteq {w \in S : w.todo = <<>>}
    BY <1>3, <1>4, BlockRun
<1>6. work \in Plain(p0, now) /\ work.pool.cleanLock = p0.cleanLock
    BY <1>5 DEF S, Plain, Shrinking, Shrunk, SameCounters
<1>7. QED
    BY <1>2, <1>6 DEF Plain, OneClean

\* After a clean-up there is none.
LEMMA CleanPlain ==
    ASSUME NEW p \in Pools, NEW now \in Clock, NEW v \in CleanMempool(p, now),
           \A i \in 1..Len(p.tasks) : p.tasks[i][1] # "clean"
    PROVE  OneClean(v.pool.tasks, v.pool.cleanLock)
<1> DEFINE S == Plain(p, now)
<1>1. \A w \in Works : CleanStarts(w, p) => w \in S
    BY PlainStart DEF CleanStarts
<1>2. S \in SUBSET Works /\ \A w \in S : Step(w, now) \subseteq S
    BY PlainCloses DEF Plain, Shrinking
<1> HIDE DEF S
<1>3. \A u \in CleanMempool(p, now) :
         \E w \in S : /\ w.todo = <<>> /\ u.raised = w.raised
                      /\ u.pool \in Pools /\ Unlocks(w.pool, u.pool)
    BY <1>1, <1>2, CleanRun
<1>4. PICK w \in S : Unlocks(w.pool, v.pool)
    BY <1>3
<1>5. QED
    BY <1>4 DEF S, Plain, OneClean, Unlocks

LockInv == OneClean(pool.tasks, pool.cleanLock)

\* Every step keeps LockInv.
LEMMA NextLockInv ==
    TypeInv /\ LockInv /\ [Next]_vars => LockInv'
<1> SUFFICES ASSUME TypeInv, OneClean(pool.tasks, pool.cleanLock), [Next]_vars
             PROVE  OneClean(pool'.tasks, pool'.cleanLock)
    BY DEF LockInv
<1>1. pool \in Pools /\ pool.tasks \in Seq(Task) /\ clock \in Clock /\ asked \subseteq Tx
    BY DEF TypeInv, Pools, Entries
<1>2. ASSUME NEW t \in Tx, OnTransactionHash(t) PROVE OneClean(pool'.tasks, pool'.cleanLock)
    BY <1>1, <1>2, IdFacts, AddSeenFields DEF OnTransactionHash, SameCounters
<1>3. ASSUME NEW t \in Tx, OnTransaction(t) PROVE OneClean(pool'.tasks, pool'.cleanLock)
    <2>1. HeldNow(pool, pool', t, clock) \/ DoubleNow(pool, pool', t)
        BY <1>1, <1>3, AddFields DEF OnTransaction
    <2>2. pool'.cleanLock = pool.cleanLock /\ pool'.tasks \in {pool.tasks, Append(pool.tasks, <<"add", Size[t]>>)}
        BY <2>1 DEF HeldNow, DoubleNow, SameCounters
    <2>3. QED
        BY <1>1, <2>2, OneCleanAppend
<1>4. ASSUME NEW i \in Index, BlockFetched(i) PROVE OneClean(pool'.tasks, pool'.cleanLock)
    <2>1. PICK work \in OnNewBlock(pool, Blocks[i], clock) : pool' = work.pool
        BY <1>4 DEF BlockFetched
    <2> DEFINE txs == Blocks[i]
    <2>2. work \in OnNewBlock(pool, txs, clock) /\ txs \in SUBSET Tx
        BY <2>1, IndexFacts
    <2> HIDE DEF txs
    <2>3. QED
        BY <1>1, <2>1, <2>2, BlockPlain
<1>5. ASSUME RunTask PROVE OneClean(pool'.tasks, pool'.cleanLock)
    <2>1. PICK task \in Task, rest \in Pools : TakesFirst(pool, rest, task) /\ Runs(task, rest)
        BY <1>1, <1>5, TaskRuns
    <2>2. /\ pool.tasks # <<>> /\ task = Head(pool.tasks) /\ rest.tasks = Tail(pool.tasks)
          /\ rest.cleanLock = pool.cleanLock /\ rest.tasks \in Seq(Task) /\ rest.cleanLock \in BOOLEAN
        BY <2>1 DEF TakesFirst, SameCounters, Pools, Entries
    <2>3. /\ OneClean(rest.tasks, rest.cleanLock)
          /\ task[1] = "clean" => \A i \in 1..Len(rest.tasks) : rest.tasks[i][1] # "clean"
        BY <1>1, <2>2, OneCleanTail
    <2>4. CASE \E sign, size : Projects(rest, pool', sign, size)
        <3>1. CASE pool'.cleanLock = rest.cleanLock
                   /\ pool'.tasks \in {rest.tasks, Append(rest.tasks, <<"forget", 0>>)}
            BY <2>2, <2>3, <3>1, OneCleanAppend
        <3>2. CASE /\ ~rest.cleanLock /\ pool'.cleanLock
                   /\ pool'.tasks \in {Append(rest.tasks, <<"clean", 0>>),
                                       Append(Append(rest.tasks, <<"clean", 0>>), <<"forget", 0>>)}
            <4>1. PICK one : one = Append(rest.tasks, <<"clean", 0>>)
                OBVIOUS
            <4>2. OneClean(one, pool'.cleanLock)
                <5>1. OneClean(rest.tasks, FALSE)
                    BY <2>2, <2>3, <3>2 DEF OneClean
                <5>2. OneClean(one, TRUE)
                    BY <2>2, <4>1, <5>1, OneCleanStart
                <5>3. QED
                    BY <3>2, <5>2 DEF OneClean
            <4>3. one \in Seq(Task)
                <5>1. <<"clean", 0>> \in Task
                    BY DEF Task
                <5>2. QED
                    BY <2>2, <4>1, <5>1
            <4>4. OneClean(Append(one, <<"forget", 0>>), pool'.cleanLock)
                BY <4>2, <4>3, OneCleanAppend
            <4>5. QED
                BY <3>2, <4>1, <4>2, <4>4
        <3>3. QED
            BY <2>4, <3>1, <3>2 DEF Projects
    <2>5. CASE CleansForget(rest, pool', clock)
        BY <2>3, <2>5 DEF CleansForget
    <2>6. CASE task[1] = "clean" /\ \E v \in CleanMempool(rest, clock) : pool' = v.pool
        BY <1>1, <2>3, <2>6, CleanPlain
    <2>7. QED
        BY <2>1, <2>4, <2>5, <2>6 DEF Runs
<1>6. CASE UNCHANGED pool
    BY <1>6
<1>7. QED
    BY <1>2, <1>3, <1>4, <1>5, <1>6
    DEF Next, BlockStep, OnBlockHeader, FetchFails, Retry, Tick, vars

\* A double spend that conflicts with id, was known when the removal began, and is
\* gone or will be by a call below height k.
Doomed(p0, w, id, k) ==
    \E d \in p0.dspends :
        /\ Conflict(DataOf(id), DataOf(d))
        /\ d \notin w.pool.dspends \/ \E j \in 1..Len(w.todo) : j < k /\ Deep(w, j) = <<"dsdone", d, d>>

\* The removals of a block: who is gone was named, or was in conflict with a double
\* spend that goes with it.
Evicting(p0, ids, now, whole) ==
    {w \in Shrinking(p0, now) :
        /\ whole => w \in Sound(p0, now)
        /\ \A k \in 1..Len(w.todo) :
              /\ Deep(w, k)[1] # "clean"
              /\ Deep(w, k)[1] = "mined" => Deep(w, k)[2] \in ids
              /\ Deep(w, k)[1] = "dsout" =>
                    /\ Deep(w, k)[2] \in Outpoints(Deep(w, k)[3]) /\ Deep(w, k)[3] \in p0.dspends
                    /\ \E j \in 1..Len(w.todo) : j < k /\ Deep(w, j) = <<"dsdone", Deep(w, k)[3], Deep(w, k)[3]>>
              /\ Deep(w, k)[1] = "tx" => Doomed(p0, w, Deep(w, k)[2], k)
        /\ \A id \in p0.full \ w.pool.full :
              \/ id \in ids
              \/ w.raised = "no" /\ Doomed(p0, w, id, Len(w.todo) + 1)
              \/ \E d \in p0.dspends : /\ Conflict(DataOf(id), DataOf(d))
                                       /\ d \notin w.pool.dspends \/ w.raised = "KeyError" \/ ~whole}

\* A call of a removal that raises nothing.
Went(w, v, now) ==
    /\ v.raised = "no" /\ Kept(w, v) /\ Shrunk(w.pool, v.pool, now)
    /\ Len(w.todo) \in Nat /\ Len(w.todo) > 0 /\ Does(w, v, Deep(w, Len(w.todo)), now)

\* Height l is at least k, or above every call that w had left.
Reaches(w, k, l) == k \in Nat /\ l \in Nat /\ k <= Len(w.todo) + 1 /\ (l >= k \/ l >= Len(w.todo))

\* What is doomed stays so.
LEMMA DoomedStep ==
    ASSUME NEW p0, NEW w, NEW v, NEW now, NEW id, NEW k, NEW l,
           Went(w, v, now), Reaches(w, k, l), Doomed(p0, w, id, k)
    PROVE  Doomed(p0, v, id, l)
<1> DEFINE n == Len(w.todo)
<1>1. /\ Kept(w, v) /\ v.raised = "no" /\ Shrunk(w.pool, v.pool, now)
      /\ n \in Nat /\ n > 0 /\ Does(w, v, Deep(w, n), now)
    BY DEF Went
<1>6. k \in Nat /\ l \in Nat /\ k <= n + 1 /\ (l >= k \/ l >= n)
    BY DEF Reaches
<1>2. PICK d \in p0.dspends :
         /\ Conflict(DataOf(id), DataOf(d))
         /\ d \notin w.pool.dspends \/ \E j \in 1..n : j < k /\ Deep(w, j) = <<"dsdone", d, d>>
    BY DEF Doomed
<1>3. CASE d \notin w.pool.dspends
    BY <1>1, <1>2, <1>3 DEF Doomed, Shrunk
<1>4. ASSUME NEW j \in 1..n, j < k, Deep(w, j) = <<"dsdone", d, d>> PROVE Doomed(p0, v, id, l)
    <2>1. CASE j < n
        <3>1. j \in 1..Len(v.todo) /\ Deep(v, j) = <<"dsdone", d, d>> /\ j < l
            BY <1>1, <1>4, <1>6, <2>1 DEF Kept
        <3>2. QED
            BY <1>2, <3>1 DEF Doomed
    <2>2. CASE j = n
        <3> DEFINE call == Deep(w, n)
        <3>1. call[1] = "dsdone" /\ call[2] = d
            BY <1>4, <2>2
        <3>2. DsdoneEffect(w, v, d, now)
            <4> HIDE DEF call
            <4>1. Does(w, v, call, now)
                BY <1>1 DEF call
            <4>2. QED
                BY <3>1, <4>1 DEF Does
        <3>3. d \notin v.pool.dspends
            BY <3>2 DEF DsdoneEffect
        <3>4. QED
            BY <1>2, <3>3 DEF Doomed
    <2>3. QED
        BY <1>1, <1>4, <2>1, <2>2
<1>5. QED
    BY <1>2, <1>3, <1>4

\* Every step of the removals of a block evicts for a reason.
LEMMA EvictingCloses ==
    ASSUME NEW p0 \in Pools, NEW ids, NEW now \in Clock, NEW whole \in BOOLEAN, p0.seen \cap p0.full = {}
    PROVE  \A w \in Evicting(p0, ids, now, whole) : Step(w, now) \subseteq Evicting(p0, ids, now, whole)
<1> SUFFICES ASSUME NEW w \in Evicting(p0, ids, now, whole), NEW v \in Step(w, now)
             PROVE  v \in Evicting(p0, ids, now, whole)
    OBVIOUS
<1> DEFINE n == Len(w.todo)
           m == Len(v.todo)
           call == Deep(w, n)
           p == w.pool
           q == v.pool
<1>1. w \in Shrinking(p0, now) /\ (whole => w \in Sound(p0, now))
    BY DEF Evicting
<1>2. /\ v \in Shrinking(p0, now) /\ (whole => v \in Sound(p0, now))
      /\ \/ v = w
         \/ /\ w.raised = "no" /\ Shrunk(p, q, now)
            /\ n \in Nat /\ n > 0 /\ call \in CallSet /\ Does(w, v, call, now)
            /\ v.raised = "no" => Kept(w, v)
    BY <1>1, ShrinkingStep, SoundCloses
<1>3. CASE v = w
    BY <1>1, <1>3
<1>4. CASE /\ w.raised = "no" /\ Shrunk(p, q, now)
           /\ n \in Nat /\ n > 0 /\ call \in CallSet /\ Does(w, v, call, now)
           /\ v.raised = "no" => Kept(w, v)
    <2>1. /\ w \in Works /\ v \in Works /\ n \in 1..n /\ v.raised \in {"no", "TypeError", "KeyError"}
          /\ (v.raised # "no" => v.todo = <<>>) /\ p.dspends \subseteq p0.dspends /\ p \in Pools
        BY <1>1, <1>2, <1>4 DEF Shrinking, Shrunk, Works
    <2>9. ASSUME v.raised = "no" PROVE Went(w, v, now)
        BY <1>4, <2>9 DEF Went
    <2>2. Touches(p, q, call, now)
        BY <1>4, <2>1, CallTouches
    <2>3. /\ call[1] # "clean" /\ (call[1] = "mined" => call[2] \in ids)
          /\ call[1] = "dsout" =>
                /\ call[2] \in Outpoints(call[3]) /\ call[3] \in p0.dspends
                /\ \E j \in 1..n : j < n /\ Deep(w, j) = <<"dsdone", call[3], call[3]>>
          /\ call[1] = "tx" => Doomed(p0, w, call[2], n)
        BY <2>1 DEF Evicting
    <2>4. ASSUME v.raised # "no" PROVE m = 0
        BY <2>1, <2>4
    <2>5. \A k \in 1..m :
             /\ v.raised = "no" /\ m \in Nat /\ Kept(w, v)
             /\ \/ k < n /\ k \in 1..n /\ Deep(v, k) = Deep(w, k)
                \/ k >= n /\ Made(p, call, Deep(v, k))
        BY <1>4, <2>4, NewCalls DEF Kept
    <2>6. ASSUME NEW k \in 1..m
          PROVE  /\ Deep(v, k)[1] # "clean"
                 /\ Deep(v, k)[1] = "mined" => Deep(v, k)[2] \in ids
                 /\ Deep(v, k)[1] = "dsout" =>
                       /\ Deep(v, k)[2] \in Outpoints(Deep(v, k)[3]) /\ Deep(v, k)[3] \in p0.dspends
                       /\ \E j \in 1..m : j < k /\ Deep(v, j) = <<"dsdone", Deep(v, k)[3], Deep(v, k)[3]>>
                 /\ Deep(v, k)[1] = "tx" => Doomed(p0, v, Deep(v, k)[2], k)
        <3> DEFINE new == Deep(v, k)
        <3>1. CASE k < n /\ k \in 1..n /\ new = Deep(w, k)
            <4>1. /\ new[1] # "clean" /\ (new[1] = "mined" => new[2] \in ids)
                  /\ new[1] = "dsout" =>
                        /\ new[2] \in Outpoints(new[3]) /\ new[3] \in p0.dspends
                        /\ \E j \in 1..n : j < k /\ Deep(w, j) = <<"dsdone", new[3], new[3]>>
                  /\ new[1] = "tx" => Doomed(p0, w, new[2], k)
                BY <3>1 DEF Evicting
            <4>2. \A j \in 1..n : j < k => j \in 1..m /\ Deep(v, j) = Deep(w, j)
                BY <1>4, <2>5, <3>1 DEF Kept
            <4>3. new[1] = "tx" => Doomed(p0, v, new[2], k)
                <5> SUFFICES ASSUME new[1] = "tx" PROVE Doomed(p0, v, new[2], k)
                    OBVIOUS
                <5> DEFINE id == new[2]
                <5>1. Doomed(p0, w, id, k)
                    BY <3>1, <4>1
                <5>4. Reaches(w, k, k)
                    BY <1>4, <3>1 DEF Reaches
                <5>5. Went(w, v, now)
                    BY <2>5, <2>9
                <5> HIDE DEF id
                <5>2. Doomed(p0, v, id, k)
                    BY ONLY <5>1, <5>4, <5>5, DoomedStep
                <5>3. QED
                    BY <5>2 DEF id
            <4> HIDE DEF new
            <4>4. QED
                BY <4>1, <4>2, <4>3 DEF new
        <3>2. CASE k >= n /\ Made(p, call, new)
            <4>1. \A x : /\ <<"forget", x, x>>[1] = "forget" /\ <<"dsdone", x, x>>[1] = "dsdone"
                OBVIOUS
            <4>2. new[1] # "clean" /\ new[1] # "mined"
                <5> HIDE DEF new, call, p, q
                <5>1. QED
                    BY <2>3, <3>2, <4>1 DEF Made
            <4>3. ASSUME new[1] = "dsout"
                  PROVE  /\ new[2] \in Outpoints(new[3]) /\ new[3] \in p0.dspends
                         /\ \E j \in 1..m : j < k /\ Deep(v, j) = <<"dsdone", new[3], new[3]>>
                <5> DEFINE id == call[2]
                <5>1. /\ call[1] \in {"dspend", "mined"} /\ id \in p.dspends
                      /\ new[2] \in Outpoints(id) /\ new[3] = id
                    <6> HIDE DEF new, call, p, q
                    <6>1. QED
                        BY <2>3, <3>2, <4>1, <4>3 DEF Made
                <5>2. DspendEffect(w, v, id)
                    <6>1. ~Returns(w, v)
                        BY <1>4, <2>5, <3>2 DEF Returns
                    <6>2. ~TxEffect(w, v, id)
                        <7>1. SUFFICES ASSUME TxEffect(w, v, id) PROVE FALSE
                            OBVIOUS
                        <7>2. \/ k = n /\ Deep(v, n) = <<"forget", id, id>>
                              \/ k \in (n + 1)..m /\ OnTop(v, n + 1, "free", Outpoints(id), id)
                            BY <1>4, <2>5, <3>2, <7>1 DEF TxEffect, Ends
                        <7>3. new[1] = "forget" \/ new[1] = "free"
                            <8>1. CASE k = n /\ Deep(v, n) = <<"forget", id, id>>
                                BY <8>1
                            <8>2. CASE k \in (n + 1)..m /\ OnTop(v, n + 1, "free", Outpoints(id), id)
                                <9>1. PICK y : new = <<"free", y, id>>
                                    BY <8>2 DEF OnTop
                                <9>2. QED
                                    BY <9>1
                            <8>3. QED
                                BY <7>2, <8>1, <8>2
                        <7>4. QED
                            BY <4>3, <7>3
                    <6>3. QED
                        BY <1>4, <5>1, <6>1, <6>2 DEF Does, MinedEffect
                <5>3. Deep(v, n) = <<"dsdone", id, id>>
                    BY <2>5, <5>2 DEF DspendEffect, Ends
                <5>4. k # n
                    BY <4>1, <4>3, <5>3
                <5>5. n \in 1..m /\ n < k
                    BY <1>4, <2>5, <3>2, <5>4
                <5>6. QED
                    BY <2>1, <5>1, <5>3, <5>5
            <4>4. ASSUME new[1] = "tx" PROVE Doomed(p0, v, new[2], k)
                <5> DEFINE d == call[3]
                           o == call[2]
                <5>1. call[1] = "dsout" /\ new[2] \in p.outs[o]
                    <6> HIDE DEF new, call, p, q
                    <6>1. QED
                        BY <2>3, <3>2, <4>1, <4>4 DEF Made
                <5>2. o \in Outpoint /\ o \in Outpoints(d) /\ d \in p0.dspends
                    BY <1>4, <2>3, <5>1 DEF Does
                <5>3. PICK j \in 1..n : j < n /\ Deep(w, j) = <<"dsdone", d, d>>
                    BY <2>3, <5>1
                <5>4. j \in 1..m /\ j < k /\ Deep(v, j) = <<"dsdone", d, d>>
                    BY <1>4, <2>5, <3>2, <5>3 DEF Kept
                <5>5. o \in Outpoints(new[2])
                    BY <2>1, <5>1, <5>2 DEF Pools, Indexed
                <5>6. Conflict(DataOf(new[2]), DataOf(d))
                    BY <5>2, <5>5 DEF Conflict, Outpoints
                <5>7. QED
                    BY <5>2, <5>4, <5>6 DEF Doomed
            <4> HIDE DEF new
            <4>5. QED
                BY <4>2, <4>3, <4>4 DEF new
        <3>3. QED
            BY <2>5, <3>1, <3>2
    <2>7. ASSUME NEW id \in p0.full \ q.full
          PROVE  \/ id \in ids
                 \/ v.raised = "no" /\ Doomed(p0, v, id, m + 1)
                 \/ \E d \in p0.dspends : /\ Conflict(DataOf(id), DataOf(d))
                                          /\ d \notin q.dspends \/ v.raised = "KeyError" \/ ~whole
        <3>1. id \in ids \/ Doomed(p0, w, id, n + 1)
                 \/ \E d \in p0.dspends : Conflict(DataOf(id), DataOf(d)) /\ (d \notin p.dspends \/ ~whole)
            <4>1. CASE id \notin p.full
                BY <1>4, <2>7, <4>1 DEF Evicting
            <4>2. CASE id \in p.full
                <5>1. call[1] \in {"tx", "mined"} /\ id = call[2]
                    BY <2>2, <2>7, <4>2 DEF Touches, Loses
                <5>2. CASE call[1] = "mined"
                    BY <2>3, <5>1, <5>2
                <5>3. CASE call[1] = "tx"
                    <6>1. Doomed(p0, w, id, n)
                        BY <2>3, <5>1, <5>3
                    <6>2. QED
                        BY <1>4, <6>1 DEF Doomed
                <5>4. QED
                    BY <5>1, <5>2, <5>3
            <4>3. QED
                BY <4>1, <4>2
        <3>2. CASE \E d \in p0.dspends : Conflict(DataOf(id), DataOf(d)) /\ (d \notin p.dspends \/ ~whole)
            BY <1>4, <3>2 DEF Shrunk
        <3>3. CASE Doomed(p0, w, id, n + 1)
            <4>1. CASE v.raised = "no"
                <5>1. Kept(w, v) /\ m \in Nat /\ m + 1 >= n
                    BY <1>4, <4>1 DEF Kept
                <5>2. Doomed(p0, v, id, m + 1)
                    <6>1. PICK k, l : k = n + 1 /\ l = m + 1
                        OBVIOUS
                    <6>2. Reaches(w, k, l)
                        BY <1>4, <5>1, <6>1 DEF Reaches
                    <6>3. Doomed(p0, w, id, k)
                        BY <3>3, <6>1
                    <6>4. Went(w, v, now)
                        BY <2>9, <4>1
                    <6>5. Doomed(p0, v, id, l)
                        BY ONLY <6>2, <6>3, <6>4, DoomedStep
                    <6>6. QED
                        BY <6>1, <6>5
                <5>3. QED
                    BY <4>1, <5>2
            <4>2. CASE v.raised = "KeyError" \/ ~whole
                BY <3>3, <4>2 DEF Doomed
            <4>3. CASE v.raised = "TypeError" /\ whole
                <5>1. call[1] \in {"tx", "mined"} /\ call[2] \in p.seen
                    BY <1>4, <4>3, TypeErrors
                <5>2. \A j \in 1..n : Deep(w, j)[1] # "dsdone"
                    <6> TAKE j \in 1..n
                    <6>1. CASE j = n
                        BY <5>1, <6>1
                    <6>2. CASE j < n
                        <7>1. Deep(w, j)[1] \in Starting
                            BY <1>1, <2>1, <4>3, <5>1, <6>2 DEF Sound, Bottom, Starting
                        <7>2. QED
                            BY <7>1 DEF Starting
                    <6>3. QED
                        BY <1>4, <6>1, <6>2
                <5>3. \A d : <<"dsdone", d, d>>[1] = "dsdone"
                    OBVIOUS
                <5>4. \E d \in p0.dspends : Conflict(DataOf(id), DataOf(d)) /\ d \notin p.dspends
                    <6>1. PICK d \in p0.dspends :
                             /\ Conflict(DataOf(id), DataOf(d))
                             /\ d \notin p.dspends \/ \E j \in 1..n : Deep(w, j) = <<"dsdone", d, d>>
                        BY <3>3 DEF Doomed
                    <6>2. QED
                        BY <5>2, <5>3, <6>1
                <5>5. QED
                    BY <1>4, <5>4 DEF Shrunk
            <4>4. QED
                BY <2>1, <4>1, <4>2, <4>3
        <3>4. QED
            BY <3>1, <3>2, <3>3
    <2>8. QED
        BY <1>2, <2>6, <2>7 DEF Evicting
<1>5. QED
    BY <1>2, <1>3, <1>4

\* What the removals of a block evict.
LEMMA BlockEvicts ==
    ASSUME NEW p \in Pools, p.seen \cap p.full = {}, NEW whole \in BOOLEAN, whole => Agreed(p),
           NEW txs \in SUBSET Tx, NEW now \in Clock, NEW work \in OnNewBlock(p, txs, now),
           NEW id \in p.full \ work.pool.full
    PROVE  \/ DataOf(id) \in txs
           \/ \E d \in p.dspends : /\ Conflict(DataOf(id), DataOf(d))
                                   /\ d \notin work.pool.dspends \/ work.raised = "KeyError" \/ ~whole
<1> DEFINE ids == Named(txs)
           p0 == Forget(p, ids, now)
           S == Evicting(p0, ids, now, whole)
<1>1. ids \in SUBSET Id
    BY NamedIds
<1> HIDE DEF ids
<1>2. /\ p0 \in Pools /\ p0.seen \cap p0.full = {} /\ (whole => Agreed(p0))
      /\ p0.full = p.full /\ p0.dspends = p.dspends
    <2>1. p0 = Forget(p, ids, now)
        OBVIOUS
    <2> HIDE DEF p0, S
    <2>2. p0 \in Pools /\ ForgetsNow(p, p0, ids, now)
        BY <1>1, <2>1, ForgetIsPool
    <2>3. QED
        BY <2>2 DEF ForgetsNow, SameHeld, Agreed
<1> HIDE DEF p0
<1>3. \A w \in Works : BlockStarts(w, p, txs, now) => w \in S
    <2> TAKE w \in Works
    <2> HAVE BlockStarts(w, p, txs, now)
    <2>1. w.pool = p0 /\ w.raised = "no" /\ AllMined(w, ids)
        BY DEF BlockStarts, p0, ids
    <2>2. w \in Shrinking(p0, now)
        BY <2>1 DEF Shrinking, Shrunk, SameCounters
    <2>3. \A k \in 1..Len(w.todo) : Deep(w, k)[1] = "mined" /\ Deep(w, k)[2] \in ids
        BY <2>1 DEF AllMined
    <2>4. whole => w \in Sound(p0, now)
        BY <1>2, <2>1, <2>3, SoundStart DEF Starting
    <2>5. QED
        BY <2>1, <2>2, <2>3, <2>4 DEF Evicting
<1>4. \A w \in S : Step(w, now) \subseteq S
    BY <1>2, EvictingCloses
<1> HIDE DEF S
<1>5. work \in S /\ Len(work.todo) = 0
    <2>1. OnNewBlock(p, txs, now) \subseteq {w \in S : w.todo = <<>>}
        BY <1>3, <1>4, BlockRun
    <2>2. QED
        BY <2>1
<1>6. id \in ids => DataOf(id) \in txs
    <2> SUFFICES ASSUME id \in ids PROVE DataOf(id) \in txs
        OBVIOUS
    <2>1. id \in WIds /\ DataOf(id) \in Tx /\ WId[DataOf(id)] = id
        BY IdFacts DEF Pools, Entries
    <2>2. PICK t \in txs : id \in {WId[t], Txid[t]}
        BY DEF ids, Named
    <2>3. t = DataOf(id)
        BY <2>1, <2>2, MempoolAssumption
    <2>4. QED
        BY <2>3
<1>7. \/ id \in ids
      \/ Doomed(p0, work, id, 1)
      \/ \E d \in p0.dspends : /\ Conflict(DataOf(id), DataOf(d))
                               /\ d \notin work.pool.dspends \/ work.raised = "KeyError" \/ ~whole
    BY <1>2, <1>5 DEF S, Evicting
<1>8. QED
    BY <1>2, <1>5, <1>6, <1>7 DEF Doomed

\* The data of a transaction leaves by the clean-up, with the block that has it, or
\* by a double spend in conflict with it, which leaves as well unless a KeyError
\* tore a removal.
THEOREM Evicts == Spec => EvictedForConflict
<1> DEFINE Why(id) ==
              \/ pool.cleanLock /\ ~pool'.cleanLock
              \/ \E i \in Index : job[i] = "fetching" /\ job'[i] # "fetching" /\ DataOf(id) \in Blocks[i]
              \/ \E d \in pool.dspends : /\ d \notin pool'.dspends \/ torn'
                                         /\ Conflict(DataOf(id), DataOf(d))
<1>1. TypeInv /\ IndexInv /\ LockInv /\ [Next]_vars =>
         [~again' => \A id \in pool.full \ pool'.full : Why(id)]_vars
    <2> SUFFICES ASSUME TypeInv, IndexInv, LockInv, Next, ~again', NEW id \in pool.full \ pool'.full
                 PROVE  Why(id)
        BY DEF vars
    <2>0. ~again
        BY AgainStays
    <2>1. /\ pool \in Pools /\ clock \in Clock /\ asked \subseteq Tx /\ pool.seen \cap pool.full = {}
          /\ torn \in BOOLEAN /\ job \in [Index -> JobStates]
        BY DEF TypeInv
    <2>2. ASSUME NEW t \in Tx, OnTransactionHash(t) PROVE FALSE
        BY <2>1, <2>2, IdFacts, AddSeenFields DEF OnTransactionHash
    <2>3. ASSUME NEW t \in Tx, OnTransaction(t) PROVE FALSE
        <3>1. WId[t] \notin pool.full /\ (HeldNow(pool, pool', t, clock) \/ DoubleNow(pool, pool', t))
            BY <2>1, <2>3, AddFields DEF OnTransaction
        <3>2. QED
            BY <3>1 DEF HeldNow, DoubleNow
    <2>4. ASSUME NEW i \in Index, BlockFetched(i) PROVE Why(id)
        <3>1. PICK work \in OnNewBlock(pool, Blocks[i], clock) :
                 /\ pool' = work.pool /\ torn' = (torn \/ work.raised = "KeyError")
                 /\ job' = [job EXCEPT ![i] = IF work.raised = "no" THEN "done" ELSE "raised"]
            BY <2>4 DEF BlockFetched
        <3> DEFINE txs == Blocks[i]
                   whole == ~torn
        <3>2. work \in OnNewBlock(pool, txs, clock) /\ txs \in SUBSET Tx
            BY <3>1, IndexFacts
        <3>3. whole \in BOOLEAN /\ (whole => Agreed(pool)) /\ (~whole => torn)
            BY <2>0, <2>1 DEF IndexInv
        <3>4. job[i] = "fetching" /\ job'[i] # "fetching"
            BY <2>1, <2>4, <3>1 DEF BlockFetched
        <3> HIDE DEF txs, whole, Why
        <3>5. \/ DataOf(id) \in txs
              \/ \E d \in pool.dspends : /\ Conflict(DataOf(id), DataOf(d))
                                         /\ d \notin work.pool.dspends \/ work.raised = "KeyError" \/ ~whole
            BY <2>1, <3>1, <3>2, <3>3, BlockEvicts
        <3>6. QED
            BY <2>1, <3>1, <3>3, <3>4, <3>5 DEF Why, txs
    <2>5. CASE RunTask
        <3>1. PICK task \in Task, rest \in Pools : TakesFirst(pool, rest, task) /\ Runs(task, rest)
            BY <2>1, <2>5, TaskRuns
        <3>2. rest.full = pool.full /\ rest.cleanLock = pool.cleanLock
            BY <3>1 DEF TakesFirst, SameHeld, SameCounters
        <3>3. ~CleansForget(rest, pool', clock) /\ \A sign, size : ~Projects(rest, pool', sign, size)
            BY <3>2 DEF CleansForget, Projects, SameHeld
        <3>4. task[1] = "clean" /\ \E v \in CleanMempool(rest, clock) : pool' = v.pool
            BY <3>1, <3>3 DEF Runs
        <3>5. ~pool'.cleanLock
            BY <2>1, <3>1, <3>4, CleanShrinks DEF Unlocks
        <3>6. pool.cleanLock
            <4>1. pool.tasks \in Seq(Task) /\ pool.tasks # <<>> /\ task = Head(pool.tasks)
                BY <2>1, <3>1 DEF TakesFirst, Pools, Entries
            <4>2. 1 \in 1..Len(pool.tasks) /\ pool.tasks[1] = task
                BY <4>1
            <4>3. QED
                BY <3>4, <4>2 DEF LockInv, OneClean
        <3>7. QED
            BY <3>5, <3>6
    <2>6. pool' # pool
        OBVIOUS
    <2>7. QED
        BY <2>2, <2>3, <2>4, <2>5, <2>6
        DEF Next, BlockStep, OnBlockHeader, FetchFails, Retry, Tick
<1>2. Init => LockInv /\ IndexInv
    <2> SUFFICES ASSUME Init PROVE OneClean(pool.tasks, pool.cleanLock) /\ Agreed(pool)
        BY DEF LockInv, IndexInv
    <2>1. pool.tasks = <<>> /\ pool.full = {} /\ pool.outs = Unheld /\ pool.dsByOut = Unheld
        BY DEF Init, EmptyPool
    <2>2. \A o \in Outpoint : pool.outs[o] = {} /\ pool.dsByOut[o] = {}
        BY <2>1 DEF Unheld
    <2>3. QED
        BY <2>1, <2>2 DEF OneClean, Agreed
<1>3. QED
    BY <1>1, <1>2, InitTypeInv, InitOut, NextTypeInv, NextJobInv, NextHeldInv, NextIndexInv, NextLockInv,
       PTL DEF Spec, EvictedForConflict
===============================================================================
