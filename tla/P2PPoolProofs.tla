---------------------------- MODULE P2PPoolProofs ----------------------------
(***************************************************************************)
(* The invariants of P2PPool for any number of slots, peers, required      *)
(* connections, gets, blocks and faults.                                   *)
(*                                                                         *)
(* Of NeverTooMany the inductive form counts the connections under way     *)
(* too; of SecondNeverAsked it says which token is at the head of the      *)
(* first stage while the item is asked for: the second one of the peer     *)
(* that was asked.                                                         *)
(***************************************************************************)
EXTENDS P2PPool, FiniteSetTheorems, SequenceTheorems, TLAPS

OpenType ==
    [phase : {"open", "deaf"}, errors : Nat, doomed : BOOLEAN, owner : Caller \cup {Nobody}]

BatcherType ==
    [place : {"asked", "held", "resolved"}, tokens : Seq(Slot),
     asked : SUBSET Slot, tried : SUBSET Slot]

GetType ==
    [wanted : SUBSET Block, peers : Seq(Slot), result : SUBSET Block, batcher : BatcherType]

ConnOK(s) ==
    /\ conn[s] \in {Closed, Connecting} \cup OpenType
    /\ s \in Established =>
         /\ Score(s) <= 0 => conn[s].doomed
         /\ conn[s].owner # Nobody => s \in Range(get[conn[s].owner].peers)

\* While the first peer has the item, that peer's second token is the next.
BatcherOK(peers, b) ==
    /\ b \in BatcherType
    /\ b.asked \subseteq {peers[1]} /\ b.tried \subseteq {peers[1]}
    /\ b.place = "asked" =>
         b.asked = {peers[1]} /\ b.tried = {} /\ b.tokens # <<>> /\ Head(b.tokens) = peers[1]

GetOK(c) ==
    get[c] # Idle =>
      /\ get[c] \in GetType /\ get[c].peers # <<>>
      /\ get[c].result \subseteq get[c].wanted
      /\ BatcherOK(get[c].peers, get[c].batcher)

\* Open connections and those under way.
Live == {s \in Slot : ~In(s, {"closed"})}

Inv ==
    /\ loop \in {"waiting", "running"} /\ faults \in 0..MaxFaults
    /\ DOMAIN conn = Slot /\ \A s \in Slot : ConnOK(s)
    /\ DOMAIN get = Caller /\ \A c \in Caller : GetOK(c)
    /\ Cardinality(Live) <= Required
-----------------------------------------------------------------------------
(* Numbers *)

\* The least of two naturals, which bounds _pick_privileged_connections.
LEMMA MinOfTwo ==
    ASSUME NEW a \in Nat, NEW b \in Nat
    PROVE  Min({a, b}) \in Nat
<1>1. \E x \in {a, b} : \A y \in {a, b} : x <= y
  BY SMT
<1> QED BY <1>1 DEF Min

\* The least of three naturals, which bounds a round of the connect loop.
LEMMA MinOfThree ==
    ASSUME NEW a \in Nat, NEW b \in Nat, NEW c \in Nat
    PROVE  Min({a, b, c}) \in Nat /\ Min({a, b, c}) <= a
<1>1. \E x \in {a, b, c} : \A y \in {a, b, c} : x <= y
  BY SMT
<1> QED BY <1>1 DEF Min

\* Of a finite set of numbers, those with fewer than n below them are at most n:
\* how many of them are below is different for each.
LEMMA LowestAreFew ==
    ASSUME NEW S \in SUBSET Nat, IsFiniteSet(S), NEW n \in Nat
    PROVE  Cardinality({s \in S : Cardinality({t \in S : t < s}) < n}) <= n
<1> DEFINE Below(s) == {t \in S : t < s}
           L == {s \in S : Cardinality(Below(s)) < n}
           rank == [s \in L |-> Cardinality(Below(s))]
<1>1. ASSUME NEW s \in S
      PROVE  IsFiniteSet(Below(s)) /\ Cardinality(Below(s)) \in Nat
  BY FS_Subset, FS_CardinalityType
<1>2. ASSUME NEW s \in L, NEW t \in L, s < t
      PROVE  Cardinality(Below(s)) # Cardinality(Below(t))
  <2> s \in S /\ t \in S
    OBVIOUS
  <2> s \in Nat /\ t \in Nat
    BY S \subseteq Nat
  <2> s < t
    BY <1>2
  <2> HIDE DEF L
  <2>1. Below(s) \in SUBSET Below(t) /\ s \in Below(t) /\ s \notin Below(s)
    <3>1. \A u \in S : u < s => u < t
      BY S \subseteq Nat
    <3>2. ~(s < s)
      OBVIOUS
    <3> QED BY <3>1, <3>2, Zenon
  <2>2. Below(s) # Below(t)
    BY <2>1
  <2> QED BY <1>1, <2>1, <2>2, FS_Subset
<1>3. rank \in Injection(L, 0..n - 1)
  <2>1. rank \in [L -> 0..n - 1]
    <3>1. ASSUME NEW s \in L PROVE Cardinality(Below(s)) \in 0..n - 1
      <4>1. s \in S /\ Cardinality(Below(s)) < n
        OBVIOUS
      <4> HIDE DEF Below, L, rank
      <4> QED BY <1>1, <4>1
    <3> HIDE DEF Below, L
    <3> QED BY <3>1
  <2> HIDE DEF Below
  <2>2. \A s, t \in L : rank[s] = rank[t] => s = t
    <3>1. \A s \in L : s \in Nat
      OBVIOUS
    <3> HIDE DEF L
    <3> QED BY <1>2, <3>1
  <2> HIDE DEF L, rank
  <2> QED BY <2>1, <2>2 DEF Injection, IsInjective
<1>4. IsFiniteSet(0..n - 1) /\ Cardinality(0..n - 1) = n
  BY FS_Interval
<1> HIDE DEF L, rank
<1>5. Cardinality(L) <= n
  BY <1>3, <1>4, FS_Injection
<1> QED BY <1>5 DEF L
-----------------------------------------------------------------------------
(* The batcher *)

\* A set of one member as a sequence.
LEMMA SingletonSeq ==
    ASSUME NEW S, NEW x \in S
    PROVE  SetToSeq({x}) \in Seq(S)
<1>1. IsFiniteSet({x}) /\ Cardinality({x}) = 1
  BY FS_Singleton
<1>2. \E f \in [1..1 -> {x}] : IsInjective(f)
  <2>1. [i \in 1..1 |-> x] \in [1..1 -> {x}] /\ IsInjective([i \in 1..1 |-> x])
    BY DEF IsInjective
  <2> QED BY <2>1
<1>3. SetToSeq({x}) \in [1..1 -> {x}]
  BY <1>1, <1>2 DEF SetToSeq
<1>4. SetToSeq({x}) = <<x>>
  BY <1>3
<1>5. <<x>> \in Seq(S)
  OBVIOUS
<1> QED BY <1>4, <1>5

\* The first batch asks the first peer.
LEMMA FirstBatch ==
    ASSUME NEW peers \in Seq(Slot), peers # <<>>
    PROVE  BatcherOK(peers, Batch(NewBatcher(peers)))
<1> DEFINE tokens == [i \in 1..2 * Len(peers) |-> peers[(i + 1) \div 2]]
<1>1. Len(peers) \in Nat \ {0} /\ peers[1] \in Slot
  BY EmptySeq
<1>2. tokens \in Seq(Slot) /\ Len(tokens) = 2 * Len(peers)
  <2>1. \A i \in 1..2 * Len(peers) : (i + 1) \div 2 \in 1..Len(peers)
    BY <1>1
  <2>2. \A j \in 1..Len(peers) : peers[j] \in Slot
    OBVIOUS
  <2> QED BY <1>1, <2>1, <2>2
<1>3. tokens # <<>> /\ Head(tokens) = peers[1] /\ tokens[2] = peers[1]
  BY <1>1, <1>2
<1> HIDE DEF tokens
<1>4. Tail(tokens) \in Seq(Slot) /\ Tail(tokens) # <<>> /\ Head(Tail(tokens)) = peers[1]
  BY <1>1, <1>2, <1>3, HeadTailProperties, EmptySeq
<1>5. Batch(NewBatcher(peers)) =
        [place |-> "asked", tokens |-> Tail(tokens), asked |-> {peers[1]}, tried |-> {}]
  BY <1>3 DEF Batch, NewBatcher, tokens
<1> QED BY <1>1, <1>4, <1>5 DEF BatcherOK, BatcherType

\* After the timeout the item meets the same peer again, and stays there.
LEMMA NextBatch ==
    ASSUME NEW peers \in Seq(Slot), peers # <<>>, NEW b, BatcherOK(peers, b), b.place = "asked"
    PROVE  BatcherOK(peers, Batch(BatchTimeout(b)))
<1>1. peers[1] \in Slot
  BY EmptySeq
<1>2. SetToSeq({peers[1]}) \in Seq(Slot)
  BY <1>1, SingletonSeq
<1>3. b.tokens \in Seq(Slot) /\ b.tokens # <<>> /\ Head(b.tokens) = peers[1]
  BY DEF BatcherOK, BatcherType
<1>4. Head(b.tokens \o SetToSeq({peers[1]})) = peers[1]
  BY <1>2, <1>3
<1>5. Batch(BatchTimeout(b)) =
        [place |-> "held", tokens |-> <<>>, asked |-> {}, tried |-> {peers[1]}]
  BY <1>4 DEF Batch, BatchTimeout, BatcherOK, BatcherType
<1> QED BY <1>1, <1>5 DEF BatcherOK, BatcherType

\* The block's arrival.
LEMMA Resolves ==
    ASSUME NEW peers, NEW b, BatcherOK(peers, b)
    PROVE  BatcherOK(peers, Resolve(b))
<1>1. b \in BatcherType
  BY DEF BatcherOK
<1>2. /\ Resolve(b) \in BatcherType
      /\ Resolve(b).place = "resolved" /\ Resolve(b).asked = {} /\ Resolve(b).tried = {}
  BY <1>1, EmptySeq DEF BatcherType, Resolve
<1> QED BY <1>2 DEF BatcherOK
-----------------------------------------------------------------------------
(* The steps *)

\* What holds of the connections while no connection is opened and no owner changes
\* its peers: fewer of them are live.
LEMMA FewerLive ==
    ASSUME Inv, {s \in Slot : conn'[s].phase # "closed"} \subseteq Live
    PROVE  (Cardinality(Live) <= Required)'
<1>1. IsFiniteSet(Live)
  BY P2PAssumption, FS_Subset DEF Live
<1>2. Live' \in SUBSET Live
  BY DEF Live, In
<1>3. Cardinality(Live') <= Cardinality(Live)
  BY <1>1, <1>2, FS_Subset
<1>4. Cardinality(Live) \in Nat /\ Cardinality(Live') \in Nat
  BY <1>1, <1>2, FS_Subset, FS_CardinalityType
<1> QED BY <1>3, <1>4, P2PAssumption DEF Inv

\* A round of the connect loop does not start more connections than are missing.
LEMMA RoundKeepsLimit ==
    ASSUME Inv, LoopConnects
    PROVE  (Cardinality(Live) <= Required)'
<1> DEFINE howmany == Min({missings, Peers, Cardinality(Unused)})
           slots == {s \in Unused : Cardinality({t \in Unused : t < s}) < howmany}
<1>1. /\ IsFiniteSet(Established) /\ Cardinality(Established) \in Nat
      /\ IsFiniteSet(Unused) /\ Cardinality(Unused) \in Nat
  BY P2PAssumption, FS_Subset, FS_CardinalityType DEF Established, Unused
<1>2. howmany \in Nat /\ howmany <= missings
  <2>1. missings \in Nat /\ Peers \in Nat
    BY <1>1, P2PAssumption DEF LoopConnects, missings
  <2> QED BY <1>1, <2>1, MinOfThree
<1>3. IsFiniteSet(slots) /\ Cardinality(slots) \in Nat /\ Cardinality(slots) <= howmany
  <2>1. Unused \in SUBSET Nat
    BY P2PAssumption DEF Unused
  <2> HIDE DEF howmany
  <2> QED BY <1>1, <1>2, <2>1, LowestAreFew, FS_Subset, FS_CardinalityType
<1>4. Live' = Established \cup slots
  <2>1. conn' = [s \in Slot |-> IF s \in slots THEN Connecting ELSE conn[s]]
    BY DEF LoopConnects
  <2>2. slots \subseteq Slot
    BY DEF Unused
  <2>3. \A s \in Slot : conn[s].phase # "closed" <=> s \in Established
    BY DEF Inv, ConnOK, OpenType, Closed, Connecting, LoopConnects, RoundOver, In, Established
  <2> HIDE DEF slots
  <2>4. \A s \in Slot : conn'[s].phase # "closed" <=> s \in Established \cup slots
    BY <2>1, <2>3 DEF Connecting
  <2>5. Live' = {s \in Slot : conn'[s].phase # "closed"}
    BY DEF Live, In
  <2>6. Established \subseteq Slot
    BY DEF Established
  <2> QED BY <2>2, <2>4, <2>5, <2>6
<1>5. Cardinality(Established \cup slots) <= Cardinality(Established) + Cardinality(slots)
  <2> HIDE DEF slots
  <2>1. /\ Cardinality(Established \cup slots) =
             Cardinality(Established) + Cardinality(slots) - Cardinality(Established \cap slots)
    BY <1>1, <1>3, FS_Union
  <2>2. Cardinality(Established \cap slots) \in Nat
    BY <1>1, FS_Subset, FS_CardinalityType
  <2> QED BY <1>1, <1>3, <2>1, <2>2
<1>6. IsFiniteSet(Established \cup slots) /\ Cardinality(Established \cup slots) \in Nat
  BY <1>1, <1>3, FS_Union, FS_CardinalityType
<1> HIDE DEF slots, howmany
<1> QED BY <1>1, <1>2, <1>3, <1>4, <1>5, <1>6, P2PAssumption DEF missings

\* What a get asks is a sequence of one or two slots.
LEMMA PeersPicked ==
    ASSUME NEW n \in Howmany, NEW peers \in Picks(n) \cup PrivilegedPicks(n)
    PROVE  peers \in Seq(Slot) /\ peers # <<>> /\ Range(peers) \subseteq Established
<1>1. n \in {1, 2}
  BY DEF Howmany
<1>2. IsFiniteSet(Established) /\ Cardinality(Established) \in Nat
  BY P2PAssumption, FS_Subset, FS_CardinalityType DEF Established
<1>3. PICK k \in Nat : peers \in [1..k -> Established] /\ peers # <<>>
  <2>1. CASE peers \in Picks(n)
    <3>1. peers \in [1..n -> Established]
      BY <2>1 DEF Picks, Ordered, Pickable
    <3>2. peers # <<>>
      BY <1>1, <3>1
    <3> QED BY <1>1, <3>1, <3>2
  <2>2. CASE peers \in PrivilegedPicks(n)
    <3>1. Min({n, Cardinality(Established)}) \in Nat
      BY <1>1, <1>2, MinOfTwo
    <3> QED BY <2>2, <3>1 DEF PrivilegedPicks, Ordered
  <2> QED BY <2>1, <2>2
<1>4. Established \subseteq Slot
  BY DEF Established
<1>5. peers \in Seq(Slot)
  BY <1>3, <1>4
<1>6. Range(peers) \subseteq Established
  BY <1>3 DEF Range
<1> QED BY <1>3, <1>5, <1>6

\* A get that begins.
LEMMA GetStartsKeeps ==
    ASSUME Inv, NEW c \in Caller, NEW block \in Block, GetStarts(c, block)
    PROVE  Inv'
<1>1. PICK n \in Howmany : \E peers \in Picks(n) \cup PrivilegedPicks(n) :
         /\ get' = [get EXCEPT ![c] = [wanted |-> {block}, peers |-> peers, result |-> {},
                                       batcher |-> Batch(NewBatcher(peers))]]
         /\ conn' = [s \in Slot |-> IF s \in Range(peers) THEN [conn[s] EXCEPT !.owner = c]
                                    ELSE conn[s]]
  BY DEF GetStarts
<1>2. PICK peers \in Picks(n) \cup PrivilegedPicks(n) :
         /\ get' = [get EXCEPT ![c] = [wanted |-> {block}, peers |-> peers, result |-> {},
                                       batcher |-> Batch(NewBatcher(peers))]]
         /\ conn' = [s \in Slot |-> IF s \in Range(peers) THEN [conn[s] EXCEPT !.owner = c]
                                    ELSE conn[s]]
  BY <1>1
<1>3. /\ peers \in Seq(Slot) /\ peers # <<>> /\ Range(peers) \subseteq Established
      /\ BatcherOK(peers, Batch(NewBatcher(peers)))
  BY PeersPicked, FirstBatch
<1>4. ASSUME NEW d \in Caller PROVE GetOK(d)'
  BY <1>2, <1>3 DEF Inv, GetOK, GetType, BatcherOK
<1>5. ASSUME NEW s \in Slot PROVE ConnOK(s)'
  <2>1. CASE s \in Range(peers)
    <3>1. conn[s] \in OpenType /\ conn[s].phase \in {"open", "deaf"}
      BY <1>3, <2>1 DEF Inv, ConnOK, Established, In, Closed, Connecting
    <3>2. conn'[s] = [conn[s] EXCEPT !.owner = c]
      BY <1>2, <2>1
    <3>3. conn'[s] \in OpenType /\ conn'[s].errors = conn[s].errors
            /\ conn'[s].doomed = conn[s].doomed /\ conn'[s].owner = c
      BY <3>1, <3>2 DEF OpenType
    <3>4. s \in Range(get'[c].peers)
      BY <1>2, <2>1 DEF Inv
    <3> QED BY <1>3, <2>1, <3>3, <3>4 DEF Inv, ConnOK, Score
  <2>2. CASE s \notin Range(peers)
    <3>1. conn'[s] = conn[s]
      BY <1>2, <2>2
    <3>2. s \in Established /\ conn[s].owner # Nobody => conn[s].owner # c
      <4>1. Range(<<>>) = {}
        BY DEF Range
      <4>2. get[c].peers = <<>>
        BY DEF GetStarts, Running, Idle
      <4> QED BY <4>1, <4>2 DEF Inv, ConnOK
    <3>3. s \in Established' <=> s \in Established
      BY <3>1 DEF Established, In
    <3>4. s \in Established /\ conn[s].owner # Nobody =>
            get'[conn[s].owner].peers = get[conn[s].owner].peers
      BY <1>2, <3>2 DEF Inv
    <3> QED BY <3>1, <3>3, <3>4 DEF Inv, ConnOK, Score
  <2> QED BY <2>1, <2>2
<1>6. (Cardinality(Live) <= Required)'
  <2>1. \A s \in Slot : conn'[s].phase = conn[s].phase
    BY <1>2, <1>3 DEF Inv, ConnOK, OpenType, Established, In, Closed, Connecting
  <2> QED BY <2>1, FewerLive DEF Live, In
<1> QED BY <1>2, <1>4, <1>5, <1>6 DEF Inv, GetStarts

\* add_error schedules the disconnection of a connection that has no score left.
LEMMA ErrorCharged ==
    ASSUME NEW k \in OpenType, StartScore - k.errors <= 0 => k.doomed
    PROVE  /\ AddError(k) \in OpenType /\ AddError(k).owner = k.owner
           /\ AddError(k).phase = k.phase
           /\ StartScore - AddError(k).errors <= 0 => AddError(k).doomed
<1>1. CASE k.doomed
  BY <1>1 DEF AddError
<1>2. CASE ~k.doomed
  <2> DEFINE dooms == StartScore <= k.errors + 1
  <2>1. k.errors \in Nat /\ k.errors + 1 \in Nat
    BY DEF OpenType
  <2>2. StartScore - (k.errors + 1) <= 0 => dooms
    BY <2>1, P2PAssumption
  <2>3. dooms \in BOOLEAN
    OBVIOUS
  <2>4. AddError(k) = [k EXCEPT !.errors = k.errors + 1, !.doomed = dooms]
    BY <1>2 DEF AddError
  <2> HIDE DEF dooms
  <2>5. /\ AddError(k) \in OpenType /\ AddError(k).owner = k.owner
        /\ AddError(k).phase = k.phase
        /\ AddError(k).errors = k.errors + 1 /\ AddError(k).doomed = dooms
    BY <2>1, <2>3, <2>4 DEF OpenType
  <2> QED BY <2>2, <2>5
<1> QED BY <1>1, <1>2

\* A get that ends, whichever connections it charges.
LEMMA GetOverKeeps ==
    ASSUME Inv, NEW c \in Caller, NEW charged, GetOver(c, charged), UNCHANGED <<loop, faults>>
    PROVE  Inv'
<1>1. ASSUME NEW d \in Caller PROVE GetOK(d)'
  BY DEF Inv, GetOK, GetOver
<1>2. ASSUME NEW s \in Slot PROVE ConnOK(s)' /\ conn'[s].phase = conn[s].phase
  <2>1. CASE s \notin Established
    <3>1. conn'[s] = conn[s]
      BY <2>1 DEF GetOver
    <3> QED BY <2>1, <3>1 DEF Inv, ConnOK, Established, In
  <2>2. CASE s \in Established
    <3> DEFINE left == [conn[s] EXCEPT !.owner = IF @ = c THEN Nobody ELSE @]
    <3>1. conn[s] \in OpenType /\ conn[s].phase \in {"open", "deaf"}
      BY <2>2 DEF Inv, ConnOK, Established, In, Closed, Connecting
    <3>2. /\ left \in OpenType /\ left.errors = conn[s].errors /\ left.doomed = conn[s].doomed
          /\ left.phase = conn[s].phase
          /\ left.owner = IF conn[s].owner = c THEN Nobody ELSE conn[s].owner
      BY <3>1 DEF OpenType
    <3>3. StartScore - left.errors <= 0 => left.doomed
      BY <2>2, <3>2 DEF Inv, ConnOK, Score
    <3>4. conn'[s] = IF s \in charged THEN AddError(left) ELSE left
      BY <2>2 DEF GetOver
    <3> HIDE DEF left
    <3>5. /\ conn'[s] \in OpenType /\ conn'[s].owner = left.owner
          /\ conn'[s].phase = conn[s].phase
          /\ StartScore - conn'[s].errors <= 0 => conn'[s].doomed
      BY <3>2, <3>3, <3>4, ErrorCharged
    <3>6. conn'[s].owner # Nobody => s \in Range(get'[conn'[s].owner].peers)
      <4>1. get' = [get EXCEPT ![c] = Idle]
        BY DEF GetOver
      <4> QED BY <2>2, <3>2, <3>5, <4>1 DEF Inv, ConnOK
    <3> QED BY <3>5, <3>6 DEF ConnOK, Score
  <2> QED BY <2>1, <2>2
<1>3. (Cardinality(Live) <= Required)'
  BY <1>2, FewerLive DEF Live, In
<1> QED BY <1>1, <1>2, <1>3 DEF Inv, GetOver

\* What a step of slot s does to its own connection is all there is to show: the
\* gets and the other connections stay as they are.
LEMMA SlotKeeps ==
    ASSUME Inv, NEW s \in Slot, NEW k \in {Closed} \cup OpenType,
           conn' = [conn EXCEPT ![s] = k], UNCHANGED <<loop, get>>, faults' \in 0..MaxFaults,
           conn[s].phase # "closed",
           k \in OpenType => /\ StartScore - k.errors <= 0 => k.doomed
                             /\ k.owner # Nobody => s \in Range(get[k.owner].peers)
    PROVE  Inv'
<1>1. \A t \in Slot : conn'[t] = IF t = s THEN k ELSE conn[t]
  BY DEF Inv
<1>2. ASSUME NEW t \in Slot PROVE ConnOK(t)'
  <2>1. CASE t = s
    <3>1. k \in OpenType \/ (k = Closed /\ s \notin Established')
      BY <1>1 DEF Established, In, Closed
    <3> QED BY <1>1, <2>1, <3>1 DEF ConnOK, Score
  <2>2. CASE t # s
    BY <1>1, <2>2 DEF Inv, ConnOK, Score, Established, In
  <2> QED BY <2>1, <2>2
<1>3. \A d \in Caller : GetOK(d)'
  BY DEF Inv, GetOK
<1>4. (Cardinality(Live) <= Required)'
  BY <1>1, FewerLive DEF Live, In
<1> QED BY <1>2, <1>3, <1>4 DEF Inv
-----------------------------------------------------------------------------
(* The invariant *)

LEMMA InitOK == Init => Inv
<1> SUFFICES ASSUME Init PROVE Inv
  OBVIOUS
<1>1. Live = {}
  BY DEF Init, Live, In, Closed
<1>2. Cardinality(Live) <= Required
  BY <1>1, FS_EmptySet, P2PAssumption
<1>3. \A s \in Slot : ConnOK(s)
  BY DEF Init, ConnOK, Established, In, Closed
<1>4. \A c \in Caller : GetOK(c)
  BY DEF Init, GetOK
<1> QED BY <1>2, <1>3, <1>4, P2PAssumption DEF Init, Inv

\* The steps of one slot.
LEMMA ConnKeeps ==
    ASSUME Inv, NEW s \in Slot,
           \/ ConnectOpens(s) \/ ConnectFails(s) \/ Disconnect(s) \/ ErrorExpires(s)
           \/ GoesDeaf(s) \/ GetFromConnection(s)
    PROVE  Inv'
<1>1. ASSUME s \in Established
      PROVE  /\ conn[s] \in OpenType /\ conn[s].phase # "closed"
             /\ Score(s) <= 0 => conn[s].doomed
             /\ conn[s].owner # Nobody => s \in Range(get[conn[s].owner].peers)
  BY <1>1 DEF Inv, ConnOK, OpenType, Established, In, Closed, Connecting
<1>2. CASE ConnectOpens(s)
  <2>1. Opened \in OpenType /\ ~(StartScore - Opened.errors <= 0) /\ Opened.owner = Nobody
    BY P2PAssumption DEF Opened, OpenType
  <2> QED BY <1>2, <2>1, SlotKeeps DEF ConnectOpens, In, Inv
<1>3. CASE ConnectFails(s)
  <2>1. Closed \notin OpenType
    BY DEF Closed, OpenType
  <2>2. faults' \in 0..MaxFaults
    BY <1>3, P2PAssumption DEF ConnectFails, MayFail, Fails, Inv
  <2> QED BY <1>3, <2>1, <2>2, SlotKeeps DEF ConnectFails, In
<1>4. CASE Disconnect(s)
  <2>1. Closed \notin OpenType
    BY DEF Closed, OpenType
  <2> QED BY <1>1, <1>4, <2>1, SlotKeeps DEF Disconnect, Inv
<1>5. CASE ErrorExpires(s)
  <2> DEFINE k == [conn[s] EXCEPT !.errors = @ - 1]
  <2>1. /\ conn[s] \in OpenType /\ conn[s].phase # "closed"
        /\ conn[s].errors - 1 \in Nat /\ ~(Score(s) <= 0)
        /\ conn[s].owner # Nobody => s \in Range(get[conn[s].owner].peers)
    BY <1>1, <1>5 DEF ErrorExpires, OpenType
  <2>2. k \in OpenType /\ k.errors = conn[s].errors - 1 /\ k.owner = conn[s].owner
    BY <2>1 DEF OpenType
  <2>3. conn' = [conn EXCEPT ![s] = k]
    BY <1>5 DEF ErrorExpires
  <2>4. ~(StartScore - (conn[s].errors - 1) <= 0)
    BY <2>1, P2PAssumption DEF Score, OpenType
  <2> HIDE DEF k
  <2> QED BY <1>5, <2>1, <2>2, <2>3, <2>4, SlotKeeps DEF ErrorExpires, Inv
<1>6. CASE GoesDeaf(s)
  <2> DEFINE k == [conn[s] EXCEPT !.phase = "deaf"]
  <2>1. s \in Established
    BY <1>6 DEF GoesDeaf, In, Established
  <2>2. /\ k \in OpenType /\ k.errors = conn[s].errors /\ k.owner = conn[s].owner
        /\ k.doomed = conn[s].doomed
    BY <1>1, <2>1 DEF OpenType
  <2>3. conn' = [conn EXCEPT ![s] = k]
    BY <1>6 DEF GoesDeaf
  <2>4. faults' \in 0..MaxFaults
    BY <1>6, P2PAssumption DEF GoesDeaf, MayFail, Fails, Inv
  <2> HIDE DEF k
  <2> QED BY <1>1, <1>6, <2>1, <2>2, <2>3, <2>4, SlotKeeps DEF GoesDeaf, Score
<1>7. CASE GetFromConnection(s)
  <2> DEFINE k == [conn[s] EXCEPT !.owner = Nobody]
  <2>1. s \in Established
    BY <1>7 DEF GetFromConnection
  <2>2. /\ k \in OpenType /\ k.errors = conn[s].errors /\ k.owner = Nobody
        /\ k.doomed = conn[s].doomed
    BY <1>1, <2>1 DEF OpenType
  <2>3. conn' = [conn EXCEPT ![s] = k]
    BY <1>7 DEF GetFromConnection
  <2> HIDE DEF k
  <2> QED BY <1>1, <1>7, <2>1, <2>2, <2>3, SlotKeeps DEF GetFromConnection, Score, Inv
<1> QED BY <1>2, <1>3, <1>4, <1>5, <1>6, <1>7

\* A step that changes only what one get has of its item and of its result.
LEMMA GetKeeps ==
    ASSUME Inv, NEW c \in Caller, NEW g, get' = [get EXCEPT ![c] = g],
           UNCHANGED <<loop, conn, faults>>,
           g \in GetType, g.peers = get[c].peers, g.peers # <<>>,
           g.result \subseteq g.wanted, BatcherOK(g.peers, g.batcher)
    PROVE  Inv'
<1>1. \A d \in Caller : get'[d] = IF d = c THEN g ELSE get[d]
  BY DEF Inv
<1>2. \A d \in Caller : GetOK(d)'
  BY <1>1 DEF Inv, GetOK
<1>3. ASSUME NEW s \in Slot PROVE ConnOK(s)'
  <2>1. conn[s] \in OpenType /\ conn[s].owner # Nobody =>
          get'[conn[s].owner].peers = get[conn[s].owner].peers
    BY <1>1 DEF OpenType
  <2>2. s \in Established => conn[s] \in OpenType
    BY DEF Inv, ConnOK, Established, In, Closed, Connecting
  <2> QED BY <2>1, <2>2 DEF Inv, ConnOK, Score, Established, In
<1>4. Live' = Live
  BY DEF Live, In
<1> QED BY <1>2, <1>3, <1>4 DEF Inv

LEMMA BlockArrivesKeeps ==
    ASSUME Inv, NEW s \in Slot, NEW block \in Block, BlockArrives(s, block)
    PROVE  Inv'
<1> DEFINE c == conn[s].owner
           g == [get[c] EXCEPT !.batcher = Resolve(@), !.result = {block}]
<1>1. conn[s] \in OpenType /\ c \in Caller /\ s \in Range(get[c].peers)
  BY DEF BlockArrives, Inv, ConnOK, Established, In, OpenType, Closed, Connecting
<1>2. get[c] # Idle
  BY <1>1 DEF Idle, Range
<1>3. /\ get[c] \in GetType /\ get[c].peers # <<>> /\ get[c].wanted = {block}
      /\ BatcherOK(get[c].peers, get[c].batcher)
  BY <1>1, <1>2 DEF Inv, GetOK, BlockArrives
<1>4. BatcherOK(get[c].peers, Resolve(get[c].batcher))
  BY <1>3, Resolves
<1>5. /\ g \in GetType /\ g.peers = get[c].peers /\ g.result = {block} /\ g.wanted = {block}
      /\ g.batcher = Resolve(get[c].batcher)
  BY <1>3, <1>4 DEF GetType, BatcherOK
<1>6. get' = [get EXCEPT ![c] = g] /\ UNCHANGED <<loop, conn, faults>>
  BY <1>1, <1>3 DEF BlockArrives, Inv, GetType
<1> HIDE DEF g, c
<1> QED BY <1>1, <1>3, <1>4, <1>5, <1>6, GetKeeps

LEMMA BatchTimeoutKeeps ==
    ASSUME Inv, NEW c \in Caller, GetBatchTimeout(c)
    PROVE  Inv'
<1> DEFINE g == [get[c] EXCEPT !.batcher = Batch(BatchTimeout(@))]
<1>1. /\ get[c] \in GetType /\ get[c].peers # <<>> /\ get[c].result \subseteq get[c].wanted
      /\ BatcherOK(get[c].peers, get[c].batcher)
  BY DEF Inv, GetOK, GetBatchTimeout, Running
<1>2. BatcherOK(get[c].peers, Batch(BatchTimeout(get[c].batcher)))
  BY <1>1, NextBatch DEF GetType, GetBatchTimeout
<1>3. /\ g \in GetType /\ g.peers = get[c].peers /\ g.result = get[c].result
      /\ g.wanted = get[c].wanted /\ g.batcher = Batch(BatchTimeout(get[c].batcher))
  BY <1>1, <1>2 DEF GetType, BatcherOK
<1>4. get' = [get EXCEPT ![c] = g] /\ UNCHANGED <<loop, conn, faults>>
  BY DEF GetBatchTimeout
<1> HIDE DEF g
<1> QED BY <1>1, <1>2, <1>3, <1>4, GetKeeps

LEMMA LoopConnectsKeeps ==
    ASSUME Inv, LoopConnects
    PROVE  Inv'
<1>1. ASSUME NEW s \in Slot PROVE ConnOK(s)'
  <2>1. conn'[s] = Connecting \/ conn'[s] = conn[s]
    BY DEF LoopConnects
  <2>2. get' = get
    BY DEF LoopConnects
  <2> QED BY <2>1, <2>2 DEF Inv, ConnOK, Score, Established, In, Connecting
<1>2. \A c \in Caller : GetOK(c)'
  BY DEF Inv, GetOK, LoopConnects
<1>3. (Cardinality(Live) <= Required)'
  BY RoundKeepsLimit
<1> QED BY <1>1, <1>2, <1>3 DEF Inv, LoopConnects

LEMMA NextKeeps == Inv /\ [Next]_vars => Inv'
<1> SUFFICES ASSUME Inv, [Next]_vars PROVE Inv'
  OBVIOUS
<1>1. CASE LoopStarts
  BY <1>1 DEF LoopStarts, Inv, ConnOK, GetOK, Score, Established, In, Live
<1>2. CASE LoopConnects
  BY <1>2, LoopConnectsKeeps
<1>3. ASSUME NEW s \in Slot,
             \/ ConnectOpens(s) \/ ConnectFails(s) \/ Disconnect(s) \/ ErrorExpires(s)
             \/ GoesDeaf(s) \/ GetFromConnection(s)
      PROVE  Inv'
  BY <1>3, ConnKeeps
<1>4. ASSUME NEW s \in Slot, NEW b \in Block, BlockArrives(s, b) PROVE Inv'
  BY <1>4, BlockArrivesKeeps
<1>5. ASSUME NEW c \in Caller, NEW b \in Block, GetStarts(c, b) PROVE Inv'
  BY <1>5, GetStartsKeeps
<1>6. ASSUME NEW c \in Caller, GetBatchTimeout(c) PROVE Inv'
  BY <1>6, BatchTimeoutKeeps
<1>7. ASSUME NEW c \in Caller, GetReturns(c) PROVE Inv'
  BY <1>7, GetOverKeeps DEF GetReturns
<1>8. ASSUME NEW c \in Caller, GetTimeout(c) PROVE Inv'
  BY <1>8, GetOverKeeps DEF GetTimeout
<1>9. CASE UNCHANGED vars
  BY <1>9 DEF vars, Inv, ConnOK, GetOK, Score, Established, In, Live
<1> QED BY <1>1, <1>2, <1>3, <1>4, <1>5, <1>6, <1>7, <1>8, <1>9 DEF Next

\* The inductive invariant the others follow from.
THEOREM Invariant == Spec => []Inv
BY InitOK, NextKeeps, PTL DEF Spec
-----------------------------------------------------------------------------
\* The type invariant, and with it that a connection whose score is used up is one
\* that add_error will disconnect, and that its blocks go to a get that added it.
THEOREM TypeCorrect == Spec => []TypeOK
<1>1. Inv => TypeOK
  <2> SUFFICES ASSUME Inv PROVE TypeOK
    OBVIOUS
  <2>1. ASSUME NEW s \in Slot
        PROVE  \/ conn[s] \in {Closed, Connecting}
               \/ /\ s \in Established
                  /\ conn[s].errors \in Nat /\ conn[s].doomed \in BOOLEAN
                  /\ Score(s) <= 0 => conn[s].doomed
                  /\ conn[s].owner # Nobody => s \in Range(get[conn[s].owner].peers)
    BY DEF Inv, ConnOK, OpenType, Established, In
  <2>2. ASSUME NEW c \in Caller, Running(c)
        PROVE  /\ get[c].batcher.place \in {"asked", "held", "resolved"}
               /\ get[c].wanted \subseteq Block /\ Range(get[c].peers) \subseteq Slot
    <3>1. get[c] \in GetType
      BY <2>2 DEF Inv, GetOK, Running
    <3>2. get[c].peers \in [1..Len(get[c].peers) -> Slot]
      BY <3>1, LenProperties DEF GetType
    <3> QED BY <3>1, <3>2 DEF GetType, BatcherType, Range
  <2> QED BY <2>1, <2>2 DEF Inv, TypeOK
<1> QED BY <1>1, Invariant, PTL

\* get returns the block it asked for and no other, for any number of gets that
\* share their connections.
THEOREM OwnBlock == Spec => []GetsOwnBlock
<1>1. Inv => GetsOwnBlock
  BY DEF Inv, GetOK, GetsOwnBlock, Idle
<1> QED BY <1>1, Invariant, PTL

\* However many connections a get has, its batcher asks the first one only.
THEOREM FirstAskedOnly == Spec => []SecondNeverAsked
<1>1. Inv => SecondNeverAsked
  BY DEF Inv, GetOK, BatcherOK, SecondNeverAsked, Running
<1> QED BY <1>1, Invariant, PTL

\* The pool never has more connections than it requires, for any number of slots
\* and of faults: a round counts the established ones only, and finds no connect of
\* an earlier round under way.
THEOREM NotTooMany == Spec => []NeverTooMany
<1>1. Inv => NeverTooMany
  <2> SUFFICES ASSUME Inv PROVE NeverTooMany
    OBVIOUS
  <2>1. IsFiniteSet(Live) /\ Cardinality(Live) \in Nat
    BY P2PAssumption, FS_Subset, FS_CardinalityType DEF Live
  <2>2. Established \in SUBSET Live
    BY DEF Established, Live, In
  <2>3. Cardinality(Established) <= Cardinality(Live) /\ Cardinality(Established) \in Nat
    BY <2>1, <2>2, FS_Subset, FS_CardinalityType
  <2> QED BY <2>1, <2>3, P2PAssumption DEF Inv, NeverTooMany, missings
<1> QED BY <1>1, Invariant, PTL
=============================================================================
