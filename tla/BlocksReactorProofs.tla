------------------------- MODULE BlocksReactorProofs --------------------------
(***************************************************************************)
(* Below the last processed block nothing is missing: for any blocks and   *)
(* branches, any order of their hashes, any number of kept blocks, size of *)
(* a batch and number of loops.                                            *)
(*                                                                         *)
(* Three things make it so.  A window is the lower end of the blocks of    *)
(* one chain from some height on, so that with a block it has all that are *)
(* between (WindowClosed).  It begins at the last processed block or above *)
(* it, never below (StartsAtLast).  And whoever awaits blocks holds the    *)
(* lock, so that no other window begins until they are saved.              *)
(*                                                                         *)
(* Then who holds the lock, and that the bootstrap is not over before its  *)
(* list is empty: with more than two connections to keep, half of those    *)
(* that a round waits for ask for one block at least.                      *)
(***************************************************************************)
EXTENDS BlocksReactor, FiniteSetTheorems, TLAPS

\* The blocks that c needs to be the last processed one, from height h on, are in s.
Covered(c, s, h) == \A b \in Chain[c] : Height[b] >= h => b \in s

\* Any of the blocks that are asked for may turn out the last one.
FetchOK(t) ==
    lock = t /\ \A c \in request[t] : Covered(c, stored \cup request[t] \cup skipped, from)

Inv ==
    /\ tip \in Block /\ stored \subseteq Block /\ last \in Block \cup {NoBlock} /\ from \in Nat
    /\ pc \in [Loop -> {"off", "ready", "waiting", "fetching"}]
    /\ best \in [Loop -> Block \cup {NoBlock}] /\ request \in [Loop -> SUBSET Block]
    /\ \A t \in Loop : /\ pc[t] = "waiting" => best[t] \in Block
                       /\ pc[t] = "fetching" => FetchOK(t)
    /\ boot = "round" => lock = Boot
    /\ NoGapBelowLast
-----------------------------------------------------------------------------
(* Windows *)

\* A chain is in Block, and its blocks have heights.
LEMMA ChainType ==
    ASSUME NEW b \in Block
    PROVE  /\ Chain[b] \subseteq Block /\ IsFiniteSet(Chain[b])
           /\ \A c \in Chain[b] : c \in Block /\ Height[c] \in Nat
<1>1. Chain[b] \subseteq Block
  BY BlockAssumption
<1> QED BY <1>1, BlockAssumption, FS_Subset

\* A window begins at the last processed block, or above it.
LEMMA StartsAtLast ==
    ASSUME Inv, NEW b \in Block
    PROVE  /\ HeightToStart(b) \in Nat
           /\ last # NoBlock => HeightToStart(b) >= Height[last]
<1>1. Keep \in Nat /\ Height[b] \in Nat /\ (last # NoBlock => Height[last] \in Nat)
  BY BlockAssumption, ReactorAssumption DEF Inv
<1> QED BY <1>1 DEF HeightToStart

\* With a block, a window has those of its chain that are not below the start.
LEMMA WindowClosed ==
    ASSUME Inv, NEW b \in Block, NEW c \in Window(b), NEW d \in Chain[c],
           Height[d] >= HeightToStart(b)
    PROVE  d \in Window(b)
<1> DEFINE headers == HeadersSince(HeightToStart(b))
           Below(x) == {y \in headers : Height[y] < Height[x]}
<1>1. c \in headers /\ Cardinality(Below(c)) < MaxBatch
  BY DEF Window
<1>2. tip \in Block /\ c \in Chain[tip]
  BY <1>1 DEF Inv, HeadersSince
<1>3. Chain[c] = {x \in Chain[tip] : Height[x] <= Height[c]}
  BY <1>2, BlockAssumption
<1>4. d \in Chain[tip] /\ Height[d] <= Height[c]
  BY <1>3
<1>5. d \in headers
  BY <1>4 DEF HeadersSince
<1>6. Height[c] \in Nat /\ Height[d] \in Nat /\ \A x \in headers : Height[x] \in Nat
  BY <1>2, <1>4, ChainType DEF HeadersSince
<1>7. Below(d) \subseteq Below(c)
  BY <1>4, <1>6
<1>8. IsFiniteSet(Below(c))
  <2>1. Below(c) \subseteq Chain[tip]
    BY DEF HeadersSince
  <2> QED BY <1>2, <2>1, ChainType, FS_Subset
<1>9. /\ Cardinality(Below(d)) <= Cardinality(Below(c))
      /\ Cardinality(Below(d)) \in Nat /\ Cardinality(Below(c)) \in Nat
  BY <1>7, <1>8, FS_Subset, FS_CardinalityType
<1>10. Cardinality(Below(d)) < MaxBatch
  BY <1>1, <1>9, ReactorAssumption
<1> QED BY <1>5, <1>10 DEF Window

\* When a window is looked at, its blocks are all that its blocks need, together with
\* what is stored already and what is skipped from then on.
LEMMA WindowCovers ==
    ASSUME Inv, NEW t \in Loop, BlocksBehind(t), NEW c \in Window(best[t])
    PROVE  Covered(c, stored \cup Window(best[t]) \cup skipped', from')
<1> DEFINE start == HeightToStart(best[t])
           window == Window(best[t])
<1>1. best[t] \in Block /\ tip \in Block /\ stored' = stored
  BY DEF Inv, BlocksBehind
<1>2. start \in Nat /\ from \in Nat /\ (last # NoBlock => last \in Block /\ start >= Height[last])
  BY <1>1, StartsAtLast DEF Inv
<1>3. /\ from' = IF last = NoBlock \/ start > Height[last] THEN start ELSE from
      /\ skipped' = skipped \cup {x \in Chain[tip] \ stored :
                                    /\ last # NoBlock /\ last \notin Chain[tip]
                                    /\ Height[x] < start}
  BY DEF BlocksBehind
<1>4. c \in Chain[tip] /\ Chain[c] = {x \in Chain[tip] : Height[x] <= Height[c]}
  BY <1>1, BlockAssumption DEF Window, HeadersSince
<1> HIDE DEF start, window
<1>5. ASSUME NEW d \in Chain[c], Height[d] >= from'
      PROVE  d \in stored \cup window \cup skipped'
  <2>1. d \in Chain[tip] /\ Height[d] \in Nat
    BY <1>1, <1>4, ChainType
  <2>2. CASE Height[d] >= start
    BY <1>1, <2>2, WindowClosed DEF start, window
  <2>3. CASE Height[d] < start /\ last \in Chain[tip]
    <3>1. last # NoBlock /\ last \in Block /\ Height[last] \in Nat
      BY <1>1, <2>3, ChainType, BlockAssumption
    <3>2. start = Height[last] /\ from' = from
      BY <1>2, <1>3, <1>5, <2>1, <2>3, <3>1
    <3>3. Chain[last] = {x \in Chain[tip] : Height[x] <= Height[last]}
      BY <1>1, <2>3, BlockAssumption
    <3>4. d \in Chain[last]
      BY <2>1, <2>3, <3>1, <3>2, <3>3
    <3>5. d \in stored \cup skipped
      BY <1>5, <3>1, <3>2, <3>4 DEF Inv, NoGapBelowLast
    <3> QED BY <1>3, <3>5
  <2>4. CASE Height[d] < start /\ last \notin Chain[tip]
    <3>1. last # NoBlock
      BY <1>2, <1>3, <1>5, <2>1, <2>4
    <3> QED BY <1>3, <2>1, <2>4, <3>1
  <2> QED BY <1>2, <2>1, <2>2, <2>3, <2>4
<1> QED BY <1>1, <1>5 DEF Covered, window
-----------------------------------------------------------------------------
(* The steps *)

\* A step that leaves stored blocks, the last one and the windows alone.
LEMMA NothingDone ==
    ASSUME Inv, UNCHANGED <<stored, last, from, skipped>>
    PROVE  NoGapBelowLast'
BY DEF Inv, NoGapBelowLast

\* The end of a call that held the lock, or could have.
LEMMA EndKeeps ==
    ASSUME Inv, NEW t \in Loop, CallEnds(t), lock \in {t, Free},
           tip' = tip, boot' = boot, stored' \subseteq Block,
           last' \in Block \cup {NoBlock}, from' \in Nat, NoGapBelowLast'
    PROVE  Inv'
<1>1. pc' = [pc EXCEPT ![t] = "ready"] /\ best' = [best EXCEPT ![t] = NoBlock]
      /\ request' = [request EXCEPT ![t] = {}] /\ lock' = Free
  BY DEF CallEnds
<1>2. \A u \in Loop : pc'[u] # "fetching"
  BY <1>1, ReactorAssumption DEF Inv, FetchOK
<1>3. \A u \in Loop : pc'[u] = "waiting" => best'[u] \in Block
  BY <1>1 DEF Inv
<1>4. boot # "round"
  BY ReactorAssumption DEF Inv
<1> QED BY <1>1, <1>2, <1>3, <1>4 DEF Inv

\* A loop's step before it has looked at a window.
LEMMA CheckKeeps ==
    ASSUME Inv, NEW t \in Loop, OnConnected(t) \/ Check(t)
    PROVE  Inv'
<1>1. UNCHANGED <<tip, stored, last, lock, request, boot, from, skipped>>
  BY DEF OnConnected, Check, env, bootVars
<1>2. /\ pc' \in [Loop -> {"off", "ready", "waiting", "fetching"}]
      /\ best' \in [Loop -> Block \cup {NoBlock}]
      /\ \A u \in Loop : /\ pc'[u] = "waiting" => best'[u] \in Block
                         /\ pc'[u] = "fetching" => pc[u] = "fetching"
  BY DEF Inv, OnConnected, Check
<1>3. \A u \in Loop : pc'[u] = "fetching" => FetchOK(u)'
  BY <1>1, <1>2 DEF Inv, FetchOK, Covered
<1> QED BY <1>1, <1>2, <1>3, NothingDone DEF Inv

LEMMA ResetKeeps ==
    ASSUME Inv, NEW t \in Loop, Reset(t)
    PROVE  Inv'
<1>1. /\ CallEnds(t) /\ lock = Free /\ last' \in {last, NoBlock}
      /\ UNCHANGED <<tip, stored, boot, from, skipped>>
  BY DEF Reset, env, bootVars
<1>2. NoGapBelowLast'
  BY <1>1 DEF Inv, NoGapBelowLast
<1> QED BY <1>1, <1>2, EndKeeps DEF Inv

LEMMA BehindKeeps ==
    ASSUME Inv, NEW t \in Loop, BlocksBehind(t)
    PROVE  Inv'
<1> DEFINE start == HeightToStart(best[t])
           window == Window(best[t])
           absent == window \ stored
<1>1. /\ best[t] \in Block /\ pc[t] = "waiting" /\ lock = Free
      /\ UNCHANGED <<tip, stored, boot>>
  BY DEF Inv, BlocksBehind, env, bootVars
<1>2. window \subseteq Block
  BY ChainType DEF Inv, Window, HeadersSince
<1>3. /\ start \in Nat /\ from' = IF last = NoBlock \/ start > Height[last] THEN start ELSE from
      /\ from' \in Nat /\ skipped \subseteq skipped'
  BY <1>1, StartsAtLast DEF BlocksBehind, Inv
<1>4. \A c \in window : Covered(c, stored \cup window \cup skipped', from')
  BY WindowCovers
<1>5. CASE absent # {}
  <2>1. /\ lock' = t /\ pc' = [pc EXCEPT ![t] = "fetching"]
        /\ request' = [request EXCEPT ![t] = absent] /\ UNCHANGED <<last, best>>
    BY <1>5 DEF BlocksBehind
  <2>2. request' \in [Loop -> SUBSET Block] /\ request'[t] = absent
    BY <1>2, <2>1 DEF Inv
  <2>3. FetchOK(t)'
    <3>1. stored' \cup request'[t] = stored \cup window
      BY <1>1, <2>2
    <3> QED BY <1>1, <1>4, <2>1, <2>2, <3>1 DEF FetchOK, Covered
  <2>4. \A u \in Loop : pc'[u] = "fetching" => u = t
    BY <1>1, <2>1, ReactorAssumption DEF Inv, FetchOK
  <2>5. NoGapBelowLast'
    <3>1. ASSUME last # NoBlock, NEW d \in Chain[last], Height[d] >= from'
          PROVE  d \in stored \cup skipped'
      <4>1. last \in Block /\ Height[last] \in Nat /\ Height[d] \in Nat /\ Height[d] <= Height[last]
        BY <3>1, ChainType, BlockAssumption DEF Inv
      <4>2. from' = from
        BY <1>3, <3>1, <4>1
      <4> QED BY <1>3, <3>1, <4>2 DEF Inv, NoGapBelowLast
    <3> QED BY <1>1, <2>1, <3>1 DEF Inv, NoGapBelowLast
  <2>6. /\ pc' \in [Loop -> {"off", "ready", "waiting", "fetching"}]
        /\ \A u \in Loop : pc'[u] = "waiting" => best'[u] \in Block
    BY <2>1 DEF Inv
  <2>7. boot' # "round"
    BY <1>1, ReactorAssumption DEF Inv
  <2> HIDE DEF absent, window, start
  <2> QED BY <1>1, <1>3, <2>1, <2>2, <2>3, <2>4, <2>5, <2>6, <2>7 DEF Inv
<1>6. CASE absent = {}
  <2>1. CallEnds(t) /\ last' \in IF window = {} THEN {last} ELSE Greatest(window, Height)
    BY <1>6 DEF BlocksBehind
  <2>2. CASE last' \in window
    <3>1. last' \in stored /\ Covered(last', stored \cup window \cup skipped', from')
      BY <1>4, <1>6, <2>2
    <3>2. stored \cup window = stored
      BY <1>6
    <3>3. NoGapBelowLast'
      BY <1>1, <3>1, <3>2 DEF NoGapBelowLast, Covered
    <3> HIDE DEF absent, window, start
    <3> QED BY <1>1, <1>2, <1>3, <2>1, <2>2, <3>3, EndKeeps DEF Inv
  <2>3. CASE last' = last
    <3>1. ASSUME last # NoBlock, NEW d \in Chain[last], Height[d] >= from'
          PROVE  d \in stored \cup skipped'
      <4>1. last \in Block /\ Height[last] \in Nat /\ Height[d] \in Nat /\ Height[d] <= Height[last]
        BY <3>1, ChainType, BlockAssumption DEF Inv
      <4>2. from' = from
        BY <1>3, <3>1, <4>1
      <4> QED BY <1>3, <3>1, <4>2 DEF Inv, NoGapBelowLast
    <3>2. NoGapBelowLast'
      BY <1>1, <2>3, <3>1 DEF Inv, NoGapBelowLast
    <3> HIDE DEF absent, window, start
    <3> QED BY <1>1, <1>3, <2>1, <2>3, <3>2, EndKeeps DEF Inv
  <2> QED BY <2>1, <2>2, <2>3 DEF Greatest
<1> QED BY <1>5, <1>6

\* Whichever of the blocks of a request is the last one saved.
LEMMA ArriveKeeps ==
    ASSUME Inv, NEW t \in Loop, BlocksArrive(t)
    PROVE  Inv'
<1>1. /\ CallEnds(t) /\ stored' = stored \cup request[t] /\ last' \in request[t]
      /\ UNCHANGED <<tip, boot, from, skipped>>
  BY DEF BlocksArrive, Greatest, env, bootVars
<1>2. FetchOK(t) /\ request[t] \subseteq Block
  BY DEF Inv, BlocksArrive
<1>3. NoGapBelowLast'
  BY <1>1, <1>2 DEF NoGapBelowLast, FetchOK, Covered
<1> QED BY <1>1, <1>2, <1>3, EndKeeps DEF Inv, FetchOK

\* Blocks that are saved beyond the last one do no harm.
LEMMA MoreStored ==
    ASSUME Inv, stored \subseteq stored', UNCHANGED <<last, from, skipped>>
    PROVE  NoGapBelowLast'
BY DEF Inv, NoGapBelowLast

LEMMA FailKeeps ==
    ASSUME Inv, NEW t \in Loop, SaveFails(t) \/ BlocksMissing(t)
    PROVE  Inv'
<1>1. /\ CallEnds(t) /\ stored \subseteq stored' /\ stored' \subseteq stored \cup request[t]
      /\ UNCHANGED <<tip, boot, last, from, skipped>> /\ pc[t] = "fetching"
  BY DEF SaveFails, BlocksMissing, env, bootVars
<1>2. FetchOK(t) /\ request[t] \subseteq Block
  BY <1>1 DEF Inv
<1> QED BY <1>1, <1>2, MoreStored, EndKeeps DEF Inv, FetchOK

\* A step of the bootstrap or of the environment that leaves the lock to a loop that
\* has it.
LEMMA OthersKeep ==
    ASSUME Inv, tip' \in Block, stored \subseteq stored', stored' \subseteq Block,
           UNCHANGED <<last, pc, best, request, from, skipped>>,
           \A t \in Loop : lock = t => lock' = t,
           boot' = "round" => lock' = Boot
    PROVE  Inv'
<1>1. ASSUME NEW t \in Loop, pc[t] = "fetching"
      PROVE  FetchOK(t)'
  BY <1>1 DEF Inv, FetchOK, Covered
<1> QED BY <1>1, MoreStored DEF Inv

LEMMA BootKeeps ==
    ASSUME Inv, Bootstrap \/ BootReady \/ BootLocked \/ BootRound \/ \E b \in Block : BootSave(b)
    PROVE  Inv'
<1>1. /\ UNCHANGED <<tip, last, pc, best, request, from, skipped>>
      /\ stored \subseteq stored' /\ stored' \subseteq Block
  BY DEF Inv, Bootstrap, BootReady, BootLocked, BootRound, BootSave, env
<1>2. /\ \A t \in Loop : lock = t => lock' = t
      /\ boot' = "round" => lock' = Boot
  BY ReactorAssumption DEF Inv, Bootstrap, BootReady, BootLocked, BootRound, BootSave
<1> QED BY <1>1, <1>2, OthersKeep DEF Inv

LEMMA EnvironmentKeeps ==
    ASSUME Inv, PeersLost \/ PeersConnect \/ \E b \in Block : NewTip(b)
    PROVE  Inv'
<1>1. /\ tip' \in Block /\ UNCHANGED <<stored, last, lock, pc, best, request, boot, from, skipped>>
  BY DEF Inv, PeersLost, PeersConnect, NewTip, bootVars
<1> QED BY <1>1, OthersKeep DEF Inv

LEMMA InvInit ==
    ASSUME Init
    PROVE  Inv
BY DEF Init, Inv, NoGapBelowLast

LEMMA InvNext ==
    ASSUME Inv, [Next]_vars
    PROVE  Inv'
<1>1. CASE \E t \in Loop : OnConnected(t) \/ Check(t)
  BY <1>1, CheckKeeps
<1>2. CASE \E t \in Loop : Reset(t) \/ BlocksBehind(t)
  BY <1>2, ResetKeeps, BehindKeeps
<1>3. CASE \E t \in Loop : BlocksArrive(t) \/ SaveFails(t) \/ BlocksMissing(t)
  BY <1>3, ArriveKeeps, FailKeeps
<1>4. CASE Bootstrap \/ BootReady \/ BootLocked \/ BootRound \/ \E b \in Block : BootSave(b)
  BY <1>4, BootKeeps
<1>5. CASE PeersLost \/ PeersConnect \/ \E b \in Block : NewTip(b)
  BY <1>5, EnvironmentKeeps
<1>6. CASE UNCHANGED vars
  <2>1. UNCHANGED <<tip, stored, last, lock, pc, best, request, boot, from, skipped>>
    BY <1>6 DEF vars
  <2> QED BY <2>1, OthersKeep DEF Inv
<1> QED BY <1>1, <1>2, <1>3, <1>4, <1>5, <1>6 DEF Next
-----------------------------------------------------------------------------
(* The lock and the bootstrap *)

\* What is asked for in a round is on the list still, as an answer takes nothing else
\* off it; and a list that comes to an end was gone through.
BootOK ==
    /\ missing \in Seq(Block) /\ asked \subseteq ToSet(missing)
    /\ boot # "round" => asked = {}
    /\ Required > 2 => BootstrapIsThorough

\* Who is in the lock's region holds it, and who holds it is there.
LockOK ==
    /\ \A t \in Loop : pc[t] = "fetching" <=> lock = t
    /\ boot = "round" <=> lock = Boot

RangesOK ==
    /\ peers \in 0..Required /\ moves \in 0..MaxMoves /\ skipped \subseteq Block
    /\ boot \in {"off", "peers", "waiting", "round", "over"}

\* An element that is taken off a list leaves the others on it.
LEMMA RemovedOne ==
    ASSUME NEW S, NEW s \in Seq(S), NEW i \in DOMAIN s
    PROVE  RemoveAt(s, i) \in Seq(S) /\ ToSet(s) \ {s[i]} \subseteq ToSet(RemoveAt(s, i))
<1> DEFINE before == SubSeq(s, 1, i - 1)
           after == SubSeq(s, i + 1, Len(s))
<1>1. i \in 1..Len(s) /\ Len(s) \in Nat
  OBVIOUS
<1>2. /\ before \in Seq(S) /\ Len(before) = i - 1 /\ \A j \in 1..(i - 1) : before[j] = s[j]
      /\ after \in Seq(S) /\ Len(after) = Len(s) - i /\ \A j \in 1..(Len(s) - i) : after[j] = s[i + j]
  BY <1>1
<1>3. RemoveAt(s, i) = before \o after
  BY DEF RemoveAt
<1> HIDE DEF before, after
<1>4. ASSUME NEW j \in DOMAIN s, s[j] # s[i]
      PROVE  \E k \in DOMAIN (before \o after) : (before \o after)[k] = s[j]
  <2>1. CASE j < i
    <3>1. j \in DOMAIN (before \o after) /\ (before \o after)[j] = s[j]
      BY <1>1, <1>2, <2>1
    <3> QED BY <3>1
  <2>2. CASE j > i
    <3>1. /\ j - 1 \in DOMAIN (before \o after) /\ (before \o after)[j - 1] = after[j - i]
          /\ j - i \in 1..(Len(s) - i)
      BY <1>1, <1>2, <2>2
    <3>2. after[j - i] = s[i + (j - i)] /\ i + (j - i) = j
      BY <1>1, <1>2, <3>1
    <3> QED BY <3>1, <3>2
  <2> QED BY <1>1, <1>4, <2>1, <2>2
<1>5. ToSet(s) \ {s[i]} \subseteq ToSet(before \o after)
  BY <1>4 DEF ToSet
<1>6. before \o after \in Seq(S)
  BY <1>2
<1> QED BY <1>3, <1>5, <1>6

\* A round asks for blocks of the list, and for some, while there are peers enough to
\* halve.
LEMMA RoundIsOfTheList ==
    ASSUME missing \in Seq(Block), peers \in 0..Required, BootRound
    PROVE  /\ missing' \in Seq(Block) /\ asked' \subseteq ToSet(missing')
           /\ Required > 2 /\ asked' = {} => missing' = <<>>
<1> DEFINE n == peers \div 2
           list == Reverse(missing)
           few == IF n < Len(list) THEN n ELSE Len(list)
<1>1. /\ missing' = list /\ asked' = {list[i] : i \in 1..few}
      /\ ~(peers * 2 < Required)
  BY DEF BootRound, PeersMissing
<1>2. list \in Seq(Block) /\ Len(list) = Len(missing) /\ Len(list) \in Nat
  <2>1. list = [i \in 1..Len(missing) |-> missing[(Len(missing) - i) + 1]]
    BY DEF Reverse
  <2> QED BY <2>1
<1>3. n \in Nat /\ (Required > 2 => n >= 1)
  BY <1>1, ReactorAssumption
<1> HIDE DEF list, n
<1>4. few \in Nat /\ few <= Len(list)
  BY <1>2, <1>3
<1>5. asked' \subseteq ToSet(list)
  BY <1>1, <1>2, <1>4 DEF ToSet
<1>6. ASSUME Required > 2, asked' = {}
      PROVE  list = <<>>
  <2>1. 1 \notin 1..few
    BY <1>1, <1>6
  <2>2. few = 0
    BY <1>4, <2>1
  <2>3. Len(list) = 0
    BY <1>2, <1>3, <1>6, <2>2
  <2> QED BY <1>2, <2>3
<1> QED BY <1>1, <1>2, <1>5, <1>6

LEMMA BootKept ==
    ASSUME Inv, RangesOK, BootOK, [Next]_vars
    PROVE  BootOK'
<1> USE DEF BootOK, BootstrapIsThorough
<1>1. CASE UNCHANGED bootVars
  BY <1>1 DEF bootVars
<1>2. CASE Bootstrap \/ BootReady
  BY <1>2 DEF Bootstrap, BootReady
<1>3. CASE BootLocked
  <2> DEFINE absent == HeadersSince(Height[tip] - Keep) \ stored
  <2>1. missing' \in ByHeight(absent) /\ asked' = asked /\ boot' = "round" /\ boot = "waiting"
    BY <1>3 DEF BootLocked
  <2>2. absent \subseteq Block /\ IsFiniteSet(absent)
    <3>1. tip \in Block /\ absent \subseteq Chain[tip]
      BY DEF Inv, HeadersSince
    <3> QED BY <3>1, ChainType, FS_Subset
  <2>3. Cardinality(absent) \in Nat
    BY <2>2, FS_CardinalityType
  <2> HIDE DEF absent
  <2>4. missing' \in [1..Cardinality(absent) -> absent]
    BY <2>1 DEF ByHeight, SetToSeqs
  <2>5. missing' \in Seq(Block)
    BY <2>2, <2>3, <2>4
  <2> QED BY <2>1, <2>5
<1>4. CASE BootRound
  <2>1. /\ missing' \in Seq(Block) /\ asked' \subseteq ToSet(missing')
        /\ Required > 2 /\ asked' = {} => missing' = <<>>
    BY <1>4, RoundIsOfTheList DEF RangesOK
  <2>2. IF asked' = {} THEN boot' = "over" ELSE boot' = "round"
    BY <1>4 DEF BootRound
  <2> QED BY <2>1, <2>2
<1>5. CASE \E b \in Block : BootSave(b)
  <2>1. PICK b \in Block : BootSave(b)
    BY <1>5
  <2>2. boot' = "round" /\ asked' = asked \ {b}
    BY <2>1 DEF BootSave
  <2>3. CASE UNCHANGED missing
    BY <2>2, <2>3
  <2>4. CASE \E i \in DOMAIN missing : missing[i] = b /\ missing' = RemoveAt(missing, i)
    <3>1. missing' \in Seq(Block) /\ ToSet(missing) \ {b} \subseteq ToSet(missing')
      BY <2>4, RemovedOne
    <3> QED BY <2>2, <3>1
  <2> QED BY <2>1, <2>3, <2>4 DEF BootSave
<1>6. [Next]_vars => \/ UNCHANGED bootVars
                    \/ Bootstrap \/ BootReady \/ BootLocked \/ BootRound
                    \/ \E b \in Block : BootSave(b)
  BY DEF Next, OnConnected, Check, Reset, BlocksBehind, BlocksArrive, SaveFails, BlocksMissing,
         NewTip, PeersLost, PeersConnect, vars, bootVars
<1> QED BY <1>1, <1>2, <1>3, <1>4, <1>5, <1>6

LEMMA LockKept ==
    ASSUME Inv, LockOK, [Next]_vars
    PROVE  LockOK'
<1> USE ReactorAssumption DEF LockOK
<1>1. CASE \E t \in Loop : Reset(t) \/ BlocksArrive(t) \/ SaveFails(t) \/ BlocksMissing(t)
  <2>1. PICK t \in Loop : Reset(t) \/ BlocksArrive(t) \/ SaveFails(t) \/ BlocksMissing(t)
    BY <1>1
  <2>2. /\ lock' = Free /\ pc' = [pc EXCEPT ![t] = "ready"] /\ boot' = boot
        /\ lock \in {t, Free} /\ pc \in [Loop -> {"off", "ready", "waiting", "fetching"}]
    BY <2>1 DEF Reset, BlocksArrive, SaveFails, BlocksMissing, CallEnds, Inv, bootVars
  <2> QED BY <2>2
<1>2. CASE \E t \in Loop : OnConnected(t) \/ Check(t)
  BY <1>2 DEF OnConnected, Check, Inv, bootVars
<1>3. CASE \E t \in Loop : BlocksBehind(t)
  <2>1. PICK t \in Loop : BlocksBehind(t)
    BY <1>3
  <2>2. /\ lock = Free /\ boot' = boot /\ pc \in [Loop -> {"off", "ready", "waiting", "fetching"}]
        /\ \/ lock' = t /\ pc' = [pc EXCEPT ![t] = "fetching"]
           \/ lock' = Free /\ pc' = [pc EXCEPT ![t] = "ready"]
    BY <2>1 DEF BlocksBehind, CallEnds, Inv, bootVars
  <2> QED BY <2>2
<1>4. CASE Bootstrap \/ BootReady \/ BootLocked \/ BootRound \/ \E b \in Block : BootSave(b)
  BY <1>4 DEF Bootstrap, BootReady, BootLocked, BootRound, BootSave
<1>5. CASE UNCHANGED <<pc, lock, boot>>
  BY <1>5
<1>6. \/ UNCHANGED <<pc, lock, boot>>
      \/ (\E t \in Loop : Reset(t) \/ BlocksArrive(t) \/ SaveFails(t) \/ BlocksMissing(t))
      \/ (\E t \in Loop : OnConnected(t) \/ Check(t))
      \/ (\E t \in Loop : BlocksBehind(t))
      \/ (Bootstrap \/ BootReady \/ BootLocked \/ BootRound \/ \E b \in Block : BootSave(b))
  BY DEF Next, vars, NewTip, PeersLost, PeersConnect, bootVars
<1> QED BY <1>1, <1>2, <1>3, <1>4, <1>5, <1>6

LEMMA RangesKept ==
    ASSUME Inv, RangesOK, [Next]_vars
    PROVE  RangesOK'
<1> USE ReactorAssumption DEF RangesOK
<1>1. CASE \E t \in Loop : BlocksBehind(t)
  <2>1. PICK t \in Loop : BlocksBehind(t)
    BY <1>1
  <2>2. UNCHANGED <<peers, moves, boot>> /\ skipped' \subseteq skipped \cup Chain[tip]
    BY <2>1 DEF BlocksBehind, env, bootVars
  <2> QED BY <2>2, ChainType DEF Inv
<1>2. CASE \E t \in Loop : \/ OnConnected(t) \/ Check(t) \/ Reset(t)
                          \/ BlocksArrive(t) \/ SaveFails(t) \/ BlocksMissing(t)
  BY <1>2 DEF OnConnected, Check, Reset, BlocksArrive, SaveFails, BlocksMissing, env, bootVars
<1>3. CASE Bootstrap \/ BootReady \/ BootLocked \/ BootRound \/ \E b \in Block : BootSave(b)
  BY <1>3 DEF Bootstrap, BootReady, BootLocked, BootRound, BootSave, env
<1>4. CASE PeersLost \/ PeersConnect \/ \E b \in Block : NewTip(b)
  BY <1>4 DEF PeersLost, PeersConnect, NewTip, bootVars
<1>5. CASE UNCHANGED vars
  BY <1>5 DEF vars
<1> QED BY <1>1, <1>2, <1>3, <1>4, <1>5 DEF Next
-----------------------------------------------------------------------------
(* The theorems *)

\* The inductive invariant: whatever is awaited will cover the last processed block.
THEOREM Invariant == Spec => []Inv
<1>1. Init => Inv
  BY InvInit
<1>2. Inv /\ [Next]_vars => Inv'
  BY InvNext
<1> QED BY <1>1, <1>2, PTL DEF Spec

\* Although the blocks of a round are saved by hash, nothing from the start of the
\* windows to the last processed block is missing, but what a window that began on
\* another branch skipped.
THEOREM NoGap == Spec => []NoGapBelowLast
<1>1. Inv => NoGapBelowLast
  BY DEF Inv
<1> QED BY <1>1, Invariant, PTL

\* The lock's holder, the places of the loops and of the bootstrap, and its list.
THEOREM LockInvariant == Spec => [](RangesOK /\ LockOK /\ BootOK)
<1>1. Init => RangesOK /\ LockOK /\ BootOK
  <2> SUFFICES ASSUME Init PROVE RangesOK /\ LockOK /\ BootOK
    OBVIOUS
  <2>1. RangesOK /\ LockOK
    BY ReactorAssumption DEF Init, RangesOK, LockOK
  <2>2. missing \in Seq(Block) /\ asked = {} /\ boot = "off"
    BY DEF Init
  <2>3. BootOK
    BY <2>2 DEF BootOK, BootstrapIsThorough
  <2> QED BY <2>1, <2>3
<1>2. Inv /\ (RangesOK /\ LockOK /\ BootOK) /\ [Next]_vars => (RangesOK /\ LockOK /\ BootOK)'
  BY RangesKept, LockKept, BootKept
<1> QED BY <1>1, <1>2, Invariant, PTL DEF Spec

\* The reactor's state has the values the code gives it, and a loop awaits blocks, or
\* the bootstrap runs, exactly while it holds the lock.
THEOREM Types == Spec => []TypeOK
<1>1. Inv /\ (RangesOK /\ LockOK /\ BootOK) => TypeOK
  BY DEF Inv, RangesOK, LockOK, BootOK, TypeOK
<1> QED BY <1>1, Invariant, LockInvariant, PTL

\* With more than two connections to keep, half of the ones the bootstrap waits for is
\* one at least: it does not end before its list does.  The code keeps eight.
THEOREM Thorough ==
    ASSUME Required > 2
    PROVE  Spec => []BootstrapIsThorough
<1>1. RangesOK /\ LockOK /\ BootOK => BootstrapIsThorough
  BY DEF BootOK
<1> QED BY <1>1, LockInvariant, PTL
=============================================================================
