--------------------------- MODULE BlocksReactor -----------------------------
(***************************************************************************)
(* spruned/daemon/tasks/blocks_reactor.py: the reactor that downloads the  *)
(* last blocks of the chain, and the bootstrap that main.py runs once, when *)
(* the headers have reached the best height.                               *)
(*                                                                         *)
(* check schedules itself again after every call, at once or 30 seconds    *)
(* later; each such loop is a member of Loop, and on_connected starts one  *)
(* whenever the pool tells that it is connected.  The loops and the        *)
(* bootstrap share self.lock.  Places of a loop:                           *)
(*   off       not started                                                 *)
(*   ready     check is scheduled                                          *)
(*   waiting   self.lock.acquire(), the best header already read           *)
(*   fetching  interface.get_blocks(), holding the lock                    *)
(* Places of the bootstrap: off; peers and waiting, before it has the      *)
(* lock; round, in its loop, with the blocks under way in `asked'; over.   *)
(*                                                                         *)
(* The headers table is the chain that ends at `tip', which the headers    *)
(* reactor moves, also to another branch.                                  *)
(***************************************************************************)
EXTENDS Integers, Sequences, FiniteSets, SequencesExt

CONSTANTS
    Block, Height, Chain,   \* the blocks; Chain[b]: the blocks from the lowest one to b
    HashRank,       \* HashRank[b]: the order of the blocks by hash
    NoBlock,        \* None
    Keep,           \* _keep_blocks
    MaxBatch,       \* _max_per_batch, 10
    Required,       \* required_connections of the pool
    Loop,           \* calls of check that schedule themselves again
    Boot, Free,     \* who holds the lock, besides a loop: the bootstrap, nobody
    Notified,       \* whether the pool tells its observers that it is connected
    MaxMoves        \* bound: changes of the best header and losses of peers

ASSUME BlockAssumption ==
    /\ IsFiniteSet(Block) /\ NoBlock \notin Block
    /\ Height \in [Block -> Nat]
    /\ HashRank \in [Block -> Nat]
    /\ \A b, c \in Block : HashRank[b] = HashRank[c] => b = c
    /\ Chain \in [Block -> SUBSET Block]
    /\ \A b \in Block : b \in Chain[b] /\ \A c \in Chain[b] :
         Height[c] <= Height[b] /\ Chain[c] = {d \in Chain[b] : Height[d] <= Height[c]}

ASSUME ReactorAssumption ==
    /\ Keep \in Nat /\ MaxBatch \in Nat \ {0} /\ Required \in Nat \ {0} /\ MaxMoves \in Nat
    /\ Boot \notin Loop /\ Free \notin Loop \cup {Boot}
    /\ Notified \in BOOLEAN

VARIABLES
    tip,        \* the best header
    peers,      \* established connections
    moves,      \* how often the environment changed either
    stored,     \* blocks with an index in LevelDB
    last,       \* _last_processed_block
    lock,       \* self.lock
    pc,         \* where each loop is
    best,       \* best_header, as each loop read it
    request,    \* _request of each loop
    boot,       \* where the bootstrap is
    missing,    \* missing_blocks
    asked,      \* the blocks of this round that were not yet answered
    from,       \* history: where the windows began since last was None
    skipped     \* history: blocks below a window that began on another branch

env == <<tip, peers, moves>>
bootVars == <<boot, missing, asked>>
vars == <<tip, peers, moves, stored, last, lock, pc, best, request,
          boot, missing, asked, from, skipped>>

ByRank(b, c) == HashRank[b] < HashRank[c]

\* The lists of these blocks in the order of their heights: one, as the blocks of a
\* chain have a height each.
ByHeight(blocks) == {s \in SetToSeqs(blocks) :
                       \A i, j \in DOMAIN s : i < j => Height[s[i]] <= Height[s[j]]}

Init ==
    /\ tip \in Block /\ peers = 0 /\ moves = 0
    /\ stored = {} /\ last = NoBlock /\ lock = Free
    /\ pc = [t \in Loop |-> "off"]
    /\ best = [t \in Loop |-> NoBlock]
    /\ request = [t \in Loop |-> {}]
    /\ boot = "off" /\ missing = <<>> /\ asked = {}
    /\ from = 0 /\ skipped = {}
-----------------------------------------------------------------------------
(* Pieces of the handlers *)

\* Those of a set with the greatest key: the last one in the order of the keys.
Greatest(blocks, Key) == {b \in blocks : \A c \in blocks : Key[c] <= Key[b]}

\* get_headers_since_height: from that height on.
HeadersSince(h) == {b \in Chain[tip] : Height[b] >= h}

\* height_to_start of _on_blocks_behind_headers for this best header.
HeightToStart(b) ==
    IF last # NoBlock /\ Height[b] - Height[last] < Keep THEN Height[last]
    ELSE IF Height[b] > Keep THEN Height[b] - Keep ELSE 0

\* The lowest ones, as many as a batch takes.
Window(b) ==
    LET headers == HeadersSince(HeightToStart(b))
    IN {c \in headers : Cardinality({d \in headers : Height[d] < Height[c]}) < MaxBatch}

\* Variant with a bug: the lock is kept.
CallEndsLocked(t) ==
    /\ pc' = [pc EXCEPT ![t] = "ready"]
    /\ best' = [best EXCEPT ![t] = NoBlock]
    /\ request' = [request EXCEPT ![t] = {}]
    /\ UNCHANGED lock

\* The call of check ends: the lock is released and check is scheduled again.
CallEnds(t) ==
    /\ lock' = Free
    /\ pc' = [pc EXCEPT ![t] = "ready"]
    /\ best' = [best EXCEPT ![t] = NoBlock]
    /\ request' = [request EXCEPT ![t] = {}]

\* Variant with a bug: one connection is enough.
PeersNone == peers = 0
\* len(established) < required / 2
PeersMissing == peers * 2 < Required
-----------------------------------------------------------------------------
(* The check loops *)

\* on_connected, through the pool's observers.
OnConnected(t) ==
    /\ Notified /\ pc[t] = "off"
    /\ pc' = [pc EXCEPT ![t] = "ready"]
    /\ UNCHANGED <<env, stored, last, lock, best, request, bootVars, from, skipped>>

\* check, up to the lock.
Check(t) ==
    /\ pc[t] = "ready"
    /\ best' = [best EXCEPT ![t] = tip]
    /\ pc' = [pc EXCEPT ![t] = "waiting"]
    /\ UNCHANGED <<env, stored, last, lock, request, bootVars, from, skipped>>

\* Variant with a bug: another branch is not noticed.
ResetIgnored(t) ==
    /\ pc[t] = "waiting" /\ lock = Free
    /\ last # NoBlock /\ Height[best[t]] <= Height[last]
    /\ CallEnds(t)
    /\ UNCHANGED <<env, stored, last, bootVars, from, skipped>>

\* The best header is not above the last block and is another one: the next
\* call starts anew.
Reset(t) ==
    /\ pc[t] = "waiting" /\ lock = Free
    /\ last # NoBlock /\ Height[best[t]] <= Height[last]
    /\ last' = IF best[t] = last THEN last ELSE NoBlock
    /\ CallEnds(t)
    /\ UNCHANGED <<env, stored, bootVars, from, skipped>>

\* _on_blocks_behind_headers, up to get_blocks.  An empty window (the chain has
\* become shorter) raises an exception that the finally clause swallows.
BlocksBehind(t) ==
    /\ pc[t] = "waiting" /\ lock = Free
    /\ last # NoBlock => Height[best[t]] > Height[last]
    /\ LET b == best[t]
           window == Window(b)
           absent == window \ stored
       IN /\ IF absent # {}
             THEN /\ lock' = t
                  /\ pc' = [pc EXCEPT ![t] = "fetching"]
                  /\ request' = [request EXCEPT ![t] = absent]
                  /\ UNCHANGED <<last, best>>
             ELSE /\ last' \in IF window = {} THEN {last} ELSE Greatest(window, Height)
                  /\ CallEnds(t)
          /\ from' = IF last = NoBlock \/ HeightToStart(b) > Height[last]
                     THEN HeightToStart(b) ELSE from
          /\ skipped' = skipped \cup {c \in Chain[tip] \ stored :
                                        /\ last # NoBlock /\ last \notin Chain[tip]
                                        /\ Height[c] < HeightToStart(b)}
    /\ UNCHANGED <<env, stored, bootVars>>

\* The blocks have arrived and are saved in the order of their hashes: the last
\* one saved is the last one processed.
BlocksArrive(t) ==
    /\ pc[t] = "fetching" /\ peers > 0
    /\ stored' = stored \cup request[t]
    /\ last' \in Greatest(request[t], HashRank)
    /\ CallEnds(t)
    /\ UNCHANGED <<env, bootVars, from, skipped>>

\* Variant with a bug: the failure is not noticed.
SaveFailsUnnoticed(t) ==
    /\ pc[t] = "fetching" /\ peers > 0
    /\ \E b \in request[t] : stored' = stored \cup {c \in request[t] : ByRank(c, b)}
    /\ last' \in Greatest(request[t], HashRank)
    /\ CallEnds(t)
    /\ UNCHANGED <<env, bootVars, from, skipped>>

\* A save fails half way.
SaveFails(t) ==
    /\ pc[t] = "fetching" /\ peers > 0
    /\ \E b \in request[t] : stored' = stored \cup {c \in request[t] : ByRank(c, b)}
    /\ CallEnds(t)
    /\ UNCHANGED <<env, last, bootVars, from, skipped>>

\* get_blocks raises: some block did not arrive in 100 rounds of get_block.  The
\* blocks that did arrive are dropped.
BlocksMissing(t) ==
    /\ pc[t] = "fetching"
    /\ CallEnds(t)
    /\ UNCHANGED <<env, stored, last, bootVars, from, skipped>>
-----------------------------------------------------------------------------
(* bootstrap_blocks *)

\* The headers have reached the best height, for the first time.
Bootstrap ==
    /\ boot = "off"
    /\ boot' = "peers"
    /\ UNCHANGED <<env, stored, last, lock, pc, best, request, missing, asked, from, skipped>>

BootReady ==
    /\ boot = "peers" /\ ~PeersMissing
    /\ boot' = "waiting"
    /\ UNCHANGED <<env, stored, last, lock, pc, best, request, missing, asked, from, skipped>>

BootLocked ==
    /\ boot = "waiting" /\ lock = Free
    /\ lock' = Boot
    /\ boot' = "round"
    /\ missing' \in ByHeight(HeadersSince(Height[tip] - Keep) \ stored)
    /\ UNCHANGED <<env, stored, last, pc, best, request, asked, from, skipped>>

\* A round of the loop: half as many blocks as there are connections, from the
\* other end of the list each time.  Nothing to ask for ends the bootstrap.
BootRound ==
    LET list == Reverse(missing)
        n == peers \div 2
        first == {list[i] : i \in 1..(IF n < Len(list) THEN n ELSE Len(list))}
    IN /\ boot = "round" /\ asked = {} /\ ~PeersMissing
       /\ missing' = list
       /\ asked' = first
       /\ IF first = {} THEN boot' = "over" /\ lock' = Free ELSE UNCHANGED <<boot, lock>>
       /\ UNCHANGED <<env, stored, last, pc, best, request, from, skipped>>

\* Variant with a bug: a block that arrived stays on the list.
BootSaveKeeps(b) ==
    /\ boot = "round" /\ b \in asked
    /\ asked' = asked \ {b}
    /\ stored' \in {stored, stored \cup {b}}
    /\ UNCHANGED <<env, last, lock, pc, best, request, boot, missing, from, skipped>>

\* save_block: an answer takes the block off the list, before it is saved.
BootSave(b) ==
    /\ boot = "round" /\ b \in asked
    /\ asked' = asked \ {b}
    /\ \/ /\ \E i \in DOMAIN missing : missing[i] = b /\ missing' = RemoveAt(missing, i)
          /\ stored' \in {stored, stored \cup {b}}
       \/ UNCHANGED <<missing, stored>>
    /\ UNCHANGED <<env, last, lock, pc, best, request, boot, from, skipped>>
-----------------------------------------------------------------------------
(* The environment *)

NewTip(b) ==
    /\ moves < MaxMoves /\ b # tip
    /\ tip' = b /\ moves' = moves + 1
    /\ UNCHANGED <<peers, stored, last, lock, pc, best, request, bootVars, from, skipped>>

PeersLost ==
    /\ moves < MaxMoves /\ peers > 0
    /\ peers' = peers - 1 /\ moves' = moves + 1
    /\ UNCHANGED <<tip, stored, last, lock, pc, best, request, bootVars, from, skipped>>

\* The connect loop of the pool.
PeersConnect ==
    /\ peers < Required
    /\ peers' = peers + 1
    /\ UNCHANGED <<tip, moves, stored, last, lock, pc, best, request, bootVars, from, skipped>>

Next ==
    \/ \E t \in Loop : \/ OnConnected(t) \/ Check(t) \/ Reset(t) \/ BlocksBehind(t)
                       \/ BlocksArrive(t) \/ SaveFails(t) \/ BlocksMissing(t)
    \/ Bootstrap \/ BootReady \/ BootLocked \/ BootRound
    \/ \E b \in Block : BootSave(b) \/ NewTip(b)
    \/ PeersLost \/ PeersConnect

Spec == Init /\ [][Next]_vars

\* What is not waiting for the lock or for an answer goes on; asyncio.Lock serves
\* its waiters in turn; a block that is asked for again and again arrives and is
\* saved at last; the pool looks for connections.
Fairness ==
    /\ \A t \in Loop : /\ WF_vars(OnConnected(t) \/ Check(t))
                       /\ SF_vars(Reset(t) \/ BlocksBehind(t))
                       /\ SF_vars(BlocksArrive(t))
    /\ WF_vars(Bootstrap \/ BootReady \/ BootRound \/ \E b \in Block : BootSave(b))
    /\ SF_vars(BootLocked)
    /\ SF_vars(\E b \in Block : BootSave(b) /\ stored' # stored)
    /\ WF_vars(PeersConnect)

FairSpec == Spec /\ Fairness
-----------------------------------------------------------------------------
(* Properties *)

Kept == {b \in Chain[tip] : Height[b] >= Height[tip] - Keep}

\* The variables have the values the code gives them, and whoever is inside the
\* lock's region holds it.
TypeOK ==
    /\ tip \in Block /\ peers \in 0..Required /\ moves \in 0..MaxMoves
    /\ stored \subseteq Block /\ last \in Block \cup {NoBlock}
    /\ pc \in [Loop -> {"off", "ready", "waiting", "fetching"}]
    /\ best \in [Loop -> Block \cup {NoBlock}] /\ request \in [Loop -> SUBSET Block]
    /\ boot \in {"off", "peers", "waiting", "round", "over"}
    /\ missing \in Seq(Block) /\ asked \subseteq ToSet(missing)
    /\ from \in Nat /\ skipped \subseteq Block
    /\ \A t \in Loop : pc[t] = "fetching" <=> lock = t
    /\ boot = "round" <=> lock = Boot

\* From where the windows began up to the last processed block, every block of
\* its chain is stored, though the last of a round is the one with the highest
\* hash and not the highest one: only a window that began on another branch
\* leaves blocks out.
NoGapBelowLast ==
    last # NoBlock =>
      /\ last \in stored
      /\ \A b \in Chain[last] : Height[b] >= from => b \in stored \cup skipped

\* The bootstrap ends only when it has gone through its whole list, since the
\* guard on the connections lets at least one block into every round.
BootstrapIsThorough == boot = "over" => missing = <<>>

\* The bootstrap ends, and gives the lock back to the loops.
BootstrapEnds == <>(boot = "over")

\* When the best header rests, the reactor reaches it, and stores every block it
\* is to keep but those a window on another branch skipped.
FollowsBest == <>[](last = tip /\ Kept \subseteq stored \cup skipped)
=============================================================================
