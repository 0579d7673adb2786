--------------------------- MODULE HeadersReactor ----------------------------
(***************************************************************************)
(* spruned/daemon/tasks/headers_reactor.py: the reactor that keeps the     *)
(* stored headers aligned with the ones the Electrum servers announce.     *)
(*                                                                         *)
(* Everything runs on one asyncio loop: what a coroutine does between two  *)
(* awaits is one step.  Each call of on_new_header is a member of Task;    *)
(* its activation record is frame[t] and the await it is suspended at is   *)
(* pc[t]:                                                                  *)
(*   idle       no call in progress                                        *)
(*   waiting    self.lock.acquire()                                        *)
(*   chunks     interface.get_headers_in_range_from_chunks()               *)
(*   range      interface.get_headers_in_range()                           *)
(*   pause      sleep(3) before raising NoHeadersException                 *)
(*   behind     sleep(3) of on_network_headers_behind                      *)
(*   ping       interface.handle_peer_error(), which may ping the peer     *)
(*                                                                         *)
(* The servers are the environment.  Each answer comes from a server that  *)
(* follows the chain of some member of Tips: servers may be on different   *)
(* branches, or lag behind one another, and one call may reach several.    *)
(* Disconnecting or scoring a peer belongs to the connection pool.         *)
(*                                                                         *)
(* on_inconsistent_header_received is not here: its only call is never     *)
(* reached (SuspectHeader).                                                *)
(***************************************************************************)
EXTENDS HeadersRepository

CONSTANTS
    Task,           \* concurrent calls of on_new_header (bounds the model)
    NoTask,         \* the lock is free
    Tips,           \* the blocks that some server has as its tip
    Chain,          \* Chain[s]: the blocks of the chain that ends at s
    ChunkSize,      \* 2016: headers in a chunk
    MaxSingle,      \* 10: MAX_SINGLE_HEADERS_BEFORE_USING_CHUNKS
    SaveEvery,      \* 5: chunks between two saves
    MaxRetries,     \* 5: recursions of on_new_header
    MaxSyncErrors,  \* 100: errors that suspend the fallback check
    Failures        \* how calls may fail, a subset of FailureKinds

\* nopeers: NoPeersException, the pool has no connection;
\* missing: no answer, an error or a timeout (ElectrodMissingResponseException);
\* dropped: one answer of get_headers_in_range could not be parsed.
FailureKinds == {"nopeers", "missing", "dropped"}

ASSUME ReactorAssumption ==
    /\ NoTask \notin Task
    /\ Tips \subseteq Block
    /\ Chain \in [Tips -> SUBSET Block]
    /\ \A s \in Tips :
         /\ s \in Chain[s]
         /\ \A b \in Chain[s] : b # Genesis => Prev[b] \in Chain[s]
         /\ \A b, c \in Chain[s] : Height[b] = Height[c] => b = c
         /\ \A b \in Chain[s] : Height[b] <= Height[s]
    /\ ChunkSize \in Nat \ {0}
    /\ MaxSingle \in Nat \ {0}
    /\ SaveEvery \in Nat \ {0}
    /\ MaxRetries \in Nat
    /\ MaxSyncErrors \in Nat \ {0}
    /\ Failures \subseteq FailureKinds

VARIABLES
    rows,           \* the headers table, on disk
    last,           \* _last_processed_header
    synced,         \* synced
    syncErrors,     \* _sync_errors, up to MaxSyncErrors
    announced,      \* the header last handed to on_new_best_header_callbacks
    bestHit,        \* the header last handed to the best-height-hit callbacks
    bootstrapped,   \* the volatile best-height-hit callbacks were popped
    lock,           \* the task that holds self.lock
    pc,             \* where each task is suspended
    frame,          \* the local variables of each task
    poll,           \* check_headers: off, scheduled, asking or dead
    pollAt          \* the height check_headers asks for

signalVars == <<bestHit, bootstrapped>>
pollVars   == <<poll, pollAt>>
vars == <<rows, last, synced, syncErrors, announced, bestHit, bootstrapped,
          lock, pc, frame, poll, pollAt>>

Places   == {"idle", "waiting", "chunks", "range", "pause", "behind", "ping"}
Critical == Places \ {"idle", "waiting"}

NoFrame == [header |-> NoBlock, retries |-> 0, base |-> NoBlock,
            index |-> 0, saving |-> {}]

\* A fresh activation of on_new_header for header b.
Call(b, r) == [NoFrame EXCEPT !.header = b, !.retries = r]

\* The process comes up.
UpInit ==
    /\ last = NoBlock
    /\ synced = FALSE
    /\ syncErrors = 0
    /\ announced = NoBlock
    /\ bestHit = NoBlock
    /\ bootstrapped = FALSE
    /\ lock = NoTask
    /\ pc = [t \in Task |-> "idle"]
    /\ frame = [t \in Task |-> NoFrame]
    /\ poll = "off"
    /\ pollAt = 0

\* The first run: the table is new.
Init == rows = EmptyTable /\ UpInit

Best == BestHeader(rows)

\* get_nearest_parent(n, 2016)
NearestParent(n) == n - (n % ChunkSize)

-----------------------------------------------------------------------------
(***************************************************************************)
(* Pieces of the handlers.                                                 *)
(***************************************************************************)

\* Variant with a bug: the lock is not taken.
LockIgnored == TRUE

LockFree == lock = NoTask

\* set_last_processed_header(b): the callbacks run only while self.synced.
SetLast(b) ==
    /\ last' = b
    /\ announced' = IF b # last /\ b # NoBlock /\ synced THEN b ELSE announced

\* Variant with a bug: the first saved header, not the last.
FirstSaved(S) == IF S = {} THEN last ELSE Lowest(S)

\* What counts as processed once S is saved.
LastSaved(S) == IF S = {} THEN last ELSE Highest(S)

\* The task is suspended at an await inside the critical section.
Suspend(t, place, f) ==
    /\ pc' = [pc EXCEPT ![t] = place]
    /\ frame' = [frame EXCEPT ![t] = f]
    /\ lock' = t
    /\ UNCHANGED signalVars

\* The `finally' of on_new_header and its return: the best-height callbacks
\* fire if synced now holds, and the outermost call releases the lock.
Leave(t) ==
    /\ pc' = [pc EXCEPT ![t] = "idle"]
    /\ frame' = [frame EXCEPT ![t] = NoFrame]
    /\ lock' = NoTask
    /\ bestHit' = IF synced' THEN last' ELSE bestHit
    /\ bootstrapped' = (bootstrapped \/ synced')

\* The call ends and changes nothing more: a plain return, or an exception
\* on_new_header does not catch.
GiveUp(t) ==
    /\ UNCHANGED <<rows, last, synced, announced>>
    /\ Leave(t)

\* HeadersInconsistencyException inside on_local_headers_behind:
\* handle_headers_inconsistency drops the chunk of the best header.
Rollback(t) ==
    /\ rows' = RemoveFrom(rows, NearestParent(Height[Best]))
    /\ last' = NoBlock
    /\ synced' = FALSE
    /\ UNCHANGED announced
    /\ Leave(t)

\* A save of S that ends the call, whatever its outcome.  synced is FALSE until
\* the header is set, so that set_last_processed_header announces nothing; `kept'
\* is the last processed header left behind by an uncaught NoResultFound.
SaveAndLeave(t, S, kept) ==
    \/ /\ SaveOutcome(rows, S) = "saved"
       /\ rows' = InsertRows(rows, S)
       /\ last' = LastSaved(S)
       /\ synced' = TRUE
       /\ UNCHANGED announced
       /\ Leave(t)
    \/ /\ SaveOutcome(rows, S) = "inconsistent"
       /\ Rollback(t)
    \/ /\ SaveOutcome(rows, S) = "noresult"
       /\ synced' = FALSE
       /\ last' = kept
       /\ UNCHANGED <<rows, announced>>
       /\ Leave(t)

(***************************************************************************)
(* on_new_header from the lock to its first await, for the activation f.   *)
(***************************************************************************)

\* The server announces the header that was processed last.
AlreadyProcessed(t, f) ==
    /\ last = f.header
    /\ synced' = TRUE
    /\ UNCHANGED <<rows, last, announced>>
    /\ Leave(t)

LocalBehind(f) ==
    /\ last # f.header
    /\ Best # NoBlock => Height[Best] < Height[f.header]

ManyBehind(f) == Best # NoBlock => Height[Best] < Height[f.header] - MaxSingle
OneBehind(f)  == ~ManyBehind(f) /\ Height[Best] = Height[f.header] - 1

\* Bootstrap, or more than MaxSingle headers behind: download whole chunks.
StartChunks(t, f) ==
    /\ LocalBehind(f) /\ ManyBehind(f)
    /\ synced' = FALSE
    /\ UNCHANGED <<rows, last, announced>>
    /\ Suspend(t, "chunks", [f EXCEPT !.base = Best])

\* One header behind: save the announced header as it is.
SaveHeader(t, f) ==
    /\ LocalBehind(f) /\ OneBehind(f)
    /\ SaveAndLeave(t, {f.header}, last)

\* A few headers behind: download them one by one.
StartRange(t, f) ==
    /\ LocalBehind(f) /\ ~ManyBehind(f) /\ ~OneBehind(f)
    /\ synced' = FALSE
    /\ UNCHANGED <<rows, last, announced>>
    /\ Suspend(t, "range", [f EXCEPT !.base = Best])

\* The server is behind: keep it for 3 seconds, then disconnect it.
NetworkBehind(t, f) ==
    /\ last # f.header
    /\ Best # NoBlock /\ Height[Best] > Height[f.header]
    /\ UNCHANGED <<rows, last, synced, announced>>
    /\ Suspend(t, "behind", f)

\* Same height, same header: it becomes the last processed one.
SameHeader(t, f) ==
    /\ last # f.header
    /\ Best # NoBlock /\ Height[Best] = Height[f.header]
    /\ HeaderAtHeight(rows, Height[f.header]) \in {f.header, NoBlock}
    /\ SetLast(f.header)
    /\ UNCHANGED <<rows, synced>>
    /\ Leave(t)

\* Same height, another header: the peer is charged.
SuspectHeader(t, f) ==
    /\ last # f.header
    /\ Best # NoBlock /\ Height[Best] = Height[f.header]
    /\ HeaderAtHeight(rows, Height[f.header]) \notin {f.header, NoBlock}
    /\ UNCHANGED <<rows, last, synced, announced>>
    /\ Suspend(t, "ping", f)

Process(t, f) ==
    \/ AlreadyProcessed(t, f)
    \/ StartChunks(t, f)
    \/ SaveHeader(t, f)
    \/ StartRange(t, f)
    \/ NetworkBehind(t, f)
    \/ SameHeader(t, f)
    \/ SuspectHeader(t, f)

-----------------------------------------------------------------------------
(***************************************************************************)
(* The steps of one call.                                                  *)
(***************************************************************************)

\* A server announces its tip: the pool schedules on_new_header.
Notify(t) ==
    /\ pc[t] = "idle"
    /\ \E s \in Tips : frame' = [frame EXCEPT ![t] = Call(s, 0)]
    /\ pc' = [pc EXCEPT ![t] = "waiting"]
    /\ UNCHANGED <<rows, signalVars, pollVars, last, synced, syncErrors,
                   announced, lock>>

\* The lock is granted and the call runs up to its first await.
Enter(t) ==
    /\ pc[t] = "waiting"
    /\ LockFree
    /\ Process(t, frame[t])
    /\ UNCHANGED <<syncErrors, pollVars>>

\* Variants with a bug: one recursion too many; the count is not passed on.
MayRetryOnceMore(f) == f.retries <= MaxRetries
SameTry(f) == Call(f.header, f.retries)

MayRetry(f) == f.retries < MaxRetries
NextTry(f) == Call(f.header, f.retries + 1)

\* NoPeers, NoQuorum or NoHeaders: count the error and start over, without
\* giving the lock back, until the recursion is too deep.
Retry(t) ==
    /\ syncErrors' = IF syncErrors < MaxSyncErrors THEN syncErrors + 1
                                                   ELSE syncErrors
    /\ \/ MayRetry(frame[t]) /\ Process(t, NextTry(frame[t]))
       \/ ~MayRetry(frame[t]) /\ GiveUp(t)
    /\ UNCHANGED pollVars

NoPeers(t) ==
    /\ "nopeers" \in Failures
    /\ pc[t] \in {"chunks", "range"}
    /\ Retry(t)

\* After the sleep that follows an empty range: NoHeadersException.
EmptyRange(t) ==
    /\ pc[t] = "pause"
    /\ Retry(t)

\* An exception that on_new_header does not catch: a chunk or a header is not
\* answered, or a server is too far behind to have one of the range.
CallFails(t) ==
    /\ \/ pc[t] \in {"chunks", "range"} /\ "missing" \in Failures
       \/ /\ pc[t] = "range"
          /\ \E s \in Tips : Height[s] < Height[frame[t].header] - 1
    /\ GiveUp(t)
    /\ UNCHANGED <<syncErrors, pollVars>>

(***************************************************************************)
(* _fetch_headers_chunks.  frame[t].index is the loop's i: the chunk under *)
(* way is the i-th from the chunk of the captured local best header.       *)
(***************************************************************************)

BaseHeight(f) == IF f.base = NoBlock THEN 0 ELSE Height[f.base]

ChunkIndex(f) == BaseHeight(f) \div ChunkSize + f.index

\* What a server on the chain that ends at s answers for chunk c.
ChunkOf(s, c) ==
    {b \in Chain[s] : c * ChunkSize <= Height[b] /\ Height[b] < (c + 1) * ChunkSize}

\* The headers to keep: all of them when the local height is 0 or unknown.
NewHeaders(f, headers) ==
    IF BaseHeight(f) = 0 THEN headers
    ELSE {b \in headers : Height[b] > BaseHeight(f)}

Flushes(f)   == f.index % SaveEvery = 0
LastChunk(f) == ChunkIndex(f) + 1 > Height[f.header] \div ChunkSize

\* The chunk is empty: the server's chain does not reach it.
EmptyChunk(t) ==
    /\ pc[t] = "chunks"
    /\ \E s \in Tips : ChunkOf(s, ChunkIndex(frame[t])) = {}
    /\ Retry(t)

\* The headers wait for a later save; nothing counts as processed meanwhile.
KeepChunk(t, saving) ==
    /\ ~Flushes(frame[t])
    /\ last' = IF saving = {} THEN last ELSE NoBlock
    /\ UNCHANGED <<rows, synced, announced>>
    /\ Suspend(t, "chunks",
               [frame[t] EXCEPT !.index = @ + 1, !.saving = saving])

\* The headers are saved; the loop goes on.
SaveChunk(t, saving) ==
    /\ Flushes(frame[t])
    /\ \/ /\ SaveOutcome(rows, saving) = "saved"
          /\ rows' = InsertRows(rows, saving)
          /\ last' = LastSaved(saving)
          /\ UNCHANGED <<synced, announced>>
          /\ Suspend(t, "chunks",
                     [frame[t] EXCEPT !.index = @ + 1, !.saving = {}])
       \/ /\ SaveOutcome(rows, saving) = "inconsistent"
          /\ Rollback(t)
       \/ /\ SaveOutcome(rows, saving) = "noresult"
          /\ GiveUp(t)

ChunkAnswer(t) ==
    /\ pc[t] = "chunks"
    /\ \E s \in Tips :
         LET f       == frame[t]
             headers == ChunkOf(s, ChunkIndex(f))
             saving  == f.saving \cup NewHeaders(f, headers)
         IN  /\ headers # {}
             /\ \/ /\ LastChunk(f)
                   /\ SaveAndLeave(t, saving,
                          IF Flushes(f) \/ saving = {} THEN last ELSE NoBlock)
                \/ /\ ~LastChunk(f)
                   /\ KeepChunk(t, saving) \/ SaveChunk(t, saving)
    /\ UNCHANGED <<syncErrors, pollVars>>

(***************************************************************************)
(* _fetch_multiple_headers: one get_header per height from the local best  *)
(* one up to, not including, the announced one; any server answers each.   *)
(***************************************************************************)

RangeHeights(f) == Height[f.base] .. (Height[f.header] - 1)

RangeAnswers(f) ==
    {S \in SUBSET {b \in UNION {Chain[s] : s \in Tips} : Height[b] \in RangeHeights(f)} :
        /\ \A b, c \in S : Height[b] = Height[c] => b = c
        /\ "dropped" \in Failures \/ \A h \in RangeHeights(f) : \E b \in S : Height[b] = h}

RangeAnswer(t) ==
    /\ pc[t] = "range"
    /\ \E S \in RangeAnswers(frame[t]) :
         \/ /\ S = {}
            /\ UNCHANGED <<rows, last, synced, announced>>
            /\ Suspend(t, "pause", frame[t])
         \/ /\ S # {} /\ S = {Lowest(S)}      \* saved_headers[-1]: IndexError
            /\ GiveUp(t)
         \/ /\ S # {} /\ S # {Lowest(S)}
            /\ SaveAndLeave(t, S \ {Lowest(S)}, last)
    /\ UNCHANGED <<syncErrors, pollVars>>

(***************************************************************************)
(* on_network_headers_behind, and the peer with another header.            *)
(***************************************************************************)

\* The peer is disconnected; a header that differs from ours is only logged.
BehindWakes(t) ==
    /\ pc[t] = "behind"
    /\ GiveUp(t)
    /\ UNCHANGED <<syncErrors, pollVars>>

\* The message logged next takes peer.server_info, which is an attribute of the
\* connection's client and not of the connection: AttributeError.
PingEnds(t) ==
    /\ pc[t] = "ping"
    /\ GiveUp(t)
    /\ UNCHANGED <<syncErrors, pollVars>>

-----------------------------------------------------------------------------
(***************************************************************************)
(* check_headers: the fallback loop, started when the pool is connected.   *)
(* A wake-up that only schedules the next one (offline, not synced, locked,*)
(* last header too recent) changes nothing and is not an action.           *)
(***************************************************************************)

OnConnected ==
    /\ poll = "off"
    /\ poll' = "scheduled"
    /\ UNCHANGED <<rows, signalVars, last, synced, syncErrors, announced,
                   lock, pc, frame, pollAt>>

\* Too many errors: the loop raises and is never scheduled again.
PollSuspends ==
    /\ poll = "scheduled"
    /\ syncErrors >= MaxSyncErrors
    /\ poll' = "dead"
    /\ UNCHANGED <<rows, signalVars, last, synced, syncErrors, announced,
                   lock, pc, frame, pollAt>>

PollRuns == poll = "scheduled" /\ syncErrors < MaxSyncErrors /\ synced /\ LockFree

\* int(None) raises TypeError and ends the loop.
PollWithoutHeader ==
    /\ PollRuns
    /\ last = NoBlock
    /\ poll' = "dead"
    /\ UNCHANGED <<rows, signalVars, last, synced, syncErrors, announced,
                   lock, pc, frame, pollAt>>

\* The last header is old: ask for the one above it.
PollAsks ==
    /\ PollRuns
    /\ last # NoBlock
    /\ poll' = "asking"
    /\ pollAt' = Height[last] + 1
    /\ UNCHANGED <<rows, signalVars, last, synced, syncErrors, announced,
                   lock, pc, frame>>

\* No header that high, no answer, or a header processed in the meantime: try
\* again later.
PollMissing ==
    /\ poll = "asking"
    /\ \/ Failures # {}
       \/ \E s \in Tips : Height[s] < pollAt
       \/ (last # NoBlock) /\ Height[last] = pollAt
    /\ poll' = "scheduled"
    /\ pollAt' = 0
    /\ UNCHANGED <<rows, signalVars, last, synced, syncErrors, announced,
                   lock, pc, frame>>

\* A header: schedule on_new_header with it, and the next check.
PollAnswer(t) ==
    /\ poll = "asking"
    /\ pc[t] = "idle"
    /\ \E s \in Tips, b \in Block :
         /\ b \in Chain[s] /\ Height[b] = pollAt
         /\ frame' = [frame EXCEPT ![t] = Call(b, 0)]
    /\ pc' = [pc EXCEPT ![t] = "waiting"]
    /\ poll' = "scheduled"
    /\ pollAt' = 0
    /\ UNCHANGED <<rows, signalVars, last, synced, syncErrors, announced,
                   lock>>

\* The process is killed and started again: only the table survives.
Restart ==
    /\ last' = NoBlock
    /\ synced' = FALSE
    /\ syncErrors' = 0
    /\ announced' = NoBlock
    /\ bestHit' = NoBlock
    /\ bootstrapped' = FALSE
    /\ lock' = NoTask
    /\ pc' = [t \in Task |-> "idle"]
    /\ frame' = [t \in Task |-> NoFrame]
    /\ poll' = "off"
    /\ pollAt' = 0
    /\ UNCHANGED rows

-----------------------------------------------------------------------------
\* What a call does once the lock is its own.
Advance(t) ==
    \/ NoPeers(t)
    \/ EmptyRange(t)
    \/ CallFails(t)
    \/ EmptyChunk(t)
    \/ ChunkAnswer(t)
    \/ RangeAnswer(t)
    \/ BehindWakes(t)
    \/ PingEnds(t)

CheckHeaders ==
    \/ OnConnected
    \/ PollSuspends
    \/ PollWithoutHeader
    \/ PollAsks
    \/ PollMissing
    \/ \E t \in Task : PollAnswer(t)

\* The process runs.
Run ==
    \/ \E t \in Task : Notify(t) \/ Enter(t) \/ Advance(t)
    \/ CheckHeaders

Next == Run \/ Restart

Spec == Init /\ [][Next]_vars

(***************************************************************************)
(* Fairness.  asyncio resumes every coroutine whose await is over, every   *)
(* sleep ends, and rpc_call gives each request a timeout, so an answer or a*)
(* failure always comes.  asyncio.Lock wakes its waiters first come, first *)
(* served: a waiter is not overtaken for ever, hence the strong fairness   *)
(* of Enter.                                                               *)
(***************************************************************************)
Fairness ==
    \A t \in Task : SF_vars(Enter(t)) /\ WF_vars(Advance(t))

FairSpec == Spec /\ Fairness

\* From some time on the process is not killed and no call fails; servers keep
\* announcing their tips: a connection is replaced when it is lost, and the new one
\* subscribes and receives the tip.
Answered == Run /\ \A t \in Task : ~(NoPeers(t) \/ CallFails(t))

Calm ==
    /\ <>[][Answered]_vars
    /\ \A t \in Task : WF_vars(Notify(t))

-----------------------------------------------------------------------------
(***************************************************************************)
(* Properties.                                                             *)
(***************************************************************************)

\* The type of every variable.
TypeOK ==
    /\ DOMAIN rows \subseteq Block
    /\ rows \in [DOMAIN rows -> Nat \ {0}]
    /\ last \in Block \cup {NoBlock}
    /\ synced \in BOOLEAN
    /\ syncErrors \in 0..MaxSyncErrors
    /\ announced \in Block \cup {NoBlock}
    /\ bestHit \in Block \cup {NoBlock}
    /\ bootstrapped \in BOOLEAN
    /\ lock \in Task \cup {NoTask}
    /\ pc \in [Task -> Places]
    /\ frame \in [Task -> [header : Block \cup {NoBlock}, retries : 0..MaxRetries,
                           base : Block \cup {NoBlock}, index : Nat,
                           saving : SUBSET Block]]
    /\ poll \in {"off", "scheduled", "asking", "dead"}
    /\ pollAt \in Nat

\* Row ids are 1..n and grow with the height: what get_best_header (largest
\* id) and get_block_header (neighbours by id) silently rely on, across every
\* interleaving of calls, rollbacks and restarts.
RowIdsFollowHeights ==
    /\ {rows[b] : b \in DOMAIN rows} = 1..Cardinality(DOMAIN rows)
    /\ \A b, c \in DOMAIN rows : (Height[b] < Height[c]) <=> (rows[b] < rows[c])

\* The local header a call captured before an await is still the one to work
\* on after it: the best one while a range is awaited, a stored one during a
\* chunk download, whose unsaved headers are all above the table.
CaptureHolds ==
    \A t \in Task :
        /\ pc[t] = "range" => frame[t].base = Best
        /\ pc[t] = "chunks" =>
              /\ frame[t].base \in DOMAIN rows \cup {NoBlock}
              /\ \A b \in frame[t].saving, c \in DOMAIN rows : Height[c] < Height[b]

\* A table that is not empty starts at the genesis block, whatever was rolled
\* back and whenever the process was killed.
AnchoredAtGenesis == DOMAIN rows # {} => Genesis \in DOMAIN rows

\* The header that was processed last, if there is one, is the best row, though
\* the two are set apart, and the one is taken for the other: by the callbacks,
\* and by a call that returns at once when a server announces it.
LastIsBest == last # NoBlock => last = Best

\* The table implements HeadersStore: headers are added on top, linked at the
\* bottom of each batch, and dropped from the top, at most the top chunk's.
Store == INSTANCE HeadersStore WITH chain <- DOMAIN rows
ImplementsStore == Store!Spec

\* When every server has the same chain: the reactor that says it is synced has
\* the header it processed last as best stored header, at most one behind the
\* servers' tip, has told the p2p pool, and has started the block bootstrap.
AlignedWhenSynced ==
    LockFree /\ synced =>
        /\ last # NoBlock
        /\ last = Best
        /\ \A s \in Tips : Height[last] + 1 >= Height[s]
        /\ bestHit = last
        /\ bootstrapped

\* When every server has the same chain: the previous hash that getblockheader
\* serves, the hash of the row before, is the parent's.
NeighboursAreParents ==
    \A b \in DOMAIN rows \ {Genesis} : Neighbour(rows, b, -1) = Prev[b]

\* Every call of on_new_header ends, with the lock given back: none waits for
\* ever for the lock or recurses for ever.
CallsReturn == \A t \in Task : (pc[t] # "idle") ~> (pc[t] = "idle")

\* The reactor is on the tip of some server.
Settled == Best \in Tips /\ last = Best /\ synced

\* The table is empty, on the servers' chain, or lower than their tips.
Outgrown ==
    Best # NoBlock => \A s \in Tips : Best \in Chain[s] \/ Height[Best] < Height[s]

\* When the servers agree and at last keep answering, the reactor leaves a stale
\* branch that they have outgrown, chunk by chunk, and settles on their tip.
LeavesOutgrownBranch == Outgrown /\ Calm => <>[]Settled

(***************************************************************************)
(* Statements of the repository that the code does not keep.               *)
(***************************************************************************)

\* docs/overview.rst: "the whole chain of headers, since the genesis block".
WholeChainStored ==
    \A b \in DOMAIN rows \ {Genesis} : Prev[b] \in DOMAIN rows

\* HeadersReactor: "This reactor keeps headers aligned to the best height", also
\* from a branch that is as high as the servers' chain.
Converges == Calm => <>[]Settled

\* add_on_new_header_callback: a header saved while in sync is announced.
SavedHeaderAnnounced ==
    [][synced /\ synced' /\ DOMAIN rows \subseteq DOMAIN rows' /\ rows' # rows
          => announced' = BestHeader(rows')]_vars
=============================================================================
