------------------------------- MODULE P2PPool -------------------------------
(***************************************************************************)
(* P2PConnectionPool and P2PConnection (daemon/bitcoin_p2p/                *)
(* p2p_connection.py), with the PeerEvent of each connection and the       *)
(* InvBatcher of each get.                                                 *)
(*                                                                         *)
(* A connection is a Slot, which stands for another object each time it is *)
(* used again.  Its phases:                                                *)
(*   closed      no object, or one whose peer is None: the pool keeps      *)
(*               those and passes them over                                *)
(*   connecting  connect() awaits the transport or the handshake           *)
(*   open        peer is set                                               *)
(*   deaf        peer is set, and process_events is over: the peer ended   *)
(*               the connection, or sent a message that next_message       *)
(*               refuses (a bad checksum, more than max_msg_size bytes)    *)
(* Nothing looks at what process_events ended with.                        *)
(*                                                                         *)
(* A peer may send any block at any time.  Its blocks go to the batcher of *)
(* the get that last added the peer, the connection's owner.               *)
(***************************************************************************)
EXTENDS Integers, Sequences, FiniteSets, FiniteSetsExt, InvBatcher

CONSTANTS
    Peers,              \* how many peers the list has
    Slot,
    Required,           \* _required_connections
    StartScore,         \* start_score, 2
    Caller, Block,      \* the gets that are made at once, and what they ask for
    Nobody,             \* the owner that has no future for any block
    MaxFaults           \* bound: connections that fail, or go deaf

ASSUME P2PAssumption ==
    /\ Peers \in Nat \ {0}
    /\ IsFiniteSet(Slot) /\ Slot \subseteq Nat /\ Nobody \notin Caller
    /\ Required \in Nat \ {0} /\ StartScore \in Nat \ {0} /\ MaxFaults \in Nat

VARIABLES
    loop,       \* the connect loop: it waits for the network first
    conn,       \* the connection in each slot
    get,        \* what each get waits for
    faults

vars == <<loop, conn, get, faults>>

Closed == [phase |-> "closed"]
Connecting == [phase |-> "connecting"]

\* errors: those that have not expired.  doomed: disconnect() is scheduled.
Opened == [phase |-> "open", errors |-> 0, doomed |-> FALSE, owner |-> Nobody]

Idle == [wanted |-> {}, peers |-> <<>>, result |-> {}]

Init ==
    /\ loop = "waiting"
    /\ conn = [s \in Slot |-> Closed]
    /\ get = [c \in Caller |-> Idle]
    /\ faults = 0
-----------------------------------------------------------------------------
In(s, phases) == conn[s].phase \in phases

\* connected, and established_connections: whatever its score is.
Established == {s \in Slot : In(s, {"open", "deaf"})}
Score(s) == StartScore - conn[s].errors

Running(c) == get[c] # Idle

\* Slots that no get refers to.
Unused == {s \in Slot : In(s, {"closed"}) /\ \A c \in Caller : s \notin Range(get[c].peers)}

\* Those _pick_connection may return.
Pickable == {s \in Established : Score(s) > 0}

Ordered(n, from) == {p \in [1..n -> from] : IsInjective(p)}

\* _pick_multiple_connections.
Picks(n) == Ordered(n, Pickable)

\* _pick_privileged_connections: by score, the lowest first.
PrivilegedPicks(n) ==
    {p \in Ordered(Min({n, Cardinality(Established)}), Established) \ {<<>>} :
       /\ \A i, j \in DOMAIN p : i < j => Score(p[i]) <= Score(p[j])
       /\ \A i \in DOMAIN p : \A s \in Established \ Range(p) : Score(p[i]) <= Score(s)}

\* The connections a get asks for: two where there are two, or one.
Howmany == {1} \cup IF Cardinality(Established) >= 2 THEN {2} ELSE {}

\* Variant with a bug: only a score below zero is disconnected.
AddErrorBelow(connection) ==
    IF connection.doomed THEN connection
    ELSE [connection EXCEPT !.errors = @ + 1, !.doomed = StartScore < connection.errors + 1]

\* add_error, which schedules disconnect.  What happens to a connection between that
\* and the task is not counted any more.
AddError(connection) ==
    IF connection.doomed THEN connection
    ELSE [connection EXCEPT !.errors = @ + 1, !.doomed = StartScore <= connection.errors + 1]

\* What the end of a get leaves: its batcher has no future any more, and charges
\* those of the connections in charged that are still there.
GetOver(c, charged) ==
    /\ get' = [get EXCEPT ![c] = Idle]
    /\ conn' = [s \in Slot |->
         IF s \notin Established THEN conn[s]
         ELSE LET left == [conn[s] EXCEPT !.owner = IF @ = c THEN Nobody ELSE @]
              IN IF s \in charged THEN AddError(left) ELSE left]

MayFail == faults < MaxFaults
Fails == faults' = faults + 1
-----------------------------------------------------------------------------
(* The connect loop *)

missings == Required - Cardinality(Established)

\* Variant with a bug: a connect may take longer than a round.
RoundOverAnyway == TRUE

\* The loop sleeps for 10 seconds, and a connect has 3.
RoundOver == \A s \in Slot : ~In(s, {"connecting"})

\* There is a network, and there are peers.
LoopStarts ==
    /\ loop = "waiting" /\ loop' = "running"
    /\ UNCHANGED <<conn, get, faults>>

\* As many as are missing, to peers that differ.  The slots bound the round.
LoopConnects ==
    /\ loop = "running" /\ missings > 0 /\ RoundOver /\ Unused # {}
    /\ LET howmany == Min({missings, Peers, Cardinality(Unused)})
           slots == {s \in Unused : Cardinality({t \in Unused : t < s}) < howmany}
       IN conn' = [s \in Slot |-> IF s \in slots THEN Connecting ELSE conn[s]]
    /\ UNCHANGED <<loop, get, faults>>
-----------------------------------------------------------------------------
(* P2PConnection *)

ConnectOpens(s) ==
    /\ In(s, {"connecting"})
    /\ conn' = [conn EXCEPT ![s] = Opened]
    /\ UNCHANGED <<loop, get, faults>>

\* The transport, the handshake, _verify_peer, or the timeout of all of it.
ConnectFails(s) ==
    /\ In(s, {"connecting"}) /\ MayFail
    /\ conn' = [conn EXCEPT ![s] = Closed]
    /\ Fails
    /\ UNCHANGED <<loop, get>>

\* The task that add_error has scheduled; each round of the loop schedules another
\* for a score of zero or less, which changes nothing.
Disconnect(s) ==
    /\ s \in Established /\ conn[s].doomed
    /\ conn' = [conn EXCEPT ![s] = Closed]
    /\ UNCHANGED <<loop, get, faults>>

\* 180 seconds later.
ErrorExpires(s) ==
    /\ s \in Established /\ conn[s].errors > 0 /\ ~conn[s].doomed
    /\ conn' = [conn EXCEPT ![s].errors = @ - 1]
    /\ UNCHANGED <<loop, get, faults>>

GoesDeaf(s) ==
    /\ In(s, {"open"}) /\ MayFail
    /\ conn' = [conn EXCEPT ![s].phase = "deaf"]
    /\ Fails
    /\ UNCHANGED <<loop, get>>

\* Variant with a bug: the answer is taken for the block that was asked for.
BlockArrivesUnread(s, block) ==
    /\ In(s, {"open"}) /\ conn[s].owner # Nobody
    /\ get[conn[s].owner].batcher.place # "resolved"
    /\ get' = [get EXCEPT ![conn[s].owner].batcher = Resolve(@),
                          ![conn[s].owner].result = {block}]
    /\ UNCHANGED <<loop, conn, faults>>

\* process_events and the callback for "block"; a block that the owner's batcher has
\* no future for is dropped.
BlockArrives(s, block) ==
    /\ In(s, {"open"}) /\ conn[s].owner # Nobody
    /\ get[conn[s].owner].wanted = {block}
    /\ get[conn[s].owner].batcher.place # "resolved"
    /\ get' = [get EXCEPT ![conn[s].owner].batcher = Resolve(@),
                          ![conn[s].owner].result = {block}]
    /\ UNCHANGED <<loop, conn, faults>>
-----------------------------------------------------------------------------
(* get *)

\* Up to the first await that waits.  With too few connections that can be picked,
\* get raises instead, and changes nothing.
GetStarts(c, block) ==
    /\ ~Running(c)
    /\ \E n \in Howmany : \E peers \in Picks(n) \cup PrivilegedPicks(n) :
         /\ get' = [get EXCEPT ![c] = [wanted |-> {block}, peers |-> peers, result |-> {},
                                       batcher |-> Batch(NewBatcher(peers))]]
         /\ conn' = [s \in Slot |-> IF s \in Range(peers) THEN [conn[s] EXCEPT !.owner = c]
                                    ELSE conn[s]]
    /\ UNCHANGED <<loop, faults>>

GetBatchTimeout(c) ==
    /\ Running(c) /\ get[c].batcher.place = "asked"
    /\ get' = [get EXCEPT ![c].batcher = Batch(BatchTimeout(@))]
    /\ UNCHANGED <<loop, conn, faults>>

GetReturns(c) ==
    /\ Running(c) /\ get[c].batcher.place = "resolved"
    /\ GetOver(c, {})
    /\ UNCHANGED <<loop, faults>>

\* Every connection of the get is charged, asked or not.  The timer may fire when
\* the result is there and the get has not seen it.
GetTimeout(c) ==
    /\ Running(c)
    /\ GetOver(c, Range(get[c].peers))
    /\ UNCHANGED <<loop, faults>>

\* get_from_connection, for a transaction: its batcher takes the peer's blocks, and
\* its future is one that only a block could resolve.
GetFromConnection(s) ==
    /\ s \in Established /\ conn[s].owner # Nobody
    /\ conn' = [conn EXCEPT ![s].owner = Nobody]
    /\ UNCHANGED <<loop, get, faults>>

Next ==
    \/ LoopStarts \/ LoopConnects
    \/ \E s \in Slot : \/ ConnectOpens(s) \/ ConnectFails(s) \/ Disconnect(s) \/ ErrorExpires(s)
                       \/ GoesDeaf(s) \/ GetFromConnection(s)
                       \/ \E b \in Block : BlockArrives(s, b)
    \/ \E c \in Caller : \/ \E b \in Block : GetStarts(c, b)
                         \/ GetBatchTimeout(c) \/ GetReturns(c) \/ GetTimeout(c)

Spec == Init /\ [][Next]_vars
-----------------------------------------------------------------------------
(* Properties *)

\* The variables have the values the code gives them.  A connection whose score
\* reached zero is one that is about to be closed, and the owner of a connection is
\* a get that runs and has added it.
TypeOK ==
    /\ loop \in {"waiting", "running"} /\ faults \in 0..MaxFaults
    /\ \A s \in Slot :
         \/ conn[s] \in {Closed, Connecting}
         \/ /\ s \in Established
            /\ conn[s].errors \in Nat /\ conn[s].doomed \in BOOLEAN
            /\ Score(s) <= 0 => conn[s].doomed
            /\ conn[s].owner # Nobody => s \in Range(get[conn[s].owner].peers)
    /\ \A c \in Caller : Running(c) =>
         /\ get[c].batcher.place \in {"asked", "held", "resolved"}
         /\ get[c].wanted \subseteq Block /\ Range(get[c].peers) \subseteq Slot

\* What get returns is the block it asked for, though a connection's blocks go to
\* the get that added it last, and may be those another get, or nobody, asked for.
GetsOwnBlock == \A c \in Caller : get[c].result \subseteq get[c].wanted

\* The second connection of a get is never asked: when the first one has not
\* answered, its second token takes the item and keeps it.
SecondNeverAsked ==
    \A c \in Caller : Running(c) =>
        get[c].batcher.asked \cup get[c].batcher.tried \subseteq {get[c].peers[1]}

\* A round starts what is missing and the next one finds the connects of the last
\* ended: there are never more connections than required, and the branch of the loop
\* that disconnects one, or ends the loop with no peer to pick, is not taken.
NeverTooMany == missings >= 0
=============================================================================
