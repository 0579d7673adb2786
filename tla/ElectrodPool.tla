----------------------------- MODULE ElectrodPool -----------------------------
(***************************************************************************)
(* ElectrodConnectionPool (daemon/electrod/electrod_connection.py) with    *)
(* the base classes of the pool and of its connections.                    *)
(*                                                                         *)
(* A connection is a Slot, which stands for another object each time it is *)
(* used again.  Its phases:                                                *)
(*   closed       no object, or one that is closed: the pool keeps those   *)
(*                and passes them over, so that what is still to be done   *)
(*                for one changes nothing                                  *)
(*   transport    connect() awaits the transport                           *)
(*   handshake    the client has its protocol, connect() is not over       *)
(*   open         connect() is over.  If the server did not show block 1,  *)
(*                the connection is charged two errors, and stays open     *)
(* Which server a connection is to is not told apart: a server may be      *)
(* picked that is connected already.                                       *)
(*                                                                         *)
(* The pool counts whatever has a protocol and a score, start_score less   *)
(* the errors of the last 180 seconds, that is not below zero.             *)
(*                                                                         *)
(* An error is a chain of tasks: rpc_call schedules on_error, which counts *)
(* the error and schedules on_peer_error, which may ping the server.  A    *)
(* call that refuses an answer runs on_peer_error itself.                  *)
(*                                                                         *)
(* A call asks one connection: nothing in the program passes an agreement  *)
(* above one, or fail_silent, which are left out.                          *)
(***************************************************************************)
EXTENDS Integers, FiniteSets, FiniteSetsExt

CONSTANTS
    Peers,              \* how many servers the list has
    Slot,
    Required,           \* _required_connections
    StartScore,         \* start_score, 10
    Caller, NoSlot,     \* the calls; a call that is not under way asks no connection
    MaxFaults           \* bound: what fails: connects, connections, answers

ASSUME PoolAssumption ==
    /\ Peers \in Nat \ {0}
    /\ IsFiniteSet(Slot) /\ Slot \subseteq Nat /\ NoSlot \notin Slot
    /\ Required \in Nat \ {0} /\ StartScore \in Nat \ {0} /\ MaxFaults \in Nat

VARIABLES
    loop,       \* whether the connect loop runs
    notified,   \* _connection_notified
    conn,       \* the connection in each slot
    asks,       \* the connection that each call awaits
    faults

vars == <<loop, notified, conn, asks, faults>>

\* errors: those that have not expired; then the tasks that have not run, on_error
\* and on_peer_error, and those of the latter that await the ping.
NewConnection ==
    [phase |-> "transport", errors |-> 0, scheduled |-> 0, due |-> 0, pinging |-> 0]
Closed == [phase |-> "closed"]

Init ==
    /\ loop = "running" /\ notified = FALSE
    /\ conn = [s \in Slot |-> Closed]
    /\ asks = [c \in Caller |-> NoSlot]
    /\ faults = 0
-----------------------------------------------------------------------------
In(s, phases) == conn[s].phase \in phases
Connected == {s \in Slot : In(s, {"handshake", "open"})}
Score(s) == StartScore - conn[s].errors

\* connections, and established_connections.
Established == {s \in Connected : Score(s) >= 0}

\* Those _pick_connection may return.
Pickable == {s \in Established : Score(s) > 0}

\* Slots that no call refers to.
Unused == {s \in Slot : In(s, {"closed"}) /\ \A c \in Caller : asks[c] # s}

MayFail == faults < MaxFaults
Fails == faults' = faults + 1

\* connection.disconnect(), or the end of it.
Closes(s) == conn' = [conn EXCEPT ![s] = Closed]

\* _handle_peer_error, for a connection in the state k: a score of exactly zero
\* disconnects; any other, one below zero too, has the peer pinged.
PeerErrorHandled(k) ==
    IF StartScore - k.errors = 0 THEN Closed ELSE [k EXCEPT !.pinging = @ + 1]
-----------------------------------------------------------------------------
(* The connect loop *)

missings == Required - Cardinality(Established)

\* Variant with a bug: no connections are made after the first ones.
LoopConnectsOnce ==
    /\ loop = "running" /\ missings > 0 /\ Unused # {} /\ ~notified
    /\ conn' = [conn EXCEPT ![Min(Unused)] = NewConnection]
    /\ UNCHANGED <<loop, notified, asks, faults>>

\* _connect_servers: as many as are missing, to servers that differ.  The slots
\* bound the round.
LoopConnects ==
    /\ loop = "running" /\ missings > 0 /\ Unused # {}
    /\ LET howmany == Min({missings, Peers, Cardinality(Unused)})
           slots == {s \in Unused : Cardinality({t \in Unused : t < s}) < howmany}
       IN conn' = [s \in Slot |-> IF s \in slots THEN NewConnection ELSE conn[s]]
    /\ UNCHANGED <<loop, notified, asks, faults>>

\* Too many peers.  If none can be picked, there is nothing to disconnect, and
\* the exception ends the loop.
LoopTrims ==
    /\ loop = "running" /\ missings < 0
    /\ IF Pickable = {} THEN loop' = "dead" /\ UNCHANGED conn
       ELSE (\E s \in Pickable : Closes(s)) /\ UNCHANGED loop
    /\ UNCHANGED <<notified, asks, faults>>

LoopNotifies ==
    /\ loop = "running" /\ missings = 0 /\ ~notified
    /\ notified' = TRUE
    /\ UNCHANGED <<loop, conn, asks, faults>>
-----------------------------------------------------------------------------
(* ElectrodConnection.connect *)

TransportUp(s) ==
    /\ In(s, {"transport"})
    /\ conn' = [conn EXCEPT ![s].phase = "handshake"]
    /\ UNCHANGED <<loop, notified, asks, faults>>

\* The transport, or the part of the handshake that closes the client when it fails.
ConnectFails(s) ==
    /\ In(s, {"transport", "handshake"}) /\ MayFail
    /\ Closes(s) /\ Fails
    /\ UNCHANGED <<loop, notified, asks>>

\* The server has shown block 1; or there is an error of connect's own and one that
\* the pool adds; if it was the timer, rpc_call has scheduled one more.
ConnectEnds(s) ==
    /\ In(s, {"handshake"})
    /\ \/ conn' = [conn EXCEPT ![s].phase = "open"] /\ UNCHANGED faults
       \/ conn' = [conn EXCEPT ![s].phase = "open", ![s].errors = 2] /\ UNCHANGED faults
       \/ /\ conn' = [conn EXCEPT ![s].phase = "open", ![s].errors = 2, ![s].scheduled = 1]
          /\ MayFail /\ Fails
    /\ UNCHANGED <<loop, notified, asks>>
-----------------------------------------------------------------------------
(* call *)

\* With too few connections, or none that has a score, call raises instead, and
\* changes nothing.
CallStarts(c) ==
    /\ asks[c] = NoSlot
    /\ \E s \in Pickable : asks' = [asks EXCEPT ![c] = s]
    /\ UNCHANGED <<loop, notified, conn, faults>>

\* The server answers; or the connection was lost meanwhile, and what is charged to
\* it has no effect.
CallReturns(c) ==
    /\ asks[c] # NoSlot
    /\ asks' = [asks EXCEPT ![c] = NoSlot]
    /\ UNCHANGED <<loop, notified, conn, faults>>

\* The answer is empty, or an error with no dictionary, which rpc_call makes None:
\* the call handles the error of the peer itself, and none is counted.
CallRefuses(c) ==
    /\ asks[c] \in Connected /\ MayFail /\ Fails
    /\ conn' = [conn EXCEPT ![asks[c]] = PeerErrorHandled(@)]
    /\ asks' = [asks EXCEPT ![c] = NoSlot]
    /\ UNCHANGED <<loop, notified>>

\* rpc_call times out, or raises: the same, while the error that rpc_call has
\* scheduled is not counted yet.
CallMisses(c) ==
    /\ asks[c] \in Connected /\ MayFail /\ Fails
    /\ LET s == asks[c]
       IN conn' = [conn EXCEPT ![s] = PeerErrorHandled([conn[s] EXCEPT !.scheduled = @ + 1])]
    /\ asks' = [asks EXCEPT ![c] = NoSlot]
    /\ UNCHANGED <<loop, notified>>
-----------------------------------------------------------------------------
(* Errors *)

OnError(s) ==
    /\ s \in Connected /\ conn[s].scheduled > 0
    /\ conn' = [conn EXCEPT ![s].scheduled = @ - 1, ![s].errors = @ + 1, ![s].due = @ + 1]
    /\ UNCHANGED <<loop, notified, asks, faults>>

HandlePeerError(s) ==
    /\ s \in Connected /\ conn[s].due > 0
    /\ conn' = [conn EXCEPT ![s] = PeerErrorHandled([conn[s] EXCEPT !.due = @ - 1])]
    /\ UNCHANGED <<loop, notified, asks, faults>>

\* An error for an answer raises, and ends the task as well.
PingAnswered(s) ==
    /\ s \in Connected /\ conn[s].pinging > 0
    /\ conn' = [conn EXCEPT ![s].pinging = @ - 1]
    /\ UNCHANGED <<loop, notified, asks, faults>>

\* Each ping follows something that failed, so that this is bounded as well.
PingTimeout(s) ==
    /\ s \in Connected /\ conn[s].pinging > 0
    /\ Closes(s)
    /\ UNCHANGED <<loop, notified, asks, faults>>

\* Variant with a bug: what expired is not looked at.
ErrorExpiresAnyway(s) ==
    /\ s \in Connected
    /\ conn' = [conn EXCEPT ![s].errors = @ - 1]
    /\ UNCHANGED <<loop, notified, asks, faults>>

\* 180 seconds later.
ErrorExpires(s) ==
    /\ s \in Connected /\ conn[s].errors > 0
    /\ conn' = [conn EXCEPT ![s].errors = @ - 1]
    /\ UNCHANGED <<loop, notified, asks, faults>>

\* The server ends a connection: nothing tells the pool.
Drops(s) ==
    /\ s \in Connected /\ MayFail
    /\ Closes(s) /\ Fails
    /\ UNCHANGED <<loop, notified, asks>>

Next ==
    \/ LoopConnects \/ LoopTrims \/ LoopNotifies
    \/ \E s \in Slot : \/ TransportUp(s) \/ ConnectFails(s) \/ ConnectEnds(s)
                       \/ OnError(s) \/ HandlePeerError(s) \/ PingAnswered(s) \/ PingTimeout(s)
                       \/ ErrorExpires(s) \/ Drops(s)
    \/ \E c \in Caller : CallStarts(c) \/ CallReturns(c) \/ CallRefuses(c) \/ CallMisses(c)

Spec == Init /\ [][Next]_vars

\* The loop comes round, timers fire, tasks run.  Connects and calls that do not
\* fail are answered.
Fairness ==
    /\ WF_vars(LoopConnects \/ LoopTrims \/ LoopNotifies)
    /\ WF_vars(\E s \in Slot : TransportUp(s) \/ ConnectEnds(s))
    /\ WF_vars(\E s \in Slot : OnError(s) \/ HandlePeerError(s) \/ PingAnswered(s) \/ PingTimeout(s))
    /\ WF_vars(\E s \in Slot : ErrorExpires(s))
    /\ \A c \in Caller : WF_vars(CallReturns(c) \/ CallRefuses(c) \/ CallMisses(c))

FairSpec == Spec /\ Fairness
-----------------------------------------------------------------------------
(* Properties *)

\* The variables have the values the code gives them, and no connection outlives
\* its object: one that is being made has been asked for nothing.
TypeOK ==
    /\ loop \in {"running", "dead"} /\ notified \in BOOLEAN
    /\ \A s \in Slot :
         \/ conn[s] = Closed
         \/ /\ In(s, {"transport", "handshake", "open"})
            /\ conn[s].errors \in Nat /\ conn[s].scheduled \in Nat
            /\ conn[s].due \in Nat /\ conn[s].pinging \in Nat
            /\ In(s, {"transport"}) => /\ conn[s] = NewConnection
                                       /\ \A c \in Caller : asks[c] # s
    /\ faults \in 0..MaxFaults
    /\ asks \in [Caller -> Slot \cup {NoSlot}]

\* When nothing fails any more, the pool comes to rest with as many connections as
\* required and has told its observers, though each round of the loop starts as
\* many as are missing while those of the rounds before are still being made,
\* and errors take connections out of the count and back in.  Else, its loop is dead.
PoolSettles == <>[](loop = "dead" \/ (missings = 0 /\ notified))
=============================================================================
