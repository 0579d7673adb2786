-------------------------- MODULE ElectrodConnection --------------------------
(***************************************************************************)
(* spruned/daemon/electrod/electrod_connection.py, ElectrodConnection: one *)
(* connection to an Electrum server, with everything that awaits it.       *)
(*                                                                         *)
(*   Connect     connect(): transport, version, unspent and tx1 are its    *)
(*               awaits; one timer covers them all                         *)
(*   KeepAlive   _keepalive() of the client, without a timer               *)
(*   Subscriber  subscribe() and then _poll_queue(); the timer does not    *)
(*               cover the await of the answer                             *)
(*   Rpc         rpc_call(), with a timer                                  *)
(*   Pinger      ping(), with a timer of its own                           *)
(*   Raw         client.RPC(), as the fee estimation calls it: no timer    *)
(*                                                                         *)
(* The server answers in any order, with what was asked for (right), with  *)
(* something else (wrong) or with an error, whose argument is a dict or    *)
(* not.  After a timer fired the answer may already be there: the          *)
(* cancellation wins.  A notification may hold no header.                  *)
(***************************************************************************)
EXTENDS StratumClient

CONSTANTS
    Connect, KeepAlive, Subscriber, Rpc, Pinger, Raw,
    MaxHeaders      \* bound: headers that the server announces

ASSUME ConnectionAssumption ==
    /\ MaxHeaders \in Nat \ {0}
    /\ Connect # KeepAlive /\ Connect # Subscriber /\ KeepAlive # Subscriber
    /\ Rpc \cap Pinger = {} /\ Rpc \cap Raw = {} /\ Pinger \cap Raw = {}
    /\ {Connect, KeepAlive, Subscriber} \cap (Rpc \cup Pinger \cup Raw) = {}

Caller == {Connect, KeepAlive, Subscriber} \cup Rpc \cup Pinger \cup Raw
Results == {"right", "wrong"}
Errors == {"dict", "text"}

VARIABLES
    client,     \* the StratumClient
    pc,         \* where each caller is
    id,         \* the request it awaits
    delivered,  \* the headers that the header observers were given
    asked,      \* the server: requests it has not answered yet
    told        \* the server: headers it sent since the subscription

vars == <<client, pc, id, delivered, asked, told>>
server == <<asked, told>>

Init ==
    /\ client = NewClient
    /\ pc = [c \in Caller |-> IF c \in {KeepAlive, Subscriber} THEN "off" ELSE "idle"]
    /\ id = [c \in Caller |-> NoId]
    /\ delivered = <<>>
    /\ asked = {} /\ told = <<>>
-----------------------------------------------------------------------------
(* Pieces of the handlers *)

At(c, place) == pc[c] = place
Goes(c, place) == pc' = [pc EXCEPT ![c] = place]
Answered(c, answers) == client.future[id[c]] \in answers
MaySend == client.nextId < MaxId

\* The request of c is filed in the client `filed' and sent, if that has a protocol.
Sends(c, filed) ==
    /\ client' = filed
    /\ id' = [id EXCEPT ![c] = IF filed.protocol THEN filed.nextId ELSE NoId]
    /\ asked' = IF filed.protocol THEN asked \cup {filed.nextId} ELSE asked

\* The await of c is over: it has the answer, or it was cancelled.
Returns(c) ==
    /\ client' = Take(client, id[c])
    /\ id' = [id EXCEPT ![c] = NoId]

\* ka_task.cancel(), together with what the client becomes.
KeepAliveCancelled(cl) ==
    LET started == ~At(KeepAlive, "off")
    IN /\ client' = IF At(KeepAlive, "waiting") THEN Take(cl, id[KeepAlive]) ELSE cl
       /\ pc' = IF started THEN [pc EXCEPT ![KeepAlive] = "over"] ELSE pc
       /\ id' = [id EXCEPT ![KeepAlive] = NoId]
-----------------------------------------------------------------------------
(* connect *)

ConnectStarts ==
    /\ At(Connect, "idle")
    /\ Goes(Connect, "transport")
    /\ UNCHANGED <<client, id, delivered, server>>

TransportFails ==
    /\ At(Connect, "transport")
    /\ Goes(Connect, "failed")
    /\ UNCHANGED <<client, id, delivered, server>>

TransportUp ==
    /\ At(Connect, "transport") /\ MaySend
    /\ Sends(Connect, SendRequest(Connected(client))) /\ Goes(Connect, "version")
    /\ UNCHANGED <<delivered, told>>

VersionAnswered ==
    /\ At(Connect, "version") /\ Answered(Connect, Results) /\ client.protocol /\ MaySend
    /\ Sends(Connect, SendRequest(Take(client, id[Connect]))) /\ Goes(Connect, "unspent")
    /\ UNCHANGED <<delivered, told>>

\* Until the server has answered to its version and to the call that only version
\* 1.4 has, the timer, an error and a lost connection close the client again.
ConnectRefused ==
    /\ \/ At(Connect, "version") \/ At(Connect, "unspent")
    /\ client' = Close(Take(client, id[Connect]))
    /\ id' = [id EXCEPT ![Connect] = NoId]
    /\ Goes(Connect, "failed")
    /\ UNCHANGED <<delivered, server>>

\* The keepalive starts, then rpc_call asks for a transaction of block 1.
UnspentAnswered ==
    /\ At(Connect, "unspent") /\ Answered(Connect, Results) /\ MaySend
    /\ Sends(Connect, SendRequest(Take(client, id[Connect])))
    /\ pc' = [pc EXCEPT ![Connect] = IF client.protocol THEN "tx1" ELSE "failed",
                        ![KeepAlive] = "ready"]
    /\ UNCHANGED <<delivered, told>>

\* on_connect: the pool subscribes to the headers.
Verified ==
    /\ At(Connect, "tx1") /\ Answered(Connect, {"right"})
    /\ Returns(Connect)
    /\ pc' = [pc EXCEPT ![Connect] = "connected", ![Subscriber] = "ready"]
    /\ UNCHANGED <<delivered, server>>

\* Another block, an error, or the timer of connect, whose cancellation rpc_call
\* takes for a failure of its own: the client stays open.
NotVerified ==
    /\ At(Connect, "tx1")
    /\ Returns(Connect) /\ Goes(Connect, "failed")
    /\ UNCHANGED <<delivered, server>>
-----------------------------------------------------------------------------
(* _keepalive *)

KeepAlivePings ==
    /\ At(KeepAlive, "ready") /\ client.protocol /\ MaySend
    /\ Sends(KeepAlive, SendRequest(client)) /\ Goes(KeepAlive, "waiting")
    /\ UNCHANGED <<delivered, told>>

\* The answer, and keepalive_interval.
KeepAliveSleeps ==
    /\ At(KeepAlive, "waiting") /\ Answered(KeepAlive, Results)
    /\ Returns(KeepAlive) /\ Goes(KeepAlive, "ready")
    /\ UNCHANGED <<delivered, server>>

\* An error ends the task.
KeepAliveRaises ==
    /\ At(KeepAlive, "waiting") /\ Answered(KeepAlive, Errors)
    /\ Returns(KeepAlive) /\ Goes(KeepAlive, "over")
    /\ UNCHANGED <<delivered, server>>

KeepAliveEnds ==
    /\ At(KeepAlive, "ready") /\ ~client.protocol
    /\ Goes(KeepAlive, "over")
    /\ UNCHANGED <<client, id, delivered, server>>
-----------------------------------------------------------------------------
(* subscribe and _poll_queue *)

SubscribeSends ==
    /\ At(Subscriber, "ready") /\ MaySend
    /\ Sends(Subscriber, Subscribe(client))
    /\ Goes(Subscriber, IF client.protocol THEN "waiting" ELSE "failed")
    /\ UNCHANGED <<delivered, told>>

\* The header of the answer goes to the observers.
SubscribeAnswered ==
    /\ At(Subscriber, "waiting") /\ Answered(Subscriber, {"right"})
    /\ Returns(Subscriber) /\ Goes(Subscriber, "polling")
    /\ delivered' = <<Head(told)>>
    /\ UNCHANGED server

SubscribeFails ==
    /\ At(Subscriber, "waiting") /\ Answered(Subscriber, {"wrong"} \cup Errors)
    /\ Returns(Subscriber) /\ Goes(Subscriber, "failed")
    /\ UNCHANGED <<delivered, server>>

\* _poll_queue, and the callback that reads _last_header: both go through the
\* delayer, so the callback runs before the next poll sets it again.
PollQueue ==
    /\ At(Subscriber, "polling") /\ client.queue # <<>>
    /\ client' = [client EXCEPT !.queue = Tail(@)]
    /\ delivered' = Append(delivered, Head(client.queue))
    /\ UNCHANGED <<pc, id, server>>

\* A notification without a header in it ends the polling for good: the rest of
\* the queue is never read.
PollFails ==
    /\ At(Subscriber, "polling") /\ client.queue # <<>>
    /\ client' = [client EXCEPT !.queue = Tail(@)]
    /\ Goes(Subscriber, "failed")
    /\ UNCHANGED <<id, delivered, server>>
-----------------------------------------------------------------------------
(* rpc_call, ping and client.RPC *)

\* Without a protocol rpc_call returns None, and the others raise.
Call(c) ==
    /\ At(c, "idle") /\ client.link # "none" /\ MaySend
    /\ Sends(c, SendRequest(client))
    /\ Goes(c, IF client.protocol THEN "waiting" ELSE "nothing")
    /\ UNCHANGED <<delivered, told>>

\* rpc_call returns the argument of an error too, if it is a dict.
CallAnswered(c) ==
    /\ At(c, "waiting") /\ Answered(c, Results \cup Errors)
    /\ Goes(c, IF Answered(c, Results \cup (IF c \in Rpc THEN {"dict"} ELSE {}))
               THEN "answered" ELSE "nothing")
    /\ Returns(c)
    /\ UNCHANGED <<delivered, server>>

\* Variant with a bug: the timer ends with the answer, which may never come.
CallTimeoutAnswered(c) ==
    /\ At(c, "waiting") /\ c \notin Raw /\ id[c] \notin client.inflight
    /\ Returns(c) /\ Goes(c, "nothing")
    /\ UNCHANGED <<delivered, server>>

CallTimeout(c) ==
    /\ At(c, "waiting") /\ c \notin Raw
    /\ Returns(c) /\ Goes(c, "nothing")
    /\ UNCHANGED <<delivered, server>>
-----------------------------------------------------------------------------
(* disconnect, and the server *)

Disconnect ==
    /\ client.protocol
    /\ KeepAliveCancelled(Close(client))
    /\ UNCHANGED <<delivered, server>>

\* The transport reports the end.  After close() nobody is told.
Lost ==
    /\ client.link \in {"up", "closing"}
    /\ IF client.link = "up"
       THEN KeepAliveCancelled(ConnectionLost(client))
       ELSE client' = ConnectionLost(client) /\ UNCHANGED <<pc, id>>
    /\ UNCHANGED <<delivered, server>>

Answer(i, answer) ==
    /\ i \in asked /\ client.link \in {"up", "closing"}
    /\ client' = GotResponse(client, i, answer)
    /\ asked' = asked \ {i}
    /\ told' = IF i = id[Subscriber] /\ answer = "right" THEN <<1>> ELSE told
    /\ UNCHANGED <<pc, id, delivered>>

Traffic ==
    /\ told # <<>> /\ Len(told) < MaxHeaders /\ client.link \in {"up", "closing"}
    /\ client' = GotTraffic(client, Len(told) + 1)
    /\ told' = Append(told, Len(told) + 1)
    /\ UNCHANGED <<pc, id, delivered, asked>>

Connects ==
    \/ ConnectStarts \/ TransportFails \/ TransportUp \/ VersionAnswered \/ ConnectRefused
    \/ UnspentAnswered \/ Verified \/ NotVerified

Next ==
    \/ Connects
    \/ KeepAlivePings \/ KeepAliveSleeps \/ KeepAliveRaises \/ KeepAliveEnds
    \/ SubscribeSends \/ SubscribeAnswered \/ SubscribeFails \/ PollQueue \/ PollFails
    \/ \E c \in Rpc \cup Pinger \cup Raw : Call(c) \/ CallAnswered(c) \/ CallTimeout(c)
    \/ Disconnect \/ Lost \/ Traffic
    \/ \E i \in asked, answer \in Results \cup Errors : Answer(i, answer)

Spec == Init /\ [][Next]_vars

\* Timers fire, and tasks that are ready run.  Nothing is asked of the server.
Fairness ==
    /\ WF_vars(Connects)
    /\ \A c \in Rpc \cup Pinger : WF_vars(CallAnswered(c) \/ CallTimeout(c))
    /\ WF_vars(SubscribeSends \/ SubscribeAnswered \/ SubscribeFails \/ PollQueue \/ PollFails)

FairSpec == Spec /\ Fairness
-----------------------------------------------------------------------------
(* Properties *)

Waiting == {c \in Caller : pc[c] \in {"version", "unspent", "tx1", "waiting"}}

\* The variables have the values the code gives them; no two callers await the
\* same request, and an open protocol has a transport.
TypeOK ==
    /\ client.nextId \in 0..MaxId /\ client.inflight \subseteq 1..client.nextId
    /\ client.link \in {"none", "up", "closing", "down"}
    /\ client.protocol => client.link = "up"
    /\ client.future \in [Id -> {"unused", "pending", "gone"} \cup Results \cup Errors]
    /\ client.queue \in Seq(1..MaxHeaders)
    /\ pc \in [Caller -> {"off", "idle", "transport", "version", "unspent", "tx1", "connected",
                          "failed", "ready", "waiting", "over", "polling", "answered", "nothing"}]
    /\ id \in [Caller -> {NoId} \cup Id]
    /\ \A c, d \in Waiting : c # d => id[c] # id[d]
    /\ delivered \in Seq(1..MaxHeaders)
    /\ asked \subseteq Id /\ told \in Seq(1..MaxHeaders)

\* No answer can miss its caller: whoever awaits a request finds it answered, or
\* the request is in flight, and still with the server while the transport is up.
\* Timeouts before it, late answers and lost connections do not change that.
WaitersReachable ==
    \A c \in Waiting :
      client.future[id[c]] = "pending" =>
        /\ id[c] \in client.inflight
        /\ client.link \in {"up", "closing"} => id[c] \in asked

\* While the connection polls, the observers are given every header the server
\* sent, once and in order, the ones that came between the answer to the
\* subscription and its handling too.
NothingMissed ==
    At(Subscriber, "polling") => delivered \o client.queue = told

\* connect, rpc_call and ping return, whatever the server and the connection do.
CallsReturn ==
    \A c \in {Connect} \cup Rpc \cup Pinger :
      pc[c] \notin {"idle", "connected", "failed"} ~>
        pc[c] \in {"connected", "failed", "answered", "nothing"}
=============================================================================
