---------------------------- MODULE StratumClient ----------------------------
(***************************************************************************)
(* spruned/dependencies/connectrum.py: the client of one Electrum server,  *)
(* as operators on its state `client'.                                     *)
(*                                                                         *)
(* A request has an id, a future, and an entry in inflight that the answer *)
(* takes out.  Whoever awaits the future may have been cancelled by then,  *)
(* which cancels the future and leaves the entry.  A lost connection ends  *)
(* the keepalive and resolves no future.                                   *)
(***************************************************************************)
EXTENDS Integers, Sequences, FiniteSets

CONSTANTS MaxId         \* bound: requests of a connection

ASSUME ClientAssumption == MaxId \in Nat \ {0}

Id == 1..MaxId
NoId == 0

\* protocol: self.protocol is set.  link: the transport; while it is closing,
\* after close(), the TLS layer may still hand over what had arrived.
\* future: where the future of each request stands; it is gone when nobody awaits it.
NewClient ==
    [protocol |-> FALSE, link |-> "none", nextId |-> 0, inflight |-> {},
     future |-> [i \in Id |-> "unused"], subscribed |-> FALSE, queue |-> <<>>]

Connected(client) == [client EXCEPT !.protocol = TRUE, !.link = "up"]

\* StratumClient.close.
Close(client) ==
    IF client.protocol THEN [client EXCEPT !.protocol = FALSE, !.link = "closing"] ELSE client

\* Variant with a bug: the number is the one of the last request.
SendRequestSameId(client) ==
    LET id == IF client.nextId = 0 THEN 1 ELSE client.nextId
    IN [client EXCEPT !.nextId = id, !.inflight = @ \cup {id}, !.future[id] = "pending"]

\* _send_request.  Without a protocol the message is not sent, which raises after
\* the request was filed.
SendRequest(client) ==
    LET id == client.nextId + 1
    IN [client EXCEPT !.nextId = id, !.inflight = @ \cup {id},
                      !.future[id] = IF client.protocol THEN "pending" ELSE "gone"]

\* subscribe: the queue is there before the answer.
Subscribe(client) == [SendRequest(client) EXCEPT !.subscribed = TRUE]

\* got_response, for an id: setting the result of a cancelled future raises, and
\* data_received drops the exception; so it does for an id that is not in flight.
GotResponse(client, id, answer) ==
    IF id \notin client.inflight THEN client
    ELSE [client EXCEPT !.inflight = @ \ {id},
                        !.future[id] = IF @ = "pending" THEN answer ELSE @]

\* Variant with a bug: a message takes the place of one that was not yet polled.
GotTrafficLatest(client, header) ==
    IF client.subscribed THEN [client EXCEPT !.queue = <<header>>] ELSE client

\* got_response, for the traffic of a subscription.
GotTraffic(client, header) ==
    IF client.subscribed THEN [client EXCEPT !.queue = Append(@, header)] ELSE client

\* The task that awaits a future takes its result, or is cancelled.
Take(client, id) == [client EXCEPT !.future[id] = "gone"]

\* StratumProtocol.connection_lost and StratumClient.connection_lost.
ConnectionLost(client) == [client EXCEPT !.protocol = FALSE, !.link = "down"]
=============================================================================
