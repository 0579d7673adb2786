----------------------- MODULE ElectrodConnectionProofs -----------------------
(***************************************************************************)
(* The safety of one Electrum connection for any number of calls, pings,   *)
(* fee estimations, requests and headers.                                  *)
(*                                                                         *)
(* The invariant says what each caller that awaits a request can count on, *)
(* in which order the connection's own tasks begin, and where the headers  *)
(* that the server sent are.  A step of a caller ends its await or sends a *)
(* request, so most actions are finished by one of two lemmas, StopKeeps   *)
(* or SendKeeps.                                                           *)
(***************************************************************************)
EXTENDS ElectrodConnection, SequenceTheorems, TLAPS

Waits == {"version", "unspent", "tx1", "waiting"}

Place == Waits \cup {"off", "idle", "transport", "connected", "failed", "ready", "over",
                     "polling", "answered", "nothing"}

Header == 1..MaxHeaders

ClientType ==
    [protocol : BOOLEAN, link : {"none", "up", "closing", "down"}, nextId : 0..MaxId,
     inflight : SUBSET Id, future : [Id -> {"unused", "pending", "gone"} \cup Results \cup Errors],
     subscribed : BOOLEAN, queue : Seq(Header)]

ClientOK(cl) ==
    /\ cl \in ClientType
    /\ cl.inflight \subseteq 1..cl.nextId
    /\ cl.protocol => cl.link = "up"

\* Whoever awaits request i finds its answer, or gets it.
WaiterOK(cl, i, unanswered) ==
    /\ i \in 1..cl.nextId
    /\ cl.future[i] = "pending" =>
         i \in cl.inflight /\ (cl.link \in {"up", "closing"} => i \in unanswered)
    /\ i \in unanswered => cl.future[i] = "pending"

CallersOK ==
    /\ \A c \in Caller : IF pc[c] \in Waits THEN WaiterOK(client, id[c], asked) ELSE id[c] = NoId
    /\ \A c, d \in Caller : pc[c] \in Waits /\ pc[d] \in Waits /\ c # d => id[c] # id[d]

\* connect starts the keepalive, and later the subscription; nobody calls before
\* there is a transport.
OrderOK ==
    /\ pc[Connect] \in {"idle", "transport"} =>
         client.link = "none" /\ ~client.protocol /\ \A c \in Caller : pc[c] \notin Waits
    /\ pc[Connect] \in {"idle", "transport", "version", "unspent"} => pc[KeepAlive] = "off"
    /\ pc[Connect] \in {"idle", "transport", "version", "unspent", "tx1"} => pc[Subscriber] = "off"

\* The headers the server sent since the subscription are with the observers, in
\* the queue, or in the answer that the subscriber has not seen yet.
HeadersOK ==
    /\ pc[Subscriber] \in {"off", "ready"} => told = <<>> /\ client.queue = <<>>
    /\ pc[Subscriber] = "waiting" =>
         /\ client.subscribed
         /\ client.future[id[Subscriber]] = "pending" => told = <<>> /\ client.queue = <<>>
         /\ client.future[id[Subscriber]] = "right" =>
              told # <<>> /\ told = <<Head(told)>> \o client.queue
    /\ pc[Subscriber] = "polling" => client.subscribed /\ delivered \o client.queue = told

TypeInv ==
    /\ pc \in [Caller -> Place] /\ id \in [Caller -> {NoId} \cup Id]
    /\ asked \subseteq Id
    /\ told \in Seq(Header) /\ delivered \in Seq(Header)

Inv == ClientOK(client) /\ TypeInv /\ CallersOK /\ OrderOK /\ HeadersOK
-----------------------------------------------------------------------------
(* The client's operators *)

\* From cl to k nothing was sent, and only the future `gone' was touched.
Quiet(cl, k, gone) ==
    /\ ClientOK(k)
    /\ k.nextId = cl.nextId /\ k.inflight = cl.inflight
    /\ k.queue = cl.queue /\ k.subscribed = cl.subscribed
    /\ k.link \in {"up", "closing"} => cl.link \in {"up", "closing"}
    /\ \A i \in Id : i # gone => k.future[i] = cl.future[i]

LEMMA TakeQuiet ==
    ASSUME NEW cl, ClientOK(cl), NEW i \in Id
    PROVE  Quiet(cl, Take(cl, i), i) /\ Take(cl, i).link = cl.link
             /\ Take(cl, i).protocol = cl.protocol
BY DEF ClientOK, ClientType, Quiet, Take

LEMMA CloseQuiet ==
    ASSUME NEW cl, ClientOK(cl)
    PROVE  Quiet(cl, Close(cl), NoId)
BY DEF ClientOK, ClientType, Quiet, Close

LEMMA LostQuiet ==
    ASSUME NEW cl, ClientOK(cl)
    PROVE  Quiet(cl, ConnectionLost(cl), NoId)
BY DEF ClientOK, ClientType, Quiet, ConnectionLost

LEMMA QuietTwice ==
    ASSUME NEW cl, NEW k, NEW l, NEW i, NEW j, i = j \/ i = NoId \/ j = NoId,
           Quiet(cl, k, i), Quiet(k, l, j)
    PROVE  Quiet(cl, l, IF i = NoId THEN j ELSE i)
BY DEF Quiet, Id, NoId

\* From cl to k a request was filed, under a number that no request had before.
Filed(cl, k) ==
    /\ ClientOK(k) /\ k.nextId = cl.nextId + 1 /\ k.nextId \in Id
    /\ k.inflight = cl.inflight \cup {k.nextId}
    /\ k.protocol = cl.protocol /\ k.link = cl.link /\ k.queue = cl.queue
    /\ cl.protocol => k.future[k.nextId] = "pending"
    /\ \A i \in Id : i # k.nextId => k.future[i] = cl.future[i]

LEMMA SendFiles ==
    ASSUME NEW cl, ClientOK(cl), cl.nextId < MaxId
    PROVE  Filed(cl, SendRequest(cl)) /\ SendRequest(cl).subscribed = cl.subscribed
<1> DEFINE n == cl.nextId + 1
           status == IF cl.protocol THEN "pending" ELSE "gone"
<1>1. n \in Id /\ cl.nextId \in Nat /\ 1..cl.nextId \subseteq 1..n
  BY ClientAssumption DEF ClientOK, ClientType, Id
<1>2. status \in {"pending", "gone"} /\ (cl.protocol => status = "pending")
  OBVIOUS
<1>3. SendRequest(cl) = [cl EXCEPT !.nextId = n, !.inflight = @ \cup {n}, !.future[n] = status]
  BY DEF SendRequest
<1>4. n \in 0..MaxId /\ n \in 1..n
  BY <1>1 DEF Id
<1> HIDE DEF n, status
<1>5. cl.inflight \cup {n} \subseteq 1..n /\ cl.inflight \cup {n} \in SUBSET Id
  BY <1>1, <1>4 DEF ClientOK, ClientType
<1> DEFINE k == SendRequest(cl)
<1>6. /\ k.nextId = n /\ k.inflight = cl.inflight \cup {n} /\ k.protocol = cl.protocol
      /\ k.link = cl.link /\ k.queue = cl.queue /\ k.subscribed = cl.subscribed
      /\ k.future = [cl.future EXCEPT ![n] = status]
  BY <1>3 DEF ClientOK, ClientType
<1>7. k \in ClientType
  <2> DEFINE fut == [cl.future EXCEPT ![n] = status]
             inf == cl.inflight \cup {n}
  <2>1. fut \in [Id -> {"unused", "pending", "gone"} \cup Results \cup Errors]
    BY <1>2 DEF ClientOK, ClientType
  <2>2. k = [cl EXCEPT !.nextId = n, !.inflight = inf, !.future = fut]
    BY <1>3 DEF ClientOK, ClientType
  <2>3. inf \in SUBSET Id
    BY <1>5
  <2> HIDE DEF fut, inf, k
  <2> QED BY <1>4, <2>1, <2>2, <2>3 DEF ClientOK, ClientType
<1> HIDE DEF k
<1>8. /\ cl.protocol => k.future[n] = "pending"
      /\ \A i \in Id : i # n => k.future[i] = cl.future[i]
  BY <1>1, <1>2, <1>6 DEF ClientOK, ClientType
<1>9. ClientOK(k)
  BY <1>5, <1>6, <1>7 DEF ClientOK
<1> QED BY <1>1, <1>6, <1>8, <1>9 DEF Filed, n, k

LEMMA SubscribeFiles ==
    ASSUME NEW cl, ClientOK(cl), cl.nextId < MaxId
    PROVE  Filed(cl, Subscribe(cl)) /\ Subscribe(cl).subscribed
<1>1. Filed(cl, SendRequest(cl))
  BY SendFiles
<1>2. Subscribe(cl) = [SendRequest(cl) EXCEPT !.subscribed = TRUE]
  BY DEF Subscribe
<1> QED BY <1>1, <1>2 DEF Filed, ClientOK, ClientType

\* An open connection.
LEMMA ConnectedOK ==
    ASSUME NEW cl, ClientOK(cl)
    PROVE  /\ ClientOK(Connected(cl)) /\ Connected(cl).nextId = cl.nextId
           /\ Connected(cl).protocol /\ Connected(cl).link = "up"
           /\ Connected(cl).queue = cl.queue /\ Connected(cl).subscribed = cl.subscribed
BY DEF ClientOK, ClientType, Connected
-----------------------------------------------------------------------------
(* The steps *)

\* A request that is awaited has a number.
LEMMA WaitersHaveIds ==
    ASSUME NEW cl, ClientOK(cl), NEW i, NEW unanswered, WaiterOK(cl, i, unanswered)
    PROVE  i \in Id /\ i # NoId
<1>1. i \in 1..cl.nextId /\ cl.nextId \in 0..MaxId
  BY DEF ClientOK, ClientType, WaiterOK
<1> QED BY <1>1, ClientAssumption DEF Id, NoId

\* When the await of c is over, the others can count on what they could.
LEMMA OthersWait ==
    ASSUME Inv, NEW c \in Caller, NEW k, Quiet(client, k, id[c])
    PROVE  \A d \in Caller \ {c} : pc[d] \in Waits =>
             WaiterOK(k, id[d], asked) /\ k.future[id[d]] = client.future[id[d]]
<1> SUFFICES ASSUME NEW d \in Caller \ {c}, pc[d] \in Waits
             PROVE  WaiterOK(k, id[d], asked) /\ k.future[id[d]] = client.future[id[d]]
  OBVIOUS
<1>1. WaiterOK(client, id[d], asked) /\ id[d] # NoId /\ id[d] \in Id
  BY WaitersHaveIds DEF Inv, CallersOK
<1>2. id[d] # id[c]
  BY <1>1 DEF Inv, CallersOK
<1> QED BY <1>1, <1>2 DEF Quiet, WaiterOK

\* What the subscriber relies on is left alone by a step of another caller.
LEMMA HeadersKept ==
    ASSUME Inv, pc'[Subscriber] = pc[Subscriber] \/ {pc[Subscriber], pc'[Subscriber]} \subseteq {"off", "ready"},
           id'[Subscriber] = id[Subscriber],
           client'.queue = client.queue, client'.subscribed = client.subscribed,
           pc[Subscriber] \in Waits =>
             client'.future[id[Subscriber]] = client.future[id[Subscriber]],
           UNCHANGED <<delivered, told>>
    PROVE  HeadersOK'
BY DEF Inv, HeadersOK, Waits

\* A caller whose await is over, or who had none.
LEMMA StopKeeps ==
    ASSUME Inv, NEW c \in Caller, Quiet(client, client', id[c]),
           id' = [id EXCEPT ![c] = NoId], pc' \in [Caller -> Place], pc'[c] \notin Waits,
           \A d \in Caller \ {c} : pc'[d] \in Waits <=> pc[d] \in Waits,
           pc'[Subscriber] = pc[Subscriber] \/ {pc[Subscriber], pc'[Subscriber]} \subseteq {"off", "ready"}
             \/ HeadersOK',
           c = Subscriber => HeadersOK',
           OrderOK', UNCHANGED <<told, asked>>, delivered' \in Seq(Header),
           delivered' = delivered \/ HeadersOK'
    PROVE  Inv'
<1>1. \A d \in Caller \ {c} : pc[d] \in Waits =>
        WaiterOK(client', id[d], asked) /\ client'.future[id[d]] = client.future[id[d]]
  BY OthersWait
<1>2. id' \in [Caller -> {NoId} \cup Id] /\ id'[c] = NoId
        /\ \A d \in Caller \ {c} : id'[d] = id[d]
  BY DEF Inv, TypeInv
<1>3. CallersOK'
  BY <1>1, <1>2 DEF Inv, CallersOK, WaiterOK
<1>4. HeadersOK'
  <2>1. Subscriber \in Caller
    BY DEF Caller
  <2>2. client'.queue = client.queue /\ client'.subscribed = client.subscribed
    BY DEF Quiet
  <2> QED BY <1>1, <1>2, <2>1, <2>2, HeadersKept
<1> QED BY <1>2, <1>3, <1>4 DEF Inv, TypeInv, Quiet

\* A caller that sends a request, k being what the client was by then.
LEMMA SendKeeps ==
    ASSUME Inv, NEW c \in Caller, NEW k, k.queue = client.queue, k.subscribed = client.subscribed,
           \A d \in Caller \ {c} : pc[d] \in Waits =>
             WaiterOK(k, id[d], asked) /\ k.future[id[d]] = client.future[id[d]],
           Filed(k, client'), ClientOK(k),
           id' = [id EXCEPT ![c] = IF client'.protocol THEN client'.nextId ELSE NoId],
           asked' = IF client'.protocol THEN asked \cup {client'.nextId} ELSE asked,
           pc' \in [Caller -> Place], pc'[c] \in Waits <=> client'.protocol,
           \A d \in Caller \ {c} : pc'[d] \in Waits <=> pc[d] \in Waits,
           (pc'[Subscriber] = pc[Subscriber] /\ client'.subscribed = k.subscribed) \/ HeadersOK',
           c = Subscriber => HeadersOK',
           OrderOK', UNCHANGED <<told, delivered>>
    PROVE  Inv'
<1>1. id' \in [Caller -> {NoId} \cup Id] /\ asked' \subseteq Id
        /\ id'[c] = (IF client'.protocol THEN client'.nextId ELSE NoId)
        /\ \A d \in Caller \ {c} : id'[d] = id[d]
  BY DEF Inv, TypeInv, Filed
<1>2. client'.nextId \in Nat /\ k.nextId \in Nat /\ client'.nextId = k.nextId + 1
  BY DEF Filed, ClientOK, ClientType
<1>3. ASSUME NEW d \in Caller \ {c}, pc[d] \in Waits
      PROVE  /\ WaiterOK(client', id[d], asked') /\ id[d] # client'.nextId
             /\ client'.future[id[d]] = client.future[id[d]]
  <2>1. WaiterOK(k, id[d], asked) /\ k.future[id[d]] = client.future[id[d]]
    BY <1>3
  <2>2. id[d] \in 1..k.nextId /\ id[d] \in Id
    BY <2>1, WaitersHaveIds DEF WaiterOK
  <2>3. id[d] # client'.nextId /\ id[d] \in 1..client'.nextId
    BY <1>2, <2>2
  <2> QED BY <2>1, <2>2, <2>3 DEF WaiterOK, Filed
<1>4. client'.protocol => WaiterOK(client', client'.nextId, asked')
  BY <1>2 DEF WaiterOK, Filed, ClientOK, ClientType, Id
<1>5. CallersOK'
  <2>1. ASSUME NEW d \in Caller
        PROVE  IF pc'[d] \in Waits THEN WaiterOK(client', id'[d], asked') ELSE id'[d] = NoId
    BY <1>1, <1>3, <1>4 DEF Inv, CallersOK
  <2>2. ASSUME NEW d \in Caller, NEW e \in Caller, pc'[d] \in Waits, pc'[e] \in Waits, d # e
        PROVE  id'[d] # id'[e]
    BY <1>1, <1>3, <2>2 DEF Inv, CallersOK
  <2> QED BY <2>1, <2>2 DEF CallersOK
<1>6. HeadersOK'
  <2>1. Subscriber \in Caller
    BY DEF Caller
  <2>2. client'.queue = client.queue
    BY DEF Filed
  <2> QED BY <1>1, <1>3, <2>1, <2>2, HeadersKept
<1> QED BY <1>1, <1>5, <1>6 DEF Inv, TypeInv, Filed

\* A change of the link that no caller notices.
LEMMA LinkKeeps ==
    ASSUME Inv, Quiet(client, client', NoId), OrderOK',
           UNCHANGED <<pc, id, delivered, asked, told>>
    PROVE  Inv'
<1>1. ASSUME NEW d \in Caller, pc[d] \in Waits
      PROVE  WaiterOK(client', id[d], asked) /\ client'.future[id[d]] = client.future[id[d]]
  <2>1. WaiterOK(client, id[d], asked) /\ id[d] # NoId /\ id[d] \in Id
    BY <1>1, WaitersHaveIds DEF Inv, CallersOK
  <2> QED BY <2>1 DEF Quiet, WaiterOK
<1>2. CallersOK'
  BY <1>1 DEF Inv, CallersOK
<1>3. HeadersOK'
  BY <1>1, HeadersKept DEF Quiet, Caller
<1> QED BY <1>2, <1>3 DEF Inv, TypeInv, Quiet

\* Once there is a transport, the tasks other than connect go on without regard to it.
LEMMA OrderKept ==
    ASSUME Inv, pc'[Connect] = pc[Connect], pc[Connect] \notin {"idle", "transport"},
           pc'[KeepAlive] = pc[KeepAlive] \/ pc[KeepAlive] # "off",
           pc'[Subscriber] = pc[Subscriber] \/ pc[Subscriber] # "off"
    PROVE  OrderOK'
BY DEF Inv, OrderOK

\* The tasks are different ones.
LEMMA Distinct ==
    /\ {Connect, KeepAlive, Subscriber} \subseteq Caller
    /\ Connect # KeepAlive /\ Connect # Subscriber /\ KeepAlive # Subscriber
    /\ \A c \in Rpc \cup Pinger \cup Raw :
         c \in Caller /\ c \notin {Connect, KeepAlive, Subscriber}
BY ConnectionAssumption DEF Caller

LEMMA InitOK == Init => Inv
<1> SUFFICES ASSUME Init PROVE Inv
  OBVIOUS
<1>1. ClientOK(client)
  BY ClientAssumption, EmptySeq DEF Init, NewClient, ClientOK, ClientType, Id
<1>2. TypeInv
  BY EmptySeq DEF Init, TypeInv, Place, Waits
<1>3. CallersOK
  BY DEF Init, CallersOK, Waits
<1>4. OrderOK
  BY Distinct DEF Init, OrderOK, NewClient, Waits
<1>5. HeadersOK
  BY Distinct DEF Init, HeadersOK, NewClient
<1> QED BY <1>1, <1>2, <1>3, <1>4, <1>5 DEF Inv

\* The end of an await that leaves the client open.
LEMMA ReturnKeeps ==
    ASSUME Inv, NEW c \in Caller, pc[c] \in Waits, Returns(c),
           pc' \in [Caller -> Place], pc'[c] \notin Waits,
           \A d \in Caller \ {c} : pc'[d] \in Waits <=> pc[d] \in Waits,
           pc'[Subscriber] = pc[Subscriber] \/ {pc[Subscriber], pc'[Subscriber]} \subseteq {"off", "ready"}
             \/ HeadersOK',
           c = Subscriber => HeadersOK',
           OrderOK', UNCHANGED server, delivered' \in Seq(Header),
           delivered' = delivered \/ HeadersOK'
    PROVE  Inv'
<1>1. id[c] \in Id
  BY WaitersHaveIds DEF Inv, CallersOK
<1>2. Quiet(client, client', id[c])
  BY <1>1, TakeQuiet DEF Returns, Inv
<1> QED BY <1>2, StopKeeps DEF Returns, server

LEMMA ConnectStops ==
    ASSUME Inv, ConnectStarts \/ TransportFails \/ ConnectRefused \/ Verified \/ NotVerified
    PROVE  Inv'
<1> USE Distinct
<1>1. Inv /\ client' = client => Quiet(client, client', NoId)
  BY DEF Quiet, Inv
<1>2. CASE ConnectStarts
  <2>1. pc' \in [Caller -> Place] /\ id[Connect] = NoId /\ id' = [id EXCEPT ![Connect] = NoId]
    BY <1>2 DEF ConnectStarts, At, Goes, Inv, TypeInv, CallersOK, Place, Waits
  <2>2. OrderOK'
    BY <1>2 DEF ConnectStarts, At, Goes, Inv, OrderOK, TypeInv, Waits
  <2>3. /\ pc'[Connect] \notin Waits /\ \A d \in Caller \ {Connect} : pc'[d] = pc[d]
        /\ UNCHANGED <<client, delivered, asked, told>>
    BY <1>2 DEF ConnectStarts, Goes, Inv, TypeInv, Waits, server
  <2> QED BY <1>1, <2>1, <2>2, <2>3, StopKeeps DEF Inv, TypeInv
<1>3. CASE TransportFails
  <2>1. pc' \in [Caller -> Place] /\ id[Connect] = NoId /\ id' = [id EXCEPT ![Connect] = NoId]
    BY <1>3 DEF TransportFails, At, Goes, Inv, TypeInv, CallersOK, Place, Waits
  <2>2. OrderOK'
    BY <1>3 DEF TransportFails, At, Goes, Inv, OrderOK, TypeInv, Waits
  <2>3. /\ pc'[Connect] \notin Waits /\ \A d \in Caller \ {Connect} : pc'[d] = pc[d]
        /\ UNCHANGED <<client, delivered, asked, told>>
    BY <1>3 DEF TransportFails, Goes, Inv, TypeInv, Waits, server
  <2> QED BY <1>1, <2>1, <2>2, <2>3, StopKeeps DEF Inv, TypeInv
<1>4. CASE ConnectRefused
  <2>1. pc[Connect] \in Waits /\ id[Connect] \in Id
    BY <1>4, WaitersHaveIds DEF ConnectRefused, At, Inv, CallersOK, Waits
  <2>2. Quiet(client, client', id[Connect])
    <3>1. Quiet(client, Take(client, id[Connect]), id[Connect])
      BY <2>1, TakeQuiet DEF Inv
    <3>2. Quiet(Take(client, id[Connect]), client', NoId)
      BY <1>4, <3>1, CloseQuiet DEF ConnectRefused, Quiet
    <3>3. id[Connect] # NoId
      BY <2>1 DEF Id, NoId
    <3> QED BY <3>1, <3>2, <3>3, QuietTwice
  <2>3. OrderOK'
    BY <1>4 DEF ConnectRefused, At, Goes, Inv, OrderOK, TypeInv, Waits
  <2>4. /\ pc' \in [Caller -> Place] /\ pc'[Connect] \notin Waits
        /\ \A d \in Caller \ {Connect} : pc'[d] = pc[d]
        /\ id' = [id EXCEPT ![Connect] = NoId] /\ UNCHANGED <<delivered, asked, told>>
    BY <1>4 DEF ConnectRefused, Goes, Inv, TypeInv, Waits, Place, server
  <2> QED BY <2>2, <2>3, <2>4, StopKeeps DEF Inv, TypeInv
<1>5. CASE Verified
  <2>1. pc[Connect] \in Waits /\ pc[Subscriber] = "off"
    BY <1>5 DEF Verified, At, Inv, OrderOK, Waits
  <2>2. OrderOK'
    BY <1>5 DEF Verified, At, Inv, OrderOK, TypeInv, Waits
  <2>3. /\ pc' \in [Caller -> Place] /\ pc'[Connect] \notin Waits /\ pc'[Subscriber] = "ready"
        /\ \A d \in Caller \ {Connect, Subscriber} : pc'[d] = pc[d]
    BY <1>5 DEF Verified, Inv, TypeInv, Waits, Place
  <2>4. \A d \in Caller \ {Connect} : pc'[d] \in Waits <=> pc[d] \in Waits
    BY <2>1, <2>3 DEF Waits
  <2>5. Returns(Connect) /\ delivered' = delivered /\ UNCHANGED server
    BY <1>5 DEF Verified
  <2> QED BY <2>1, <2>2, <2>3, <2>4, <2>5, ReturnKeeps DEF Inv, TypeInv
<1>6. CASE NotVerified
  <2>1. pc[Connect] \in Waits
    BY <1>6 DEF NotVerified, At, Waits
  <2>2. OrderOK'
    BY <1>6 DEF NotVerified, At, Goes, Inv, OrderOK, TypeInv, Waits
  <2>3. /\ pc' \in [Caller -> Place] /\ pc'[Connect] \notin Waits
        /\ \A d \in Caller \ {Connect} : pc'[d] = pc[d]
    BY <1>6 DEF NotVerified, Goes, Inv, TypeInv, Waits, Place
  <2>4. Returns(Connect) /\ delivered' = delivered /\ UNCHANGED server
    BY <1>6 DEF NotVerified
  <2> QED BY <2>1, <2>2, <2>3, <2>4, ReturnKeeps DEF Inv, TypeInv
<1> QED BY <1>2, <1>3, <1>4, <1>5, <1>6

\* A caller that sends with what its own await left of the client.
LEMMA SendFrom ==
    ASSUME Inv, NEW c \in Caller, NEW k, Quiet(client, k, id[c]), Filed(k, client'),
           client'.subscribed = k.subscribed \/ HeadersOK',
           Sends(c, client'), k.protocol = client'.protocol,
           pc' \in [Caller -> Place], pc'[c] \in Waits <=> client'.protocol,
           \A d \in Caller \ {c} : pc'[d] \in Waits <=> pc[d] \in Waits,
           pc'[Subscriber] = pc[Subscriber] \/ HeadersOK',
           c = Subscriber => HeadersOK',
           OrderOK', UNCHANGED <<told, delivered>>
    PROVE  Inv'
<1>1. \A d \in Caller \ {c} : pc[d] \in Waits =>
        WaiterOK(k, id[d], asked) /\ k.future[id[d]] = client.future[id[d]]
  BY OthersWait
<1>2. ClientOK(k) /\ k.queue = client.queue /\ k.subscribed = client.subscribed
  BY DEF Quiet
<1>3. /\ id' = [id EXCEPT ![c] = IF client'.protocol THEN client'.nextId ELSE NoId]
      /\ asked' = IF client'.protocol THEN asked \cup {client'.nextId} ELSE asked
  BY DEF Sends
<1> QED BY <1>1, <1>2, <1>3, SendKeeps

LEMMA ConnectSends ==
    ASSUME Inv, TransportUp \/ VersionAnswered \/ UnspentAnswered
    PROVE  Inv'
<1> USE Distinct
<1>1. CASE TransportUp
  <2> DEFINE k == Connected(client)
  <2>1. /\ ClientOK(k) /\ k.nextId = client.nextId /\ k.protocol
        /\ k.queue = client.queue /\ k.subscribed = client.subscribed
    BY ConnectedOK DEF Inv
  <2>2. client' = SendRequest(k) /\ k.nextId < MaxId /\ Sends(Connect, client')
    BY <1>1, <2>1 DEF TransportUp, MaySend, Sends
  <2> HIDE DEF k
  <2>3. Filed(k, client') /\ client'.subscribed = k.subscribed /\ client'.protocol
    BY <2>1, <2>2, SendFiles DEF Filed
  <2>4. \A d \in Caller : pc[d] \notin Waits
    BY <1>1 DEF TransportUp, At, Inv, OrderOK
  <2>5. /\ pc' \in [Caller -> Place] /\ pc'[Connect] \in Waits
        /\ \A d \in Caller \ {Connect} : pc'[d] = pc[d]
    BY <1>1 DEF TransportUp, Goes, Inv, TypeInv, Waits, Place
  <2>6. OrderOK'
    BY <1>1 DEF TransportUp, At, Goes, Inv, OrderOK, TypeInv
  <2>7. UNCHANGED <<delivered, told>>
    BY <1>1 DEF TransportUp
  <2> QED BY <2>1, <2>2, <2>3, <2>4, <2>5, <2>6, <2>7, SendKeeps DEF Sends
<1>2. CASE VersionAnswered
  <2> DEFINE k == Take(client, id[Connect])
  <2>1. pc[Connect] \in Waits /\ id[Connect] \in Id
    BY <1>2, WaitersHaveIds DEF VersionAnswered, At, Inv, CallersOK, Waits
  <2>2. Quiet(client, k, id[Connect]) /\ k.protocol
    BY <1>2, <2>1, TakeQuiet DEF Inv, VersionAnswered
  <2>3. client' = SendRequest(k) /\ k.nextId < MaxId /\ Sends(Connect, client')
    BY <1>2, <2>2 DEF VersionAnswered, MaySend, Sends, Quiet
  <2> HIDE DEF k
  <2>4. Filed(k, client') /\ client'.subscribed = k.subscribed /\ client'.protocol
    BY <2>2, <2>3, SendFiles DEF Filed, Quiet
  <2>5. /\ pc' \in [Caller -> Place] /\ pc'[Connect] \in Waits
        /\ \A d \in Caller \ {Connect} : pc'[d] = pc[d]
    BY <1>2 DEF VersionAnswered, Goes, Inv, TypeInv, Waits, Place
  <2>6. OrderOK'
    BY <1>2 DEF VersionAnswered, At, Goes, Inv, OrderOK, TypeInv
  <2>7. UNCHANGED <<delivered, told>>
    BY <1>2 DEF VersionAnswered
  <2> QED BY <2>2, <2>3, <2>4, <2>5, <2>6, <2>7, SendFrom
<1>3. CASE UnspentAnswered
  <2> DEFINE k == Take(client, id[Connect])
  <2>1. pc[Connect] \in Waits /\ id[Connect] \in Id
    BY <1>3, WaitersHaveIds DEF UnspentAnswered, At, Inv, CallersOK, Waits
  <2>2. Quiet(client, k, id[Connect]) /\ k.protocol = client.protocol
    BY <2>1, TakeQuiet DEF Inv
  <2>3. client' = SendRequest(k) /\ k.nextId < MaxId /\ Sends(Connect, client')
    BY <1>3, <2>2 DEF UnspentAnswered, MaySend, Sends, Quiet
  <2> HIDE DEF k
  <2>4. Filed(k, client') /\ client'.subscribed = k.subscribed /\ client'.protocol = k.protocol
    BY <2>2, <2>3, SendFiles DEF Filed, Quiet
  <2>5. /\ pc' \in [Caller -> Place]
        /\ pc'[Connect] = (IF client.protocol THEN "tx1" ELSE "failed")
        /\ pc'[KeepAlive] = "ready"
        /\ \A d \in Caller \ {Connect, KeepAlive} : pc'[d] = pc[d]
    BY <1>3 DEF UnspentAnswered, Inv, TypeInv, Waits, Place
  <2>6. pc[KeepAlive] = "off"
    BY <1>3 DEF UnspentAnswered, At, Inv, OrderOK
  <2>7. /\ \A d \in Caller \ {Connect} : pc'[d] \in Waits <=> pc[d] \in Waits
        /\ pc'[Connect] \in Waits <=> client'.protocol
    BY <2>2, <2>4, <2>5, <2>6 DEF Waits
  <2>8. OrderOK'
    BY <1>3, <2>5 DEF UnspentAnswered, At, Inv, OrderOK
  <2>9. UNCHANGED <<delivered, told>>
    BY <1>3 DEF UnspentAnswered
  <2> QED BY <2>2, <2>3, <2>4, <2>5, <2>7, <2>8, <2>9, SendFrom
<1> QED BY <1>1, <1>2, <1>3

LEMMA KeepAliveKeeps ==
    ASSUME Inv, KeepAlivePings \/ KeepAliveSleeps \/ KeepAliveRaises \/ KeepAliveEnds
    PROVE  Inv'
<1> USE Distinct
<1>1. /\ pc[KeepAlive] # "off" /\ pc[Connect] \notin {"idle", "transport"}
      /\ UNCHANGED <<delivered, told>>
  BY DEF KeepAlivePings, KeepAliveSleeps, KeepAliveRaises, KeepAliveEnds, At, Inv, OrderOK, server
<1>2. PICK p \in {"waiting", "ready", "over"} : pc' = [pc EXCEPT ![KeepAlive] = p]
  BY DEF KeepAlivePings, KeepAliveSleeps, KeepAliveRaises, KeepAliveEnds, Goes
<1>3. /\ pc' \in [Caller -> Place] /\ pc'[KeepAlive] = p
      /\ \A d \in Caller \ {KeepAlive} : pc'[d] = pc[d]
  BY <1>2 DEF Inv, TypeInv, Place, Waits
<1>4. OrderOK'
  BY <1>1, <1>3, OrderKept
<1>5. CASE KeepAlivePings
  <2>1. pc[KeepAlive] \notin Waits /\ id[KeepAlive] = NoId /\ pc'[KeepAlive] \in Waits
    BY <1>5 DEF KeepAlivePings, At, Goes, Waits, Inv, CallersOK, TypeInv
  <2>2. Quiet(client, client, id[KeepAlive]) /\ client.protocol /\ client.nextId < MaxId
    BY <1>5 DEF Quiet, Inv, KeepAlivePings, MaySend
  <2>3. Sends(KeepAlive, client') /\ client' = SendRequest(client)
    BY <1>5 DEF KeepAlivePings, Sends
  <2>4. Filed(client, client') /\ client'.subscribed = client.subscribed /\ client'.protocol
    BY <2>2, <2>3, SendFiles DEF Filed, Inv
  <2> QED BY <1>1, <1>3, <1>4, <2>1, <2>2, <2>3, <2>4, SendFrom
<1>6. CASE KeepAliveSleeps \/ KeepAliveRaises
  <2>1. /\ pc[KeepAlive] \in Waits /\ Returns(KeepAlive) /\ pc'[KeepAlive] \notin Waits
        /\ UNCHANGED server
    BY <1>6 DEF KeepAliveSleeps, KeepAliveRaises, At, Goes, Waits, Inv, TypeInv
  <2> QED BY <1>1, <1>3, <1>4, <2>1, ReturnKeeps DEF Inv, TypeInv
<1>7. CASE KeepAliveEnds
  <2>1. /\ id' = [id EXCEPT ![KeepAlive] = NoId] /\ Quiet(client, client', id[KeepAlive])
        /\ pc'[KeepAlive] \notin Waits /\ asked' = asked
    BY <1>7 DEF KeepAliveEnds, At, Goes, Waits, Inv, CallersOK, TypeInv, Quiet, server
  <2> QED BY <1>1, <1>3, <1>4, <2>1, StopKeeps DEF Inv, TypeInv
<1> QED BY <1>5, <1>6, <1>7

LEMMA CallKeeps ==
    ASSUME Inv, NEW c \in Rpc \cup Pinger \cup Raw, Call(c) \/ CallAnswered(c) \/ CallTimeout(c)
    PROVE  Inv'
<1> USE Distinct
<1>1. pc[Connect] \notin {"idle", "transport"} /\ UNCHANGED <<delivered, told>>
  BY DEF Call, CallAnswered, CallTimeout, At, Inv, OrderOK, Waits, server
<1>2. PICK p \in {"waiting", "nothing", "answered"} : pc' = [pc EXCEPT ![c] = p]
  BY DEF Call, CallAnswered, CallTimeout, Goes
<1>3. /\ pc' \in [Caller -> Place] /\ pc'[c] = p
      /\ \A d \in Caller \ {c} : pc'[d] = pc[d]
  BY <1>2 DEF Inv, TypeInv, Place, Waits
<1>4. OrderOK'
  BY <1>1, <1>3, OrderKept
<1>5. CASE Call(c)
  <2>1. /\ id[c] = NoId /\ Quiet(client, client, id[c]) /\ client.nextId < MaxId
        /\ client' = SendRequest(client) /\ Sends(c, client')
        /\ pc'[c] = IF client.protocol THEN "waiting" ELSE "nothing"
    BY <1>5 DEF Call, At, Goes, Waits, Inv, CallersOK, TypeInv, Quiet, MaySend, Sends
  <2>2. /\ Filed(client, client') /\ client'.subscribed = client.subscribed
        /\ client'.protocol = client.protocol
    BY <2>1, SendFiles DEF Filed, Inv
  <2>3. pc'[c] \in Waits <=> client'.protocol
    BY <2>1, <2>2 DEF Waits
  <2> QED BY <1>1, <1>3, <1>4, <2>1, <2>2, <2>3, SendFrom
<1>6. CASE CallAnswered(c) \/ CallTimeout(c)
  <2>1. /\ pc[c] \in Waits /\ Returns(c) /\ UNCHANGED server
        /\ pc'[c] \notin Waits
    BY <1>6 DEF CallAnswered, CallTimeout, At, Goes, Waits, Inv, TypeInv
  <2> QED BY <1>1, <1>3, <1>4, <2>1, ReturnKeeps DEF Inv, TypeInv
<1> QED BY <1>5, <1>6
-----------------------------------------------------------------------------
(* The subscriber *)

\* What is at the head of a queue moves to the end of what was delivered.
LEMMA HeadMoves ==
    ASSUME NEW S, NEW s \in Seq(S), NEW q \in Seq(S), q # <<>>
    PROVE  Append(s, Head(q)) \o Tail(q) = s \o q
OBVIOUS

LEMMA AppendMoves ==
    ASSUME NEW S, NEW s \in Seq(S), NEW q \in Seq(S), NEW x \in S
    PROVE  s \o Append(q, x) = Append(s \o q, x)
OBVIOUS

LEMMA SubscriberKeeps ==
    ASSUME Inv, SubscribeSends \/ SubscribeAnswered \/ SubscribeFails \/ PollQueue \/ PollFails
    PROVE  Inv'
<1> USE Distinct
<1>1. /\ pc[Subscriber] # "off" /\ pc[Connect] \notin {"idle", "transport"} /\ told' = told
      /\ client.queue \in Seq(Header)
  BY DEF SubscribeSends, SubscribeAnswered, SubscribeFails, PollQueue, PollFails, At, Inv, OrderOK, server,
         ClientOK, ClientType
<1>2. ASSUME NEW p \in {"waiting", "failed", "polling"}, Goes(Subscriber, p)
      PROVE  /\ pc' \in [Caller -> Place] /\ pc'[Subscriber] = p
             /\ \A d \in Caller \ {Subscriber} : pc'[d] = pc[d]
             /\ OrderOK'
  <2>1. /\ pc' \in [Caller -> Place] /\ pc'[Subscriber] = p
        /\ \A d \in Caller \ {Subscriber} : pc'[d] = pc[d]
    BY <1>2 DEF Goes, Inv, TypeInv, Place, Waits
  <2> QED BY <1>1, <2>1, OrderKept
<1>3. CASE SubscribeSends
  <2>1. /\ id[Subscriber] = NoId /\ Quiet(client, client, id[Subscriber])
        /\ client.nextId < MaxId /\ client' = Subscribe(client) /\ Sends(Subscriber, client')
        /\ Goes(Subscriber, IF client.protocol THEN "waiting" ELSE "failed")
        /\ told = <<>> /\ client.queue = <<>> /\ delivered' = delivered
    BY <1>3 DEF SubscribeSends, At, Waits, Inv, CallersOK, Quiet, MaySend, Sends, HeadersOK
  <2>2. /\ Filed(client, client') /\ client'.subscribed /\ client'.protocol = client.protocol
        /\ client'.queue = <<>>
    BY <2>1, SubscribeFiles DEF Filed, Inv
  <2>3. /\ pc' \in [Caller -> Place] /\ OrderOK'
        /\ pc'[Subscriber] = (IF client.protocol THEN "waiting" ELSE "failed")
        /\ \A d \in Caller \ {Subscriber} : pc'[d] = pc[d]
    BY <1>2, <2>1
  <2>4. client.protocol => client'.future[id'[Subscriber]] = "pending"
    BY <2>1, <2>2 DEF Sends, Filed, Inv, TypeInv
  <2>5. HeadersOK'
    BY <1>1, <2>1, <2>2, <2>3, <2>4 DEF HeadersOK
  <2>6. pc'[Subscriber] \in Waits <=> client'.protocol
    BY <2>2, <2>3 DEF Waits
  <2> QED BY <1>1, <2>1, <2>2, <2>3, <2>5, <2>6, SendFrom
<1>4. CASE SubscribeAnswered \/ SubscribeFails
  <2>1. pc[Subscriber] \in Waits /\ id[Subscriber] \in Id /\ Returns(Subscriber) /\ UNCHANGED server
    BY <1>4, WaitersHaveIds DEF SubscribeAnswered, SubscribeFails, At, Inv, CallersOK, Waits
  <2>2. client'.queue = client.queue /\ client'.subscribed = client.subscribed
    BY <2>1, TakeQuiet DEF Returns, Quiet, Inv
  <2>3. CASE SubscribeAnswered
    <3>1. /\ told # <<>> /\ told = <<Head(told)>> \o client.queue /\ client.subscribed
          /\ delivered' = <<Head(told)>>
      BY <2>3 DEF SubscribeAnswered, At, Answered, Inv, HeadersOK
    <3>2. /\ pc' \in [Caller -> Place] /\ pc'[Subscriber] = "polling" /\ OrderOK'
          /\ \A d \in Caller \ {Subscriber} : pc'[d] = pc[d]
      BY <1>2, <2>3 DEF SubscribeAnswered
    <3>3. HeadersOK'
      BY <1>1, <2>2, <3>1, <3>2 DEF HeadersOK
    <3>4. delivered' \in Seq(Header)
      BY <3>1 DEF Inv, TypeInv
    <3> QED BY <2>1, <3>2, <3>3, <3>4, ReturnKeeps DEF Waits
  <2>4. CASE SubscribeFails
    <3>1. /\ pc' \in [Caller -> Place] /\ pc'[Subscriber] = "failed" /\ OrderOK'
          /\ \A d \in Caller \ {Subscriber} : pc'[d] = pc[d]
      BY <1>2, <2>4 DEF SubscribeFails
    <3>2. HeadersOK'
      BY <3>1 DEF HeadersOK
    <3>3. delivered' \in Seq(Header)
      BY <2>4 DEF SubscribeFails, Inv, TypeInv
    <3> QED BY <2>1, <3>1, <3>2, <3>3, ReturnKeeps DEF Waits
  <2> QED BY <1>4, <2>3, <2>4
<1>5. CASE PollQueue
  <2>1. /\ pc[Subscriber] = "polling" /\ client.queue # <<>> /\ client.subscribed
        /\ client' = [client EXCEPT !.queue = Tail(@)]
        /\ delivered' = Append(delivered, Head(client.queue))
        /\ delivered \o client.queue = told /\ UNCHANGED <<pc, id, asked, told>>
    BY <1>5 DEF PollQueue, At, Inv, HeadersOK, server
  <2>2. Head(client.queue) \in Header /\ Tail(client.queue) \in Seq(Header)
    BY <1>1, <2>1, HeadTailProperties
  <2>3. /\ ClientOK(client') /\ client'.queue = Tail(client.queue) /\ client'.subscribed
        /\ client'.future = client.future /\ client'.nextId = client.nextId
        /\ client'.inflight = client.inflight /\ client'.link = client.link
        /\ client'.protocol = client.protocol
    BY <2>1, <2>2 DEF Inv, ClientOK, ClientType
  <2>4. CallersOK'
    BY <2>1, <2>3 DEF Inv, CallersOK, WaiterOK
  <2>5. delivered' \in Seq(Header)
    BY <2>1, <2>2 DEF Inv, TypeInv
  <2>6. delivered' \o client'.queue = told
    <3>1. delivered \in Seq(Header)
      BY DEF Inv, TypeInv
    <3>2. Append(delivered, Head(client.queue)) \o Tail(client.queue) = delivered \o client.queue
      BY <1>1, <2>1, <3>1, HeadMoves
    <3> QED BY <2>1, <2>3, <3>2
  <2>7. HeadersOK'
    BY <2>1, <2>3, <2>6 DEF HeadersOK
  <2>8. OrderOK'
    BY <2>1, <2>3 DEF Inv, OrderOK
  <2> QED BY <2>1, <2>3, <2>4, <2>5, <2>7, <2>8 DEF Inv, TypeInv
<1>6. CASE PollFails
  <2>1. /\ pc[Subscriber] = "polling" /\ client.queue # <<>>
        /\ client' = [client EXCEPT !.queue = Tail(@)]
        /\ UNCHANGED <<id, delivered, asked, told>>
    BY <1>6 DEF PollFails, At, server
  <2>2. Tail(client.queue) \in Seq(Header)
    BY <1>1, <2>1, HeadTailProperties
  <2>3. /\ ClientOK(client')
        /\ client'.future = client.future /\ client'.nextId = client.nextId
        /\ client'.inflight = client.inflight /\ client'.link = client.link
    BY <2>1, <2>2 DEF Inv, ClientOK, ClientType
  <2>4. /\ pc' \in [Caller -> Place] /\ pc'[Subscriber] = "failed" /\ OrderOK'
        /\ \A d \in Caller \ {Subscriber} : pc'[d] = pc[d]
    BY <1>2, <1>6 DEF PollFails
  <2>5. \A d \in Caller : pc'[d] \in Waits <=> pc[d] \in Waits
    BY <2>1, <2>4 DEF Waits
  <2>6. CallersOK'
    BY <2>1, <2>3, <2>5 DEF Inv, CallersOK, WaiterOK
  <2>7. HeadersOK'
    BY <2>4 DEF HeadersOK
  <2> QED BY <2>1, <2>3, <2>4, <2>6, <2>7 DEF Inv, TypeInv
<1> QED BY <1>3, <1>4, <1>5, <1>6
-----------------------------------------------------------------------------
(* The connection and the server *)

LEMMA CancelKeeps ==
    ASSUME Inv, NEW cl, Quiet(client, cl, NoId), KeepAliveCancelled(cl),
           client.link # "none", UNCHANGED <<delivered, server>>
    PROVE  Inv'
<1> USE Distinct
<1>1. pc[Connect] \notin {"idle", "transport"}
  BY DEF Inv, OrderOK
<1>2. /\ pc' \in [Caller -> Place] /\ pc'[KeepAlive] \notin Waits
      /\ \A d \in Caller \ {KeepAlive} : pc'[d] = pc[d]
      /\ pc'[KeepAlive] = pc[KeepAlive] \/ pc[KeepAlive] # "off"
      /\ id' = [id EXCEPT ![KeepAlive] = NoId]
  BY DEF KeepAliveCancelled, At, Inv, TypeInv, Place, Waits
<1>3. OrderOK'
  BY <1>1, <1>2, OrderKept
<1>4. Quiet(client, client', id[KeepAlive])
  <2>1. CASE pc[KeepAlive] = "waiting"
    <3>1. id[KeepAlive] \in Id /\ id[KeepAlive] # NoId
      BY <2>1, WaitersHaveIds DEF Inv, CallersOK, Waits
    <3>2. Quiet(cl, client', id[KeepAlive])
      BY <2>1, <3>1, TakeQuiet DEF KeepAliveCancelled, At, Quiet
    <3> QED BY <3>1, <3>2, QuietTwice
  <2>2. CASE pc[KeepAlive] # "waiting"
    BY <2>2 DEF KeepAliveCancelled, At, Quiet, Id, NoId
  <2> QED BY <2>1, <2>2
<1> QED BY <1>2, <1>3, <1>4, StopKeeps DEF server, Inv, TypeInv

LEMMA DisconnectKeeps ==
    ASSUME Inv, Disconnect
    PROVE  Inv'
<1>1. client.link # "none" /\ Quiet(client, Close(client), NoId)
  BY CloseQuiet DEF Disconnect, Inv, ClientOK
<1> QED BY <1>1, CancelKeeps DEF Disconnect

LEMMA LostKeeps ==
    ASSUME Inv, Lost
    PROVE  Inv'
<1>1. client.link # "none" /\ Quiet(client, ConnectionLost(client), NoId)
  BY LostQuiet DEF Lost, Inv
<1>2. CASE client.link = "up"
  BY <1>1, <1>2, CancelKeeps DEF Lost
<1>3. CASE client.link # "up"
  <2>1. client' = ConnectionLost(client) /\ UNCHANGED <<pc, id, delivered, asked, told>>
    BY <1>3 DEF Lost, server
  <2>2. pc[Connect] \notin {"idle", "transport"}
    BY <1>1 DEF Inv, OrderOK
  <2>3. OrderOK'
    BY <2>1, <2>2, OrderKept
  <2> QED BY <1>1, <2>1, <2>3, LinkKeeps
<1> QED BY <1>2, <1>3

LEMMA AnswerKeeps ==
    ASSUME Inv, NEW i \in asked, NEW answer \in Results \cup Errors, Answer(i, answer)
    PROVE  Inv'
<1> USE Distinct
<1>1. /\ i \in Id /\ client' = GotResponse(client, i, answer) /\ client.link \in {"up", "closing"}
      /\ asked' = asked \ {i} /\ UNCHANGED <<pc, id, delivered>>
      /\ told' = IF i = id[Subscriber] /\ answer = "right" THEN <<1>> ELSE told
  BY DEF Answer, Inv, TypeInv
<1>2. answer \notin {"pending", "unused"}
  BY DEF Results, Errors
<1>3. /\ ClientOK(client') /\ client'.nextId = client.nextId /\ client'.link = client.link
      /\ client'.protocol = client.protocol
      /\ client'.queue = client.queue /\ client'.subscribed = client.subscribed
      /\ \A j \in Id : j # i =>
           /\ client'.future[j] = client.future[j]
           /\ j \in client'.inflight <=> j \in client.inflight
      /\ i \in client.inflight /\ client.future[i] = "pending" => client'.future[i] = answer
  BY <1>1 DEF GotResponse, Inv, ClientOK, ClientType
<1>4. ASSUME NEW c \in Caller, pc[c] \in Waits
      PROVE  /\ WaiterOK(client, id[c], asked) /\ id[c] \in Id
             /\ id[c] = i => client'.future[i] = answer /\ client.future[i] = "pending"
  <2>1. WaiterOK(client, id[c], asked) /\ id[c] \in Id
    BY <1>4, WaitersHaveIds DEF Inv, CallersOK
  <2> QED BY <1>1, <1>3, <2>1 DEF WaiterOK
<1>5. CallersOK'
  <2>1. ASSUME NEW c \in Caller, pc[c] \in Waits PROVE WaiterOK(client', id[c], asked')
    BY <1>1, <1>2, <1>3, <1>4, <2>1 DEF WaiterOK
  <2> QED BY <1>1, <2>1 DEF Inv, CallersOK
<1>6. HeadersOK'
  <2>1. CASE pc[Subscriber] = "waiting"
    <3>1. id[Subscriber] \in Id /\ client.subscribed /\ client'.subscribed
            /\ (client.future[id[Subscriber]] = "pending" => told = <<>> /\ client.queue = <<>>)
            /\ (client.future[id[Subscriber]] = "right" =>
                  told # <<>> /\ told = <<Head(told)>> \o client.queue)
      BY <1>3, <1>4, <2>1 DEF Inv, HeadersOK, Waits
    <3>2. CASE id[Subscriber] = i
      <4>1. client'.future[i] = answer /\ client.queue = <<>> /\ told = <<>>
        BY <1>4, <2>1, <3>1, <3>2 DEF Waits
      <4>2. <<1>> # <<>> /\ <<1>> = <<Head(<<1>>)>> \o <<>>
        OBVIOUS
      <4> QED BY <1>1, <1>2, <1>3, <2>1, <3>1, <3>2, <4>1, <4>2 DEF HeadersOK
    <3>3. CASE id[Subscriber] # i
      BY <1>1, <1>3, <2>1, <3>1, <3>3 DEF HeadersOK
    <3> QED BY <3>2, <3>3
  <2>2. CASE pc[Subscriber] # "waiting"
    <3>1. pc[Subscriber] \notin Waits => id[Subscriber] = NoId
      BY DEF Inv, CallersOK
    <3>2. pc[Subscriber] \in {"off", "ready", "polling"} => told' = told
      BY <1>1, <3>1 DEF Waits, Id, NoId
    <3> QED BY <1>1, <1>3, <2>2, <3>2 DEF HeadersOK, Inv
  <2> QED BY <2>1, <2>2
<1>7. OrderOK'
  BY <1>1, <1>3 DEF Inv, OrderOK
<1>8. told' \in Seq(Header)
  <2>1. 1 \in Header
    BY ConnectionAssumption DEF Header
  <2> QED BY <1>1, <2>1 DEF Inv, TypeInv
<1> QED BY <1>1, <1>3, <1>5, <1>6, <1>7, <1>8 DEF Inv, TypeInv

LEMMA TrafficKeeps ==
    ASSUME Inv, Traffic
    PROVE  Inv'
<1> DEFINE x == Len(told) + 1
<1>1. /\ told # <<>> /\ told \in Seq(Header) /\ client.queue \in Seq(Header)
      /\ client' = GotTraffic(client, x) /\ told' = Append(told, x)
      /\ UNCHANGED <<pc, id, delivered, asked>> /\ delivered \in Seq(Header)
  BY DEF Traffic, Inv, TypeInv, ClientOK, ClientType
<1>2. x \in Header
  BY <1>1, ConnectionAssumption DEF Traffic, Header
<1> HIDE DEF x
<1>3. Append(client.queue, x) \in Seq(Header) /\ told' \in Seq(Header)
  BY <1>1, <1>2
<1>4. /\ ClientOK(client')
      /\ client'.queue = IF client.subscribed THEN Append(client.queue, x) ELSE client.queue
      /\ client'.subscribed = client.subscribed /\ client'.future = client.future
      /\ client'.nextId = client.nextId /\ client'.inflight = client.inflight
      /\ client'.link = client.link /\ client'.protocol = client.protocol
  BY <1>1, <1>3 DEF GotTraffic, Inv, ClientOK, ClientType
<1>5. CallersOK'
  BY <1>1, <1>4 DEF Inv, CallersOK, WaiterOK
<1>6. HeadersOK'
  <2>1. pc[Subscriber] \notin {"off", "ready"}
    BY <1>1 DEF Inv, HeadersOK
  <2>2. CASE pc[Subscriber] = "waiting"
    <3>1. client.subscribed /\ client.future[id[Subscriber]] # "pending"
      BY <1>1, <2>2 DEF Inv, HeadersOK
    <3>2. ASSUME client.future[id[Subscriber]] = "right"
          PROVE  told' # <<>> /\ told' = <<Head(told')>> \o Append(client.queue, x)
      <4>1. told = <<Head(told)>> \o client.queue /\ Head(told) \in Header
        BY <1>1, <2>2, <3>2, HeadTailProperties DEF Inv, HeadersOK
      <4>2. <<Head(told)>> \in Seq(Header)
        BY <4>1
      <4>3. <<Head(told)>> \o Append(client.queue, x) = Append(<<Head(told)>> \o client.queue, x)
        BY <1>1, <1>2, <4>2, AppendMoves
      <4>4. told' # <<>> /\ Head(told') = Head(told)
        BY <1>1, <1>2
      <4> QED BY <1>1, <4>1, <4>3, <4>4
    <3> QED BY <1>1, <1>4, <2>2, <3>1, <3>2 DEF HeadersOK
  <2>3. CASE pc[Subscriber] = "polling"
    <3>1. client.subscribed /\ delivered \o client.queue = told
      BY <2>3 DEF Inv, HeadersOK
    <3>2. delivered \o Append(client.queue, x) = Append(delivered \o client.queue, x)
      BY <1>1, <1>2, AppendMoves
    <3> QED BY <1>1, <1>4, <2>3, <3>1, <3>2 DEF HeadersOK
  <2>4. CASE pc[Subscriber] \notin {"off", "ready", "waiting", "polling"}
    BY <1>1, <2>4 DEF HeadersOK
  <2> QED BY <2>1, <2>2, <2>3, <2>4
<1>7. OrderOK'
  BY <1>1, <1>4 DEF Inv, OrderOK
<1> QED BY <1>1, <1>3, <1>4, <1>5, <1>6, <1>7 DEF Inv, TypeInv

LEMMA NextKeeps == Inv /\ [Next]_vars => Inv'
<1> SUFFICES ASSUME Inv, [Next]_vars PROVE Inv'
  OBVIOUS
<1>1. CASE Connects
  BY <1>1, ConnectStops, ConnectSends DEF Connects
<1>2. CASE KeepAlivePings \/ KeepAliveSleeps \/ KeepAliveRaises \/ KeepAliveEnds
  BY <1>2, KeepAliveKeeps
<1>3. CASE SubscribeSends \/ SubscribeAnswered \/ SubscribeFails \/ PollQueue \/ PollFails
  BY <1>3, SubscriberKeeps
<1>4. ASSUME NEW c \in Rpc \cup Pinger \cup Raw, Call(c) \/ CallAnswered(c) \/ CallTimeout(c)
      PROVE  Inv'
  BY <1>4, CallKeeps
<1>5. CASE Disconnect
  BY <1>5, DisconnectKeeps
<1>6. CASE Lost
  BY <1>6, LostKeeps
<1>7. CASE Traffic
  BY <1>7, TrafficKeeps
<1>8. ASSUME NEW i \in asked, NEW answer \in Results \cup Errors, Answer(i, answer)
      PROVE  Inv'
  BY <1>8, AnswerKeeps
<1>9. CASE UNCHANGED vars
  BY <1>9 DEF vars, Inv, TypeInv, CallersOK, OrderOK, HeadersOK
<1> QED BY <1>1, <1>2, <1>3, <1>4, <1>5, <1>6, <1>7, <1>8, <1>9 DEF Next

\* The inductive invariant the others follow from.
THEOREM Invariant == Spec => []Inv
BY InitOK, NextKeeps, PTL DEF Spec
-----------------------------------------------------------------------------
\* The type invariant; no two callers ever await the same request, however many
\* were filed, cancelled or lost before.
THEOREM TypeCorrect == Spec => []TypeOK
<1>1. Inv => TypeOK
  <2> SUFFICES ASSUME Inv PROVE TypeOK
    OBVIOUS
  <2>1. /\ client.nextId \in 0..MaxId /\ client.inflight \subseteq 1..client.nextId
        /\ client.link \in {"none", "up", "closing", "down"}
        /\ client.protocol => client.link = "up"
        /\ client.future \in [Id -> {"unused", "pending", "gone"} \cup Results \cup Errors]
        /\ client.queue \in Seq(1..MaxHeaders)
    BY DEF Inv, ClientOK, ClientType, Header
  <2>2. pc \in [Caller -> {"off", "idle", "transport", "version", "unspent", "tx1", "connected",
                           "failed", "ready", "waiting", "over", "polling", "answered", "nothing"}]
    <3>1. Place = {"off", "idle", "transport", "version", "unspent", "tx1", "connected",
                   "failed", "ready", "waiting", "over", "polling", "answered", "nothing"}
      BY DEF Place, Waits
    <3> QED BY <3>1 DEF Inv, TypeInv
  <2>3. \A c, d \in Waiting : c # d => id[c] # id[d]
    BY DEF Inv, CallersOK, Waiting, Waits
  <2> QED BY <2>1, <2>2, <2>3 DEF Inv, TypeInv, TypeOK, Header
<1> QED BY <1>1, Invariant, PTL

\* No answer misses its caller, for any number of requests, timeouts and losses.
THEOREM AnswersReachWaiters == Spec => []WaitersReachable
<1>1. Inv => WaitersReachable
  BY DEF Inv, CallersOK, WaiterOK, WaitersReachable, Waiting, Waits
<1> QED BY <1>1, Invariant, PTL

\* A connection that polls has given its observers every header of the
\* subscription, once and in order, or has it in the queue.
THEOREM HeadersDelivered == Spec => []NothingMissed
<1>1. Inv => NothingMissed
  BY DEF Inv, HeadersOK, NothingMissed, At
<1> QED BY <1>1, Invariant, PTL
=============================================================================
