-------------------------- MODULE ElectrodPoolProofs --------------------------
(***************************************************************************)
(* The safety of the pool of Electrum connections for any numbers of       *)
(* servers, slots, required connections, calls and faults.  TypeOK is      *)
(* inductive, with the shape of a connection that is not closed.           *)
(***************************************************************************)
EXTENDS ElectrodPool, TLAPS

OpenConnection ==
    [phase : {"transport", "handshake", "open"},
     errors : Nat, scheduled : Nat, due : Nat, pinging : Nat]

ConnOK(s) ==
    /\ conn[s] \in {Closed} \cup OpenConnection
    /\ In(s, {"transport"}) => /\ conn[s] = NewConnection
                               /\ \A c \in Caller : asks[c] # s

Inv ==
    /\ loop \in {"running", "dead"} /\ notified \in BOOLEAN
    /\ DOMAIN conn = Slot /\ \A s \in Slot : ConnOK(s)
    /\ faults \in 0..MaxFaults
    /\ asks \in [Caller -> Slot \cup {NoSlot}]
-----------------------------------------------------------------------------
\* A connection with a protocol has its counters, and they may be counted on.
LEMMA ConnectedType ==
    ASSUME Inv, NEW s \in Connected
    PROVE  s \in Slot /\ conn[s] \in OpenConnection /\ conn[s].phase \in {"handshake", "open"}
BY DEF Connected, In, Inv, ConnOK, Closed

\* Counters and phases that replace those of a connection leave it one.
LEMMA Recounted ==
    ASSUME NEW k \in OpenConnection, NEW i \in Nat, NEW j \in Nat, NEW l \in Nat
    PROVE  /\ [k EXCEPT !.scheduled = i, !.errors = j, !.due = l] \in OpenConnection
           /\ [k EXCEPT !.scheduled = i, !.errors = j, !.due = l].phase = k.phase
           /\ [k EXCEPT !.due = i] \in OpenConnection /\ [k EXCEPT !.due = i].phase = k.phase
           /\ [k EXCEPT !.phase = "open", !.errors = i, !.scheduled = j] \in OpenConnection
           /\ [k EXCEPT !.phase = "open", !.errors = i, !.scheduled = j].phase = "open"
BY DEF OpenConnection

\* An error that is handled ends the connection, or starts a ping.
LEMMA Handled ==
    ASSUME NEW k \in OpenConnection, k.phase # "transport"
    PROVE  /\ PeerErrorHandled(k) \in {Closed} \cup OpenConnection
           /\ PeerErrorHandled(k).phase # "transport"
<1>1. /\ [k EXCEPT !.pinging = @ + 1] \in OpenConnection
      /\ [k EXCEPT !.pinging = @ + 1].phase = k.phase
  BY DEF OpenConnection
<1>2. Closed.phase # "transport"
  BY DEF Closed
<1> QED BY <1>1, <1>2 DEF PeerErrorHandled

\* A step that gives one connection with a protocol, or one that gets it, another
\* state past the transport, or ends it.
LEMMA OneConnection ==
    ASSUME Inv, NEW s \in Slot, NEW k \in {Closed} \cup OpenConnection, k.phase # "transport",
           conn' = [conn EXCEPT ![s] = k], faults' \in 0..MaxFaults, UNCHANGED <<loop, notified, asks>>
    PROVE  Inv'
<1>1. ASSUME NEW t \in Slot
      PROVE  ConnOK(t)'
  <2>1. CASE t = s
    BY <2>1 DEF Inv, ConnOK, In
  <2>2. CASE t # s
    BY <2>2 DEF Inv, ConnOK, In
  <2> QED BY <2>1, <2>2
<1> QED BY <1>1 DEF Inv

LEMMA FaultsBounded ==
    ASSUME Inv
    PROVE  /\ (MayFail /\ Fails) => faults' \in 0..MaxFaults
           /\ UNCHANGED faults => faults' \in 0..MaxFaults
BY PoolAssumption DEF Inv, MayFail, Fails

LEMMA ClosesKeeps ==
    ASSUME Inv, NEW s \in Slot, Closes(s), faults' \in 0..MaxFaults, UNCHANGED <<loop, notified, asks>>
    PROVE  Inv'
BY OneConnection DEF Closes, Closed

LEMMA ConnectKeeps ==
    ASSUME Inv, LoopConnects
    PROVE  Inv'
<1> DEFINE howmany == Min({missings, Peers, Cardinality(Unused)})
           slots == {s \in Unused : Cardinality({t \in Unused : t < s}) < howmany}
<1>1. conn' = [s \in Slot |-> IF s \in slots THEN NewConnection ELSE conn[s]]
  BY DEF LoopConnects
<1>2. \A s \in slots : s \in Slot /\ \A c \in Caller : asks[c] # s
  BY DEF Unused
<1>3. NewConnection \in OpenConnection
  BY DEF NewConnection, OpenConnection
<1>4. UNCHANGED <<loop, notified, asks, faults>>
  BY DEF LoopConnects
<1> HIDE DEF slots
<1>5. ASSUME NEW s \in Slot
      PROVE  ConnOK(s)'
  <2>1. CASE s \in slots
    BY <1>1, <1>2, <1>3, <1>4, <2>1 DEF ConnOK
  <2>2. CASE s \notin slots
    BY <1>1, <1>4, <2>2 DEF Inv, ConnOK, In
  <2> QED BY <2>1, <2>2
<1> QED BY <1>1, <1>4, <1>5 DEF Inv

LEMMA TrimKeeps ==
    ASSUME Inv, LoopTrims
    PROVE  Inv'
<1>1. CASE loop' = "dead" /\ UNCHANGED <<conn, notified, asks, faults>>
  BY <1>1 DEF Inv, ConnOK, In
<1>2. CASE (\E s \in Pickable : Closes(s)) /\ UNCHANGED <<loop, notified, asks, faults>>
  <2>1. PICK s \in Pickable : Closes(s)
    BY <1>2
  <2>2. s \in Slot
    BY DEF Pickable, Established, Connected
  <2> QED BY <1>2, <2>1, <2>2, ClosesKeeps, FaultsBounded
<1> QED BY <1>1, <1>2 DEF LoopTrims

LEMMA HandshakeKeeps ==
    ASSUME Inv, NEW s \in Slot, TransportUp(s) \/ ConnectEnds(s)
    PROVE  Inv'
<1>1. conn[s] \in OpenConnection
  BY DEF Inv, ConnOK, TransportUp, ConnectEnds, In, Closed
<1>2. CASE TransportUp(s)
  <2> DEFINE k == [conn[s] EXCEPT !.phase = "handshake"]
  <2>1. k \in OpenConnection /\ k.phase # "transport"
    BY <1>1 DEF OpenConnection
  <2> QED BY <1>2, <2>1, OneConnection, FaultsBounded DEF TransportUp
<1>3. CASE ConnectEnds(s)
  <2>1. faults' \in 0..MaxFaults /\ UNCHANGED <<loop, notified, asks>>
    BY <1>3, FaultsBounded DEF ConnectEnds
  <2>2. PICK k \in {[conn[s] EXCEPT !.phase = "open"],
                    [conn[s] EXCEPT !.phase = "open", !.errors = 2],
                    [conn[s] EXCEPT !.phase = "open", !.errors = 2, !.scheduled = 1]} :
           conn' = [conn EXCEPT ![s] = k]
    BY <1>3 DEF ConnectEnds, Inv
  <2>3. [conn[s] EXCEPT !.phase = "open", !.errors = 2, !.scheduled = 1] \in OpenConnection
    BY <1>1, Recounted
  <2>4. k \in OpenConnection /\ k.phase # "transport"
    BY <1>1, <2>3 DEF OpenConnection
  <2> QED BY <2>1, <2>2, <2>4, OneConnection
<1> QED BY <1>2, <1>3

\* What changes the counters of one connection, or ends it.
LEMMA ErrorKeeps ==
    ASSUME Inv, NEW s \in Slot,
           OnError(s) \/ HandlePeerError(s) \/ PingAnswered(s) \/ PingTimeout(s) \/ ErrorExpires(s)
    PROVE  Inv'
<1>1. /\ s \in Connected
      /\ UNCHANGED <<loop, notified, asks, faults>> /\ faults' \in 0..MaxFaults
  BY FaultsBounded DEF OnError, HandlePeerError, PingAnswered, PingTimeout, ErrorExpires
<1>2. conn[s] \in OpenConnection /\ conn[s].phase \in {"handshake", "open"}
  BY <1>1, ConnectedType
<1>3. CASE Closes(s)
  BY <1>1, <1>3, ClosesKeeps
<1>4. CASE OnError(s)
  <2> DEFINE i == conn[s].scheduled - 1
             j == conn[s].errors + 1
             l == conn[s].due + 1
             k == [conn[s] EXCEPT !.scheduled = i, !.errors = j, !.due = l]
  <2>1. k \in OpenConnection /\ k.phase # "transport"
    <3>1. i \in Nat /\ j \in Nat /\ l \in Nat
      BY <1>2, <1>4 DEF OpenConnection, OnError
    <3> HIDE DEF i, j, l
    <3> QED BY <1>2, <3>1 DEF OpenConnection
  <2>2. conn' = [conn EXCEPT ![s] = k]
    BY <1>4 DEF OnError, Inv
  <2> QED BY <1>1, <2>1, <2>2, OneConnection
<1>5. CASE HandlePeerError(s)
  <2> DEFINE k == [conn[s] EXCEPT !.due = @ - 1]
  <2>1. k \in OpenConnection /\ k.phase # "transport"
    <3>1. conn[s].due - 1 \in Nat
      BY <1>2, <1>5 DEF OpenConnection, HandlePeerError
    <3> QED BY <1>2, <3>1, Recounted
  <2>2. conn' = [conn EXCEPT ![s] = PeerErrorHandled(k)]
    BY <1>5 DEF HandlePeerError, Inv
  <2> HIDE DEF k
  <2> QED BY <1>1, <2>1, <2>2, Handled, OneConnection
<1>6. CASE PingAnswered(s)
  <2> DEFINE k == [conn[s] EXCEPT !.pinging = @ - 1]
  <2>1. k \in OpenConnection /\ k.phase # "transport"
    BY <1>2, <1>6 DEF OpenConnection, PingAnswered
  <2> QED BY <1>1, <1>6, <2>1, OneConnection DEF PingAnswered
<1>7. CASE ErrorExpires(s)
  <2> DEFINE k == [conn[s] EXCEPT !.errors = @ - 1]
  <2>1. k \in OpenConnection /\ k.phase # "transport"
    BY <1>2, <1>7 DEF OpenConnection, ErrorExpires
  <2> QED BY <1>1, <1>7, <2>1, OneConnection DEF ErrorExpires
<1>8. PingTimeout(s) => Closes(s)
  BY DEF PingTimeout
<1> QED BY <1>3, <1>4, <1>5, <1>6, <1>7, <1>8

\* A call, which asks only a connection that is past the transport.
LEMMA StartKeeps ==
    ASSUME Inv, NEW c \in Caller, CallStarts(c)
    PROVE  Inv'
<1>1. PICK s \in Pickable : asks' = [asks EXCEPT ![c] = s]
  BY DEF CallStarts
<1>2. s \in Slot /\ ~In(s, {"transport"})
  BY ConnectedType DEF Pickable, Established, In
<1>3. asks' \in [Caller -> Slot \cup {NoSlot}] /\ UNCHANGED <<loop, notified, conn, faults>>
  BY <1>1, <1>2 DEF Inv, CallStarts
<1>4. ASSUME NEW t \in Slot
      PROVE  ConnOK(t)'
  <2>1. In(t, {"transport"}) => \A d \in Caller : asks'[d] # t
    BY <1>1, <1>2 DEF Inv, ConnOK
  <2> QED BY <1>3, <2>1 DEF Inv, ConnOK, In
<1> QED BY <1>3, <1>4 DEF Inv

\* The end of a call, by itself.
LEMMA EndKeeps ==
    ASSUME Inv, NEW c \in Caller, asks' = [asks EXCEPT ![c] = NoSlot],
           UNCHANGED <<loop, notified, conn, faults>>
    PROVE  Inv'
<1>1. asks' \in [Caller -> Slot \cup {NoSlot}]
  BY DEF Inv
<1>2. \A s \in Slot : (\A d \in Caller : asks[d] # s) => \A d \in Caller : asks'[d] # s
  BY PoolAssumption DEF Inv
<1>3. \A s \in Slot : ConnOK(s)'
  BY <1>2 DEF Inv, ConnOK, In
<1> QED BY <1>1, <1>3 DEF Inv

\* A call that charges the connection it asked.
LEMMA ChargeKeeps ==
    ASSUME Inv, NEW c \in Caller, CallRefuses(c) \/ CallMisses(c)
    PROVE  Inv'
<1> DEFINE s == asks[c]
<1>1. /\ s \in Connected /\ faults' \in 0..MaxFaults
      /\ asks' = [asks EXCEPT ![c] = NoSlot] /\ UNCHANGED <<loop, notified>>
  BY FaultsBounded DEF CallRefuses, CallMisses
<1>2. s \in Slot /\ conn[s] \in OpenConnection /\ conn[s].phase \in {"handshake", "open"}
  BY <1>1, ConnectedType
<1>3. PICK k \in {conn[s], [conn[s] EXCEPT !.scheduled = @ + 1]} :
         conn' = [conn EXCEPT ![s] = PeerErrorHandled(k)]
  BY DEF CallRefuses, CallMisses, Inv
<1>4. k \in OpenConnection /\ k.phase # "transport"
  <2>1. /\ [conn[s] EXCEPT !.scheduled = @ + 1] \in OpenConnection
        /\ [conn[s] EXCEPT !.scheduled = @ + 1].phase = conn[s].phase
    BY <1>2 DEF OpenConnection
  <2> QED BY <1>2, <1>3, <2>1
<1>5. /\ PeerErrorHandled(k) \in {Closed} \cup OpenConnection
      /\ PeerErrorHandled(k).phase # "transport"
  BY <1>4, Handled
<1> HIDE DEF s
<1>6. asks' \in [Caller -> Slot \cup {NoSlot}]
  BY <1>1 DEF Inv
<1>7. \A t \in Slot : (\A d \in Caller : asks[d] # t) => \A d \in Caller : asks'[d] # t
  BY <1>1, PoolAssumption DEF Inv
<1>8. ASSUME NEW t \in Slot
      PROVE  ConnOK(t)'
  <2>1. CASE t = s
    BY <1>2, <1>3, <1>5, <2>1 DEF Inv, ConnOK, In
  <2>2. CASE t # s
    BY <1>2, <1>3, <1>7, <2>2 DEF Inv, ConnOK, In
  <2> QED BY <2>1, <2>2
<1>9. DOMAIN conn' = Slot
  BY <1>3 DEF Inv
<1> QED BY <1>1, <1>6, <1>8, <1>9 DEF Inv

LEMMA InvInit ==
    ASSUME Init
    PROVE  Inv
<1>1. \A s \in Slot : conn[s] = Closed /\ ~In(s, {"transport"})
  BY DEF Init, In, Closed
<1>2. asks \in [Caller -> Slot \cup {NoSlot}]
  BY DEF Init
<1>3. \A s \in Slot : ConnOK(s)
  BY <1>1 DEF ConnOK
<1>4. loop = "running" /\ notified = FALSE /\ DOMAIN conn = Slot /\ faults \in 0..MaxFaults
  BY PoolAssumption DEF Init
<1> QED BY <1>2, <1>3, <1>4 DEF Inv

LEMMA InvNext ==
    ASSUME Inv, [Next]_vars
    PROVE  Inv'
<1>1. CASE LoopConnects \/ LoopTrims
  BY <1>1, ConnectKeeps, TrimKeeps
<1>2. CASE LoopNotifies
  BY <1>2 DEF LoopNotifies, Inv, ConnOK, In
<1>3. CASE \E s \in Slot : TransportUp(s) \/ ConnectEnds(s)
  BY <1>3, HandshakeKeeps
<1>4. CASE \E s \in Slot : \/ OnError(s) \/ HandlePeerError(s) \/ PingAnswered(s)
                           \/ PingTimeout(s) \/ ErrorExpires(s)
  BY <1>4, ErrorKeeps
<1>5. CASE \E s \in Slot : ConnectFails(s) \/ Drops(s)
  BY <1>5, ClosesKeeps, FaultsBounded DEF ConnectFails, Drops
<1>6. CASE \E c \in Caller : CallStarts(c)
  BY <1>6, StartKeeps
<1>7. CASE \E c \in Caller : CallReturns(c)
  BY <1>7, EndKeeps DEF CallReturns
<1>8. CASE \E c \in Caller : CallRefuses(c) \/ CallMisses(c)
  BY <1>8, ChargeKeeps
<1>9. CASE UNCHANGED vars
  BY <1>9 DEF vars, Inv, ConnOK, In
<1> QED BY <1>1, <1>2, <1>3, <1>4, <1>5, <1>6, <1>7, <1>8, <1>9 DEF Next
-----------------------------------------------------------------------------
(* The theorems *)

\* The inductive invariant.
THEOREM Invariant == Spec => []Inv
<1>1. Init => Inv
  BY InvInit
<1>2. Inv /\ [Next]_vars => Inv'
  BY InvNext
<1> QED BY <1>1, <1>2, PTL DEF Spec

\* Every connection has its counters, none below zero, and none that is being
\* made has been asked for anything.
THEOREM TypeCorrect == Spec => []TypeOK
<1>1. Inv => TypeOK
  <2> SUFFICES ASSUME Inv PROVE TypeOK
    OBVIOUS
  <2>1. ASSUME NEW s \in Slot, conn[s] # Closed
        PROVE  /\ In(s, {"transport", "handshake", "open"})
               /\ conn[s].errors \in Nat /\ conn[s].scheduled \in Nat
               /\ conn[s].due \in Nat /\ conn[s].pinging \in Nat
    <3>1. conn[s] \in OpenConnection
      BY <2>1 DEF Inv, ConnOK
    <3> QED BY <3>1 DEF OpenConnection, In
  <2> QED BY <2>1 DEF Inv, TypeOK, ConnOK
<1> QED BY <1>1, Invariant, PTL
=============================================================================
