------------------------ MODULE SprunedVOServiceProofs ------------------------
(***************************************************************************)
(* The safety of the service's calls for any number of calls and servers,  *)
(* any consensus and any bounds on retries.                                *)
(*                                                                         *)
(* The invariant is the type, with the shape of each call's record, and    *)
(* that no call is at the point where a collect left too few rates.  The   *)
(* latter needs no more of the past than that: what collect accepts at the *)
(* step in which it returns is a part of what get_rates finds at that same *)
(* step (CollectsSuffices), and an await lies before the step, not in it.  *)
(***************************************************************************)
EXTENDS SprunedVOService, FiniteSetTheorems, TLAPS

\* A collect that awaits a server's answer.
Asking(k) ==
    /\ k = [op |-> k.op, host |-> k.host, todo |-> k.todo]
    /\ k.op \in {"estimate", "bootstrap"}

ClientCall ==
    [op : {"idle", "proof", "send"}]
    \cup [op : {"block"}, retries : 0..BlockRetries + 1, rounds : -1..RoundRetries + 1]
    \cup [op : {"pause"}, rounds : 1..RoundRetries + 1]
    \cup [op : {"tx", "out"}, retries : 0..TxRetries + 1]
    \cup [op : {"unspent"}, retries : 0..UnspentRetries + 1]

ClientOK(k) == k \in ClientCall \/ (Asking(k) /\ k.op = "estimate")

BootstrapOK(k) ==
    k \in [op : {"idle", "sleep", "dead"}] \/ (Asking(k) /\ k.op = "bootstrap")

Inv ==
    /\ sent \in BOOLEAN /\ data \in [Host -> Measurement]
    /\ DOMAIN call = Task
    /\ \A c \in Client : ClientOK(call[c])
    /\ BootstrapOK(call[Bootstrap])
-----------------------------------------------------------------------------
(* The collector *)

\* What collect counts, get_rates finds: a set that is not smaller.
LEMMA ValidIsMeasured ==
    ASSUME NEW measurements \in [Host -> Measurement]
    PROVE  /\ Cardinality(Valid(measurements)) \in Nat
           /\ Cardinality(Measured(measurements)) \in Nat
           /\ Cardinality(Valid(measurements)) <= Cardinality(Measured(measurements))
<1>1. /\ Valid(measurements) \subseteq Measured(measurements)
      /\ Measured(measurements) \subseteq Host
  BY DEF Valid, Measured
<1>2. IsFiniteSet(Measured(measurements))
  BY <1>1, FS_Subset, ServiceAssumption
<1>3. IsFiniteSet(Valid(measurements))
  BY <1>1, <1>2, FS_Subset
<1> QED BY <1>1, <1>2, <1>3, FS_Subset, FS_CardinalityType

LEMMA ConsensusType == Consensus \in Nat
<1>1. Cardinality(Host) \in Nat
  BY ServiceAssumption, FS_CardinalityType
<1> QED BY <1>1, ServiceAssumption, SMT

\* A client's collect ends its call, or asks a server: there is always a consensus
\* among the rates when it returns.
LEMMA CollectsSuffices ==
    ASSUME NEW t \in Task, NEW todo, NEW measurements \in [Host -> Measurement], NEW op,
           op = IF t = Bootstrap THEN "bootstrap" ELSE "estimate"
    PROVE  LET k == Collects(t, op, todo, measurements)
           IN IF t = Bootstrap THEN BootstrapOK(k) ELSE ClientOK(k)
<1> DEFINE ask == todo \ Valid(measurements)
           asking == [op |-> op, host |-> Min(ask), todo |-> {h \in todo : h > Min(ask)}]
<1>1. Asking(asking) /\ asking.op = op
  <2> HIDE DEF ask
  <2>1. op \in {"estimate", "bootstrap"}
    OBVIOUS
  <2> QED BY <2>1 DEF Asking
<1>2. CASE Raises(measurements)
  BY <1>2 DEF Collects, NotCollected, Idle, BootstrapOK, ClientOK, ClientCall
<1>3. CASE ~Raises(measurements) /\ Cardinality(Valid(measurements)) >= Consensus
  <2>1. Cardinality(Measured(measurements)) >= Consensus
    BY <1>3, ValidIsMeasured, ConsensusType
  <2> QED BY <1>3, <2>1 DEF Collects, Collected, Idle, BootstrapOK, ClientOK, ClientCall
<1>4. CASE ~Raises(measurements) /\ ~(Cardinality(Valid(measurements)) >= Consensus) /\ ask = {}
  BY <1>4 DEF Collects, NotCollected, Idle, BootstrapOK, ClientOK, ClientCall
<1>5. CASE ~Raises(measurements) /\ ~(Cardinality(Valid(measurements)) >= Consensus) /\ ask # {}
  <2>1. Collects(t, op, todo, measurements) = asking
    BY <1>5 DEF Collects
  <2> QED BY <1>1, <2>1 DEF BootstrapOK, ClientOK
<1> QED BY <1>2, <1>3, <1>4, <1>5

\* estimatefee with rates enough, too few servers, or a collect; the same of the
\* bootstrap.
LEMMA EstimateSuffices ==
    ASSUME Inv, NEW t \in Task, NEW op,
           op = IF t = Bootstrap THEN "bootstrap" ELSE "estimate",
           EstimateStarts(t, op)
    PROVE  Inv'
<1>1. PICK established \in SUBSET Host : Continues(t,
         IF Raises(data) THEN NotCollected(t)
         ELSE IF Cardinality(Measured(data)) >= Consensus THEN Collected(t, data)
         ELSE IF Consensus > Cardinality(established) THEN NotCollected(t)
         ELSE Collects(t, op, established, data))
  BY DEF EstimateStarts
<1> DEFINE k == IF Raises(data) THEN NotCollected(t)
                ELSE IF Cardinality(Measured(data)) >= Consensus THEN Collected(t, data)
                ELSE IF Consensus > Cardinality(established) THEN NotCollected(t)
                ELSE Collects(t, op, established, data)
<1>2. LET j == Collects(t, op, established, data)
      IN IF t = Bootstrap THEN BootstrapOK(j) ELSE ClientOK(j)
  BY CollectsSuffices DEF Inv
<1>3. IF t = Bootstrap THEN BootstrapOK(k) ELSE ClientOK(k)
  BY <1>2 DEF NotCollected, Collected, Idle, BootstrapOK, ClientOK, ClientCall
<1>4. call' = [call EXCEPT ![t] = k] /\ sent' = sent /\ data' = data
  BY <1>1 DEF Continues, EstimateStarts
<1> HIDE DEF k
<1> QED BY <1>3, <1>4, ServiceAssumption DEF Inv, Task
-----------------------------------------------------------------------------
(* The steps *)

\* A step of a client's call alone.
LEMMA ClientKeeps ==
    ASSUME Inv, NEW c \in Client, NEW k, ClientOK(k), Continues(c, k),
           UNCHANGED data, sent' \in BOOLEAN
    PROVE  Inv'
<1>1. c # Bootstrap /\ call' = [call EXCEPT ![c] = k]
  BY ServiceAssumption DEF Continues
<1> QED BY <1>1 DEF Inv, Task

LEMMA EndKeeps ==
    ASSUME Inv, NEW c \in Client, Ends(c), UNCHANGED data, sent' \in BOOLEAN
    PROVE  Inv'
<1>1. ClientOK(Idle) /\ Continues(c, Idle)
  BY DEF ClientOK, ClientCall, Idle, Ends, Continues
<1> QED BY <1>1, ClientKeeps

\* Only clients' calls have these operations.
LEMMA OpsOfClients ==
    ASSUME Inv, NEW t \in Task,
           call[t].op \in {"block", "pause", "tx", "out", "proof", "unspent", "send"}
    PROVE  t \in Client /\ call[t] \in ClientCall
<1>1. t # Bootstrap
  BY DEF Inv, BootstrapOK, Asking
<1>2. ClientOK(call[t])
  BY <1>1 DEF Inv, Task
<1> QED BY <1>1, <1>2 DEF Task, ClientOK, Asking

\* A server's answer, a failure of it, or none, while a collect awaits it.
LEMMA AnswerKeeps ==
    ASSUME Inv, NEW t \in Task, ServerAnswers(t)
    PROVE  Inv'
<1>1. PICK m \in {"fresh", "nothing", data[call[t].host]} :
         /\ data' = [data EXCEPT ![call[t].host] = m]
         /\ Continues(t, Collects(t, call[t].op, call[t].todo, data'))
  BY DEF ServerAnswers
<1>2. data' \in [Host -> Measurement]
  <2>1. data \in [Host -> Measurement]
    BY DEF Inv
  <2>2. call[t].host \in Host => m \in Measurement
    BY <2>1 DEF Measurement
  <2> QED BY <1>1, <2>1, <2>2
<1>3. call[t].op = IF t = Bootstrap THEN "bootstrap" ELSE "estimate"
  <2>1. call[t].op \in {"estimate", "bootstrap"}
    BY DEF ServerAnswers, Awaits
  <2>2. CASE t = Bootstrap
    BY <2>1, <2>2 DEF Inv, BootstrapOK
  <2>3. CASE t \in Client
    BY <2>1, <2>3, ServiceAssumption DEF Inv, ClientOK, ClientCall
  <2> QED BY <2>2, <2>3 DEF Task
<1> DEFINE k == Collects(t, call[t].op, call[t].todo, data')
<1>4. IF t = Bootstrap THEN BootstrapOK(k) ELSE ClientOK(k)
  BY <1>2, <1>3, CollectsSuffices
<1>5. call' = [call EXCEPT ![t] = k] /\ sent' = sent
  BY <1>1 DEF Continues, ServerAnswers
<1> HIDE DEF k
<1> QED BY <1>2, <1>4, <1>5, ServiceAssumption DEF Inv, Task

\* What a failed attempt leaves: one more retry, within its bound.
LEMMA AgainKeeps ==
    ASSUME Inv, NEW c \in Client, Again(c), UNCHANGED <<sent, data>>,
           \/ call[c].op = "block" /\ ~(call[c].retries > BlockRetries)
           \/ call[c].op \in {"tx", "out"} /\ ~(call[c].retries > TxRetries)
           \/ call[c].op = "unspent" /\ ~(call[c].retries > UnspentRetries)
    PROVE  Inv'
<1> DEFINE k == [call[c] EXCEPT !.retries = @ + 1]
<1>1. {BlockRetries, TxRetries, UnspentRetries} \subseteq Nat
  BY ServiceAssumption
<1>2. call[c] \in ClientCall
  BY OpsOfClients DEF Task
<1>3. k \in ClientCall
  <2>1. CASE call[c].op = "block" /\ ~(call[c].retries > BlockRetries)
    <3>1. call[c] \in [op : {"block"}, retries : 0..BlockRetries + 1, rounds : -1..RoundRetries + 1]
      BY <1>2, <2>1 DEF ClientCall
    <3>2. call[c].retries + 1 \in 0..BlockRetries + 1
      BY <1>1, <2>1, <3>1
    <3> QED BY <3>1, <3>2 DEF ClientCall
  <2>2. CASE call[c].op \in {"tx", "out"} /\ ~(call[c].retries > TxRetries)
    <3>1. call[c] \in [op : {"tx", "out"}, retries : 0..TxRetries + 1]
      BY <1>2, <2>2 DEF ClientCall
    <3>2. call[c].retries + 1 \in 0..TxRetries + 1
      BY <1>1, <2>2, <3>1
    <3> QED BY <3>1, <3>2 DEF ClientCall
  <2>3. CASE call[c].op = "unspent" /\ ~(call[c].retries > UnspentRetries)
    <3>1. call[c] \in [op : {"unspent"}, retries : 0..UnspentRetries + 1]
      BY <1>2, <2>3 DEF ClientCall
    <3>2. call[c].retries + 1 \in 0..UnspentRetries + 1
      BY <1>1, <2>3, <3>1
    <3> QED BY <3>1, <3>2 DEF ClientCall
  <2> QED BY <2>1, <2>2, <2>3
<1>4. ClientOK(k) /\ Continues(c, k)
  BY <1>3 DEF ClientOK, Again
<1>5. sent' \in BOOLEAN
  BY DEF Inv
<1> HIDE DEF k
<1> QED BY <1>4, <1>5, ClientKeeps

\* Starts, and answers that another request follows.
LEMMA ContinueKeeps ==
    ASSUME Inv, NEW c \in Client, NEW k \in ClientCall, Continues(c, k), UNCHANGED <<sent, data>>
    PROVE  Inv'
BY ClientKeeps DEF ClientOK, Inv

LEMMA StartKeeps ==
    ASSUME Inv, NEW c \in Client, BlockStarts(c) \/ TxStarts(c) \/ SendStarts(c)
    PROVE  Inv'
<1>1. {BlockRetries, RoundRetries, TxRetries} \subseteq Nat
  BY ServiceAssumption
<1>2. CASE BlockStarts(c)
  <2>1. PICK rounds \in {-1, 0} : Continues(c, [op |-> "block", retries |-> 0, rounds |-> rounds])
    BY <1>2 DEF BlockStarts
  <2>2. [op |-> "block", retries |-> 0, rounds |-> rounds] \in ClientCall
    BY <1>1 DEF ClientCall
  <2> QED BY <1>2, <2>1, <2>2, ContinueKeeps DEF BlockStarts
<1>3. CASE TxStarts(c)
  <2>1. PICK op \in {"tx", "out"} : Continues(c, [op |-> op, retries |-> 0])
    BY <1>3 DEF TxStarts
  <2>2. [op |-> op, retries |-> 0] \in ClientCall
    BY <1>1 DEF ClientCall
  <2> QED BY <1>3, <2>1, <2>2, ContinueKeeps DEF TxStarts
<1>4. CASE SendStarts(c)
  <2>1. [op |-> "send"] \in ClientCall
    BY DEF ClientCall
  <2> QED BY <1>4, <2>1, ContinueKeeps DEF SendStarts
<1> QED BY <1>2, <1>3, <1>4

\* No peers: processblock has one round more, within its bound, or gives up.
LEMMA NoPeersKeeps ==
    ASSUME Inv, NEW c \in Client, BlockNoPeers(c)
    PROVE  Inv'
<1>1. RoundRetries \in Nat /\ sent \in BOOLEAN
  BY ServiceAssumption DEF Inv
<1>2. CASE call[c].rounds \in 0..RoundRetries
  <2>1. [op |-> "pause", rounds |-> call[c].rounds + 1] \in ClientCall
    BY <1>1, <1>2 DEF ClientCall
  <2> QED BY <1>2, <2>1, ContinueKeeps DEF BlockNoPeers
<1>3. CASE call[c].rounds \notin 0..RoundRetries
  BY <1>1, <1>3, EndKeeps DEF BlockNoPeers
<1> QED BY <1>2, <1>3

LEMMA ResumeKeeps ==
    ASSUME Inv, NEW c \in Client, BlockResumes(c)
    PROVE  Inv'
<1>1. {BlockRetries, RoundRetries} \subseteq Nat /\ sent \in BOOLEAN
  BY ServiceAssumption DEF Inv
<1>2. CASE Continues(c, [op |-> "block", retries |-> 0, rounds |-> call[c].rounds])
  <2>1. call[c].op = "pause" /\ call[c] \in ClientCall
    BY OpsOfClients DEF BlockResumes, Awaits, Task
  <2>2. call[c].rounds \in 1..RoundRetries + 1
    BY <2>1 DEF ClientCall
  <2>3. [op |-> "block", retries |-> 0, rounds |-> call[c].rounds] \in ClientCall
    BY <1>1, <2>2 DEF ClientCall
  <2> QED BY <1>2, <2>3, ContinueKeeps DEF BlockResumes
<1>3. CASE Ends(c)
  BY <1>1, <1>3, EndKeeps DEF BlockResumes
<1> QED BY <1>2, <1>3 DEF BlockResumes

LEMMA FailureKeeps ==
    ASSUME Inv, NEW c \in Client, BlockMissing(c) \/ TxMissing(c) \/ UnspentFails(c)
    PROVE  Inv'
<1>1. sent' \in BOOLEAN /\ UNCHANGED <<sent, data>>
  BY DEF Inv, BlockMissing, TxMissing, UnspentFails
<1>2. CASE Ends(c)
  BY <1>1, <1>2, EndKeeps
<1>3. CASE Again(c) /\ ~Ends(c)
  <2>1. \/ call[c].op = "block" /\ ~(call[c].retries > BlockRetries)
        \/ call[c].op \in {"tx", "out"} /\ ~(call[c].retries > TxRetries)
        \/ call[c].op = "unspent" /\ ~(call[c].retries > UnspentRetries)
    BY <1>3 DEF BlockMissing, TxMissing, UnspentFails, Awaits
  <2> QED BY <1>1, <1>3, <2>1, AgainKeeps
<1> QED BY <1>2, <1>3 DEF BlockMissing, TxMissing, UnspentFails

LEMMA TxAnswerKeeps ==
    ASSUME Inv, NEW c \in Client, TxAnswered(c)
    PROVE  Inv'
<1>1. UnspentRetries \in Nat /\ sent' \in BOOLEAN /\ UNCHANGED <<sent, data>>
  BY ServiceAssumption DEF Inv, TxAnswered
<1>2. [op |-> "proof"] \in ClientCall /\ [op |-> "unspent", retries |-> 0] \in ClientCall
  BY <1>1 DEF ClientCall
<1> QED BY <1>1, <1>2, ContinueKeeps, EndKeeps DEF TxAnswered

\* The answers after which a call is over.
LEMMA OverKeeps ==
    ASSUME Inv, NEW c \in Client,
           BlockAnswered(c) \/ ProofAnswered(c) \/ UnspentAnswered(c) \/ SendAnswered(c)
    PROVE  Inv'
<1>1. sent' \in BOOLEAN
  BY DEF Inv, BlockAnswered, ProofAnswered, UnspentAnswered, SendAnswered
<1>2. Ends(c) /\ UNCHANGED data
  BY DEF BlockAnswered, ProofAnswered, UnspentAnswered, SendAnswered
<1> QED BY <1>1, <1>2, EndKeeps

\* Time only makes measurements older.
LEMMA TimeKeeps ==
    ASSUME Inv, TimePasses
    PROVE  Inv'
<1>1. PICK older \in SUBSET Host : data' = Aged(data, older)
  BY DEF TimePasses
<1>2. data' \in [Host -> Measurement]
  BY <1>1 DEF Inv, Aged, Measurement
<1> QED BY <1>2 DEF Inv, TimePasses

LEMMA InvInit ==
    ASSUME Init
    PROVE  Inv
BY DEF Init, Inv, Idle, Measurement, ClientOK, ClientCall, BootstrapOK, Task

LEMMA InvNext ==
    ASSUME Inv, [Next]_vars
    PROVE  Inv'
<1>1. CASE \E c \in Client : BlockStarts(c) \/ TxStarts(c) \/ SendStarts(c)
  BY <1>1, StartKeeps
<1>2. CASE \E c \in Client : ClientEstimates(c)
  <2>1. PICK c \in Client : EstimateStarts(c, "estimate")
    BY <1>2 DEF ClientEstimates
  <2>2. c \in Task /\ c # Bootstrap
    BY ServiceAssumption DEF Task
  <2> QED BY <2>1, <2>2, EstimateSuffices
<1>3. CASE BootstrapCollects
  <2>1. Bootstrap \in Task /\ EstimateStarts(Bootstrap, "bootstrap")
    BY <1>3 DEF BootstrapCollects, Task
  <2> QED BY <2>1, EstimateSuffices
<1>4. CASE \E t \in Task : ServerAnswers(t)
  BY <1>4, AnswerKeeps
<1>5. CASE \E t \in Task :
             \/ BlockAnswered(t) \/ BlockMissing(t) \/ BlockNoPeers(t) \/ BlockResumes(t)
             \/ TxAnswered(t) \/ TxMissing(t) \/ ProofAnswered(t)
             \/ UnspentAnswered(t) \/ UnspentFails(t) \/ SendAnswered(t)
  <2>1. PICK t \in Task :
             \/ BlockAnswered(t) \/ BlockMissing(t) \/ BlockNoPeers(t) \/ BlockResumes(t)
             \/ TxAnswered(t) \/ TxMissing(t) \/ ProofAnswered(t)
             \/ UnspentAnswered(t) \/ UnspentFails(t) \/ SendAnswered(t)
    BY <1>5
  <2>2. call[t].op \in {"block", "pause", "tx", "out", "proof", "unspent", "send"}
    BY <2>1 DEF Awaits, BlockAnswered, BlockMissing, BlockNoPeers, BlockResumes, TxAnswered,
                TxMissing, ProofAnswered, UnspentAnswered, UnspentFails, SendAnswered
  <2>3. t \in Client
    BY <2>2, OpsOfClients
  <2> QED BY <2>1, <2>3, OverKeeps, FailureKeeps, NoPeersKeeps, ResumeKeeps, TxAnswerKeeps
<1>6. CASE TimePasses
  BY <1>6, TimeKeeps
<1>7. CASE UNCHANGED vars
  BY <1>7 DEF Inv, vars
<1> QED BY <1>1, <1>2, <1>3, <1>4, <1>5, <1>6, <1>7 DEF Next, Answers
-----------------------------------------------------------------------------
(* The theorems *)

\* Every reachable state has the shapes of the invariant: no call is left with rates
\* that are too few.
THEOREM Invariant == Spec => []Inv
<1>1. Init => Inv
  BY InvInit
<1>2. Inv /\ [Next]_vars => Inv'
  BY InvNext
<1> QED BY <1>1, <1>2, PTL DEF Spec

\* Whatever peers and servers do, no retry of the service exceeds its bound by more
\* than one.
THEOREM TypeCorrect == Spec => []TypeOK
<1>1. Inv => TypeOK
  <2> SUFFICES ASSUME Inv PROVE TypeOK
    OBVIOUS
  <2>1. ASSUME NEW c \in Client
        PROVE  CASE Awaits(c, "block") -> /\ call[c].retries \in 0..BlockRetries + 1
                                          /\ call[c].rounds \in -1..RoundRetries + 1
                 [] Awaits(c, "pause") -> call[c].rounds \in 1..RoundRetries + 1
                 [] Awaits(c, "tx") \/ Awaits(c, "out") -> call[c].retries \in 0..TxRetries + 1
                 [] Awaits(c, "unspent") -> call[c].retries \in 0..UnspentRetries + 1
                 [] OTHER -> call[c].op \in {"idle", "proof", "send", "estimate", "noquorum"}
    <3>1. CASE call[c] \in ClientCall
      BY <3>1 DEF ClientCall, Awaits
    <3>2. CASE Asking(call[c]) /\ call[c].op = "estimate"
      BY <3>2 DEF Awaits
    <3> QED BY <3>1, <3>2 DEF Inv, ClientOK
  <2>2. call[Bootstrap].op \in {"idle", "sleep", "bootstrap", "dead"}
    BY DEF Inv, BootstrapOK
  <2> QED BY <2>1, <2>2 DEF Inv, TypeOK
<1> QED BY <1>1, Invariant, PTL

\* A collect that returns to estimatefee leaves it a consensus of rates, whatever
\* the consensus and the number of servers.
THEOREM QuorumAfterCollect == Spec => []CollectSuffices
<1>1. Inv => CollectSuffices
  BY DEF Inv, CollectSuffices, ClientOK, ClientCall, Awaits
<1> QED BY <1>1, Invariant, PTL
=============================================================================
