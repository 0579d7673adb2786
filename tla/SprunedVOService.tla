--------------------------- MODULE SprunedVOService ---------------------------
(***************************************************************************)
(* The calls of SprunedVOService (application/spruned_vo_service.py) that  *)
(* await something, with what they reach: ElectrodInterface.estimatefee    *)
(* and its collector, the loop that fills the collector ahead of them, and *)
(* processblock of build_zmq (daemon/zeromq.py), which asks for the block  *)
(* of every new header.                                                    *)
(*                                                                         *)
(* A call answered from the repository, or refused by the JSON-RPC server, *)
(* ends in the step it starts in, and is not shown.                        *)
(*   block      _get_block, for getblock or for processblock               *)
(*   pause      processblock sleeps after NoPeersException                 *)
(*   tx         _get_electrum_transaction, for getrawtransaction           *)
(*   out        the same for gettxout                                      *)
(*   proof      get_merkleproof                                            *)
(*   unspent    _listunspent_by_scripthash                                 *)
(*   send       sendrawtransaction                                         *)
(*   estimate   collect, for estimatefee                                   *)
(*   bootstrap  collect, for bootstrap_collector                           *)
(*                                                                         *)
(* All of this runs in one thread: a step is what a call does up to its    *)
(* next await.  One transaction, one rate.                                 *)
(***************************************************************************)
EXTENDS Integers, FiniteSets, FiniteSetsExt, FeeCollector

CONSTANTS
    Client,         \* calls made at once: requests, processblock
    Bootstrap,      \* the task of bootstrap_collector
    Host,           \* the servers, in the order of the pool
    Consensus,      \* consensus
    BlockRetries,   \* bounds on retries in the code: 3,
    RoundRetries,   \* 9 for processblock,
    TxRetries,      \* 10,
    UnspentRetries  \* 15

ASSUME ServiceAssumption ==
    /\ Bootstrap \notin Client /\ IsFiniteSet(Host) /\ Host \subseteq Nat
    /\ Consensus \in 1..Cardinality(Host)
    /\ {BlockRetries, RoundRetries, TxRetries, UnspentRetries} \subseteq Nat

VARIABLES
    call,           \* what each call awaits
    sent,           \* the transaction is in _expected_data['txids']
    data            \* the collector's measurements

vars == <<call, sent, data>>

Task == Client \cup {Bootstrap}
Idle == [op |-> "idle"]

Init ==
    /\ call = [t \in Task |-> Idle]
    /\ sent = FALSE
    /\ data = [h \in Host |-> "unusable"]
-----------------------------------------------------------------------------
Awaits(t, op) == call[t].op = op
Ends(t) == call' = [call EXCEPT ![t] = Idle]
Continues(t, state) == call' = [call EXCEPT ![t] = state]

Again(t) == Continues(t, [call[t] EXCEPT !.retries = @ + 1])
-----------------------------------------------------------------------------
(* _get_block and processblock *)

\* rounds: the retries of processblock; -1 for a request.
BlockStarts(c) ==
    /\ Awaits(c, "idle")
    /\ \E rounds \in {-1, 0} : Continues(c, [op |-> "block", retries |-> 0, rounds |-> rounds])
    /\ UNCHANGED <<sent, data>>

\* The block is there: each level of the recursion schedules async_save_block, and
\* the caller answers, or publishes.
BlockAnswered(c) ==
    /\ Awaits(c, "block")
    /\ Ends(c)
    /\ UNCHANGED <<sent, data>>

\* get timed out; the last attempt is with privileged peers, and raises.
BlockMissing(c) ==
    /\ Awaits(c, "block")
    /\ IF call[c].retries > BlockRetries THEN Ends(c) ELSE Again(c)
    /\ UNCHANGED <<sent, data>>

\* Variant with a bug: processblock sleeps after each of its rounds.
BlockNoPeersAlways(c) ==
    /\ Awaits(c, "block")
    /\ IF call[c].rounds >= 0
       THEN Continues(c, [op |-> "pause", rounds |-> call[c].rounds + 1])
       ELSE Ends(c)
    /\ UNCHANGED <<sent, data>>

\* Variant with a bug: processblock does not count its rounds.
BlockNoPeersUncounted(c) ==
    /\ Awaits(c, "block")
    /\ IF call[c].rounds \in 0..RoundRetries
       THEN Continues(c, [op |-> "pause", rounds |-> call[c].rounds])
       ELSE Ends(c)
    /\ UNCHANGED <<sent, data>>

\* NoPeersException: the end of a request, and processblock sleeps 10 seconds.
BlockNoPeers(c) ==
    /\ Awaits(c, "block")
    /\ IF call[c].rounds \in 0..RoundRetries
       THEN Continues(c, [op |-> "pause", rounds |-> call[c].rounds + 1])
       ELSE Ends(c)
    /\ UNCHANGED <<sent, data>>

\* get_block_object again; or the header is gone, and None cannot be published.
BlockResumes(c) ==
    /\ Awaits(c, "pause")
    /\ \/ Continues(c, [op |-> "block", retries |-> 0, rounds |-> call[c].rounds])
       \/ Ends(c)
    /\ UNCHANGED <<sent, data>>
-----------------------------------------------------------------------------
(* getrawtransaction, gettxout, sendrawtransaction *)

TxStarts(c) ==
    /\ Awaits(c, "idle")
    /\ \E op \in {"tx", "out"} : Continues(c, [op |-> op, retries |-> 0])
    /\ UNCHANGED <<sent, data>>

\* getrawtransaction answers a transaction in no block at once, and raises for one in
\* a block whose header is not there; gettxout, when there is no such output.
TxAnswered(c) ==
    /\ Awaits(c, "tx") \/ Awaits(c, "out")
    /\ \/ Ends(c)
       \/ Awaits(c, "tx") /\ Continues(c, [op |-> "proof"])
       \/ Awaits(c, "out") /\ Continues(c, [op |-> "unspent", retries |-> 0])
    /\ UNCHANGED <<sent, data>>

\* An empty answer, or any exception: only what was sent through here is asked for
\* again, a second later.
TxMissing(c) ==
    /\ Awaits(c, "tx") \/ Awaits(c, "out")
    /\ IF ~sent \/ call[c].retries > TxRetries THEN Ends(c) ELSE Again(c)
    /\ UNCHANGED <<sent, data>>

\* The proof holds, does not, or does not come.
ProofAnswered(c) ==
    /\ Awaits(c, "proof") /\ Ends(c)
    /\ UNCHANGED <<sent, data>>

UnspentAnswered(c) ==
    /\ Awaits(c, "unspent") /\ Ends(c)
    /\ UNCHANGED <<sent, data>>

UnspentFails(c) ==
    /\ Awaits(c, "unspent")
    /\ IF call[c].retries > UnspentRetries THEN Ends(c) ELSE Again(c)
    /\ UNCHANGED <<sent, data>>

SendStarts(c) ==
    /\ Awaits(c, "idle") /\ Continues(c, [op |-> "send"])
    /\ UNCHANGED <<sent, data>>

\* The answer is a transaction id, or an error.
SendAnswered(c) ==
    /\ Awaits(c, "send") /\ Ends(c)
    /\ sent' \in {sent, TRUE}
    /\ UNCHANGED data
-----------------------------------------------------------------------------
(* Fees.  A collect is at the head of its loop with the hosts in todo to come. *)

\* What follows a collect that returned: estimatefee takes the rates, which are
\* projected, or raises for want of them; the bootstrap sleeps.
Collected(t, measurements) ==
    IF t = Bootstrap THEN [op |-> "sleep"]
    ELSE IF Cardinality(Measured(measurements)) >= Consensus THEN Idle ELSE [op |-> "noquorum"]

\* An exception of collect: estimatefee answers what it answered last, for whatever
\* rate that was; the bootstrap task is over, and nothing starts another.
NotCollected(t) == IF t = Bootstrap THEN [op |-> "dead"] ELSE Idle

\* Variant with a bug: with every server asked, there is a consensus.
CollectsUnchecked(t, op, todo, measurements) ==
    LET ask == todo \ Valid(measurements)
    IN IF Raises(measurements) THEN NotCollected(t)
       ELSE IF Cardinality(Valid(measurements)) >= Consensus \/ ask = {}
       THEN Collected(t, measurements)
       ELSE [op |-> op, host |-> Min(ask), todo |-> {h \in todo : h > Min(ask)}]

\* The loop of collect up to its next await: a server is asked only if it has no
\* valid measurement.
Collects(t, op, todo, measurements) ==
    LET ask == todo \ Valid(measurements)
    IN IF Raises(measurements) THEN NotCollected(t)
       ELSE IF Cardinality(Valid(measurements)) >= Consensus THEN Collected(t, measurements)
       ELSE IF ask = {} THEN NotCollected(t)
       ELSE [op |-> op, host |-> Min(ask), todo |-> {h \in todo : h > Min(ask)}]

\* get_rates; collect, which wants enough of the established_connections of a pool
\* that loses and replaces them.
EstimateStarts(t, op) ==
    /\ \E established \in SUBSET Host : Continues(t,
         IF Raises(data) THEN NotCollected(t)
         ELSE IF Cardinality(Measured(data)) >= Consensus THEN Collected(t, data)
         ELSE IF Consensus > Cardinality(established) THEN NotCollected(t)
         ELSE Collects(t, op, established, data))
    /\ UNCHANGED <<sent, data>>

ClientEstimates(c) == Awaits(c, "idle") /\ EstimateStarts(c, "estimate")

\* When the pool has its connections, and a minute after each collect.
BootstrapCollects ==
    /\ Awaits(Bootstrap, "idle") \/ Awaits(Bootstrap, "sleep")
    /\ EstimateStarts(Bootstrap, "bootstrap")

\* _update: a measurement, None, or an exception, which leaves what there was.
ServerAnswers(t) ==
    /\ Awaits(t, "estimate") \/ Awaits(t, "bootstrap")
    /\ \E m \in {"fresh", "nothing", data[call[t].host]} :
         /\ data' = [data EXCEPT ![call[t].host] = m]
         /\ Continues(t, Collects(t, call[t].op, call[t].todo, data'))
    /\ UNCHANGED sent

TimePasses ==
    /\ \E older \in SUBSET Host : data' = Aged(data, older)
    /\ UNCHANGED <<call, sent>>
-----------------------------------------------------------------------------
Answers(t) ==
    \/ BlockAnswered(t) \/ BlockMissing(t) \/ BlockNoPeers(t) \/ BlockResumes(t)
    \/ TxAnswered(t) \/ TxMissing(t) \/ ProofAnswered(t)
    \/ UnspentAnswered(t) \/ UnspentFails(t) \/ SendAnswered(t) \/ ServerAnswers(t)

Next ==
    \/ \E c \in Client : BlockStarts(c) \/ TxStarts(c) \/ SendStarts(c) \/ ClientEstimates(c)
    \/ \E t \in Task : Answers(t)
    \/ BootstrapCollects \/ TimePasses

Spec == Init /\ [][Next]_vars

\* get and call have timers, and sleeps end.  The requests of the collector have no
\* timer: that a server answers them, or that the connection raises, is assumed.
Fairness == \A t \in Task : WF_vars(Answers(t))

FairSpec == Spec /\ Fairness
-----------------------------------------------------------------------------
(* Properties *)

\* The variables have the values the code gives them, and no retry goes on longer
\* than one more than its bound.
TypeOK ==
    /\ sent \in BOOLEAN /\ data \in [Host -> Measurement]
    /\ \A c \in Client :
         CASE Awaits(c, "block") -> /\ call[c].retries \in 0..BlockRetries + 1
                                    /\ call[c].rounds \in -1..RoundRetries + 1
           [] Awaits(c, "pause") -> call[c].rounds \in 1..RoundRetries + 1
           [] Awaits(c, "tx") \/ Awaits(c, "out") -> call[c].retries \in 0..TxRetries + 1
           [] Awaits(c, "unspent") -> call[c].retries \in 0..UnspentRetries + 1
           [] OTHER -> call[c].op \in {"idle", "proof", "send", "estimate", "noquorum"}
    /\ call[Bootstrap].op \in {"idle", "sleep", "bootstrap", "dead"}

\* When collect returns, estimatefee finds the rates it collected, though they were
\* measured one after the other, by several tasks, and aged meanwhile, and though
\* get_rates does not test ages as collect does: NoQuorumOnResponsesException is
\* never raised.
CollectSuffices == \A c \in Client : ~Awaits(c, "noquorum")

\* Every call returns or raises, however often peers and servers do not answer, and
\* processblock gives up a block it cannot get.
CallsReturn == \A c \in Client : ~Awaits(c, "idle") ~> Awaits(c, "idle")
=============================================================================
