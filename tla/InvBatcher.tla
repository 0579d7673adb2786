------------------------------ MODULE InvBatcher ------------------------------
(***************************************************************************)
(* InvBatcher (dependencies/pycoinnet/inv_batcher.py) over the two stages  *)
(* of its MappingQueue, for the one item that each of its users asks it    *)
(* for.                                                                    *)
(*                                                                         *)
(* The item is in one place:                                               *)
(*   queued    in _inv_item_future_queue                                   *)
(*   asked     in a batch that a peer was sent                             *)
(*   held      with the first stage, which has passed it over for its peer *)
(*             and waits for another item                                  *)
(*   resolved  its future has a result                                     *)
(* tokens are the peers that wait in the queue of the first stage, the one *)
(* that stage has already taken first; a stage that holds the item never   *)
(* comes to the others.                                                    *)
(***************************************************************************)
EXTENDS Integers, Sequences, SequencesExt

\* Variant with a bug: add_peer puts the peer once.
NewBatcherOneToken(peers) ==
    [place |-> "queued", tokens |-> peers, asked |-> {}, tried |-> {}]

\* add_peer for each peer, which puts it twice; then inv_item_to_future.
NewBatcher(peers) ==
    [place |-> "queued",
     tokens |-> [i \in 1..2 * Len(peers) |-> peers[(i + 1) \div 2]],
     asked |-> {}, tried |-> {}]

\* Both stages: the peer is sent getdata.  An item that was tried with this peer is
\* not put back (`not item[2].done` asks a method), and with nothing in its batch
\* the stage stays where it is.
Batch(batcher) ==
    LET peer == Head(batcher.tokens)
    IN IF peer \in batcher.tried
       THEN [batcher EXCEPT !.place = "held", !.tokens = <<>>]
       ELSE [batcher EXCEPT !.place = "asked", !.asked = {peer}, !.tokens = Tail(@)]

\* fetch_batch after target_batch_time.
BatchTimeout(batcher) ==
    [batcher EXCEPT !.place = "queued", !.tried = @ \cup batcher.asked,
                    !.asked = {}, !.tokens = @ \o SetToSeq(batcher.asked)]

\* handle_block_event for the item, from whichever peer.
Resolve(batcher) ==
    [batcher EXCEPT !.place = "resolved", !.tokens = <<>>, !.asked = {}, !.tried = {}]
=============================================================================
