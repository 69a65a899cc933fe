--------------------------- MODULE SegmentQueues ----------------------------
(***************************************************************************)
(* What boc_bq promises (boc_sched.h): FIFO queues of nodes.  A thread     *)
(* appends one node or a whole segment, takes the head of a queue or       *)
(* detaches everything in it.  Nothing is lost, doubled or reordered.      *)
(***************************************************************************)
EXTENDS Sequences

CONSTANTS Queues, Threads, Nodes, Null

VARIABLES contents,   \* contents[q]: the nodes of q, head first
          hand,       \* hand[t]: the segment t holds privately
          got         \* got[t]: the node t runs next, or Null

vars == <<contents, hand, got>>

Init == /\ contents = [q \in Queues |-> <<>>]
        /\ hand = [t \in Threads |-> <<>>]
        /\ got = [t \in Threads |-> Null]

Idle(t) == hand[t] = <<>> /\ got[t] = Null

\* t comes with a node of its own.
Offer(t, n) == /\ Idle(t)
               /\ hand' = [hand EXCEPT ![t] = <<n>>]
               /\ UNCHANGED <<contents, got>>

Put(t, q) == /\ hand[t] # <<>>
             /\ contents' = [contents EXCEPT ![q] = Append(@, Head(hand[t]))]
             /\ hand' = [hand EXCEPT ![t] = Tail(@)]
             /\ UNCHANGED got

PutAll(t, q) == /\ contents' = [contents EXCEPT ![q] = @ \o hand[t]]
                /\ hand' = [hand EXCEPT ![t] = <<>>]
                /\ UNCHANGED got

TakeHead(t, q) == /\ Idle(t) /\ contents[q] # <<>>
                  /\ got' = [got EXCEPT ![t] = Head(contents[q])]
                  /\ contents' = [contents EXCEPT ![q] = Tail(@)]
                  /\ UNCHANGED hand

TakeAll(t, q) == /\ Idle(t)
                 /\ hand' = [hand EXCEPT ![t] = contents[q]]
                 /\ contents' = [contents EXCEPT ![q] = <<>>]
                 /\ UNCHANGED got

Split(t) == /\ hand[t] # <<>> /\ got[t] = Null
            /\ got' = [got EXCEPT ![t] = Head(hand[t])]
            /\ hand' = [hand EXCEPT ![t] = Tail(@)]
            /\ UNCHANGED contents

Run(t) == /\ hand[t] = <<>>
          /\ got' = [got EXCEPT ![t] = Null]
          /\ UNCHANGED <<contents, hand>>

Next == \E t \in Threads :
          \/ \E n \in Nodes : Offer(t, n)
          \/ \E q \in Queues : \/ Put(t, q) \/ PutAll(t, q)
                               \/ TakeHead(t, q) \/ TakeAll(t, q)
          \/ Split(t) \/ Run(t)

Spec == Init /\ [][Next]_vars
=============================================================================
