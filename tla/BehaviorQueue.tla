--------------------------- MODULE BehaviorQueue ----------------------------
(***************************************************************************)
(* boc_bq, the intrusive queue below each worker (boc_sched.c), access by  *)
(* access, with the part of the work-stealing layer that moves segments    *)
(* from one queue to another.                                              *)
(*                                                                         *)
(* Memory is one function: link[n] is the next_in_queue slot of node n and *)
(* link[q] the front of queue q; back[q] is the address of a slot, so it   *)
(* names a node or, when the queue is empty, q itself.  A consumer owns    *)
(* the front of a queue between the exchange that empties it and the store *)
(* that puts it back.                                                      *)
(*                                                                         *)
(* A worker pops from its own queue, and when it gets nothing steals from  *)
(* its victim.  A node that has been run may be offered again, as fairness *)
(* tokens are, so that addresses are reused.                               *)
(***************************************************************************)
EXTENDS Sequences, FiniteSets, Integers

CONSTANTS
    Queues,
    Nodes,
    Producers,    \* threads that only enqueue
    Owners,       \* workers, each with a queue
    Own,          \* Own[w]: the queue of w
    Victim,       \* Victim[w]: the queue w steals from, or Null
    Null

Threads == Producers \cup Owners
Slots   == Queues \cup Nodes

ASSUME BQAssumption ==
    /\ Null \notin Slots /\ IsFiniteSet(Nodes)
    /\ Queues \cap Nodes = {}
    /\ Producers \cap Owners = {}
    /\ Own \in [Owners -> Queues]
    /\ Victim \in [Owners -> Queues \cup {Null}]

VARIABLES
    link,     \* contents of every slot
    back,     \* boc_bq_t.back
    me,       \* program counter and locals of each thread
    spare     \* nodes that belong to nobody: not dispatched, or already run

vars == <<link, back, me, spare>>

(***************************************************************************)
(* Locals.  q: the queue of the current call; old: its detached front;     *)
(* new: what follows old; from, to: the segment of the current enqueue     *)
(* (the C code passes &to->next_in_queue); slot: the old back; start, end: *)
(* what is left of a stolen segment; got: the node to return.              *)
(***************************************************************************)
Fresh == [pc |-> "idle", q |-> Null, old |-> Null, new |-> Null,
          from |-> Null, to |-> Null, slot |-> Null,
          start |-> Null, end |-> Null, got |-> Null]

PCs == {"idle", "clear", "swap", "publish", "probe", "acquire", "next",
        "advance", "cas", "restore", "detach", "take", "spread", "run"}

TypeOK ==
    /\ link \in [Slots -> Nodes \cup {Null}]
    /\ back \in [Queues -> Slots]
    /\ spare \subseteq Nodes
    /\ me \in [Threads ->
                 [pc : PCs, q : Queues \cup {Null}, slot : Slots \cup {Null},
                  old : Nodes \cup {Null}, new : Nodes \cup {Null},
                  from : Nodes \cup {Null}, to : Nodes \cup {Null},
                  start : Nodes \cup {Null}, end : Nodes \cup {Null},
                  got : Nodes \cup {Null}]]

\* boc_bq_init: back == &front.
Init == /\ link = [s \in Slots |-> Null]
        /\ back = [q \in Queues |-> q]
        /\ me = [t \in Threads |-> Fresh]
        /\ spare = Nodes

Goto(t, pc)  == me' = [me EXCEPT ![t].pc = pc]
Call(t, pc, q) == me' = [me EXCEPT ![t].pc = pc, ![t].q = q]

\* t's call of boc_bq_enqueue_segment(q, {from, &to->next_in_queue}).
Enqueue(t, q, from, to, start) ==
    me' = [me EXCEPT ![t].pc = "clear", ![t].q = q, ![t].from = from,
                     ![t].to = to, ![t].start = start,
                     ![t].end = IF start = Null THEN Null ELSE @]

\* A queue call that returns NULL: an owner that found nothing in its own
\* queue turns to its victim.
Missed(t) ==
    me' = [me EXCEPT ![t] =
             IF me[t].q = Own[t] /\ Victim[t] # Null
             THEN [Fresh EXCEPT !.pc = "probe", !.q = Victim[t]]
             ELSE Fresh]

\* ... and one that returns n.
Deliver(t, n) == me' = [me EXCEPT ![t] = [Fresh EXCEPT !.pc = "run", !.got = n]]

Stealing(t) == me[t].q = Victim[t]
-----------------------------------------------------------------------------
(***************************************************************************)
(* boc_bq_enqueue_segment.                                                 *)
(***************************************************************************)
\* The store at the end of the segment; and an enqueue that skips it.
Uncleared(t) == link
Cleared(t)   == [link EXCEPT ![me[t].to] = Null]

Clear(t) ==
    /\ me[t].pc = "clear"
    /\ link' = Cleared(t)
    /\ Goto(t, "swap")
    /\ UNCHANGED <<back, spare>>

Swap(t) ==
    /\ me[t].pc = "swap"
    /\ back' = [back EXCEPT ![me[t].q] = me[t].to]
    /\ me' = [me EXCEPT ![t].pc = "publish", ![t].slot = back[me[t].q]]
    /\ UNCHANGED <<link, spare>>

\* try_steal found a node to return; and a caller that does not look.
Whatever(t) == TRUE
Found(t)    == me[t].got # Null

\* The store that makes the segment reachable.  In boc_wsq_enqueue_spread it
\* is followed by the next round; after the last one try_steal returns.
Publish(t) ==
    /\ me[t].pc = "publish"
    /\ link' = [link EXCEPT ![me[t].slot] = me[t].from]
    /\ IF me[t].start # Null
       THEN me' = [me EXCEPT ![t].pc = "spread", ![t].from = Null,
                             ![t].to = Null, ![t].slot = Null]
       ELSE IF Found(t) THEN Deliver(t, me[t].got)
       ELSE me' = [me EXCEPT ![t] = Fresh]
    /\ UNCHANGED <<back, spare>>
-----------------------------------------------------------------------------
(***************************************************************************)
(* boc_bq_acquire_front, called by boc_bq_dequeue and boc_bq_dequeue_all.  *)
(***************************************************************************)
Probe(t) ==
    /\ me[t].pc = "probe"
    /\ IF link[me[t].q] = Null THEN Missed(t) ELSE Goto(t, "acquire")
    /\ UNCHANGED <<link, back, spare>>

\* The exchange empties the front.
Exchanged(t) == [link EXCEPT ![me[t].q] = Null]

Acquire(t) ==
    /\ me[t].pc = "acquire"
    /\ link' = Exchanged(t)
    /\ IF link[me[t].q] = Null THEN Missed(t)
       ELSE me' = [me EXCEPT ![t].old = link[me[t].q],
                             ![t].pc = IF Stealing(t) THEN "detach" ELSE "next"]
    /\ UNCHANGED <<back, spare>>

(***************************************************************************)
(* The rest of boc_bq_dequeue.                                             *)
(***************************************************************************)
ReadNext(t) ==
    /\ me[t].pc = "next"
    /\ me' = [me EXCEPT ![t].new = link[me[t].old],
                        ![t].pc = IF link[me[t].old] = Null
                                  THEN "cas" ELSE "advance"]
    /\ UNCHANGED <<link, back, spare>>

Advance(t) ==
    /\ me[t].pc = "advance"
    /\ link' = [link EXCEPT ![me[t].q] = me[t].new]
    /\ Deliver(t, me[t].old)
    /\ UNCHANGED <<back, spare>>

\* The comparison of the CAS.
StillOld(t) == back[me[t].q] = me[t].old

CasBack(t) ==
    /\ me[t].pc = "cas"
    /\ IF StillOld(t)
       THEN /\ back' = [back EXCEPT ![me[t].q] = me[t].q]
            /\ Deliver(t, me[t].old)
       ELSE /\ Goto(t, "restore")
            /\ UNCHANGED back
    /\ UNCHANGED <<link, spare>>

\* The front goes back; and a consumer that forgets it.
Dropped(t)  == link
Restored(t) == [link EXCEPT ![me[t].q] = me[t].old]

\* The CAS was lost: an enqueuer has swapped back but not linked its node.
Restore(t) ==
    /\ me[t].pc = "restore"
    /\ link' = Restored(t)
    /\ Missed(t)
    /\ UNCHANGED <<back, spare>>
-----------------------------------------------------------------------------
(***************************************************************************)
(* boc_sched_try_steal: boc_bq_dequeue_all on the victim, then take_one.   *)
(***************************************************************************)
Detach(t) ==
    /\ me[t].pc = "detach"
    /\ back' = [back EXCEPT ![me[t].q] = me[t].q]
    /\ me' = [me EXCEPT ![t].pc = "take", ![t].start = me[t].old,
                        ![t].end = back[me[t].q], ![t].old = Null]
    /\ UNCHANGED <<link, spare>>

\* One node in the segment; and the test without seg.end.
NoLink(t) == TRUE
Single(t) == me[t].start = me[t].end

\* take_one gives nothing for a segment of one node, and for one whose first
\* link is still to be published; only then the rest is spread with no node.
TakeOne(t) ==
    LET head == me[t].start IN
    /\ me[t].pc = "take"
    /\ \/ /\ link[head] # Null
          /\ me' = [me EXCEPT ![t].pc = "spread", ![t].got = head,
                              ![t].start = link[head]]
       \/ /\ link[head] = Null /\ Single(t)
          /\ Deliver(t, head)
       \/ /\ link[head] = Null /\ ~Single(t)
          /\ Goto(t, "spread")
    /\ UNCHANGED <<link, back, spare>>

\* One round of boc_wsq_enqueue_spread onto the thief's own queue.
Spread(t) ==
    LET head == me[t].start IN
    /\ me[t].pc = "spread"
    /\ IF link[head] # Null
       THEN Enqueue(t, Own[t], head, head, link[head])
       ELSE Enqueue(t, Own[t], head, me[t].end, Null)
    /\ UNCHANGED <<link, back, spare>>
-----------------------------------------------------------------------------
(***************************************************************************)
(* The callers: boc_wsq_enqueue from boc_sched_dispatch, and the loop of   *)
(* boc_sched_worker_pop_slow.                                              *)
(***************************************************************************)
Offer(p, n, q) ==
    /\ me[p].pc = "idle" /\ n \in spare
    /\ Enqueue(p, q, n, n, Null)
    /\ spare' = spare \ {n}
    /\ UNCHANGED <<link, back>>

Pop(t) ==
    /\ me[t].pc = "idle"
    /\ Call(t, "probe", Own[t])
    /\ UNCHANGED <<link, back, spare>>

\* The worker runs the behavior; its node is free for another dispatch.
Run(t) ==
    /\ me[t].pc = "run"
    /\ me' = [me EXCEPT ![t] = Fresh]
    /\ spare' = spare \cup {me[t].got}
    /\ UNCHANGED <<link, back>>

EnqueueStep(t) == Clear(t) \/ Swap(t) \/ Publish(t)
DequeueStep(t) == Probe(t) \/ Acquire(t) \/ ReadNext(t) \/ Advance(t)
                    \/ CasBack(t) \/ Restore(t)
StealStep(t)   == Detach(t) \/ TakeOne(t) \/ Spread(t)
WorkerStep(t)  == Pop(t) \/ DequeueStep(t) \/ StealStep(t) \/ Run(t)

Next == \/ \E p \in Producers, n \in Nodes, q \in Queues : Offer(p, n, q)
        \/ \E t \in Threads : EnqueueStep(t)
        \/ \E t \in Owners : WorkerStep(t)

Spec == Init /\ [][Next]_vars

\* No thread stops inside a queue operation, and owners poll for ever;
\* producers may stop offering.
FairSpec == /\ Spec
            /\ \A t \in Threads : WF_vars(EnqueueStep(t))
            /\ \A t \in Owners : WF_vars(WorkerStep(t))
-----------------------------------------------------------------------------
(***************************************************************************)
(* The links as they will be: an enqueuer that has swapped is going to     *)
(* link its segment, and a consumer that holds the front of a queue either *)
(* puts it back or takes it.                                               *)
(***************************************************************************)
Holders(q) == {t \in Threads : me[t].q = q /\ me[t].old # Null}
Linkers(s) == {t \in Threads : me[t].pc = "publish" /\ me[t].slot = s}

Follow(s) ==
    IF s \in Queues /\ Holders(s) # {}
    THEN (CHOOSE m \in {me[u] : u \in Holders(s)} : TRUE).old
    ELSE IF Linkers(s) # {}
    THEN (CHOOSE m \in {me[u] : u \in Linkers(s)} : TRUE).from
    ELSE link[s]

\* The nodes after slot s, up to and including the slot e.
Chain(s, e) ==
    LET follow == [x \in Slots |-> Follow(x)]
        walk[k \in 0 .. Cardinality(Nodes)] ==
          IF k = 0 THEN <<s>>
          ELSE LET w == walk[k - 1]
                   x == w[Len(w)]
               IN  IF x = e \/ follow[x] = Null THEN w ELSE Append(w, follow[x])
    IN  IF s = e THEN <<>> ELSE Tail(walk[Cardinality(Nodes)])

(***************************************************************************)
(* The refinement mapping.  A node is in a queue from the exchange of back *)
(* to the store or the CAS that removes it, linked or not; a segment in a  *)
(* thread's hands is the one it enqueues now and the one left to spread.   *)
(***************************************************************************)
contents == [q \in Queues |-> Chain(q, back[q])]

Whole(first, end) == IF first = Null THEN <<>>
                     ELSE <<first>> \o Chain(first, end)

hand == [t \in Threads |->
           (IF me[t].pc \in {"clear", "swap"}
            THEN IF me[t].start = Null THEN Whole(me[t].from, me[t].to)
                 ELSE <<me[t].from>>
            ELSE <<>>) \o Whole(me[t].start, me[t].end)]

got == [t \in Threads |-> me[t].got]

Promise == INSTANCE SegmentQueues
             WITH contents <- contents, hand <- hand, got <- got

\* Whatever the interleaving, boc_bq is a set of FIFO queues.
ImplementsQueues == Promise!Spec

\* The assertion of boc_bq_enqueue_segment: the slot an enqueuer links its
\* segment to is still empty, so that no node behind it is cut off.
SlotIsFree == \A t \in Threads : me[t].pc = "publish" => link[me[t].slot] = Null
=============================================================================
