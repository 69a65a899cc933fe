--------------------------- MODULE MessageQueues ----------------------------
(***************************************************************************)
(* The queue of one tag: a ring of Capacity slots that threads of several  *)
(* interpreters send to and receive from (_core.c boc_enqueue, boc_dequeue *)
(* and receive_single_tag without a timeout).  One action per access to    *)
(* shared memory.                                                          *)
(*                                                                         *)
(* A thread in C has the GIL of its interpreter, except where the code     *)
(* gives it up: asleep on the condition, and in the nap of boc_dequeue.    *)
(***************************************************************************)
EXTENDS Integers, Sequences, FiniteSets

CONSTANTS Senders, Receivers,  \* threads in send() and in receive()
          Worlds,     \* who may be where and send what: records of
                      \* interp[t], the interpreter of thread t, and
                      \* program[s], the messages s sends, in order
          Capacity,   \* BOC_CAPACITY
          None

Messages == UNION {UNION {{w.program[s][i] : i \in DOMAIN w.program[s]} :
                            s \in Senders} : w \in Worlds}

\* Each send() makes an object of its own to send.
ASSUME MessageQueuesAssumption ==
  /\ Senders \cap Receivers = {} /\ None \notin Senders \union Receivers \union Messages
  /\ Capacity \in Nat \ {0}
  /\ \A w \in Worlds :
       /\ \A s \in Senders : w.program[s] \in Seq(Messages)
       /\ \A s, z \in Senders :
            \A i \in DOMAIN w.program[s], j \in DOMAIN w.program[z] :
              w.program[s][i] = w.program[z][j] => s = z /\ i = j

VARIABLES world,      \* one of Worlds
          head, tail, slots,  \* the ring; head and tail only grow
          waiters,    \* how many are, or are about to be, asleep
          mutex,      \* the holder of the park mutex
          send,       \* send[s]: s in boc_enqueue
          recv,       \* recv[r]: r in receive_single_tag
          sent, got   \* history: in the order of places taken; and by whom received

vars == <<world, head, tail, slots, waiters, mutex, send, recv, sent, got>>

SendPlaces == {"idle", "head", "cas", "store", "look", "ring"}
RecvPlaces == {"idle", "head", "tail", "cas", "take", "nap", "lock", "asleep",
               "woken", "back"}

Interp(t) == world.interp[t]
Program(s) == world.program[s]

TypeOK ==
  /\ world \in Worlds
  /\ tail = Len(sent) /\ head \in 0..tail
  /\ slots \in [0..Capacity - 1 -> Messages \union {None}]
  /\ waiters \in 0..Cardinality(Receivers)
  /\ mutex \in Receivers \union {None}
  /\ send \in [Senders -> [at : SendPlaces, tail : Nat, n : Nat]]
  /\ recv \in [Receivers -> [at : RecvPlaces, head : Nat, tail : Nat]]
  /\ sent \in Seq(Messages)
  /\ got \in [Messages -> SUBSET Receivers]

Init == /\ world \in Worlds
        /\ head = 0 /\ tail = 0
        /\ slots = [i \in 0..Capacity - 1 |-> None]
        /\ waiters = 0 /\ mutex = None
        /\ send = [s \in Senders |-> [at |-> "idle", tail |-> 0, n |-> 1]]
        /\ recv = [r \in Receivers |-> [at |-> "idle", head |-> 0, tail |-> 0]]
        /\ sent = <<>>
        /\ got = [m \in Messages |-> {}]

Slot(i) == i % Capacity

GilFree(i) ==
  /\ \A s \in Senders : Interp(s) = i => send[s].at = "idle"
  /\ \A r \in Receivers : Interp(r) = i =>
                            recv[r].at \in {"idle", "nap", "asleep", "woken", "back"}

(***************************************************************************)
(* send(): boc_enqueue.  The sender goes on to its next message, refused   *)
(* or not.                                                                 *)
(***************************************************************************)
Message(s) == Program(s)[send[s].n]

Goes(s, to) == send' = [send EXCEPT ![s].at = to]
Returns(s) == send' = [send EXCEPT ![s].at = "idle", ![s].n = @ + 1]

Enter(s) == /\ send[s].at = "idle" /\ send[s].n \in DOMAIN Program(s)
            /\ GilFree(Interp(s))
            /\ send' = [send EXCEPT ![s].at = "head", ![s].tail = tail]
            /\ UNCHANGED <<world, head, tail, slots, waiters, mutex, recv, sent, got>>

\* Faulty variant: off by one.
RoomForAnother(n) == n <= Capacity

HasRoom(n) == n < Capacity

\* "Message queue is full" is raised if not.
LoadHead(s) == /\ send[s].at = "head"
               /\ IF HasRoom(send[s].tail - head) THEN Goes(s, "cas") ELSE Returns(s)
               /\ UNCHANGED <<world, head, tail, slots, waiters, mutex, recv, sent, got>>

\* Faulty variant: the place is taken without a CAS.
TakenByAnybody(s) == TRUE

StillFree(s) == tail = send[s].tail

CasTail(s) == /\ send[s].at = "cas"
              /\ IF StillFree(s)
                 THEN /\ tail' = send[s].tail + 1 /\ sent' = Append(sent, Message(s))
                      /\ Goes(s, "store")
                 ELSE /\ send' = [send EXCEPT ![s].at = "head", ![s].tail = tail]
                      /\ UNCHANGED <<tail, sent>>
              /\ UNCHANGED <<world, head, slots, waiters, mutex, recv, got>>

Store(s) == /\ send[s].at = "store"
            /\ slots' = [slots EXCEPT ![Slot(send[s].tail)] = Message(s)]
            /\ Goes(s, "look")
            /\ UNCHANGED <<world, head, tail, waiters, mutex, recv, sent, got>>

LookForWaiters(s) == /\ send[s].at = "look"
                     /\ IF waiters > 0 THEN Goes(s, "ring") ELSE Returns(s)
                     /\ UNCHANGED <<world, head, tail, slots, waiters, mutex, recv, sent, got>>

\* Faulty variant: nobody is called.
Nobody(r) == recv

Called(r) == [recv EXCEPT ![r].at = "woken"]

\* The signal, with the park mutex in hand; the GIL is kept meanwhile.
Ring(s) == /\ send[s].at = "ring" /\ mutex = None
           /\ Returns(s)
           /\ LET Asleep == {r \in Receivers : recv[r].at = "asleep"} IN
                IF Asleep = {} THEN UNCHANGED recv
                ELSE \E r \in Asleep : recv' = Called(r)
           /\ UNCHANGED <<world, head, tail, slots, waiters, mutex, sent, got>>

Enqueue(s) == \/ LoadHead(s) \/ CasTail(s) \/ Store(s) \/ LookForWaiters(s) \/ Ring(s)

(***************************************************************************)
(* receive(): one look stands for the BOC_SPIN_COUNT of them, then the     *)
(* thread announces itself and looks again with the park mutex held.       *)
(***************************************************************************)
Moves(r, to) == recv' = [recv EXCEPT ![r].at = to]

\* Awake and with the GIL again, boc_dequeue starts.
Look(r) == /\ recv[r].at \in {"idle", "back", "head"}
           /\ recv[r].at # "head" => GilFree(Interp(r))
           /\ recv' = [recv EXCEPT ![r].at = "tail", ![r].head = head]
           /\ UNCHANGED <<world, head, tail, slots, waiters, mutex, send, sent, got>>

\* Nothing there: on to the mutex; or asleep, which gives the mutex back.
Misses(r) == IF mutex = r THEN Moves(r, "asleep") /\ mutex' = None
             ELSE Moves(r, "lock") /\ UNCHANGED mutex

LoadTail(r) == /\ recv[r].at = "tail"
               /\ IF tail <= recv[r].head THEN Misses(r)
                  ELSE /\ recv' = [recv EXCEPT ![r].at = "cas", ![r].tail = tail]
                       /\ UNCHANGED mutex
               /\ UNCHANGED <<world, head, tail, slots, waiters, send, sent, got>>

\* A failed CAS tells the head; if that is short of the tail as it was, both
\* are tried again with the tail as it is.
CasHead(r) == /\ recv[r].at = "cas"
              /\ \/ /\ recv[r].head = head
                    /\ head' = head + 1
                    /\ Moves(r, "take") /\ UNCHANGED mutex
                 \/ /\ recv[r].head # head /\ head >= recv[r].tail
                    /\ Misses(r) /\ UNCHANGED head
                 \/ /\ recv[r].head # head /\ head < recv[r].tail
                    /\ recv' = [recv EXCEPT ![r].at = "tail", ![r].head = head]
                    /\ UNCHANGED <<head, mutex>>
              /\ UNCHANGED <<world, tail, slots, waiters, send, sent, got>>

Stored(r) == slots[Slot(recv[r].head)] # None

\* Under the mutex it is no longer a waiter; either way receive returns.
Take(r) == /\ recv[r].at = "take" /\ Stored(r)
           /\ slots' = [slots EXCEPT ![Slot(recv[r].head)] = None]
           /\ got' = [got EXCEPT ![slots[Slot(recv[r].head)]] = @ \union {r}]
           /\ Moves(r, "idle")
           /\ IF mutex = r THEN mutex' = None /\ waiters' = waiters - 1
              ELSE UNCHANGED <<mutex, waiters>>
           /\ UNCHANGED <<world, head, tail, send, sent>>

\* Sleeps without the GIL, but with the park mutex if it holds that.
Nap(r) == /\ recv[r].at = "take" /\ ~Stored(r)
          /\ Moves(r, "nap")
          /\ UNCHANGED <<world, head, tail, slots, waiters, mutex, send, sent, got>>

EndNap(r) == /\ recv[r].at = "nap" /\ GilFree(Interp(r))
             /\ Moves(r, "take")
             /\ UNCHANGED <<world, head, tail, slots, waiters, mutex, send, sent, got>>

Announced == waiters + 1

Lock(r) == /\ recv[r].at = "lock" /\ mutex = None
           /\ mutex' = r
           /\ waiters' = Announced
           /\ Moves(r, "head")
           /\ UNCHANGED <<world, head, tail, slots, send, sent, got>>

\* Out of the wait: the mutex is taken and given back before the GIL.
Wake(r) == /\ recv[r].at = "woken" /\ mutex = None
           /\ waiters' = waiters - 1
           /\ Moves(r, "back")
           /\ UNCHANGED <<world, head, tail, slots, mutex, send, sent, got>>

Dequeue(r) == \/ Look(r) \/ LoadTail(r) \/ CasHead(r) \/ Take(r) \/ Nap(r)
              \/ EndNap(r) \/ Lock(r) \/ Wake(r)

Next == \/ \E s \in Senders : Enter(s) \/ Enqueue(s)
        \/ \E r \in Receivers : Dequeue(r)

Spec == Init /\ [][Next]_vars

\* Threads run, and a GIL or a mutex comes round to all who wait for it.
Fairness == /\ \A s \in Senders : WF_vars(Enqueue(s))
            /\ \A r \in Receivers : SF_vars(Dequeue(r))

FairSpec == Spec /\ Fairness

----------------------------------------------------------------------------
(***************************************************************************)
(* "consumer takes mutex->GIL, producer takes GIL->mutex; unlocking first  *)
(* avoids ABBA" (receive_single_tag): nobody keeps the GIL and waits for   *)
(* the mutex of somebody who waits for that GIL.                           *)
(***************************************************************************)
NoLockCycle ==
  ~ \E r \in Receivers :
      /\ recv[r].at = "nap" /\ mutex = r
      /\ \/ \E s \in Senders : send[s].at = "ring" /\ Interp(s) = Interp(r)
         \/ \E t \in Receivers : recv[t].at = "lock" /\ Interp(t) = Interp(r)

(***************************************************************************)
(* Each message goes to one receiver, and nobody receives what another     *)
(* place was taken for.                                                    *)
(***************************************************************************)
OneReceiver == /\ \A m \in Messages : Cardinality(got[m]) <= 1
               /\ \A r \in Receivers : recv[r].at = "take" /\ Stored(r) =>
                    slots[Slot(recv[r].head)] = sent[recv[r].head + 1]

(***************************************************************************)
(* The ring as the program sees it.                                        *)
(***************************************************************************)
Box == INSTANCE Mailbox WITH box <- SubSeq(sent, head + 1, tail)

ImplementsMailbox == Box!Spec

(***************************************************************************)
(* With somebody receiving, every message that was accepted arrives: the   *)
(* queue is drained again and again.                                       *)
(***************************************************************************)
EveryMessageArrives == []<>(\A i \in DOMAIN sent : got[sent[i]] # {})
=============================================================================
