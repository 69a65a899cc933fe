------------------------ MODULE MessageQueues_proofs ------------------------
(***************************************************************************)
(* Proofs about MessageQueues, for any threads, interpreters, programs and *)
(* capacity: the ring is a bounded mailbox.                                *)
(*                                                                         *)
(* A sender decides on an old tail and an even older head.  That is safe   *)
(* because its CAS succeeds only on the tail it has seen, and head can     *)
(* only have grown since; a receiver likewise takes the head it has seen,  *)
(* and the tail it was compared with can only have grown.                  *)
(***************************************************************************)
EXTENDS MessageQueues, SequenceTheorems, FiniteSetTheorems, TLAPS

SendSet == [at : SendPlaces, tail : Nat, n : Nat]
RecvSet == [at : RecvPlaces, head : Nat, tail : Nat]

RingOK == /\ world \in Worlds
          /\ sent \in Seq(Messages) /\ tail = Len(sent)
          /\ head \in Nat /\ head <= tail
          /\ send \in [Senders -> SendSet] /\ recv \in [Receivers -> RecvSet]

SendersOK == \A s \in Senders :
               /\ send[s].at # "idle" => send[s].n \in DOMAIN Program(s)
               /\ send[s].at = "cas" => HasRoom(send[s].tail - head)

ReceiversOK == \A r \in Receivers :
                 recv[r].at = "cas" => recv[r].head < recv[r].tail /\ recv[r].tail <= tail

IInv == RingOK /\ SendersOK /\ ReceiversOK

----------------------------------------------------------------------------
LEMMA MessageTyped ==
    ASSUME RingOK, NEW s \in Senders, send[s].n \in DOMAIN Program(s)
    PROVE  Message(s) \in Messages
BY DEF RingOK, Message, Messages, Program

LEMMA InitOK == Init => IInv
<1> SUFFICES ASSUME Init PROVE IInv
  OBVIOUS
<1>1. [at |-> "idle", tail |-> 0, n |-> 1] \in SendSet
  BY DEF SendSet, SendPlaces
<1>2. [at |-> "idle", head |-> 0, tail |-> 0] \in RecvSet
  BY DEF RecvSet, RecvPlaces
<1>3. RingOK
  BY <1>1, <1>2 DEF Init, RingOK
<1>4. \A s \in Senders : send[s].at = "idle"
  BY DEF Init
<1>5. \A r \in Receivers : recv[r].at = "idle"
  BY DEF Init
<1> QED BY <1>3, <1>4, <1>5 DEF IInv, SendersOK, ReceiversOK

----------------------------------------------------------------------------
\* What the steps of a sender do to its record.
LEMMA SenderMoves ==
    ASSUME RingOK, NEW s \in Senders
    PROVE  /\ \A to \in SendPlaces : Goes(s, to) =>
                /\ send' \in [Senders -> SendSet]
                /\ \A z \in Senders \ {s} : send'[z] = send[z]
                /\ send'[s].at = to /\ send'[s].tail = send[s].tail /\ send'[s].n = send[s].n
           /\ Returns(s) => /\ send' \in [Senders -> SendSet]
                            /\ \A z \in Senders \ {s} : send'[z] = send[z]
                            /\ send'[s].at = "idle" /\ send'[s].n = send[s].n + 1
           /\ \A p \in {"head"} : send' = [send EXCEPT ![s].at = p, ![s].tail = tail] =>
                /\ send' \in [Senders -> SendSet]
                /\ \A z \in Senders \ {s} : send'[z] = send[z]
                /\ send'[s].at = p /\ send'[s].n = send[s].n
<1>1. send \in [Senders -> SendSet] /\ send[s] \in SendSet /\ tail \in Nat
  BY DEF RingOK
<1>2. ASSUME NEW to \in SendPlaces, Goes(s, to)
      PROVE  /\ send' \in [Senders -> SendSet]
             /\ \A z \in Senders \ {s} : send'[z] = send[z]
             /\ send'[s].at = to /\ send'[s].tail = send[s].tail /\ send'[s].n = send[s].n
  BY <1>1, <1>2 DEF Goes, SendSet
<1>3. ASSUME Returns(s)
      PROVE  /\ send' \in [Senders -> SendSet]
             /\ \A z \in Senders \ {s} : send'[z] = send[z]
             /\ send'[s].at = "idle" /\ send'[s].n = send[s].n + 1
  <2>1. PICK y : y = [send EXCEPT ![s].at = "idle"]
    OBVIOUS
  <2>2. /\ y \in [Senders -> SendSet] /\ y[s].at = "idle" /\ y[s].n = send[s].n
        /\ \A z \in Senders \ {s} : y[z] = send[z]
    BY <1>1, <2>1 DEF SendSet, SendPlaces
  <2>3. send' = [y EXCEPT ![s].n = @ + 1]
    BY <1>3, <2>1 DEF Returns
  <2> QED BY <2>2, <2>3 DEF SendSet
<1>4. ASSUME NEW p \in {"head"}, send' = [send EXCEPT ![s].at = p, ![s].tail = tail]
      PROVE  /\ send' \in [Senders -> SendSet]
             /\ \A z \in Senders \ {s} : send'[z] = send[z]
             /\ send'[s].at = p /\ send'[s].n = send[s].n
  <2>1. PICK y : y = [send EXCEPT ![s].at = p]
    OBVIOUS
  <2>2. /\ y \in [Senders -> SendSet] /\ y[s].at = p /\ y[s].n = send[s].n
        /\ \A z \in Senders \ {s} : y[z] = send[z]
    BY <1>1, <2>1 DEF SendSet, SendPlaces
  <2>3. send' = [y EXCEPT ![s].tail = tail]
    BY <1>4, <2>1
  <2> QED BY <1>1, <2>2, <2>3 DEF SendSet
<1> QED BY <1>2, <1>3, <1>4

LEMMA ReceiverMoves ==
    ASSUME RingOK, NEW r \in Receivers
    PROVE  /\ \A to \in RecvPlaces : Moves(r, to) =>
                /\ recv' \in [Receivers -> RecvSet]
                /\ \A z \in Receivers \ {r} : recv'[z] = recv[z]
                /\ recv'[r].at = to
           /\ recv' = [recv EXCEPT ![r].at = "tail", ![r].head = head] =>
                /\ recv' \in [Receivers -> RecvSet]
                /\ \A z \in Receivers \ {r} : recv'[z] = recv[z]
                /\ recv'[r].at = "tail"
           /\ recv' = [recv EXCEPT ![r].at = "cas", ![r].tail = tail] =>
                /\ recv' \in [Receivers -> RecvSet]
                /\ \A z \in Receivers \ {r} : recv'[z] = recv[z]
                /\ recv'[r].tail = tail /\ recv'[r].head = recv[r].head
<1>1. recv \in [Receivers -> RecvSet] /\ recv[r] \in RecvSet /\ tail \in Nat /\ head \in Nat
  BY DEF RingOK
<1>2. ASSUME NEW to \in RecvPlaces, Moves(r, to)
      PROVE  /\ recv' \in [Receivers -> RecvSet]
             /\ \A z \in Receivers \ {r} : recv'[z] = recv[z]
             /\ recv'[r].at = to
  BY <1>1, <1>2 DEF Moves, RecvSet
<1>3. ASSUME recv' = [recv EXCEPT ![r].at = "tail", ![r].head = head]
      PROVE  /\ recv' \in [Receivers -> RecvSet]
             /\ \A z \in Receivers \ {r} : recv'[z] = recv[z]
             /\ recv'[r].at = "tail"
  <2>1. PICK y : y = [recv EXCEPT ![r].at = "tail"]
    OBVIOUS
  <2>2. /\ y \in [Receivers -> RecvSet] /\ y[r].at = "tail"
        /\ \A z \in Receivers \ {r} : y[z] = recv[z]
    BY <1>1, <2>1 DEF RecvSet, RecvPlaces
  <2>3. recv' = [y EXCEPT ![r].head = head]
    BY <1>3, <2>1
  <2> QED BY <1>1, <2>2, <2>3 DEF RecvSet
<1>4. ASSUME recv' = [recv EXCEPT ![r].at = "cas", ![r].tail = tail]
      PROVE  /\ recv' \in [Receivers -> RecvSet]
             /\ \A z \in Receivers \ {r} : recv'[z] = recv[z]
             /\ recv'[r].tail = tail /\ recv'[r].head = recv[r].head
  <2>1. PICK y : y = [recv EXCEPT ![r].at = "cas"]
    OBVIOUS
  <2>2. /\ y \in [Receivers -> RecvSet] /\ y[r].head = recv[r].head
        /\ \A z \in Receivers \ {r} : y[z] = recv[z]
    BY <1>1, <2>1 DEF RecvSet, RecvPlaces
  <2>3. recv' = [y EXCEPT ![r].tail = tail]
    BY <1>4, <2>1
  <2> QED BY <1>1, <2>2, <2>3 DEF RecvSet
<1> QED BY <1>2, <1>3, <1>4

----------------------------------------------------------------------------
\* Places are taken only with room, and given up only when there is one.
LEMMA SendPreserves ==
    ASSUME IInv, NEW s \in Senders, Enter(s) \/ Enqueue(s)
    PROVE  IInv'
<1> USE DEF IInv
<1>1. world' = world /\ head' = head
  BY DEF Enter, Enqueue, LoadHead, CasTail, Store, LookForWaiters, Ring
<1>2. \A z \in Senders : Program(z)' = Program(z)
  BY <1>1 DEF Program
<1>3. head \in Nat /\ tail \in Nat /\ send[s] \in SendSet
  BY DEF RingOK
<1>4. \A p \in {"idle", "head", "cas", "store", "look", "ring"} : p \in SendPlaces
  BY DEF SendPlaces
<1>r. CASE recv' = recv /\ tail' = tail /\ sent' = sent
  <2>1. /\ send' \in [Senders -> SendSet] /\ \A z \in Senders \ {s} : send'[z] = send[z]
        /\ send'[s].at # "idle" => send'[s].n \in DOMAIN Program(s)
        /\ send'[s].at = "cas" => HasRoom(send'[s].tail - head)
    <3>1. CASE Enter(s)
      BY <3>1, SenderMoves DEF Enter
    <3>2. CASE LoadHead(s)
      BY <1>4, <3>2, SenderMoves DEF LoadHead, SendersOK
    <3>3. CASE CasTail(s)
      <4>1. tail + 1 # tail
        BY <1>3
      <4>2. send' = [send EXCEPT ![s].at = "head", ![s].tail = tail] /\ send[s].at = "cas"
        BY <1>r, <3>3, <4>1 DEF CasTail, StillFree
      <4> QED BY <4>2, SenderMoves DEF SendersOK
    <3>4. CASE Store(s)
      BY <1>4, <3>4, SenderMoves DEF Store, SendersOK
    <3>5. CASE LookForWaiters(s)
      BY <1>4, <3>5, SenderMoves DEF LookForWaiters, SendersOK
    <3>6. CASE Ring(s)
      BY <1>4, <3>6, SenderMoves DEF Ring
    <3> QED BY <3>1, <3>2, <3>3, <3>4, <3>5, <3>6 DEF Enqueue
  <2>2. RingOK'
    BY <1>1, <1>r, <2>1 DEF RingOK
  <2>3. SendersOK'
    BY <1>1, <1>2, <2>1 DEF SendersOK, HasRoom
  <2>4. ReceiversOK'
    BY <1>r DEF ReceiversOK
  <2> QED BY <2>2, <2>3, <2>4
<1>5. CASE CasTail(s) /\ StillFree(s)
  <2>1. /\ tail' = tail + 1 /\ sent' = Append(sent, Message(s)) /\ Goes(s, "store")
        /\ recv' = recv /\ send[s].at = "cas"
    BY <1>5 DEF CasTail, StillFree
  <2>2. /\ send' \in [Senders -> SendSet] /\ \A z \in Senders \ {s} : send'[z] = send[z]
        /\ send'[s].at = "store" /\ send'[s].n = send[s].n
    BY <1>4, <2>1, SenderMoves
  <2>3. Message(s) \in Messages
    BY <2>1, MessageTyped DEF SendersOK
  <2>4. sent' \in Seq(Messages) /\ tail' = Len(sent')
    BY <2>1, <2>3 DEF RingOK
  <2>5. RingOK'
    BY <1>1, <1>3, <2>1, <2>2, <2>4 DEF RingOK
  <2>6. SendersOK'
    BY <1>1, <1>2, <2>1, <2>2 DEF SendersOK, HasRoom
  <2>7. ReceiversOK'
    <3> SUFFICES ASSUME NEW r \in Receivers, recv[r].at = "cas"
                 PROVE  recv[r].head < recv[r].tail /\ recv[r].tail <= tail + 1
      BY <2>1 DEF ReceiversOK
    <3>1. recv[r].tail \in Nat
      BY DEF RingOK, RecvSet
    <3> QED BY <1>3, <3>1 DEF ReceiversOK
  <2> QED BY <2>5, <2>6, <2>7
<1>6. CASE Ring(s)
  <2>1. CASE recv' = recv
    BY <1>6, <1>r, <2>1 DEF Ring
  <2>2. CASE \E r \in Receivers : recv' = Called(r)
    <3>1. PICK r \in Receivers : recv' = [recv EXCEPT ![r].at = "woken"]
      BY <2>2 DEF Called
    <3>2. "woken" \in RecvPlaces
      BY DEF RecvPlaces
    <3>3. /\ recv' \in [Receivers -> RecvSet] /\ recv'[r].at = "woken"
          /\ \A z \in Receivers \ {r} : recv'[z] = recv[z]
      BY <3>1, <3>2, ReceiverMoves DEF Moves
    <3>4. /\ send' \in [Senders -> SendSet] /\ send'[s].at = "idle"
          /\ \A z \in Senders \ {s} : send'[z] = send[z]
      BY <1>6, SenderMoves DEF Ring
    <3>5. tail' = tail /\ sent' = sent
      BY <1>6 DEF Ring
    <3>6. RingOK'
      BY <1>1, <3>3, <3>4, <3>5 DEF RingOK
    <3>7. SendersOK'
      BY <1>1, <1>2, <3>4 DEF SendersOK, HasRoom
    <3>8. ReceiversOK'
      BY <3>3, <3>5 DEF ReceiversOK
    <3> QED BY <3>6, <3>7, <3>8
  <2> QED BY <1>6, <2>1, <2>2 DEF Ring
<1> QED BY <1>r, <1>5, <1>6 DEF Enter, Enqueue, LoadHead, CasTail, Store, LookForWaiters

LEMMA ReceivePreserves ==
    ASSUME IInv, NEW r \in Receivers, Dequeue(r)
    PROVE  IInv' /\ (head' = head \/ (head' = head + 1 /\ head < tail))
<1> USE DEF IInv
<1>1. UNCHANGED <<world, tail, sent, send>>
  BY DEF Dequeue, Look, LoadTail, CasHead, Take, Nap, EndNap, Lock, Wake
<1>2. /\ head \in Nat /\ tail \in Nat /\ head <= tail
      /\ recv[r].head \in Nat /\ recv[r].tail \in Nat
  BY DEF RingOK, RecvSet
<1>3. \A p \in {"idle", "head", "tail", "take", "nap", "lock", "asleep", "back"} :
        p \in RecvPlaces
  BY DEF RecvPlaces
<1>m. Misses(r) => \E p \in {"lock", "asleep"} : Moves(r, p)
  BY DEF Misses
<1>4. /\ recv' \in [Receivers -> RecvSet] /\ \A z \in Receivers \ {r} : recv'[z] = recv[z]
      /\ recv'[r].at = "cas" => recv'[r].head < recv'[r].tail /\ recv'[r].tail <= tail
  <2>1. CASE Look(r)
    BY <2>1, ReceiverMoves DEF Look
  <2>2. CASE LoadTail(r)
    <3>1. CASE Misses(r)
      BY <1>3, <1>m, <3>1, ReceiverMoves
    <3>2. CASE ~(tail <= recv[r].head) /\ recv' = [recv EXCEPT ![r].at = "cas", ![r].tail = tail]
      <4>1. /\ recv' \in [Receivers -> RecvSet]
            /\ \A z \in Receivers \ {r} : recv'[z] = recv[z]
            /\ recv'[r].tail = tail /\ recv'[r].head = recv[r].head
        BY <3>2, ReceiverMoves
      <4>2. recv[r].head < tail /\ tail <= tail
        BY <1>2, <3>2
      <4> QED BY <4>1, <4>2
    <3> QED BY <2>2, <3>1, <3>2 DEF LoadTail
  <2>3. CASE CasHead(r)
    <3>1. CASE Misses(r)
      BY <1>3, <1>m, <3>1, ReceiverMoves
    <3> QED BY <1>3, <2>3, <3>1, ReceiverMoves DEF CasHead
  <2>4. CASE Take(r) \/ Nap(r) \/ EndNap(r) \/ Lock(r) \/ Wake(r)
    BY <1>3, <2>4, ReceiverMoves DEF Take, Nap, EndNap, Lock, Wake
  <2> QED BY <2>1, <2>2, <2>3, <2>4 DEF Dequeue
<1>5. head' = head \/ (head' = head + 1 /\ head < tail)
  <2>1. CASE CasHead(r)
    <3>1. recv[r].head < recv[r].tail /\ recv[r].tail <= tail
      BY <2>1 DEF CasHead, ReceiversOK
    <3> QED BY <1>2, <2>1, <3>1 DEF CasHead
  <2> QED BY <2>1 DEF Dequeue, Look, LoadTail, Take, Nap, EndNap, Lock, Wake
<1>6. head' \in Nat /\ head' <= tail /\ head <= head'
  BY <1>2, <1>5
<1>7. RingOK'
  BY <1>1, <1>4, <1>6 DEF RingOK
<1>8. SendersOK'
  <2> SUFFICES ASSUME NEW z \in Senders
               PROVE  /\ send[z].at # "idle" => send[z].n \in DOMAIN Program(z)
                      /\ send[z].at = "cas" => HasRoom(send[z].tail - head')
    BY <1>1 DEF SendersOK, Program
  <2>1. send[z].tail \in Nat
    BY DEF RingOK, SendSet
  <2> QED BY <1>2, <1>6, <2>1, MessageQueuesAssumption DEF SendersOK, HasRoom
<1>9. ReceiversOK'
  <2> SUFFICES ASSUME NEW z \in Receivers, recv'[z].at = "cas"
               PROVE  recv'[z].head < recv'[z].tail /\ recv'[z].tail <= tail
    BY <1>1 DEF ReceiversOK
  <2>1. CASE z = r
    BY <1>4, <2>1
  <2>2. CASE z # r
    BY <1>4, <2>2 DEF ReceiversOK
  <2> QED BY <2>1, <2>2
<1>10. IInv'
  BY <1>7, <1>8, <1>9
<1> QED BY <1>5, <1>10

LEMMA NextOK == IInv /\ [Next]_vars => IInv'
<1> SUFFICES ASSUME IInv, [Next]_vars PROVE IInv'
  OBVIOUS
<1>1. CASE UNCHANGED vars
  BY <1>1 DEF vars, IInv, RingOK, SendersOK, ReceiversOK, Program
<1> QED BY <1>1, SendPreserves, ReceivePreserves DEF Next

\* No sender takes a place without room for its message, and no receiver one
\* that no sender has taken (the two CAS loops of boc_enqueue, boc_dequeue).
THEOREM MessageQueues_Invariance == Spec => []IInv
BY InitOK, NextOK, PTL DEF Spec

----------------------------------------------------------------------------
\* The messages between head and tail.
LEMMA SubSeqFacts ==
    ASSUME NEW q \in Seq(Messages), NEW h \in Nat, h <= Len(q)
    PROVE  LET b == SubSeq(q, h + 1, Len(q)) IN
             /\ b \in Seq(Messages) /\ Len(b) = Len(q) - h
             /\ \A i \in 1 .. Len(q) - h : b[i] = q[h + i]
OBVIOUS

LEMMA BoxSent ==
    ASSUME NEW q \in Seq(Messages), NEW h \in Nat, h <= Len(q), NEW m \in Messages
    PROVE  SubSeq(Append(q, m), h + 1, Len(q) + 1) = Append(SubSeq(q, h + 1, Len(q)), m)
<1>1. PICK a : a = Append(q, m)
  OBVIOUS
<1>2. PICK b : b = SubSeq(q, h + 1, Len(q))
  OBVIOUS
<1>3. PICK c : c = SubSeq(a, h + 1, Len(a))
  OBVIOUS
<1>4. a \in Seq(Messages) /\ Len(a) = Len(q) + 1 /\ a[Len(q) + 1] = m
      /\ \A i \in 1 .. Len(q) : a[i] = q[i]
  BY <1>1
<1>5. b \in Seq(Messages) /\ Len(b) = Len(q) - h
      /\ \A i \in 1 .. Len(q) - h : b[i] = q[h + i]
  BY <1>2, SubSeqFacts
<1>6. c \in Seq(Messages) /\ Len(c) = Len(q) + 1 - h
      /\ \A i \in 1 .. Len(q) + 1 - h : c[i] = a[h + i]
  BY <1>3, <1>4, SubSeqFacts
<1>7. PICK d : d = Append(b, m)
  OBVIOUS
<1>8. d \in Seq(Messages) /\ Len(d) = Len(b) + 1 /\ d[Len(b) + 1] = m
      /\ \A i \in 1 .. Len(b) : d[i] = b[i]
  BY <1>5, <1>7
<1>9. \A i \in 1 .. Len(c) : c[i] = d[i]
  <2> TAKE i \in 1 .. Len(c)
  <2>1. CASE i = Len(q) + 1 - h
    BY <1>4, <1>5, <1>6, <1>8, <2>1
  <2>2. CASE i # Len(q) + 1 - h
    <3>1. i \in 1 .. Len(q) - h /\ h + i \in 1 .. Len(q)
      BY <1>6, <2>2
    <3>2. c[i] = q[h + i] /\ b[i] = q[h + i]
      BY <1>4, <1>5, <1>6, <3>1
    <3> QED BY <1>5, <1>8, <3>1, <3>2
  <2> QED BY <2>1, <2>2
<1>10. Len(c) = Len(d)
  BY <1>5, <1>6, <1>8
<1>11. c = d
  BY <1>6, <1>8, <1>9, <1>10, SeqEqual
<1> QED BY <1>1, <1>2, <1>3, <1>4, <1>7, <1>11

LEMMA BoxReceived ==
    ASSUME NEW q \in Seq(Messages), NEW h \in Nat, h < Len(q)
    PROVE  SubSeq(q, h + 2, Len(q)) = Tail(SubSeq(q, h + 1, Len(q)))
<1>1. PICK b : b = SubSeq(q, h + 1, Len(q))
  OBVIOUS
<1>2. PICK c : c = SubSeq(q, h + 2, Len(q))
  OBVIOUS
<1>3. b \in Seq(Messages) /\ Len(b) = Len(q) - h
      /\ \A i \in 1 .. Len(q) - h : b[i] = q[h + i]
  BY <1>1, SubSeqFacts
<1>4. h + 1 \in Nat /\ h + 1 <= Len(q) /\ h + 1 + 1 = h + 2
  OBVIOUS
<1>5. c \in Seq(Messages) /\ Len(c) = Len(q) - (h + 1)
      /\ \A i \in 1 .. Len(q) - (h + 1) : c[i] = q[h + 1 + i]
  BY <1>2, <1>4, SubSeqFacts
<1>6. PICK d : d = Tail(b)
  OBVIOUS
<1>7. d \in Seq(Messages) /\ Len(d) = Len(b) - 1 /\ \A i \in 1 .. Len(d) : d[i] = b[i + 1]
  BY <1>3, <1>6
<1>8. Len(c) = Len(d)
  BY <1>3, <1>5, <1>7
<1>9. \A i \in 1 .. Len(c) : c[i] = d[i]
  <2> TAKE i \in 1 .. Len(c)
  <2>1. i \in 1 .. Len(q) - (h + 1) /\ i + 1 \in 1 .. Len(q) - h /\ h + 1 + i = h + (i + 1)
    BY <1>5
  <2> QED BY <1>3, <1>5, <1>7, <1>8, <2>1
<1>10. c = d
  BY <1>5, <1>7, <1>8, <1>9, SeqEqual
<1> QED BY <1>1, <1>2, <1>6, <1>10

\* The ring is a mailbox: what is between head and tail is first in, first
\* out, and never more than BOC_CAPACITY messages, whoever sends and receives
\* at once.
THEOREM MessageQueues_ImplementsMailbox == Spec => ImplementsMailbox
<1> DEFINE b == SubSeq(sent, head + 1, tail)
<1>1. Init => Box!Init
  <2> SUFFICES ASSUME Init PROVE b = <<>>
    BY DEF Box!Init
  <2>1. sent = <<>> /\ head = 0 /\ tail = 0
    BY DEF Init
  <2> QED BY <2>1
<1>2. IInv /\ [Next]_vars => [Box!Next]_b
  <2> SUFFICES ASSUME IInv, [Next]_vars PROVE Box!Next \/ b' = b
    OBVIOUS
  <2>1. sent \in Seq(Messages) /\ tail = Len(sent) /\ head \in Nat /\ head <= tail
    BY DEF IInv, RingOK
  <2>2. b \in Seq(Messages) /\ Len(b) = tail - head
    BY <2>1, SubSeqFacts
  <2>3. CASE UNCHANGED <<head, tail, sent>>
    BY <2>3
  <2>4. ASSUME NEW s \in Senders, CasTail(s), StillFree(s) PROVE Box!Next
    <3>1. tail' = tail + 1 /\ sent' = Append(sent, Message(s)) /\ head' = head
      BY <2>4 DEF CasTail, StillFree
    <3>2. Message(s) \in Messages
      BY <2>4, MessageTyped DEF CasTail, IInv, SendersOK
    <3>3. Len(b) < Capacity
      BY <2>2, <2>4 DEF CasTail, StillFree, IInv, SendersOK, HasRoom
    <3>4. b' = Append(b, Message(s))
      BY <2>1, <3>1, <3>2, BoxSent
    <3>5. Box!Send(Message(s))
      BY <3>3, <3>4 DEF Box!Send
    <3> QED BY <3>2, <3>5 DEF Box!Next
  <2>5. ASSUME NEW r \in Receivers, Dequeue(r) PROVE Box!Next \/ b' = b
    <3>1. tail' = tail /\ sent' = sent
      BY <2>5 DEF Dequeue, Look, LoadTail, CasHead, Take, Nap, EndNap, Lock, Wake
    <3>2. head' = head \/ (head' = head + 1 /\ head < tail)
      BY <2>5, ReceivePreserves
    <3>3. CASE head' = head + 1 /\ head < tail
      <4>1. head' + 1 = head + 2
        BY <2>1, <3>3
      <4>2. b' = Tail(b)
        BY <2>1, <3>1, <3>3, <4>1, BoxReceived
      <4>3. Len(b) # 0
        BY <2>1, <2>2, <3>3
      <4>e. Len(<<>>) = 0
        OBVIOUS
      <4>4. b # <<>>
        BY <4>3, <4>e, Zenon
      <4>5. Box!Receive
        BY <4>2, <4>4 DEF Box!Receive
      <4> QED BY <4>5 DEF Box!Next
    <3> QED BY <3>1, <3>2, <3>3
  <2> QED BY <2>3, <2>4, <2>5
          DEF Next, Enter, Enqueue, LoadHead, CasTail, Store, LookForWaiters, Ring, vars
<1> QED BY <1>1, <1>2, MessageQueues_Invariance, PTL DEF Spec, ImplementsMailbox, Box!Spec
----------------------------------------------------------------------------
(***************************************************************************)
(* One receiver for each message.  A place p of the ring is live while it  *)
(* lies between head and tail, or a receiver has taken it and has not yet  *)
(* read its slot; the slot of a live place is empty until its sender has   *)
(* stored the message, and every other slot is empty.  Two live places     *)
(* never share a slot as long as no receiver falls a whole turn behind,    *)
(* which boc_enqueue does not check: it looks at head, and head has        *)
(* already left the place.                                                 *)
(***************************************************************************)
Storing(s) == send[s].at = "store"
Taking(r) == recv[r].at \in {"take", "nap"}

Live(p) == p \in head .. tail - 1 \/ \E r \in Receivers : Taking(r) /\ recv[r].head = p

\* Its sender has the place, and the slot not yet the message.
Pending(p) == \E s \in Senders : Storing(s) /\ send[s].tail = p

\* No receiver that still has to read its slot is a whole turn behind.
NoLap == \A r \in Receivers : Taking(r) => tail - recv[r].head <= Capacity

SlotsTyped == /\ slots \in [0 .. Capacity - 1 -> Messages \union {None}]
              /\ got \in [Messages -> SUBSET Receivers]

StoresOK ==
  /\ \A s \in Senders : Storing(s) =>
       Live(send[s].tail) /\ sent[send[s].tail + 1] = Message(s)
  /\ \A s, z \in Senders :
       Storing(s) /\ Storing(z) /\ send[s].tail = send[z].tail => s = z

TakesOK ==
  /\ \A r \in Receivers : Taking(r) => recv[r].head < head
  /\ \A r, q \in Receivers :
       Taking(r) /\ Taking(q) /\ recv[r].head = recv[q].head => r = q

SlotsOK == \A p \in Nat : Live(p) =>
             slots[Slot(p)] = IF Pending(p) THEN None ELSE sent[p + 1]

EmptyOK == \A i \in 0 .. Capacity - 1 :
             (\A p \in Nat : Live(p) => Slot(p) # i) => slots[i] = None

\* The n-th message of s has its place.
Used(s, n) == \/ n < send[s].n
              \/ n = send[s].n /\ send[s].at \in {"store", "look", "ring"}

SentOK ==
  /\ \A i \in 1 .. tail : \E s \in Senders : \E n \in DOMAIN Program(s) :
       Used(s, n) /\ sent[i] = Program(s)[n]
  /\ \A i, j \in 1 .. tail : sent[i] = sent[j] => i = j

\* What somebody has got was sent at a place that is done with.
GotOK == \A m \in Messages : got[m] # {} =>
  /\ \E p \in Nat : /\ p < head /\ sent[p + 1] = m
                    /\ \A r \in Receivers : Taking(r) => recv[r].head # p
  /\ \E r \in Receivers : got[m] = {r}

RoomOK == tail - head <= Capacity

PlacesInv == /\ SlotsTyped /\ RoomOK /\ StoresOK /\ TakesOK
             /\ SlotsOK /\ EmptyOK /\ SentOK /\ GotOK

----------------------------------------------------------------------------
LEMMA SlotFacts ==
    ASSUME NEW p \in Nat, NEW q \in Nat
    PROVE  /\ Slot(p) \in 0 .. Capacity - 1
           /\ Slot(p) = Slot(q) /\ p < q => q - p >= Capacity
<1>1. PICK c \in Nat \ {0} : c = Capacity
  BY MessageQueuesAssumption
<1>2. PICK a \in Int : a = p \div c
  OBVIOUS
<1>3. PICK b \in Int : b = q \div c
  OBVIOUS
<1>4. PICK x \in Int : x = p % c
  OBVIOUS
<1>5. PICK y \in Int : y = q % c
  OBVIOUS
<1>6. p = c * a + x /\ x \in 0 .. c - 1
  BY <1>1, <1>2, <1>4
<1>7. q = c * b + y /\ y \in 0 .. c - 1
  BY <1>1, <1>3, <1>5
<1>8. ASSUME x = y, p < q PROVE q - p >= c
  <2>1. q - p = c * (b - a)
    BY <1>1, <1>6, <1>7, <1>8
  <2>2. b - a >= 1
    BY <1>1, <1>8, <2>1
  <2>3. c * (b - a) >= c
    BY <1>1, <2>2
  <2> QED BY <1>1, <2>1, <2>3
<1> QED BY <1>1, <1>4, <1>5, <1>6, <1>8 DEF Slot

\* Two live places have two slots.
LEMMA LiveFacts ==
    ASSUME IInv, PlacesInv, NoLap, NEW p \in Nat, Live(p)
    PROVE  /\ p < tail /\ tail - p <= Capacity
           /\ \A q \in Nat : Live(q) /\ Slot(p) = Slot(q) => p = q
<1>1. head \in Nat /\ tail \in Nat /\ head <= tail /\ Capacity \in Nat
  BY MessageQueuesAssumption DEF IInv, RingOK
<1>2. ASSUME NEW q \in Nat, Live(q) PROVE q < tail /\ tail - q <= Capacity
  <2>1. CASE q \in head .. tail - 1
    BY <1>1, <2>1 DEF PlacesInv, RoomOK
  <2>2. CASE \E r \in Receivers : Taking(r) /\ recv[r].head = q
    <3>1. q < head
      BY <2>2 DEF PlacesInv, TakesOK
    <3>2. tail - q <= Capacity
      BY <2>2 DEF NoLap
    <3> QED BY <1>1, <3>1, <3>2
  <2> QED BY <1>2, <2>1, <2>2 DEF Live
<1>3. ASSUME NEW q \in Nat, Live(q), Slot(p) = Slot(q) PROVE p = q
  <2>1. q < tail /\ tail - q <= Capacity /\ p < tail /\ tail - p <= Capacity
    BY <1>2, <1>3
  <2>2. p < q => q - p >= Capacity
    BY <1>3, SlotFacts
  <2>3. q < p => p - q >= Capacity
    BY <1>3, SlotFacts
  <2> QED BY <1>1, <2>1, <2>2, <2>3
<1> QED BY <1>2, <1>3
----------------------------------------------------------------------------
\* Steps that touch neither the ring nor anybody's place in it.
LEMMA Frame ==
    ASSUME IInv, PlacesInv, UNCHANGED <<world, head, tail, slots, sent, got>>,
           \A s \in Senders : /\ Storing(s)' <=> Storing(s)
                              /\ Storing(s) => /\ send'[s].tail = send[s].tail
                                               /\ send'[s].n = send[s].n,
           \A r \in Receivers : /\ Taking(r)' <=> Taking(r)
                                /\ Taking(r) => recv'[r].head = recv[r].head,
           \A s \in Senders : \A n \in DOMAIN Program(s) : Used(s, n) => Used(s, n)'
    PROVE  PlacesInv'
<1>1. \A p : Live(p)' <=> Live(p)
  BY DEF Live
<1>2. \A p : Pending(p)' <=> Pending(p)
  BY DEF Pending
<1>3. \A s \in Senders : Program(s)' = Program(s)
  BY DEF Program
<1>4. \A s \in Senders : Storing(s) => Message(s)' = Message(s)
  BY <1>3 DEF Message
<1>5. SlotsTyped' /\ RoomOK'
  BY DEF PlacesInv, SlotsTyped, RoomOK
<1>6. StoresOK'
  <2>1. ASSUME NEW s \in Senders, Storing(s)'
        PROVE  Live(send[s].tail)' /\ sent'[send'[s].tail + 1] = Message(s)'
    BY <1>1, <1>4, <2>1 DEF PlacesInv, StoresOK
  <2>2. ASSUME NEW s \in Senders, NEW z \in Senders, Storing(s)', Storing(z)',
               send'[s].tail = send'[z].tail
        PROVE  s = z
    BY <2>2 DEF PlacesInv, StoresOK
  <2>3. \A s \in Senders : Storing(s)' => Live(send[s].tail)'
    BY <2>1
  <2> QED BY <1>1, <1>4, <2>2 DEF PlacesInv, StoresOK
<1>7. TakesOK'
  BY DEF PlacesInv, TakesOK
<1>8. SlotsOK'
  BY <1>1, <1>2 DEF PlacesInv, SlotsOK, Slot
<1>9. EmptyOK'
  BY <1>1 DEF PlacesInv, EmptyOK, Slot
<1>10. SentOK'
  BY <1>3 DEF PlacesInv, SentOK
<1>11. GotOK'
  BY DEF PlacesInv, GotOK
<1> QED BY <1>5, <1>6, <1>7, <1>8, <1>9, <1>10, <1>11 DEF PlacesInv
LEMMA ProgramFacts ==
    ASSUME RingOK
    PROVE  /\ \A s \in Senders : /\ Program(s) \in Seq(Messages)
                                 /\ \A n \in DOMAIN Program(s) : n \in Nat
           /\ \A s, z \in Senders : \A i \in DOMAIN Program(s), j \in DOMAIN Program(z) :
                Program(s)[i] = Program(z)[j] => s = z /\ i = j
<1>1. world \in Worlds
  BY DEF RingOK
<1>2. \A s \in Senders : Program(s) \in Seq(Messages)
  BY <1>1, MessageQueuesAssumption DEF Program
<1>3. ASSUME NEW s \in Senders, NEW n \in DOMAIN Program(s) PROVE n \in Nat
  BY <1>2
<1> QED BY <1>1, <1>2, <1>3, MessageQueuesAssumption DEF Program

\* A sender that does not touch the ring.
LEMMA SendFrame ==
    ASSUME IInv, PlacesInv, NEW s \in Senders,
           \/ Enter(s) \/ LoadHead(s) \/ LookForWaiters(s) \/ Ring(s)
           \/ CasTail(s) /\ ~StillFree(s)
    PROVE  PlacesInv'
<1>1. UNCHANGED <<world, head, tail, slots, sent, got>>
  BY DEF Enter, LoadHead, CasTail, LookForWaiters, Ring
<1>2. /\ \A z \in Senders \ {s} : send'[z] = send[z]
      /\ send[s].at \notin {"store"} /\ send'[s].at # "store"
      /\ \/ send'[s].n = send[s].n /\ send[s].at \notin {"look", "ring"}
         \/ send'[s].n = send[s].n /\ send'[s].at = "ring"
         \/ send'[s].at = "idle" /\ send'[s].n = send[s].n + 1
  <2>0. RingOK /\ {"cas", "ring", "head"} \subseteq SendPlaces
    BY DEF IInv, SendPlaces
  <2>1. CASE Enter(s)
    BY <2>0, <2>1, SenderMoves DEF Enter
  <2>2. CASE LoadHead(s)
    BY <2>0, <2>2, SenderMoves DEF LoadHead
  <2>3. CASE LookForWaiters(s)
    BY <2>0, <2>3, SenderMoves DEF LookForWaiters
  <2>4. CASE Ring(s)
    BY <2>0, <2>4, SenderMoves DEF Ring
  <2>5. CASE CasTail(s) /\ ~StillFree(s)
    BY <2>0, <2>5, SenderMoves DEF CasTail
  <2> QED BY <2>1, <2>2, <2>3, <2>4, <2>5
<1>3. \A z \in Senders : /\ Storing(z)' <=> Storing(z)
                         /\ Storing(z) => /\ send'[z].tail = send[z].tail
                                          /\ send'[z].n = send[z].n
  BY <1>2 DEF Storing
<1>4. ASSUME NEW z \in Senders, NEW n \in DOMAIN Program(z), Used(z, n) PROVE Used(z, n)'
  <2>1. CASE z # s
    BY <1>2, <1>4, <2>1 DEF Used
  <2>2. CASE z = s
    <3>1. n \in Nat
      BY <1>4, ProgramFacts DEF IInv
    <3>2. send[s].n \in Nat
      BY DEF IInv, RingOK, SendSet
    <3>3. CASE send'[s].n = send[s].n
      BY <1>2, <1>4, <2>2, <3>2, <3>3 DEF Used
    <3>4. CASE send'[s].n = send[s].n + 1
      <4>1. n < send[s].n + 1
        BY <1>4, <2>2, <3>1, <3>2 DEF Used
      <4> QED BY <2>2, <3>4, <4>1 DEF Used
    <3> QED BY <1>2, <3>3, <3>4
  <2> QED BY <2>1, <2>2
<1>5. \A r \in Receivers : /\ Taking(r)' <=> Taking(r)
                           /\ Taking(r) => recv'[r].head = recv[r].head
  <2>1. CASE recv' = recv
    BY <2>1 DEF Taking
  <2>2. ASSUME NEW r \in Receivers, recv[r].at = "asleep", recv' = Called(r)
        PROVE  \A q \in Receivers : /\ Taking(q)' <=> Taking(q)
                                    /\ Taking(q) => recv'[q].head = recv[q].head
    <3>1. RingOK /\ "woken" \in RecvPlaces
      BY DEF IInv, RecvPlaces
    <3>2. /\ recv'[r].at = "woken"
          /\ \A z \in Receivers \ {r} : recv'[z] = recv[z]
      BY <2>2, <3>1, ReceiverMoves DEF Moves, Called
    <3> QED BY <2>2, <3>2 DEF Taking
  <2> QED BY <2>1, <2>2 DEF Enter, LoadHead, CasTail, LookForWaiters, Ring
<1> QED BY <1>1, <1>3, <1>4, <1>5, Frame

\* The message goes into the slot that waited for it.
LEMMA StorePreserves ==
    ASSUME IInv, PlacesInv, NoLap, NEW s \in Senders, Store(s)
    PROVE  PlacesInv'
<1>p. PICK p \in Nat : p = send[s].tail
  BY DEF IInv, RingOK, SendSet
<1>1. /\ UNCHANGED <<world, head, tail, recv, sent, got>>
      /\ slots' = [slots EXCEPT ![Slot(p)] = Message(s)]
      /\ Storing(s)
  BY <1>p DEF Store, Storing
<1>2. RingOK /\ p \in Nat /\ tail \in Nat
  BY DEF IInv, RingOK, SendSet
<1>3. /\ \A z \in Senders \ {s} : send'[z] = send[z]
      /\ send'[s].at = "look" /\ send'[s].n = send[s].n
  <2>1. "look" \in SendPlaces /\ Goes(s, "look")
    BY DEF SendPlaces, Store
  <2> QED BY <1>2, <2>1, SenderMoves
<1>4. Live(p) /\ sent[p + 1] = Message(s)
  BY <1>1, <1>p DEF PlacesInv, StoresOK
<1>5. Message(s) \in Messages
  BY <1>1, <1>2, MessageTyped DEF IInv, SendersOK, Storing
<1>6. Slot(p) \in 0 .. Capacity - 1
  BY <1>2, SlotFacts
<1>7. \A q \in Nat : Live(q)' <=> Live(q)
  BY <1>1 DEF Live, Taking
<1>8. \A q \in Nat : q # p => (Pending(q)' <=> Pending(q))
  BY <1>1, <1>3, <1>p DEF Pending, Storing
<1>9. ~Pending(p)'
  <2> SUFFICES ASSUME NEW z \in Senders, Storing(z)', send'[z].tail = p PROVE FALSE
    BY DEF Pending
  <2>1. z # s
    BY <1>3 DEF Storing
  <2>2. Storing(z) /\ send[z].tail = p
    BY <1>3, <2>1 DEF Storing
  <2> QED BY <1>1, <1>p, <2>1, <2>2 DEF PlacesInv, StoresOK
<1>10. SlotsTyped'
  BY <1>1, <1>5 DEF PlacesInv, SlotsTyped
<1>11. StoresOK'
  <2>1. \A z \in Senders : Storing(z)' => z # s /\ send'[z] = send[z] /\ Storing(z)
    BY <1>3 DEF Storing
  <2>2. \A z \in Senders : send'[z] = send[z] => Message(z)' = Message(z)
    BY <1>1 DEF Message, Program
  <2>3. ASSUME NEW z \in Senders, Storing(z)'
        PROVE  Live(send[z].tail)' /\ sent'[send'[z].tail + 1] = Message(z)'
    <3>1. send[z].tail \in Nat /\ Live(send[z].tail) /\ sent[send[z].tail + 1] = Message(z)
      BY <2>1, <2>3 DEF IInv, RingOK, SendSet, PlacesInv, StoresOK
    <3>2. PICK k \in Nat : k = send[z].tail
      BY <3>1
    <3>3. Live(k)' /\ send'[z].tail = k
      BY <1>7, <2>1, <2>3, <3>1, <3>2
    <3> QED BY <1>1, <2>1, <2>2, <2>3, <3>1, <3>2, <3>3
  <2>4. ASSUME NEW z \in Senders, NEW y \in Senders, Storing(z)', Storing(y)',
               send'[z].tail = send'[y].tail
        PROVE  z = y
    BY <2>1, <2>4 DEF PlacesInv, StoresOK
  <2> QED BY <2>3, <2>4 DEF StoresOK
<1>12. TakesOK' /\ RoomOK'
  BY <1>1 DEF PlacesInv, TakesOK, RoomOK, Taking
<1>13. SlotsOK'
  <2> SUFFICES ASSUME NEW q \in Nat, Live(q)
               PROVE  slots'[Slot(q)] = IF Pending(q)' THEN None ELSE sent[q + 1]
    BY <1>1, <1>7 DEF SlotsOK, Slot
  <2>1. Slot(q) \in 0 .. Capacity - 1
    BY SlotFacts
  <2>2. CASE q = p
    BY <1>1, <1>4, <1>6, <1>9, <2>2 DEF PlacesInv, SlotsTyped
  <2>3. CASE q # p
    <3>1. Slot(q) # Slot(p)
      BY <1>2, <1>4, <2>3, LiveFacts
    <3>2. slots'[Slot(q)] = slots[Slot(q)]
      BY <1>1, <2>1, <3>1 DEF PlacesInv, SlotsTyped
    <3> QED BY <1>8, <2>3, <3>2 DEF PlacesInv, SlotsOK
  <2> QED BY <2>2, <2>3
<1>14. EmptyOK'
  <2> SUFFICES ASSUME NEW i \in 0 .. Capacity - 1, \A q \in Nat : Live(q) => Slot(q) # i
               PROVE  slots'[i] = None
    BY <1>7 DEF EmptyOK, Slot
  <2>1. i # Slot(p)
    BY <1>2, <1>4
  <2>2. slots'[i] = slots[i]
    BY <1>1, <2>1 DEF PlacesInv, SlotsTyped
  <2> QED BY <2>2 DEF PlacesInv, EmptyOK
<1>15. SentOK'
  <2>1. \A z \in Senders : \A n \in DOMAIN Program(z) : Used(z, n) => Used(z, n)'
    BY <1>1, <1>3 DEF Used, Storing
  <2> QED BY <1>1, <2>1 DEF PlacesInv, SentOK, Program
<1>16. GotOK'
  BY <1>1 DEF PlacesInv, GotOK, Taking
<1> QED BY <1>10, <1>11, <1>12, <1>13, <1>14, <1>15, <1>16 DEF PlacesInv
\* A place is taken: its slot is nobody's, so it is empty.
LEMMA ClaimPreserves ==
    ASSUME IInv, PlacesInv, NoLap', NEW s \in Senders, CasTail(s), StillFree(s)
    PROVE  PlacesInv'
<1>p. PICK p \in Nat : p = tail
  BY DEF IInv, RingOK
<1>1. /\ UNCHANGED <<world, head, slots, recv, got>>
      /\ tail' = p + 1 /\ sent' = Append(sent, Message(s))
      /\ send[s].at = "cas" /\ send[s].tail = p
      /\ Goes(s, "store")
  BY <1>p DEF CasTail, StillFree
<1>2. RingOK /\ sent \in Seq(Messages) /\ Len(sent) = p
      /\ head \in Nat /\ head <= p /\ Capacity \in Nat
  BY <1>p, MessageQueuesAssumption DEF IInv, RingOK
<1>3. /\ \A z \in Senders \ {s} : send'[z] = send[z]
      /\ send'[s].at = "store" /\ send'[s].n = send[s].n /\ send'[s].tail = p
  <2>1. "store" \in SendPlaces
    BY DEF SendPlaces
  <2> QED BY <1>1, <1>2, <2>1, SenderMoves
<1>4. Message(s) \in Messages /\ send[s].n \in DOMAIN Program(s)
  BY <1>1, <1>2, MessageTyped DEF IInv, SendersOK
<1>5. /\ \A i \in 1 .. p : sent'[i] = sent[i]
      /\ sent'[p + 1] = Message(s)
  BY <1>1, <1>2, <1>4
<1>6. RoomOK'
  <2>1. p - head < Capacity
    BY <1>1 DEF IInv, SendersOK, HasRoom
  <2> QED BY <1>1, <1>2, <2>1 DEF RoomOK
<1>7. \A q \in Nat : Live(q) => q < p /\ (p + 1) - q <= Capacity
  <2> SUFFICES ASSUME NEW q \in Nat, Live(q) PROVE q < p /\ (p + 1) - q <= Capacity
    OBVIOUS
  <2>1. CASE q \in head .. p - 1
    <3>1. (p + 1) - head <= Capacity
      BY <1>1, <1>6 DEF RoomOK
    <3> QED BY <1>2, <2>1, <3>1
  <2>2. CASE \E r \in Receivers : Taking(r) /\ recv[r].head = q
    <3>1. q < head
      BY <2>2 DEF PlacesInv, TakesOK
    <3>2. (p + 1) - q <= Capacity
      BY <1>1, <2>2 DEF NoLap, Taking
    <3> QED BY <1>2, <3>1, <3>2
  <2> QED BY <1>p, <2>1, <2>2 DEF Live
<1>8. \A q \in Nat : Live(q)' <=> Live(q) \/ q = p
  <2>1. \A q \in Nat : q \in head .. p <=> q \in head .. p - 1 \/ q = p
    BY <1>2
  <2>2. (p + 1) - 1 = p
    OBVIOUS
  <2>3. head' .. tail' - 1 = head .. p
    BY <1>1, <2>2
  <2>4. \A q \in Nat : Live(q)' <=>
          q \in head .. p \/ \E r \in Receivers : Taking(r) /\ recv[r].head = q
    BY <1>1, <2>3 DEF Live, Taking
  <2> QED BY <1>p, <2>1, <2>4 DEF Live
<1>9. \A z \in Senders : Storing(z) => /\ z # s /\ send'[z] = send[z]
                                       /\ send[z].tail \in Nat /\ send[z].tail < p
                                       /\ Message(z)' = Message(z)
  <2> SUFFICES ASSUME NEW z \in Senders, Storing(z)
               PROVE  /\ z # s /\ send'[z] = send[z]
                      /\ send[z].tail \in Nat /\ send[z].tail < p
                      /\ Message(z)' = Message(z)
    OBVIOUS
  <2>1. z # s /\ send'[z] = send[z]
    BY <1>1, <1>3 DEF Storing
  <2>2. send[z].tail \in Nat /\ Live(send[z].tail)
    BY DEF IInv, RingOK, SendSet, PlacesInv, StoresOK
  <2> QED BY <1>1, <1>7, <2>1, <2>2 DEF Message, Program
<1>10. \A q \in Nat : Pending(q)' <=> Pending(q) \/ q = p
  BY <1>3, <1>9 DEF Pending, Storing
<1>11. ~Pending(p)
  BY <1>9 DEF Pending
<1>12. slots[Slot(p)] = None
  <2>1. ASSUME NEW q \in Nat, Live(q) PROVE Slot(q) # Slot(p)
    <3>1. q < p /\ p - q < Capacity
      BY <1>2, <1>7, <2>1
    <3> QED BY <1>2, <3>1, SlotFacts
  <2> QED BY <2>1, SlotFacts DEF PlacesInv, EmptyOK
<1>13. SlotsTyped'
  BY <1>1 DEF PlacesInv, SlotsTyped
<1>14. StoresOK'
  <2>1. ASSUME NEW z \in Senders, Storing(z)'
        PROVE  Live(send[z].tail)' /\ sent'[send'[z].tail + 1] = Message(z)'
    <3>1. CASE z = s
      <4>1. Message(s)' = Message(s)
        BY <1>1, <1>3 DEF Message, Program
      <4>2. Live(p)' /\ send'[z].tail = p
        BY <1>3, <1>8, <3>1
      <4> QED BY <1>5, <3>1, <4>1, <4>2
    <3>2. CASE z # s
      <4>1. Storing(z)
        BY <1>3, <2>1, <3>2 DEF Storing
      <4>2. PICK k \in Nat : k = send[z].tail
        BY <1>9, <4>1
      <4>3. k < p /\ send'[z].tail = k /\ k + 1 \in 1 .. p
        BY <1>2, <1>9, <4>1, <4>2
      <4>4. Live(k) /\ sent[k + 1] = Message(z)
        BY <4>1, <4>2 DEF PlacesInv, StoresOK
      <4>5. Live(k)'
        BY <1>8, <4>4
      <4> QED BY <1>5, <1>9, <4>1, <4>3, <4>4, <4>5
    <3> QED BY <3>1, <3>2
  <2>2. ASSUME NEW z \in Senders, NEW y \in Senders, Storing(z)', Storing(y)',
               send'[z].tail = send'[y].tail
        PROVE  z = y
    <3>1. \A x \in Senders \ {s} : Storing(x)' => Storing(x)
      BY <1>3 DEF Storing
    <3> QED BY <1>3, <1>9, <2>2, <3>1 DEF PlacesInv, StoresOK
  <2> QED BY <2>1, <2>2 DEF StoresOK
<1>15. TakesOK'
  BY <1>1 DEF PlacesInv, TakesOK, Taking
<1>16. SlotsOK'
  <2> SUFFICES ASSUME NEW q \in Nat, Live(q)'
               PROVE  slots[Slot(q)] = IF Pending(q)' THEN None ELSE sent'[q + 1]
    BY <1>1 DEF SlotsOK, Slot
  <2>1. CASE q = p
    BY <1>10, <1>12, <2>1
  <2>2. CASE q # p
    <3>1. Live(q) /\ q < p
      BY <1>7, <1>8, <2>2
    <3>2. q + 1 \in 1 .. p
      BY <3>1
    <3> QED BY <1>5, <1>10, <2>2, <3>1, <3>2 DEF PlacesInv, SlotsOK
  <2> QED BY <2>1, <2>2
<1>17. EmptyOK'
  BY <1>1, <1>8 DEF PlacesInv, EmptyOK, Slot
<1>18. SentOK'
  <2>1. \A z \in Senders : \A n \in DOMAIN Program(z) : Used(z, n) => Used(z, n)'
    BY <1>1, <1>3 DEF Used
  <2>2. Used(s, send[s].n)' /\ ~Used(s, send[s].n)
    <3>1. send[s].n \in Nat
      BY DEF IInv, RingOK, SendSet
    <3>2. ~Used(s, send[s].n)
      BY <1>1, <3>1 DEF Used
    <3>3. PICK n : n = send[s].n
      OBVIOUS
    <3>4. Used(s, n)'
      BY <1>3, <3>3 DEF Used
    <3>5. n = send'[s].n
      BY <1>3, <3>3
    <3> QED BY <3>2, <3>4, <3>5
  <2>3. PICK n : n = send[s].n
    OBVIOUS
  <2>4. n \in DOMAIN Program(s) /\ Message(s) = Program(s)[n]
        /\ ~Used(s, n) /\ Used(s, n)'
    <3>1. n = send'[s].n
      BY <1>3, <2>3
    <3> QED BY <1>4, <2>2, <2>3, <3>1 DEF Message
  <2>5. \A z \in Senders : Program(z)' = Program(z)
    BY <1>1 DEF Program
  <2>6. \A i \in 1 .. p + 1 : i \in 1 .. p \/ i = p + 1
    BY <1>2
  <2>7. \A i \in 1 .. tail' : \E z \in Senders : \E m \in DOMAIN Program(z)' :
          Used(z, m)' /\ sent'[i] = Program(z)'[m]
    <3> TAKE i \in 1 .. tail'
    <3>1. CASE i = p + 1
      BY <1>5, <2>4, <2>5, <3>1
    <3>2. CASE i \in 1 .. p
      <4>1. PICK z \in Senders : \E m \in DOMAIN Program(z) :
              Used(z, m) /\ sent[i] = Program(z)[m]
        BY <1>p, <3>2 DEF PlacesInv, SentOK
      <4>2. PICK m \in DOMAIN Program(z) : Used(z, m) /\ sent[i] = Program(z)[m]
        BY <4>1
      <4> QED BY <1>5, <2>1, <2>5, <3>2, <4>2
    <3> QED BY <1>1, <2>6, <3>1, <3>2
  <2>8. \A i \in 1 .. p : sent[i] # Message(s)
    <3> SUFFICES ASSUME NEW i \in 1 .. p, sent[i] = Message(s) PROVE FALSE
      OBVIOUS
    <3>1. PICK z \in Senders : \E m \in DOMAIN Program(z) :
            Used(z, m) /\ sent[i] = Program(z)[m]
      BY <1>p DEF PlacesInv, SentOK
    <3>2. PICK m \in DOMAIN Program(z) : Used(z, m) /\ sent[i] = Program(z)[m]
      BY <3>1
    <3>3. Program(z)[m] = Program(s)[n]
      BY <2>4, <3>2
    <3>4. RingOK /\ n \in DOMAIN Program(s)
      BY <1>2, <2>4
    <3>5. \A x \in Senders : \A j \in DOMAIN Program(x) :
            Program(x)[j] = Program(s)[n] => x = s /\ j = n
      BY <3>4, ProgramFacts
    <3>6. z = s /\ m = n
      BY <3>2, <3>3, <3>5
    <3> QED BY <2>4, <3>2, <3>6
  <2>9. \A i, j \in 1 .. p + 1 : sent'[i] = sent'[j] => i = j
    BY <1>5, <1>p, <2>6, <2>8 DEF PlacesInv, SentOK
  <2> QED BY <1>1, <2>7, <2>9 DEF SentOK
<1>19. GotOK'
  <2> SUFFICES ASSUME NEW m \in Messages, got'[m] # {}
               PROVE  /\ \E q \in Nat : /\ q < head' /\ sent'[q + 1] = m
                                        /\ \A r \in Receivers : Taking(r)' => recv'[r].head # q
                      /\ \E r \in Receivers : got'[m] = {r}
    BY DEF GotOK
  <2>1. PICK q \in Nat : /\ q < head /\ sent[q + 1] = m
                         /\ \A r \in Receivers : Taking(r) => recv[r].head # q
    BY <1>1 DEF PlacesInv, GotOK
  <2>2. q + 1 \in 1 .. p
    BY <1>2, <2>1
  <2>3. sent'[q + 1] = m
    BY <1>5, <2>1, <2>2
  <2> QED BY <1>1, <2>1, <2>3 DEF PlacesInv, GotOK, Taking
<1> QED BY <1>6, <1>13, <1>14, <1>15, <1>16, <1>17, <1>18, <1>19 DEF PlacesInv
----------------------------------------------------------------------------
\* A receiver that neither takes a place nor empties a slot.
LEMMA ReceiveFrame ==
    ASSUME IInv, PlacesInv, NEW r \in Receivers,
           \/ Look(r) \/ LoadTail(r) \/ Nap(r) \/ EndNap(r) \/ Lock(r) \/ Wake(r)
           \/ CasHead(r) /\ recv[r].head # head
    PROVE  PlacesInv'
<1>1. UNCHANGED <<world, head, tail, slots, sent, got, send>>
  BY DEF Look, LoadTail, CasHead, Nap, EndNap, Lock, Wake
<1>0. /\ RingOK /\ recv \in [Receivers -> RecvSet]
      /\ {"take", "nap", "head", "back", "lock", "asleep"} \subseteq RecvPlaces
  BY DEF IInv, RingOK, RecvPlaces
<1>m. ASSUME Misses(r)
      PROVE  /\ \A z \in Receivers \ {r} : recv'[z] = recv[z]
             /\ recv'[r].at \notin {"take", "nap"}
  BY <1>0, <1>m, ReceiverMoves DEF Misses
<1>2. ASSUME NEW to \in RecvPlaces, Moves(r, to)
      PROVE  /\ \A z \in Receivers \ {r} : recv'[z] = recv[z]
             /\ recv'[r].at = to /\ recv'[r].head = recv[r].head
  <2>1. recv' = [recv EXCEPT ![r] = [recv[r] EXCEPT !.at = to]]
    BY <1>2 DEF Moves
  <2> QED BY <1>0, <2>1 DEF RecvSet
<1>3. /\ \A z \in Receivers \ {r} : recv'[z] = recv[z]
      /\ \/ recv[r].at \notin {"take", "nap"} /\ recv'[r].at \notin {"take", "nap"}
         \/ /\ recv[r].at \in {"take", "nap"} /\ recv'[r].at \in {"take", "nap"}
            /\ recv'[r].head = recv[r].head
  <2>1. CASE Look(r)
    BY <1>0, <2>1, ReceiverMoves DEF Look
  <2>2. CASE LoadTail(r)
    <3>1. CASE Misses(r)
      BY <1>m, <2>2, <3>1 DEF LoadTail
    <3>2. CASE recv' = [recv EXCEPT ![r].at = "cas", ![r].tail = tail]
      <4>1. recv' = [recv EXCEPT ![r] = [recv[r] EXCEPT !.at = "cas", !.tail = tail]]
        BY <3>2
      <4> QED BY <1>0, <2>2, <4>1 DEF LoadTail, RecvSet
    <3> QED BY <2>2, <3>1, <3>2 DEF LoadTail
  <2>3. CASE CasHead(r) /\ recv[r].head # head
    <3>1. CASE Misses(r)
      BY <1>m, <2>3, <3>1 DEF CasHead
    <3> QED BY <1>0, <2>3, <3>1, ReceiverMoves DEF CasHead
  <2>4. CASE Nap(r) \/ EndNap(r)
    BY <1>0, <1>2, <2>4 DEF Nap, EndNap
  <2>5. CASE Lock(r) \/ Wake(r)
    BY <1>0, <1>2, <2>5 DEF Lock, Wake
  <2> QED BY <2>1, <2>2, <2>3, <2>4, <2>5
<1>4. \A z \in Receivers : /\ Taking(z)' <=> Taking(z)
                           /\ Taking(z) => recv'[z].head = recv[z].head
  BY <1>3 DEF Taking
<1>5. \A s \in Senders : /\ Storing(s)' <=> Storing(s)
                         /\ Storing(s) => /\ send'[s].tail = send[s].tail
                                          /\ send'[s].n = send[s].n
  BY <1>1 DEF Storing
<1>6. \A s \in Senders : \A n \in DOMAIN Program(s) : Used(s, n) => Used(s, n)'
  BY <1>1 DEF Used
<1> QED BY <1>1, <1>4, <1>5, <1>6, Frame

\* The place at head is no longer in the ring, but it is still live.
LEMMA GrabPreserves ==
    ASSUME IInv, PlacesInv, NEW r \in Receivers, CasHead(r), recv[r].head = head
    PROVE  PlacesInv'
<1>p. PICK p \in Nat : p = head
  BY DEF IInv, RingOK
<1>1. /\ UNCHANGED <<world, tail, slots, send, sent, got>>
      /\ head' = p + 1 /\ Moves(r, "take")
      /\ recv[r].at = "cas" /\ recv[r].head = p
  BY <1>p DEF CasHead
<1>2. RingOK /\ tail \in Nat /\ p < tail
  <2>1. recv[r].head < recv[r].tail /\ recv[r].tail <= tail
    BY <1>1 DEF IInv, ReceiversOK
  <2>2. recv[r].tail \in Nat /\ tail \in Nat
    BY DEF IInv, RingOK, RecvSet
  <2> QED BY <1>1, <2>1, <2>2 DEF IInv
<1>3. /\ \A z \in Receivers \ {r} : recv'[z] = recv[z]
      /\ recv'[r].at = "take" /\ recv'[r].head = p
  <2>1. recv' = [recv EXCEPT ![r] = [recv[r] EXCEPT !.at = "take"]]
    BY <1>1 DEF Moves
  <2>2. recv \in [Receivers -> RecvSet]
    BY DEF IInv, RingOK
  <2> QED BY <1>1, <2>1, <2>2 DEF RecvSet
<1>4. \A z \in Receivers : Taking(z)' <=> Taking(z) \/ z = r
  BY <1>3 DEF Taking
<1>5. \A z \in Receivers : Taking(z) => z # r /\ recv'[z].head = recv[z].head
                                        /\ recv[z].head \in Nat /\ recv[z].head < p
  <2>1. \A z \in Receivers : recv[z].head \in Nat
    BY DEF IInv, RingOK, RecvSet
  <2> QED BY <1>1, <1>3, <1>p, <2>1 DEF Taking, PlacesInv, TakesOK
<1>6. \A q \in Nat : Live(q)' <=> Live(q)
  <2> SUFFICES ASSUME NEW q \in Nat PROVE Live(q)' <=> Live(q)
    OBVIOUS
  <2>1. q \in p .. tail - 1 <=> q \in p + 1 .. tail - 1 \/ q = p
    BY <1>2
  <2>2. (\E z \in Receivers : Taking(z)' /\ recv'[z].head = q)
          <=> (\E z \in Receivers : Taking(z) /\ recv[z].head = q) \/ q = p
    BY <1>3, <1>4, <1>5
  <2>3. Live(q)' <=> q \in p + 1 .. tail - 1
                     \/ \E z \in Receivers : Taking(z)' /\ recv'[z].head = q
    BY <1>1 DEF Live
  <2> QED BY <1>p, <2>1, <2>2, <2>3 DEF Live
<1>7. \A q : Pending(q)' <=> Pending(q)
  BY <1>1 DEF Pending, Storing
<1>8. SlotsTyped'
  BY <1>1 DEF PlacesInv, SlotsTyped
<1>9. RoomOK'
  <2>1. tail - p <= Capacity /\ Capacity \in Nat
    BY <1>p, MessageQueuesAssumption DEF PlacesInv, RoomOK
  <2>2. tail - (p + 1) <= Capacity
    BY <1>2, <2>1
  <2> QED BY <1>1, <2>2 DEF RoomOK
<1>10. StoresOK'
  <2>1. \A s \in Senders : Message(s)' = Message(s) /\ (Storing(s)' <=> Storing(s))
    BY <1>1 DEF Message, Program, Storing
  <2>2. ASSUME NEW s \in Senders, Storing(s)
        PROVE  Live(send[s].tail)'
    <3>1. PICK k \in Nat : k = send[s].tail
      BY DEF IInv, RingOK, SendSet
    <3>2. Live(k)'
      BY <1>6, <2>2, <3>1 DEF PlacesInv, StoresOK
    <3>3. k = send'[s].tail
      BY <1>1, <3>1
    <3> QED BY <3>2, <3>3
  <2> QED BY <1>1, <2>1, <2>2 DEF PlacesInv, StoresOK
<1>11. TakesOK'
  <2>1. \A z \in Receivers : Taking(z)' => recv'[z].head < p + 1
    BY <1>3, <1>4, <1>5
  <2>2. ASSUME NEW z \in Receivers, NEW y \in Receivers, Taking(z)', Taking(y)',
               recv'[z].head = recv'[y].head
        PROVE  z = y
    <3>1. CASE z = r \/ y = r
      BY <1>3, <1>4, <1>5, <2>2, <3>1
    <3>2. CASE z # r /\ y # r
      BY <1>4, <1>5, <2>2, <3>2 DEF PlacesInv, TakesOK
    <3> QED BY <3>1, <3>2
  <2> QED BY <1>1, <2>1, <2>2 DEF TakesOK
<1>12. SlotsOK'
  BY <1>1, <1>6, <1>7 DEF PlacesInv, SlotsOK, Slot
<1>13. EmptyOK'
  BY <1>1, <1>6 DEF PlacesInv, EmptyOK, Slot
<1>14. SentOK'
  BY <1>1 DEF PlacesInv, SentOK, Used, Program
<1>15. GotOK'
  <2> SUFFICES ASSUME NEW m \in Messages, got'[m] # {}
               PROVE  /\ \E q \in Nat : /\ q < head' /\ sent'[q + 1] = m
                                        /\ \A z \in Receivers : Taking(z)' => recv'[z].head # q
                      /\ \E z \in Receivers : got'[m] = {z}
    BY DEF GotOK
  <2>1. PICK q \in Nat : /\ q < p /\ sent[q + 1] = m
                         /\ \A z \in Receivers : Taking(z) => recv[z].head # q
    BY <1>1, <1>p DEF PlacesInv, GotOK
  <2>2. q < p + 1 /\ q # p
    BY <2>1
  <2>3. \A z \in Receivers : Taking(z)' => recv'[z].head # q
    BY <1>3, <1>4, <1>5, <2>1, <2>2
  <2> QED BY <1>1, <2>1, <2>2, <2>3 DEF PlacesInv, GotOK
<1> QED BY <1>8, <1>9, <1>10, <1>11, <1>12, <1>13, <1>14, <1>15 DEF PlacesInv
\* The message is read: nobody else has had it, and the place is done with.
LEMMA TakePreserves ==
    ASSUME IInv, PlacesInv, NoLap, NEW r \in Receivers, Take(r)
    PROVE  PlacesInv'
<1>p. PICK p \in Nat : p = recv[r].head
  BY DEF IInv, RingOK, RecvSet
<1>m. PICK m : m = slots[Slot(p)]
  OBVIOUS
<1>1. /\ UNCHANGED <<world, head, tail, send, sent>>
      /\ slots' = [slots EXCEPT ![Slot(p)] = None]
      /\ got' = [got EXCEPT ![m] = @ \union {r}]
      /\ Moves(r, "idle") /\ recv[r].at = "take" /\ m # None
  BY <1>m, <1>p DEF Take, Stored
<1>2. RingOK /\ head \in Nat /\ tail \in Nat /\ head <= tail
  BY DEF IInv, RingOK
<1>3. /\ \A z \in Receivers \ {r} : recv'[z] = recv[z]
      /\ recv'[r].at = "idle"
  BY <1>1, <1>2, ReceiverMoves DEF RecvPlaces
<1>4. Taking(r) /\ Live(p) /\ p < head
  BY <1>1, <1>p DEF Taking, Live, PlacesInv, TakesOK
<1>5. \A z \in Receivers : Taking(z)' <=> Taking(z) /\ z # r
  BY <1>3 DEF Taking
<1>6. \A z \in Receivers : Taking(z)' => recv'[z].head = recv[z].head /\ recv[z].head # p
  BY <1>3, <1>4, <1>5, <1>p DEF PlacesInv, TakesOK
<1>7. \A q \in Nat : Live(q)' <=> Live(q) /\ q # p
  <2> SUFFICES ASSUME NEW q \in Nat PROVE Live(q)' <=> Live(q) /\ q # p
    OBVIOUS
  <2>1. q \in head .. tail - 1 => q # p
    BY <1>2, <1>4
  <2>2. (\E z \in Receivers : Taking(z)' /\ recv'[z].head = q)
          <=> (\E z \in Receivers : Taking(z) /\ recv[z].head = q) /\ q # p
    BY <1>5, <1>6, <1>p
  <2>3. Live(q)' <=> q \in head .. tail - 1
                     \/ \E z \in Receivers : Taking(z)' /\ recv'[z].head = q
    BY <1>1 DEF Live
  <2> QED BY <2>1, <2>2, <2>3 DEF Live
<1>8. \A q : Pending(q)' <=> Pending(q)
  BY <1>1 DEF Pending, Storing
<1>9. ~Pending(p) /\ m = sent[p + 1]
  BY <1>1, <1>4, <1>m DEF PlacesInv, SlotsOK
<1>10. m \in Messages
  <2>1. p + 1 \in 1 .. Len(sent)
    BY <1>2, <1>4 DEF RingOK
  <2> QED BY <1>2, <1>9, <2>1 DEF RingOK
<1>11. Slot(p) \in 0 .. Capacity - 1
  BY SlotFacts
<1>12. SlotsTyped'
  BY <1>1, <1>10 DEF PlacesInv, SlotsTyped
<1>13. RoomOK' /\ TakesOK'
  BY <1>1, <1>5, <1>6 DEF PlacesInv, RoomOK, TakesOK
<1>14. StoresOK'
  <2>1. \A s \in Senders : Message(s)' = Message(s) /\ (Storing(s)' <=> Storing(s))
    BY <1>1 DEF Message, Program, Storing
  <2>2. ASSUME NEW s \in Senders, Storing(s)
        PROVE  Live(send[s].tail)'
    <3>1. PICK k \in Nat : k = send[s].tail
      BY DEF IInv, RingOK, SendSet
    <3>2. k # p
      BY <1>9, <2>2, <3>1 DEF Pending
    <3>3. Live(k)'
      BY <1>7, <2>2, <3>1, <3>2 DEF PlacesInv, StoresOK
    <3>4. k = send'[s].tail
      BY <1>1, <3>1
    <3> QED BY <3>3, <3>4
  <2> QED BY <1>1, <2>1, <2>2 DEF PlacesInv, StoresOK
<1>15. SlotsOK'
  <2> SUFFICES ASSUME NEW q \in Nat, Live(q)'
               PROVE  slots'[Slot(q)] = IF Pending(q) THEN None ELSE sent[q + 1]
    BY <1>1, <1>8 DEF SlotsOK, Slot
  <2>1. Live(q) /\ q # p
    BY <1>7
  <2>2. Slot(q) # Slot(p) /\ Slot(q) \in 0 .. Capacity - 1
    BY <1>4, <2>1, LiveFacts, SlotFacts
  <2>3. slots'[Slot(q)] = slots[Slot(q)]
    BY <1>1, <2>2 DEF PlacesInv, SlotsTyped
  <2> QED BY <2>1, <2>3 DEF PlacesInv, SlotsOK
<1>16. EmptyOK'
  <2> SUFFICES ASSUME NEW i \in 0 .. Capacity - 1, \A q \in Nat : Live(q)' => Slot(q) # i
               PROVE  slots'[i] = None
    BY DEF EmptyOK, Slot
  <2>1. CASE i = Slot(p)
    BY <1>1, <1>11, <2>1 DEF PlacesInv, SlotsTyped
  <2>2. CASE i # Slot(p)
    <3>1. \A q \in Nat : Live(q) => Slot(q) # i
      BY <1>7, <2>2
    <3>2. slots'[i] = slots[i]
      BY <1>1, <2>2 DEF PlacesInv, SlotsTyped
    <3> QED BY <3>1, <3>2 DEF PlacesInv, EmptyOK
  <2> QED BY <2>1, <2>2
<1>17. SentOK'
  BY <1>1 DEF PlacesInv, SentOK, Used, Program
<1>18. got[m] = {}
  <2> SUFFICES ASSUME got[m] # {} PROVE FALSE
    OBVIOUS
  <2>1. PICK q \in Nat : /\ q < head /\ sent[q + 1] = m
                         /\ \A z \in Receivers : Taking(z) => recv[z].head # q
    BY <1>10 DEF PlacesInv, GotOK
  <2>2. q + 1 \in 1 .. tail /\ p + 1 \in 1 .. tail
    BY <1>2, <1>4, <2>1
  <2>3. q + 1 = p + 1
    BY <1>9, <2>1, <2>2 DEF PlacesInv, SentOK
  <2> QED BY <1>4, <1>p, <2>1, <2>3
<1>19. GotOK'
  <2> SUFFICES ASSUME NEW x \in Messages, got'[x] # {}
               PROVE  /\ \E q \in Nat : /\ q < head' /\ sent'[q + 1] = x
                                        /\ \A z \in Receivers : Taking(z)' => recv'[z].head # q
                      /\ \E z \in Receivers : got'[x] = {z}
    BY DEF GotOK
  <2>1. CASE x = m
    <3>1. got'[x] = {r}
      BY <1>1, <1>18, <2>1 DEF PlacesInv, SlotsTyped
    <3> QED BY <1>1, <1>4, <1>6, <1>9, <2>1, <3>1
  <2>2. CASE x # m
    <3>1. got'[x] = got[x]
      BY <1>1, <2>2 DEF PlacesInv, SlotsTyped
    <3>2. PICK q \in Nat : /\ q < head /\ sent[q + 1] = x
                           /\ \A z \in Receivers : Taking(z) => recv[z].head # q
      BY <3>1 DEF PlacesInv, GotOK
    <3>3. \A z \in Receivers : Taking(z)' => recv'[z].head # q
      BY <1>5, <1>6, <3>2
    <3> QED BY <1>1, <3>1, <3>2, <3>3 DEF PlacesInv, GotOK
  <2> QED BY <2>1, <2>2
<1> QED BY <1>12, <1>13, <1>14, <1>15, <1>16, <1>17, <1>19 DEF PlacesInv

----------------------------------------------------------------------------
LEMMA PlacesInit == Init => PlacesInv
<1> SUFFICES ASSUME Init PROVE PlacesInv
  OBVIOUS
<1>1. /\ \A s \in Senders : ~Storing(s)
      /\ \A r \in Receivers : ~Taking(r)
  BY DEF Init, Storing, Taking
<1>2. head = 0 /\ tail = 0 /\ Capacity \in Nat
  BY MessageQueuesAssumption DEF Init
<1>3. \A p \in Nat : ~Live(p)
  BY <1>1, <1>2 DEF Live
<1>4. SlotsTyped /\ EmptyOK
  BY DEF Init, SlotsTyped, EmptyOK
<1>5. \A m \in Messages : got[m] = {}
  BY DEF Init
<1>6. StoresOK /\ TakesOK /\ RoomOK /\ SlotsOK /\ SentOK /\ GotOK
  BY <1>1, <1>2, <1>3, <1>5 DEF StoresOK, TakesOK, RoomOK, SlotsOK, SentOK, GotOK
<1> QED BY <1>4, <1>6 DEF PlacesInv

LEMMA PlacesNext == IInv /\ PlacesInv /\ NoLap /\ NoLap' /\ [Next]_vars => PlacesInv'
<1> SUFFICES ASSUME IInv, PlacesInv, NoLap, NoLap', [Next]_vars PROVE PlacesInv'
  OBVIOUS
<1>1. CASE UNCHANGED vars
  <2>1. UNCHANGED <<world, head, tail, slots, send, recv, sent, got>>
    BY <1>1 DEF vars
  <2>2. /\ \A s \in Senders : Storing(s)' <=> Storing(s)
        /\ \A r \in Receivers : Taking(r)' <=> Taking(r)
        /\ \A s \in Senders : \A n \in DOMAIN Program(s) : Used(s, n) => Used(s, n)'
    BY <2>1 DEF Storing, Taking, Used
  <2> QED BY <2>1, <2>2, Frame
<1>2. ASSUME NEW s \in Senders, Enter(s) \/ Enqueue(s) PROVE PlacesInv'
  BY <1>2, SendFrame, StorePreserves, ClaimPreserves DEF Enqueue
<1>3. ASSUME NEW r \in Receivers, Dequeue(r) PROVE PlacesInv'
  BY <1>3, ReceiveFrame, GrabPreserves, TakePreserves DEF Dequeue
<1> QED BY <1>1, <1>2, <1>3 DEF Next

LEMMA PlacesGiveOne == IInv /\ PlacesInv => OneReceiver
<1> SUFFICES ASSUME IInv, PlacesInv PROVE OneReceiver
  OBVIOUS
<1>1. ASSUME NEW m \in Messages PROVE Cardinality(got[m]) <= 1
  <2>1. CASE got[m] = {}
    <3>1. Cardinality(got[m]) = 0
      BY <2>1, FS_EmptySet
    <3> QED BY <3>1
  <2>2. CASE got[m] # {}
    <3>1. PICK r \in Receivers : got[m] = {r}
      BY <2>2 DEF PlacesInv, GotOK
    <3>2. Cardinality(got[m]) = 1
      BY <3>1, FS_Singleton
    <3> QED BY <3>2
  <2> QED BY <2>1, <2>2
<1>2. ASSUME NEW r \in Receivers, recv[r].at = "take", Stored(r)
      PROVE  slots[Slot(recv[r].head)] = sent[recv[r].head + 1]
  <2>1. PICK p \in Nat : p = recv[r].head
    BY DEF IInv, RingOK, RecvSet
  <2>2. Live(p)
    BY <1>2, <2>1 DEF Live, Taking
  <2>3. slots[Slot(p)] = IF Pending(p) THEN None ELSE sent[p + 1]
    BY <2>2 DEF PlacesInv, SlotsOK
  <2> QED BY <1>2, <2>1, <2>3 DEF Stored
<1> QED BY <1>1, <1>2 DEF OneReceiver

\* Each message is received once and by one receiver, for any threads,
\* interpreters and capacity, while no receiver that has moved head past a
\* place falls a whole turn behind before it reads the slot (boc_dequeue).
THEOREM OneReceiver_NoLap == Spec /\ []NoLap => []OneReceiver
<1>1. Spec => []IInv
  BY MessageQueues_Invariance
<1> QED BY <1>1, PlacesInit, PlacesNext, PlacesGiveOne, PTL DEF Spec

\* So it is on the first turn of the ring: with as many messages as there is
\* BOC_CAPACITY for, in whatever interpreters the threads are.
THEOREM OneReceiver_FirstTurn == Spec /\ [](tail <= Capacity) => []OneReceiver
<1>1. IInv /\ tail <= Capacity => NoLap
  <2> SUFFICES ASSUME IInv, tail <= Capacity, NEW r \in Receivers
               PROVE  tail - recv[r].head <= Capacity
    BY DEF NoLap
  <2>1. recv[r].head \in Nat /\ tail \in Nat /\ Capacity \in Nat
    BY MessageQueuesAssumption DEF IInv, RingOK, RecvSet
  <2> QED BY <2>1
<1>2. Spec => []IInv
  BY MessageQueues_Invariance
<1> QED BY <1>1, <1>2, OneReceiver_NoLap, PTL
----------------------------------------------------------------------------
(***************************************************************************)
(* Threads of one interpreter: its GIL keeps all but one of them out of    *)
(* the two functions, so nobody claims a place while a receiver is between *)
(* its CAS and its read, and no receiver ever finds a slot still empty.    *)
(***************************************************************************)
OneInterpreter == \A t, u \in Senders \union Receivers : Interp(t) = Interp(u)

SendBusy(s) == send[s].at # "idle"
RecvBusy(r) == recv[r].at \in {"head", "tail", "cas", "take", "lock"}

OneBusy == /\ \A s, z \in Senders : SendBusy(s) /\ SendBusy(z) => s = z
           /\ \A r, q \in Receivers : RecvBusy(r) /\ RecvBusy(q) => r = q
           /\ \A s \in Senders, r \in Receivers : ~(SendBusy(s) /\ RecvBusy(r))

NoNap == \A r \in Receivers : recv[r].at # "nap"

TogetherInv == /\ OneInterpreter /\ IInv /\ PlacesInv
               /\ OneBusy /\ NoNap /\ NoLap

LEMMA GilFacts ==
    ASSUME RingOK, OneInterpreter, NEW t \in Senders \union Receivers, GilFree(Interp(t))
    PROVE  /\ \A s \in Senders : ~SendBusy(s)
           /\ \A r \in Receivers : ~RecvBusy(r)
BY DEF OneInterpreter, GilFree, SendBusy, RecvBusy

\* Whoever becomes busy has the GIL.
LEMMA SendOneBusy ==
    ASSUME TogetherInv, NEW s \in Senders, Enter(s) \/ Enqueue(s)
    PROVE  OneBusy' /\ NoNap' /\ NoLap'
<1>1. RingOK /\ IInv
  BY DEF TogetherInv, IInv
<1>2. /\ \A z \in Senders \ {s} : send'[z] = send[z]
      /\ \/ SendBusy(s)
         \/ /\ \A z \in Senders : ~SendBusy(z)
            /\ \A r \in Receivers : ~RecvBusy(r)
  <2>0. {"cas", "ring", "head", "store", "look"} \subseteq SendPlaces
    BY DEF SendPlaces
  <2>1. CASE Enter(s)
    BY <1>1, <2>0, <2>1, SenderMoves, GilFacts DEF Enter, TogetherInv
  <2>2. CASE LoadHead(s) \/ LookForWaiters(s) \/ Ring(s)
    BY <1>1, <2>0, <2>2, SenderMoves DEF LoadHead, LookForWaiters, Ring, SendBusy
  <2>3. CASE CasTail(s) \/ Store(s)
    BY <1>1, <2>0, <2>3, SenderMoves DEF CasTail, Store, SendBusy
  <2> QED BY <2>1, <2>2, <2>3 DEF Enqueue
<1>3. \A r \in Receivers : /\ RecvBusy(r)' => RecvBusy(r)
                           /\ recv'[r].at # "nap"
                           /\ Taking(r)' => Taking(r) /\ recv'[r] = recv[r]
  <2>1. CASE recv' = recv
    BY <2>1 DEF RecvBusy, Taking, TogetherInv, NoNap
  <2>2. ASSUME NEW r \in Receivers, recv' = Called(r)
        PROVE  \A q \in Receivers : /\ RecvBusy(q)' => RecvBusy(q)
                                    /\ recv'[q].at # "nap"
                                    /\ Taking(q)' => Taking(q) /\ recv'[q] = recv[q]
    <3>1. "woken" \in RecvPlaces
      BY DEF RecvPlaces
    <3>2. /\ recv'[r].at = "woken"
          /\ \A z \in Receivers \ {r} : recv'[z] = recv[z]
      BY <1>1, <2>2, <3>1, ReceiverMoves DEF Moves, Called
    <3> QED BY <3>2 DEF RecvBusy, Taking, TogetherInv, NoNap
  <2> QED BY <2>1, <2>2
          DEF Enter, Enqueue, LoadHead, CasTail, Store, LookForWaiters, Ring
<1>4. OneBusy'
  <2>1. \A z \in Senders : SendBusy(z)' => SendBusy(z) \/ z = s
    BY <1>2 DEF SendBusy
  <2> QED BY <1>2, <1>3, <2>1 DEF OneBusy, TogetherInv
<1>5. NoLap'
  <2> SUFFICES ASSUME NEW r \in Receivers, Taking(r)'
               PROVE  tail' - recv'[r].head <= Capacity
    BY DEF NoLap
  <2>1. Taking(r) /\ recv'[r] = recv[r]
    BY <1>3
  <2>2. recv[r].at = "take"
    BY <2>1 DEF Taking, TogetherInv, NoNap
  <2>3. ~SendBusy(s)
    BY <2>2 DEF OneBusy, TogetherInv, RecvBusy
  <2>4. Enter(s)
    BY <2>3 DEF Enqueue, LoadHead, CasTail, Store, LookForWaiters, Ring, SendBusy
  <2> QED BY <2>1, <2>4 DEF Enter, TogetherInv, NoLap
<1> QED BY <1>3, <1>4, <1>5 DEF NoNap

LEMMA ReceiveOneBusy ==
    ASSUME TogetherInv, NEW r \in Receivers, Dequeue(r)
    PROVE  OneBusy' /\ NoNap' /\ NoLap'
<1>1. RingOK /\ IInv /\ recv \in [Receivers -> RecvSet]
  BY DEF TogetherInv, IInv, RingOK
<1>2. UNCHANGED <<send, tail>>
  BY DEF Dequeue, Look, LoadTail, CasHead, Take, Nap, EndNap, Lock, Wake
<1>3. ~Nap(r)
  <2> SUFFICES ASSUME Nap(r) PROVE FALSE
    OBVIOUS
  <2>1. PICK p \in Nat : p = recv[r].head
    BY <1>1 DEF RecvSet
  <2>2. recv[r].at = "take" /\ slots[Slot(p)] = None
    BY <2>1 DEF Nap, Stored
  <2>3. Taking(r) /\ Live(p) /\ p < head
    BY <2>1, <2>2 DEF Taking, Live, TogetherInv, PlacesInv, TakesOK
  <2>4. ~Pending(p)
    BY <2>2 DEF Pending, Storing, TogetherInv, OneBusy, SendBusy, RecvBusy
  <2>5. sent[p + 1] = None
    BY <2>2, <2>3, <2>4 DEF TogetherInv, PlacesInv, SlotsOK
  <2>6. p + 1 \in 1 .. Len(sent) /\ sent \in Seq(Messages)
    BY <1>1, <2>1, <2>3 DEF RingOK
  <2>7. sent[p + 1] \in Messages
    BY <2>6
  <2> QED BY <2>5, <2>7, MessageQueuesAssumption
<1>4. /\ \A z \in Receivers \ {r} : recv'[z] = recv[z]
      /\ recv'[r].at # "nap"
      /\ \/ RecvBusy(r)
         \/ ~RecvBusy(r)'
         \/ /\ \A z \in Senders : ~SendBusy(z)
            /\ \A q \in Receivers : ~RecvBusy(q)
      /\ recv'[r].at = "take" => recv[r].head = head /\ recv'[r].head = head
  <2>0. {"take", "idle", "head", "back", "lock", "asleep"} \subseteq RecvPlaces
    BY DEF RecvPlaces
  <2>m. ASSUME Misses(r)
        PROVE  /\ \A z \in Receivers \ {r} : recv'[z] = recv[z]
               /\ recv'[r].at \in {"lock", "asleep"}
    BY <1>1, <2>0, <2>m, ReceiverMoves DEF Misses
  <2>1. CASE Look(r)
    <3>1. /\ \A z \in Receivers \ {r} : recv'[z] = recv[z]
          /\ recv'[r].at = "tail"
      BY <1>1, <2>1, ReceiverMoves DEF Look
    <3>2. CASE recv[r].at = "head"
      BY <3>1, <3>2 DEF RecvBusy
    <3>3. CASE recv[r].at # "head"
      BY <1>1, <2>1, <3>1, <3>3, GilFacts DEF Look, TogetherInv
    <3> QED BY <3>2, <3>3
  <2>2. CASE LoadTail(r)
    <3>1. CASE Misses(r)
      BY <2>m, <2>2, <3>1 DEF LoadTail, RecvBusy
    <3>2. CASE recv' = [recv EXCEPT ![r].at = "cas", ![r].tail = tail]
      <4>1. recv' = [recv EXCEPT ![r] = [recv[r] EXCEPT !.at = "cas", !.tail = tail]]
        BY <3>2
      <4>2. recv'[r].at = "cas" /\ \A z \in Receivers \ {r} : recv'[z] = recv[z]
        BY <1>1, <4>1 DEF RecvSet
      <4> QED BY <2>2, <4>2 DEF LoadTail, RecvBusy
    <3> QED BY <2>2, <3>1, <3>2 DEF LoadTail
  <2>3. CASE CasHead(r)
    <3>1. CASE Misses(r)
      BY <2>m, <2>3, <3>1 DEF CasHead, RecvBusy
    <3>2. CASE recv[r].head = head /\ Moves(r, "take")
      <4>1. recv' = [recv EXCEPT ![r] = [recv[r] EXCEPT !.at = "take"]]
        BY <3>2 DEF Moves
      <4>2. recv'[r].at = "take" /\ recv'[r].head = head
            /\ \A z \in Receivers \ {r} : recv'[z] = recv[z]
        BY <1>1, <3>2, <4>1 DEF RecvSet
      <4> QED BY <2>3, <3>2, <4>2 DEF CasHead, RecvBusy
    <3>3. CASE recv' = [recv EXCEPT ![r].at = "tail", ![r].head = head]
      BY <1>1, <2>3, <3>3, ReceiverMoves DEF CasHead, RecvBusy
    <3> QED BY <2>3, <3>1, <3>2, <3>3 DEF CasHead
  <2>4. CASE Take(r)
    BY <1>1, <2>0, <2>4, ReceiverMoves DEF Take, RecvBusy
  <2>5. CASE EndNap(r)
    BY <2>5 DEF EndNap, TogetherInv, NoNap
  <2>6. CASE Lock(r)
    BY <1>1, <2>0, <2>6, ReceiverMoves DEF Lock, RecvBusy
  <2>7. CASE Wake(r)
    BY <1>1, <2>0, <2>7, ReceiverMoves DEF Wake, RecvBusy
  <2> QED BY <1>3, <2>1, <2>2, <2>3, <2>4, <2>5, <2>6, <2>7 DEF Dequeue
<1>5. OneBusy'
  <2>1. \A z \in Senders : SendBusy(z)' <=> SendBusy(z)
    BY <1>2 DEF SendBusy
  <2>2. \A z \in Receivers \ {r} : RecvBusy(z)' <=> RecvBusy(z)
    BY <1>4 DEF RecvBusy
  <2> QED BY <1>4, <2>1, <2>2 DEF OneBusy, TogetherInv
<1>6. NoNap'
  BY <1>4 DEF NoNap, TogetherInv
<1>7. NoLap'
  <2> SUFFICES ASSUME NEW z \in Receivers, Taking(z)'
               PROVE  tail' - recv'[z].head <= Capacity
    BY DEF NoLap
  <2>1. CASE z # r
    BY <1>2, <1>4, <2>1 DEF TogetherInv, NoLap, Taking
  <2>2. CASE z = r
    <3>1. recv'[r].head = head
      BY <1>4, <2>2 DEF Taking
    <3> QED BY <1>2, <2>2, <3>1 DEF TogetherInv, PlacesInv, RoomOK
  <2> QED BY <2>1, <2>2
<1> QED BY <1>5, <1>6, <1>7

\* Each message is received once and by one receiver when all threads are
\* of one interpreter, however often the ring fills and turns.
THEOREM OneReceiver_Together == Spec /\ OneInterpreter => []OneReceiver
<1>1. Init /\ OneInterpreter => TogetherInv
  <2> SUFFICES ASSUME Init, OneInterpreter PROVE TogetherInv
    OBVIOUS
  <2>1. OneBusy /\ NoNap /\ NoLap
    BY DEF Init, OneBusy, NoNap, NoLap, SendBusy, RecvBusy, Taking
  <2> QED BY <2>1, InitOK, PlacesInit DEF TogetherInv
<1>2. TogetherInv /\ [Next]_vars => TogetherInv'
  <2> SUFFICES ASSUME TogetherInv, [Next]_vars PROVE TogetherInv'
    OBVIOUS
  <2>1. IInv'
    BY NextOK DEF TogetherInv
  <2>2. world' = world
    BY DEF vars, Next, Enter, Enqueue, LoadHead, CasTail, Store, LookForWaiters, Ring,
           Dequeue, Look, LoadTail, CasHead, Take, Nap, EndNap, Lock, Wake
  <2>3. OneInterpreter'
    BY <2>2 DEF OneInterpreter, Interp, TogetherInv
  <2>4. OneBusy' /\ NoNap' /\ NoLap'
    <3>1. CASE UNCHANGED vars
      BY <3>1 DEF vars, TogetherInv, OneBusy, NoNap, NoLap, SendBusy, RecvBusy, Taking
    <3> QED BY <3>1, SendOneBusy, ReceiveOneBusy DEF Next
  <2>5. PlacesInv'
    BY <2>4, PlacesNext DEF TogetherInv
  <2> QED BY <2>1, <2>3, <2>4, <2>5 DEF TogetherInv
<1>3. TogetherInv => OneReceiver
  BY PlacesGiveOne DEF TogetherInv
<1> QED BY <1>1, <1>2, <1>3, PTL DEF Spec
=============================================================================
