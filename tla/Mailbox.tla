------------------------------ MODULE Mailbox -------------------------------
(***************************************************************************)
(* What the queue of a tag promises: first in, first out, each message to  *)
(* one receiver, and never more than Capacity of them at a time.           *)
(***************************************************************************)
EXTENDS Naturals, Sequences

CONSTANTS Messages, Capacity

VARIABLE box

Init == box = <<>>

Send(m) == Len(box) < Capacity /\ box' = Append(box, m)

Receive == box # <<>> /\ box' = Tail(box)

Next == (\E m \in Messages : Send(m)) \/ Receive

Spec == Init /\ [][Next]_box
=============================================================================
