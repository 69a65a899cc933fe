-------------------------------- MODULE BOC ---------------------------------
(***************************************************************************)
(* What behavior-oriented concurrency promises to the program: @when puts  *)
(* a behavior, in one indivisible step, at the tail of the queue of every  *)
(* cown it asks for; a behavior runs once it is at the head of all of      *)
(* them; afterwards it leaves the queues one by one.                       *)
(***************************************************************************)
EXTENDS Requests

VARIABLES queue,   \* queue[c]: the behaviors that wait for or hold cown c
          phase    \* phase[b]: how far behavior b has got

vars == <<queue, phase>>

Init == /\ queue = [c \in Cowns |-> <<>>]
        /\ phase = [b \in Behaviors |-> "new"]

\* BehaviorCapsule.schedule() seen from outside: one atomic step.
Schedule(b) ==
    /\ phase[b] = "new"
    /\ phase' = [phase EXCEPT ![b] = "waiting"]
    /\ queue' = [c \in Cowns |-> IF c \in Targets(b) THEN Append(queue[c], b)
                                                     ELSE queue[c]]

AtHead(b, c) == queue[c] # <<>> /\ Head(queue[c]) = b

\* A worker takes the behavior and runs its body.
Start(b) ==
    /\ phase[b] = "waiting"
    /\ \A c \in Targets(b) : AtHead(b, c)
    /\ phase' = [phase EXCEPT ![b] = "running"]
    /\ UNCHANGED queue

\* The body has returned; release_all begins.
End(b) ==
    /\ phase[b] = "running"
    /\ phase' = [phase EXCEPT ![b] = "leaving"]
    /\ UNCHANGED queue

\* release_all gives one cown to the next in line.
Release(b, c) ==
    /\ phase[b] = "leaving"
    /\ AtHead(b, c)
    /\ queue' = [queue EXCEPT ![c] = Tail(@)]
    /\ UNCHANGED phase

Next == \E b \in Behaviors :
            \/ Schedule(b) \/ Start(b) \/ End(b)
            \/ \E c \in Cowns : Release(b, c)

Spec == Init /\ [][Next]_vars
=============================================================================
