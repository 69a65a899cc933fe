------------------------------ MODULE CownMCS -------------------------------
(***************************************************************************)
(* Two-phase locking over the request queues of cowns (_core.c).           *)
(*                                                                         *)
(* Every cown has an MCS queue: cown->last points at the request of the    *)
(* last behavior in line, and each request points at the behavior behind   *)
(* it.  BehaviorCapsule_schedule, on the thread that called @when, links   *)
(* the requests of one behavior in address order (phase 1), then marks     *)
(* them all scheduled (phase 2).  behavior->count holds one unit for each  *)
(* request that has not reached the head of its queue and one for phase 2; *)
(* whoever takes it to zero dispatches the behavior.  A worker runs the    *)
(* body and behavior_release_all hands each cown to the next in line.      *)
(*                                                                         *)
(* Each behavior b has two threads of control: caller[b], inside schedule, *)
(* and runner[b], from dispatch to the end of release_all.  One action is  *)
(* one access to shared memory.  The scheduler between dispatch and Start, *)
(* and the contents of cowns, are other modules' subject.                  *)
(***************************************************************************)
EXTENDS Requests

VARIABLES
    count,      \* BOCBehavior.count
    brc,        \* BOCBehavior.rc: references to the behavior
    last,       \* BOCCown.last, the request named by its behavior
    next,       \* BOCRequest.next: the behavior behind
    scheduled,  \* BOCRequest.scheduled: phase 2 has reached this request
    rc,         \* BOCRequest.rc: references to the request
    caller,     \* where the thread inside BehaviorCapsule_schedule is
    prev,       \* its local prev: the request in front
    todo,       \* the requests its current loop has yet to visit
    runner,     \* where the thread that runs the behavior is
    left,       \* the requests release_all has yet to visit
    \* History, never read by a guard: the order in which a cown was asked for
    ticket,     \* ticket[b][c]: b was the ticket-th to exchange c's last
    tail,       \* how many exchanges there have been on c
    served      \* how many behaviors have given c up

memory  == <<count, brc, last, next, scheduled, rc>>
threads == <<caller, prev, todo, runner, left>>
history == <<ticket, tail, served>>
vars    == <<memory, threads, history>>

CallerPCs == {"idle", "link", "first", "hold", "publish", "incref", "spin",
              "drop", "finish", "final", "dispatch", "return", "done"}
RunnerPCs == {"none", "ready", "running", "release", "cas", "await",
              "handoff", "dispatch", "free", "end", "done"}

TypeOK ==
    /\ count \in [Behaviors -> Nat]
    /\ brc \in [Behaviors -> Int]
    /\ last \in [Cowns -> Behaviors \cup {Null}]
    /\ next \in [Behaviors -> [Cowns -> Behaviors \cup {Null}]]
    /\ scheduled \in [Behaviors -> [Cowns -> BOOLEAN]]
    /\ rc \in [Behaviors -> [Cowns -> Int]]
    /\ caller \in [Behaviors -> CallerPCs]
    /\ prev \in [Behaviors -> Behaviors \cup {Null}]
    /\ todo \in [Behaviors -> SUBSET Cowns]
    /\ runner \in [Behaviors -> RunnerPCs]
    /\ left \in [Behaviors -> SUBSET Cowns]
    /\ ticket \in [Behaviors -> [Cowns -> Nat]]
    /\ tail \in [Cowns -> Nat]
    /\ served \in [Cowns -> Nat]

Init ==
    /\ count = [b \in Behaviors |-> 0]
    /\ brc = [b \in Behaviors |-> 0]
    /\ last = [c \in Cowns |-> Null]
    /\ next = [b \in Behaviors |-> [c \in Cowns |-> Null]]
    /\ scheduled = [b \in Behaviors |-> [c \in Cowns |-> FALSE]]
    /\ rc = [b \in Behaviors |-> [c \in Cowns |-> 0]]
    /\ caller = [b \in Behaviors |-> "idle"]
    /\ prev = [b \in Behaviors |-> Null]
    /\ todo = [b \in Behaviors |-> {}]
    /\ runner = [b \in Behaviors |-> "none"]
    /\ left = [b \in Behaviors |-> {}]
    /\ ticket = [b \in Behaviors |-> [c \in Cowns |-> 0]]
    /\ tail = [c \in Cowns |-> 0]
    /\ served = [c \in Cowns |-> 0]

-----------------------------------------------------------------------------
(***************************************************************************)
(* Operations that callers and runners share.                              *)
(***************************************************************************)

GotoCaller(b, pc) == caller' = [caller EXCEPT ![b] = pc]
GotoRunner(b, pc) == runner' = [runner EXCEPT ![b] = pc]

\* behavior_resolve_one, up to the test of the decremented count.
Resolve(b) == count' = [count EXCEPT ![b] = @ - 1]
ResolvesLast(b) == count[b] = 1

\* Faulty variants: one unit of count too few, one too many.
UnitsShort(b) == Len(Args[b]) + 1
UnitsOver(b) == Len(Args[b]) + 3

\* The count BehaviorCapsule_init starts from: one unit for each argument,
\* one for the result's request, one that phase 2 holds.
Units(b) == Len(Args[b]) + 2

\* Faulty variant: request_free_inner forgets the behavior behind.
DropRequestOnly(b, c) == rc' = [rc EXCEPT ![b][c] = @ - 1] /\ UNCHANGED brc

\* request_decref: the last reference frees the request, which gives up
\* the reference to the behavior behind it.
DropRequest(b, c) ==
    /\ rc' = [rc EXCEPT ![b][c] = @ - 1]
    /\ IF rc[b][c] = 1 /\ next[b][c] # Null
       THEN brc' = [brc EXCEPT ![next[b][c]] = @ - 1]
       ELSE UNCHANGED brc

\* The request phase 1 or phase 2 is at; the one release_all is at.
Linking(b, c)   == IsFirst(c, todo[b])
Releasing(b, c) == IsFirst(c, left[b])

-----------------------------------------------------------------------------
(***************************************************************************)
(* The caller's thread.                                                    *)
(***************************************************************************)

\* BehaviorCapsule_init and create_requests: nobody else sees b yet.  Each
\* dropped duplicate takes its unit of count back.
Create(b) ==
    /\ caller[b] = "idle"
    /\ \A a \in Behaviors : Feeds(a, b) => caller[a] = "done"
    /\ count' = [count EXCEPT ![b] = Units(b) - Duplicates(b)]
    /\ brc' = [brc EXCEPT ![b] = 1]
    /\ rc' = [rc EXCEPT ![b] = [c \in Cowns |-> IF c \in Targets(b) THEN 1 ELSE 0]]
    /\ todo' = [todo EXCEPT ![b] = Targets(b)]
    /\ GotoCaller(b, "link")
    /\ UNCHANGED <<last, next, scheduled, prev, runner, left, history>>

\* Phase 1 is done with request c: go on to the next one, or to phase 2.
Advance(b, c) ==
    IF todo[b] = {c}
    THEN /\ todo' = [todo EXCEPT ![b] = Targets(b)]
         /\ GotoCaller(b, "finish")
    ELSE /\ todo' = [todo EXCEPT ![b] = @ \ {c}]
         /\ GotoCaller(b, "link")

\* Faulty variant: a test and a store, so that a waiting request is not replaced.
SwingIfEmpty(b, c) == last' = [last EXCEPT ![c] = IF @ = Null THEN b ELSE @]

\* The atomic exchange of cown->last.
Swing(b, c) == last' = [last EXCEPT ![c] = b]

\* request_start_enqueue_inner joins the queue of the next request's cown.
Exchange(b, c) ==
    /\ caller[b] = "link"
    /\ Linking(b, c)
    /\ prev' = [prev EXCEPT ![b] = last[c]]
    /\ Swing(b, c)
    /\ ticket' = [ticket EXCEPT ![b][c] = tail[c] + 1]
    /\ tail' = [tail EXCEPT ![c] = @ + 1]
    /\ GotoCaller(b, IF last[c] = Null THEN "first" ELSE "hold")
    /\ UNCHANGED <<count, brc, next, scheduled, rc, todo, runner, left, served>>

\* There was nobody in line: this request is resolved at once.
First(b, c) ==
    /\ caller[b] = "first"
    /\ Linking(b, c)
    /\ Resolve(b)
    /\ IF ResolvesLast(b) THEN GotoCaller(b, "dispatch") /\ UNCHANGED todo
                          ELSE Advance(b, c)
    /\ UNCHANGED <<brc, last, next, scheduled, rc, prev, runner, left, history>>

\* Faulty variant: prev is linked without a reference of our own.
HoldForgotten(b, c) ==
    /\ caller[b] = "hold"
    /\ Linking(b, c)
    /\ GotoCaller(b, "publish")
    /\ UNCHANGED <<memory, prev, todo, runner, left, history>>

\* Keep prev alive until the spin below is over.
Hold(b, c) ==
    /\ caller[b] = "hold"
    /\ Linking(b, c)
    /\ rc' = [rc EXCEPT ![prev[b]][c] = @ + 1]
    /\ GotoCaller(b, "publish")
    /\ UNCHANGED <<count, brc, last, next, scheduled, prev, todo, runner, left, history>>

Publish(b, c) ==
    /\ caller[b] = "publish"
    /\ Linking(b, c)
    /\ next' = [next EXCEPT ![prev[b]][c] = b]
    /\ GotoCaller(b, "incref")
    /\ UNCHANGED <<count, brc, last, scheduled, rc, prev, todo, runner, left, history>>

\* The reference that prev->next owns is taken after the link is visible.
Incref(b) ==
    /\ caller[b] = "incref"
    /\ brc' = [brc EXCEPT ![b] = @ + 1]
    /\ GotoCaller(b, "spin")
    /\ UNCHANGED <<count, last, next, scheduled, rc, prev, todo, runner, left, history>>

\* Faulty variant: the wait is skipped.
NoWait(b, c) == TRUE

PrevIsScheduled(b, c) == scheduled[prev[b]][c]

\* Wait until the behavior in front has finished its phase 1.
Spin(b, c) ==
    /\ caller[b] = "spin"
    /\ Linking(b, c)
    /\ PrevIsScheduled(b, c)
    /\ GotoCaller(b, "drop")
    /\ UNCHANGED <<memory, prev, todo, runner, left, history>>

Drop(b, c) ==
    /\ caller[b] = "drop"
    /\ Linking(b, c)
    /\ DropRequest(prev[b], c)
    /\ Advance(b, c)
    /\ UNCHANGED <<count, last, next, scheduled, prev, runner, left, history>>

\* request_finish_enqueue_inner on the next request of phase 2.
Finish(b, c) ==
    /\ caller[b] = "finish"
    /\ Linking(b, c)
    /\ scheduled' = [scheduled EXCEPT ![b][c] = TRUE]
    /\ todo' = [todo EXCEPT ![b] = @ \ {c}]
    /\ GotoCaller(b, IF todo[b] = {c} THEN "final" ELSE "finish")
    /\ UNCHANGED <<count, brc, last, next, rc, prev, runner, left, history>>

\* The resolve_one that ends schedule and drops the hold of phase 2.
Final(b) ==
    /\ caller[b] = "final"
    /\ Resolve(b)
    /\ GotoCaller(b, IF ResolvesLast(b) THEN "dispatch" ELSE "return")
    /\ UNCHANGED <<brc, last, next, scheduled, rc, prev, todo, runner, left, history>>

\* The caller saw the count reach zero: reference for the queue, dispatch,
\* and on with schedule from where it was.
CallerDispatch(b) ==
    /\ caller[b] = "dispatch"
    /\ brc' = [brc EXCEPT ![b] = @ + 1]
    /\ GotoRunner(b, "ready")
    /\ IF todo[b] = {}
       THEN GotoCaller(b, "return") /\ UNCHANGED todo
       ELSE \E c \in todo[b] : Linking(b, c) /\ Advance(b, c)
    /\ UNCHANGED <<count, last, next, scheduled, rc, prev, left, history>>

\* whencall returns and its BehaviorCapsule is deallocated.
Return(b) ==
    /\ caller[b] = "return"
    /\ brc' = [brc EXCEPT ![b] = @ - 1]
    /\ GotoCaller(b, "done")
    /\ UNCHANGED <<count, last, next, scheduled, rc, prev, todo, runner, left, history>>

-----------------------------------------------------------------------------
(***************************************************************************)
(* The thread that runs the behavior.                                      *)
(***************************************************************************)

\* The scheduler delivers b; the queue's reference moves to the capsule.
Start(b) ==
    /\ runner[b] = "ready"
    /\ GotoRunner(b, "running")
    /\ UNCHANGED <<memory, caller, prev, todo, left, history>>

\* The body is over; behavior_release_all_impl detaches the array.
EndBody(b) ==
    /\ runner[b] = "running"
    /\ left' = [left EXCEPT ![b] = Targets(b)]
    /\ GotoRunner(b, "release")
    /\ UNCHANGED <<memory, caller, prev, todo, history>>

\* request_release_inner reads request->next.
ReadNext(b, c) ==
    /\ runner[b] = "release"
    /\ Releasing(b, c)
    /\ GotoRunner(b, IF next[b][c] = Null THEN "cas" ELSE "handoff")
    /\ UNCHANGED <<memory, caller, prev, todo, left, history>>

\* Nobody seen behind: try to empty the queue.
Cas(b, c) ==
    /\ runner[b] = "cas"
    /\ Releasing(b, c)
    /\ IF last[c] = b
       THEN /\ last' = [last EXCEPT ![c] = Null]
            /\ served' = [served EXCEPT ![c] = @ + 1]
            /\ GotoRunner(b, "free")
       ELSE /\ GotoRunner(b, "await")
            /\ UNCHANGED <<last, served>>
    /\ UNCHANGED <<count, brc, next, scheduled, rc, caller, prev, todo, left, ticket, tail>>

\* A successor has swung last but may not have linked itself yet.
Await(b, c) ==
    /\ runner[b] = "await"
    /\ Releasing(b, c)
    /\ next[b][c] # Null
    /\ GotoRunner(b, "handoff")
    /\ UNCHANGED <<memory, caller, prev, todo, left, history>>

\* The behavior behind has reached the head of this queue.
Handoff(b, c) ==
    /\ runner[b] = "handoff"
    /\ Releasing(b, c)
    /\ Resolve(next[b][c])
    /\ served' = [served EXCEPT ![c] = @ + 1]
    /\ GotoRunner(b, IF ResolvesLast(next[b][c]) THEN "dispatch" ELSE "free")
    /\ UNCHANGED <<brc, last, next, scheduled, rc, caller, prev, todo, left, ticket, tail>>

\* It was the last cown it was waiting for.
RunnerDispatch(b, c) ==
    /\ runner[b] = "dispatch"
    /\ Releasing(b, c)
    /\ brc' = [brc EXCEPT ![next[b][c]] = @ + 1]
    /\ runner' = [runner EXCEPT ![next[b][c]] = "ready", ![b] = "free"]
    /\ UNCHANGED <<count, last, next, scheduled, rc, caller, prev, todo, left, history>>

\* The owner's reference to the request it has released.
Free(b, c) ==
    /\ runner[b] = "free"
    /\ Releasing(b, c)
    /\ DropRequest(b, c)
    /\ left' = [left EXCEPT ![b] = @ \ {c}]
    /\ GotoRunner(b, IF left[b] = {c} THEN "end" ELSE "release")
    /\ UNCHANGED <<count, last, next, scheduled, caller, prev, todo, history>>

\* The worker's BehaviorCapsule is deallocated.
End(b) ==
    /\ runner[b] = "end"
    /\ brc' = [brc EXCEPT ![b] = @ - 1]
    /\ GotoRunner(b, "done")
    /\ UNCHANGED <<count, last, next, scheduled, rc, caller, prev, todo, left, history>>

-----------------------------------------------------------------------------
CallerStep(b) ==
    \/ Incref(b) \/ Final(b) \/ CallerDispatch(b) \/ Return(b)
    \/ \E c \in Cowns : \/ Exchange(b, c) \/ First(b, c) \/ Hold(b, c)
                        \/ Publish(b, c) \/ Spin(b, c) \/ Drop(b, c)
                        \/ Finish(b, c)

RunnerStep(b) ==
    \/ Start(b) \/ EndBody(b) \/ End(b)
    \/ \E c \in Cowns : \/ ReadNext(b, c) \/ Cas(b, c) \/ Await(b, c)
                        \/ Handoff(b, c) \/ RunnerDispatch(b, c) \/ Free(b, c)

AllDone == \A b \in Behaviors : caller[b] = "done" /\ runner[b] = "done"

\* The program may stop when every behavior has run.
Finished == AllDone /\ UNCHANGED vars

Next == \/ \E b \in Behaviors : Create(b) \/ CallerStep(b) \/ RunnerStep(b)
        \/ Finished

Spec == Init /\ [][Next]_vars

\* Threads are scheduled by the operating system, bodies terminate and the
\* scheduler delivers what is dispatched; nothing makes a program call @when.
Fairness == \A b \in Behaviors : WF_vars(CallerStep(b)) /\ WF_vars(RunnerStep(b))

FairSpec == Spec /\ Fairness

-----------------------------------------------------------------------------
(***************************************************************************)
(* Properties.                                                             *)
(***************************************************************************)

\* b has asked for c and has not given it up.
Active(b, c) == c \in Targets(b) /\ ticket[b][c] > served[c]

\* b has asked for c, and the unit of count for it is gone.
Granted(b, c) == /\ Active(b, c)
                 /\ ticket[b][c] = served[c] + 1
                 /\ ~(caller[b] = "first" /\ Linking(b, c))

\* From dispatch until release_all reaches c, behavior b owns c.
Owns(b, c) ==
    /\ c \in Targets(b)
    /\ \/ runner[b] \in {"ready", "running"}
       \/ runner[b] \in {"release", "cas", "await", "handoff"} /\ c \in left[b]
       \/ runner[b] \in {"dispatch", "free"} /\ c \in left[b] /\ ~Releasing(b, c)

\* Behaviors that share a cown never overlap: the unit of exclusion is the
\* cown, from dispatch to the point where release_all hands it on.
MutualExclusion ==
    \A b1, b2 \in Behaviors : \A c \in Cowns :
        Owns(b1, c) /\ Owns(b2, c) => b1 = b2

\* A behavior is dispatched only when it is at the head of every queue it
\* joined and phase 2 has marked all its requests (the hold of +2 in
\* BehaviorCapsule_init): otherwise its release could race its own schedule.
DispatchedWhenGranted ==
    \A b \in Behaviors :
        runner[b] \in {"ready", "running"} =>
            \A c \in Targets(b) : Granted(b, c) /\ scheduled[b][c]

\* The assert in request_start_enqueue_inner: the request in front has no
\* successor yet when this behavior is about to link itself.
PrevIsUnlinked ==
    \A b \in Behaviors : \A c \in Cowns :
        caller[b] = "publish" /\ Linking(b, c) => next[prev[b]][c] = Null

\* Every object a thread is about to touch is still allocated.  The
\* successor touches the request in front after its owner may have released
\* it; the reference of request->next is taken only after the link is out.
NoUseAfterFree ==
    \A b \in Behaviors :
        /\ caller[b] \notin {"idle", "done"} => brc[b] > 0
        /\ runner[b] \notin {"none", "done"} => brc[b] > 0
        /\ \A c \in Cowns :
             /\ caller[b] \in {"hold", "publish", "spin", "drop"} /\ Linking(b, c)
                    => rc[prev[b]][c] > 0
             /\ caller[b] = "finish" /\ Linking(b, c) => rc[b][c] > 0
             /\ runner[b] \in {"release", "cas", "await", "handoff", "dispatch", "free"}
                    /\ Releasing(b, c) => rc[b][c] > 0
             /\ runner[b] \in {"handoff", "dispatch"} /\ Releasing(b, c)
                    => brc[next[b][c]] > 0

\* When all is over every request and every behavior has been freed, once,
\* and every queue is empty.
Reclaimed ==
    AllDone => /\ \A b \in Behaviors : brc[b] = 0 /\ \A c \in Cowns : rc[b][c] = 0
               /\ \A c \in Cowns : last[c] = Null

\* Every behavior that was scheduled runs and gives up all its cowns.
EveryBehaviorRuns ==
    \A b \in Behaviors : caller[b] = "link" ~> runner[b] = "done"
-----------------------------------------------------------------------------
(***************************************************************************)
(* What the program sees: BOC.                                             *)
(*                                                                         *)
(* A call of schedule takes effect when its phase 1 ends: no behavior      *)
(* behind it in any queue can end its own phase 1 before.  The queue of a  *)
(* cown is then the behaviors that have ended phase 1 and not given the    *)
(* cown up, in the order of their tickets.                                 *)
(***************************************************************************)
Queued(b) == \/ caller[b] \in {"finish", "final", "return", "done"}
             \/ caller[b] = "dispatch" /\ todo[b] = {}

\* All who have asked for c with a ticket up to k have ended phase 1.
AllIn(c, k) == \A b \in Behaviors : ticket[b][c] \in 1 .. k => Queued(b)

\* The last such ticket.
Entered(c) == CHOOSE k \in 0 .. tail[c] : AllIn(c, k) /\ (k = tail[c] \/ ~AllIn(c, k + 1))

Holder(c, n) == CHOOSE b \in Behaviors : ticket[b][c] = n

queue == [c \in Cowns |-> [i \in 1 .. (Entered(c) - served[c]) |-> Holder(c, served[c] + i)]]

phase == [b \in Behaviors |->
            IF ~Queued(b) THEN "new"
            ELSE IF runner[b] \in {"none", "ready"} THEN "waiting"
            ELSE IF runner[b] = "running" THEN "running"
            ELSE "leaving"]

Promise == INSTANCE BOC WITH queue <- queue, phase <- phase

\* The program sees atomic scheduling in per-cown queues, whatever the
\* interleaving of the two phases of schedule and of release_all.
ImplementsBOC == Promise!Spec
=============================================================================
