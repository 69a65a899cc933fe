----------------------------- MODULE Scheduler ------------------------------
(***************************************************************************)
(* The work-stealing scheduler (boc_sched.c): dispatch, pop, steal, park,  *)
(* wake and stop.                                                          *)
(*                                                                         *)
(* Worker w has a queue, a private slot `pending` for what it dispatched   *)
(* last, and a fairness token that circulates through the queues.  A       *)
(* worker that finds no work announces with PAUSE_EPOCH that it is about   *)
(* to park, looks once more, and sleeps on its condition variable unless   *)
(* UNPAUSE_EPOCH has moved; a dispatcher moves UNPAUSE_EPOCH up to         *)
(* PAUSE_EPOCH and wakes the ring if it was the one to do so.              *)
(*                                                                         *)
(* The work-stealing queue is the one of a build with BOC_WSQ_N = 1, and   *)
(* each attempt to take something from one is a step: the lock-free code   *)
(* of boc_bq is below this module.  The handshake that parks and wakes is  *)
(* taken apart access by access.                                           *)
(***************************************************************************)
EXTENDS Naturals, Sequences, FiniteSets

CONSTANTS
    N,          \* WORKER_COUNT
    Tasks,      \* behaviors
    Parent,     \* the behavior whose body or release dispatches this one
    Batch,      \* BOC_BQ_BATCH_SIZE
    StopEarly,  \* stop may come before the behaviors are over (a timeout)
    None

ASSUME SchedulerAssumption ==
    /\ N \in Nat \ {0}
    /\ Batch \in Nat \ {0}
    /\ Parent \in [Tasks -> Tasks \cup {None}]
    /\ StopEarly \in BOOLEAN
    /\ None \notin Tasks \cup Nat
    /\ Tasks \cap Nat = {}

Workers == 0 .. N - 1

\* The thread outside the pool that dispatches the behaviors without parent;
\* the GIL lets one such thread at a time into boc_sched_dispatch.
Main == N
Threads == Workers \cup {Main}

\* The fairness token of worker w is queued like a behavior.
Token(w) == w
Nodes == Tasks \cup Workers

VARIABLES
    queue,      \* queue[w]: the nodes in w's work-stealing queue
    pending,    \* w's private slot
    batch,      \* how often it may still be preferred to the queue
    fair,       \* should_steal_for_fairness
    stop,       \* stop_requested
    pauseEpoch, unpauseEpoch,
    me,         \* where worker w is, with the locals that are alive there
    disp,       \* where a thread is in boc_sched_dispatch, with its locals
    rr,         \* rr_nonlocal of the thread outside
    stopper,    \* how far request_stop_all has come
    status      \* how far each behavior is

work   == <<queue, pending, batch, fair, status>>
epochs == <<pauseEpoch, unpauseEpoch>>
others == <<epochs, disp, rr, stop, stopper>>
vars   == <<work, epochs, me, disp, rr, stop, stopper>>

PCs == {"fast", "slow", "arm", "token", "return", "own", "steal", "snap", "pause",
        "scan", "lock", "park", "asleep", "signalled", "run", "exited"}

\* node: what it runs or has stolen; snap: ue_snap; at: the place in a walk.
At(pc)  == [pc |-> pc, node |-> None, snap |-> 0, at |-> 0]
Idle    == [pc |-> "idle", pe |-> 0, ue |-> 0, target |-> 0, at |-> 0]

TypeOK ==
    /\ queue \in [Workers -> Seq(Nodes)]
    /\ pending \in [Workers -> Tasks \cup {None}]
    /\ batch \in [Workers -> 0 .. Batch]
    /\ fair \in [Workers -> BOOLEAN] /\ stop \in [Workers -> BOOLEAN]
    /\ pauseEpoch \in Nat /\ unpauseEpoch \in Nat
    /\ me \in [Workers -> [pc : PCs, node : Nodes \cup {None}, snap : Nat, at : Workers]]
    /\ disp \in [Threads -> [pc : {"idle", "pause", "unpause", "cas", "count", "ring",
                                   "signal"},
                             pe : Nat, ue : Nat, target : Workers, at : 0 .. N]]
    /\ rr \in Workers /\ stopper \in 0 .. 2 * N
    /\ status \in [Tasks -> {"new", "ready", "running", "done"}]

Init ==
    /\ queue = [w \in Workers |-> <<>>]
    /\ pending = [w \in Workers |-> None]
    /\ batch = [w \in Workers |-> Batch]
    /\ fair = [w \in Workers |-> TRUE]
    /\ stop = [w \in Workers |-> FALSE]
    /\ pauseEpoch = 0 /\ unpauseEpoch = 0
    /\ me = [w \in Workers |-> At("fast")]
    /\ disp = [d \in Threads |-> Idle]
    /\ rr = 0 /\ stopper = 0
    /\ status = [t \in Tasks |-> "new"]

-----------------------------------------------------------------------------
(***************************************************************************)
(* Taking work.                                                            *)
(***************************************************************************)

Goto(w, pc)   == me' = [me EXCEPT ![w] = At(pc)]
Status(t, s)  == status' = [status EXCEPT ![t] = s]
Enqueued(w, n) == [queue EXCEPT ![w] = Append(@, n)]

\* scheduler_worker_pop has node n: a token sets its owner's flag and sends
\* the worker back to pop_fast, a behavior is run.
Take(w, n) ==
    IF n \in Tasks
    THEN /\ me' = [me EXCEPT ![w] = [At("run") EXCEPT !.node = n]]
         /\ Status(n, "running")
         /\ UNCHANGED fair
    ELSE /\ fair' = [fair EXCEPT ![n] = TRUE]
         /\ Goto(w, "fast")
         /\ UNCHANGED status

\* Both ways of taking local work; k is what they leave in batch.
PopPending(w, k) ==
    /\ pending[w] # None
    /\ pending' = [pending EXCEPT ![w] = None]
    /\ batch' = [batch EXCEPT ![w] = k]
    /\ Take(w, pending[w])
    /\ UNCHANGED queue

PopQueue(w, k) ==
    /\ queue[w] # <<>>
    /\ queue' = [queue EXCEPT ![w] = Tail(@)]
    /\ batch' = [batch EXCEPT ![w] = k]
    /\ Take(w, Head(queue[w]))
    /\ UNCHANGED pending

Deferring(w) == fair[w] /\ queue[w] # <<>>

\* boc_sched_worker_pop_fast: the private slot while the batch lasts or when
\* the queue is empty, else the queue, unless fairness wants the slow path.
PopFast(w) ==
    /\ me[w].pc = "fast"
    /\ \/ /\ queue[w] # <<>> => batch[w] > 0
          /\ PopPending(w, IF batch[w] > 0 THEN batch[w] - 1 ELSE Batch)
       \/ /\ pending[w] # None => batch[w] = 0
          /\ ~Deferring(w)
          /\ PopQueue(w, Batch)
       \/ /\ pending[w] # None => batch[w] = 0
          /\ Deferring(w) \/ (queue[w] = <<>> /\ pending[w] = None)
          /\ Goto(w, "slow")
          /\ UNCHANGED work
    /\ UNCHANGED others

\* The top of the loop of boc_sched_worker_pop_slow: leave, see to fairness,
\* or look for work.
Slow(w) ==
    /\ me[w].pc = "slow"
    /\ Goto(w, IF stop[w] THEN "exited" ELSE IF Deferring(w) THEN "arm" ELSE "own")
    /\ UNCHANGED <<work, others>>

\* Faulty variant: the flag survives the arm that served it.
FlagKept(w) == UNCHANGED fair

FlagServed(w) == fair' = [fair EXCEPT ![w] = FALSE]

\* The fairness arm has made its steal: reset the flag, queue the token.
ArmToken(w) ==
    /\ me[w].pc = "token"
    /\ FlagServed(w)
    /\ queue' = Enqueued(w, Token(w))
    /\ IF me[w].node = None THEN Goto(w, "own")
                            ELSE me' = [me EXCEPT ![w].pc = "return"]
    /\ UNCHANGED <<pending, batch, status, others>>

ArmReturn(w) ==
    /\ me[w].pc = "return"
    /\ Take(w, me[w].node)
    /\ UNCHANGED <<queue, pending, batch, others>>

Own(w) ==
    /\ me[w].pc = "own"
    /\ \/ PopPending(w, Batch)
       \/ pending[w] = None /\ PopQueue(w, Batch)
       \/ /\ pending[w] = None /\ queue[w] = <<>>
          /\ Goto(w, "steal")
          /\ UNCHANGED work
    /\ UNCHANGED others

-----------------------------------------------------------------------------
(***************************************************************************)
(* Stealing.  boc_sched_steal looks into the worker's own queue and then   *)
(* into every other one, all unless there is nobody else or a stop; its    *)
(* rounds are taken to last long enough to reach every queue.              *)
(***************************************************************************)

Stealing(w) == me[w].pc \in {"arm", "steal"}
Victim(w)   == (w + me[w].at) % N
Tries(w)    == N > 1 /\ (me[w].at = 0 => ~stop[w])

\* Faulty variant: the segment is copied out of the victim's queue.
LootCopied(w, v) == [queue EXCEPT ![w] = @ \o Tail(queue[v])]

\* The whole of the victim's queue moves: the first node is returned, the
\* rest is spread over the thief's queue.
Loot(w, v) == [queue EXCEPT ![v] = <<>>, ![w] = @ \o Tail(queue[v])]

StealGets(w) ==
    LET v == Victim(w)
        n == Head(queue[v]) IN
    /\ Stealing(w) /\ Tries(w)
    /\ queue[v] # <<>>
    /\ queue' = IF v = w THEN [queue EXCEPT ![w] = Tail(@)] ELSE Loot(w, v)
    /\ IF me[w].pc = "arm"
       THEN /\ me' = [me EXCEPT ![w] = [At("token") EXCEPT !.node = n]]
            /\ UNCHANGED <<fair, status>>
       ELSE Take(w, n)
    /\ UNCHANGED <<pending, batch, others>>

StealMisses(w) ==
    LET fail == IF me[w].pc = "arm" THEN "token" ELSE "snap" IN
    /\ Stealing(w)
    /\ Tries(w) => queue[Victim(w)] = <<>>
    /\ IF Tries(w) /\ me[w].at + 1 < N THEN me' = [me EXCEPT ![w].at = @ + 1]
                                       ELSE Goto(w, fail)
    /\ UNCHANGED <<work, others>>

-----------------------------------------------------------------------------
(***************************************************************************)
(* Parking.                                                                *)
(***************************************************************************)

Snapshot(w) ==
    /\ me[w].pc = "snap"
    /\ me' = [me EXCEPT ![w] = [At("pause") EXCEPT !.snap = unpauseEpoch]]
    /\ UNCHANGED <<work, others>>

\* Faulty variant: the intent to park is not announced.
Unannounced == UNCHANGED pauseEpoch

Announce == pauseEpoch' = pauseEpoch + 1

Pause(w) ==
    /\ me[w].pc = "pause"
    /\ Announce
    /\ me' = [me EXCEPT ![w].pc = "scan"]
    /\ UNCHANGED <<work, unpauseEpoch, disp, rr, stop, stopper>>

\* boc_sched_any_work_visible: a walk, not a snapshot.
Scan(w) ==
    LET v == me[w].at IN
    /\ me[w].pc = "scan"
    /\ IF queue[v] # <<>> THEN Goto(w, "slow")
       ELSE me' = IF v + 1 < N THEN [me EXCEPT ![w].at = @ + 1]
                               ELSE [me EXCEPT ![w].at = 0, ![w].pc = "lock"]
    /\ UNCHANGED <<work, others>>

\* Faulty variant: only the epoch is read again.
KeepsOut(w) == unpauseEpoch # me[w].snap

\* What is read again under cv_mu.
MustStayAwake(w) == stop[w] \/ unpauseEpoch # me[w].snap

\* From "park" until it sleeps, w holds its own cv_mu.
Lock(w) ==
    /\ me[w].pc = "lock"
    /\ Goto(w, IF MustStayAwake(w) THEN "slow" ELSE "park")
    /\ UNCHANGED <<work, others>>

\* The parked flag and PARKED_COUNT are set and cnd_wait gives the lock back.
Park(w) ==
    /\ me[w].pc = "park"
    /\ Goto(w, "asleep")
    /\ UNCHANGED <<work, others>>

Wake(w) ==
    /\ me[w].pc = "signalled"
    /\ Goto(w, "slow")
    /\ UNCHANGED <<work, others>>

Parked(w) == me[w].pc \in {"asleep", "signalled"}

\* boc_sched_signal_one: it needs the lock, and nobody may be asleep.
Signal(v) ==
    /\ me[v].pc # "park"
    /\ me' = IF me[v].pc = "asleep" THEN [me EXCEPT ![v].pc = "signalled"] ELSE me

-----------------------------------------------------------------------------
(***************************************************************************)
(* Dispatching.                                                            *)
(***************************************************************************)

\* Faulty variant: what is in the slot is overwritten.
Overwritten(w) == queue

NextInRing(v) == (v + 1) % N

\* What w dispatched before gives way to what it dispatches now.
Evicted(w) == IF pending[w] = None THEN queue ELSE Enqueued(w, pending[w])

\* The behavior is in its place; now the epochs.
Placed(d, v) == disp' = [disp EXCEPT ![d] = [Idle EXCEPT !.pc = "pause", !.target = v]]

\* The arm for a worker.
PlaceOwn(w, t) ==
    /\ me[w].pc = "run" /\ disp[w].pc = "idle"
    /\ status[t] = "new" /\ Parent[t] = me[w].node
    /\ Status(t, "ready")
    /\ queue' = Evicted(w)
    /\ pending' = [pending EXCEPT ![w] = t]
    /\ Placed(w, w)
    /\ UNCHANGED <<batch, fair, epochs, me, rr, stop, stopper>>

\* The arm for a thread outside: round robin.
PlaceOut(t) ==
    /\ disp[Main].pc = "idle"
    /\ status[t] = "new" /\ Parent[t] = None
    /\ Status(t, "ready")
    /\ queue' = Enqueued(rr, t)
    /\ rr' = NextInRing(rr)
    /\ Placed(Main, rr)
    /\ UNCHANGED <<pending, batch, fair, epochs, me, stop, stopper>>

LoadPause(d) ==
    /\ disp[d].pc = "pause"
    /\ disp' = [disp EXCEPT ![d].pc = "unpause", ![d].pe = pauseEpoch]
    /\ UNCHANGED <<work, epochs, me, rr, stop, stopper>>

LoadUnpause(d) ==
    /\ disp[d].pc = "unpause"
    /\ disp' = IF disp[d].pe = unpauseEpoch THEN [disp EXCEPT ![d].pc = "signal"]
               ELSE [disp EXCEPT ![d].pc = "cas", ![d].ue = unpauseEpoch]
    /\ UNCHANGED <<work, epochs, me, rr, stop, stopper>>

\* Whoever moves UNPAUSE_EPOCH wakes the ring.
Cas(d) ==
    /\ disp[d].pc = "cas"
    /\ IF unpauseEpoch = disp[d].ue
       THEN unpauseEpoch' = disp[d].pe /\ disp' = [disp EXCEPT ![d].pc = "count"]
       ELSE UNCHANGED unpauseEpoch /\ disp' = [disp EXCEPT ![d].pc = "signal"]
    /\ UNCHANGED <<work, pauseEpoch, me, rr, stop, stopper>>

\* boc_sched_unpause_all: nobody parked, or a walk around the ring.
Count(d) ==
    /\ disp[d].pc = "count"
    /\ disp' = [disp EXCEPT ![d].pc = IF \E v \in Workers : Parked(v) THEN "ring"
                                                                       ELSE "signal"]
    /\ UNCHANGED <<work, epochs, me, rr, stop, stopper>>

Ring(d) ==
    LET v == (disp[d].target + disp[d].at + 1) % N IN
    /\ disp[d].pc = "ring"
    /\ IF Parked(v) THEN Signal(v) ELSE UNCHANGED me
    /\ disp' = IF disp[d].at + 1 < N THEN [disp EXCEPT ![d].at = @ + 1]
                                     ELSE [disp EXCEPT ![d].pc = "signal"]
    /\ UNCHANGED <<work, epochs, rr, stop, stopper>>

\* Faulty variant: the thread outside trusts the ring to have woken its target.
TargetUnsignalled(d) == UNCHANGED me

\* A thread outside signals its target, whatever the epochs said.
SignalTarget(d) == IF d = Main THEN Signal(disp[d].target) ELSE UNCHANGED me

Dispatched(d) ==
    /\ disp[d].pc = "signal"
    /\ SignalTarget(d)
    /\ disp' = [disp EXCEPT ![d] = Idle]
    /\ UNCHANGED <<work, epochs, rr, stop, stopper>>

\* The behavior is over; it has dispatched everything it had to.
Complete(w) ==
    /\ me[w].pc = "run" /\ disp[w].pc = "idle"
    /\ \A t \in Tasks : Parent[t] = me[w].node => status[t] # "new"
    /\ Status(me[w].node, "done")
    /\ Goto(w, "fast")
    /\ UNCHANGED <<queue, pending, batch, fair, others>>

-----------------------------------------------------------------------------
(***************************************************************************)
(* Stopping.  Until stop_workers has joined them, nobody frees the workers. *)
(***************************************************************************)

Quiescent == \A t \in Tasks : status[t] = "done"

\* boc_sched_worker_request_stop_all sets every flag, then signals everyone.
RequestStop ==
    /\ stopper < 2 * N
    /\ stopper = 0 => StopEarly \/ Quiescent
    /\ IF stopper < N
       THEN stop' = [stop EXCEPT ![stopper] = TRUE] /\ UNCHANGED me
       ELSE Signal(stopper - N) /\ UNCHANGED stop
    /\ stopper' = stopper + 1
    /\ UNCHANGED <<work, epochs, disp, rr>>

AllExited == stopper = 2 * N /\ \A w \in Workers : me[w].pc = "exited"

Finished == AllExited /\ (\A d \in Threads : disp[d].pc = "idle") /\ UNCHANGED vars

Worker(w) ==
    \/ PopFast(w) \/ Slow(w) \/ ArmToken(w) \/ ArmReturn(w) \/ Own(w)
    \/ StealGets(w) \/ StealMisses(w)
    \/ Snapshot(w) \/ Pause(w) \/ Scan(w) \/ Lock(w) \/ Park(w) \/ Wake(w)
    \/ Complete(w) \/ \E t \in Tasks : PlaceOwn(w, t)

Dispatch(d) == \/ LoadPause(d) \/ LoadUnpause(d) \/ Cas(d) \/ Count(d)
               \/ Ring(d) \/ Dispatched(d)

Next ==
    \/ \E w \in Workers : Worker(w)
    \/ \E d \in Threads : Dispatch(d)
    \/ \E t \in Tasks : PlaceOut(t)
    \/ RequestStop
    \/ Finished

Spec == Init /\ [][Next]_vars

\* Threads run when they can; nothing makes the program call @when or stop.
Fairness ==
    /\ \A w \in Workers : WF_vars(Worker(w))
    /\ \A d \in Threads : WF_vars(Dispatch(d))
    /\ WF_vars(stopper > 0 /\ RequestStop)

FairSpec == Spec /\ Fairness

-----------------------------------------------------------------------------
(***************************************************************************)
(* Properties.                                                             *)
(***************************************************************************)

\* Where a node is: its copies in queues, private slots and thieves' hands.
Places(n) ==
    (UNION {{<<w, i>> : i \in {j \in DOMAIN queue[w] : queue[w][j] = n}} : w \in Workers})
    \cup {<<w, "pending">> : w \in {v \in Workers : pending[v] = n}}
    \cup {<<w, "hand">> : w \in {v \in Workers : me[v].pc \in {"token", "return"}
                                                    /\ me[v].node = n}}

\* A behavior that has been dispatched and not been taken yet is in one
\* place, and no other behavior is anywhere: steals that move a whole queue,
\* evictions from pending and the fairness arm lose and duplicate nothing.
InOnePlace ==
    \A t \in Tasks : Cardinality(Places(t)) = IF status[t] = "ready" THEN 1 ELSE 0

\* A token is queued again only after it was taken out: its node is linked
\* into one queue at most, and as long as the flag is up into none.
TokenOnce ==
    \A w \in Workers : Cardinality(Places(Token(w))) + (IF fair[w] THEN 1 ELSE 0) <= 1

Pool == INSTANCE WorkerPool WITH Tasks <- Tasks, status <- status

\* The scheduler delivers what it is given, once.
ImplementsPool == Pool!Spec

\* Every dispatched behavior runs to its end, whoever sleeps meanwhile.
EveryTaskRuns == \A t \in Tasks : status[t] = "ready" ~> status[t] = "done"

\* A requested stop reaches every worker, asleep, about to sleep or busy.
EveryWorkerExits == stopper > 0 ~> AllExited
=============================================================================
