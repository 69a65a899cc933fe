----------------------------- MODULE Lifecycle ------------------------------
(***************************************************************************)
(* One process's runtime from start() to the end of wait() and round again *)
(* (behaviors.py, worker.py), over the terminator.  The main thread starts *)
(* and stops, another thread of the primary interpreter may quiesce(),     *)
(* callers schedule from outside and from inside bodies, workers and the   *)
(* main pump run behaviors.                                                *)
(*                                                                         *)
(* Scheduling is as BOC promises it: the behaviors of Sharing queue for    *)
(* one cown, the others have cowns of their own.  Cooperation inside a     *)
(* pool is as WorkerPool promises it.                                      *)
(***************************************************************************)
EXTENDS Terminator, Sequences

CONSTANTS main, other,   \* the waiters
          Parent,        \* Parent[b]: the behavior whose body schedules b, or None
          Sharing,       \* the behaviors that want the one shared cown
          Pinned,        \* those with a pinned cown, for the main pump
          Workers,       \* size of the pool
          MaxStarts,     \* bound on the calls of start()
          None

ASSUME LifecycleAssumption == /\ Waiters = {main, other} /\ main # other
                              /\ Parent \in [Callers -> Callers \union {None}]
                              /\ Sharing \subseteq Callers
                              /\ Pinned \subseteq Callers
                              /\ Workers \in Nat \ {0} /\ MaxStarts \in Nat

VARIABLES place,     \* place[b]: how far behavior b has got
          line,      \* the queue of the shared cown
          at,        \* at[w]: how far main is in its cycle, other in quiesce()
          drop,      \* drop[w]: w's seed_dec has found the seed
          up,        \* WORKER_COUNT is not zero
          live,      \* worker threads not yet joined
          stopping,  \* the workers' stop_requested
          nb,        \* the noticeboard thread is alive
          nbStop,    \* it has been sent "shutdown"
          wait,      \* main's wait(): has a timeout, quiet, failed, progress
          starts,    \* calls of start() so far
          before     \* history: what wait() is to wait for, scheduled before it

lifeVars == <<place, line, at, drop, up, live, stopping, nb, nbStop, wait,
              starts, before>>
vars == <<termVars, lifeVars>>

Places == {"none", "waiting", "queued", "pinned", "running", "leaving",
           "dropped", "refused", "lost"}
MainPlaces == {"off", "reset", "close", "unseed", "abort", "up", "drop", "wait",
               "rearm", "drop2", "wait2", "seal", "join", "leave", "pump",
               "orphans", "free", "stuck", "clear"}
OtherPlaces == {"idle", "drop", "wait", "rearm", "done"}

TypeOK == /\ TermTypeOK
          /\ place \in [Callers -> Places]
          /\ Len(line) <= Cardinality(Sharing)
          /\ at[main] \in MainPlaces /\ at[other] \in OtherPlaces
          /\ drop \in [Waiters -> BOOLEAN]
          /\ up \in BOOLEAN /\ live \in 0..Workers /\ stopping \in BOOLEAN
          /\ nb \in BOOLEAN /\ nbStop \in BOOLEAN
          /\ wait \in [timed : BOOLEAN, quiet : BOOLEAN, failed : BOOLEAN,
                       progress : BOOLEAN]
          /\ starts \in 0..MaxStarts /\ before \subseteq Callers

Fresh(timed) == [timed |-> timed, quiet |-> FALSE, failed |-> FALSE,
                 progress |-> FALSE]

Init == /\ TermInit
        /\ place = [b \in Callers |-> "none"] /\ line = <<>>
        /\ at = [w \in Waiters |-> IF w = main THEN "off" ELSE "idle"]
        /\ drop = [w \in Waiters |-> FALSE]
        /\ up = FALSE /\ live = 0 /\ stopping = FALSE
        /\ nb = FALSE /\ nbStop = FALSE
        /\ wait = Fresh(FALSE) /\ starts = 0 /\ before = {}

Go(w, from, to) == at[w] = from /\ at' = [at EXCEPT ![w] = to]

\* The worker or pump is with b until its hold is back and the count rung.
Busy(b) == place[b] \in {"running", "leaving", "dropped"} /\ hold[b] # "back"
NotBusy == /\ arming[main] = "idle"
           /\ \A b \in Callers : ~(Busy(b) /\ (b \in Pinned \/ place[b] = "dropped"))
MainFree == NotBusy /\ main \notin asleep
Running == Cardinality({b \in Callers \ Pinned : Busy(b) /\ place[b] # "dropped"})

(***************************************************************************)
(* Scheduling.  Who is dispatched goes to the pinned queue, to a worker's  *)
(* queue, or is refused when the workers are gone.                         *)
(***************************************************************************)
Dispatched(b) == IF b \in Pinned THEN "pinned" ELSE IF up THEN "queued" ELSE "refused"

\* A successor that cannot be dispatched any more is dispatched by nobody.
Promoted(b) == IF Dispatched(b) = "refused" THEN "lost" ELSE Dispatched(b)

InCall(b) == \/ InsideInc(b)
             \/ hold[b] = "in" /\ place[b] \in {"none", "refused"}

\* BEHAVIORS is set from the beginning of start() to the end of wait().
MayCall(b) == IF Parent[b] = None THEN at[main] # "off"
              ELSE place[Parent[b]] = "running"

CallerTakesHold(b) == /\ \/ MayCall(b) /\ IncTest(b)
                         \/ IncAdd(b) \/ IncRetest(b) \/ Undo(b)
                      /\ UNCHANGED lifeVars

Schedule(b) == /\ hold[b] = "in" /\ place[b] = "none"
               /\ IF b \in Sharing
                  THEN /\ line' = Append(line, b)
                       /\ place' = [place EXCEPT ![b] =
                                      IF line = <<>> THEN Dispatched(b) ELSE "waiting"]
                  ELSE /\ place' = [place EXCEPT ![b] = Dispatched(b)]
                       /\ UNCHANGED line
               /\ UNCHANGED <<termVars, at, drop, up, live, stopping, nb, nbStop,
                              wait, starts, before>>

\* release_all: the shared cown goes to the next in line.
Release(b, to) ==
  IF b \in Sharing
  THEN /\ line' = Tail(line)
       /\ place' = [c \in Callers |->
                      IF c = b THEN to
                      ELSE IF Len(line) > 1 /\ c = line[2] THEN Promoted(c)
                      ELSE place[c]]
  ELSE /\ place' = [place EXCEPT ![b] = to]
       /\ UNCHANGED line

(***************************************************************************)
(* worker.py: take, run, release everything, give the hold back.           *)
(***************************************************************************)
Take(b) == /\ place[b] = "queued" /\ Running < live
           /\ place' = [place EXCEPT ![b] = "running"]
           /\ UNCHANGED <<termVars, line, at, drop, up, live, stopping, nb,
                          nbStop, wait, starts, before>>

EndBody(b) == /\ place[b] = "running"
              /\ \A c \in Callers : Parent[c] = b => ~InCall(c)
              /\ Release(b, "leaving")
              /\ UNCHANGED <<termVars, at, drop, up, live, stopping, nb, nbStop,
                             wait, starts, before>>

GivesHoldBack(b) == /\ \/ place[b] \in {"leaving", "dropped", "refused"} /\ Dec(b)
                       \/ Ring(b)
                    /\ UNCHANGED lifeVars

\* A worker that finds nothing to do, or is told to stop, leaves; it need
\* not have emptied the queues.
SomeoneIsIdle == Running < live

WorkerExit == /\ stopping /\ SomeoneIsIdle
              /\ live' = live - 1
              /\ UNCHANGED <<termVars, place, line, at, drop, up, stopping, nb,
                             nbStop, wait, starts, before>>

\* pump(), or the auto-pump of a wait with pinned cowns about, which does not
\* sleep beside a pinned behavior (MainPump).
PumpTake(b) == /\ place[b] = "pinned" /\ NotBusy
               /\ at[main] \in {"up", "wait", "wait2"}
               /\ place' = [place EXCEPT ![b] = "running"]
               /\ Leave(main)
               /\ UNCHANGED <<line, at, drop, up, live, stopping, nb, nbStop, wait,
                              starts, before>>

(***************************************************************************)
(* The noticeboard thread works off its messages, then its "shutdown"; an  *)
(* update function in it may take its time.                                *)
(***************************************************************************)
NbStep == /\ nb /\ nbStop /\ nb' = FALSE
          /\ UNCHANGED <<termVars, place, line, at, drop, up, live, stopping,
                         nbStop, wait, starts, before>>

(***************************************************************************)
(* start(): workers and the noticeboard thread come up, then the count is  *)
(* reset.  What it finds of an earlier run makes it close and tear down.   *)
(***************************************************************************)
Pool(u) == up' = u /\ live' = (IF u THEN Workers ELSE 0) /\ stopping' = FALSE

Start == /\ starts < MaxStarts /\ Go(main, "off", "reset")
         /\ starts' = starts + 1 /\ Pool(TRUE)
         /\ nb' = TRUE /\ nbStop' = FALSE
         /\ UNCHANGED <<termVars, place, line, drop, wait, before>>

\* start_noticeboard raises: close, abort the workers, free their queues.
NoticeboardFails == /\ Go(main, "reset", "abort") /\ Close
                    /\ nb' = FALSE
                    /\ UNCHANGED <<place, line, drop, up, live, stopping, nbStop,
                                   wait, starts, before>>

Lingering == count # 0 \/ seeded # 0

ResetTerminator == /\ Go(main, "reset", IF Lingering THEN "close" ELSE "up")
                   /\ Reset
                   /\ UNCHANGED <<place, line, drop, up, live, stopping, nb,
                                  nbStop, wait, starts, before>>

RefuseClose == /\ Go(main, "close", "unseed") /\ Close
               /\ UNCHANGED <<place, line, drop, up, live, stopping, nb, nbStop,
                              wait, starts, before>>

RefuseUnseed == /\ MainFree /\ Go(main, "unseed", "abort") /\ SeedTake(main)
                /\ nb' = FALSE
                /\ UNCHANGED <<place, line, drop, up, live, stopping, nbStop,
                               wait, starts, before>>

AbortWorkers == /\ MainFree /\ at[main] = "abort" /\ ~stopping
                /\ stopping' = TRUE
                /\ UNCHANGED <<termVars, place, line, at, drop, up, live, nb,
                               nbStop, wait, starts, before>>

\* Nothing is drained on this path.
Aborted == /\ stopping /\ live = 0 /\ Go(main, "abort", "off")
           /\ Pool(FALSE)
           /\ place' = [b \in Callers |-> IF place[b] = "queued" THEN "lost"
                                         ELSE place[b]]
           /\ UNCHANGED <<termVars, line, drop, nb, nbStop, wait, starts, before>>

(***************************************************************************)
(* quiesce() in thread w: drop the seed, wait, put the seed back if it was *)
(* this call that dropped it.  wait() begins with one.                     *)
(***************************************************************************)
Outstanding == {b \in Callers : hold[b] = "in" /\ place[b] # "none"}

Wait(timed) == /\ MainFree /\ Go(main, "up", "drop")
               /\ wait' = Fresh(timed) /\ before' = Outstanding
               /\ UNCHANGED <<termVars, place, line, drop, up, live, stopping,
                              nb, nbStop, starts>>

Quiesce == /\ Go(other, "idle", "drop") /\ at[main] # "off"
           /\ UNCHANGED <<termVars, place, line, drop, up, live, stopping, nb,
                          nbStop, wait, starts, before>>

Ready(w) == arming[w] = "idle" /\ w \notin asleep /\ (w = main => MainFree)

DropSeed(w) == /\ Ready(w)
               /\ Go(w, "drop", "wait") \/ Go(w, "drop2", "wait2")
               /\ SeedTake(w)
               /\ drop' = [drop EXCEPT ![w] = (seeded = 1 /\ at[w] = "drop")]
               /\ UNCHANGED <<place, line, up, live, stopping, nb, nbStop, wait,
                              starts, before>>

FallAsleep(w) == /\ Ready(w) /\ at[w] \in {"wait", "wait2"} /\ Sleep(w)
                 /\ UNCHANGED lifeVars

\* terminator_wait returns TRUE on a count of zero, FALSE on a timeout.
IsNearlyQuiet == count <= 1
IsQuiet == count = 0

WaitReturns(w, quiet) ==
  /\ arming[w] = "idle" /\ (w = main => NotBusy)
  /\ Go(w, "wait", "rearm") \/ Go(w, "wait2", "seal")
  /\ IF quiet THEN w \notin asleep /\ IsQuiet ELSE w = main => wait.timed
  /\ Leave(w)
  /\ wait' = IF w = main THEN [wait EXCEPT !.quiet = quiet] ELSE wait
  /\ UNCHANGED <<place, line, drop, up, live, stopping, nb, nbStop, starts, before>>

Rearm(w) == /\ Ready(w)
            /\ Go(w, "rearm", IF w = main THEN "drop2" ELSE "done")
            /\ IF drop[w] THEN SeedPut(w) ELSE UNCHANGED termVars
            /\ drop' = [drop EXCEPT ![w] = FALSE]
            /\ UNCHANGED <<place, line, up, live, stopping, nb, nbStop,
                           wait, starts, before>>

\* The second halves of the seed operations, and the broadcast.
SeedStep(w) == /\ SeedDrop(w) \/ SeedRing(w) \/ SeedAdd(w)
               /\ UNCHANGED lifeVars

(***************************************************************************)
(* The rest of stop(): close whatever the wait said, send the noticeboard  *)
(* thread its shutdown, join it if the timeout allows.                     *)
(***************************************************************************)
Seal == /\ MainFree /\ Go(main, "seal", "join") /\ Close
        /\ nbStop' = TRUE
        /\ UNCHANGED <<place, line, drop, up, live, stopping, nb, wait, starts,
                       before>>

Join == /\ Go(main, "join", "leave")
        /\ ~nb \/ wait.timed
        /\ wait' = [wait EXCEPT !.failed = nb]
        /\ UNCHANGED <<termVars, place, line, drop, up, live, stopping, nb,
                       nbStop, starts, before>>

StopWorkers == /\ at[main] = "leave" /\ ~stopping /\ stopping' = TRUE
               /\ UNCHANGED <<termVars, place, line, at, drop, up, live, nb,
                              nbStop, wait, starts, before>>

WorkersLeft == /\ stopping /\ live = 0 /\ Go(main, "leave", "pump")
               /\ UNCHANGED <<termVars, place, line, drop, up, live, stopping,
                              nb, nbStop, wait, starts, before>>

(***************************************************************************)
(* The drain: pinned queue, then workers' queues, until a round finds both *)
(* empty.  A dropped behavior is released like one that ran.               *)
(***************************************************************************)
Queue(p) == IF p = "pump" THEN "pinned" ELSE "queued"

DropOne(b) == /\ MainFree /\ at[main] \in {"pump", "orphans"}
              /\ place[b] = Queue(at[main])
              /\ Release(b, "dropped")
              /\ wait' = [wait EXCEPT !.progress = TRUE]
              /\ UNCHANGED <<termVars, at, drop, up, live, stopping, nb, nbStop,
                             starts, before>>

Empty(p) == \A b \in Callers : place[b] # Queue(p)

PumpDrained == /\ MainFree /\ Empty("pump") /\ Go(main, "pump", "orphans")
               /\ UNCHANGED <<termVars, place, line, drop, up, live, stopping,
                              nb, nbStop, wait, starts, before>>

OnceOver(progress) == "free"
AfterRound(progress) == IF progress THEN "pump" ELSE "free"

RoundOver == /\ MainFree /\ Empty("orphans")
             /\ Go(main, "orphans", AfterRound(wait.progress))
             /\ wait' = [wait EXCEPT !.progress = FALSE]
             /\ UNCHANGED <<termVars, place, line, drop, up, live, stopping, nb,
                            nbStop, starts, before>>

\* scheduler_runtime_stop.
RuntimeStop == /\ Go(main, "free", IF wait.failed THEN "stuck" ELSE "clear")
               /\ Pool(FALSE)
               /\ place' = [b \in Callers |-> IF place[b] = "queued" THEN "lost"
                                             ELSE place[b]]
               /\ UNCHANGED <<termVars, line, drop, nb, nbStop, wait, starts,
                              before>>

\* stop() has raised; the program drives it again.
Retry == /\ Go(main, "stuck", "clear") /\ ~nb
         /\ UNCHANGED <<termVars, place, line, drop, up, live, stopping, nb,
                        nbStop, wait, starts, before>>

Clear == /\ Go(main, "clear", "off")
         /\ wait' = Fresh(FALSE) /\ before' = {} /\ nbStop' = FALSE
         /\ UNCHANGED <<termVars, place, line, drop, up, live, stopping, nb,
                        starts>>

MainStep == \/ Start \/ NoticeboardFails \/ ResetTerminator
            \/ RefuseClose \/ RefuseUnseed \/ AbortWorkers \/ Aborted
            \/ \E t \in BOOLEAN : Wait(t)
            \/ DropSeed(main) \/ FallAsleep(main) \/ Rearm(main) \/ SeedStep(main)
            \/ \E q \in BOOLEAN : WaitReturns(main, q)
            \/ Seal \/ Join \/ StopWorkers \/ WorkersLeft \/ PumpDrained
            \/ RoundOver \/ RuntimeStop \/ Retry \/ Clear
            \/ \E b \in Callers : PumpTake(b) \/ DropOne(b)

OtherStep == \/ Quiesce \/ DropSeed(other) \/ FallAsleep(other)
             \/ Rearm(other) \/ SeedStep(other)
             \/ \E q \in BOOLEAN : WaitReturns(other, q)

BehaviorStep(b) == \/ CallerTakesHold(b) \/ Schedule(b) \/ Take(b)
                   \/ EndBody(b) \/ GivesHoldBack(b)

Next == \/ MainStep \/ OtherStep \/ WorkerExit \/ NbStep
        \/ \E b \in Callers : BehaviorStep(b)

Spec == Init /\ [][Next]_vars

(***************************************************************************)
(* Threads are preempted, not stopped, and bodies and updates end.  No     *)
(* thread has to start anything: not a runtime, a wait, a quiesce or a     *)
(* call.  A wait with a timeout is over some day.                          *)
(***************************************************************************)
Fairness ==
  /\ WF_vars(MainStep /\ at[main] \notin {"off", "up", "stuck"})
  /\ WF_vars(Retry)
  /\ WF_vars(OtherStep /\ at[other] # "idle")
  /\ WF_vars(WorkerExit) /\ WF_vars(NbStep)
  /\ \A b \in Callers : WF_vars(BehaviorStep(b) /\ hold[b] # "none")

FairSpec == Spec /\ Fairness

----------------------------------------------------------------------------
(***************************************************************************)
(* Nobody waits in vain behind a behavior that was refused or lost when an *)
(* earlier pool went down: those never give their cown up.                 *)
(***************************************************************************)
Stranded == \E i \in 1..Len(line) : place[line[i]] \in {"refused", "lost"}

(***************************************************************************)
(* wait() that was not timed out has waited for everything: each behavior  *)
(* scheduled before it has run and released its cowns; none was dropped.   *)
(***************************************************************************)
QuietMeansDone == wait.quiet /\ strays = 0 =>
                    \A b \in before : /\ place[b] = "leaving"
                                      /\ hold[b] \in {"ring", "back"}

(***************************************************************************)
(* However stop() came about, what was scheduled before wait() has run or  *)
(* been dropped, its cowns handed on and its hold returned, before the     *)
(* queues are freed (the alternating drains of stop_workers).              *)
(***************************************************************************)
DrainIsComplete == at[main] \in {"free", "stuck", "clear"} /\ ~Stranded =>
                     \A b \in before : /\ place[b] \in {"leaving", "dropped"}
                                       /\ hold[b] = "back"

(***************************************************************************)
(* A wait() for quiescence ends, though only a dec, an undo or the other   *)
(* thread can wake it: unless the other thread has put the seed back after *)
(* this one dropped it, or an earlier run has left its marks.              *)
(***************************************************************************)
Impaired == strays # 0 \/ Stranded \/ seeded = 1
WaitEnds == at[main] = "wait2" ~> at[main] # "wait2" \/ Impaired
=============================================================================
