-------------------------- MODULE CownMCSTeardown --------------------------
(***************************************************************************)
(* Scheduling against a runtime that is going down.                        *)
(*                                                                         *)
(* stop(timeout) may give up waiting for quiescence and stop the workers   *)
(* while a call of whencall that holds the terminator is still inside      *)
(* schedule.  boc_sched_dispatch then refuses the behavior, schedule       *)
(* raises, and the capsule of a behavior that is linked into its cowns'    *)
(* queues is dropped.                                                      *)
(***************************************************************************)
EXTENDS CownMCS, FiniteSets

VARIABLES
    up,     \* WORKER_COUNT is not zero
    freed   \* behavior_free has run on a behavior that never did

tvars == <<vars, up, freed>>

TInit == Init /\ up = TRUE /\ freed = [b \in Behaviors |-> FALSE]

\* stop_workers has joined the workers and drained what was dispatched, and
\* calls scheduler_runtime_stop.  Callers may be anywhere.
RuntimeStop ==
    /\ up
    /\ \A b \in Behaviors : runner[b] \in {"none", "done"}
    /\ up' = FALSE
    /\ UNCHANGED <<vars, freed>>

\* The refusal, off any worker: behavior_resolve_one gives back the
\* reference it took for the queue, schedule and whencall raise.
DispatchFails(b) ==
    /\ ~up
    /\ caller[b] = "dispatch"
    /\ GotoCaller(b, "return")
    /\ UNCHANGED <<memory, prev, todo, runner, left, history, up, freed>>

\* The requests of b that go with it, and hold a successor.
Dying(b) == {c \in Targets(b) : rc[b][c] = 1 /\ next[b][c] # Null}

\* behavior_free when the last reference goes before the behavior ran: it
\* drops the owner's reference to each request.
FreeBehavior(b) ==
    /\ caller[b] = "done"
    /\ runner[b] = "none"
    /\ brc[b] = 0
    /\ ~freed[b]
    /\ freed' = [freed EXCEPT ![b] = TRUE]
    /\ rc' = [rc EXCEPT ![b] =
                [c \in Cowns |-> IF c \in Targets(b) THEN @[c] - 1 ELSE @[c]]]
    /\ brc' = [a \in Behaviors |->
                 brc[a] - Cardinality({c \in Dying(b) : next[b][c] = a})]
    /\ UNCHANGED <<count, last, next, scheduled, threads, history, up>>

TNext ==
    \/ RuntimeStop
    \/ \E b \in Behaviors :
         \/ DispatchFails(b)
         \/ FreeBehavior(b)
         \/ /\ caller[b] = "dispatch" => up
            /\ Create(b) \/ CallerStep(b) \/ RunnerStep(b)
            /\ UNCHANGED <<up, freed>>

TSpec == TInit /\ [][TNext]_tvars

\* The comment above behavior_resolve_one: the request of a stranded
\* behavior stays linked at the end of its cown's queue and "still holds its
\* BEHAVIOR_INCREF, so the BOCBehavior cannot be freed".
LinkedIsAlive == \A c \in Cowns : last[c] # Null => ~freed[last[c]]
=============================================================================
