----------------------------- MODULE WorkerPool -----------------------------
(***************************************************************************)
(* What the scheduler promises: a behavior that is dispatched is run by    *)
(* one worker, once.  This is what CownMCS takes for granted between       *)
(* dispatch and Start, and what Scheduler implements.                      *)
(***************************************************************************)
CONSTANTS Tasks     \* dispatched behaviors

VARIABLES status    \* how far each one is

Init == status = [t \in Tasks |-> "new"]

Move(t, from, to) == /\ status[t] = from
                     /\ status' = [status EXCEPT ![t] = to]

Dispatch(t) == Move(t, "new", "ready")
Take(t)     == Move(t, "ready", "running")
Complete(t) == Move(t, "running", "done")

Next == \E t \in Tasks : Dispatch(t) \/ Take(t) \/ Complete(t)

Spec == Init /\ [][Next]_status
=============================================================================
