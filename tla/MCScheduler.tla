---------------------------- MODULE MCScheduler -----------------------------
(***************************************************************************)
(* Small pools.                                                            *)
(***************************************************************************)
EXTENDS Scheduler, TLC

CONSTANTS t1, t2, t3, t4, t5

\* One behavior from outside; and one that dispatches another.
Solo == t1 :> None
Pair == t1 :> None @@ t2 :> t1

\* t1 dispatches t2 and t3, so that t2 is evicted from pending; t3 uses up a
\* batch of one and dispatches t4 while t2 waits in the queue.
Line == t1 :> None @@ t2 :> t1 @@ t3 :> t1 @@ t4 :> t3 @@ t5 :> None
=============================================================================
