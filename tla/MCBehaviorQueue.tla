-------------------------- MODULE MCBehaviorQueue ---------------------------
(***************************************************************************)
(* Two workers, one of which steals.                                       *)
(***************************************************************************)
EXTENDS BehaviorQueue, TLC

CONSTANTS q1, q2, w1, w2

TwoQueues == w1 :> q1 @@ w2 :> q2
OneThief  == w1 :> Null @@ w2 :> q1

\* Every node offered is run.
EveryNodeRuns == \A n \in Nodes : n \notin spare ~> n \in spare
=============================================================================
