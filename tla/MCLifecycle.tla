---------------------------- MODULE MCLifecycle -----------------------------
(***************************************************************************)
(* A small program for Lifecycle.                                          *)
(***************************************************************************)
EXTENDS Lifecycle, TLC

CONSTANTS b1, b2, b3

\* b1 is scheduled from outside and its body schedules b2 on the same cown;
\* b3 comes from another thread.
Nested == b1 :> None @@ b2 :> b1 @@ b3 :> None
=============================================================================
