------------------------- MODULE MCCownMCSTeardown -------------------------
(***************************************************************************)
(* Two behaviors that share a cown, scheduled by two threads while the     *)
(* runtime goes down.                                                      *)
(***************************************************************************)
EXTENDS CownMCSTeardown, TLC

CONSTANTS b1, b2

PairArgs == (b1 :> <<1>>) @@ (b2 :> <<1>>)
PairResult == (b1 :> 2) @@ (b2 :> 3)
=============================================================================
