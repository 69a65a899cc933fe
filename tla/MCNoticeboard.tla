--------------------------- MODULE MCNoticeboard ----------------------------
(***************************************************************************)
(* Two workers with two behaviors each, on a board with room for one.      *)
(***************************************************************************)
EXTENDS Noticeboard, TLC

CONSTANTS n1, n2, n3, n4, w1, w2, k1, k2

Kinds == n1 :> "write" @@ n2 :> "write" @@ n3 :> "update" @@ n4 :> "update"
KeyOf == n1 :> k1 @@ n2 :> k2 @@ n3 :> k1 @@ n4 :> k1
Posts == w1 :> <<n1, n3>> @@ w2 :> <<n2, n4>>
=============================================================================
