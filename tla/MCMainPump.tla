----------------------------- MODULE MCMainPump ----------------------------
(***************************************************************************)
(* A small program for MainPump: cowns 1 and 3 are pinned, 2 is not.       *)
(***************************************************************************)
EXTENDS MainPump, TLC

CONSTANTS b1, b2, b3

MixedArgs == b1 :> <<2, 2>> @@ b2 :> <<1, 2>> @@ b3 :> <<3>>
MixedBodies == b1 :> {<<"stuck", "good">>, <<"good", "error">>}
            @@ b2 :> {"good"} \X {"good", "stuck"}
            @@ b3 :> {<<"good", "good">>}
MixedResult == b1 :> 4 @@ b2 :> 5 @@ b3 :> 6
=============================================================================
