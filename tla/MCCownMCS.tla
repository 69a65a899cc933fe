----------------------------- MODULE MCCownMCS ------------------------------
(***************************************************************************)
(* The instance of CownMCS for TLC.                                        *)
(***************************************************************************)
EXTENDS CownMCS, TLC

CONSTANTS b1, b2, b3

\* Three contenders for cown 2, the least for which a tail can move between a
\* swap and the link to it.  Two of them contend for cown 5 as well, with
\* arguments out of address order and one given twice; the third also takes
\* the result of the first.
TrioArgs == b1 :> <<2>> @@ b2 :> <<5, 2, 5>> @@ b3 :> <<2, 5, 1>>
TrioResult == b1 :> 1 @@ b2 :> 3 @@ b3 :> 4
=============================================================================
