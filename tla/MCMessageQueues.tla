-------------------------- MODULE MCMessageQueues ---------------------------
(***************************************************************************)
(* Small programs for MessageQueues.                                       *)
(***************************************************************************)
EXTENDS MessageQueues, TLC

CONSTANTS s1, s2, r1, r2, i0, i1, i2, i3, m1, m2, m3, m4

\* Each thread in an interpreter of its own: everything interleaves, and the
\* ring is as large as what is sent.
Apart == [interp  |-> s1 :> i1 @@ s2 :> i2 @@ r1 :> i0 @@ r2 :> i3,
          program |-> s1 :> <<m1, m2>> @@ s2 :> <<m3>>]

\* Threads of one interpreter, which take turns, and a ring that they fill.
Together == [interp  |-> s1 :> i0 @@ s2 :> i0 @@ r1 :> i0 @@ r2 :> i0,
             program |-> s1 :> <<m1, m2, m4>> @@ s2 :> <<m3>>]

\* One sender and the receivers in the primary interpreter, one in a worker.
Mixed == [interp  |-> s1 :> i1 @@ s2 :> i0 @@ r1 :> i0 @@ r2 :> i0,
          program |-> s1 :> <<m1>> @@ s2 :> <<m2>>]

ApartOrTogether == {Apart, Together}
OnlyMixed == {Mixed}
=============================================================================
