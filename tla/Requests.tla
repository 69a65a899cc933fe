------------------------------ MODULE Requests ------------------------------
(***************************************************************************)
(* The requests a behavior makes: which cowns a call of whencall asks for, *)
(* and the order in which BehaviorCapsule_schedule visits them.            *)
(*                                                                         *)
(* A cown is named by its address, because the order of addresses is what  *)
(* create_requests sorts by.  The request of behavior b on cown c is named *)
(* by the pair b, c: create_requests drops duplicates, so there is one.    *)
(***************************************************************************)
EXTENDS Integers, Sequences, FiniteSets

CONSTANTS Behaviors,    \* the BOCBehavior objects of a run
          Cowns,        \* the BOCCown objects, as addresses
          Args,         \* the cowns listed by @when, duplicates included
          Result,       \* the cown whencall creates for the return value
          Null          \* the null pointer

(***************************************************************************)
(* whencall makes a fresh Cown(None) for the result of every call, so two  *)
(* behaviors never share one and none is among its own arguments.          *)
(***************************************************************************)
ASSUME RequestsAssumption ==
    /\ Cowns \subseteq Nat
    /\ IsFiniteSet(Behaviors)
    /\ Null \notin Behaviors
    /\ Args \in [Behaviors -> Seq(Cowns)]
    /\ Result \in [Behaviors -> Cowns]
    /\ \A b1, b2 \in Behaviors : Result[b1] = Result[b2] => b1 = b2
    /\ \A b \in Behaviors : \A i \in DOMAIN Args[b] : Args[b][i] # Result[b]

ArgSet(b) == {Args[b][i] : i \in DOMAIN Args[b]}

\* The deduplicated array behavior->requests: the result and every argument.
Targets(b) == {Result[b]} \cup ArgSet(b)

\* Faulty variant: the comparison of create_requests starts at the result's slot.
DuplicatesMiscounted(b) == Len(Args[b]) + 1 - Cardinality(ArgSet(b))

\* The requests create_requests drops, each paid for with a resolve_one.
Duplicates(b) == Len(Args[b]) - Cardinality(ArgSet(b))

\* c comes first in S, in the order request_cmp_target sorts by.
IsFirst(c, S) == c \in S /\ \A d \in S : c <= d

\* b1's result is an argument of b2: b2 cannot be created before
\* the call of whencall that creates b1 has returned it.
Feeds(b1, b2) == b1 # b2 /\ Result[b1] \in Targets(b2)
=============================================================================
