--------------------------- MODULE Lifecycle_proofs ---------------------------
(***************************************************************************)
(* Proofs about Terminator and about Lifecycle, the runtime around it, for *)
(* any behaviors, waiting threads, restarts and timeouts.                  *)
(*                                                                         *)
(* First the terminator.  Conservation is an invariant of the accesses     *)
(* taken one by one, because each of them moves one unit between the count *)
(* and the places that owe it.  What it needs besides is that one seed     *)
(* operation is over before the next begins; from both follows that the    *)
(* count, with the strays, is never below zero, so that nothing but the    *)
(* three operations that look for it brings the count to zero.             *)
(*                                                                         *)
(* Then the runtime.  It uses the terminator as Terminator says it may be  *)
(* used: each of its steps is a step of TermSpec or leaves the terminator  *)
(* alone, so what is proved of the terminator holds of the runtime.  From  *)
(* there on: what wait() has waited for, and what stop() leaves behind.    *)
(***************************************************************************)
EXTENDS Lifecycle, FiniteSetTheorems, TLAPS

\* One seed operation at a time; one that is putting the seed back has set it.
Seeding == /\ \A v, w \in Waiters : arming[v] # "idle" /\ arming[w] # "idle" => v = w
           /\ \A w \in Waiters : arming[w] = "arm" => seeded = 1

TermInv == TermTypeOK /\ Seeding /\ Conservation /\ NobodyOversleeps

Finite == IsFiniteSet(Counted) /\ IsFiniteSet(At("drop")) /\ IsFiniteSet(At("arm"))

LEMMA CountsAreFinite == Finite
BY TerminatorAssumption, FS_Subset DEF Finite, Counted, At

LEMMA CountsAreFiniteNext == Finite'
BY TerminatorAssumption, FS_Subset DEF Finite, Counted, At

\* What the seed operations owe is settled within one unit.
LEMMA CountNatural ==
    ASSUME TermTypeOK, Seeding, Conservation
    PROVE  count + strays >= 0
<1>1. Cardinality(Counted) \in Nat /\ Cardinality(At("drop")) \in Nat
  BY CountsAreFinite, FS_CardinalityType DEF Finite
<1>2. CASE At("arm") = {}
  <2>1. Cardinality(At("arm")) = 0
    BY <1>2, FS_EmptySet
  <2> QED BY <1>1, <2>1 DEF TermTypeOK, Conservation
<1>3. CASE At("arm") # {}
  <2>1. PICK w \in Waiters : arming[w] = "arm"
    BY <1>3 DEF At
  <2>2. At("arm") = {w}
    BY <2>1 DEF At, Seeding
  <2>3. Cardinality(At("arm")) = 1
    BY <2>2, FS_Singleton
  <2> QED BY <1>1, <2>1, <2>3 DEF TermTypeOK, Conservation, Seeding
<1> QED BY <1>2, <1>3

LEMMA InitHolds == TermInit => TermInv
<1> SUFFICES ASSUME TermInit PROVE TermInv
  OBVIOUS
<1>1. Counted = {} /\ At("drop") = {} /\ At("arm") = {}
  BY DEF TermInit, Counted, At
<1>2. Cardinality({}) = 0
  BY FS_EmptySet
<1>3. Cardinality(Counted) = 0 /\ Cardinality(At("drop")) = 0 /\ Cardinality(At("arm")) = 0
  BY <1>1, <1>2
<1>4. Conservation
  BY <1>3 DEF TermInit, Conservation
<1>5. TermTypeOK
  <2>1. closed \in BOOLEAN
    BY Zenon DEF TermInit
  <2>2. /\ count \in Int /\ seeded \in 0..1 /\ asleep \subseteq Waiters /\ strays \in Nat
        /\ hold \in [Callers -> HoldPlaces] /\ arming \in [Waiters -> ArmPlaces]
    BY DEF TermInit, HoldPlaces, ArmPlaces
  <2> QED BY <2>1, <2>2 DEF TermTypeOK
<1>6. Seeding
  BY DEF TermInit, Seeding
<1>7. NobodyOversleeps
  BY DEF TermInit, NobodyOversleeps
<1> QED BY <1>4, <1>5, <1>6, <1>7 DEF TermInv

----------------------------------------------------------------------------
\* How the counted sets change.
LEMMA Added ==
    ASSUME NEW S, NEW x, IsFiniteSet(S), x \notin S
    PROVE  Cardinality(S \union {x}) = Cardinality(S) + 1
BY FS_AddElement

LEMMA Removed ==
    ASSUME NEW S, NEW x, IsFiniteSet(S), x \in S
    PROVE  Cardinality(S \ {x}) = Cardinality(S) - 1
BY FS_RemoveElement

LEMMA CallerStep ==
    ASSUME TermInv, NEW b \in Callers,
           \/ IncTest(b) \/ IncAdd(b) \/ IncRetest(b) \/ Undo(b) \/ Dec(b) \/ Ring(b)
    PROVE  TermInv'
<1> USE DEF HoldPlaces, ArmPlaces
<1>0. /\ TermTypeOK /\ Seeding /\ Conservation /\ NobodyOversleeps
      /\ Finite
  BY CountsAreFinite DEF TermInv
<1>c. /\ Cardinality(Counted) \in Nat /\ Cardinality(At("drop")) \in Nat
      /\ Cardinality(At("arm")) \in Nat /\ count + strays >= 0
      /\ count \in Int /\ strays \in Nat /\ seeded \in Int /\ Conservation
  BY <1>0, CountNatural, FS_CardinalityType DEF Finite, TermTypeOK
<1>t. TermTypeOK'
  BY <1>0 DEF TermTypeOK, IncTest, IncAdd, IncRetest, Undo, Dec, Ring,
              AfterAdd, RingsOnUndo, RingsOnDec, Ringing
<1>s. arming' = arming /\ seeded' = seeded
  BY DEF IncTest, IncAdd, IncRetest, Undo, Dec, Ring
<1>d. At("drop")' = At("drop") /\ At("arm")' = At("arm") /\ Seeding'
  BY <1>0, <1>s DEF At, Seeding
<1>e. /\ Cardinality(At("drop"))' = Cardinality(At("drop"))
      /\ Cardinality(At("arm"))' = Cardinality(At("arm"))
  BY <1>d
<1>1. CASE IncTest(b)
  <2>1. Counted' = Counted
    BY <1>0, <1>1 DEF Counted, IncTest, TermTypeOK
  <2>2. Conservation'
    BY <1>0, <1>1, <1>d, <2>1 DEF Conservation, IncTest
  <2>3. NobodyOversleeps'
    BY <1>0, <1>1 DEF NobodyOversleeps, IncTest, TermTypeOK
  <2> QED BY <1>t, <1>d, <2>2, <2>3 DEF TermInv
<1>2. CASE IncAdd(b)
  <2>1. Counted' = Counted \union {b} /\ b \notin Counted
    BY <1>0, <1>2 DEF Counted, IncAdd, TermTypeOK
  <2>2. Cardinality(Counted') = Cardinality(Counted) + 1
    BY <1>0, <2>1, Added DEF Finite
  <2>a. count' = count + 1 /\ strays' = strays /\ seeded' = seeded
    BY <1>2 DEF IncAdd
  <2>3. Conservation'
    BY <1>c, <1>e, <2>2, <2>a DEF Conservation
  <2>4. NobodyOversleeps'
    BY <1>0, <1>c, <1>2 DEF NobodyOversleeps, IncAdd, TermTypeOK
  <2> QED BY <1>t, <1>d, <2>3, <2>4 DEF TermInv
<1>3. CASE IncRetest(b)
  <2>1. Counted' = Counted
    BY <1>0, <1>3 DEF Counted, IncRetest, TermTypeOK, AfterAdd
  <2>2. Conservation'
    BY <1>0, <1>3, <1>d, <2>1 DEF Conservation, IncRetest
  <2>3. NobodyOversleeps'
    BY <1>0, <1>3 DEF NobodyOversleeps, IncRetest, TermTypeOK, AfterAdd
  <2> QED BY <1>t, <1>d, <2>2, <2>3 DEF TermInv
<1>4. CASE Undo(b)
  <2>1. Counted' = Counted \ {b} /\ b \in Counted
    BY <1>0, <1>4 DEF Counted, Undo, TermTypeOK, RingsOnUndo, Ringing
  <2>2. Cardinality(Counted') = Cardinality(Counted) - 1
    BY <1>0, <2>1, Removed DEF Finite
  <2>a. count' = count - 1 /\ strays' = strays /\ seeded' = seeded
    BY <1>4 DEF Undo
  <2>3. Conservation'
    BY <1>c, <1>e, <2>2, <2>a DEF Conservation
  <2>4. NobodyOversleeps'
    BY <1>0, <1>4 DEF NobodyOversleeps, Undo, TermTypeOK, RingsOnUndo, Ringing
  <2> QED BY <1>t, <1>d, <2>3, <2>4 DEF TermInv
<1>5. CASE Dec(b) /\ hold[b] = "in"
  <2>1. Counted' = Counted \ {b} /\ b \in Counted
    BY <1>0, <1>5 DEF Counted, Dec, TermTypeOK, RingsOnDec, Ringing
  <2>2. Cardinality(Counted') = Cardinality(Counted) - 1
    BY <1>0, <2>1, Removed DEF Finite
  <2>a. count' = count - 1 /\ strays' = strays /\ seeded' = seeded
    BY <1>5 DEF Dec
  <2>3. Conservation'
    BY <1>c, <1>e, <2>2, <2>a DEF Conservation
  <2>4. NobodyOversleeps'
    BY <1>0, <1>5 DEF NobodyOversleeps, Dec, TermTypeOK, RingsOnDec, Ringing
  <2> QED BY <1>t, <1>d, <2>3, <2>4 DEF TermInv
<1>6. CASE Dec(b) /\ hold[b] = "stale"
  <2>1. Counted' = Counted
    BY <1>0, <1>6 DEF Counted, Dec, TermTypeOK, RingsOnDec, Ringing
  <2>a. count' = count - 1 /\ strays' = strays + 1 /\ seeded' = seeded
    BY <1>6 DEF Dec
  <2>2. Conservation'
    BY <1>c, <1>e, <2>1, <2>a DEF Conservation
  <2>3. NobodyOversleeps'
    BY <1>0, <1>6 DEF NobodyOversleeps, Dec, TermTypeOK
  <2> QED BY <1>t, <1>d, <2>2, <2>3 DEF TermInv
<1>7. CASE Ring(b)
  <2>1. Counted' = Counted
    BY <1>0, <1>7 DEF Counted, Ring, TermTypeOK
  <2>2. Conservation'
    BY <1>0, <1>7, <1>d, <2>1 DEF Conservation, Ring
  <2>3. NobodyOversleeps'
    BY <1>7 DEF NobodyOversleeps, Ring
  <2> QED BY <1>t, <1>d, <2>2, <2>3 DEF TermInv
<1> QED BY <1>1, <1>2, <1>3, <1>4, <1>5, <1>6, <1>7 DEF Dec

----------------------------------------------------------------------------
LEMMA WaiterStep ==
    ASSUME TermInv, NEW w \in Waiters,
           \/ SeedTake(w) \/ SeedDrop(w) \/ SeedRing(w)
           \/ SeedPut(w) \/ SeedAdd(w) \/ Sleep(w) \/ Leave(w)
    PROVE  TermInv'
<1> USE DEF HoldPlaces, ArmPlaces
<1>0. /\ TermTypeOK /\ Seeding /\ Conservation /\ NobodyOversleeps
      /\ Finite
  BY CountsAreFinite DEF TermInv
<1>c. /\ Cardinality(Counted) \in Nat /\ Cardinality(At("drop")) \in Nat
      /\ Cardinality(At("arm")) \in Nat /\ count + strays >= 0
      /\ count \in Int /\ strays \in Nat /\ seeded \in Int /\ Conservation
  BY <1>0, CountNatural, FS_CardinalityType DEF Finite, TermTypeOK
<1>t. TermTypeOK'
  BY <1>0 DEF TermTypeOK, SeedTake, SeedDrop, SeedRing, SeedPut, SeedAdd, Sleep, Leave,
              Found, Ringing
<1>h. Counted' = Counted
  BY DEF Counted, SeedTake, SeedDrop, SeedRing, SeedPut, SeedAdd, Sleep, Leave
<1>1. CASE SeedTake(w) /\ seeded = 1
  <2>1. /\ \A v \in Waiters : arming[v] = "idle"
        /\ arming' = [arming EXCEPT ![w] = "drop"]
    BY <1>1 DEF SeedTake, At, Found
  <2>2. /\ At("drop")' = At("drop") \union {w} /\ w \notin At("drop")
        /\ At("arm")' = At("arm")
    BY <1>0, <2>1 DEF At, TermTypeOK
  <2>3. Cardinality(At("drop")') = Cardinality(At("drop")) + 1
    BY <1>0, <2>2, Added DEF Finite
  <2>a. count' = count /\ strays' = strays /\ seeded' = seeded - 1
    BY <1>1 DEF SeedTake
  <2>4. Conservation'
    BY <1>c, <1>h, <2>2, <2>3, <2>a DEF Conservation
  <2>5. Seeding'
    BY <1>0, <2>1 DEF Seeding, TermTypeOK
  <2>6. NobodyOversleeps'
    BY <1>0, <1>1, <2>1 DEF NobodyOversleeps, SeedTake, TermTypeOK
  <2> QED BY <1>t, <2>4, <2>5, <2>6 DEF TermInv
<1>2. CASE SeedTake(w) /\ seeded # 1
  <2>1. seeded = 0 /\ seeded' = 0 /\ arming' = arming
    BY <1>0, <1>2 DEF SeedTake, At, Found, TermTypeOK
  <2>2. At("drop")' = At("drop") /\ At("arm")' = At("arm") /\ Seeding'
    BY <1>0, <2>1 DEF At, Seeding
  <2>3. Conservation'
    BY <1>0, <1>2, <1>h, <2>1, <2>2 DEF Conservation, SeedTake
  <2>4. NobodyOversleeps'
    BY <1>0, <1>2, <2>1 DEF NobodyOversleeps, SeedTake
  <2> QED BY <1>t, <2>2, <2>3, <2>4 DEF TermInv
<1>3. CASE SeedDrop(w)
  <2>1. /\ At("drop")' = At("drop") \ {w} /\ w \in At("drop")
        /\ At("arm")' = At("arm")
    BY <1>0, <1>3 DEF At, SeedDrop, TermTypeOK, Ringing
  <2>2. Cardinality(At("drop")') = Cardinality(At("drop")) - 1
    BY <1>0, <2>1, Removed DEF Finite
  <2>a. count' = count - 1 /\ strays' = strays /\ seeded' = seeded
    BY <1>3 DEF SeedDrop
  <2>3. Conservation'
    BY <1>c, <1>h, <2>1, <2>2, <2>a DEF Conservation
  <2>4. Seeding'
    BY <1>0, <1>3 DEF Seeding, SeedDrop, TermTypeOK, Ringing
  <2>5. NobodyOversleeps'
    BY <1>0, <1>3 DEF NobodyOversleeps, SeedDrop, TermTypeOK, Ringing
  <2> QED BY <1>t, <2>3, <2>4, <2>5 DEF TermInv
<1>4. CASE SeedRing(w)
  <2>1. At("drop")' = At("drop") /\ At("arm")' = At("arm")
    BY <1>0, <1>4 DEF At, SeedRing, TermTypeOK
  <2>2. Conservation'
    BY <1>0, <1>4, <1>h, <2>1 DEF Conservation, SeedRing
  <2>3. Seeding'
    BY <1>0, <1>4 DEF Seeding, SeedRing, TermTypeOK
  <2>4. NobodyOversleeps'
    BY <1>4 DEF NobodyOversleeps, SeedRing
  <2> QED BY <1>t, <2>2, <2>3, <2>4 DEF TermInv
<1>5. CASE SeedPut(w) /\ seeded = 0
  <2>1. /\ \A v \in Waiters : arming[v] = "idle"
        /\ arming' = [arming EXCEPT ![w] = "arm"]
    BY <1>5 DEF SeedPut, At
  <2>2. /\ At("arm")' = At("arm") \union {w} /\ w \notin At("arm")
        /\ At("drop")' = At("drop")
    BY <1>0, <2>1 DEF At, TermTypeOK
  <2>3. Cardinality(At("arm")') = Cardinality(At("arm")) + 1
    BY <1>0, <2>2, Added DEF Finite
  <2>a. count' = count /\ strays' = strays /\ seeded' = seeded + 1
    BY <1>5 DEF SeedPut
  <2>4. Conservation'
    BY <1>c, <1>h, <2>2, <2>3, <2>a DEF Conservation
  <2>5. Seeding'
    BY <1>0, <1>5, <2>1 DEF Seeding, SeedPut, TermTypeOK
  <2>6. NobodyOversleeps'
    BY <1>0, <1>5, <2>1 DEF NobodyOversleeps, SeedPut, TermTypeOK
  <2> QED BY <1>t, <2>4, <2>5, <2>6 DEF TermInv
<1>6. CASE SeedPut(w) /\ seeded # 0
  <2>1. seeded' = seeded /\ arming' = arming
    BY <1>0, <1>6 DEF SeedPut, TermTypeOK
  <2>2. At("drop")' = At("drop") /\ At("arm")' = At("arm") /\ Seeding'
    BY <1>0, <2>1 DEF At, Seeding
  <2>3. Conservation'
    BY <1>0, <1>6, <1>h, <2>1, <2>2 DEF Conservation, SeedPut
  <2>4. NobodyOversleeps'
    BY <1>0, <1>6, <2>1 DEF NobodyOversleeps, SeedPut
  <2> QED BY <1>t, <2>2, <2>3, <2>4 DEF TermInv
<1>7. CASE SeedAdd(w)
  <2>1. /\ At("arm")' = At("arm") \ {w} /\ w \in At("arm")
        /\ At("drop")' = At("drop")
    BY <1>0, <1>7 DEF At, SeedAdd, TermTypeOK
  <2>2. Cardinality(At("arm")') = Cardinality(At("arm")) - 1
    BY <1>0, <2>1, Removed DEF Finite
  <2>a. count' = count + 1 /\ strays' = strays /\ seeded' = seeded
    BY <1>7 DEF SeedAdd
  <2>3. Conservation'
    BY <1>c, <1>h, <2>1, <2>2, <2>a DEF Conservation
  <2>4. Seeding'
    BY <1>0, <1>7 DEF Seeding, SeedAdd, TermTypeOK
  <2>5. NobodyOversleeps'
    BY <1>0, <1>c, <1>7 DEF NobodyOversleeps, SeedAdd, TermTypeOK
  <2> QED BY <1>t, <2>3, <2>4, <2>5 DEF TermInv
<1>8. CASE Sleep(w)
  <2>1. At("drop")' = At("drop") /\ At("arm")' = At("arm") /\ Seeding'
    BY <1>0, <1>8 DEF At, Seeding, Sleep
  <2>2. Conservation'
    BY <1>0, <1>8, <1>h, <2>1 DEF Conservation, Sleep
  <2>3. NobodyOversleeps'
    BY <1>8 DEF NobodyOversleeps, Sleep
  <2> QED BY <1>t, <2>1, <2>2, <2>3 DEF TermInv
<1>9. CASE Leave(w)
  <2>1. At("drop")' = At("drop") /\ At("arm")' = At("arm") /\ Seeding'
    BY <1>0, <1>9 DEF At, Seeding, Leave
  <2>2. Conservation'
    BY <1>0, <1>9, <1>h, <2>1 DEF Conservation, Leave
  <2>3. NobodyOversleeps'
    BY <1>0, <1>9 DEF NobodyOversleeps, Leave
  <2> QED BY <1>t, <2>1, <2>2, <2>3 DEF TermInv
<1> QED BY <1>1, <1>2, <1>3, <1>4, <1>5, <1>6, <1>7, <1>8, <1>9

----------------------------------------------------------------------------
LEMMA CloseStep ==
    ASSUME TermInv, Close PROVE TermInv'
BY DEF TermInv, Close, TermTypeOK, Seeding, Conservation, Counted, At, NobodyOversleeps

LEMMA ResetStep ==
    ASSUME TermInv, Reset PROVE TermInv'
<1> USE DEF HoldPlaces, ArmPlaces
<1>1. \A w \in Waiters : arming[w] = "idle" /\ arming'[w] = "idle"
  BY DEF Reset, At
<1>2. Counted' = {} /\ At("drop")' = {} /\ At("arm")' = {}
  BY <1>1 DEF Reset, InsideInc, Counted, At, TermInv, TermTypeOK
<1>3. Cardinality({}) = 0
  BY FS_EmptySet
<1>4. Conservation'
  BY <1>2, <1>3 DEF Conservation, Reset
<1>5. TermTypeOK'
  <2>1. closed' \in BOOLEAN
    BY Zenon DEF Reset
  <2>2. /\ count' \in Int /\ seeded' \in 0..1 /\ asleep' \subseteq Waiters /\ strays' \in Nat
        /\ hold' \in [Callers -> HoldPlaces] /\ arming' \in [Waiters -> ArmPlaces]
    BY DEF Reset, TermInv, TermTypeOK
  <2> QED BY <2>1, <2>2 DEF TermTypeOK
<1>6. Seeding'
  BY <1>1 DEF Reset, Seeding
<1>7. NobodyOversleeps'
  BY DEF Reset, NobodyOversleeps
<1> QED BY <1>4, <1>5, <1>6, <1>7 DEF TermInv

LEMMA StutterStep ==
    ASSUME TermInv, UNCHANGED termVars PROVE TermInv'
BY DEF TermInv, termVars, TermTypeOK, Seeding, Conservation, Counted, At, NobodyOversleeps

LEMMA NextHolds == TermInv /\ [TermNext]_termVars => TermInv'
BY CallerStep, WaiterStep, CloseStep, ResetStep, StutterStep DEF TermNext

(***************************************************************************)
(* terminator_inc, terminator_dec, terminator_seed_dec and                 *)
(* terminator_seed_inc keep the count and the flags in their ranges, and   *)
(* seed operations never overlap.                                          *)
(***************************************************************************)
THEOREM Terminator_Invariance == TermSpec => []TermInv
BY InitHolds, NextHolds, PTL DEF TermSpec

(***************************************************************************)
(* The count of boc_terminator.c is always what its callers hold, for any  *)
(* number of them, in any interleaving of their accesses.                  *)
(***************************************************************************)
THEOREM Terminator_Conservation == TermSpec => []Conservation
<1>1. TermInv => Conservation
  BY DEF TermInv
<1> QED BY <1>1, Terminator_Invariance, PTL

(***************************************************************************)
(* terminator_wait is never left asleep over a count of zero that nobody   *)
(* is about to broadcast.                                                  *)
(***************************************************************************)
THEOREM Terminator_NobodyOversleeps == TermSpec => []NobodyOversleeps
<1>1. TermInv => NobodyOversleeps
  BY DEF TermInv
<1> QED BY <1>1, Terminator_Invariance, PTL

----------------------------------------------------------------------------
LEMMA MainIsWaiter == main \in Waiters /\ other \in Waiters
BY LifecycleAssumption

LEMMA BehaviorUsesTerminator ==
    ASSUME NEW b \in Callers, BehaviorStep(b) PROVE [TermNext]_termVars
<1>1. CASE CallerTakesHold(b)
  BY <1>1 DEF CallerTakesHold, TermNext
<1>2. CASE GivesHoldBack(b)
  BY <1>2 DEF GivesHoldBack, TermNext
<1>3. CASE Schedule(b) \/ Take(b) \/ EndBody(b)
  BY <1>3 DEF Schedule, Take, EndBody, termVars
<1> QED BY <1>1, <1>2, <1>3 DEF BehaviorStep

\* What main and the other thread have in common.
LEMMA WaiterUsesTerminator ==
    ASSUME NEW w \in Waiters,
           \/ DropSeed(w) \/ FallAsleep(w) \/ Rearm(w) \/ SeedStep(w)
           \/ \E q \in BOOLEAN : WaitReturns(w, q)
    PROVE  [TermNext]_termVars
<1>1. CASE DropSeed(w)
  BY <1>1 DEF DropSeed, TermNext
<1>2. CASE FallAsleep(w)
  BY <1>2 DEF FallAsleep, TermNext
<1>3. CASE Rearm(w)
  BY <1>3 DEF Rearm, TermNext
<1>4. CASE SeedStep(w)
  BY <1>4 DEF SeedStep, TermNext
<1>5. CASE \E q \in BOOLEAN : WaitReturns(w, q)
  BY <1>5 DEF WaitReturns, TermNext
<1> QED BY <1>1, <1>2, <1>3, <1>4, <1>5

LEMMA MainUsesTerminator ==
    ASSUME MainStep PROVE [TermNext]_termVars
<1>1. CASE NoticeboardFails \/ RefuseClose \/ Seal
  BY <1>1 DEF NoticeboardFails, RefuseClose, Seal, TermNext
<1>2. CASE ResetTerminator
  BY <1>2 DEF ResetTerminator, TermNext
<1>3. CASE RefuseUnseed
  BY <1>3, MainIsWaiter DEF RefuseUnseed, TermNext
<1>4. CASE \/ DropSeed(main) \/ FallAsleep(main) \/ Rearm(main) \/ SeedStep(main)
           \/ \E q \in BOOLEAN : WaitReturns(main, q)
  BY <1>4, MainIsWaiter, WaiterUsesTerminator
<1>5. CASE \E b \in Callers : PumpTake(b)
  BY <1>5, MainIsWaiter DEF PumpTake, TermNext
<1>6. CASE \/ Start \/ AbortWorkers \/ Aborted \/ \E t \in BOOLEAN : Wait(t)
           \/ Join \/ StopWorkers \/ WorkersLeft
  BY <1>6 DEF Start, AbortWorkers, Aborted, Wait, Join, StopWorkers, WorkersLeft, termVars
<1>7. CASE \/ PumpDrained \/ RoundOver \/ RuntimeStop \/ Retry \/ Clear
           \/ \E b \in Callers : DropOne(b)
  BY <1>7 DEF PumpDrained, RoundOver, RuntimeStop, Retry, Clear, DropOne, termVars
<1> QED BY <1>1, <1>2, <1>3, <1>4, <1>5, <1>6, <1>7 DEF MainStep

LEMMA StepUsesTerminator == [Next]_vars => [TermNext]_termVars
<1>1. ASSUME OtherStep PROVE [TermNext]_termVars
  <2>1. CASE Quiesce
    BY <2>1 DEF Quiesce, termVars
  <2> QED BY <1>1, <2>1, MainIsWaiter, WaiterUsesTerminator DEF OtherStep
<1>2. ASSUME WorkerExit \/ NbStep PROVE [TermNext]_termVars
  BY <1>2 DEF WorkerExit, NbStep, termVars
<1>3. ASSUME UNCHANGED vars PROVE [TermNext]_termVars
  BY <1>3 DEF vars, termVars
<1> QED BY <1>1, <1>2, <1>3, MainUsesTerminator, BehaviorUsesTerminator DEF Next

(***************************************************************************)
(* start(), wait(), quiesce(), stop() and every whencall use the           *)
(* terminator within its specification.                                    *)
(***************************************************************************)
THEOREM Lifecycle_UsesTerminator == Spec => TermSpec
<1>1. Init => TermInit
  BY DEF Init
<1> QED BY <1>1, StepUsesTerminator, PTL DEF Spec, TermSpec

(***************************************************************************)
(* In a runtime that starts, fails to start, waits, times out, stops and   *)
(* starts again, TERMINATOR_COUNT is what callers, behaviors and the seed  *)
(* hold, less what a reset forgot.                                         *)
(***************************************************************************)
THEOREM Lifecycle_Conservation == Spec => []Conservation
BY Lifecycle_UsesTerminator, Terminator_Conservation, PTL

(***************************************************************************)
(* Neither wait() nor quiesce() is left asleep in terminator_wait over a   *)
(* count of zero that nobody is about to broadcast.                        *)
(***************************************************************************)
THEOREM Lifecycle_NobodyOversleeps == Spec => []NobodyOversleeps
BY Lifecycle_UsesTerminator, Terminator_NobodyOversleeps, PTL

----------------------------------------------------------------------------
(***************************************************************************)
(* What wait() waits for and what stop() leaves behind.  The inductive     *)
(* invariant follows a behavior from the call that takes its hold to the   *)
(* end that gives it back: along the queue of the shared cown, through the *)
(* pool, the main pump and the drain.                                      *)
(***************************************************************************)
WaitFields == {"timed", "quiet", "failed", "progress"}

TypedLife ==
  /\ place \in [Callers -> Places]
  /\ line \in Seq(Sharing)
  /\ at[main] \in MainPlaces /\ at \in [Waiters -> MainPlaces \union OtherPlaces]
  /\ live \in Nat
  /\ DOMAIN wait = WaitFields
  /\ before \subseteq Callers

\* A behavior has its hold from before it is scheduled until it is released,
\* dropped or refused; the pinned ones go to the main pump, the others do not.
HoldOK(b) ==
  /\ place[b] # "none" => hold[b] \in {"in", "stale", "ring", "back"}
  /\ hold[b] \in {"ring", "back"} => place[b] \in {"none", "leaving", "dropped", "refused"}
  /\ place[b] = "queued" => b \notin Pinned
  /\ place[b] = "pinned" => b \in Pinned

\* One behavior at a time has the shared cown, the others in line wait for it.
LineOK ==
  /\ \A i, j \in DOMAIN line : line[i] = line[j] => i = j
  /\ \A i \in DOMAIN line : i > 1 => place[line[i]] = "waiting"
  /\ line # <<>> => place[line[1]] \in {"queued", "pinned", "running", "refused", "lost"}
  /\ \A b \in Callers : place[b] = "waiting" => \E i \in DOMAIN line : line[i] = b
  /\ \A b \in Sharing : place[b] \in {"queued", "pinned", "running"} =>
                          line # <<>> /\ line[1] = b

\* The pool is there from start() on; when it is gone nobody is running.
Gone == {"pump", "orphans", "free", "stuck", "clear", "off"}
PoolOK ==
  /\ up <=> at[main] \notin {"off", "stuck", "clear"}
  /\ at[main] \in Gone => live = 0
  /\ Running <= live
  /\ \A b \in Pinned : place[b] \in {"running", "leaving"} /\ hold[b] # "back" =>
                         at[main] \in {"up", "wait", "wait2"}
  /\ \A b \in Callers : place[b] = "dropped" /\ hold[b] # "back" =>
                         at[main] \in {"pump", "orphans"}

\* Between start() and the freeing of the queues nothing is refused or lost.
Waited == {"drop", "wait", "rearm", "drop2", "wait2", "seal", "join", "leave",
           "pump", "orphans"}
Kept == at[main] \in Waited \union {"up"} =>
          \A b \in Callers : hold[b] = "in" => place[b] \notin {"refused", "lost"}

Draining == {"pump", "orphans", "free", "stuck", "clear"}
BeforeOK ==
  /\ at[main] \notin Waited \union {"free", "stuck", "clear"} => before = {} /\ ~wait.quiet
  /\ \A b \in before :
       /\ hold[b] \in {"in", "ring", "back"} /\ place[b] # "none"
       /\ at[main] \in Waited => place[b] \notin {"refused", "lost"}
       /\ place[b] = "dropped" => at[main] \in Draining

\* A round of the drain in which nothing was dropped.
RoundOK == at[main] = "orphans" /\ ~wait.progress =>
             \A b \in before : /\ place[b] # "pinned"
                               /\ place[b] = "waiting" => place[line[1]] # "pinned"

LifeInv == /\ TypedLife /\ (\A b \in Callers : HoldOK(b)) /\ LineOK /\ PoolOK /\ Kept
           /\ BeforeOK /\ RoundOK /\ QuietMeansDone /\ DrainIsComplete

----------------------------------------------------------------------------
LEMMA LifeInit == Init => LifeInv
<1> SUFFICES ASSUME Init PROVE LifeInv
  OBVIOUS
<1>1. /\ \A b \in Callers : place[b] = "none" /\ hold[b] = "none"
      /\ line = <<>> /\ at[main] = "off" /\ up = FALSE /\ live = 0
      /\ wait = Fresh(FALSE) /\ before = {}
  BY MainIsWaiter DEF Init, TermInit
<1>2. TypedLife
  <2>1. place \in [Callers -> Places]
    BY DEF Init, Places
  <2>2. at \in [Waiters -> MainPlaces \union OtherPlaces] /\ at[main] \in MainPlaces
    BY <1>1 DEF Init, MainPlaces, OtherPlaces
  <2>3. DOMAIN wait = WaitFields
    BY <1>1 DEF Fresh, WaitFields
  <2>4. line \in Seq(Sharing) /\ before \subseteq Callers
    BY <1>1
  <2> QED BY <1>1, <2>1, <2>2, <2>3, <2>4 DEF TypedLife
<1>3. Running = 0
  <2>1. {b \in Callers \ Pinned : Busy(b) /\ place[b] # "dropped"} = {}
    BY <1>1 DEF Busy
  <2> QED BY <2>1, FS_EmptySet DEF Running
<1>4. \A b \in Callers : HoldOK(b)
  BY <1>1 DEF HoldOK
<1>5. LineOK
  <2>1. \A i \in DOMAIN line : FALSE
    BY <1>1
  <2> QED BY <1>1, <2>1, LifecycleAssumption DEF LineOK
<1>6. PoolOK
  BY <1>1, <1>3, LifecycleAssumption DEF PoolOK, Gone
<1>7. Kept /\ BeforeOK /\ RoundOK /\ QuietMeansDone /\ DrainIsComplete
  BY <1>1 DEF Kept, BeforeOK, RoundOK, QuietMeansDone, DrainIsComplete, Fresh, Waited
<1> QED BY <1>2, <1>4, <1>5, <1>6, <1>7 DEF LifeInv

\* A step that moves no behavior.
Sits == UNCHANGED <<place, line, hold, strays>>

LEMMA SitsKeeps ==
    ASSUME LifeInv, Sits
    PROVE  /\ \A b \in Callers : HoldOK(b)'
           /\ LineOK' /\ Running' = Running /\ (Stranded' <=> Stranded)
<1>1. \A b \in Callers : HoldOK(b)'
  BY DEF LifeInv, Sits, HoldOK
<1>2. LineOK'
  BY DEF LifeInv, Sits, LineOK
<1>3. Running' = Running
  BY DEF Sits, Running, Busy
<1>4. Stranded' <=> Stranded
  BY DEF Sits, Stranded
<1> QED BY <1>1, <1>2, <1>3, <1>4

\* Main goes from one place to another.
LEMMA GoFields ==
    ASSUME TypedLife, NEW from, NEW to, Go(main, from, to)
    PROVE  /\ at[main] = from /\ at'[main] = to
           /\ to \in MainPlaces => /\ at' \in [Waiters -> MainPlaces \union OtherPlaces]
                                   /\ at'[main] \in MainPlaces
BY MainIsWaiter DEF TypedLife, Go

LEMMA RunningIsFinite ==
    /\ IsFiniteSet({b \in Callers \ Pinned : Busy(b) /\ place[b] # "dropped"})
    /\ Running \in Nat
BY TerminatorAssumption, FS_Subset, FS_CardinalityType DEF Running

LEMMA RunningIsFiniteNext == Running' \in Nat
BY TerminatorAssumption, FS_Subset, FS_CardinalityType DEF Running

\* Steps that move no behavior and do not matter to the pool, to what wait()
\* waits for and to the drain.
Easy(from, to) ==
  \/ from = to
  \/ from = "reset" /\ to = "abort"
  \/ from = "close" /\ to = "unseed"
  \/ from = "unseed" /\ to = "abort"
  \/ from = "drop" /\ to = "wait"
  \/ from = "rearm" /\ to = "drop2"
  \/ from = "drop2" /\ to = "wait2"
  \/ from = "seal" /\ to = "join"
  \/ from = "join" /\ to = "leave"
  \/ from = "stuck" /\ to = "clear"

LEMMA EasyMoves ==
    ASSUME LifeInv, Sits, UNCHANGED <<live, up, before>>, Easy(at[main], at'[main]),
           at' \in [Waiters -> MainPlaces \union OtherPlaces], at'[main] \in MainPlaces,
           DOMAIN wait' = WaitFields, wait'.quiet = wait.quiet, wait'.progress = wait.progress
    PROVE  LifeInv'
<1>1. /\ \A b \in Callers : HoldOK(b)'
      /\ LineOK' /\ Running' = Running /\ (Stranded' <=> Stranded)
  BY SitsKeeps
<1>2. TypedLife'
  BY DEF LifeInv, TypedLife, Sits
<1>3. PoolOK'
  <2>1. up' <=> at'[main] \notin {"off", "stuck", "clear"}
    BY DEF LifeInv, PoolOK, Easy
  <2>2. at'[main] \in Gone => live' = 0
    BY DEF LifeInv, PoolOK, Easy, Gone
  <2>3. Running' <= live'
    BY <1>1 DEF LifeInv, PoolOK
  <2>4. /\ \A b \in Pinned : place'[b] \in {"running", "leaving"} /\ hold'[b] # "back" =>
                              at'[main] \in {"up", "wait", "wait2"}
        /\ \A b \in Callers : place'[b] = "dropped" /\ hold'[b] # "back" =>
                              at'[main] \in {"pump", "orphans"}
    BY DEF LifeInv, PoolOK, Easy, Sits
  <2> QED BY <2>1, <2>2, <2>3, <2>4 DEF PoolOK
<1>4. Kept'
  BY DEF LifeInv, Kept, Easy, Waited, Sits
<1>5. BeforeOK'
  BY DEF LifeInv, BeforeOK, Easy, Waited, Draining, Sits
<1>6. RoundOK'
  BY DEF LifeInv, RoundOK, Easy, Sits
<1>7. QuietMeansDone'
  BY DEF LifeInv, QuietMeansDone, Sits
<1>8. DrainIsComplete'
  BY <1>1 DEF LifeInv, DrainIsComplete, Easy, Sits
<1> QED BY <1>1, <1>2, <1>3, <1>4, <1>5, <1>6, <1>7, <1>8 DEF LifeInv

\* The other thread, the noticeboard thread, and the seed.
LEMMA OthersKeep ==
    ASSUME LifeInv, UNCHANGED <<place, line, hold, strays, live, up, before, wait>>,
           at' = at \/ \E to \in MainPlaces \union OtherPlaces : at' = [at EXCEPT ![other] = to]
    PROVE  LifeInv'
<1>1. Sits
  BY DEF Sits
<1>2. /\ at' \in [Waiters -> MainPlaces \union OtherPlaces] /\ at'[main] = at[main]
      /\ at'[main] \in MainPlaces
  BY MainIsWaiter, LifecycleAssumption DEF LifeInv, TypedLife
<1>3. DOMAIN wait' = WaitFields /\ wait'.quiet = wait.quiet /\ wait'.progress = wait.progress
  BY DEF LifeInv, TypedLife
<1>4. Easy(at[main], at'[main])
  BY <1>2 DEF Easy
<1> QED BY <1>1, <1>2, <1>3, <1>4, EasyMoves

\* Main goes on, and the rest stays.
LEMMA MainGoes ==
    ASSUME LifeInv, UNCHANGED <<place, line, hold, strays, live, up, before, wait>>,
           NEW from, NEW to \in MainPlaces, Go(main, from, to), Easy(from, to)
    PROVE  LifeInv'
<1>1. Sits /\ TypedLife
  BY DEF Sits, LifeInv
<1>2. /\ at' \in [Waiters -> MainPlaces \union OtherPlaces] /\ at'[main] = to
      /\ at'[main] \in MainPlaces /\ at[main] = from
  BY <1>1, GoFields
<1>3. DOMAIN wait' = WaitFields /\ wait'.quiet = wait.quiet /\ wait'.progress = wait.progress
  BY DEF LifeInv, TypedLife
<1> QED BY <1>1, <1>2, <1>3, EasyMoves

LEMMA EasySteps ==
    ASSUME LifeInv,
           \/ NoticeboardFails \/ RefuseClose \/ RefuseUnseed \/ AbortWorkers
           \/ Seal \/ Join \/ StopWorkers \/ Retry
           \/ \E w \in Waiters : DropSeed(w) \/ FallAsleep(w) \/ Rearm(w) \/ SeedStep(w)
           \/ Quiesce \/ (\E q \in BOOLEAN : WaitReturns(other, q)) \/ NbStep
    PROVE  LifeInv'
<1> USE DEF termVars
<1>1. CASE NoticeboardFails
  BY <1>1, MainGoes DEF NoticeboardFails, Close, Easy, MainPlaces
<1>2. CASE RefuseClose
  BY <1>2, MainGoes DEF RefuseClose, Close, Easy, MainPlaces
<1>3. CASE RefuseUnseed
  BY <1>3, MainGoes DEF RefuseUnseed, SeedTake, Easy, MainPlaces
<1>4. CASE AbortWorkers \/ StopWorkers \/ NbStep
  BY <1>4, OthersKeep DEF AbortWorkers, StopWorkers, NbStep
<1>5. CASE Seal
  BY <1>5, MainGoes DEF Seal, Close, Easy, MainPlaces
<1>6. CASE Retry
  BY <1>6, MainGoes DEF Retry, Easy, MainPlaces
<1>7. CASE Join
  <2>1. /\ Go(main, "join", "leave") /\ wait' = [wait EXCEPT !.failed = nb]
        /\ UNCHANGED <<place, line, hold, strays, live, up, before>>
    BY <1>7 DEF Join
  <2>2. TypedLife /\ Sits
    BY <2>1 DEF LifeInv, Sits
  <2>3. /\ at' \in [Waiters -> MainPlaces \union OtherPlaces] /\ at'[main] = "leave"
        /\ at'[main] \in MainPlaces /\ at[main] = "join"
    BY <2>1, <2>2, GoFields DEF MainPlaces
  <2>4. DOMAIN wait' = WaitFields /\ wait'.quiet = wait.quiet /\ wait'.progress = wait.progress
    BY <2>1, <2>2 DEF TypedLife, WaitFields
  <2> QED BY <2>1, <2>2, <2>3, <2>4, EasyMoves DEF Easy
<1>8. CASE Quiesce
  BY <1>8, OthersKeep DEF Quiesce, Go, OtherPlaces
<1>9. CASE \E q \in BOOLEAN : WaitReturns(other, q)
  <2>1. PICK q \in BOOLEAN : WaitReturns(other, q)
    BY <1>9
  <2>2. UNCHANGED <<place, line, hold, strays, live, up, before, wait>>
    BY <2>1, LifecycleAssumption DEF WaitReturns, Leave
  <2>3. \E to \in MainPlaces \union OtherPlaces : at' = [at EXCEPT ![other] = to]
    BY <2>1 DEF WaitReturns, Go, MainPlaces, OtherPlaces
  <2> QED BY <2>2, <2>3, OthersKeep
<1>10. ASSUME NEW w \in Waiters, DropSeed(w) \/ FallAsleep(w) \/ Rearm(w) \/ SeedStep(w)
       PROVE  LifeInv'
  <2>1. UNCHANGED <<place, line, hold, strays, live, up, before, wait>>
    BY <1>10 DEF DropSeed, FallAsleep, Rearm, SeedStep, SeedTake, Sleep, SeedPut, SeedDrop,
                 SeedRing, SeedAdd, lifeVars
  <2>2. CASE FallAsleep(w) \/ SeedStep(w)
    BY <2>1, <2>2, OthersKeep DEF FallAsleep, SeedStep, lifeVars
  <2>3. CASE w = other
    <3>1. at' = at \/ \E to \in MainPlaces \union OtherPlaces : at' = [at EXCEPT ![other] = to]
      BY <1>10, <2>3, LifecycleAssumption DEF DropSeed, FallAsleep, Rearm, SeedStep, lifeVars,
         Go, MainPlaces, OtherPlaces
    <3> QED BY <2>1, <3>1, OthersKeep
  <2>4. CASE w = main
    BY <1>10, <2>1, <2>2, <2>4, MainGoes DEF DropSeed, Rearm, Easy, MainPlaces
  <2> QED BY <2>3, <2>4, LifecycleAssumption
<1> QED BY <1>1, <1>2, <1>3, <1>4, <1>5, <1>6, <1>7, <1>8, <1>9, <1>10

LEMMA StartKeeps ==
    ASSUME LifeInv, Start PROVE LifeInv'
<1>0. TypedLife /\ Sits
  BY DEF LifeInv, Start, Sits, termVars
<1>1. /\ \A b \in Callers : HoldOK(b)'
      /\ LineOK' /\ Running' = Running
  BY <1>0, SitsKeeps
<1>2. /\ at[main] = "off" /\ at'[main] = "reset" /\ up' = TRUE /\ live' = Workers
      /\ at' \in [Waiters -> MainPlaces \union OtherPlaces] /\ at'[main] \in MainPlaces
      /\ UNCHANGED <<wait, before>>
  BY <1>0, GoFields DEF Start, Pool, MainPlaces
<1>3. TypedLife'
  BY <1>0, <1>2, LifecycleAssumption DEF TypedLife, Sits
<1>4. PoolOK'
  <2>1. live = 0 /\ Running <= live
    BY <1>2 DEF LifeInv, PoolOK, Gone
  <2>2. Running \in Int
    BY RunningIsFinite
  <2>3. Running' <= live'
    BY <1>1, <1>2, <2>1, <2>2, LifecycleAssumption
  <2> QED BY <1>0, <1>2, <2>3 DEF LifeInv, PoolOK, Gone, Sits
<1>5. Kept' /\ BeforeOK' /\ RoundOK' /\ QuietMeansDone' /\ DrainIsComplete'
  BY <1>0, <1>2 DEF LifeInv, Kept, BeforeOK, RoundOK, QuietMeansDone, DrainIsComplete,
     Waited, Sits
<1> QED BY <1>1, <1>3, <1>4, <1>5 DEF LifeInv

LEMMA ResetKeeps ==
    ASSUME LifeInv, TermTypeOK, ResetTerminator PROVE LifeInv'
<1>0. TypedLife
  BY DEF LifeInv
<1>1. /\ at[main] = "reset" /\ at'[main] \in {"close", "up"}
      /\ at' \in [Waiters -> MainPlaces \union OtherPlaces] /\ at'[main] \in MainPlaces
      /\ UNCHANGED <<place, line, up, live, wait, before>>
  BY <1>0, GoFields DEF ResetTerminator, MainPlaces
<1>2. \A b \in Callers : /\ hold[b] = "in" => hold'[b] = "stale"
                         /\ hold[b] # "in" => hold'[b] = hold[b]
  BY DEF ResetTerminator, Reset
<1>3. Running' = Running
  <2>1. \A b \in Callers : Busy(b)' <=> Busy(b)
    BY <1>1, <1>2 DEF Busy
  <2> QED BY <1>1, <2>1 DEF Running
<1>4. TypedLife'
  BY <1>0, <1>1 DEF TypedLife
<1>5. \A b \in Callers : HoldOK(b)'
  BY <1>1, <1>2 DEF LifeInv, HoldOK
<1>6. LineOK'
  BY <1>1 DEF LifeInv, LineOK
<1>7. PoolOK'
  <2>1. \A b \in Pinned : ~(place[b] \in {"running", "leaving"} /\ hold[b] # "back")
    BY <1>1 DEF LifeInv, PoolOK
  <2>2. \A b \in Callers : ~(place[b] = "dropped" /\ hold[b] # "back")
    BY <1>1 DEF LifeInv, PoolOK
  <2>3. /\ \A b \in Pinned : ~(place'[b] \in {"running", "leaving"} /\ hold'[b] # "back")
        /\ \A b \in Callers : ~(place'[b] = "dropped" /\ hold'[b] # "back")
    BY <1>1, <1>2, <2>1, <2>2, LifecycleAssumption
  <2>4. Running' <= live' /\ up' /\ at'[main] \notin Gone
    BY <1>1, <1>3 DEF LifeInv, PoolOK, Gone
  <2> QED BY <1>1, <2>3, <2>4 DEF PoolOK, Gone
<1>8. Kept'
  BY <1>2 DEF Kept
<1>9. BeforeOK' /\ RoundOK' /\ QuietMeansDone' /\ DrainIsComplete'
  BY <1>1 DEF LifeInv, BeforeOK, RoundOK, QuietMeansDone, DrainIsComplete, Waited
<1> QED BY <1>4, <1>5, <1>6, <1>7, <1>8, <1>9 DEF LifeInv

\* What wait() is to wait for.
LEMMA WaitKeeps ==
    ASSUME LifeInv, NEW timed \in BOOLEAN, Wait(timed) PROVE LifeInv'
<1>0. TypedLife /\ Sits
  BY DEF LifeInv, Wait, Sits, termVars
<1>1. /\ \A b \in Callers : HoldOK(b)'
      /\ LineOK' /\ Running' = Running
  BY <1>0, SitsKeeps
<1>2. /\ at[main] = "up" /\ at'[main] = "drop"
      /\ at' \in [Waiters -> MainPlaces \union OtherPlaces] /\ at'[main] \in MainPlaces
      /\ UNCHANGED <<up, live>>
      /\ wait' = Fresh(timed) /\ before' = Outstanding
  BY <1>0, GoFields DEF Wait, MainPlaces
<1>3. TypedLife' /\ ~wait'.quiet
  BY <1>0, <1>2 DEF TypedLife, Sits, Outstanding, Fresh, WaitFields
<1>4. \A b \in Callers : Busy(b) => b \notin Pinned /\ place[b] # "dropped"
  BY DEF Wait, MainFree, NotBusy
<1>5. PoolOK'
  BY <1>0, <1>1, <1>2, <1>4, LifecycleAssumption DEF LifeInv, PoolOK, Gone, Sits, Busy
<1>6. Kept'
  BY <1>0, <1>2 DEF LifeInv, Kept, Sits
<1>7. BeforeOK'
  <2> SUFFICES ASSUME NEW b \in Outstanding
               PROVE  /\ hold[b] = "in" /\ place[b] \notin {"none", "refused", "lost"}
                      /\ place[b] # "dropped"
    BY <1>0, <1>2 DEF BeforeOK, Waited, Sits
  <2>1. hold[b] = "in" /\ place[b] # "none" /\ b \in Callers
    BY DEF Outstanding
  <2>2. place[b] \notin {"refused", "lost"}
    BY <1>2, <2>1 DEF LifeInv, Kept
  <2>3. place[b] # "dropped"
    BY <1>4, <2>1 DEF Busy
  <2> QED BY <2>1, <2>2, <2>3
<1>8. RoundOK' /\ QuietMeansDone' /\ DrainIsComplete'
  BY <1>2, <1>3 DEF RoundOK, QuietMeansDone, DrainIsComplete
<1> QED BY <1>1, <1>3, <1>5, <1>6, <1>7, <1>8 DEF LifeInv

\* A count of zero leaves no hold out, unless strays have taken it there.
LEMMA ZeroCountsNobody ==
    ASSUME TermTypeOK, Seeding, Conservation, count = 0, strays = 0
    PROVE  \A b \in Callers : hold[b] # "in"
<1>1. /\ Cardinality(Counted) \in Nat /\ Cardinality(At("drop")) \in Nat
      /\ Cardinality(At("arm")) \in Nat
  BY CountsAreFinite, FS_CardinalityType DEF Finite
<1>2. Cardinality(At("arm")) <= seeded
  <2>1. CASE At("arm") = {}
    BY <2>1, FS_EmptySet DEF TermTypeOK
  <2>2. CASE At("arm") # {}
    <3>1. PICK w \in Waiters : arming[w] = "arm"
      BY <2>2 DEF At
    <3>2. At("arm") = {w} /\ seeded = 1
      BY <3>1 DEF At, Seeding
    <3>3. Cardinality(At("arm")) = 1
      BY <3>2, FS_Singleton
    <3> QED BY <3>2, <3>3
  <2> QED BY <2>1, <2>2
<1>3. Cardinality(Counted) = 0
  <2>1. seeded \in Int
    BY DEF TermTypeOK
  <2>2. 0 = seeded + Cardinality(Counted) + Cardinality(At("drop")) - Cardinality(At("arm"))
    BY DEF Conservation
  <2> QED BY <1>1, <1>2, <2>1, <2>2
<1>4. Counted = {}
  BY <1>3, CountsAreFinite, FS_EmptySet DEF Finite
<1> QED BY <1>4 DEF Counted

LEMMA WaitReturnsKeeps ==
    ASSUME LifeInv, TermInv, NEW q \in BOOLEAN, WaitReturns(main, q) PROVE LifeInv'
<1>0. TypedLife /\ Sits
  BY DEF LifeInv, WaitReturns, Leave, Sits
<1>1. /\ \A b \in Callers : HoldOK(b)'
      /\ LineOK' /\ Running' = Running
  BY <1>0, SitsKeeps
<1>2. /\ \/ at[main] = "wait" /\ at'[main] = "rearm"
         \/ at[main] = "wait2" /\ at'[main] = "seal"
      /\ at' \in [Waiters -> MainPlaces \union OtherPlaces] /\ at'[main] \in MainPlaces
      /\ UNCHANGED <<up, live, before>>
      /\ wait' = [wait EXCEPT !.quiet = q] /\ (q => count = 0)
  BY <1>0, GoFields DEF WaitReturns, IsQuiet, MainPlaces
<1>3. TypedLife' /\ wait'.quiet = q
  BY <1>0, <1>2 DEF TypedLife, Sits, WaitFields
<1>4. \A b \in Callers : Busy(b) => b \notin Pinned /\ place[b] # "dropped"
  BY DEF WaitReturns, NotBusy
<1>5. PoolOK'
  BY <1>0, <1>1, <1>2, <1>4, LifecycleAssumption DEF LifeInv, PoolOK, Gone, Sits, Busy
<1>6. Kept'
  BY <1>0, <1>2 DEF LifeInv, Kept, Waited, Sits
<1>7. BeforeOK'
  BY <1>0, <1>2 DEF LifeInv, BeforeOK, Waited, Draining, Sits
<1>8. RoundOK' /\ DrainIsComplete'
  BY <1>2 DEF RoundOK, DrainIsComplete
<1>9. QuietMeansDone'
  <2> SUFFICES ASSUME q, strays = 0, NEW b \in before
               PROVE  place[b] = "leaving" /\ hold[b] \in {"ring", "back"}
    BY <1>0, <1>2, <1>3 DEF QuietMeansDone, Sits
  <2>1. hold[b] # "in" /\ b \in Callers
    BY <1>0, <1>2, ZeroCountsNobody DEF TermInv, TypedLife
  <2>2. hold[b] \in {"ring", "back"} /\ place[b] # "none"
    BY <2>1 DEF LifeInv, BeforeOK
  <2>3. place[b] \in {"leaving", "dropped", "refused"}
    BY <2>1, <2>2 DEF LifeInv, HoldOK
  <2>4. place[b] \notin {"refused", "dropped"}
    BY <1>2 DEF LifeInv, BeforeOK, Waited, Draining
  <2> QED BY <2>2, <2>3, <2>4
<1> QED BY <1>1, <1>3, <1>5, <1>6, <1>7, <1>8, <1>9 DEF LifeInv

\* The pool has left.
LEMMA WorkersLeftKeeps ==
    ASSUME LifeInv, WorkersLeft \/ PumpDrained PROVE LifeInv'
<1>0. TypedLife /\ Sits
  BY DEF LifeInv, WorkersLeft, PumpDrained, Sits, termVars
<1>1. /\ \A b \in Callers : HoldOK(b)'
      /\ LineOK' /\ Running' = Running
  BY <1>0, SitsKeeps
<1>2. /\ \/ at[main] = "leave" /\ at'[main] = "pump" /\ live = 0
         \/ at[main] = "pump" /\ at'[main] = "orphans"
      /\ at' \in [Waiters -> MainPlaces \union OtherPlaces] /\ at'[main] \in MainPlaces
      /\ UNCHANGED <<up, live, before, wait>>
  BY <1>0, GoFields DEF WorkersLeft, PumpDrained, MainPlaces
<1>3. TypedLife'
  BY <1>0, <1>2 DEF TypedLife, Sits
<1>4. PoolOK'
  BY <1>0, <1>1, <1>2 DEF LifeInv, PoolOK, Gone, Sits
<1>5. Kept'
  BY <1>0, <1>2 DEF LifeInv, Kept, Waited, Sits
<1>6. BeforeOK'
  BY <1>0, <1>2 DEF LifeInv, BeforeOK, Waited, Draining, Sits
<1>7. RoundOK'
  <2>1. CASE at'[main] = "pump"
    BY <2>1 DEF RoundOK
  <2>2. CASE at'[main] = "orphans"
    <3>1. \A b \in Callers : place[b] # "pinned"
      BY <1>2, <2>2 DEF WorkersLeft, PumpDrained, Empty, Queue, Go
    <3>2. \A b \in before : place[b] # "pinned"
      BY <1>0, <3>1 DEF TypedLife
    <3>3. \A b \in before : place[b] = "waiting" => place[line[1]] # "pinned"
      <4> SUFFICES ASSUME NEW b \in before, place[b] = "waiting"
                   PROVE  place[line[1]] # "pinned"
        OBVIOUS
      <4>1. line \in Seq(Sharing) /\ b \in Callers
        BY <1>0 DEF TypedLife
      <4>2. line # <<>>
        BY <4>1 DEF LifeInv, LineOK
      <4>3. line[1] \in Callers
        BY <4>1, <4>2, LifecycleAssumption
      <4> QED BY <3>1, <4>3
    <3> QED BY <1>0, <1>2, <3>2, <3>3 DEF RoundOK, Sits
  <2> QED BY <1>2, <2>1, <2>2
<1>8. QuietMeansDone' /\ DrainIsComplete'
  BY <1>0, <1>2 DEF LifeInv, QuietMeansDone, DrainIsComplete, Sits
<1> QED BY <1>1, <1>3, <1>4, <1>5, <1>6, <1>7, <1>8 DEF LifeInv

\* Nobody is running once the workers have left.
LEMMA NobodyRuns ==
    ASSUME LifeInv, at[main] \in Gone
    PROVE  \A b \in Callers : /\ place[b] # "running"
                              /\ place[b] = "leaving" => hold[b] = "back"
<1>1. live = 0 /\ Running <= 0
  BY DEF LifeInv, PoolOK
<1>2. {b \in Callers \ Pinned : Busy(b) /\ place[b] # "dropped"} = {}
  BY <1>1, RunningIsFinite, FS_EmptySet DEF Running
<1>3. \A b \in Callers : place[b] \in {"running", "leaving"} => hold[b] = "back"
  <2> TAKE b \in Callers
  <2>1. CASE b \in Pinned
    BY <2>1 DEF LifeInv, PoolOK, Gone
  <2>2. CASE b \notin Pinned
    BY <1>2, <2>2 DEF Busy
  <2> QED BY <2>1, <2>2
<1>4. \A b \in Callers : place[b] = "running" => hold[b] # "back"
  BY DEF LifeInv, HoldOK
<1> QED BY <1>3, <1>4

\* A round that has dropped nothing leaves nothing.
LEMMA RoundOverKeeps ==
    ASSUME LifeInv, RoundOver PROVE LifeInv'
<1>0. TypedLife /\ Sits
  BY DEF LifeInv, RoundOver, Sits, termVars
<1>1. /\ \A b \in Callers : HoldOK(b)'
      /\ LineOK' /\ Running' = Running /\ (Stranded' <=> Stranded)
  BY <1>0, SitsKeeps
<1>2. /\ at[main] = "orphans" /\ at'[main] \in {"pump", "free"}
      /\ at'[main] = "free" => ~wait.progress
      /\ at' \in [Waiters -> MainPlaces \union OtherPlaces] /\ at'[main] \in MainPlaces
      /\ UNCHANGED <<up, live, before>> /\ wait' = [wait EXCEPT !.progress = FALSE]
  BY <1>0, GoFields DEF RoundOver, AfterRound, MainPlaces
<1>3. TypedLife' /\ wait'.quiet = wait.quiet
  BY <1>0, <1>2 DEF TypedLife, Sits, WaitFields
<1>4. \A b \in Callers : Busy(b) => b \notin Pinned /\ place[b] # "dropped"
  BY DEF RoundOver, MainFree, NotBusy
<1>5. PoolOK'
  BY <1>0, <1>1, <1>2, <1>4 DEF LifeInv, PoolOK, Gone, Sits, Busy
<1>6. Kept'
  BY <1>0, <1>2 DEF LifeInv, Kept, Waited, Sits
<1>7. BeforeOK'
  BY <1>0, <1>2, <1>3 DEF LifeInv, BeforeOK, Waited, Draining, Sits
<1>8. RoundOK' /\ QuietMeansDone'
  BY <1>0, <1>2, <1>3 DEF LifeInv, RoundOK, QuietMeansDone, Sits
<1>9. DrainIsComplete'
  <2> SUFFICES ASSUME at'[main] = "free", ~Stranded, NEW b \in before
               PROVE  place[b] \in {"leaving", "dropped"} /\ hold[b] = "back"
    BY <1>0, <1>1, <1>2 DEF DrainIsComplete, Sits
  <2>1. b \in Callers /\ line \in Seq(Sharing)
    BY <1>0 DEF TypedLife
  <2>2. \A c \in Callers : place[c] # "queued" /\ place[c] # "running"
    BY <1>2, NobodyRuns DEF RoundOver, Empty, Queue, Gone
  <2>3. place[b] # "waiting"
    <3> SUFFICES ASSUME place[b] = "waiting" PROVE FALSE
      OBVIOUS
    <3>1. line # <<>> /\ line[1] \in Callers
      BY <2>1, LifecycleAssumption DEF LifeInv, LineOK
    <3>2. place[line[1]] \in {"queued", "pinned", "running", "refused", "lost"}
      BY <3>1 DEF LifeInv, LineOK
    <3>3. place[line[1]] \notin {"queued", "running"}
      BY <2>2, <3>1
    <3>4. place[line[1]] # "pinned"
      BY <1>2 DEF LifeInv, RoundOK
    <3>5. 1 \in 1..Len(line)
      BY <2>1, <3>1
    <3>6. place[line[1]] \notin {"refused", "lost"}
      BY <3>5 DEF Stranded
    <3> QED BY <3>2, <3>3, <3>4, <3>6
  <2>4. place[b] \notin {"none", "refused", "lost", "pinned"}
    BY <1>2 DEF LifeInv, BeforeOK, RoundOK, Waited
  <2>5. place[b] \in {"leaving", "dropped"}
    BY <1>0, <2>1, <2>2, <2>3, <2>4 DEF TypedLife, Places
  <2>6. place[b] = "leaving" => hold[b] = "back"
    BY <1>2, <2>1, NobodyRuns DEF Gone
  <2>7. place[b] = "dropped" => hold[b] = "back"
    BY <1>4, <2>1 DEF Busy
  <2> QED BY <2>5, <2>6, <2>7
<1> QED BY <1>1, <1>3, <1>5, <1>6, <1>7, <1>8, <1>9 DEF LifeInv

\* The queues are freed.
LEMMA FreedKeeps ==
    ASSUME LifeInv, RuntimeStop \/ Aborted PROVE LifeInv'
<1>0. TypedLife
  BY DEF LifeInv
<1>1. /\ \/ at[main] = "free" /\ at'[main] \in {"stuck", "clear"} /\ before' = before
         \/ at[main] = "abort" /\ at'[main] = "off" /\ before' = before /\ live = 0
      /\ at' \in [Waiters -> MainPlaces \union OtherPlaces] /\ at'[main] \in MainPlaces
      /\ up' = FALSE /\ live' = 0 /\ UNCHANGED <<line, hold, wait, strays>>
  BY <1>0, GoFields DEF RuntimeStop, Aborted, Pool, MainPlaces, termVars
<1>2. place' = [b \in Callers |-> IF place[b] = "queued" THEN "lost" ELSE place[b]]
  BY DEF RuntimeStop, Aborted
<1>3. \A b \in Callers : /\ place[b] = "queued" => place'[b] = "lost"
                         /\ place[b] # "queued" => place'[b] = place[b]
  BY <1>2
<1>4. Running' = Running
  <2>1. \A b \in Callers : /\ Busy(b)' <=> Busy(b)
                           /\ place'[b] = "dropped" <=> place[b] = "dropped"
    BY <1>1, <1>3 DEF Busy
  <2> QED BY <2>1 DEF Running
<1>5. TypedLife'
  <2>1. place' \in [Callers -> Places]
    BY <1>0, <1>2 DEF TypedLife, Places
  <2> QED BY <1>0, <1>1, <2>1 DEF TypedLife
<1>6. \A b \in Callers : HoldOK(b)'
  BY <1>1, <1>3 DEF LifeInv, HoldOK
<1>7. \A i \in DOMAIN line : line[i] \in Callers
  BY <1>0, LifecycleAssumption DEF TypedLife
<1>8. LineOK'
  <2>1. line # <<>> => place'[line[1]] \in {"queued", "pinned", "running", "refused", "lost"}
    <3> SUFFICES ASSUME line # <<>>
                 PROVE  place'[line[1]] \in {"queued", "pinned", "running", "refused", "lost"}
      OBVIOUS
    <3>1. line[1] \in Callers
      BY <1>0, LifecycleAssumption DEF TypedLife
    <3> QED BY <1>3, <3>1 DEF LifeInv, LineOK
  <2>2. \A i \in DOMAIN line : i > 1 => place'[line[i]] = "waiting"
    BY <1>3, <1>7 DEF LifeInv, LineOK
  <2>3. \A b \in Callers : place'[b] = "waiting" => \E i \in DOMAIN line : line[i] = b
    BY <1>3 DEF LifeInv, LineOK
  <2>4. \A b \in Sharing : place'[b] \in {"queued", "pinned", "running"} =>
                             line # <<>> /\ line[1] = b
    BY <1>3, LifecycleAssumption DEF LifeInv, LineOK
  <2>5. \A i, j \in DOMAIN line : line[i] = line[j] => i = j
    BY DEF LifeInv, LineOK
  <2> QED BY <1>1, <2>1, <2>2, <2>3, <2>4, <2>5 DEF LineOK
<1>9. PoolOK'
  <2>1. Running' <= live'
    BY <1>1, <1>4 DEF LifeInv, PoolOK, Gone
  <2>2. /\ \A b \in Pinned : ~(place[b] \in {"running", "leaving"} /\ hold[b] # "back")
        /\ \A b \in Callers : ~(place[b] = "dropped" /\ hold[b] # "back")
    BY <1>1 DEF LifeInv, PoolOK
  <2>3. /\ \A b \in Pinned : ~(place'[b] \in {"running", "leaving"} /\ hold'[b] # "back")
        /\ \A b \in Callers : ~(place'[b] = "dropped" /\ hold'[b] # "back")
    BY <1>1, <1>3, <2>2, LifecycleAssumption
  <2> QED BY <1>1, <2>1, <2>3 DEF PoolOK
<1>10. Kept' /\ RoundOK'
  BY <1>1 DEF Kept, RoundOK, Waited
<1>11. before \subseteq Callers
  BY <1>0 DEF TypedLife
<1>12. BeforeOK'
  BY <1>1, <1>3, <1>11 DEF LifeInv, BeforeOK, Waited, Draining
<1>13. QuietMeansDone'
  BY <1>1, <1>3, <1>11 DEF LifeInv, QuietMeansDone
<1>14. DrainIsComplete'
  <2>1. ~Stranded' => ~Stranded
    <3> SUFFICES ASSUME NEW i \in 1..Len(line), place[line[i]] \in {"refused", "lost"}
                 PROVE  place'[line[i]] \in {"refused", "lost"}
      BY <1>1 DEF Stranded
    <3>1. line[i] \in Callers
      BY <1>0, LifecycleAssumption DEF TypedLife
    <3> QED BY <1>3, <3>1
  <2> QED BY <1>1, <1>3, <1>11, <2>1 DEF LifeInv, DrainIsComplete
<1> QED BY <1>5, <1>6, <1>8, <1>9, <1>10, <1>12, <1>13, <1>14 DEF LifeInv

LEMMA ClearKeeps ==
    ASSUME LifeInv, Clear PROVE LifeInv'
<1>0. TypedLife /\ Sits
  BY DEF LifeInv, Clear, Sits, termVars
<1>1. /\ \A b \in Callers : HoldOK(b)'
      /\ LineOK' /\ Running' = Running
  BY <1>0, SitsKeeps
<1>2. /\ at[main] = "clear" /\ at'[main] = "off"
      /\ at' \in [Waiters -> MainPlaces \union OtherPlaces] /\ at'[main] \in MainPlaces
      /\ UNCHANGED <<up, live>> /\ wait' = Fresh(FALSE) /\ before' = {}
  BY <1>0, GoFields DEF Clear, MainPlaces
<1>3. TypedLife' /\ ~wait'.quiet
  BY <1>0, <1>2 DEF TypedLife, Sits, Fresh, WaitFields
<1>4. PoolOK'
  BY <1>0, <1>1, <1>2 DEF LifeInv, PoolOK, Gone, Sits
<1>5. Kept' /\ BeforeOK' /\ RoundOK' /\ QuietMeansDone' /\ DrainIsComplete'
  BY <1>2, <1>3 DEF Kept, BeforeOK, RoundOK, QuietMeansDone, DrainIsComplete, Waited
<1> QED BY <1>1, <1>3, <1>4, <1>5 DEF LifeInv

LEMMA WorkerExitKeeps ==
    ASSUME LifeInv, WorkerExit PROVE LifeInv'
<1>0. TypedLife /\ Sits
  BY DEF LifeInv, WorkerExit, Sits, termVars
<1>1. /\ \A b \in Callers : HoldOK(b)'
      /\ LineOK' /\ Running' = Running /\ (Stranded' <=> Stranded)
  BY <1>0, SitsKeeps
<1>2. /\ UNCHANGED <<at, up, wait, before>> /\ live' = live - 1 /\ Running < live
  BY DEF WorkerExit, SomeoneIsIdle
<1>3. Running \in Nat /\ live \in Nat
  BY <1>0, RunningIsFinite DEF TypedLife
<1>4. live' \in Nat /\ Running' <= live' /\ live # 0
  BY <1>1, <1>2, <1>3
<1>5. TypedLife'
  BY <1>0, <1>2, <1>4 DEF TypedLife, Sits
<1>6. PoolOK'
  BY <1>0, <1>2, <1>4 DEF LifeInv, PoolOK, Sits
<1>7. /\ Kept' /\ BeforeOK' /\ RoundOK' /\ QuietMeansDone' /\ DrainIsComplete'
  BY <1>0, <1>1, <1>2 DEF LifeInv, Kept, BeforeOK, RoundOK, QuietMeansDone, DrainIsComplete, Sits
<1> QED BY <1>1, <1>5, <1>6, <1>7 DEF LifeInv

\* The hold of one behavior moves.
HoldMoves(b) ==
  \/ place[b] = "none" /\ hold[b] \notin {"ring", "back"} /\ strays' = strays
  \/ /\ hold[b] \in {"in", "stale"} /\ place[b] \in {"leaving", "dropped", "refused"}
     /\ hold'[b] \in {"ring", "back"} /\ strays' \in {strays, strays + 1}
  \/ hold[b] = "ring" /\ hold'[b] = "back" /\ strays' = strays

LEMMA HoldFields ==
    ASSUME LifeInv, TermTypeOK, NEW b \in Callers, CallerTakesHold(b) \/ GivesHoldBack(b)
    PROVE  /\ UNCHANGED lifeVars /\ HoldMoves(b)
           /\ \A c \in Callers : c # b => hold'[c] = hold[c]
<1>1. hold \in [Callers -> HoldPlaces] /\ HoldOK(b)
  BY DEF TermTypeOK, LifeInv
<1>2. CASE IncTest(b) \/ IncAdd(b) \/ IncRetest(b) \/ Undo(b)
  <2>1. hold[b] \in {"none", "inc", "added", "undo"} /\ strays' = strays
    BY <1>2 DEF IncTest, IncAdd, IncRetest, Undo
  <2>2. place[b] = "none"
    BY <1>1, <2>1 DEF HoldOK
  <2>3. \A c \in Callers : c # b => hold'[c] = hold[c]
    BY <1>1, <1>2 DEF IncTest, IncAdd, IncRetest, Undo
  <2> QED BY <2>1, <2>2, <2>3, <1>2 DEF CallerTakesHold, GivesHoldBack, HoldMoves
<1>3. CASE place[b] \in {"leaving", "dropped", "refused"} /\ Dec(b)
  BY <1>1, <1>3 DEF Dec, RingsOnDec, Ringing, CallerTakesHold, GivesHoldBack, HoldMoves
<1>4. CASE Ring(b)
  BY <1>1, <1>4 DEF Ring, CallerTakesHold, GivesHoldBack, HoldMoves
<1> QED BY <1>2, <1>3, <1>4 DEF CallerTakesHold, GivesHoldBack

LEMMA HoldKeeps ==
    ASSUME LifeInv, TermTypeOK, NEW b \in Callers, CallerTakesHold(b) \/ GivesHoldBack(b)
    PROVE  LifeInv'
<1>0. TypedLife /\ (\A c \in Callers : HoldOK(c)) /\ strays \in Nat
  BY DEF LifeInv, TermTypeOK
<1>1. /\ UNCHANGED <<place, line, at, up, live, wait, before>>
      /\ HoldMoves(b) /\ \A c \in Callers : c # b => hold'[c] = hold[c]
  BY HoldFields DEF lifeVars
<1>2. \A c \in Callers : /\ hold[c] = "back" => hold'[c] = "back"
                         /\ hold[c] = "ring" => hold'[c] \in {"ring", "back"}
                         /\ place[c] # "none" /\ hold'[c] = "in" => hold[c] = "in"
                         /\ place[c] # "none" /\ hold[c] = "in" => hold'[c] \in {"in", "ring", "back"}
  BY <1>1 DEF HoldMoves
<1>3. TypedLife'
  BY <1>0, <1>1 DEF TypedLife
<1>4. \A c \in Callers : HoldOK(c)'
  BY <1>0, <1>1 DEF HoldOK, HoldMoves
<1>5. LineOK'
  BY <1>1 DEF LifeInv, LineOK
<1>6. Running' <= Running
  <2>1. {c \in Callers \ Pinned : Busy(c)' /\ place'[c] # "dropped"}
          \subseteq {c \in Callers \ Pinned : Busy(c) /\ place[c] # "dropped"}
    BY <1>1, <1>2 DEF Busy
  <2> QED BY <2>1, RunningIsFinite, FS_Subset DEF Running
<1>7. PoolOK'
  <2>1. Running \in Int /\ Running' \in Int /\ live \in Int /\ Running <= live
    BY <1>0, RunningIsFinite, RunningIsFiniteNext DEF TypedLife, LifeInv, PoolOK
  <2>2. Running' <= live'
    BY <1>1, <1>6, <2>1
  <2>3. /\ \A c \in Pinned : place'[c] \in {"running", "leaving"} /\ hold'[c] # "back" =>
                              at'[main] \in {"up", "wait", "wait2"}
        /\ \A c \in Callers : place'[c] = "dropped" /\ hold'[c] # "back" =>
                              at'[main] \in {"pump", "orphans"}
    BY <1>1, <1>2, LifecycleAssumption DEF LifeInv, PoolOK
  <2> QED BY <1>1, <2>2, <2>3 DEF LifeInv, PoolOK
<1>8. Kept'
  BY <1>1, <1>2 DEF LifeInv, Kept
<1>9. before \subseteq Callers
  BY <1>0 DEF TypedLife
<1>10. BeforeOK'
  BY <1>1, <1>2, <1>9 DEF LifeInv, BeforeOK
<1>11. RoundOK'
  BY <1>1 DEF LifeInv, RoundOK
<1>12. QuietMeansDone'
  <2>1. strays' = 0 => strays = 0
    BY <1>0, <1>1 DEF HoldMoves
  <2> QED BY <1>1, <1>2, <1>9, <2>1 DEF LifeInv, QuietMeansDone
<1>13. DrainIsComplete'
  BY <1>1, <1>2, <1>9 DEF LifeInv, DrainIsComplete, Stranded
<1> QED BY <1>3, <1>4, <1>5, <1>7, <1>8, <1>10, <1>11, <1>12, <1>13 DEF LifeInv

\* How many are running after one has begun.
LEMMA TakenIsOne ==
    ASSUME NEW b \in Callers, UNCHANGED hold,
           \A c \in Callers : c # b => place'[c] = place[c]
    PROVE  Running' <= Running + 1
<1> DEFINE S == {c \in Callers \ Pinned : Busy(c) /\ place[c] # "dropped"}
           T == {c \in Callers \ Pinned : Busy(c)' /\ place'[c] # "dropped"}
<1>1. T \subseteq S \union {b}
  BY DEF Busy
<1>2. IsFiniteSet(S) /\ Cardinality(S) = Running /\ Running \in Nat
  BY RunningIsFinite DEF Running
<1>3. Cardinality(S \union {b}) <= Running + 1 /\ IsFiniteSet(S \union {b})
  <2>1. CASE b \in S
    <3>1. S \union {b} = S
      BY <2>1
    <3> HIDE DEF S
    <3> QED BY <1>2, <3>1
  <2>2. CASE b \notin S
    <3>1. Cardinality(S \union {b}) = Cardinality(S) + 1 /\ IsFiniteSet(S \union {b})
      BY <1>2, <2>2, FS_AddElement
    <3> HIDE DEF S
    <3> QED BY <1>2, <3>1
  <2> QED BY <2>1, <2>2
<1>4. Cardinality(T) <= Cardinality(S \union {b})
  BY <1>1, <1>3, FS_Subset
<1>5. Cardinality(T) \in Nat /\ Cardinality(S \union {b}) \in Nat
  <2>1. IsFiniteSet(T)
    BY <1>1, <1>3, FS_Subset
  <2> QED BY <1>3, <2>1, FS_CardinalityType
<1>6. Running' = Cardinality(T)
  BY DEF Running
<1> HIDE DEF S, T
<1> QED BY <1>2, <1>3, <1>4, <1>5, <1>6

LEMMA TakeKeeps ==
    ASSUME LifeInv, NEW b \in Callers, Take(b) \/ PumpTake(b) PROVE LifeInv'
<1>0. TypedLife /\ (\A c \in Callers : HoldOK(c)) /\ before \subseteq Callers
  BY DEF LifeInv, TypedLife
<1>1. /\ \/ place[b] = "queued" /\ Running < live
         \/ place[b] = "pinned" /\ at[main] \in {"up", "wait", "wait2"}
      /\ place' = [place EXCEPT ![b] = "running"]
      /\ UNCHANGED <<line, hold, strays, at, up, live, wait, before>>
  BY DEF Take, PumpTake, Leave, termVars
<1>2. place'[b] = "running" /\ \A c \in Callers : c # b => place'[c] = place[c]
  BY <1>0, <1>1 DEF TypedLife
<1>3. TypedLife'
  <2>1. place' \in [Callers -> Places]
    BY <1>0, <1>1 DEF TypedLife, Places
  <2> QED BY <1>0, <1>1, <2>1 DEF TypedLife
<1>4. \A c \in Callers : HoldOK(c)'
  BY <1>0, <1>1, <1>2 DEF HoldOK
<1>5. \A i \in DOMAIN line : line[i] \in Callers
  BY <1>0, LifecycleAssumption DEF TypedLife
<1>6. LineOK'
  <2>1. line # <<>> => place'[line[1]] \in {"queued", "pinned", "running", "refused", "lost"}
    <3> SUFFICES ASSUME line # <<>>
                 PROVE  place'[line[1]] \in {"queued", "pinned", "running", "refused", "lost"}
      OBVIOUS
    <3>1. line[1] \in Callers
      BY <1>0, LifecycleAssumption DEF TypedLife
    <3> QED BY <1>2, <3>1 DEF LifeInv, LineOK
  <2>2. \A i \in DOMAIN line : i > 1 => place'[line[i]] = "waiting"
    BY <1>1, <1>2, <1>5 DEF LifeInv, LineOK
  <2>3. \A c \in Callers : place'[c] = "waiting" => \E i \in DOMAIN line : line[i] = c
    BY <1>2 DEF LifeInv, LineOK
  <2>4. \A c \in Sharing : place'[c] \in {"queued", "pinned", "running"} =>
                             line # <<>> /\ line[1] = c
    BY <1>1, <1>2, LifecycleAssumption DEF LifeInv, LineOK
  <2>5. \A i, j \in DOMAIN line : line[i] = line[j] => i = j
    BY DEF LifeInv, LineOK
  <2> QED BY <1>1, <2>1, <2>2, <2>3, <2>4, <2>5 DEF LineOK
<1>7. PoolOK'
  <2>1. Running \in Int /\ Running' \in Int /\ live \in Int /\ Running <= live
    BY <1>0, RunningIsFinite, RunningIsFiniteNext DEF TypedLife, LifeInv, PoolOK
  <2>2. Running' <= live'
    <3>1. CASE place[b] = "queued"
      <4>1. Running < live /\ Running' <= Running + 1
        BY <1>1, <1>2, <3>1, TakenIsOne
      <4> QED BY <1>1, <2>1, <4>1
    <3>2. CASE place[b] = "pinned"
      <4>1. b \in Pinned
        BY <1>0, <3>2 DEF HoldOK
      <4>2. Running' = Running
        BY <1>1, <1>2, <4>1 DEF Running, Busy
      <4> QED BY <1>1, <2>1, <4>2
    <3> QED BY <1>1, <3>1, <3>2
  <2>3. \A c \in Pinned : place'[c] \in {"running", "leaving"} /\ hold'[c] # "back" =>
                              at'[main] \in {"up", "wait", "wait2"}
    <3>1. b \in Pinned => at[main] \in {"up", "wait", "wait2"}
      BY <1>0, <1>1 DEF HoldOK
    <3> QED BY <1>1, <1>2, <3>1, LifecycleAssumption DEF LifeInv, PoolOK
  <2>4. \A c \in Callers : place'[c] = "dropped" /\ hold'[c] # "back" =>
                              at'[main] \in {"pump", "orphans"}
    BY <1>1, <1>2 DEF LifeInv, PoolOK
  <2>5. at'[main] \in Gone => live' = 0
    BY <1>1 DEF LifeInv, PoolOK
  <2> QED BY <1>1, <2>2, <2>3, <2>4, <2>5 DEF LifeInv, PoolOK
<1>8. Kept'
  BY <1>1, <1>2 DEF LifeInv, Kept
<1>9. BeforeOK'
  BY <1>0, <1>1, <1>2 DEF LifeInv, BeforeOK
<1>10. at[main] \notin Gone
  <2>1. Running \in Nat /\ live = 0 => ~(Running < live)
    BY RunningIsFinite
  <2> QED BY <1>1, <2>1, RunningIsFinite DEF LifeInv, PoolOK, Gone
<1>11. RoundOK' /\ DrainIsComplete'
  BY <1>1, <1>10 DEF RoundOK, DrainIsComplete, Gone
<1>12. QuietMeansDone'
  BY <1>0, <1>1, <1>2 DEF LifeInv, QuietMeansDone
<1> QED BY <1>3, <1>4, <1>6, <1>7, <1>8, <1>9, <1>11, <1>12 DEF LifeInv

LEMMA ScheduleKeeps ==
    ASSUME LifeInv, NEW b \in Callers, Schedule(b) PROVE LifeInv'
<1>0. TypedLife /\ (\A c \in Callers : HoldOK(c)) /\ before \subseteq Callers /\ Sharing \subseteq Callers
  BY LifecycleAssumption DEF LifeInv, TypedLife
<1>1. /\ hold[b] = "in" /\ place[b] = "none"
      /\ UNCHANGED <<hold, strays, at, up, live, wait, before>>
  BY DEF Schedule, termVars
<1>2. PICK d : d = Dispatched(b)
  OBVIOUS
<1>3. /\ d \in {"pinned", "queued", "refused"} /\ (d = "refused" => ~up)
      /\ d = "queued" => b \notin Pinned
      /\ d = "pinned" => b \in Pinned
  BY <1>2 DEF Dispatched
<1>4. PICK s \in {"waiting", d} : place' = [place EXCEPT ![b] = s]
  BY <1>2 DEF Schedule
<1>5. place'[b] = s /\ \A c \in Callers : c # b => place'[c] = place[c]
  BY <1>0, <1>4 DEF TypedLife
<1>6. /\ b \in Sharing => line' = Append(line, b) /\ (s = IF line = <<>> THEN d ELSE "waiting")
      /\ b \notin Sharing => line' = line /\ s = d
  BY <1>0, <1>2, <1>3, <1>5 DEF Schedule, TypedLife
<1>7. TypedLife'
  <2>1. place' \in [Callers -> Places]
    BY <1>0, <1>3, <1>4 DEF TypedLife, Places
  <2>2. line' \in Seq(Sharing)
    BY <1>0, <1>6 DEF TypedLife
  <2> QED BY <1>0, <1>1, <2>1, <2>2 DEF TypedLife
<1>8. \A c \in Callers : HoldOK(c)'
  BY <1>0, <1>1, <1>3, <1>5 DEF HoldOK
<1>9. \A i \in DOMAIN line : line[i] \in Callers /\ line[i] # b
  <2>1. line \in Seq(Sharing)
    BY <1>0 DEF TypedLife
  <2> SUFFICES ASSUME NEW i \in DOMAIN line PROVE line[i] \in Callers /\ place[line[i]] # "none"
    BY <1>1
  <2>2. line[i] \in Callers
    BY <1>0, <2>1
  <2>3. i = 1 \/ i > 1
    BY <2>1
  <2>4. CASE i = 1
    BY <2>1, <2>2, <2>4 DEF LifeInv, LineOK
  <2>5. CASE i > 1
    BY <2>2, <2>5 DEF LifeInv, LineOK
  <2> QED BY <2>2, <2>3, <2>4, <2>5
<1>10. Running' = Running
  <2>1. \A c \in Callers : (Busy(c)' /\ place'[c] # "dropped") <=> (Busy(c) /\ place[c] # "dropped")
    BY <1>1, <1>3, <1>5 DEF Busy
  <2> QED BY <2>1 DEF Running
<1>11. PoolOK'
  BY <1>0, <1>1, <1>3, <1>5, <1>10, LifecycleAssumption DEF LifeInv, PoolOK
<1>12. Kept'
  BY <1>1, <1>3, <1>5 DEF LifeInv, Kept, PoolOK, Waited
<1>13. b \notin before
  BY <1>1 DEF LifeInv, BeforeOK
<1>14. BeforeOK'
  BY <1>0, <1>1, <1>5, <1>13 DEF LifeInv, BeforeOK
<1>15. QuietMeansDone'
  BY <1>0, <1>1, <1>5, <1>13 DEF LifeInv, QuietMeansDone
<1>16. /\ line \in Seq(Sharing) /\ DOMAIN line = 1..Len(line) /\ Len(line) \in Nat
       /\ line = <<>> <=> Len(line) = 0
  BY <1>0 DEF TypedLife
<1>17. \A i \in 1..Len(line) : line'[i] = line[i] /\ i \in DOMAIN line'
  BY <1>6, <1>16
<1>18. line # <<>> => line'[1] = line[1] /\ line' # <<>> /\ line[1] \in Callers /\ line[1] # b
  <2> SUFFICES ASSUME line # <<>> PROVE line'[1] = line[1] /\ line' # <<>> /\ line[1] \in Callers /\ line[1] # b
    OBVIOUS
  <2>1. 1 \in 1..Len(line)
    BY <1>16
  <2>2. line'[1] = line[1] /\ 1 \in DOMAIN line'
    BY <1>17, <2>1
  <2> QED BY <1>9, <1>16, <2>1, <2>2
<1>19. LineOK'
  <2>1. CASE b \notin Sharing
    <3>1. line' = line
      BY <1>6, <2>1
    <3>2. line # <<>> => place'[line[1]] \in {"queued", "pinned", "running", "refused", "lost"}
      BY <1>5, <1>18 DEF LifeInv, LineOK
    <3>3. \A i \in DOMAIN line : i > 1 => place'[line[i]] = "waiting"
      BY <1>5, <1>9 DEF LifeInv, LineOK
    <3>4. \A c \in Callers : place'[c] = "waiting" => \E i \in DOMAIN line : line[i] = c
      BY <1>3, <1>5, <1>6, <2>1 DEF LifeInv, LineOK
    <3>5. \A c \in Sharing : place'[c] \in {"queued", "pinned", "running"} =>
                               line # <<>> /\ line[1] = c
      BY <1>0, <1>5, <2>1 DEF LifeInv, LineOK
    <3>6. \A i, j \in DOMAIN line : line[i] = line[j] => i = j
      BY DEF LifeInv, LineOK
    <3> QED BY <3>1, <3>2, <3>3, <3>4, <3>5, <3>6 DEF LineOK
  <2>2. CASE b \in Sharing
    <3>1. /\ line' = Append(line, b) /\ s = IF line = <<>> THEN d ELSE "waiting"
      BY <1>6, <2>2
    <3>2. /\ DOMAIN line' = 1..(Len(line) + 1) /\ line'[Len(line) + 1] = b /\ line' # <<>>
      BY <1>16, <2>2, <3>1
    <3>3. \A i \in DOMAIN line' : i \in DOMAIN line \/ i = Len(line) + 1
      BY <1>16, <3>2
    <3>4. place'[line'[1]] \in {"queued", "pinned", "running", "refused", "lost"}
      <4>1. CASE line = <<>>
        <5>1. line'[1] = b /\ place'[b] = d
          BY <1>5, <1>16, <3>1, <3>2, <4>1
        <5> QED BY <1>3, <5>1
      <4>2. CASE line # <<>>
        BY <1>5, <1>18, <4>2 DEF LifeInv, LineOK
      <4> QED BY <4>1, <4>2
    <3>5. \A i \in DOMAIN line' : i > 1 => place'[line'[i]] = "waiting"
      <4> TAKE i \in DOMAIN line'
      <4>1. CASE i \in DOMAIN line
        BY <1>5, <1>9, <1>16, <1>17, <4>1 DEF LifeInv, LineOK
      <4>2. CASE i = Len(line) + 1
        <5>1. i > 1 => line # <<>>
          BY <1>16, <4>2
        <5> QED BY <1>5, <3>1, <3>2, <4>2, <5>1
      <4> QED BY <3>3, <4>1, <4>2
    <3>6. \A c \in Callers : place'[c] = "waiting" => \E i \in DOMAIN line' : line'[i] = c
      <4> TAKE c \in Callers
      <4>1. CASE c = b
        <5>1. Len(line) + 1 \in DOMAIN line'
          BY <1>16, <3>2
        <5> QED BY <3>2, <4>1, <5>1
      <4>2. CASE c # b
        <5> SUFFICES ASSUME place[c] = "waiting" PROVE \E i \in DOMAIN line' : line'[i] = c
          BY <1>5, <4>2
        <5>1. PICK i \in DOMAIN line : line[i] = c
          BY DEF LifeInv, LineOK
        <5> QED BY <1>16, <1>17, <5>1
      <4> QED BY <4>1, <4>2
    <3>7. \A c \in Sharing : place'[c] \in {"queued", "pinned", "running"} =>
                               line' # <<>> /\ line'[1] = c
      <4> SUFFICES ASSUME NEW c \in Sharing, place'[c] \in {"queued", "pinned", "running"}
                   PROVE  line'[1] = c
        BY <3>2
      <4>1. CASE c = b
        <5>1. line = <<>>
          BY <1>5, <3>1, <4>1
        <5> QED BY <1>16, <3>2, <4>1, <5>1
      <4>2. CASE c # b
        <5>1. line # <<>> /\ line[1] = c
          BY <1>0, <1>5, <4>2 DEF LifeInv, LineOK
        <5> QED BY <1>18, <5>1
      <4> QED BY <4>1, <4>2
    <3>8. \A i, j \in DOMAIN line' : line'[i] = line'[j] => i = j
      <4> SUFFICES ASSUME NEW i \in DOMAIN line', NEW j \in DOMAIN line', line'[i] = line'[j]
                   PROVE  i = j
        OBVIOUS
      <4>1. \A k \in DOMAIN line : line'[k] = line[k] /\ line[k] # b
        BY <1>9, <1>16, <1>17
      <4>2. CASE i \in DOMAIN line /\ j \in DOMAIN line
        BY <4>1, <4>2 DEF LifeInv, LineOK
      <4>3. CASE ~(i \in DOMAIN line /\ j \in DOMAIN line)
        BY <3>2, <3>3, <4>1, <4>3
      <4> QED BY <4>2, <4>3
    <3> QED BY <3>2, <3>4, <3>5, <3>6, <3>7, <3>8 DEF LineOK
  <2> QED BY <2>1, <2>2
<1>20. RoundOK'
  <2> SUFFICES ASSUME at[main] = "orphans", ~wait.progress, NEW c \in before
               PROVE  /\ place'[c] # "pinned"
                      /\ place'[c] = "waiting" => place'[line'[1]] # "pinned"
    BY <1>1 DEF RoundOK
  <2>1. c \in Callers /\ place'[c] = place[c]
    BY <1>0, <1>5, <1>13
  <2>2. ASSUME place[c] = "waiting" PROVE place'[line'[1]] # "pinned"
    <3>1. \E i \in DOMAIN line : line[i] = c
      BY <2>1, <2>2 DEF LifeInv, LineOK
    <3>2. line # <<>>
      BY <1>16, <3>1
    <3>3. place'[line'[1]] = place[line[1]]
      BY <1>5, <1>18, <3>2
    <3> QED BY <2>2, <3>3 DEF LifeInv, RoundOK
  <2> QED BY <2>1, <2>2 DEF LifeInv, RoundOK
<1>21. DrainIsComplete'
  <2>1. Stranded => Stranded'
    <3> SUFFICES ASSUME NEW i \in 1..Len(line), place[line[i]] \in {"refused", "lost"}
                 PROVE  Stranded'
      BY DEF Stranded
    <3>1. line'[i] = line[i] /\ place'[line[i]] = place[line[i]]
      BY <1>5, <1>9, <1>16, <1>17
    <3>2. line' \in Seq(Sharing) /\ i \in DOMAIN line'
      BY <1>7, <1>17 DEF TypedLife
    <3>3. i \in 1..Len(line')
      BY <3>2
    <3> QED BY <3>1, <3>3 DEF Stranded
  <2> QED BY <1>0, <1>1, <1>5, <1>13, <2>1 DEF LifeInv, DrainIsComplete
<1> QED BY <1>7, <1>8, <1>11, <1>12, <1>14, <1>15, <1>19, <1>20, <1>21 DEF LifeInv

\* What release_all does to the places and to the line.
LEMMA ReleaseFields ==
    ASSUME LifeInv, NEW b \in Callers, NEW to \in {"leaving", "dropped"}, Release(b, to),
           place[b] \in {"queued", "pinned", "running"}
    PROVE  /\ place'[b] = to /\ place' \in [Callers -> Places] /\ line' \in Seq(Sharing)
           /\ \A c \in Callers : \/ c = b
                                 \/ place'[c] = place[c]
                                 \/ place[c] = "waiting" /\ place'[c] = Promoted(c)
           /\ LineOK'
<1>0. TypedLife /\ Sharing \subseteq Callers
  BY LifecycleAssumption DEF LifeInv
<1>1. /\ line \in Seq(Sharing) /\ DOMAIN line = 1..Len(line) /\ Len(line) \in Nat
      /\ line = <<>> <=> Len(line) = 0
      /\ \A i \in DOMAIN line : line[i] \in Callers
  BY <1>0 DEF TypedLife
<1>2. CASE b \notin Sharing
  <2>1. line' = line /\ place' = [place EXCEPT ![b] = to]
    BY <1>2 DEF Release
  <2>2. place'[b] = to /\ \A c \in Callers : c # b => place'[c] = place[c]
    BY <1>0, <2>1 DEF TypedLife
  <2>3. place' \in [Callers -> Places]
    BY <1>0, <2>1 DEF TypedLife, Places
  <2>4. \A i \in DOMAIN line : line[i] # b
    BY <1>1, <1>2
  <2>5. LineOK'
    <3>1. line # <<>> => place'[line[1]] \in {"queued", "pinned", "running", "refused", "lost"}
      <4> SUFFICES ASSUME line # <<>>
                   PROVE  place'[line[1]] \in {"queued", "pinned", "running", "refused", "lost"}
        OBVIOUS
      <4>1. 1 \in DOMAIN line
        BY <1>1
      <4> QED BY <1>1, <2>2, <2>4, <4>1 DEF LifeInv, LineOK
    <3>2. \A i \in DOMAIN line : i > 1 => place'[line[i]] = "waiting"
      BY <1>1, <2>2, <2>4 DEF LifeInv, LineOK
    <3>3. \A c \in Callers : place'[c] = "waiting" => \E i \in DOMAIN line : line[i] = c
      BY <2>2 DEF LifeInv, LineOK
    <3>4. \A c \in Sharing : place'[c] \in {"queued", "pinned", "running"} =>
                               line # <<>> /\ line[1] = c
      BY <1>0, <1>2, <2>2 DEF LifeInv, LineOK
    <3>5. \A i, j \in DOMAIN line : line[i] = line[j] => i = j
      BY DEF LifeInv, LineOK
    <3> QED BY <2>1, <3>1, <3>2, <3>3, <3>4, <3>5 DEF LineOK
  <2> QED BY <1>1, <2>1, <2>2, <2>3, <2>5
<1>3. CASE b \in Sharing
  <2>1. /\ line # <<>> /\ line[1] = b /\ line' = Tail(line)
        /\ place' = [c \in Callers |->
                       IF c = b THEN to
                       ELSE IF Len(line) > 1 /\ c = line[2] THEN Promoted(c)
                       ELSE place[c]]
    BY <1>3 DEF Release, LifeInv, LineOK
  <2>2. /\ place'[b] = to
        /\ \A c \in Callers : c # b => /\ Len(line) > 1 /\ c = line[2] => place'[c] = Promoted(c)
                                       /\ ~(Len(line) > 1 /\ c = line[2]) => place'[c] = place[c]
    BY <2>1
  <2>3. \A c \in Callers : Promoted(c) \in {"queued", "pinned", "lost"}
    BY DEF Promoted, Dispatched
  <2>4. place' \in [Callers -> Places]
    BY <1>0, <2>1, <2>3 DEF TypedLife, Places
  <2>5. Len(line) > 1 => place[line[2]] = "waiting"
    BY <1>1 DEF LifeInv, LineOK
  <2>6. /\ line' \in Seq(Sharing) /\ DOMAIN line' = 1..(Len(line) - 1)
        /\ \A i \in 1..(Len(line) - 1) : line'[i] = line[i + 1] /\ i + 1 \in DOMAIN line
        /\ line' = <<>> <=> Len(line) - 1 = 0
    BY <1>1, <2>1
  <2>7. \A i, j \in DOMAIN line : line[i] = line[j] => i = j
    BY DEF LifeInv, LineOK
  <2>8. 1 \in DOMAIN line
    BY <1>1, <2>1
  <2>9. \A i \in DOMAIN line : i > 1 => line[i] # b
    BY <1>1, <2>1, <2>7, <2>8
  <2>10. LineOK'
    <3>1. line' # <<>> => place'[line'[1]] \in {"queued", "pinned", "running", "refused", "lost"}
      <4> SUFFICES ASSUME line' # <<>>
                   PROVE  place'[line'[1]] \in {"queued", "pinned", "lost"}
        OBVIOUS
      <4>1. Len(line) > 1 /\ 1 \in 1..(Len(line) - 1) /\ 2 \in DOMAIN line
        BY <1>1, <2>6
      <4>2. line'[1] = line[2] /\ line[2] \in Callers /\ line[2] # b
        BY <1>1, <2>6, <2>9, <4>1
      <4> QED BY <2>2, <2>3, <4>1, <4>2
    <3>2. \A i \in DOMAIN line' : i > 1 => place'[line'[i]] = "waiting"
      <4> SUFFICES ASSUME NEW i \in DOMAIN line', i > 1 PROVE place'[line'[i]] = "waiting"
        OBVIOUS
      <4>1. i + 1 \in DOMAIN line /\ line'[i] = line[i + 1] /\ i + 1 > 2 /\ i \in Int
        BY <2>6
      <4>2. line[i + 1] \in Callers /\ line[i + 1] # b /\ place[line[i + 1]] = "waiting"
        BY <1>1, <2>9, <4>1 DEF LifeInv, LineOK
      <4>3. Len(line) > 1 => line[i + 1] # line[2]
        <5>1. Len(line) > 1 => 2 \in DOMAIN line
          BY <1>1
        <5>2. i + 1 # 2
          BY <4>1
        <5> QED BY <2>7, <4>1, <5>1, <5>2
      <4> QED BY <2>2, <4>1, <4>2, <4>3
    <3>3. \A c \in Callers : place'[c] = "waiting" => \E i \in DOMAIN line' : line'[i] = c
      <4> SUFFICES ASSUME NEW c \in Callers, place'[c] = "waiting"
                   PROVE  \E i \in DOMAIN line' : line'[i] = c
        OBVIOUS
      <4>1. c # b /\ place[c] = "waiting" /\ ~(Len(line) > 1 /\ c = line[2])
        BY <2>2, <2>3
      <4>2. PICK i \in DOMAIN line : line[i] = c
        BY <4>1 DEF LifeInv, LineOK
      <4>3. i \in 1..Len(line) /\ i # 1
        BY <1>1, <2>1, <4>1, <4>2
      <4>4. i - 1 \in 1..(Len(line) - 1) /\ (i - 1) + 1 = i
        BY <1>1, <4>3
      <4>5. line'[i - 1] = c
        BY <2>6, <4>2, <4>4
      <4> QED BY <2>6, <4>4, <4>5
    <3>4. \A c \in Sharing : place'[c] \in {"queued", "pinned", "running"} =>
                               line' # <<>> /\ line'[1] = c
      <4> SUFFICES ASSUME NEW c \in Sharing, place'[c] \in {"queued", "pinned", "running"}
                   PROVE  line' # <<>> /\ line'[1] = c
        OBVIOUS
      <4>1. c \in Callers /\ c # b
        BY <1>0, <2>2
      <4>2. Len(line) > 1 /\ c = line[2]
        <5>1. place[c] \in {"queued", "pinned", "running"} => c = b
          BY <2>1 DEF LifeInv, LineOK
        <5> QED BY <2>2, <4>1, <5>1
      <4>3. 1 \in 1..(Len(line) - 1) /\ Len(line) - 1 # 0
        BY <1>1, <4>2
      <4> QED BY <2>6, <4>2, <4>3
    <3>5. \A i, j \in DOMAIN line' : line'[i] = line'[j] => i = j
      <4> SUFFICES ASSUME NEW i \in DOMAIN line', NEW j \in DOMAIN line', line'[i] = line'[j]
                   PROVE  i = j
        OBVIOUS
      <4>1. i \in Int /\ j \in Int /\ line[i + 1] = line[j + 1]
            /\ i + 1 \in DOMAIN line /\ j + 1 \in DOMAIN line
        BY <1>1, <2>6
      <4>2. i + 1 = j + 1
        BY <2>7, <4>1
      <4> QED BY <4>1, <4>2
    <3> QED BY <3>1, <3>2, <3>3, <3>4, <3>5 DEF LineOK
  <2> QED BY <2>2, <2>4, <2>5, <2>6, <2>10
<1> QED BY <1>2, <1>3

LEMMA ReleaseKeeps ==
    ASSUME LifeInv, NEW b \in Callers, EndBody(b) \/ DropOne(b) PROVE LifeInv'
<1>0. TypedLife /\ (\A c \in Callers : HoldOK(c)) /\ before \subseteq Callers
  BY DEF LifeInv, TypedLife
<1>1. PICK to \in {"leaving", "dropped"} :
        /\ Release(b, to) /\ UNCHANGED <<hold, strays, at, up, live, before>>
        /\ wait'.quiet = wait.quiet /\ DOMAIN wait' = WaitFields
        /\ \/ to = "leaving" /\ place[b] = "running"
           \/ /\ to = "dropped" /\ place[b] \in {"pinned", "queued"}
              /\ at[main] \in {"pump", "orphans"} /\ wait'.progress = TRUE
  <2>1. CASE EndBody(b)
    BY <1>0, <2>1 DEF EndBody, TypedLife, termVars
  <2>2. CASE DropOne(b)
    <3>1. wait'.quiet = wait.quiet /\ DOMAIN wait' = WaitFields /\ wait'.progress = TRUE
      BY <1>0, <2>2 DEF DropOne, TypedLife, WaitFields
    <3> QED BY <2>2, <3>1 DEF DropOne, Queue, termVars
  <2> QED BY <2>1, <2>2
<1>2. /\ place'[b] = to /\ place' \in [Callers -> Places] /\ line' \in Seq(Sharing)
      /\ \A c \in Callers : \/ c = b
                            \/ place'[c] = place[c]
                            \/ place[c] = "waiting" /\ place'[c] = Promoted(c)
      /\ LineOK'
  BY <1>1, ReleaseFields
<1>3. \A c \in Callers : /\ Promoted(c) \in {"queued", "pinned", "lost"}
                         /\ Promoted(c) = "lost" => ~up
                         /\ Promoted(c) = "queued" => c \notin Pinned
                         /\ Promoted(c) = "pinned" => c \in Pinned
  BY DEF Promoted, Dispatched
<1>4. TypedLife'
  BY <1>0, <1>1, <1>2 DEF TypedLife
<1>5. hold[b] \in {"in", "stale"}
  BY <1>0, <1>1 DEF HoldOK
<1>6. \A c \in Callers : HoldOK(c)'
  BY <1>0, <1>1, <1>2, <1>3, <1>5 DEF HoldOK
<1>7. place[b] = "running" => at[main] \notin Gone
  BY NobodyRuns
<1>8. PoolOK'
  <2>1. Running' = Running
    <3>1. \A c \in Callers : (Busy(c)' /\ place'[c] # "dropped") <=> (Busy(c) /\ place[c] # "dropped")
      <4> TAKE c \in Callers
      <4>1. CASE c = b
        BY <1>1, <1>2, <4>1 DEF Busy
      <4>2. CASE c # b
        BY <1>1, <1>2, <1>3, <4>2 DEF Busy
      <4> QED BY <4>1, <4>2
    <3> QED BY <3>1 DEF Running
  <2>2. \A c \in Pinned : place'[c] \in {"running", "leaving"} /\ hold'[c] # "back" =>
                              at'[main] \in {"up", "wait", "wait2"}
    <3> SUFFICES ASSUME NEW c \in Pinned, place'[c] \in {"running", "leaving"}, hold'[c] # "back"
                 PROVE  at[main] \in {"up", "wait", "wait2"}
      BY <1>1
    <3>1. c \in Callers
      BY LifecycleAssumption
    <3>2. place[c] \in {"running", "leaving"}
      BY <1>1, <1>2, <1>3, <3>1
    <3> QED BY <1>1, <3>2 DEF LifeInv, PoolOK
  <2>3. \A c \in Callers : place'[c] = "dropped" /\ hold'[c] # "back" =>
                              at'[main] \in {"pump", "orphans"}
    BY <1>1, <1>2, <1>3 DEF LifeInv, PoolOK
  <2> QED BY <1>1, <2>1, <2>2, <2>3 DEF LifeInv, PoolOK
<1>9. at[main] \in Waited \union {"up"} => \A c \in Callers : place'[c] \in {"refused", "lost"} => place'[c] = place[c]
  <2>1. at[main] \in Waited \union {"up"} => up
    BY DEF LifeInv, PoolOK, Waited
  <2> QED BY <1>1, <1>2, <1>3, <2>1
<1>10. Kept'
  BY <1>1, <1>9 DEF LifeInv, Kept
<1>11. BeforeOK'
  <2>1. at'[main] \notin Waited \union {"free", "stuck", "clear"} => before' = {} /\ ~wait'.quiet
    BY <1>1 DEF LifeInv, BeforeOK
  <2>2. ASSUME NEW c \in before
        PROVE  /\ hold'[c] \in {"in", "ring", "back"} /\ place'[c] # "none"
               /\ at'[main] \in Waited => place'[c] \notin {"refused", "lost"}
               /\ place'[c] = "dropped" => at'[main] \in Draining
    <3>1. /\ hold[c] \in {"in", "ring", "back"} /\ place[c] # "none" /\ c \in Callers
          /\ at[main] \in Waited => place[c] \notin {"refused", "lost"}
          /\ place[c] = "dropped" => at[main] \in Draining
      BY <1>0 DEF LifeInv, BeforeOK
    <3>2. place'[c] # "none"
      BY <1>1, <1>2, <1>3, <3>1
    <3>3. place'[c] = "dropped" => at[main] \in Draining
      BY <1>1, <1>2, <1>3, <3>1 DEF Draining
    <3> QED BY <1>1, <1>9, <3>1, <3>2, <3>3
  <2> QED BY <1>1, <2>1, <2>2 DEF BeforeOK
<1>12. RoundOK'
  BY <1>1, <1>7 DEF RoundOK, Gone
<1>13. QuietMeansDone'
  BY <1>0, <1>1, <1>2, <1>3 DEF LifeInv, QuietMeansDone
<1>14. DrainIsComplete'
  BY <1>1, <1>7 DEF DrainIsComplete, Gone
<1> QED BY <1>2, <1>4, <1>6, <1>8, <1>10, <1>11, <1>12, <1>13, <1>14 DEF LifeInv

LEMMA LifeNext ==
    LifeInv /\ TermInv /\ [Next]_vars => LifeInv'
<1> SUFFICES ASSUME LifeInv, TermInv, [Next]_vars PROVE LifeInv'
  OBVIOUS
<1>0. TermTypeOK /\ main \in Waiters /\ other \in Waiters
  BY MainIsWaiter DEF TermInv
<1>1. CASE UNCHANGED vars
  BY <1>1, OthersKeep DEF vars, lifeVars, termVars
<1>2. CASE MainStep
  <2>1. CASE \/ Start \/ ResetTerminator \/ Aborted \/ WorkersLeft \/ PumpDrained
             \/ RoundOver \/ RuntimeStop \/ Clear
    BY <1>0, <2>1, StartKeeps, ResetKeeps, FreedKeeps, WorkersLeftKeeps, RoundOverKeeps, ClearKeeps
  <2>2. CASE \/ NoticeboardFails \/ RefuseClose \/ RefuseUnseed \/ AbortWorkers
             \/ Seal \/ Join \/ StopWorkers \/ Retry
             \/ DropSeed(main) \/ FallAsleep(main) \/ Rearm(main) \/ SeedStep(main)
    BY <1>0, <2>2, EasySteps
  <2>3. CASE \E t \in BOOLEAN : Wait(t)
    BY <2>3, WaitKeeps
  <2>4. CASE \E q \in BOOLEAN : WaitReturns(main, q)
    BY <2>4, WaitReturnsKeeps
  <2>5. CASE \E b \in Callers : PumpTake(b) \/ DropOne(b)
    BY <2>5, TakeKeeps, ReleaseKeeps
  <2> QED BY <1>2, <2>1, <2>2, <2>3, <2>4, <2>5 DEF MainStep
<1>3. CASE OtherStep \/ NbStep
  BY <1>0, <1>3, EasySteps DEF OtherStep
<1>4. CASE WorkerExit
  BY <1>4, WorkerExitKeeps
<1>5. CASE \E b \in Callers : BehaviorStep(b)
  BY <1>0, <1>5, HoldKeeps, ScheduleKeeps, TakeKeeps, ReleaseKeeps DEF BehaviorStep
<1> QED BY <1>1, <1>2, <1>3, <1>4, <1>5 DEF Next

(***************************************************************************)
(* The inductive invariant.                                                *)
(***************************************************************************)
THEOREM Lifecycle_Invariance == Spec => []LifeInv
BY LifeInit, LifeNext, Lifecycle_UsesTerminator, Terminator_Invariance, PTL DEF Spec

(***************************************************************************)
(* A wait() that was not timed out has waited for everything that was      *)
(* scheduled before it.                                                    *)
(***************************************************************************)
THEOREM Lifecycle_QuietMeansDone == Spec => []QuietMeansDone
<1>1. LifeInv => QuietMeansDone
  BY DEF LifeInv
<1> QED BY <1>1, Lifecycle_Invariance, PTL

(***************************************************************************)
(* stop() frees the queues only when every behavior scheduled before it    *)
(* has run or been dropped, and its hold is back.                          *)
(***************************************************************************)
THEOREM Lifecycle_DrainIsComplete == Spec => []DrainIsComplete
<1>1. LifeInv => DrainIsComplete
  BY DEF LifeInv
<1> QED BY <1>1, Lifecycle_Invariance, PTL
=============================================================================
