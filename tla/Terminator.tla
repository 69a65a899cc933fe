----------------------------- MODULE Terminator -----------------------------
(***************************************************************************)
(* boc_terminator.c: the count of holds that gates wait() and stop(), one  *)
(* action per access to shared memory.  A behavior's hold is taken by its  *)
(* caller (terminator_inc) and given back by whoever releases it           *)
(* (terminator_dec).  The seed is a hold of the runtime's own.             *)
(*                                                                         *)
(* terminator_reset is one action: it runs under the GIL of the primary    *)
(* interpreter, with the workers of the last run joined and those of the   *)
(* next one idle, so no thread can be inside terminator_inc.               *)
(***************************************************************************)
EXTENDS Integers, FiniteSets

CONSTANTS Callers,    \* behaviors, each with the hold its caller takes
          Waiters     \* threads of the primary interpreter that wait or stop

ASSUME TerminatorAssumption == IsFiniteSet(Callers) /\ IsFiniteSet(Waiters)

VARIABLES count,      \* TERMINATOR_COUNT
          seeded,     \* TERMINATOR_SEEDED, 0 or 1
          closed,     \* TERMINATOR_CLOSED
          hold,       \* hold[b]: where b's hold is
          arming,     \* arming[w]: the half of seed_dec or seed_inc still due
          asleep,     \* the waiters blocked on TERMINATOR_COND
          strays      \* history: holds given back that a reset had forgotten

termVars == <<count, seeded, closed, hold, arming, asleep, strays>>

\* "ring" is the broadcast that follows a count of zero.
HoldPlaces == {"none", "inc", "added", "undo", "in", "ring", "refused",
               "back", "stale"}
ArmPlaces == {"idle", "drop", "ring", "arm"}

TermTypeOK == /\ count \in Int /\ seeded \in 0..1 /\ closed \in BOOLEAN
              /\ hold \in [Callers -> HoldPlaces]
              /\ arming \in [Waiters -> ArmPlaces]
              /\ asleep \subseteq Waiters /\ strays \in Nat

TermInit == /\ count = 0 /\ seeded = 0 /\ closed = FALSE
            /\ hold = [b \in Callers |-> "none"]
            /\ arming = [w \in Waiters |-> "idle"]
            /\ asleep = {} /\ strays = 0

(***************************************************************************)
(* terminator_inc: test, add, test again, and undo if close came between.  *)
(***************************************************************************)
IncTest(b) == /\ hold[b] = "none"
              /\ hold' = [hold EXCEPT ![b] = IF closed THEN "refused" ELSE "inc"]
              /\ UNCHANGED <<count, seeded, closed, arming, asleep, strays>>

IncAdd(b) == /\ hold[b] = "inc"
             /\ hold' = [hold EXCEPT ![b] = "added"]
             /\ count' = count + 1
             /\ UNCHANGED <<seeded, closed, arming, asleep, strays>>

AfterAdd == IF closed THEN "undo" ELSE "in"

IncRetest(b) == /\ hold[b] = "added"
                /\ hold' = [hold EXCEPT ![b] = AfterAdd]
                /\ UNCHANGED <<count, seeded, closed, arming, asleep, strays>>

\* What a thread that has lowered the count does next.
Ringing(then) == IF count = 1 THEN "ring" ELSE then
Silent(then) == then

SilentUndo == Silent("refused")
SilentDec == Silent("back")
RingsOnDec == Ringing("back")
RingsOnUndo == Ringing("refused")

Undo(b) == /\ hold[b] = "undo"
           /\ count' = count - 1
           /\ hold' = [hold EXCEPT ![b] = RingsOnUndo]
           /\ UNCHANGED <<seeded, closed, arming, asleep, strays>>

(***************************************************************************)
(* terminator_dec.  A hold that a reset has forgotten is taken off all the *)
(* same.                                                                   *)
(***************************************************************************)
Dec(b) == /\ hold[b] \in {"in", "stale"}
          /\ count' = count - 1
          /\ hold' = [hold EXCEPT ![b] = RingsOnDec]
          /\ strays' = IF hold[b] = "stale" THEN strays + 1 ELSE strays
          /\ UNCHANGED <<seeded, closed, arming, asleep>>

Ring(b) == /\ hold[b] = "ring"
           /\ hold' = [hold EXCEPT ![b] = "back"]
           /\ asleep' = {}
           /\ UNCHANGED <<count, seeded, closed, arming, strays>>

(***************************************************************************)
(* The seed, dropped by an exchange and put back by a CAS, either followed *)
(* by the change of the count.  Both keep the GIL of the primary           *)
(* interpreter, so one is over before the next begins; the holds of other  *)
(* interpreters change in between.                                         *)
(***************************************************************************)
At(place) == {w \in Waiters : arming[w] = place}

Assumed == "drop"
Found == IF seeded = 1 THEN "drop" ELSE "idle"

SeedTake(w) == /\ At("idle") = Waiters
               /\ arming' = [arming EXCEPT ![w] = Found]
               /\ seeded' = 0
               /\ UNCHANGED <<count, closed, hold, asleep, strays>>

SeedDrop(w) == /\ arming[w] = "drop"
               /\ count' = count - 1
               /\ arming' = [arming EXCEPT ![w] = Ringing("idle")]
               /\ UNCHANGED <<seeded, closed, hold, asleep, strays>>

SeedRing(w) == /\ arming[w] = "ring"
               /\ arming' = [arming EXCEPT ![w] = "idle"]
               /\ asleep' = {}
               /\ UNCHANGED <<count, seeded, closed, hold, strays>>

SeedPut(w) == /\ At("idle") = Waiters
              /\ arming' = [arming EXCEPT ![w] = IF seeded = 0 THEN "arm" ELSE @]
              /\ seeded' = 1
              /\ UNCHANGED <<count, closed, hold, asleep, strays>>

SeedAdd(w) == /\ arming[w] = "arm"
              /\ count' = count + 1
              /\ arming' = [arming EXCEPT ![w] = "idle"]
              /\ UNCHANGED <<seeded, closed, hold, asleep, strays>>

(***************************************************************************)
(* terminator_wait tests the count under the mutex the broadcasts take, so *)
(* testing and falling asleep are one step.                                *)
(***************************************************************************)
Sleep(w) == /\ w \notin asleep /\ count # 0
            /\ asleep' = asleep \union {w}
            /\ UNCHANGED <<count, seeded, closed, hold, arming, strays>>

\* Awake again for another reason: its time is up, or a pinned behavior is due.
Leave(w) == /\ asleep' = asleep \ {w}
            /\ UNCHANGED <<count, seeded, closed, hold, arming, strays>>

Close == /\ closed' = TRUE
         /\ UNCHANGED <<count, seeded, hold, arming, asleep, strays>>

InsideInc(b) == hold[b] \in {"inc", "added", "undo"}

\* terminator_reset: whatever was counted before is forgotten.
Reset == /\ \A b \in Callers : ~InsideInc(b)
         /\ At("idle") = Waiters
         /\ count' = 1 /\ seeded' = 1 /\ closed' = FALSE
         /\ hold' = [b \in Callers |-> IF hold[b] = "in" THEN "stale" ELSE hold[b]]
         /\ asleep' = {} /\ strays' = 0
         /\ UNCHANGED arming

TermNext == \/ \E b \in Callers : \/ IncTest(b) \/ IncAdd(b) \/ IncRetest(b)
                                  \/ Undo(b) \/ Dec(b) \/ Ring(b)
            \/ \E w \in Waiters : \/ SeedTake(w) \/ SeedDrop(w) \/ SeedRing(w)
                                  \/ SeedPut(w) \/ SeedAdd(w) \/ Sleep(w) \/ Leave(w)
            \/ Close \/ Reset

TermSpec == TermInit /\ [][TermNext]_termVars

(***************************************************************************)
(* The count is the seed, the holds taken and not given back, and what a   *)
(* half-done seed operation still owes (terminator_inc and _dec, seed_dec  *)
(* and seed_inc interleaved): short of it only by the strays.              *)
(***************************************************************************)
Counted == {b \in Callers : hold[b] \in {"added", "undo", "in"}}

Conservation == count + strays = seeded + Cardinality(Counted)
                                 + Cardinality(At("drop")) - Cardinality(At("arm"))

(***************************************************************************)
(* No waiter sleeps through a count of zero: whoever made it zero, be it a *)
(* dec, the drop of the seed or the undo of a refused inc, is about to     *)
(* broadcast.  (A stray may have taken the count below zero, and an inc up *)
(* again, which never broadcasts.)                                         *)
(***************************************************************************)
NobodyOversleeps == strays = 0 /\ asleep # {} /\ count = 0 =>
                      \/ \E b \in Callers : hold[b] = "ring"
                      \/ \E w \in Waiters : arming[w] = "ring"
=============================================================================
