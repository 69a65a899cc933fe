--------------------------- MODULE CownMCS_proofs ---------------------------
(***************************************************************************)
(* Proofs about CownMCS, for any behaviors, cowns and arguments.           *)
(*                                                                         *)
(* The heart of the invariant is the ticket: the order in which behaviors  *)
(* exchanged a cown's last.  The holder of a cown has the ticket just      *)
(* after the last one served, last points at the highest ticket, and       *)
(* request->next always leads from one ticket to the following one.  So    *)
(* whoever release_all hands a cown to is the only one who may get it.     *)
(***************************************************************************)
EXTENDS CownMCS, FiniteSetTheorems, SequenceTheorems, TLAPS

\* Where a thread inside schedule is between the exchange and Advance.
Mid == {"first", "hold", "publish", "incref", "spin", "drop"}

\* Requests of b that have not been exchanged yet.
Unlinked(b, c) == \/ caller[b] = "idle"
                  \/ caller[b] = "link" /\ c \in todo[b]
                  \/ caller[b] \in Mid /\ c \in todo[b] /\ ~Linking(b, c)

\* Requests that release_all has given up.
Released(b, c) == \/ runner[b] \in {"end", "done"}
                  \/ /\ runner[b] \in {"release", "cas", "await", "handoff"}
                     /\ c \notin left[b]
                  \/ /\ runner[b] \in {"dispatch", "free"}
                     /\ (c \in left[b] => Releasing(b, c))

\* The requests whose unit of count is still there.
Owed(b) == {c \in Targets(b) : \/ ticket[b][c] = 0
                               \/ ticket[b][c] > served[c] + 1
                               \/ caller[b] = "first" /\ Linking(b, c)}

\* Phase 2 still holds its unit of count.
Held(b) == caller[b] \in Mid \cup {"link", "finish", "final"}

\* Only what was asked for has a ticket; tickets are unique and in range.
TicketInv ==
    /\ \A b \in Behaviors :
          /\ todo[b] \subseteq Targets(b)
          /\ left[b] \subseteq Targets(b)
          /\ \A c \in Cowns : c \notin Targets(b) => ticket[b][c] = 0
          /\ \A c \in Targets(b) :
               /\ ticket[b][c] = 0 <=> Unlinked(b, c)
               /\ ticket[b][c] <= tail[c]
    /\ \A b, a \in Behaviors : \A c \in Cowns :
          ticket[a][c] = ticket[b][c] /\ ticket[a][c] # 0 => a = b

\* last points at the highest ticket, unless everybody has been served.
EndOK(c) == /\ served[c] <= tail[c]
            /\ last[c] = Null => served[c] = tail[c]
            /\ last[c] # Null => /\ served[c] < tail[c]
                                 /\ ticket[last[c]][c] = tail[c]

\* next leads from one ticket to the following one.
NextOK(b, c) == next[b][c] # Null => /\ ticket[b][c] # 0
                                     /\ ticket[next[b][c]][c] = ticket[b][c] + 1

\* A caller that found the queue empty is the one being served; one that
\* did not, and has not linked itself yet, is behind the request in front.
LinkerOK(b, c) ==
    /\ caller[b] \in Mid \ {"first"} => prev[b] # Null
    /\ caller[b] = "first" /\ Linking(b, c) => ticket[b][c] = served[c] + 1
    /\ caller[b] \in {"hold", "publish"} /\ Linking(b, c) =>
          /\ next[prev[b]][c] = Null
          /\ ticket[prev[b]][c] # 0
          /\ ticket[b][c] = ticket[prev[b]][c] + 1
          /\ ticket[b][c] > served[c] + 1

\* The end of every queue, and the links inside it.
QueueInv ==
    /\ \A c \in Cowns : EndOK(c)
    /\ \A b \in Behaviors : \A c \in Cowns : NextOK(b, c) /\ LinkerOK(b, c)

\* What a runner has given up is served, what it still has is not.
ReleasedOK(b, c) == ticket[b][c] # 0 => (ticket[b][c] <= served[c] <=> Released(b, c))

RunnerInv ==
    \A b \in Behaviors :
        /\ \A c \in Targets(b) : ReleasedOK(b, c)
        /\ \A c \in Cowns :
             runner[b] \in {"handoff", "dispatch"} /\ Releasing(b, c)
                 => next[b][c] # Null

\* count is what is owed, and one more until the end of phase 2.
CountOK(b) ==
    count[b] = IF caller[b] = "idle" THEN 0
               ELSE Cardinality(Owed(b)) + (IF Held(b) THEN 1 ELSE 0)

\* A behavior with a runner has a count of zero and a caller that is over.
PhaseOK(b) ==
    /\ caller[b] \in {"final", "dispatch"} => todo[b] = {}
    /\ caller[b] = "dispatch" => count[b] = 0 /\ runner[b] = "none"
    /\ runner[b] # "none" => count[b] = 0 /\ caller[b] \in {"return", "done"}

\* Whoever took the count of the next behavior to zero is alone in that.
DispatchOK(b, c) ==
    runner[b] = "dispatch" /\ Releasing(b, c) =>
        /\ count[next[b][c]] = 0
        /\ runner[next[b][c]] = "none"
        /\ caller[next[b][c]] \in {"return", "done"}
        /\ \A a \in Behaviors : \A d \in Cowns :
             /\ runner[a] = "dispatch" /\ Releasing(a, d)
             /\ next[a][d] = next[b][c]
             => a = b

\* count reaches zero once, and then somebody dispatches.
CountInv ==
    /\ \A b \in Behaviors : CountOK(b) /\ PhaseOK(b)
    /\ \A b \in Behaviors : \A c \in Cowns : DispatchOK(b, c)

\* Phase 2 marks every request.
ScheduledInv ==
    \A b \in Behaviors : \A c \in Targets(b) :
        \/ caller[b] \in Mid \cup {"idle", "link"}
        \/ caller[b] = "finish" /\ c \in todo[b]
        \/ scheduled[b][c]

IInv == TypeOK /\ TicketInv /\ QueueInv /\ RunnerInv /\ CountInv /\ ScheduledInv

-----------------------------------------------------------------------------
(***************************************************************************)
(* Facts about requests.                                                   *)
(***************************************************************************)

\* The deduplicated array has one entry more than there are distinct
\* arguments, which is what makes Units(b) - Duplicates(b) come out right.
LEMMA TargetsFinite ==
    ASSUME NEW b \in Behaviors
    PROVE  /\ Targets(b) \subseteq Cowns
           /\ ArgSet(b) \subseteq Cowns
           /\ IsFiniteSet(Targets(b))
           /\ Cardinality(ArgSet(b)) \in Nat
           /\ Cardinality(Targets(b)) = Cardinality(ArgSet(b)) + 1
           /\ Units(b) - Duplicates(b) = Cardinality(Targets(b)) + 1
<1>1. Args[b] \in Seq(Cowns) /\ Result[b] \in Cowns
  BY RequestsAssumption
<1>2. DOMAIN Args[b] = 1 .. Len(Args[b]) /\ Len(Args[b]) \in Nat
  BY <1>1
<1>3. IsFiniteSet(1 .. Len(Args[b]))
  BY <1>2, FS_Interval
<1>4. IsFiniteSet(ArgSet(b))
  <2>1. Args[b] \in Surjection(1 .. Len(Args[b]), ArgSet(b))
    BY <1>1, <1>2 DEF ArgSet, Surjection
  <2> QED
    BY <1>3, <2>1, FS_Surjection
<1>5. ArgSet(b) \subseteq Cowns
  BY <1>1, <1>2 DEF ArgSet
<1>6. Result[b] \notin ArgSet(b)
  BY RequestsAssumption DEF ArgSet
<1>7. Cardinality(ArgSet(b)) \in Nat
  BY <1>4, FS_CardinalityType
<1>8. /\ IsFiniteSet(ArgSet(b) \cup {Result[b]})
      /\ Cardinality(ArgSet(b) \cup {Result[b]}) = Cardinality(ArgSet(b)) + 1
  BY <1>4, <1>6, FS_AddElement
<1>9. Targets(b) = ArgSet(b) \cup {Result[b]}
  BY DEF Targets
<1> QED
  BY <1>1, <1>2, <1>5, <1>7, <1>8, <1>9 DEF Units, Duplicates

\* Two cowns that both come first are the same one.
LEMMA FirstIsUnique ==
    ASSUME NEW S \in SUBSET Cowns, NEW c, NEW d, IsFirst(c, S), IsFirst(d, S)
    PROVE  c = d
  BY RequestsAssumption DEF IsFirst

\* What is owed is a finite set, so its cardinality is a number.
LEMMA OwedFinite ==
    ASSUME NEW b \in Behaviors
    PROVE  /\ IsFiniteSet(Owed(b))
           /\ Cardinality(Owed(b)) \in Nat
           /\ Cardinality(Owed(b)) = 0 <=> Owed(b) = {}
<1>1. Owed(b) \subseteq Targets(b)
  BY DEF Owed
<1> QED
  BY <1>1, TargetsFinite, FS_Subset, FS_CardinalityType, FS_EmptySet

\* Paying for one request takes one unit.
LEMMA OwedRemove ==
    ASSUME NEW b \in Behaviors, NEW c \in Owed(b)
    PROVE  /\ Cardinality(Owed(b) \ {c}) = Cardinality(Owed(b)) - 1
           /\ Cardinality(Owed(b)) > 0
<1>1. Cardinality(Owed(b)) # 0
  BY OwedFinite
<1>2. Cardinality(Owed(b) \ {c}) = IF c \in Owed(b) THEN Cardinality(Owed(b)) - 1
                                                    ELSE Cardinality(Owed(b))
  BY OwedFinite, FS_RemoveElement
<1> QED
  BY <1>1, <1>2, OwedFinite

-----------------------------------------------------------------------------
(***************************************************************************)
(* Consequences of the invariant.                                          *)
(***************************************************************************)

\* A dispatched behavior is owed nothing, and on each cown that release_all
\* has not given up its ticket is the one being served.
LEMMA HolderIsServed ==
    ASSUME IInv, NEW b \in Behaviors, runner[b] # "none"
    PROVE  /\ Owed(b) = {}
           /\ \A c \in Targets(b) :
                /\ ticket[b][c] # 0
                /\ ~Released(b, c) => ticket[b][c] = served[c] + 1
<1>1. count[b] = 0 /\ caller[b] \in {"return", "done"}
  BY DEF IInv, CountInv, PhaseOK
<1>2. Cardinality(Owed(b)) = 0
  BY <1>1, OwedFinite DEF IInv, CountInv, CountOK, Held, Mid
<1>3. Owed(b) = {}
  BY <1>2, OwedFinite
<1>4. ASSUME NEW c \in Targets(b)
      PROVE  ticket[b][c] # 0 /\ (~Released(b, c) => ticket[b][c] = served[c] + 1)
  <2>1. c \in Cowns
    BY TargetsFinite
  <2>2. ticket[b][c] \in Nat /\ served[c] \in Nat
    BY <2>1 DEF IInv, TypeOK
  <2>3. ticket[b][c] # 0 /\ ~(ticket[b][c] > served[c] + 1)
    BY <1>3 DEF Owed
  <2> QED
    BY <2>2, <2>3 DEF IInv, RunnerInv, ReleasedOK
<1> QED
  BY <1>3, <1>4

\* The behavior a cown is handed to is still owed it, and is no other than
\* the holder of the following ticket.
LEMMA HandoffTarget ==
    ASSUME IInv, NEW b \in Behaviors, runner[b] = "handoff",
           NEW c \in left[b], Releasing(b, c)
    PROVE  /\ c \in Cowns /\ c \in Targets(b)
           /\ next[b][c] \in Behaviors
           /\ next[b][c] # b
           /\ ticket[b][c] = served[c] + 1
           /\ ticket[next[b][c]][c] = served[c] + 2
           /\ c \in Owed(next[b][c])
           /\ count[next[b][c]] > 0
           /\ runner[next[b][c]] = "none"
           /\ caller[next[b][c]] \notin {"idle", "dispatch"}
<1> DEFINE n == next[b][c]
<1>1. c \in Targets(b) /\ c \in Cowns
  BY TargetsFinite DEF IInv, TicketInv
<1>2. n \in Behaviors
  BY <1>1 DEF IInv, TypeOK, RunnerInv
<1>3. ~Released(b, c)
  BY DEF Released
<1>4. ticket[b][c] = served[c] + 1 /\ served[c] \in Nat
  BY <1>1, <1>3, HolderIsServed DEF IInv, TypeOK
<1>5. ticket[n][c] = served[c] + 2
  BY <1>1, <1>2, <1>4 DEF IInv, QueueInv, NextOK, RunnerInv, ReleasedOK
<1>6. c \in Targets(n)
  BY <1>1, <1>2, <1>4, <1>5 DEF IInv, TicketInv
<1>7. c \in Owed(n)
  BY <1>4, <1>5, <1>6 DEF Owed
<1>8. Cardinality(Owed(n)) > 0 /\ Cardinality(Owed(n)) \in Nat
  BY <1>2, <1>7, OwedRemove, OwedFinite
<1>9. caller[n] # "idle"
  BY <1>2, <1>4, <1>5, <1>6 DEF IInv, TicketInv, Unlinked
<1>10. count[n] > 0
  BY <1>2, <1>8, <1>9 DEF IInv, CountInv, CountOK
<1>11. runner[n] = "none" /\ caller[n] # "dispatch"
  BY <1>2, <1>10 DEF IInv, CountInv, CountOK, PhaseOK
<1> QED
  BY <1>1, <1>2, <1>4, <1>5, <1>7, <1>9, <1>10, <1>11

\* There is a unit of count left for whoever resolves the behavior it is in
\* the middle of scheduling.
LEMMA CountPositive ==
    ASSUME IInv, NEW b \in Behaviors
    PROVE  /\ Held(b) => count[b] > 0
           /\ caller[b] = "first" => \A c \in Cowns : Linking(b, c) => count[b] > 1
<1>1. caller[b] # "idle" => count[b] = Cardinality(Owed(b)) + (IF Held(b) THEN 1 ELSE 0)
  BY DEF IInv, CountInv, CountOK
<1>2. Cardinality(Owed(b)) \in Nat
  BY OwedFinite
<1>3. Held(b) => count[b] > 0
  BY <1>1, <1>2 DEF Held, Mid
<1>4. ASSUME caller[b] = "first", NEW c \in Cowns, Linking(b, c)
      PROVE  count[b] > 1
  <2>1. c \in Owed(b)
    BY <1>4 DEF IInv, TicketInv, Owed, Linking, IsFirst
  <2>2. Cardinality(Owed(b)) > 0
    BY <2>1, OwedRemove
  <2> QED
    BY <1>1, <1>2, <1>4, <2>2 DEF Held, Mid
<1> QED
  BY <1>3, <1>4

-----------------------------------------------------------------------------
(***************************************************************************)
(* Every step keeps every part of the invariant.                           *)
(***************************************************************************)

\* The end of a request in phase 1 keeps the caller's variables in range.
LEMMA AdvanceType ==
    ASSUME TypeOK, NEW b \in Behaviors, NEW c \in Cowns, Advance(b, c)
    PROVE  /\ todo' \in [Behaviors -> SUBSET Cowns]
           /\ caller' \in [Behaviors -> CallerPCs]
<1>1. PICK S \in SUBSET Cowns, pc \in CallerPCs :
         todo' = [todo EXCEPT ![b] = S] /\ caller' = [caller EXCEPT ![b] = pc]
  <2>1. CASE todo[b] = {c}
    BY <2>1, TargetsFinite DEF Advance, GotoCaller, CallerPCs
  <2>2. CASE todo[b] # {c}
    <3>1. todo[b] \ {c} \in SUBSET Cowns
      BY DEF TypeOK
    <3> QED
      BY <2>2, <3>1 DEF Advance, GotoCaller, CallerPCs
  <2> QED
    BY <2>1, <2>2
<1> QED
  BY <1>1 DEF TypeOK

\* Every step keeps the variables in their ranges.  What needs the rest of
\* the invariant: prev and next name a behavior where they are followed,
\* and no resolve takes count below zero.
LEMMA TypeStep ==
    ASSUME IInv, Next
    PROVE  TypeOK'
<1> USE DEF IInv, TypeOK, CallerPCs, RunnerPCs, Held, Mid, memory, threads, history
<1>1. ASSUME NEW b \in Behaviors, Create(b) PROVE TypeOK'
  BY <1>1, TargetsFinite DEF Create, GotoCaller
<1>2. ASSUME NEW b \in Behaviors, NEW c \in Cowns, Exchange(b, c) PROVE TypeOK'
  BY <1>2 DEF Exchange, GotoCaller, Swing
<1>3. ASSUME NEW b \in Behaviors, NEW c \in Cowns, First(b, c) PROVE TypeOK'
  <2>1. count[b] > 1
    BY <1>3, CountPositive DEF First
  <2>2. Resolve(b) /\ Advance(b, c)
    BY <1>3, <2>1 DEF First, ResolvesLast
  <2>3. count' \in [Behaviors -> Nat]
    BY <2>1, <2>2 DEF Resolve
  <2> QED
    BY <1>3, <2>2, <2>3, AdvanceType DEF First
<1>4. ASSUME NEW b \in Behaviors, NEW c \in Cowns, Hold(b, c) PROVE TypeOK'
  BY <1>4 DEF Hold, GotoCaller, QueueInv, LinkerOK
<1>5. ASSUME NEW b \in Behaviors, NEW c \in Cowns, Publish(b, c) PROVE TypeOK'
  BY <1>5 DEF Publish, GotoCaller, QueueInv, LinkerOK
<1>6. ASSUME NEW b \in Behaviors, Incref(b) PROVE TypeOK'
  BY <1>6 DEF Incref, GotoCaller
<1>7. ASSUME NEW b \in Behaviors, NEW c \in Cowns, Spin(b, c) PROVE TypeOK'
  BY <1>7 DEF Spin, GotoCaller
<1>8. ASSUME NEW b \in Behaviors, NEW c \in Cowns, Drop(b, c) PROVE TypeOK'
  <2>1. brc' \in [Behaviors -> Int]
    BY <1>8 DEF Drop, DropRequest
  <2>2. rc' \in [Behaviors -> [Cowns -> Int]]
    BY <1>8 DEF Drop, DropRequest, QueueInv, LinkerOK, Mid
  <2> QED
    BY <1>8, <2>1, <2>2, AdvanceType DEF Drop
<1>9. ASSUME NEW b \in Behaviors, NEW c \in Cowns, Finish(b, c) PROVE TypeOK'
  BY <1>9 DEF Finish, GotoCaller
<1>10. ASSUME NEW b \in Behaviors, Final(b) PROVE TypeOK'
  BY <1>10, CountPositive DEF Final, GotoCaller, Resolve, ResolvesLast
<1>11. ASSUME NEW b \in Behaviors, CallerDispatch(b) PROVE TypeOK'
  <2>1. GotoCaller(b, "return") /\ UNCHANGED todo
    BY <1>11 DEF CallerDispatch, CountInv, PhaseOK
  <2> QED
    BY <1>11, <2>1 DEF CallerDispatch, GotoCaller, GotoRunner
<1>12. ASSUME NEW b \in Behaviors, Return(b) PROVE TypeOK'
  BY <1>12 DEF Return, GotoCaller
<1>13. ASSUME NEW b \in Behaviors, Start(b) PROVE TypeOK'
  BY <1>13 DEF Start, GotoRunner
<1>14. ASSUME NEW b \in Behaviors, EndBody(b) PROVE TypeOK'
  BY <1>14, TargetsFinite DEF EndBody, GotoRunner
<1>15. ASSUME NEW b \in Behaviors, NEW c \in Cowns, ReadNext(b, c) PROVE TypeOK'
  BY <1>15 DEF ReadNext, GotoRunner
<1>16. ASSUME NEW b \in Behaviors, NEW c \in Cowns, Cas(b, c) PROVE TypeOK'
  <2>1. CASE last[c] = b
    <3>1. last' = [last EXCEPT ![c] = Null] /\ served' = [served EXCEPT ![c] = @ + 1]
      BY <1>16, <2>1 DEF Cas
    <3>2. last' \in [Cowns -> Behaviors \cup {Null}] /\ served' \in [Cowns -> Nat]
      BY <3>1
    <3>3. runner' = [runner EXCEPT ![b] = "free"]
      BY <1>16, <2>1 DEF Cas, GotoRunner
    <3> QED
      BY <1>16, <3>2, <3>3 DEF Cas
  <2>2. CASE last[c] # b
    BY <1>16, <2>2 DEF Cas, GotoRunner
  <2> QED
    BY <2>1, <2>2
<1>17. ASSUME NEW b \in Behaviors, NEW c \in Cowns, Await(b, c) PROVE TypeOK'
  BY <1>17 DEF Await, GotoRunner
<1>18. ASSUME NEW b \in Behaviors, NEW c \in Cowns, Handoff(b, c) PROVE TypeOK'
  <2>1. next[b][c] \in Behaviors /\ count[next[b][c]] > 0
    BY <1>18, HandoffTarget DEF Handoff, Releasing, IsFirst
  <2>2. count' \in [Behaviors -> Nat]
    BY <1>18, <2>1 DEF Handoff, Resolve
  <2>3. runner' \in [Behaviors -> RunnerPCs]
    BY <1>18 DEF Handoff, GotoRunner
  <2> QED
    BY <1>18, <2>2, <2>3 DEF Handoff
<1>19. ASSUME NEW b \in Behaviors, NEW c \in Cowns, RunnerDispatch(b, c) PROVE TypeOK'
  <2>1. next[b][c] \in Behaviors
    BY <1>19 DEF RunnerDispatch, RunnerInv
  <2>2. brc' \in [Behaviors -> Int]
    BY <1>19, <2>1 DEF RunnerDispatch
  <2>3. runner' \in [Behaviors -> RunnerPCs]
    BY <1>19, <2>1 DEF RunnerDispatch
  <2> QED
    BY <1>19, <2>2, <2>3 DEF RunnerDispatch
<1>20. ASSUME NEW b \in Behaviors, NEW c \in Cowns, Free(b, c) PROVE TypeOK'
  BY <1>20 DEF Free, GotoRunner, DropRequest
<1>21. ASSUME NEW b \in Behaviors, End(b) PROVE TypeOK'
  BY <1>21 DEF End, GotoRunner
<1>22. CASE Finished
  BY <1>22 DEF Finished, vars
<1> QED
  BY <1>1, <1>2, <1>3, <1>4, <1>5, <1>6, <1>7, <1>8, <1>9, <1>10, <1>11, <1>12, <1>13, <1>14, <1>15, <1>16, <1>17, <1>18, <1>19, <1>20, <1>21, <1>22
     DEF Next, CallerStep, RunnerStep

\* The end of a request in phase 1 leaves the others as linked as they were.
LEMMA AdvanceTicket ==
    ASSUME IInv, NEW b \in Behaviors, NEW c \in Cowns, caller[b] \in Mid,
           Linking(b, c), Advance(b, c), UNCHANGED <<left, ticket, tail>>
    PROVE  TicketInv'
<1>1. c \in todo[b] /\ todo[b] \subseteq Targets(b) /\ todo[b] \subseteq Cowns
  BY DEF IInv, TicketInv, TypeOK, Linking, IsFirst
<1>2. \A d \in todo[b] : Linking(b, d) => d = c
  BY <1>1, FirstIsUnique DEF Linking
<1>3. \A d \in Targets(b) : Unlinked(b, d) <=> d \in todo[b] /\ d # c
  BY <1>1, <1>2 DEF Unlinked, Linking, IsFirst, Mid
<1>4. /\ \A a \in Behaviors \ {b} : todo'[a] = todo[a] /\ caller'[a] = caller[a]
      /\ todo'[b] \subseteq Targets(b)
      /\ \/ caller'[b] = "link" /\ todo'[b] = todo[b] \ {c}
         \/ caller'[b] = "finish" /\ todo[b] = {c}
  BY <1>1 DEF Advance, GotoCaller, IInv, TypeOK
<1>5. \A d \in Targets(b) : Unlinked(b, d)' <=> Unlinked(b, d)
  BY <1>1, <1>3, <1>4 DEF Unlinked, Mid
<1>6. \A a \in Behaviors \ {b} : \A d \in Targets(a) : Unlinked(a, d)' <=> Unlinked(a, d)
  BY <1>4 DEF Unlinked, Linking
<1> QED
  BY <1>4, <1>5, <1>6 DEF IInv, TicketInv

\* Every step keeps tickets unique, in range and in line with the callers.
LEMMA TicketStep ==
    ASSUME IInv, Next
    PROVE  TicketInv'
<1> USE DEF IInv, TypeOK, TicketInv, Unlinked, Mid, Linking, memory, threads, history
<1>1. ASSUME NEW b \in Behaviors, Create(b) PROVE TicketInv'
  BY <1>1, TargetsFinite DEF Create, GotoCaller
<1>2. ASSUME NEW b \in Behaviors, NEW c \in Cowns, Exchange(b, c) PROVE TicketInv'
  <2>1. c \in todo[b] /\ c \in Targets(b) /\ todo[b] \subseteq Cowns /\ tail[c] \in Nat
    BY <1>2 DEF Exchange, IsFirst
  <2>2. \A d \in todo[b] : Linking(b, d) => d = c
    BY <1>2, <2>1, FirstIsUnique DEF Exchange
  <2>3. /\ caller[b] = "link"
        /\ caller' = [caller EXCEPT ![b] = IF last[c] = Null THEN "first" ELSE "hold"]
        /\ ticket' = [ticket EXCEPT ![b][c] = tail[c] + 1]
        /\ tail' = [tail EXCEPT ![c] = tail[c] + 1]
        /\ todo' = todo /\ left' = left
        /\ Linking(b, c)
    BY <1>2 DEF Exchange, GotoCaller
  <2>4. /\ \A a \in Behaviors : \A d \in Cowns :
             ticket'[a][d] = IF a = b /\ d = c THEN tail[c] + 1 ELSE ticket[a][d]
        /\ \A d \in Cowns : tail'[d] = IF d = c THEN tail[c] + 1 ELSE tail[d]
        /\ \A a \in Behaviors : a # b => caller'[a] = caller[a]
        /\ caller'[b] \in {"first", "hold"}
    BY <2>3
  <2>5. \A d \in Targets(b) : Unlinked(b, d)' <=> Unlinked(b, d) /\ d # c
    BY <2>1, <2>2, <2>3, <2>4
  <2>6. \A a \in Behaviors \ {b} : \A d \in Targets(a) : Unlinked(a, d)' <=> Unlinked(a, d)
    BY <2>3, <2>4
  <2>7. \A a \in Behaviors : \A d \in Cowns : ticket[a][d] <= tail[d] /\ ticket[a][d] \in Nat /\ tail[d] \in Nat
    BY TargetsFinite
  <2>8. \A a \in Behaviors : \A d \in Targets(a) :
            /\ ticket'[a][d] = 0 <=> Unlinked(a, d)'
            /\ ticket'[a][d] <= tail'[d]
    BY <2>1, <2>4, <2>5, <2>6, <2>7, TargetsFinite
  <2>9. \A a, e \in Behaviors : \A d \in Cowns :
            ticket'[a][d] = ticket'[e][d] /\ ticket'[a][d] # 0 => a = e
    <3>1. SUFFICES ASSUME NEW a \in Behaviors, NEW e \in Behaviors, NEW d \in Cowns,
                          ticket'[a][d] = ticket'[e][d], ticket'[a][d] # 0, a # e
                   PROVE  FALSE
      OBVIOUS
    <3>2. /\ ticket[a][d] <= tail[d] /\ ticket[a][d] \in Nat
          /\ ticket[e][d] <= tail[d] /\ ticket[e][d] \in Nat
          /\ tail[d] \in Nat
      BY <2>7
    <3>3. d = c /\ (a = b \/ e = b)
      <4>1. ~(ticket[a][d] = ticket[e][d] /\ ticket[a][d] # 0)
        BY <3>1
      <4> HIDE DEF IInv, TicketInv
      <4> QED
        BY <2>4, <3>1, <4>1
    <3> HIDE DEF IInv, TicketInv
    <3>4. CASE a = b
      BY <2>4, <3>1, <3>2, <3>3, <3>4
    <3>5. CASE e = b
      BY <2>4, <3>1, <3>2, <3>3, <3>5
    <3> QED
      BY <3>3, <3>4, <3>5
  <2> QED
    BY <2>1, <2>3, <2>4, <2>8, <2>9
<1>3. ASSUME NEW b \in Behaviors, NEW c \in Cowns, First(b, c) PROVE TicketInv'
  <2>1. count[b] > 1
    BY <1>3, CountPositive DEF First
  <2> QED
    BY <1>3, <2>1, AdvanceTicket DEF First, ResolvesLast
<1>4. ASSUME NEW b \in Behaviors, NEW c \in Cowns, Hold(b, c) PROVE TicketInv'
  BY <1>4 DEF Hold, GotoCaller
<1>5. ASSUME NEW b \in Behaviors, NEW c \in Cowns, Publish(b, c) PROVE TicketInv'
  BY <1>5 DEF Publish, GotoCaller
<1>6. ASSUME NEW b \in Behaviors, Incref(b) PROVE TicketInv'
  BY <1>6 DEF Incref, GotoCaller
<1>7. ASSUME NEW b \in Behaviors, NEW c \in Cowns, Spin(b, c) PROVE TicketInv'
  BY <1>7 DEF Spin, GotoCaller
<1>8. ASSUME NEW b \in Behaviors, NEW c \in Cowns, Drop(b, c) PROVE TicketInv'
  BY <1>8, AdvanceTicket DEF Drop
<1>9. ASSUME NEW b \in Behaviors, NEW c \in Cowns, Finish(b, c) PROVE TicketInv'
  BY <1>9 DEF Finish, GotoCaller
<1>10. ASSUME NEW b \in Behaviors, Final(b) PROVE TicketInv'
  BY <1>10 DEF Final, GotoCaller, Resolve, ResolvesLast
<1>11. ASSUME NEW b \in Behaviors, CallerDispatch(b) PROVE TicketInv'
  <2>1. GotoCaller(b, "return") /\ UNCHANGED todo
    BY <1>11 DEF CallerDispatch, CountInv, PhaseOK
  <2> QED
    BY <1>11, <2>1 DEF CallerDispatch, GotoCaller
<1>12. ASSUME NEW b \in Behaviors, Return(b) PROVE TicketInv'
  BY <1>12 DEF Return, GotoCaller
<1>13. ASSUME NEW b \in Behaviors, Start(b) PROVE TicketInv'
  BY <1>13 DEF Start, GotoRunner
<1>14. ASSUME NEW b \in Behaviors, EndBody(b) PROVE TicketInv'
  BY <1>14, TargetsFinite DEF EndBody, GotoRunner
<1>15. ASSUME NEW b \in Behaviors, NEW c \in Cowns, ReadNext(b, c) PROVE TicketInv'
  BY <1>15 DEF ReadNext, GotoRunner
<1>16. ASSUME NEW b \in Behaviors, NEW c \in Cowns, Cas(b, c) PROVE TicketInv'
  BY <1>16 DEF Cas, GotoRunner
<1>17. ASSUME NEW b \in Behaviors, NEW c \in Cowns, Await(b, c) PROVE TicketInv'
  BY <1>17 DEF Await, GotoRunner
<1>18. ASSUME NEW b \in Behaviors, NEW c \in Cowns, Handoff(b, c) PROVE TicketInv'
  BY <1>18 DEF Handoff, GotoRunner, Resolve, ResolvesLast
<1>19. ASSUME NEW b \in Behaviors, NEW c \in Cowns, RunnerDispatch(b, c) PROVE TicketInv'
  BY <1>19 DEF RunnerDispatch
<1>20. ASSUME NEW b \in Behaviors, NEW c \in Cowns, Free(b, c) PROVE TicketInv'
  BY <1>20 DEF Free, GotoRunner, DropRequest
<1>21. ASSUME NEW b \in Behaviors, End(b) PROVE TicketInv'
  BY <1>21 DEF End, GotoRunner
<1>22. CASE Finished
  BY <1>22 DEF Finished, vars
<1> QED
  BY <1>1, <1>2, <1>3, <1>4, <1>5, <1>6, <1>7, <1>8, <1>9, <1>10, <1>11, <1>12, <1>13, <1>14, <1>15, <1>16, <1>17, <1>18, <1>19, <1>20, <1>21, <1>22
     DEF Next, CallerStep, RunnerStep

\* Tickets are numbers up to the last one drawn.
LEMMA TicketRange ==
    ASSUME IInv, NEW b \in Behaviors, NEW c \in Cowns
    PROVE  /\ ticket[b][c] \in Nat /\ tail[c] \in Nat /\ served[c] \in Nat
           /\ ticket[b][c] <= tail[c]
           /\ \A a \in Behaviors :
                ticket[a][c] = ticket[b][c] /\ ticket[a][c] # 0 => a = b
<1>1. ticket[b][c] \in Nat /\ tail[c] \in Nat /\ served[c] \in Nat
  BY DEF IInv, TypeOK
<1>2. c \in Targets(b) \/ ticket[b][c] = 0
  BY DEF IInv, TicketInv
<1> QED
  BY <1>1, <1>2 DEF IInv, TicketInv

\* Every step keeps last at the highest ticket and next at the following one.
LEMMA QueueStep ==
    ASSUME IInv, Next
    PROVE  QueueInv'
<1> USE DEF IInv, TypeOK, QueueInv, EndOK, NextOK, LinkerOK, Mid, Linking, memory, threads, history
<1>1. ASSUME NEW b \in Behaviors, Create(b) PROVE QueueInv'
  BY <1>1, TargetsFinite DEF Create, GotoCaller
<1>2. ASSUME NEW b \in Behaviors, NEW c \in Cowns, Exchange(b, c) PROVE QueueInv'
  <2>1. c \in todo[b] /\ c \in Targets(b) /\ todo[b] \subseteq Cowns
    BY <1>2 DEF Exchange, IsFirst, TicketInv
  <2>2. \A d \in Cowns : Linking(b, d) => d = c
    BY <1>2, <2>1, FirstIsUnique DEF Exchange
  <2>3. ticket[b][c] = 0
    BY <1>2, <2>1 DEF Exchange, TicketInv, Unlinked
  <2>4. /\ \A a \in Behaviors : \A d \in Cowns :
             ticket'[a][d] = IF a = b /\ d = c THEN tail[c] + 1 ELSE ticket[a][d]
        /\ \A d \in Cowns : tail'[d] = IF d = c THEN tail[c] + 1 ELSE tail[d]
        /\ \A d \in Cowns : last'[d] = IF d = c THEN b ELSE last[d]
        /\ \A a \in Behaviors : a # b => caller'[a] = caller[a] /\ prev'[a] = prev[a]
        /\ caller'[b] = IF last[c] = Null THEN "first" ELSE "hold"
        /\ prev'[b] = last[c]
        /\ UNCHANGED <<served, next, todo>>
    BY <1>2 DEF Exchange, Swing, GotoCaller
  <2>5. EndOK(c) /\ b # Null
    BY RequestsAssumption
  <2>6. \A a \in Behaviors : \A d \in Cowns : NextOK(a, d) /\ LinkerOK(a, d)
    OBVIOUS
  <2>7. \A a \in Behaviors : next[a] \in [Cowns -> Behaviors \cup {Null}]
    OBVIOUS
  <2> HIDE DEF IInv
  <2>8. ASSUME NEW d \in Cowns PROVE EndOK(d)'
    <3>1. tail[d] \in Nat /\ served[d] \in Nat /\ EndOK(d)
      BY <1>2, TicketRange DEF IInv
    <3>2. last[d] # Null => last[d] \in Behaviors /\ (d = c => last[d] # b)
      BY <2>3, <2>5, <3>1 DEF IInv
    <3> QED
      BY <2>4, <2>5, <3>1, <3>2
  <2>9. ASSUME NEW a \in Behaviors, NEW d \in Cowns PROVE NextOK(a, d)'
    <3>1. CASE next[a][d] = Null
      BY <2>4, <3>1
    <3>2. CASE next[a][d] # Null
      <4>1. next[a][d] \in Behaviors
        BY <2>7, <3>2
      <4>2. ticket[a][d] \in Nat /\ ticket[a][d] # 0 /\ ticket[next[a][d]][d] = ticket[a][d] + 1
        BY <2>6, <3>2, TicketRange
      <4>3. ~(a = b /\ d = c) /\ ~(next[a][d] = b /\ d = c)
        BY <2>3, <4>2
      <4> QED
        BY <2>4, <4>1, <4>2, <4>3
    <3> QED
      BY <3>1, <3>2
  <2>10. ASSUME NEW a \in Behaviors, NEW d \in Cowns, a # b PROVE LinkerOK(a, d)'
    <3>1. LinkerOK(a, d) /\ (prev[a] = Null \/ prev[a] \in Behaviors)
      BY <2>6 DEF IInv
    <3>2. Linking(a, d)' <=> Linking(a, d)
      BY <2>4
    <3> QED
      BY <2>3, <2>4, <2>10, <3>1, <3>2
  <2>11. ASSUME NEW d \in Cowns PROVE LinkerOK(b, d)'
    <3>1. CASE last[c] = Null
      <4>1. tail[c] = served[c]
        BY <2>5, <3>1
      <4> QED
        BY <2>2, <2>4, <3>1, <4>1
    <3>2. CASE last[c] # Null
      <4> DEFINE p == last[c]
      <4>1. p \in Behaviors /\ ticket[p][c] = tail[c] /\ served[c] < tail[c]
            /\ tail[c] \in Nat /\ served[c] \in Nat
        BY <2>5, <3>2 DEF IInv
      <4>2. p # b
        BY <2>3, <4>1
      <4>3. next[p][c] = Null
        <5>1. SUFFICES ASSUME next[p][c] # Null PROVE FALSE
          OBVIOUS
        <5>2. next[p][c] \in Behaviors /\ ticket[next[p][c]][c] = tail[c] + 1
          BY <2>6, <2>7, <4>1, <5>1
        <5>3. ticket[next[p][c]][c] <= tail[c]
          BY <5>2, TicketRange
        <5> QED
          BY <4>1, <5>2, <5>3
      <4> HIDE DEF p
      <4>4. prev'[b] = p /\ caller'[b] = "hold" /\ next' = next /\ served' = served
        BY <2>4, <3>2 DEF p
      <4>5. ticket'[p][c] = tail[c] /\ ticket'[b][c] = tail[c] + 1
        BY <2>4, <4>1, <4>2
      <4>6. p # Null
        BY <4>1, RequestsAssumption
      <4>7. Linking(b, d)' => d = c
        BY <2>2, <2>4
      <4> QED
        BY <4>1, <4>3, <4>4, <4>5, <4>6, <4>7
    <3> QED
      BY <3>1, <3>2
  <2> QED
    BY <2>8, <2>9, <2>10, <2>11
<1>3. ASSUME NEW b \in Behaviors, NEW c \in Cowns, First(b, c) PROVE QueueInv'
  BY <1>3, CountPositive, FirstIsUnique, TargetsFinite DEF First, GotoCaller, Advance, Resolve, ResolvesLast
<1>4. ASSUME NEW b \in Behaviors, NEW c \in Cowns, Hold(b, c) PROVE QueueInv'
  BY <1>4 DEF Hold, GotoCaller
<1>5. ASSUME NEW b \in Behaviors, NEW c \in Cowns, Publish(b, c) PROVE QueueInv'
  <2> DEFINE p == prev[b]
  <2>1. /\ p \in Behaviors /\ next[p][c] = Null /\ ticket[p][c] # 0
        /\ ticket[b][c] = ticket[p][c] + 1 /\ ticket[p][c] \in Nat
    BY <1>5 DEF Publish
  <2>2. /\ \A a \in Behaviors : \A d \in Cowns :
             next'[a][d] = IF a = p /\ d = c THEN b ELSE next[a][d]
        /\ \A a \in Behaviors : caller'[a] = IF a = b THEN "incref" ELSE caller[a]
        /\ UNCHANGED <<last, ticket, tail, served, prev, todo>>
    BY <1>5, <2>1 DEF Publish, GotoCaller
  <2>3. \A d \in Cowns : EndOK(d)'
    BY <2>2
  <2>4. ASSUME NEW a \in Behaviors, NEW d \in Cowns PROVE NextOK(a, d)'
    <3>1. NextOK(a, d)
      OBVIOUS
    <3> HIDE DEF IInv, p
    <3> QED
      BY <2>1, <2>2, <3>1
  <2>5. ASSUME NEW a \in Behaviors, NEW d \in Cowns PROVE LinkerOK(a, d)'
    <3>1. LinkerOK(a, d)
      OBVIOUS
    <3>2. CASE a = b
      BY <1>5, <2>2, <3>1, <3>2 DEF Publish
    <3>3. CASE a # b
      <4>1. caller'[a] = caller[a] /\ prev'[a] = prev[a] /\ (Linking(a, d)' <=> Linking(a, d))
        BY <2>2, <3>3
      <4>2. caller[a] \in {"hold", "publish"} /\ Linking(a, d) => ~(prev[a] = p /\ d = c)
        <5>1. SUFFICES ASSUME caller[a] \in {"hold", "publish"}, Linking(a, c), prev[a] = p, d = c
                       PROVE  FALSE
          OBVIOUS
        <5>2. ticket[a][c] = ticket[b][c] /\ ticket[a][c] # 0
          BY <2>1, <3>1, <5>1
        <5> QED
          BY <3>3, <5>2, TicketRange
      <4>3. prev[a] # Null => prev[a] \in Behaviors
        OBVIOUS
      <4> HIDE DEF IInv, p
      <4> QED
        BY <2>2, <3>1, <4>1, <4>2, <4>3
    <3> QED
      BY <3>2, <3>3
  <2> QED
    BY <2>3, <2>4, <2>5
<1>6. ASSUME NEW b \in Behaviors, Incref(b) PROVE QueueInv'
  BY <1>6 DEF Incref, GotoCaller
<1>7. ASSUME NEW b \in Behaviors, NEW c \in Cowns, Spin(b, c) PROVE QueueInv'
  BY <1>7 DEF Spin, GotoCaller
<1>8. ASSUME NEW b \in Behaviors, NEW c \in Cowns, Drop(b, c) PROVE QueueInv'
  <2>1. /\ \A a \in Behaviors : a # b => caller'[a] = caller[a] /\ todo'[a] = todo[a]
        /\ caller'[b] \in {"link", "finish"}
        /\ UNCHANGED <<last, next, ticket, tail, served, prev>>
    BY <1>8 DEF Drop, Advance, GotoCaller
  <2>2. /\ \A d \in Cowns : EndOK(d)'
        /\ \A a \in Behaviors : \A d \in Cowns : NextOK(a, d)'
    BY <2>1
  <2>3. ASSUME NEW a \in Behaviors, NEW d \in Cowns PROVE LinkerOK(a, d)'
    <3>1. LinkerOK(a, d)
      OBVIOUS
    <3> HIDE DEF IInv
    <3> QED
      BY <2>1, <3>1
  <2> QED
    BY <2>2, <2>3
<1>9. ASSUME NEW b \in Behaviors, NEW c \in Cowns, Finish(b, c) PROVE QueueInv'
  BY <1>9 DEF Finish, GotoCaller
<1>10. ASSUME NEW b \in Behaviors, Final(b) PROVE QueueInv'
  BY <1>10 DEF Final, GotoCaller, Resolve, ResolvesLast
<1>11. ASSUME NEW b \in Behaviors, CallerDispatch(b) PROVE QueueInv'
  BY <1>11, TargetsFinite DEF CallerDispatch, GotoCaller, Advance, GotoRunner, CountInv, PhaseOK
<1>12. ASSUME NEW b \in Behaviors, Return(b) PROVE QueueInv'
  BY <1>12 DEF Return, GotoCaller
<1>13. ASSUME NEW b \in Behaviors, Start(b) PROVE QueueInv'
  BY <1>13 DEF Start, GotoRunner
<1>14. ASSUME NEW b \in Behaviors, EndBody(b) PROVE QueueInv'
  BY <1>14 DEF EndBody, GotoRunner
<1>15. ASSUME NEW b \in Behaviors, NEW c \in Cowns, ReadNext(b, c) PROVE QueueInv'
  BY <1>15 DEF ReadNext, GotoRunner
<1>16. ASSUME NEW b \in Behaviors, NEW c \in Cowns, Cas(b, c) PROVE QueueInv'
  <2>1. CASE last[c] # b
    BY <1>16, <2>1 DEF Cas
  <2>2. CASE last[c] = b
    <3>1. c \in Targets(b) /\ ~Released(b, c)
      BY <1>16 DEF Cas, Releasing, IsFirst, TicketInv, Released
    <3>2. ticket[b][c] = served[c] + 1 /\ tail[c] = served[c] + 1 /\ b # Null
      <4>1. runner[b] # "none"
        BY <1>16 DEF Cas
      <4>2. ticket[b][c] = served[c] + 1
        BY <3>1, <4>1, HolderIsServed
      <4>3. b # Null
        BY RequestsAssumption
      <4>4. ticket[b][c] = tail[c]
        BY <2>2, <4>3 DEF EndOK
      <4> QED
        BY <4>2, <4>3, <4>4
    <3>3. /\ \A d \in Cowns : /\ last'[d] = IF d = c THEN Null ELSE last[d]
                              /\ served'[d] = IF d = c THEN served[c] + 1 ELSE served[d]
          /\ UNCHANGED <<caller, next, ticket, tail, prev, todo>>
      <4>1. /\ last' = [last EXCEPT ![c] = Null] /\ served' = [served EXCEPT ![c] = @ + 1]
            /\ UNCHANGED <<caller, next, ticket, tail, prev, todo>>
        BY <1>16, <2>2 DEF Cas
      <4>2. DOMAIN last = Cowns /\ DOMAIN served = Cowns
        OBVIOUS
      <4> HIDE DEF IInv
      <4> QED
        BY <4>1, <4>2
    <3>4. \A d \in Cowns : EndOK(d)'
      BY <3>2, <3>3
    <3>5. \A a \in Behaviors : \A d \in Cowns : NextOK(a, d)'
      BY <3>3
    <3>6. ASSUME NEW a \in Behaviors, NEW d \in Cowns PROVE LinkerOK(a, d)'
      <4>1. LinkerOK(a, d)
        OBVIOUS
      <4>2. caller[b] \in {"return", "done"}
        BY <1>16 DEF Cas, CountInv, PhaseOK
      <4>3. CASE d = c
        <5>1. ticket[a][c] \in Nat /\ served[c] \in Nat /\ ticket[a][c] <= served[c] + 1
          BY <3>2, TicketRange
        <5>2. ticket[a][c] = served[c] + 1 => a = b
          BY <3>2, <5>1, TicketRange
        <5> HIDE DEF IInv
        <5> QED
          BY <3>3, <4>1, <4>2, <4>3, <5>1, <5>2
      <4>4. CASE d # c
        <5> HIDE DEF IInv
        <5> QED
          BY <3>3, <4>1, <4>4
      <4> QED
        BY <4>3, <4>4
    <3> QED
      BY <3>4, <3>5, <3>6
  <2> QED
    BY <2>1, <2>2
<1>17. ASSUME NEW b \in Behaviors, NEW c \in Cowns, Await(b, c) PROVE QueueInv'
  BY <1>17 DEF Await, GotoRunner
<1>18. ASSUME NEW b \in Behaviors, NEW c \in Cowns, Handoff(b, c) PROVE QueueInv'
  <2> DEFINE n == next[b][c]
  <2>1. /\ n \in Behaviors /\ n # b /\ c \in Targets(b)
        /\ ticket[b][c] = served[c] + 1 /\ ticket[n][c] = served[c] + 2
    BY <1>18, HandoffTarget DEF Handoff, Releasing, IsFirst
  <2>2. n # Null
    BY <2>1, RequestsAssumption
  <2>3. caller[b] \in {"return", "done"}
    BY <1>18 DEF Handoff, CountInv, PhaseOK
  <2>4. /\ \A d \in Cowns : served'[d] = IF d = c THEN served[c] + 1 ELSE served[d]
        /\ UNCHANGED <<last, caller, next, ticket, tail, prev, todo>>
    BY <1>18 DEF Handoff
  <2> HIDE DEF n
  <2>5. ASSUME NEW d \in Cowns PROVE EndOK(d)'
    <3>1. EndOK(d) /\ ticket[n][d] <= tail[d] /\ tail[d] \in Nat /\ served[d] \in Nat
      BY <2>1, TicketRange
    <3> HIDE DEF IInv
    <3> QED
      BY <2>1, <2>4, <3>1
  <2>6. \A a \in Behaviors : \A d \in Cowns : NextOK(a, d)'
    BY <2>4
  <2>7. ASSUME NEW a \in Behaviors, NEW d \in Cowns PROVE LinkerOK(a, d)'
    <3>1. LinkerOK(a, d)
      OBVIOUS
    <3>2. CASE d = c
      <4>1. ticket[a][c] \in Nat /\ served[c] \in Nat
        BY TicketRange
      <4>2. ticket[a][c] = served[c] + 1 => a = b
        BY <2>1, <4>1, TicketRange
      <4>3. ticket[a][c] = served[c] + 2 => a = n
        BY <2>1, <4>1, TicketRange
      <4>4. ~(caller[a] = "first" /\ Linking(a, c))
        BY <2>3, <3>1, <3>2, <4>2
      <4>5. ASSUME caller[a] \in {"hold", "publish"}, Linking(a, c)
            PROVE  ticket[a][c] > served[c] + 2
        <5>1. /\ prev[a] \in Behaviors /\ next[prev[a]][c] = Null
              /\ ticket[prev[a]][c] \in Nat
              /\ ticket[a][c] = ticket[prev[a]][c] + 1 /\ ticket[a][c] > served[c] + 1
          BY <3>1, <3>2, <4>5
        <5>2. ticket[prev[a]][c] # served[c] + 1
          <6>1. ticket[prev[a]][c] = served[c] + 1 => prev[a] = b
            <7>1. ticket[b][c] # 0
              BY <2>1, <4>1
            <7>2. \A e \in Behaviors : ticket[e][c] = ticket[b][c] /\ ticket[e][c] # 0 => e = b
              BY DEF TicketInv
            <7> HIDE DEF IInv
            <7> QED
              BY <2>1, <5>1, <7>1, <7>2
          <6> QED
            BY <2>2, <5>1, <6>1 DEF n
        <5> HIDE DEF IInv
        <5> QED
          BY <4>1, <5>1, <5>2
      <4> HIDE DEF IInv
      <4> QED
        BY <2>4, <3>1, <3>2, <4>1, <4>4, <4>5
    <3>3. CASE d # c
      <4> HIDE DEF IInv
      <4> QED
        BY <2>4, <3>1, <3>3
    <3> QED
      BY <3>2, <3>3
  <2> QED
    BY <2>5, <2>6, <2>7
<1>19. ASSUME NEW b \in Behaviors, NEW c \in Cowns, RunnerDispatch(b, c) PROVE QueueInv'
  BY <1>19 DEF RunnerDispatch
<1>20. ASSUME NEW b \in Behaviors, NEW c \in Cowns, Free(b, c) PROVE QueueInv'
  BY <1>20 DEF Free, GotoRunner, DropRequest
<1>21. ASSUME NEW b \in Behaviors, End(b) PROVE QueueInv'
  BY <1>21 DEF End, GotoRunner
<1>22. CASE Finished
  BY <1>22 DEF Finished, vars
<1> QED
  BY <1>1, <1>2, <1>3, <1>4, <1>5, <1>6, <1>7, <1>8, <1>9, <1>10, <1>11, <1>12, <1>13, <1>14, <1>15, <1>16, <1>17, <1>18, <1>19, <1>20, <1>21, <1>22
     DEF Next, CallerStep, RunnerStep

\* Giving a cown up serves the one ticket that is released by it.
LEMMA ServeKeeps ==
    ASSUME IInv, NEW b \in Behaviors, NEW c \in Cowns,
           runner[b] \in {"cas", "handoff"}, Releasing(b, c),
           served' = [served EXCEPT ![c] = @ + 1],
           NEW pc \in {"free", "dispatch"}, GotoRunner(b, pc),
           UNCHANGED <<left, ticket>>
    PROVE  \A a \in Behaviors : \A d \in Targets(a) : ReleasedOK(a, d)'
<1>1. c \in left[b] /\ left[b] \subseteq Targets(b) /\ left[b] \subseteq Cowns
  BY DEF Releasing, IsFirst, IInv, TicketInv, TypeOK
<1>2. \A d \in Cowns : Releasing(b, d) => d = c
  BY <1>1, FirstIsUnique DEF Releasing
<1>3. ticket[b][c] = served[c] + 1
  BY <1>1, HolderIsServed DEF Released
<1>4. /\ \A a \in Behaviors : runner'[a] = IF a = b THEN pc ELSE runner[a]
      /\ \A d \in Cowns : served'[d] = IF d = c THEN served[c] + 1 ELSE served[d]
  BY DEF GotoRunner, IInv, TypeOK
<1>5. ASSUME NEW a \in Behaviors, NEW d \in Targets(a)
      PROVE  ReleasedOK(a, d)'
  <2>1. /\ d \in Cowns /\ ReleasedOK(a, d)
        /\ ticket[a][d] \in Nat /\ served[d] \in Nat
    BY TargetsFinite, TicketRange DEF IInv, RunnerInv
  <2>2. d = c /\ ticket[a][d] = served[c] + 1 => a = b
    BY <1>3, <2>1, TicketRange
  <2>3. CASE a = b
    <3>1. Released(b, d)' <=> Released(b, d) \/ d = c
      BY <1>1, <1>2, <1>4 DEF Released, Releasing
    <3>2. d # c => served'[d] = served[d]
      BY <1>4, <2>1
    <3>3. d = c => ticket'[a][d] <= served'[d]
      BY <1>3, <1>4, <2>1, <2>3
    <3> QED
      BY <2>1, <2>3, <3>1, <3>2, <3>3 DEF ReleasedOK
  <2>4. CASE a # b
    <3>1. Released(a, d)' <=> Released(a, d)
      BY <1>4, <2>4 DEF Released, Releasing
    <3>2. ticket'[a][d] <= served'[d] <=> ticket[a][d] <= served[d]
      BY <1>4, <2>1, <2>2, <2>4
    <3> QED
      BY <3>1, <3>2, <2>1 DEF ReleasedOK
  <2> QED
    BY <2>3, <2>4
<1> QED
  BY <1>5

\* Every step keeps what is served in line with what has been released.
LEMMA RunnerStepKeeps ==
    ASSUME IInv, Next
    PROVE  RunnerInv'
<1> USE DEF IInv, TypeOK, RunnerInv, ReleasedOK, Released, Releasing, memory, threads, history
<1>1. ASSUME NEW b \in Behaviors, Create(b) PROVE RunnerInv'
  BY <1>1, TargetsFinite DEF Create, GotoCaller
<1>2. ASSUME NEW b \in Behaviors, NEW c \in Cowns, Exchange(b, c) PROVE RunnerInv'
  <2>1. runner[b] = "none"
    BY <1>2 DEF Exchange, CountInv, PhaseOK
  <2>2. /\ \A a \in Behaviors : \A d \in Cowns :
             ticket'[a][d] = IF a = b /\ d = c THEN tail[c] + 1 ELSE ticket[a][d]
        /\ UNCHANGED <<runner, left, next, served>>
    BY <1>2 DEF Exchange
  <2>3. served[c] \in Nat /\ tail[c] \in Nat /\ served[c] <= tail[c]
    BY DEF QueueInv, EndOK
  <2>4. ASSUME NEW a \in Behaviors, NEW d \in Targets(a) PROVE ReleasedOK(a, d)'
    <3>1. ReleasedOK(a, d) /\ d \in Cowns
      BY TargetsFinite
    <3> HIDE DEF IInv
    <3> QED
      BY <2>1, <2>2, <2>3, <3>1
  <2> QED
    BY <2>2, <2>4
<1>3. ASSUME NEW b \in Behaviors, NEW c \in Cowns, First(b, c) PROVE RunnerInv'
  BY <1>3 DEF First, GotoCaller, Advance, Resolve, ResolvesLast
<1>4. ASSUME NEW b \in Behaviors, NEW c \in Cowns, Hold(b, c) PROVE RunnerInv'
  BY <1>4 DEF Hold, GotoCaller
<1>5. ASSUME NEW b \in Behaviors, NEW c \in Cowns, Publish(b, c) PROVE RunnerInv'
  <2>1. /\ UNCHANGED <<runner, left, ticket, served>>
        /\ next' = [next EXCEPT ![prev[b]][c] = b] /\ b # Null
    BY <1>5, RequestsAssumption DEF Publish
  <2>2. \A a \in Behaviors : \A d \in Cowns : next[a][d] # Null => next'[a][d] # Null
    BY <2>1
  <2> QED
    BY <2>1, <2>2
<1>6. ASSUME NEW b \in Behaviors, Incref(b) PROVE RunnerInv'
  BY <1>6 DEF Incref, GotoCaller
<1>7. ASSUME NEW b \in Behaviors, NEW c \in Cowns, Spin(b, c) PROVE RunnerInv'
  BY <1>7 DEF Spin, GotoCaller
<1>8. ASSUME NEW b \in Behaviors, NEW c \in Cowns, Drop(b, c) PROVE RunnerInv'
  BY <1>8 DEF Drop, GotoCaller, Advance, DropRequest
<1>9. ASSUME NEW b \in Behaviors, NEW c \in Cowns, Finish(b, c) PROVE RunnerInv'
  BY <1>9 DEF Finish, GotoCaller
<1>10. ASSUME NEW b \in Behaviors, Final(b) PROVE RunnerInv'
  BY <1>10 DEF Final, GotoCaller, Resolve, ResolvesLast
<1>11. ASSUME NEW b \in Behaviors, CallerDispatch(b) PROVE RunnerInv'
  <2>1. runner[b] = "none" /\ runner' = [runner EXCEPT ![b] = "ready"]
    BY <1>11 DEF CallerDispatch, CountInv, PhaseOK, GotoRunner
  <2> QED
    BY <1>11, <2>1 DEF CallerDispatch
<1>12. ASSUME NEW b \in Behaviors, Return(b) PROVE RunnerInv'
  BY <1>12 DEF Return, GotoCaller
<1>13. ASSUME NEW b \in Behaviors, Start(b) PROVE RunnerInv'
  BY <1>13 DEF Start, GotoRunner
<1>14. ASSUME NEW b \in Behaviors, EndBody(b) PROVE RunnerInv'
  BY <1>14, TargetsFinite DEF EndBody, GotoRunner
<1>15. ASSUME NEW b \in Behaviors, NEW c \in Cowns, ReadNext(b, c) PROVE RunnerInv'
  <2>1. PICK pc \in {"cas", "handoff"} :
          /\ runner' = [runner EXCEPT ![b] = pc]
          /\ pc = "handoff" => next[b][c] # Null
    BY <1>15 DEF ReadNext, GotoRunner
  <2>2. runner[b] \in {"release", "await"} /\ Releasing(b, c) /\ UNCHANGED <<left, next, ticket, served>>
    BY <1>15 DEF ReadNext
  <2>3. \A d \in Cowns : Releasing(b, d) => d = c
    BY <2>2, FirstIsUnique
  <2>4. \A a \in Behaviors : \A d \in Targets(a) : Released(a, d)' <=> Released(a, d)
    BY <2>1, <2>2
  <2>5. \A a \in Behaviors : \A d \in Targets(a) : ReleasedOK(a, d)'
    BY <2>2, <2>4
  <2> QED
    BY <2>1, <2>2, <2>3, <2>5
<1>16. ASSUME NEW b \in Behaviors, NEW c \in Cowns, Cas(b, c) PROVE RunnerInv'
  <2>1. UNCHANGED <<left, next, ticket>> /\ Releasing(b, c) /\ runner[b] = "cas"
    BY <1>16 DEF Cas
  <2>2. CASE last[c] = b
    <3>1. served' = [served EXCEPT ![c] = @ + 1] /\ GotoRunner(b, "free")
      BY <1>16, <2>2 DEF Cas
    <3>2. \A a \in Behaviors : \A d \in Targets(a) : ReleasedOK(a, d)'
      BY <2>1, <3>1, ServeKeeps
    <3> QED
      BY <2>1, <3>1, <3>2 DEF GotoRunner
  <2>3. CASE last[c] # b
    <3>1. UNCHANGED served /\ GotoRunner(b, "await")
      BY <1>16, <2>3 DEF Cas
    <3> QED
      BY <2>1, <3>1 DEF GotoRunner
  <2> QED
    BY <2>2, <2>3
<1>17. ASSUME NEW b \in Behaviors, NEW c \in Cowns, Await(b, c) PROVE RunnerInv'
  <2>1. PICK pc \in {"cas", "handoff"} :
          /\ runner' = [runner EXCEPT ![b] = pc]
          /\ pc = "handoff" => next[b][c] # Null
    BY <1>17 DEF Await, GotoRunner
  <2>2. runner[b] \in {"release", "await"} /\ Releasing(b, c) /\ UNCHANGED <<left, next, ticket, served>>
    BY <1>17 DEF Await
  <2>3. \A d \in Cowns : Releasing(b, d) => d = c
    BY <2>2, FirstIsUnique
  <2>4. \A a \in Behaviors : \A d \in Targets(a) : Released(a, d)' <=> Released(a, d)
    BY <2>1, <2>2
  <2>5. \A a \in Behaviors : \A d \in Targets(a) : ReleasedOK(a, d)'
    BY <2>2, <2>4
  <2> QED
    BY <2>1, <2>2, <2>3, <2>5
<1>18. ASSUME NEW b \in Behaviors, NEW c \in Cowns, Handoff(b, c) PROVE RunnerInv'
  <2>1. PICK pc \in {"free", "dispatch"} : GotoRunner(b, pc)
    BY <1>18 DEF Handoff
  <2>2. /\ UNCHANGED <<left, next, ticket>> /\ Releasing(b, c) /\ runner[b] = "handoff"
        /\ served' = [served EXCEPT ![c] = @ + 1]
    BY <1>18 DEF Handoff
  <2>3. \A a \in Behaviors : \A d \in Targets(a) : ReleasedOK(a, d)'
    BY <2>1, <2>2, ServeKeeps
  <2>4. ASSUME NEW a \in Behaviors, NEW d \in Cowns,
               runner'[a] \in {"handoff", "dispatch"}, Releasing(a, d)'
        PROVE  next'[a][d] # Null
    <3>1. runner[a] \in {"handoff", "dispatch"} /\ Releasing(a, d)
      BY <2>1, <2>2, <2>4 DEF GotoRunner
    <3> QED
      BY <2>2, <3>1
  <2> QED
    BY <2>3, <2>4
<1>19. ASSUME NEW b \in Behaviors, NEW c \in Cowns, RunnerDispatch(b, c) PROVE RunnerInv'
  <2> DEFINE n == next[b][c]
  <2>1. n \in Behaviors /\ n # b /\ runner[n] = "none" /\ runner[b] = "dispatch"
    BY <1>19 DEF RunnerDispatch, CountInv, DispatchOK
  <2>2. UNCHANGED <<left, next, ticket, served>> /\ Releasing(b, c)
    BY <1>19 DEF RunnerDispatch
  <2>3. \A a \in Behaviors : runner'[a] = IF a = b THEN "free" ELSE IF a = n THEN "ready" ELSE runner[a]
    BY <1>19, <2>1 DEF RunnerDispatch
  <2> HIDE DEF n
  <2>4. \A a \in Behaviors : \A d \in Targets(a) : Released(a, d)' <=> Released(a, d)
    BY <2>1, <2>2, <2>3
  <2>5. \A a \in Behaviors : \A d \in Targets(a) : ReleasedOK(a, d)'
    BY <2>2, <2>4
  <2> QED
    BY <2>2, <2>3, <2>5
<1>20. ASSUME NEW b \in Behaviors, NEW c \in Cowns, Free(b, c) PROVE RunnerInv'
  BY <1>20, FirstIsUnique, TargetsFinite DEF Free, GotoRunner, DropRequest
<1>21. ASSUME NEW b \in Behaviors, End(b) PROVE RunnerInv'
  BY <1>21 DEF End, GotoRunner
<1>22. CASE Finished
  BY <1>22 DEF Finished, vars
<1> QED
  BY <1>1, <1>2, <1>3, <1>4, <1>5, <1>6, <1>7, <1>8, <1>9, <1>10, <1>11, <1>12, <1>13, <1>14, <1>15, <1>16, <1>17, <1>18, <1>19, <1>20, <1>21, <1>22
     DEF Next, CallerStep, RunnerStep

\* Phase 2 visits every request again.
LEMMA AdvanceScheduled ==
    ASSUME IInv, NEW b \in Behaviors, NEW c \in Cowns, Advance(b, c),
           UNCHANGED scheduled
    PROVE  ScheduledInv'
<1>1. /\ \A a \in Behaviors : a # b => caller'[a] = caller[a] /\ todo'[a] = todo[a]
      /\ caller'[b] = "link" \/ (caller'[b] = "finish" /\ todo'[b] = Targets(b))
  BY DEF Advance, GotoCaller, IInv, TypeOK
<1> QED
  BY <1>1 DEF IInv, ScheduledInv, Mid

\* Every step keeps the marks of phase 2 in line with the callers.
LEMMA ScheduledStep ==
    ASSUME IInv, Next
    PROVE  ScheduledInv'
<1> USE DEF IInv, TypeOK, ScheduledInv, Mid, Linking, IsFirst, memory, threads, history
<1>1. ASSUME NEW b \in Behaviors, Create(b) PROVE ScheduledInv'
  BY <1>1 DEF Create, GotoCaller
<1>2. ASSUME NEW b \in Behaviors, NEW c \in Cowns, Exchange(b, c) PROVE ScheduledInv'
  BY <1>2 DEF Exchange, GotoCaller, Swing
<1>3. ASSUME NEW b \in Behaviors, NEW c \in Cowns, First(b, c) PROVE ScheduledInv'
  <2>1. count[b] > 1
    BY <1>3, CountPositive DEF First
  <2> QED
    BY <1>3, <2>1, AdvanceScheduled DEF First, ResolvesLast
<1>4. ASSUME NEW b \in Behaviors, NEW c \in Cowns, Hold(b, c) PROVE ScheduledInv'
  BY <1>4 DEF Hold, GotoCaller
<1>5. ASSUME NEW b \in Behaviors, NEW c \in Cowns, Publish(b, c) PROVE ScheduledInv'
  BY <1>5 DEF Publish, GotoCaller
<1>6. ASSUME NEW b \in Behaviors, Incref(b) PROVE ScheduledInv'
  BY <1>6 DEF Incref, GotoCaller
<1>7. ASSUME NEW b \in Behaviors, NEW c \in Cowns, Spin(b, c) PROVE ScheduledInv'
  BY <1>7 DEF Spin, GotoCaller
<1>8. ASSUME NEW b \in Behaviors, NEW c \in Cowns, Drop(b, c) PROVE ScheduledInv'
  BY <1>8, AdvanceScheduled DEF Drop
<1>9. ASSUME NEW b \in Behaviors, NEW c \in Cowns, Finish(b, c) PROVE ScheduledInv'
  BY <1>9, TargetsFinite DEF Finish, GotoCaller
<1>10. ASSUME NEW b \in Behaviors, Final(b) PROVE ScheduledInv'
  BY <1>10 DEF Final, GotoCaller, Resolve, ResolvesLast
<1>11. ASSUME NEW b \in Behaviors, CallerDispatch(b) PROVE ScheduledInv'
  BY <1>11 DEF CallerDispatch, GotoCaller, Advance, GotoRunner, CountInv, PhaseOK
<1>12. ASSUME NEW b \in Behaviors, Return(b) PROVE ScheduledInv'
  BY <1>12 DEF Return, GotoCaller
<1>13. ASSUME NEW b \in Behaviors, Start(b) PROVE ScheduledInv'
  BY <1>13 DEF Start, GotoRunner
<1>14. ASSUME NEW b \in Behaviors, EndBody(b) PROVE ScheduledInv'
  BY <1>14 DEF EndBody, GotoRunner
<1>15. ASSUME NEW b \in Behaviors, NEW c \in Cowns, ReadNext(b, c) PROVE ScheduledInv'
  BY <1>15 DEF ReadNext, GotoRunner
<1>16. ASSUME NEW b \in Behaviors, NEW c \in Cowns, Cas(b, c) PROVE ScheduledInv'
  BY <1>16 DEF Cas, GotoRunner
<1>17. ASSUME NEW b \in Behaviors, NEW c \in Cowns, Await(b, c) PROVE ScheduledInv'
  BY <1>17 DEF Await, GotoRunner
<1>18. ASSUME NEW b \in Behaviors, NEW c \in Cowns, Handoff(b, c) PROVE ScheduledInv'
  BY <1>18 DEF Handoff, GotoRunner, Resolve, ResolvesLast
<1>19. ASSUME NEW b \in Behaviors, NEW c \in Cowns, RunnerDispatch(b, c) PROVE ScheduledInv'
  BY <1>19 DEF RunnerDispatch
<1>20. ASSUME NEW b \in Behaviors, NEW c \in Cowns, Free(b, c) PROVE ScheduledInv'
  BY <1>20 DEF Free, GotoRunner, DropRequest
<1>21. ASSUME NEW b \in Behaviors, End(b) PROVE ScheduledInv'
  BY <1>21 DEF End, GotoRunner
<1>22. CASE Finished
  BY <1>22 DEF Finished, vars
<1> QED
  BY <1>1, <1>2, <1>3, <1>4, <1>5, <1>6, <1>7, <1>8, <1>9, <1>10, <1>11, <1>12, <1>13, <1>14, <1>15, <1>16, <1>17, <1>18, <1>19, <1>20, <1>21, <1>22
     DEF Next, CallerStep, RunnerStep

\* What is owed depends on the history, and on the caller only at "first".
LEMMA OwedSame ==
    ASSUME NEW b \in Behaviors, UNCHANGED <<ticket, served>>,
           caller[b] = "first" <=> caller'[b] = "first",
           caller[b] = "first" => todo'[b] = todo[b]
    PROVE  Owed(b)' = Owed(b)
  BY DEF Owed, Linking

\* count stays right when neither it nor what it depends on changes.
LEMMA CountSame ==
    ASSUME NEW b \in Behaviors, CountOK(b), Owed(b)' = Owed(b),
           count'[b] = count[b], caller[b] = "idle" <=> caller'[b] = "idle",
           Held(b)' <=> Held(b)
    PROVE  CountOK(b)'
  BY DEF CountOK

\* The steps of a caller that resolve nothing.
LEMMA QuietCaller ==
    ASSUME IInv, NEW b \in Behaviors,
           UNCHANGED <<count, ticket, served, runner, left>>,
           caller[b] \in (Mid \ {"first"}) \cup {"link", "finish"},
           caller'[b] \in (Mid \ {"first"}) \cup {"link", "finish", "final"},
           caller'[b] = "final" => todo'[b] = {},
           \A a \in Behaviors : a # b => caller'[a] = caller[a] /\ todo'[a] = todo[a],
           \A a \in Behaviors : \A d \in Cowns :
               runner[a] = "dispatch" /\ Releasing(a, d) => next'[a][d] = next[a][d]
    PROVE  CountInv'
<1>1. ASSUME NEW a \in Behaviors PROVE CountOK(a)' /\ PhaseOK(a)'
  <2>1. CountOK(a) /\ PhaseOK(a)
    BY DEF IInv, CountInv
  <2>2. Owed(a)' = Owed(a)
    BY OwedSame DEF Mid
  <2>3. Held(a)' <=> Held(a)
    BY DEF Held, Mid
  <2>4. CountOK(a)'
    BY <2>1, <2>2, <2>3, CountSame DEF Mid
  <2> QED
    BY <2>1, <2>4 DEF PhaseOK, Mid
<1>2. ASSUME NEW a \in Behaviors, NEW d \in Cowns PROVE DispatchOK(a, d)'
  <2>1. DispatchOK(a, d)
    BY DEF IInv, CountInv
  <2>2. \A e \in Behaviors : \A f \in Cowns : Releasing(e, f)' <=> Releasing(e, f)
    BY DEF Releasing
  <2>3. runner[a] = "dispatch" /\ Releasing(a, d) => next[a][d] # b
    BY <2>1 DEF DispatchOK, Mid
  <2>4. runner[a] = "dispatch" /\ Releasing(a, d) => next[a][d] \in Behaviors
    BY DEF IInv, RunnerInv, TypeOK
  <2> QED
    BY <2>1, <2>2, <2>3, <2>4 DEF DispatchOK
<1> QED
  BY <1>1, <1>2 DEF CountInv

\* The steps of a runner that resolve nothing.
LEMMA QuietRunner ==
    ASSUME IInv, NEW b \in Behaviors,
           UNCHANGED <<count, ticket, served, caller, todo, next>>,
           runner[b] # "none", runner'[b] \notin {"none", "dispatch"},
           \A a \in Behaviors : a # b => runner'[a] = runner[a] /\ left'[a] = left[a]
    PROVE  CountInv'
<1>1. ASSUME NEW a \in Behaviors PROVE CountOK(a)' /\ PhaseOK(a)'
  <2>1. CountOK(a) /\ PhaseOK(a)
    BY DEF IInv, CountInv
  <2>2. Owed(a)' = Owed(a)
    BY OwedSame
  <2>3. CountOK(a)'
    BY <2>1, <2>2, CountSame DEF Held
  <2> QED
    BY <2>1, <2>3 DEF PhaseOK
<1>2. ASSUME NEW a \in Behaviors, NEW d \in Cowns PROVE DispatchOK(a, d)'
  <2>1. DispatchOK(a, d)
    BY DEF IInv, CountInv
  <2>2. \A e \in Behaviors : \A f \in Cowns :
           runner'[e] = "dispatch" /\ Releasing(e, f)'
               => runner[e] = "dispatch" /\ Releasing(e, f)
    BY DEF Releasing
  <2>3. runner[a] = "dispatch" /\ Releasing(a, d) => next[a][d] # b
    BY <2>1 DEF DispatchOK
  <2>4. runner[a] = "dispatch" /\ Releasing(a, d) => next[a][d] \in Behaviors
    BY DEF IInv, RunnerInv, TypeOK
  <2> QED
    BY <2>1, <2>2, <2>3, <2>4 DEF DispatchOK
<1> QED
  BY <1>1, <1>2 DEF CountInv

\* Steps that add no dispatcher and do not touch a behavior about to be
\* dispatched.
LEMMA DispatchKept ==
    ASSUME IInv, UNCHANGED <<next, left>>,
           \A a \in Behaviors : runner'[a] = "dispatch" => runner[a] = "dispatch",
           \A n \in Behaviors :
               count[n] = 0 /\ runner[n] = "none" /\ caller[n] \in {"return", "done"}
               => count'[n] = 0 /\ runner'[n] = "none" /\ caller'[n] \in {"return", "done"}
    PROVE  \A a \in Behaviors : \A d \in Cowns : DispatchOK(a, d)'
<1> SUFFICES ASSUME NEW a \in Behaviors, NEW d \in Cowns
             PROVE  DispatchOK(a, d)'
  OBVIOUS
<1>1. DispatchOK(a, d)
  BY DEF IInv, CountInv
<1>2. \A e \in Behaviors : \A f \in Cowns : Releasing(e, f)' <=> Releasing(e, f)
  BY DEF Releasing
<1>3. runner[a] = "dispatch" /\ Releasing(a, d) => next[a][d] \in Behaviors
  BY DEF IInv, RunnerInv, TypeOK
<1> QED
  BY <1>1, <1>2, <1>3 DEF DispatchOK

\* Nothing of what it speaks about changes.
LEMMA QuietStep ==
    ASSUME IInv, UNCHANGED <<count, next, caller, todo, runner, left, ticket, served>>
    PROVE  CountInv'
<1>1. ASSUME NEW a \in Behaviors PROVE CountOK(a)' /\ PhaseOK(a)'
  <2>1. CountOK(a) /\ PhaseOK(a)
    BY DEF IInv, CountInv
  <2>2. Owed(a)' = Owed(a)
    BY OwedSame
  <2>3. CountOK(a)'
    BY <2>1, <2>2, CountSame DEF Held
  <2> QED
    BY <2>1, <2>3 DEF PhaseOK
<1>2. \A a \in Behaviors : \A d \in Cowns : DispatchOK(a, d)'
  BY DispatchKept
<1> QED
  BY <1>1, <1>2 DEF CountInv

\* Every step keeps count equal to what is owed, and lets only the one that
\* took it to zero dispatch.
LEMMA CountStep ==
    ASSUME IInv, Next
    PROVE  CountInv'
<1> USE DEF memory, threads, history
<1>1. ASSUME NEW b \in Behaviors, Create(b) PROVE CountInv'
  <2>1. \A c \in Targets(b) : ticket[b][c] = 0
    BY <1>1 DEF Create, IInv, TicketInv, Unlinked
  <2>2. Owed(b)' = Targets(b)
    BY <1>1, <2>1 DEF Create, Owed
  <2>3. /\ caller'[b] = "link" /\ count'[b] = Cardinality(Targets(b)) + 1
        /\ \A a \in Behaviors : a # b => caller'[a] = caller[a] /\ todo'[a] = todo[a]
                                         /\ count'[a] = count[a]
    BY <1>1, TargetsFinite DEF Create, GotoCaller, IInv, TypeOK
  <2>4. \A a \in Behaviors : CountOK(a)'
    <3>1. CountOK(b)'
      BY <2>2, <2>3 DEF CountOK, Held
    <3>2. ASSUME NEW a \in Behaviors, a # b PROVE CountOK(a)'
      <4>1. Owed(a)' = Owed(a)
        BY <1>1, <2>3, <3>2, OwedSame DEF Create
      <4> QED
        BY <2>3, <3>2, <4>1, CountSame DEF IInv, CountInv, Held
    <3> QED
      BY <3>1, <3>2
  <2>5. runner[b] = "none" /\ UNCHANGED <<runner, left, next>>
    BY <1>1 DEF Create, IInv, CountInv, PhaseOK
  <2>6. \A a \in Behaviors : PhaseOK(a)'
    BY <2>3, <2>5 DEF PhaseOK, IInv, CountInv
  <2>7. ASSUME NEW a \in Behaviors, NEW d \in Cowns PROVE DispatchOK(a, d)'
    <3>1. DispatchOK(a, d)
      BY DEF IInv, CountInv
    <3>2. runner[a] = "dispatch" /\ Releasing(a, d) =>
             next[a][d] \in Behaviors /\ next[a][d] # b
      BY <1>1, <3>1 DEF Create, DispatchOK, IInv, RunnerInv, TypeOK
    <3>3. \A e \in Behaviors : \A f \in Cowns : Releasing(e, f)' <=> Releasing(e, f)
      BY <2>5 DEF Releasing
    <3> QED
      BY <2>3, <2>5, <3>1, <3>2, <3>3 DEF DispatchOK
  <2> QED
    BY <2>4, <2>6, <2>7 DEF CountInv
<1>2. ASSUME NEW b \in Behaviors, NEW c \in Cowns, Exchange(b, c) PROVE CountInv'
  <2>1. /\ caller'[b] = IF last[c] = Null THEN "first" ELSE "hold"
        /\ \A a \in Behaviors : a # b => caller'[a] = caller[a]
        /\ UNCHANGED <<count, next, todo, runner, left, served>>
        /\ caller[b] = "link" /\ c \in todo[b] /\ c \in Targets(b)
        /\ \A d \in Cowns : Linking(b, d) => d = c
    BY <1>2, FirstIsUnique DEF Exchange, GotoCaller, Linking, IsFirst, IInv, TypeOK, TicketInv
  <2>2. /\ ticket[b][c] = 0
        /\ ticket'[b][c] = tail[c] + 1
        /\ \A a \in Behaviors : \A d \in Cowns :
              a # b \/ d # c => ticket'[a][d] = ticket[a][d]
    BY <1>2, <2>1 DEF Exchange, IInv, TypeOK, TicketInv, Unlinked
  <2>3. last[c] # Null => tail[c] + 1 > served[c] + 1
    BY DEF IInv, QueueInv, EndOK, TypeOK
  <2>4. Linking(b, c)' /\ \A d \in Cowns : Linking(b, d)' => d = c
    BY <1>2, <2>1 DEF Exchange, Linking
  <2>5. \A a \in Behaviors : Owed(a)' = Owed(a)
    <3>1. ASSUME NEW a \in Behaviors, a # b PROVE Owed(a)' = Owed(a)
      BY <2>1, <2>2, <3>1, TargetsFinite DEF Owed, Linking
    <3>2. ASSUME NEW d \in Targets(b) PROVE d \in Owed(b)' <=> d \in Owed(b)
      <4>1. CASE d = c
        <5>1. d \in Owed(b)
          BY <2>1, <2>2, <4>1 DEF Owed
        <5>2. d \in Owed(b)'
          BY <2>1, <2>2, <2>3, <2>4, <4>1 DEF Owed
        <5> QED
          BY <5>1, <5>2
      <4>2. CASE d # c
        BY <2>1, <2>2, <2>4, <4>2, TargetsFinite DEF Owed
      <4> QED
        BY <4>1, <4>2
    <3>3. Owed(b) \subseteq Targets(b) /\ Owed(b)' \subseteq Targets(b)
      BY DEF Owed
    <3> QED
      BY <3>1, <3>2, <3>3
  <2>6. ASSUME NEW a \in Behaviors PROVE CountOK(a)' /\ PhaseOK(a)'
    <3>1. CountOK(a) /\ PhaseOK(a)
      BY DEF IInv, CountInv
    <3>2. Held(a)' <=> Held(a)
      BY <2>1 DEF Held, Mid
    <3>3. CountOK(a)'
      BY <2>1, <2>5, <3>1, <3>2, CountSame
    <3> QED
      BY <2>1, <3>1, <3>3 DEF PhaseOK
  <2>7. \A a \in Behaviors : \A d \in Cowns : DispatchOK(a, d)'
    BY <2>1, DispatchKept
  <2> QED
    BY <2>6, <2>7 DEF CountInv
<1>3. ASSUME NEW b \in Behaviors, NEW c \in Cowns, First(b, c) PROVE CountInv'
  <2>1. count[b] > 1 /\ count[b] \in Nat
    BY <1>3, CountPositive DEF First, IInv, TypeOK
  <2>2. Resolve(b) /\ Advance(b, c) /\ Linking(b, c) /\ caller[b] = "first"
    BY <1>3, <2>1 DEF First, ResolvesLast
  <2>3. /\ caller'[b] \in {"link", "finish"}
        /\ \A a \in Behaviors : a # b => /\ caller'[a] = caller[a]
                                         /\ todo'[a] = todo[a]
                                         /\ count'[a] = count[a]
        /\ count'[b] = count[b] - 1
        /\ UNCHANGED <<next, runner, left, ticket, served>>
        /\ c \in Targets(b)
    BY <1>3, <2>2
       DEF First, Resolve, Advance, GotoCaller, Linking, IsFirst, IInv, TypeOK, TicketInv
  <2>9. \A d \in Cowns : Linking(b, d) => d = c
    BY <2>2, FirstIsUnique DEF Linking, IInv, TypeOK
  <2>4. ticket[b][c] = served[c] + 1 /\ served[c] \in Nat
    BY <2>2 DEF IInv, QueueInv, LinkerOK, TypeOK
  <2>5. Owed(b)' = Owed(b) \ {c} /\ c \in Owed(b)
    <3>1. ASSUME NEW d \in Targets(b) PROVE d \in Owed(b)' <=> d \in Owed(b) /\ d # c
      BY <2>2, <2>3, <2>4, <2>9, TargetsFinite DEF Owed
    <3>2. c \in Owed(b)
      BY <2>2, <2>3 DEF Owed
    <3>3. Owed(b) \subseteq Targets(b) /\ Owed(b)' \subseteq Targets(b)
      BY DEF Owed
    <3> QED
      BY <3>1, <3>2, <3>3
  <2>6. Cardinality(Owed(b)') = Cardinality(Owed(b)) - 1 /\ Cardinality(Owed(b)) \in Nat
    BY <2>5, OwedRemove, OwedFinite
  <2>7. ASSUME NEW a \in Behaviors PROVE CountOK(a)' /\ PhaseOK(a)'
    <3>1. CountOK(a) /\ PhaseOK(a)
      BY DEF IInv, CountInv
    <3>2. CASE a = b
      <4>1. CountOK(b)'
        BY <2>1, <2>2, <2>3, <2>6, <3>1, <3>2 DEF CountOK, Held, Mid
      <4> QED
        BY <2>2, <2>3, <3>1, <3>2, <4>1 DEF PhaseOK
    <3>3. CASE a # b
      <4>1. Owed(a)' = Owed(a)
        BY <2>3, <3>3, OwedSame
      <4>2. CountOK(a)'
        BY <2>3, <3>1, <3>3, <4>1, CountSame DEF Held
      <4> QED
        BY <2>3, <3>1, <3>3, <4>2 DEF PhaseOK
    <3> QED
      BY <3>2, <3>3
  <2>8. \A a \in Behaviors : \A d \in Cowns : DispatchOK(a, d)'
    BY <2>2, <2>3, DispatchKept
  <2> QED
    BY <2>7, <2>8 DEF CountInv
<1>4. ASSUME NEW b \in Behaviors, NEW c \in Cowns, Hold(b, c) PROVE CountInv'
  <2>1. caller'[b] \in Mid \ {"first"} /\ \A a \in Behaviors : a # b => caller'[a] = caller[a]
    BY <1>4 DEF Hold, GotoCaller, Mid, IInv, TypeOK
  <2> QED
    BY <1>4, <2>1, QuietCaller DEF Hold, Mid
<1>5. ASSUME NEW b \in Behaviors, NEW c \in Cowns, Publish(b, c) PROVE CountInv'
  <2>1. caller'[b] = "incref" /\ \A a \in Behaviors : a # b => caller'[a] = caller[a]
    BY <1>5 DEF Publish, GotoCaller, IInv, TypeOK
  <2>2. prev[b] \in Behaviors /\ next[prev[b]][c] = Null
    BY <1>5 DEF Publish, IInv, QueueInv, LinkerOK, Mid, TypeOK
  <2>3. \A a \in Behaviors : \A d \in Cowns :
           next'[a][d] # next[a][d] => a = prev[b] /\ d = c
    BY <1>5, <2>2 DEF Publish, IInv, TypeOK
  <2>4. \A a \in Behaviors : \A d \in Cowns :
           runner[a] = "dispatch" /\ Releasing(a, d) => next[a][d] # Null
    BY DEF IInv, RunnerInv
  <2> QED
    BY <1>5, <2>1, <2>2, <2>3, <2>4, QuietCaller DEF Publish, Mid
<1>6. ASSUME NEW b \in Behaviors, Incref(b) PROVE CountInv'
  <2>1. caller'[b] \in Mid \ {"first"} /\ \A a \in Behaviors : a # b => caller'[a] = caller[a]
    BY <1>6 DEF Incref, GotoCaller, Mid, IInv, TypeOK
  <2> QED
    BY <1>6, <2>1, QuietCaller DEF Incref, Mid
<1>7. ASSUME NEW b \in Behaviors, NEW c \in Cowns, Spin(b, c) PROVE CountInv'
  <2>1. caller'[b] \in Mid \ {"first"} /\ \A a \in Behaviors : a # b => caller'[a] = caller[a]
    BY <1>7 DEF Spin, GotoCaller, Mid, IInv, TypeOK
  <2> QED
    BY <1>7, <2>1, QuietCaller DEF Spin, Mid
<1>8. ASSUME NEW b \in Behaviors, NEW c \in Cowns, Drop(b, c) PROVE CountInv'
  <2>1. /\ caller'[b] \in {"link", "finish"}
        /\ \A a \in Behaviors : a # b => caller'[a] = caller[a] /\ todo'[a] = todo[a]
    BY <1>8 DEF Drop, Advance, GotoCaller, IInv, TypeOK
  <2> QED
    BY <1>8, <2>1, QuietCaller DEF Drop, Mid
<1>9. ASSUME NEW b \in Behaviors, NEW c \in Cowns, Finish(b, c) PROVE CountInv'
  <2>1. /\ caller'[b] \in {"finish", "final"}
        /\ caller'[b] = "final" => todo'[b] = {}
        /\ \A a \in Behaviors : a # b => caller'[a] = caller[a] /\ todo'[a] = todo[a]
    BY <1>9 DEF Finish, GotoCaller, IInv, TypeOK
  <2> QED
    BY <1>9, <2>1, QuietCaller DEF Finish, Mid
<1>10. ASSUME NEW b \in Behaviors, Final(b) PROVE CountInv'
  <2>1. count[b] > 0 /\ count[b] \in Nat /\ todo[b] = {}
    BY <1>10, CountPositive DEF Final, Held, IInv, TypeOK, CountInv, PhaseOK
  <2>2. /\ caller[b] = "final"
        /\ caller'[b] = IF count[b] = 1 THEN "dispatch" ELSE "return"
        /\ count'[b] = count[b] - 1
        /\ \A a \in Behaviors : a # b => caller'[a] = caller[a] /\ count'[a] = count[a]
        /\ UNCHANGED <<next, todo, runner, left, ticket, served>>
    BY <1>10 DEF Final, Resolve, ResolvesLast, GotoCaller, IInv, TypeOK
  <2>3. ASSUME NEW a \in Behaviors PROVE CountOK(a)' /\ PhaseOK(a)'
    <3>1. CountOK(a) /\ PhaseOK(a) /\ Cardinality(Owed(a)) \in Nat
      BY OwedFinite DEF IInv, CountInv
    <3>2. Owed(a)' = Owed(a)
      BY <2>2, OwedSame
    <3>3. CASE a = b
      <4>1. CountOK(b)'
        BY <2>1, <2>2, <3>1, <3>2, <3>3 DEF CountOK, Held, Mid
      <4> QED
        BY <2>1, <2>2, <3>1, <3>3, <4>1 DEF PhaseOK
    <3>4. CASE a # b
      BY <2>2, <3>1, <3>2, <3>4, CountSame DEF PhaseOK, Held
    <3> QED
      BY <3>3, <3>4
  <2>4. \A a \in Behaviors : \A d \in Cowns : DispatchOK(a, d)'
    BY <2>2, DispatchKept
  <2> QED
    BY <2>3, <2>4 DEF CountInv
<1>11. ASSUME NEW b \in Behaviors, CallerDispatch(b) PROVE CountInv'
  <2>1. /\ todo[b] = {} /\ count[b] = 0 /\ runner[b] = "none" /\ caller[b] = "dispatch"
    BY <1>11 DEF CallerDispatch, IInv, CountInv, PhaseOK
  <2>2. /\ caller'[b] = "return" /\ runner'[b] = "ready"
        /\ \A a \in Behaviors : a # b => caller'[a] = caller[a] /\ runner'[a] = runner[a]
        /\ UNCHANGED <<count, next, todo, left, ticket, served>>
    BY <1>11, <2>1 DEF CallerDispatch, GotoCaller, GotoRunner, IInv, TypeOK
  <2>3. ASSUME NEW a \in Behaviors PROVE CountOK(a)' /\ PhaseOK(a)'
    <3>1. CountOK(a) /\ PhaseOK(a)
      BY DEF IInv, CountInv
    <3>2. Owed(a)' = Owed(a)
      BY <2>1, <2>2, OwedSame
    <3>3. CountOK(a)'
      BY <2>1, <2>2, <3>1, <3>2, CountSame DEF Held, Mid
    <3> QED
      BY <2>1, <2>2, <3>1, <3>3 DEF PhaseOK
  <2>4. \A a \in Behaviors : \A d \in Cowns : DispatchOK(a, d)'
    BY <2>1, <2>2, DispatchKept
  <2> QED
    BY <2>3, <2>4 DEF CountInv
<1>12. ASSUME NEW b \in Behaviors, Return(b) PROVE CountInv'
  <2>1. /\ caller[b] = "return" /\ caller'[b] = "done"
        /\ \A a \in Behaviors : a # b => caller'[a] = caller[a]
        /\ UNCHANGED <<count, next, todo, runner, left, ticket, served>>
    BY <1>12 DEF Return, GotoCaller, IInv, TypeOK
  <2>2. ASSUME NEW a \in Behaviors PROVE CountOK(a)' /\ PhaseOK(a)'
    <3>1. CountOK(a) /\ PhaseOK(a)
      BY DEF IInv, CountInv
    <3>2. Owed(a)' = Owed(a)
      BY <2>1, OwedSame
    <3>3. CountOK(a)'
      BY <2>1, <3>1, <3>2, CountSame DEF Held, Mid
    <3> QED
      BY <2>1, <3>1, <3>3 DEF PhaseOK
  <2>3. \A a \in Behaviors : \A d \in Cowns : DispatchOK(a, d)'
    BY <2>1, DispatchKept
  <2> QED
    BY <2>2, <2>3 DEF CountInv
<1>13. ASSUME NEW b \in Behaviors, Start(b) PROVE CountInv'
  <2>1. /\ runner'[b] \notin {"none", "dispatch"}
        /\ \A a \in Behaviors : a # b => runner'[a] = runner[a] /\ left'[a] = left[a]
    BY <1>13 DEF Start, GotoRunner, IInv, TypeOK
  <2> QED
    BY <1>13, <2>1, QuietRunner DEF Start
<1>14. ASSUME NEW b \in Behaviors, EndBody(b) PROVE CountInv'
  <2>1. /\ runner'[b] \notin {"none", "dispatch"}
        /\ \A a \in Behaviors : a # b => runner'[a] = runner[a] /\ left'[a] = left[a]
    BY <1>14 DEF EndBody, GotoRunner, IInv, TypeOK
  <2> QED
    BY <1>14, <2>1, QuietRunner DEF EndBody
<1>15. ASSUME NEW b \in Behaviors, NEW c \in Cowns, ReadNext(b, c) PROVE CountInv'
  <2>1. /\ runner'[b] \notin {"none", "dispatch"}
        /\ \A a \in Behaviors : a # b => runner'[a] = runner[a] /\ left'[a] = left[a]
    BY <1>15 DEF ReadNext, GotoRunner, IInv, TypeOK
  <2> QED
    BY <1>15, <2>1, QuietRunner DEF ReadNext
<1>16. ASSUME NEW b \in Behaviors, NEW c \in Cowns, Cas(b, c) PROVE CountInv'
  <2>1. /\ runner[b] = "cas" /\ Releasing(b, c) /\ c \in left[b]
        /\ runner'[b] \notin {"none", "dispatch"}
        /\ \A a \in Behaviors : a # b => runner'[a] = runner[a]
        /\ UNCHANGED <<count, next, caller, todo, left, ticket>>
    BY <1>16 DEF Cas, GotoRunner, Releasing, IsFirst, IInv, TypeOK
  <2>2. CASE last[c] # b
    <3>1. UNCHANGED served
      BY <1>16, <2>2 DEF Cas
    <3> QED
      BY <2>1, <3>1, QuietRunner
  <2>3. CASE last[c] = b
    <3>1. /\ served'[c] = served[c] + 1
          /\ \A d \in Cowns : d # c => served'[d] = served[d]
      BY <1>16, <2>3 DEF Cas, IInv, TypeOK
    <3>2. ticket[b][c] = served[c] + 1
      BY <2>1, HolderIsServed DEF Released, IInv, TicketInv
    <3>3. tail[c] = served[c] + 1 /\ served[c] \in Nat
      BY <2>3, <3>2, RequestsAssumption DEF IInv, QueueInv, EndOK, TypeOK
    <3>4. ASSUME NEW a \in Behaviors PROVE Owed(a)' = Owed(a)
      <4>1. \A d \in Cowns : ticket[a][d] \in Nat /\ served[d] \in Nat
        BY DEF IInv, TypeOK
      <4>2. ticket[a][c] <= served[c] + 1
        BY <3>3 DEF IInv, TicketInv
      <4>3. ASSUME NEW d \in Targets(a) PROVE d \in Owed(a)' <=> d \in Owed(a)
        <5>1. d \in Cowns
          BY TargetsFinite
        <5>2. ticket'[a][d] > served'[d] + 1 <=> ticket[a][d] > served[d] + 1
          <6>1. CASE d = c
            BY <2>1, <3>1, <3>3, <4>1, <4>2, <6>1
          <6>2. CASE d # c
            BY <2>1, <3>1, <5>1, <6>2
          <6> QED
            BY <6>1, <6>2
        <5>3. (caller[a] = "first" /\ Linking(a, d))' <=> caller[a] = "first" /\ Linking(a, d)
          BY <2>1 DEF Linking
        <5> QED
          BY <2>1, <5>2, <5>3 DEF Owed
      <4>4. Owed(a) \subseteq Targets(a) /\ Owed(a)' \subseteq Targets(a)
        BY DEF Owed
      <4> QED
        BY <4>3, <4>4
    <3>5. ASSUME NEW a \in Behaviors PROVE CountOK(a)' /\ PhaseOK(a)'
      <4>1. CountOK(a) /\ PhaseOK(a)
        BY DEF IInv, CountInv
      <4>2. CountOK(a)'
        BY <2>1, <3>4, <4>1, CountSame DEF Held
      <4> QED
        BY <2>1, <4>1, <4>2 DEF PhaseOK
    <3>6. \A a \in Behaviors : \A d \in Cowns : DispatchOK(a, d)'
      BY <2>1, DispatchKept
    <3> QED
      BY <3>5, <3>6 DEF CountInv
  <2> QED
    BY <2>2, <2>3
<1>17. ASSUME NEW b \in Behaviors, NEW c \in Cowns, Await(b, c) PROVE CountInv'
  <2>1. /\ runner'[b] \notin {"none", "dispatch"}
        /\ \A a \in Behaviors : a # b => runner'[a] = runner[a] /\ left'[a] = left[a]
    BY <1>17 DEF Await, GotoRunner, IInv, TypeOK
  <2> QED
    BY <1>17, <2>1, QuietRunner DEF Await
<1>18. ASSUME NEW b \in Behaviors, NEW c \in Cowns, Handoff(b, c) PROVE CountInv'
  <2>1. /\ runner[b] = "handoff" /\ Releasing(b, c) /\ c \in left[b]
        /\ UNCHANGED <<next, caller, todo, left, ticket>>
    BY <1>18 DEF Handoff, Releasing, IsFirst
  <2>n. PICK n \in Behaviors : n = next[b][c]
    BY <2>1, HandoffTarget
  <2>2. /\ n # b
        /\ ticket[n][c] = served[c] + 2
        /\ c \in Targets(n) /\ c \in Owed(n)
        /\ count[n] > 0 /\ count[n] \in Nat /\ runner[n] = "none"
        /\ caller[n] \notin {"idle", "dispatch"}
    BY <2>1, <2>n, HandoffTarget DEF Owed, IInv, TypeOK
  <2>3. /\ count'[n] = count[n] - 1
        /\ \A a \in Behaviors : a # n => count'[a] = count[a]
        /\ runner'[b] = IF count[n] = 1 THEN "dispatch" ELSE "free"
        /\ \A a \in Behaviors : a # b => runner'[a] = runner[a]
        /\ served'[c] = served[c] + 1 /\ served[c] \in Nat
        /\ \A d \in Cowns : d # c => served'[d] = served[d]
    BY <1>18, <2>2, <2>n DEF Handoff, Resolve, ResolvesLast, GotoRunner, IInv, TypeOK
  <2>4. \A a \in Behaviors : \A d \in Cowns : ticket[a][d] \in Nat /\ served[d] \in Nat
    BY DEF IInv, TypeOK
  <2>5. \A a \in Behaviors : a # n => ticket[a][c] # served[c] + 2
    BY <2>2, <2>4 DEF IInv, TicketInv
  <2>6. ~(caller[n] = "first" /\ Linking(n, c))
    BY <2>2, <2>4 DEF IInv, QueueInv, LinkerOK
  <2>7. \A a \in Behaviors : \A d \in Cowns :
           (caller[a] = "first" /\ Linking(a, d))' <=> caller[a] = "first" /\ Linking(a, d)
    BY <2>1 DEF Linking
  <2>8. \A a \in Behaviors : Owed(a) \subseteq Targets(a) /\ Owed(a)' \subseteq Targets(a)
    BY DEF Owed
  <2>9. \A a \in Behaviors : \A d \in Cowns : a # n \/ d # c =>
           (ticket'[a][d] > served'[d] + 1 <=> ticket[a][d] > served[d] + 1)
    <3> SUFFICES ASSUME NEW a \in Behaviors, NEW d \in Cowns, a # n \/ d # c
                 PROVE  ticket'[a][d] > served'[d] + 1 <=> ticket[a][d] > served[d] + 1
      OBVIOUS
    <3>1. CASE d = c
      BY <2>1, <2>3, <2>4, <2>5, <3>1
    <3>2. CASE d # c
      BY <2>1, <2>3, <3>2
    <3> QED
      BY <3>1, <3>2
  <2>10. ASSUME NEW a \in Behaviors, NEW d \in Targets(a)
         PROVE  d \in Owed(a)' <=> d \in Owed(a) /\ ~(a = n /\ d = c)
    <3>1. d \in Cowns
      BY TargetsFinite
    <3>2. CASE a = n /\ d = c
      <4>1. ticket'[n][c] # 0 /\ ~(ticket'[n][c] > served'[c] + 1)
        BY <2>1, <2>2, <2>3, <3>1, <3>2
      <4> QED
        BY <2>6, <2>7, <3>1, <3>2, <4>1 DEF Owed
    <3>3. CASE ~(a = n /\ d = c)
      BY <2>1, <2>7, <2>9, <3>1, <3>3 DEF Owed
    <3> QED
      BY <3>2, <3>3
  <2>11. Owed(n)' = Owed(n) \ {c} /\ \A a \in Behaviors : a # n => Owed(a)' = Owed(a)
    BY <2>2, <2>8, <2>10
  <2>12. /\ Cardinality(Owed(n)') = Cardinality(Owed(n)) - 1
         /\ Cardinality(Owed(n)) \in Nat /\ Cardinality(Owed(n)) > 0
    BY <2>2, <2>11, OwedRemove, OwedFinite
  <2>13. count[n] = Cardinality(Owed(n)) + (IF Held(n) THEN 1 ELSE 0)
    BY <2>2 DEF IInv, CountInv, CountOK
  <2>14. ASSUME NEW a \in Behaviors PROVE CountOK(a)' /\ PhaseOK(a)'
    <3>1. CountOK(a) /\ PhaseOK(a)
      BY DEF IInv, CountInv
    <3>2. CASE a = n
      <4>1. Held(n)' <=> Held(n)
        BY <2>1 DEF Held
      <4>2. CountOK(n)'
        BY <2>1, <2>2, <2>3, <2>12, <2>13, <4>1 DEF CountOK
      <4> QED
        BY <2>1, <2>2, <2>3, <3>1, <3>2, <4>2 DEF PhaseOK
    <3>3. CASE a # n
      <4>1. CountOK(a)'
        BY <2>1, <2>3, <2>11, <3>1, <3>3, CountSame DEF Held
      <4>2. a = b => runner[a] # "none"
        BY <2>1
      <4> QED
        BY <2>1, <2>3, <3>1, <3>3, <4>1, <4>2 DEF PhaseOK
    <3> QED
      BY <3>2, <3>3
  <2>15. \A e \in Behaviors : \A f \in Cowns : Releasing(e, f)' <=> Releasing(e, f)
    BY <2>1 DEF Releasing
  <2>16. \A f \in Cowns : Releasing(b, f) => f = c
    BY <2>1, FirstIsUnique DEF Releasing, IInv, TypeOK
  <2>17. \A a \in Behaviors : \A d \in Cowns :
            runner[a] = "dispatch" /\ Releasing(a, d) =>
               next[a][d] # n /\ next[a][d] # b /\ next[a][d] \in Behaviors
    BY <2>1, <2>2 DEF IInv, CountInv, DispatchOK, RunnerInv, TypeOK
  <2>18. count[n] = 1 => caller[n] \in {"return", "done"}
    <3>1. count[n] = 1 => ~Held(n)
      BY <2>12, <2>13
    <3> QED
      BY <2>2, <3>1 DEF Held, Mid, IInv, TypeOK, CallerPCs
  <2>19. ASSUME NEW a \in Behaviors, NEW d \in Cowns PROVE DispatchOK(a, d)'
    <3>1. CASE a = b
      <4>1. runner'[b] = "dispatch" /\ Releasing(b, d) => d = c /\ count[n] = 1
        BY <2>3, <2>16
      <4> QED
        BY <2>1, <2>2, <2>3, <2>15, <2>17, <2>18, <3>1, <4>1, <2>n DEF DispatchOK
    <3>2. CASE a # b
      <4>1. DispatchOK(a, d)
        BY DEF IInv, CountInv
      <4>2. runner'[b] = "dispatch" => \A f \in Cowns : Releasing(b, f) => next[b][f] = n
        BY <2>16, <2>n
      <4> QED
        BY <2>1, <2>2, <2>3, <2>15, <2>17, <3>2, <4>1, <4>2 DEF DispatchOK
    <3> QED
      BY <3>1, <3>2
  <2> QED
    BY <2>14, <2>19 DEF CountInv
<1>19. ASSUME NEW b \in Behaviors, NEW c \in Cowns, RunnerDispatch(b, c) PROVE CountInv'
  <2> DEFINE n == next[b][c]
  <2>1. /\ runner[b] = "dispatch" /\ Releasing(b, c)
        /\ UNCHANGED <<count, next, caller, todo, left, ticket, served>>
    BY <1>19 DEF RunnerDispatch
  <2>2. n \in Behaviors
    BY <2>1 DEF IInv, RunnerInv, TypeOK
  <2>3. /\ count[n] = 0 /\ runner[n] = "none" /\ caller[n] \in {"return", "done"}
        /\ \A a \in Behaviors : \A d \in Cowns :
             runner[a] = "dispatch" /\ Releasing(a, d) /\ next[a][d] = n => a = b
    BY <2>1 DEF IInv, CountInv, DispatchOK
  <2>4. /\ runner'[n] = "ready" /\ runner'[b] = "free" /\ n # b
        /\ \A a \in Behaviors : a # b /\ a # n => runner'[a] = runner[a]
    BY <1>19, <2>1, <2>2, <2>3 DEF RunnerDispatch, IInv, TypeOK
  <2> HIDE DEF n
  <2>5. ASSUME NEW a \in Behaviors PROVE CountOK(a)' /\ PhaseOK(a)'
    <3>1. CountOK(a) /\ PhaseOK(a)
      BY DEF IInv, CountInv
    <3>2. Owed(a)' = Owed(a)
      BY <2>1, OwedSame
    <3>3. CountOK(a)'
      BY <2>1, <3>1, <3>2, CountSame DEF Held
    <3> QED
      BY <2>1, <2>3, <2>4, <3>1, <3>3 DEF PhaseOK
  <2>6. ASSUME NEW a \in Behaviors, NEW d \in Cowns PROVE DispatchOK(a, d)'
    <3>1. DispatchOK(a, d)
      BY DEF IInv, CountInv
    <3>2. \A e \in Behaviors : \A f \in Cowns : Releasing(e, f)' <=> Releasing(e, f)
      BY <2>1 DEF Releasing
    <3>3. \A e \in Behaviors : runner'[e] = "dispatch" =>
             e # b /\ e # n /\ runner[e] = "dispatch"
      BY <2>4
    <3>4. runner[a] = "dispatch" /\ Releasing(a, d) /\ a # b =>
             next[a][d] # n /\ next[a][d] # b /\ next[a][d] \in Behaviors
      BY <2>1, <2>3, <3>1 DEF DispatchOK, IInv, RunnerInv, TypeOK
    <3> QED
      BY <2>1, <2>4, <3>1, <3>2, <3>3, <3>4 DEF DispatchOK
  <2> QED
    BY <2>5, <2>6 DEF CountInv
<1>20. ASSUME NEW b \in Behaviors, NEW c \in Cowns, Free(b, c) PROVE CountInv'
  <2>1. /\ runner'[b] \notin {"none", "dispatch"}
        /\ \A a \in Behaviors : a # b => runner'[a] = runner[a] /\ left'[a] = left[a]
    BY <1>20 DEF Free, GotoRunner, IInv, TypeOK
  <2> QED
    BY <1>20, <2>1, QuietRunner DEF Free
<1>21. ASSUME NEW b \in Behaviors, End(b) PROVE CountInv'
  <2>1. /\ runner'[b] \notin {"none", "dispatch"}
        /\ \A a \in Behaviors : a # b => runner'[a] = runner[a] /\ left'[a] = left[a]
    BY <1>21 DEF End, GotoRunner, IInv, TypeOK
  <2> QED
    BY <1>21, <2>1, QuietRunner DEF End
<1>22. CASE Finished
  <2>1. UNCHANGED <<count, next, caller, todo, runner, left, ticket, served>>
    BY <1>22 DEF Finished, vars
  <2> QED
    BY <2>1, QuietStep
<1> QED
  BY <1>1, <1>2, <1>3, <1>4, <1>5, <1>6, <1>7, <1>8, <1>9, <1>10, <1>11, <1>12, <1>13, <1>14, <1>15, <1>16, <1>17, <1>18, <1>19, <1>20, <1>21, <1>22
     DEF Next, CallerStep, RunnerStep

-----------------------------------------------------------------------------
(***************************************************************************)
(* The invariant, and what follows from it.                                *)
(***************************************************************************)

\* The invariant holds before any behavior is created.
LEMMA InitInv ==
    ASSUME Init
    PROVE  IInv
<1>1. TypeOK
  BY DEF Init, TypeOK, CallerPCs, RunnerPCs
<1>2. TicketInv
  <2>1. \A b \in Behaviors : Targets(b) \subseteq Cowns
    BY TargetsFinite
  <2>2. \A b \in Behaviors : \A c \in Cowns : ticket[b][c] = 0 /\ tail[c] = 0
    BY DEF Init
  <2>3. \A b \in Behaviors : caller[b] = "idle" /\ todo[b] = {} /\ left[b] = {}
    BY DEF Init
  <2> QED
    BY <2>1, <2>2, <2>3 DEF TicketInv, Unlinked
<1>3. QueueInv
  BY DEF Init, QueueInv, EndOK, NextOK, LinkerOK, Mid
<1>4. RunnerInv
  BY TargetsFinite DEF Init, RunnerInv, ReleasedOK
<1>5. CountInv
  BY DEF Init, CountInv, CountOK, PhaseOK, DispatchOK
<1>6. ScheduledInv
  BY DEF Init, ScheduledInv
<1> QED
  BY <1>1, <1>2, <1>3, <1>4, <1>5, <1>6 DEF IInv

\* A step that changes nothing changes no part of the invariant.
LEMMA StutterInv ==
    ASSUME IInv, UNCHANGED vars
    PROVE  IInv'
<1> USE DEF vars, memory, threads, history
<1>1. TypeOK'
  BY DEF IInv, TypeOK
<1>2. TicketInv'
  BY DEF IInv, TicketInv, Unlinked, Linking
<1>3. QueueInv'
  BY DEF IInv, QueueInv, EndOK, NextOK, LinkerOK, Linking
<1>4. RunnerInv'
  BY DEF IInv, RunnerInv, ReleasedOK, Released, Releasing
<1>5. CountInv'
  BY QuietStep
<1>6. ScheduledInv'
  BY DEF IInv, ScheduledInv
<1> QED
  BY <1>1, <1>2, <1>3, <1>4, <1>5, <1>6 DEF IInv

\* The invariant of two-phase locking over MCS queues: tickets, links,
\* counts and marks fit together in every state that schedule and
\* release_all can reach.
THEOREM Invariance == Spec => []IInv
<1>1. Init => IInv
  BY InitInv
<1>2. IInv /\ [Next]_vars => IInv'
  <2> SUFFICES ASSUME IInv, [Next]_vars
               PROVE  IInv'
    OBVIOUS
  <2>1. CASE Next
    BY <2>1, TypeStep, TicketStep, QueueStep, RunnerStepKeeps, CountStep, ScheduledStep
       DEF IInv
  <2>2. CASE UNCHANGED vars
    BY <2>2, StutterInv
  <2> QED
    BY <2>1, <2>2
<1> QED
  BY <1>1, <1>2, PTL DEF Spec

\* The variables keep their types; in particular behavior->count never goes
\* below zero, however the threads that resolve it interleave.
THEOREM TypeCorrect == Spec => []TypeOK
<1>1. IInv => TypeOK
  BY DEF IInv
<1> QED
  BY <1>1, Invariance, PTL

\* Behaviors that share a cown never overlap, from dispatch to the point
\* where release_all hands the cown on.
THEOREM Exclusion == Spec => []MutualExclusion
<1>1. IInv => MutualExclusion
  <2> SUFFICES ASSUME IInv, NEW b1 \in Behaviors, NEW b2 \in Behaviors, NEW c \in Cowns,
                      Owns(b1, c), Owns(b2, c)
               PROVE  b1 = b2
    BY DEF MutualExclusion
  <2>1. ASSUME NEW b \in Behaviors, Owns(b, c)
        PROVE  ticket[b][c] # 0 /\ ticket[b][c] = served[c] + 1
    <3>1. runner[b] # "none" /\ c \in Targets(b) /\ ~Released(b, c)
      BY <2>1 DEF Owns, Released
    <3> QED
      BY <3>1, HolderIsServed
  <2>2. ticket[b1][c] = ticket[b2][c] /\ ticket[b1][c] # 0
    BY <2>1
  <2> QED
    BY <2>2 DEF IInv, TicketInv
<1> QED
  BY <1>1, Invariance, PTL

\* A behavior is dispatched only when it heads every queue it joined and
\* phase 2 has marked all its requests.
THEOREM DispatchIsLate == Spec => []DispatchedWhenGranted
<1>1. IInv => DispatchedWhenGranted
  <2> SUFFICES ASSUME IInv, NEW b \in Behaviors, runner[b] \in {"ready", "running"},
                      NEW c \in Targets(b)
               PROVE  Granted(b, c) /\ scheduled[b][c]
    BY DEF DispatchedWhenGranted
  <2>1. caller[b] \in {"return", "done"}
    BY DEF IInv, CountInv, PhaseOK
  <2>2. ticket[b][c] = served[c] + 1 /\ c \in Cowns
    BY HolderIsServed, TargetsFinite DEF Released
  <2>3. served[c] \in Nat
    BY <2>2 DEF IInv, TypeOK
  <2>4. Granted(b, c)
    BY <2>1, <2>2, <2>3 DEF Granted, Active
  <2>5. scheduled[b][c]
    BY <2>1 DEF IInv, ScheduledInv, Mid
  <2> QED
    BY <2>4, <2>5
<1> QED
  BY <1>1, Invariance, PTL

\* The assertion of request_start_enqueue_inner never fails: the request in
\* front has no successor when a behavior links itself behind it.
THEOREM LinkIsFree == Spec => []PrevIsUnlinked
<1>1. IInv => PrevIsUnlinked
  BY DEF IInv, QueueInv, LinkerOK, PrevIsUnlinked
<1> QED
  BY <1>1, Invariance, PTL

-----------------------------------------------------------------------------
(***************************************************************************)
(* Two more results about CownMCS, for any behaviors, cowns and arguments. *)
(*                                                                         *)
(* The reference counts are right: nothing is freed while somebody is      *)
(* about to touch it, and when all is over nothing is left.                *)
(*                                                                         *)
(* The invariant says what every count stands for.  A request is held by   *)
(* its owner until release_all frees it, and by the successor that is      *)
(* linking itself to it, of which there is one at most.  A behavior is     *)
(* held by its caller, by its runner, and by each request in front of it   *)
(* that is still there - but for the one whose link is out and whose       *)
(* reference is still to be taken, when the successor's own hold keeps     *)
(* that request from being freed.                                          *)
(*                                                                         *)
(* And CownMCS implements BOC: a call of schedule takes effect when its    *)
(* phase 1 ends.  That the mapped queues are queues, and that a behavior   *)
(* enters all of them at the tail, rests on the order in which phase 1     *)
(* ends: in every queue it is the order of the tickets, because nobody     *)
(* gets past the request in front before that one is scheduled.            *)
(***************************************************************************)

\* Where a successor has taken its hold on the request in front.
Touching == {"publish", "incref", "spin", "drop"}

Freed(b, c) == \/ runner[b] \in {"end", "done"}
               \/ runner[b] \notin {"none", "ready", "running"} /\ c \notin left[b]

\* The two holders of a request.
Owned(b, c) == caller[b] # "idle" /\ c \in Targets(b) /\ ~Freed(b, c)
Keeps(x, b, c) == caller[x] \in Touching /\ Linking(x, c) /\ prev[x] = b
Kept(b, c) == \E x \in Behaviors : Keeps(x, b, c)

RcOf(b, c) == rc[b][c] = (IF Owned(b, c) THEN 1 ELSE 0) + (IF Kept(b, c) THEN 1 ELSE 0)
RcOK == \A b \in Behaviors : \A c \in Cowns : RcOf(b, c)

\* A successor is at one request, and behind the one in front once linked.
LinkOf(x) ==
    /\ caller[x] \in Touching \cup {"hold"} => \E c \in Cowns : Linking(x, c)
    /\ \A c \in Cowns :
         caller[x] \in Touching \ {"publish"} /\ Linking(x, c) => next[prev[x]][c] = x
LinkOK == \A x \in Behaviors : LinkOf(x)

\* The cowns on which the request in front holds b.
Ahead(b, c) == \E p \in Behaviors : next[p][c] = b /\ rc[p][c] > 0
Following(b) == {c \in Targets(b) : ~(caller[b] = "incref" /\ Linking(b, c)) /\ Ahead(b, c)}

CallerRef(b) == IF caller[b] \in {"idle", "done"} THEN 0 ELSE 1
RunnerRef(b) == IF runner[b] \in {"none", "done"} THEN 0 ELSE 1

BrcOf(b) == brc[b] = CallerRef(b) + RunnerRef(b) + Cardinality(Following(b))
BrcOK == \A b \in Behaviors : BrcOf(b)

RInv == LinkOK /\ RcOK /\ BrcOK

-----------------------------------------------------------------------------
(***************************************************************************)
(* Consequences.                                                           *)
(***************************************************************************)

LEMMA FollowingFinite ==
    ASSUME NEW b \in Behaviors
    PROVE  /\ IsFiniteSet(Following(b))
           /\ Cardinality(Following(b)) \in Nat
           /\ Cardinality(Following(b)) = 0 <=> Following(b) = {}
<1>1. Following(b) \subseteq Targets(b)
  BY DEF Following
<1> QED
  BY <1>1, TargetsFinite, FS_Subset, FS_CardinalityType, FS_EmptySet

LEMMA FollowingFiniteNext ==
    ASSUME NEW b \in Behaviors
    PROVE  /\ IsFiniteSet(Following(b)')
           /\ Cardinality(Following(b)') \in Nat
<1>1. Following(b)' \subseteq Targets(b)
  BY DEF Following
<1> QED
  BY <1>1, TargetsFinite, FS_Subset, FS_CardinalityType

\* next leads from one ticket to the following one.
LEMMA NextTicket ==
    ASSUME IInv, NEW p \in Behaviors, NEW b \in Behaviors, NEW c \in Cowns, next[p][c] = b
    PROVE  /\ ticket[p][c] \in Nat /\ ticket[p][c] # 0
           /\ ticket[b][c] = ticket[p][c] + 1
<1>1. NextOK(p, c) /\ b # Null
  BY RequestsAssumption DEF IInv, QueueInv
<1>2. ticket[p][c] # 0 /\ ticket[b][c] = ticket[p][c] + 1
  BY <1>1 DEF NextOK
<1>3. ticket[p][c] \in Nat
  BY DEF IInv, TypeOK
<1> QED
  BY <1>2, <1>3

\* A request has one behavior in front.
LEMMA FrontIsUnique ==
    ASSUME IInv, NEW p \in Behaviors, NEW q \in Behaviors, NEW b \in Behaviors,
           NEW c \in Cowns, next[p][c] = b, next[q][c] = b
    PROVE  p = q
<1>1. /\ ticket[p][c] # 0 /\ ticket[b][c] = ticket[p][c] + 1
      /\ ticket[q][c] # 0 /\ ticket[b][c] = ticket[q][c] + 1
  BY RequestsAssumption DEF IInv, QueueInv, NextOK
<1>2. ticket[p][c] \in Nat /\ ticket[q][c] \in Nat
  BY DEF IInv, TypeOK
<1>3. ticket[p][c] = ticket[q][c]
  BY <1>1, <1>2
<1> QED
  BY <1>1, <1>3 DEF IInv, TicketInv

\* The successor that is linking itself is one ticket behind.
LEMMA LinkerIsNext ==
    ASSUME IInv, LinkOK, NEW x \in Behaviors, NEW c \in Cowns,
           caller[x] \in Touching \cup {"hold"}, Linking(x, c)
    PROVE  /\ prev[x] \in Behaviors
           /\ ticket[prev[x]][c] # 0
           /\ ticket[x][c] = ticket[prev[x]][c] + 1
           /\ c \in Targets(x) /\ c \in Targets(prev[x])
           /\ caller[prev[x]] # "idle"
<1>1. prev[x] \in Behaviors
  BY DEF IInv, TypeOK, QueueInv, LinkerOK, Mid, Touching
<1>2. ticket[prev[x]][c] # 0 /\ ticket[x][c] = ticket[prev[x]][c] + 1
  <2>1. CASE caller[x] \in {"hold", "publish"}
    BY <2>1 DEF IInv, QueueInv, LinkerOK
  <2>2. CASE caller[x] \in Touching \ {"publish"}
    <3>1. next[prev[x]][c] = x
      BY <2>2 DEF LinkOK, LinkOf
    <3> QED
      BY <1>1, <3>1, RequestsAssumption DEF IInv, QueueInv, NextOK
  <2> QED
    BY <2>1, <2>2
<1>3. c \in Targets(x)
  BY DEF IInv, TicketInv, Linking, IsFirst
<1>4. c \in Targets(prev[x])
  BY <1>1, <1>2 DEF IInv, TicketInv
<1>5. caller[prev[x]] # "idle"
  BY <1>1, <1>2, <1>4 DEF IInv, TicketInv, Unlinked
<1> QED
  BY <1>1, <1>2, <1>3, <1>4, <1>5

LEMMA LinkerIsUnique ==
    ASSUME IInv, LinkOK, NEW x \in Behaviors, NEW y \in Behaviors, NEW c \in Cowns,
           caller[x] \in Touching \cup {"hold"}, Linking(x, c),
           caller[y] \in Touching \cup {"hold"}, Linking(y, c), prev[x] = prev[y]
    PROVE  x = y
<1>1. ticket[x][c] = ticket[y][c] /\ ticket[x][c] = ticket[prev[x]][c] + 1
      /\ prev[x] \in Behaviors
  BY LinkerIsNext
<1>2. ticket[x][c] # 0
  BY <1>1 DEF IInv, TypeOK
<1> QED
  BY <1>1, <1>2 DEF IInv, TicketInv

\* A request that somebody is linked to, or about to be, has not been freed.
LEMMA FrontIsOwned ==
    ASSUME IInv, LinkOK, NEW x \in Behaviors, NEW c \in Cowns,
           caller[x] = "hold", Linking(x, c)
    PROVE  Owned(prev[x], c)
<1> DEFINE p == prev[x]
<1>1. /\ p \in Behaviors /\ c \in Targets(p) /\ caller[p] # "idle"
      /\ ticket[p][c] # 0 /\ ticket[x][c] = ticket[p][c] + 1
  BY LinkerIsNext
<1>2. ticket[x][c] > served[c] + 1
  BY DEF IInv, QueueInv, LinkerOK
<1>3. ticket[p][c] \in Nat /\ served[c] \in Nat
  BY <1>1 DEF IInv, TypeOK
<1>4. ~(ticket[p][c] <= served[c])
  BY <1>1, <1>2, <1>3
<1>5. ~Released(p, c)
  BY <1>1, <1>4 DEF IInv, RunnerInv, ReleasedOK
<1>6. ~Freed(p, c)
  BY <1>1, <1>5 DEF Freed, Released, IInv, TypeOK, RunnerPCs
<1> QED
  BY <1>1, <1>6 DEF Owned

-----------------------------------------------------------------------------
(***************************************************************************)
(* Steps that take and drop no reference.                                  *)
(***************************************************************************)

SameLocals(x) == caller'[x] = caller[x] /\ todo'[x] = todo[x] /\ prev'[x] = prev[x]

\* x neither begins nor ends to touch the request in front.
SameTouch(x) ==
    /\ caller'[x] \in Touching <=> caller[x] \in Touching
    /\ caller[x] \in Touching => todo'[x] = todo[x] /\ prev'[x] = prev[x]

SameOwner(x) ==
    /\ caller'[x] = "idle" <=> caller[x] = "idle"
    /\ \A c \in Targets(x) : Freed(x, c)' <=> Freed(x, c)

SameRefs(x) == CallerRef(x)' = CallerRef(x) /\ RunnerRef(x)' = RunnerRef(x)

SameFollowing(x) ==
    /\ caller'[x] = "incref" <=> caller[x] = "incref"
    /\ caller[x] = "incref" => todo'[x] = todo[x]
    /\ \A p \in Behaviors : \A c \in Cowns :
         next[p][c] = x => (rc'[p][c] > 0 <=> rc[p][c] > 0)

LEMMA KeptSame ==
    ASSUME \A x \in Behaviors : SameTouch(x), NEW b \in Behaviors, NEW c \in Cowns
    PROVE  Kept(b, c)' <=> Kept(b, c)
<1>1. ASSUME NEW x \in Behaviors PROVE Keeps(x, b, c)' <=> Keeps(x, b, c)
  BY DEF Keeps, SameTouch, Linking
<1> QED
  BY <1>1 DEF Kept

LEMMA RcSame ==
    ASSUME RcOK, UNCHANGED rc, \A x \in Behaviors : SameTouch(x) /\ SameOwner(x)
    PROVE  RcOK'
<1>1. ASSUME NEW b \in Behaviors, NEW c \in Cowns PROVE RcOf(b, c)'
  <2>1. Kept(b, c)' <=> Kept(b, c)
    BY KeptSame
  <2>2. Owned(b, c)' <=> Owned(b, c)
    BY DEF Owned, SameOwner
  <2> QED
    BY <2>1, <2>2 DEF RcOK, RcOf
<1> QED
  BY <1>1 DEF RcOK

LEMMA FollowingSame ==
    ASSUME NEW x \in Behaviors, UNCHANGED next, SameFollowing(x)
    PROVE  Following(x)' = Following(x)
<1>1. ASSUME NEW c \in Targets(x)
      PROVE  /\ Ahead(x, c)' <=> Ahead(x, c)
             /\ (caller[x] = "incref" /\ Linking(x, c))' <=> (caller[x] = "incref" /\ Linking(x, c))
  <2>1. c \in Cowns
    BY TargetsFinite
  <2> QED
    BY <2>1 DEF Ahead, SameFollowing, Linking
<1> QED
  BY <1>1 DEF Following

\* Whose references change is seen to apart.
LEMMA BrcRest ==
    ASSUME BrcOK, NEW S \in SUBSET Behaviors, \A x \in S : BrcOf(x)',
           \A x \in Behaviors \ S : /\ brc'[x] = brc[x] /\ SameRefs(x)
                                    /\ Following(x)' = Following(x)
    PROVE  BrcOK'
<1>1. ASSUME NEW x \in Behaviors \ S PROVE BrcOf(x)'
  BY <1>1 DEF BrcOK, BrcOf, SameRefs
<1> QED
  BY <1>1 DEF BrcOK

LEMMA QuietRefs ==
    ASSUME RcOK, BrcOK, UNCHANGED <<next, rc, brc>>,
           \A x \in Behaviors : /\ SameTouch(x) /\ SameOwner(x) /\ SameRefs(x)
                                /\ SameFollowing(x)
    PROVE  RcOK' /\ BrcOK'
<1>1. RcOK'
  BY RcSame
<1>2. \A x \in Behaviors : Following(x)' = Following(x)
  BY FollowingSame
<1>3. BrcOK'
  BY <1>2 DEF BrcOK, BrcOf, SameRefs
<1> QED
  BY <1>1, <1>3

-----------------------------------------------------------------------------
(***************************************************************************)
(* The links of those who are linking themselves.                          *)
(***************************************************************************)

LEMMA AdvanceMoves ==
    ASSUME TypeOK, NEW b \in Behaviors, NEW c \in Cowns, Advance(b, c)
    PROVE  /\ caller'[b] \in {"link", "finish"}
           /\ \A x \in Behaviors \ {b} : caller'[x] = caller[x] /\ todo'[x] = todo[x]
BY DEF Advance, GotoCaller, TypeOK

\* One caller moves and no link changes.
LEMMA LinkRest ==
    ASSUME LinkOK, UNCHANGED next, NEW b \in Behaviors, LinkOf(b)',
           \A x \in Behaviors \ {b} : SameLocals(x)
    PROVE  LinkOK'
<1>1. ASSUME NEW x \in Behaviors \ {b} PROVE LinkOf(x)'
  BY <1>1 DEF LinkOK, LinkOf, SameLocals, Linking
<1> QED
  BY <1>1 DEF LinkOK

LEMMA LinkStep ==
    ASSUME IInv, LinkOK, Next
    PROVE  LinkOK'
<1>t. TypeOK
  BY DEF IInv
<1>1. ASSUME NEW b \in Behaviors, NEW c \in Cowns, Exchange(b, c) PROVE LinkOK'
  <2>1. LinkOf(b)'
    BY <1>1, <1>t DEF Exchange, GotoCaller, TypeOK, LinkOf, Linking, Touching
  <2> QED
    BY <1>1, <1>t, <2>1, LinkRest DEF Exchange, GotoCaller, TypeOK, SameLocals
<1>2. ASSUME NEW b \in Behaviors, NEW c \in Cowns, Hold(b, c) PROVE LinkOK'
  <2>1. LinkOf(b)'
    BY <1>2, <1>t DEF Hold, GotoCaller, TypeOK, LinkOf, LinkOK, Linking, Touching
  <2> QED
    BY <1>2, <1>t, <2>1, LinkRest DEF Hold, GotoCaller, TypeOK, SameLocals
<1>3. ASSUME NEW b \in Behaviors, NEW c \in Cowns, Publish(b, c) PROVE LinkOK'
  <2>1. prev[b] \in Behaviors
    BY <1>3, LinkerIsNext DEF Publish, Touching
  <2>2. next' = [next EXCEPT ![prev[b]][c] = b] /\ UNCHANGED <<prev, todo>>
        /\ caller' = [caller EXCEPT ![b] = "incref"]
    BY <1>3 DEF Publish, GotoCaller
  <2>3. ASSUME NEW d \in Cowns, Linking(b, d) PROVE d = c
    BY <1>3, <1>t, <2>3, FirstIsUnique DEF Publish, Linking, TypeOK
  <2>4. LinkOf(b)'
    <3>1. next'[prev[b]][c] = b
      BY <1>t, <2>1, <2>2 DEF TypeOK
    <3>2. Linking(b, c)
      BY <1>3 DEF Publish
    <3> QED
      BY <1>t, <2>2, <2>3, <3>1, <3>2 DEF LinkOf, Linking, TypeOK
  <2>5. ASSUME NEW x \in Behaviors \ {b} PROVE LinkOf(x)'
    <3>1. LinkOf(x) /\ caller'[x] = caller[x] /\ todo'[x] = todo[x] /\ prev'[x] = prev[x]
      BY <1>t, <2>2 DEF LinkOK, TypeOK
    <3>2. ASSUME NEW d \in Cowns, caller[x] \in Touching \ {"publish"}, Linking(x, d)
          PROVE  next'[prev[x]][d] = x
      <4>1. next[prev[x]][d] = x /\ prev[x] \in Behaviors
        BY <3>1, <3>2, LinkerIsNext DEF LinkOf
      <4>2. ~(prev[x] = prev[b] /\ d = c)
        BY <1>3, <2>5, <3>2, LinkerIsUnique DEF Publish, Touching
      <4> QED
        BY <1>t, <2>1, <2>2, <4>1, <4>2 DEF TypeOK
    <3> QED
      BY <3>1, <3>2 DEF LinkOf, Linking
  <2> QED
    BY <2>4, <2>5 DEF LinkOK
<1>4. ASSUME NEW b \in Behaviors, Incref(b) PROVE LinkOK'
  <2>1. LinkOf(b)'
    BY <1>4, <1>t DEF Incref, GotoCaller, TypeOK, LinkOf, LinkOK, Linking, Touching
  <2> QED
    BY <1>4, <1>t, <2>1, LinkRest DEF Incref, GotoCaller, TypeOK, SameLocals
<1>5. ASSUME NEW b \in Behaviors, NEW c \in Cowns, Spin(b, c) PROVE LinkOK'
  <2>1. LinkOf(b)'
    BY <1>5, <1>t DEF Spin, GotoCaller, TypeOK, LinkOf, LinkOK, Linking, Touching, memory
  <2> QED
    BY <1>5, <1>t, <2>1, LinkRest DEF Spin, GotoCaller, TypeOK, SameLocals, memory
<1>6. ASSUME NEW b \in Behaviors, NEW c \in Cowns, First(b, c) \/ Drop(b, c) PROVE LinkOK'
  <2>1. /\ caller'[b] \in {"link", "finish", "dispatch"}
        /\ \A x \in Behaviors \ {b} : SameLocals(x)
    BY <1>6, <1>t, AdvanceMoves DEF First, Drop, GotoCaller, SameLocals, TypeOK
  <2>2. LinkOf(b)'
    BY <2>1 DEF LinkOf, Touching
  <2> QED
    BY <1>6, <2>1, <2>2, LinkRest DEF First, Drop
<1>7. ASSUME NEW b \in Behaviors, NEW c \in Cowns,
             Create(b) \/ Finish(b, c) \/ Final(b) \/ Return(b)
      PROVE  LinkOK'
  <2>1. /\ caller'[b] \notin Touching \cup {"hold"}
        /\ \A x \in Behaviors \ {b} : SameLocals(x)
    BY <1>7, <1>t DEF Create, Finish, Final, Return, GotoCaller, SameLocals, TypeOK, Touching
  <2>2. LinkOf(b)'
    BY <2>1 DEF LinkOf
  <2> QED
    BY <1>7, <2>1, <2>2, LinkRest DEF Create, Finish, Final, Return
<1>8. ASSUME NEW b \in Behaviors, CallerDispatch(b) PROVE LinkOK'
  <2>1. todo[b] = {}
    BY <1>8 DEF CallerDispatch, IInv, CountInv, PhaseOK
  <2>2. caller' = [caller EXCEPT ![b] = "return"] /\ UNCHANGED <<todo, prev, next>>
    BY <1>8, <2>1 DEF CallerDispatch, GotoCaller
  <2>3. LinkOf(b)'
    BY <1>t, <2>2 DEF LinkOf, Touching, TypeOK
  <2> QED
    BY <1>t, <2>2, <2>3, LinkRest DEF SameLocals, TypeOK
<1>9. ASSUME NEW b \in Behaviors, RunnerStep(b) PROVE LinkOK'
  <2>1. UNCHANGED <<caller, todo, prev, next>>
    BY <1>9 DEF RunnerStep, Start, EndBody, End, ReadNext, Cas, Await, Handoff,
                RunnerDispatch, Free, memory
  <2> QED
    BY <2>1 DEF LinkOK, LinkOf, Linking
<1>10. CASE Finished
  BY <1>10 DEF Finished, vars, memory, threads, LinkOK, LinkOf, Linking
<1> QED
  <2>1. ASSUME NEW b \in Behaviors, CallerStep(b) PROVE LinkOK'
    <3>1. CASE Incref(b) \/ CallerDispatch(b)
      BY <3>1, <1>4, <1>8
    <3>2. CASE Final(b) \/ Return(b)
      <4>1. PICK c : c \in Cowns
        BY RequestsAssumption
      <4> QED BY <3>2, <4>1, <1>7
    <3>3. CASE \E c \in Cowns : \/ Exchange(b, c) \/ First(b, c) \/ Hold(b, c)
                                \/ Publish(b, c) \/ Spin(b, c) \/ Drop(b, c)
                                \/ Finish(b, c)
      BY <3>3, <1>1, <1>2, <1>3, <1>5, <1>6, <1>7
    <3> QED BY <2>1, <3>1, <3>2, <3>3 DEF CallerStep
  <2>2. ASSUME NEW b \in Behaviors, Create(b) PROVE LinkOK'
    <3>1. PICK c : c \in Cowns
      BY RequestsAssumption
    <3> QED BY <2>2, <3>1, <1>7
  <2> QED
    BY <2>1, <2>2, <1>9, <1>10 DEF Next

-----------------------------------------------------------------------------
(***************************************************************************)
(* The counts, one action at a time.                                       *)
(***************************************************************************)

LEMMA QuietRefsStep ==
    ASSUME IInv, RcOK, BrcOK, NEW b \in Behaviors, NEW c \in Cowns,
           \/ Exchange(b, c) \/ First(b, c) \/ Spin(b, c) \/ Finish(b, c) \/ Final(b)
           \/ Start(b) \/ EndBody(b) \/ ReadNext(b, c) \/ Cas(b, c) \/ Await(b, c)
           \/ Handoff(b, c)
    PROVE  RcOK' /\ BrcOK'
<1>t. TypeOK
  BY DEF IInv
<1>1. CASE Exchange(b, c) \/ Finish(b, c) \/ Final(b) \/ Spin(b, c)
  <2>1. /\ UNCHANGED <<next, rc, brc, runner, left>>
        /\ \A x \in Behaviors \ {b} : caller'[x] = caller[x] /\ todo'[x] = todo[x]
                                      /\ prev'[x] = prev[x]
    BY <1>1, <1>t DEF Exchange, Finish, Final, Spin, GotoCaller, TypeOK, memory
  <2>2. /\ caller[b] \in Touching <=> caller'[b] \in Touching
        /\ caller[b] \in Touching => todo'[b] = todo[b] /\ prev'[b] = prev[b]
        /\ caller[b] \notin {"idle", "done", "incref"}
        /\ caller'[b] \notin {"idle", "done", "incref"}
    BY <1>1, <1>t DEF Exchange, Finish, Final, Spin, GotoCaller, TypeOK, Touching, memory
  <2>3. ASSUME NEW x \in Behaviors
        PROVE  SameTouch(x) /\ SameOwner(x) /\ SameRefs(x) /\ SameFollowing(x)
    BY <2>1, <2>2 DEF SameTouch, SameOwner, SameRefs, SameFollowing, CallerRef, RunnerRef,
                      Freed
  <2> QED
    BY <2>1, <2>3, QuietRefs
<1>2. CASE First(b, c)
  <2>1. UNCHANGED <<next, rc, brc, runner, left, prev>>
    BY <1>2 DEF First
  <2>2. /\ caller[b] = "first" /\ caller'[b] \in {"link", "finish", "dispatch"}
        /\ \A x \in Behaviors \ {b} : caller'[x] = caller[x] /\ todo'[x] = todo[x]
    BY <1>2, <1>t, AdvanceMoves DEF First, GotoCaller, TypeOK
  <2>3. ASSUME NEW x \in Behaviors
        PROVE  SameTouch(x) /\ SameOwner(x) /\ SameRefs(x) /\ SameFollowing(x)
    BY <2>1, <2>2 DEF SameTouch, SameOwner, SameRefs, SameFollowing, CallerRef, RunnerRef,
                      Freed, Touching
  <2> QED
    BY <2>1, <2>3, QuietRefs
<1>3. CASE Start(b) \/ EndBody(b) \/ ReadNext(b, c) \/ Cas(b, c) \/ Await(b, c) \/ Handoff(b, c)
  <2>1. /\ UNCHANGED <<next, rc, brc, caller, todo, prev>>
        /\ \A x \in Behaviors \ {b} : runner'[x] = runner[x] /\ left'[x] = left[x]
    BY <1>3, <1>t DEF Start, EndBody, ReadNext, Cas, Await, Handoff, GotoRunner, TypeOK, memory
  <2>2. /\ runner[b] \notin {"none", "end", "done"} /\ runner'[b] \notin {"none", "end", "done"}
        /\ \A d \in Targets(b) : Freed(b, d)' <=> Freed(b, d)
    <3>1. CASE Start(b)
      BY <3>1, <1>t DEF Start, GotoRunner, TypeOK, Freed
    <3>2. CASE EndBody(b)
      BY <3>2, <1>t DEF EndBody, GotoRunner, TypeOK, Freed
    <3>3. CASE ReadNext(b, c) \/ Cas(b, c) \/ Await(b, c) \/ Handoff(b, c)
      BY <3>3, <1>t DEF ReadNext, Cas, Await, Handoff, GotoRunner, TypeOK, Freed
    <3> QED
      BY <1>3, <3>1, <3>2, <3>3
  <2>3. ASSUME NEW x \in Behaviors
        PROVE  SameTouch(x) /\ SameOwner(x) /\ SameRefs(x) /\ SameFollowing(x)
    <3>1. SameTouch(x) /\ SameFollowing(x)
      BY <2>1 DEF SameTouch, SameFollowing
    <3>2. SameOwner(x)
      BY <2>1, <2>2 DEF SameOwner, Freed
    <3>3. SameRefs(x)
      BY <2>1, <2>2 DEF SameRefs, CallerRef, RunnerRef
    <3> QED
      BY <3>1, <3>2, <3>3
  <2> QED
    BY <2>1, <2>3, QuietRefs
<1> QED
  BY <1>1, <1>2, <1>3

\* Nobody has heard of b.
LEMMA CreateRefs ==
    ASSUME IInv, LinkOK, RcOK, BrcOK, NEW b \in Behaviors, Create(b)
    PROVE  RcOK' /\ BrcOK'
<1>t. TypeOK
  BY DEF IInv
<1>1. /\ caller[b] = "idle" /\ caller' = [caller EXCEPT ![b] = "link"]
      /\ rc' = [rc EXCEPT ![b] = [c \in Cowns |-> IF c \in Targets(b) THEN 1 ELSE 0]]
      /\ brc' = [brc EXCEPT ![b] = 1]
      /\ todo' = [todo EXCEPT ![b] = Targets(b)]
      /\ UNCHANGED <<next, prev, runner, left>>
  BY DEF Create, GotoCaller
<1>2. runner[b] = "none"
  BY <1>1 DEF IInv, CountInv, PhaseOK
<1>3. \A x \in Behaviors \ {b} : caller'[x] = caller[x] /\ todo'[x] = todo[x]
                               /\ brc'[x] = brc[x] /\ \A c \in Cowns : rc'[x][c] = rc[x][c]
  BY <1>1, <1>t DEF TypeOK
<1>4. /\ caller'[b] = "link" /\ brc'[b] = 1
      /\ \A c \in Cowns : rc'[b][c] = IF c \in Targets(b) THEN 1 ELSE 0
  BY <1>1, <1>t DEF TypeOK
<1>5. ASSUME NEW c \in Cowns PROVE ~Kept(b, c)
  BY <1>1, LinkerIsNext DEF Kept, Keeps
<1>6. ASSUME NEW x \in Behaviors PROVE SameTouch(x)
  BY <1>1, <1>3, <1>4 DEF SameTouch, Touching
<1>7. RcOK'
  <2>1. ASSUME NEW c \in Cowns PROVE RcOf(b, c)'
    <3>1. ~Kept(b, c)'
      BY <1>5, <1>6, KeptSame
    <3>2. Owned(b, c)' <=> c \in Targets(b)
      BY <1>1, <1>2, <1>4 DEF Owned, Freed
    <3> QED
      BY <1>4, <3>1, <3>2 DEF RcOf
  <2>2. ASSUME NEW x \in Behaviors \ {b}, NEW c \in Cowns PROVE RcOf(x, c)'
    <3>1. Kept(x, c)' <=> Kept(x, c)
      BY <1>6, KeptSame
    <3>2. Owned(x, c)' <=> Owned(x, c)
      BY <1>1, <1>3 DEF Owned, Freed
    <3> QED
      BY <1>3, <3>1, <3>2 DEF RcOf, RcOK
  <2> QED
    BY <2>1, <2>2 DEF RcOK
<1>8. BrcOf(b)'
  <2>1. ASSUME NEW p \in Behaviors, NEW c \in Targets(b) PROVE next'[p][c] # b
    <3>1. c \in Cowns
      BY TargetsFinite
    <3>2. ticket[b][c] = 0
      BY <1>1 DEF IInv, TicketInv, Unlinked
    <3>3. next[p][c] # b
      <4>1. SUFFICES ASSUME next[p][c] = b PROVE FALSE
        OBVIOUS
      <4>2. ticket[b][c] = ticket[p][c] + 1 /\ ticket[p][c] \in Nat
        BY <3>1, <4>1, NextTicket
      <4> QED
        BY <3>2, <4>2
    <3> QED
      BY <1>1, <3>3
  <2>2. Following(b)' = {}
    BY <2>1 DEF Following, Ahead
  <2>3. CallerRef(b)' = 1 /\ RunnerRef(b)' = 0
    BY <1>1, <1>2, <1>4 DEF CallerRef, RunnerRef
  <2>4. Cardinality(Following(b)') = 0
    BY <2>2, FS_EmptySet
  <2> QED
    BY <1>4, <2>3, <2>4 DEF BrcOf
<1>9. ASSUME NEW x \in Behaviors \ {b}
      PROVE  brc'[x] = brc[x] /\ SameRefs(x) /\ Following(x)' = Following(x)
  <2>1. SameRefs(x)
    BY <1>1, <1>3 DEF SameRefs, CallerRef, RunnerRef
  <2>2. ASSUME NEW c \in Cowns PROVE next[b][c] # x
    <3>1. ticket[b][c] = 0
      BY <1>1 DEF IInv, TicketInv, Unlinked
    <3> QED
      BY <3>1, RequestsAssumption DEF IInv, QueueInv, NextOK
  <2>3. SameFollowing(x)
    BY <1>3, <2>2 DEF SameFollowing
  <2> QED
    BY <1>1, <1>3, <2>1, <2>3, FollowingSame
<1>10. BrcOK'
  <2>1. {b} \in SUBSET Behaviors /\ \A x \in {b} : BrcOf(x)'
    BY <1>8
  <2> QED
    BY <1>9, <2>1, BrcRest
<1> QED
  BY <1>7, <1>10

\* The successor's hold on the request in front, which its owner still has.
LEMMA HoldRefs ==
    ASSUME IInv, LinkOK, RcOK, BrcOK, NEW b \in Behaviors, NEW c \in Cowns, Hold(b, c)
    PROVE  RcOK' /\ BrcOK'
<1> DEFINE p == prev[b]
<1>t. TypeOK
  BY DEF IInv
<1>1. /\ caller[b] = "hold" /\ Linking(b, c) /\ caller' = [caller EXCEPT ![b] = "publish"]
      /\ rc' = [rc EXCEPT ![p][c] = @ + 1]
      /\ UNCHANGED <<next, prev, todo, runner, left, brc>>
  BY DEF Hold, GotoCaller
<1>2. p \in Behaviors /\ c \in Targets(p)
  BY <1>1, LinkerIsNext
<1>3. Owned(p, c)
  BY <1>1, FrontIsOwned
<1>4. ASSUME NEW x \in Behaviors, NEW d \in Cowns, Linking(x, d), caller[x] \in Touching
      PROVE  ~(d = c /\ prev[x] = p)
  BY <1>1, <1>4, LinkerIsUnique DEF Touching
<1>5. ~Kept(p, c) /\ rc[p][c] = 1
  <2>1. ~Kept(p, c)
    BY <1>4 DEF Kept, Keeps
  <2> QED
    BY <1>2, <1>3, <2>1 DEF RcOK, RcOf
<1>6. /\ rc'[p][c] = 2
      /\ \A x \in Behaviors : \A d \in Cowns : ~(x = p /\ d = c) => rc'[x][d] = rc[x][d]
  BY <1>1, <1>2, <1>5, <1>t DEF TypeOK
<1>7. /\ caller'[b] = "publish" /\ \A x \in Behaviors \ {b} : caller'[x] = caller[x]
  BY <1>1, <1>t DEF TypeOK
<1>8. ASSUME NEW x \in Behaviors, NEW d \in Cowns
      PROVE  Owned(x, d)' <=> Owned(x, d)
  BY <1>1, <1>7 DEF Owned, Freed
<1>9. ASSUME NEW x \in Behaviors, NEW d \in Cowns PROVE RcOf(x, d)'
  <2>1. CASE x = p /\ d = c
    <3>1. Keeps(b, p, c)'
      BY <1>1, <1>7 DEF Keeps, Linking, Touching
    <3>2. Kept(x, d)'
      BY <2>1, <3>1, <1>1 DEF Kept
    <3> QED
      BY <1>3, <1>6, <1>8, <2>1, <3>2 DEF RcOf
  <2>2. CASE ~(x = p /\ d = c)
    <3>1. ASSUME NEW y \in Behaviors PROVE Keeps(y, x, d)' <=> Keeps(y, x, d)
      <4>1. CASE y # b
        BY <1>1, <1>7, <4>1 DEF Keeps, Linking
      <4>2. CASE y = b
        <5>1. ~Keeps(b, x, d)
          BY <1>1 DEF Keeps, Touching
        <5>2. ~Keeps(b, x, d)'
          <6>1. SUFFICES ASSUME Keeps(b, x, d)' PROVE FALSE
            OBVIOUS
          <6>2. IsFirst(d, todo[b]) /\ prev[b] = x
            BY <1>1, <6>1 DEF Keeps, Linking
          <6>3. todo[b] \subseteq Cowns
            BY <1>t DEF TypeOK
          <6>4. d = c
            BY <1>1, <6>2, <6>3, FirstIsUnique DEF Linking
          <6> QED
            BY <2>2, <6>2, <6>4
        <5> QED
          BY <4>2, <5>1, <5>2
      <4> QED
        BY <4>1, <4>2
    <3>2. Kept(x, d)' <=> Kept(x, d)
      BY <3>1 DEF Kept
    <3> QED
      BY <1>6, <1>8, <2>2, <3>2 DEF RcOf, RcOK
  <2> QED
    BY <2>1, <2>2
<1>10. ASSUME NEW x \in Behaviors PROVE SameRefs(x) /\ SameFollowing(x)
  <2>1. SameRefs(x)
    BY <1>1, <1>7 DEF SameRefs, CallerRef, RunnerRef
  <2>2. SameFollowing(x)
    BY <1>1, <1>5, <1>6, <1>7 DEF SameFollowing
  <2> QED
    BY <2>1, <2>2
<1>11. BrcOK'
  BY <1>1, <1>10, FollowingSame DEF BrcOK, BrcOf, SameRefs
<1> QED
  BY <1>9, <1>11 DEF RcOK

\* The link is out: its reference is owed until Incref.
LEMMA PublishRefs ==
    ASSUME IInv, LinkOK, RcOK, BrcOK, NEW b \in Behaviors, NEW c \in Cowns, Publish(b, c)
    PROVE  RcOK' /\ BrcOK'
<1> DEFINE p == prev[b]
<1>t. TypeOK
  BY DEF IInv
<1>1. /\ caller[b] = "publish" /\ Linking(b, c) /\ caller' = [caller EXCEPT ![b] = "incref"]
      /\ next' = [next EXCEPT ![p][c] = b]
      /\ UNCHANGED <<prev, todo, runner, left, brc, rc>>
  BY DEF Publish, GotoCaller
<1>2. p \in Behaviors /\ next[p][c] = Null /\ Null \notin Behaviors
  BY <1>1, LinkerIsNext, RequestsAssumption DEF Touching, IInv, QueueInv, LinkerOK
<1>3. /\ next'[p][c] = b
      /\ \A x \in Behaviors : \A d \in Cowns : ~(x = p /\ d = c) => next'[x][d] = next[x][d]
  BY <1>1, <1>2, <1>t DEF TypeOK
<1>4. /\ caller'[b] = "incref" /\ \A x \in Behaviors \ {b} : caller'[x] = caller[x]
  BY <1>1, <1>t DEF TypeOK
<1>5. \A x \in Behaviors : SameTouch(x) /\ SameOwner(x)
  BY <1>1, <1>4 DEF SameTouch, SameOwner, Touching, Freed
<1>6. RcOK'
  BY <1>1, <1>5, RcSame
<1>7. ASSUME NEW x \in Behaviors \ {b} PROVE Following(x)' = Following(x)
  <2>1. ASSUME NEW d \in Targets(x) PROVE Ahead(x, d)' <=> Ahead(x, d)
    <3>1. d \in Cowns
      BY TargetsFinite
    <3>2. \A q \in Behaviors : next'[q][d] = x <=> next[q][d] = x
      BY <1>2, <1>3, <3>1
    <3> QED
      BY <1>1, <3>2 DEF Ahead
  <2>2. \A d \in Targets(x) : (caller[x] = "incref" /\ Linking(x, d))'
                              <=> (caller[x] = "incref" /\ Linking(x, d))
    BY <1>1, <1>4 DEF Linking
  <2> QED
    BY <2>1, <2>2 DEF Following
<1>8. Following(b)' = Following(b)
  <2>1. c \notin Following(b)'
    BY <1>1, <1>4 DEF Following, Linking
  <2>2. c \notin Following(b)
    <3>1. SUFFICES ASSUME NEW q \in Behaviors, next[q][c] = b PROVE FALSE
      BY DEF Following, Ahead
    <3>2. ticket[b][c] = ticket[q][c] + 1 /\ ticket[q][c] # 0
      BY <3>1, <1>2 DEF IInv, QueueInv, NextOK
    <3>3. ticket[b][c] = ticket[p][c] + 1
      BY <1>1, LinkerIsNext DEF Touching
    <3>4. ticket[q][c] = ticket[p][c]
      <4>1. ticket[q][c] \in Nat /\ ticket[p][c] \in Nat
        BY <1>2, <1>t DEF TypeOK
      <4> HIDE DEF p
      <4> QED
        BY <3>2, <3>3, <4>1
    <3>5. q = p
      BY <1>2, <3>2, <3>4 DEF IInv, TicketInv
    <3> QED
      BY <1>2, <3>1, <3>5
  <2>3. ASSUME NEW d \in Targets(b) \ {c} PROVE d \in Following(b)' <=> d \in Following(b)
    <3>1. d \in Cowns
      BY TargetsFinite
    <3>2. ~Linking(b, d) /\ ~Linking(b, d)'
      BY <1>1, <1>t, <2>3, FirstIsUnique DEF Linking, TypeOK
    <3>3. Ahead(b, d)' <=> Ahead(b, d)
      BY <1>1, <1>3, <3>1 DEF Ahead
    <3> QED
      BY <3>2, <3>3 DEF Following
  <2> QED
    BY <2>1, <2>2, <2>3 DEF Following
<1>9. \A x \in Behaviors : SameRefs(x)
  BY <1>1, <1>4 DEF SameRefs, CallerRef, RunnerRef
<1>10. BrcOK'
  BY <1>1, <1>7, <1>8, <1>9 DEF BrcOK, BrcOf, SameRefs
<1> QED
  BY <1>6, <1>10

\* The request in front, which b holds, now holds b as well.
LEMMA IncrefRefs ==
    ASSUME IInv, LinkOK, RcOK, BrcOK, NEW b \in Behaviors, Incref(b)
    PROVE  RcOK' /\ BrcOK'
<1> DEFINE p == prev[b]
<1>t. TypeOK
  BY DEF IInv
<1>1. /\ caller[b] = "incref" /\ caller' = [caller EXCEPT ![b] = "spin"]
      /\ brc' = [brc EXCEPT ![b] = @ + 1]
      /\ UNCHANGED <<prev, todo, runner, left, next, rc>>
  BY DEF Incref, GotoCaller
<1>2. PICK c \in Cowns : Linking(b, c)
  BY <1>1 DEF LinkOK, LinkOf, Touching
<1>3. p \in Behaviors /\ next[p][c] = b /\ c \in Targets(b)
  BY <1>1, <1>2, LinkerIsNext DEF Touching, LinkOK, LinkOf
<1>4. rc[p][c] > 0
  <2>1. Kept(p, c)
    BY <1>1, <1>2 DEF Kept, Keeps, Touching
  <2> QED
    BY <1>3, <2>1 DEF RcOK, RcOf
<1>5. /\ caller'[b] = "spin" /\ brc'[b] = brc[b] + 1
      /\ \A x \in Behaviors \ {b} : caller'[x] = caller[x] /\ brc'[x] = brc[x]
  BY <1>1, <1>t DEF TypeOK
<1>6. RcOK'
  <2>1. \A x \in Behaviors : SameTouch(x) /\ SameOwner(x)
    BY <1>1, <1>5 DEF SameTouch, SameOwner, Touching, Freed
  <2> QED
    BY <1>1, <2>1, RcSame
<1>7. BrcOf(b)'
  <2>1. c \notin Following(b)
    BY <1>1, <1>2 DEF Following
  <2>2. Following(b)' = Following(b) \cup {c}
    <3>1. ASSUME NEW d \in Targets(b) PROVE Ahead(b, d)' <=> Ahead(b, d)
      BY <1>1 DEF Ahead
    <3>2. Ahead(b, c)
      BY <1>3, <1>4 DEF Ahead
    <3>3. ASSUME NEW d \in Targets(b) \ {c} PROVE ~Linking(b, d)
      <4>1. d \in Cowns
        BY TargetsFinite
      <4> QED
        BY <1>2, <1>t, <3>3, <4>1, FirstIsUnique DEF Linking, TypeOK
    <3> QED
      BY <1>3, <1>5, <3>1, <3>2, <3>3 DEF Following
  <2>3. Cardinality(Following(b)') = Cardinality(Following(b)) + 1
    BY <2>1, <2>2, FollowingFinite, FS_AddElement
  <2>4. SameRefs(b)
    BY <1>1, <1>5 DEF SameRefs, CallerRef, RunnerRef
  <2>5. CallerRef(b) \in Nat /\ RunnerRef(b) \in Nat
    BY DEF CallerRef, RunnerRef
  <2>6. brc[b] = CallerRef(b) + RunnerRef(b) + Cardinality(Following(b))
    BY DEF BrcOK, BrcOf
  <2> QED
    BY <1>5, <2>3, <2>4, <2>5, <2>6, FollowingFinite DEF BrcOf, SameRefs
<1>8. ASSUME NEW x \in Behaviors \ {b}
      PROVE  brc'[x] = brc[x] /\ SameRefs(x) /\ Following(x)' = Following(x)
  <2>1. SameRefs(x) /\ SameFollowing(x)
    BY <1>1, <1>5 DEF SameRefs, CallerRef, RunnerRef, SameFollowing
  <2> QED
    BY <1>1, <1>5, <2>1, FollowingSame
<1>9. BrcOK'
  <2>1. {b} \in SUBSET Behaviors /\ \A x \in {b} : BrcOf(x)'
    BY <1>7
  <2> QED
    BY <1>8, <2>1, BrcRest
<1> QED
  BY <1>6, <1>9

\* A holder of a request lets go.  With the last one the request goes, and
\* with it the reference to the behavior behind.
LEMMA DropBrc ==
    ASSUME IInv, BrcOK, NEW p \in Behaviors, NEW c \in Cowns, DropRequest(p, c),
           rc[p][c] \in {1, 2}, UNCHANGED next,
           \A x \in Behaviors : /\ SameRefs(x)
                                /\ caller'[x] = "incref" <=> caller[x] = "incref"
                                /\ caller[x] = "incref" => todo'[x] = todo[x],
           \A x \in Behaviors : caller[x] = "incref" /\ Linking(x, c) /\ next[p][c] = x
                                => rc[p][c] = 2
    PROVE  BrcOK'
<1> DEFINE n == next[p][c]
<1>t. TypeOK
  BY DEF IInv
<1>1. /\ rc'[p][c] = rc[p][c] - 1
      /\ \A x \in Behaviors : \A d \in Cowns : ~(x = p /\ d = c) => rc'[x][d] = rc[x][d]
  BY <1>t DEF DropRequest, TypeOK
<1>2. ASSUME NEW x \in Behaviors, x # n \/ rc[p][c] = 2 PROVE Following(x)' = Following(x)
  <2>1. SameFollowing(x)
    BY <1>1, <1>2 DEF SameFollowing
  <2> QED
    BY <2>1, FollowingSame
<1>3. CASE rc[p][c] = 2 \/ n = Null
  <2>1. UNCHANGED brc
    BY <1>3 DEF DropRequest
  <2>2. \A x \in Behaviors : Following(x)' = Following(x)
    BY <1>2, <1>3, RequestsAssumption
  <2> QED
    BY <2>1, <2>2 DEF BrcOK, BrcOf, SameRefs
<1>4. CASE rc[p][c] = 1 /\ n # Null
  <2>1. PICK m \in Behaviors : m = next[p][c]
    BY <1>t, <1>4 DEF TypeOK
  <2>2. brc'[m] = brc[m] - 1 /\ \A x \in Behaviors \ {m} : brc'[x] = brc[x]
    BY <1>t, <1>4, <2>1 DEF DropRequest, TypeOK
  <2>3. c \in Targets(m)
    <3>1. ticket[m][c] # 0
      BY <1>t, <1>4, <2>1 DEF IInv, QueueInv, NextOK, TypeOK
    <3> QED
      BY <2>1, <3>1 DEF IInv, TicketInv
  <2>4. c \in Following(m)
    BY <1>4, <2>1, <2>3 DEF Following, Ahead
  <2>5. Following(m)' = Following(m) \ {c}
    <3>1. ~Ahead(m, c)'
      <4>1. SUFFICES ASSUME NEW q \in Behaviors, next[q][c] = m, rc'[q][c] > 0 PROVE FALSE
        BY DEF Ahead
      <4>2. q = p
        BY <2>1, <4>1, FrontIsUnique
      <4> QED
        BY <1>1, <1>4, <4>1, <4>2
    <3>2. ASSUME NEW d \in Targets(m) \ {c} PROVE d \in Following(m)' <=> d \in Following(m)
      <4>1. d \in Cowns
        BY TargetsFinite, <2>1
      <4>2. Ahead(m, d)' <=> Ahead(m, d)
        BY <1>1, <4>1 DEF Ahead
      <4>3. (caller[m] = "incref" /\ Linking(m, d))' <=> (caller[m] = "incref" /\ Linking(m, d))
        BY <2>1 DEF Linking
      <4> QED
        BY <4>2, <4>3 DEF Following
    <3> QED
      BY <3>1, <3>2 DEF Following
  <2>6. Cardinality(Following(m)') = Cardinality(Following(m)) - 1
    <3>1. IsFiniteSet(Following(m))
      BY <2>1, FollowingFinite
    <3>2. Cardinality(Following(m) \ {c}) = Cardinality(Following(m)) - 1
      BY <2>4, <3>1, FS_RemoveElement
    <3> QED
      BY <2>5, <3>2
  <2>7. BrcOf(m)'
    <3>1. SameRefs(m) /\ CallerRef(m) \in Nat /\ RunnerRef(m) \in Nat
      BY <2>1 DEF CallerRef, RunnerRef
    <3>2. brc[m] = CallerRef(m) + RunnerRef(m) + Cardinality(Following(m))
      BY <2>1 DEF BrcOK, BrcOf
    <3>3. Cardinality(Following(m)) \in Nat
      BY <2>1, FollowingFinite
    <3> QED
      BY <2>2, <2>6, <3>1, <3>2, <3>3 DEF BrcOf, SameRefs
  <2>8. {m} \in SUBSET Behaviors /\ \A x \in {m} : BrcOf(x)'
    BY <2>1, <2>7
  <2>9. \A x \in Behaviors \ {m} : brc'[x] = brc[x] /\ SameRefs(x) /\ Following(x)' = Following(x)
    BY <1>2, <2>1, <2>2
  <2> QED
    BY <2>8, <2>9, BrcRest
<1> QED
  BY <1>3, <1>4

\* The successor lets go of the request in front.
LEMMA DropRefs ==
    ASSUME IInv, LinkOK, RcOK, BrcOK, NEW b \in Behaviors, NEW c \in Cowns, Drop(b, c)
    PROVE  RcOK' /\ BrcOK'
<1> DEFINE p == prev[b]
<1>t. TypeOK
  BY DEF IInv
<1>1. /\ caller[b] = "drop" /\ Linking(b, c) /\ DropRequest(p, c)
      /\ UNCHANGED <<next, prev, runner, left>>
  BY DEF Drop
<1>2. /\ caller'[b] \in {"link", "finish"}
      /\ \A x \in Behaviors \ {b} : caller'[x] = caller[x] /\ todo'[x] = todo[x]
  BY <1>t, AdvanceMoves DEF Drop
<1>3. p \in Behaviors /\ c \in Targets(p) /\ next[p][c] = b
  BY <1>1, LinkerIsNext DEF Touching, LinkOK, LinkOf
<1>4. Keeps(b, p, c)
  BY <1>1 DEF Keeps, Touching
<1>5. Kept(p, c) /\ rc[p][c] = (IF Owned(p, c) THEN 2 ELSE 1)
  BY <1>3, <1>4 DEF Kept, RcOK, RcOf
<1>6. /\ rc'[p][c] = rc[p][c] - 1
      /\ \A x \in Behaviors : \A d \in Cowns : ~(x = p /\ d = c) => rc'[x][d] = rc[x][d]
  BY <1>1, <1>3, <1>t DEF DropRequest, TypeOK
<1>7. ASSUME NEW x \in Behaviors, NEW d \in Cowns PROVE RcOf(x, d)'
  <2>1. Owned(x, d)' <=> Owned(x, d)
    BY <1>1, <1>2 DEF Owned, Freed
  <2>2. CASE x = p /\ d = c
    <3>1. ASSUME NEW y \in Behaviors PROVE ~Keeps(y, p, c)'
      <4>1. CASE y = b
        BY <1>2, <4>1 DEF Keeps, Touching
      <4>2. CASE y # b
        <5>1. SUFFICES ASSUME Keeps(y, p, c)' PROVE FALSE
          OBVIOUS
        <5>2. caller[y] \in Touching /\ Linking(y, c) /\ prev[y] = prev[b]
          BY <1>1, <1>2, <4>2, <5>1 DEF Keeps, Linking
        <5> QED
          BY <1>1, <4>2, <5>2, LinkerIsUnique DEF Touching
      <4> QED
        BY <4>1, <4>2
    <3>2. ~Kept(x, d)'
      <4>1. ASSUME NEW y \in Behaviors PROVE ~Keeps(y, x, d)'
        BY <2>2, <3>1, <1>1 DEF Keeps, Linking
      <4> QED
        BY <4>1 DEF Kept
    <3> QED
      BY <1>5, <1>6, <2>1, <2>2, <3>2 DEF RcOf
  <2>3. CASE ~(x = p /\ d = c)
    <3>1. ASSUME NEW y \in Behaviors PROVE Keeps(y, x, d)' <=> Keeps(y, x, d)
      <4>1. CASE y # b
        BY <1>1, <1>2, <4>1 DEF Keeps, Linking
      <4>2. CASE y = b
        <5>1. ~Keeps(b, x, d)'
          BY <1>2 DEF Keeps, Touching
        <5>2. ~Keeps(b, x, d)
          <6>1. SUFFICES ASSUME Keeps(b, x, d) PROVE FALSE
            OBVIOUS
          <6>2. IsFirst(d, todo[b]) /\ prev[b] = x
            BY <6>1 DEF Keeps, Linking
          <6>3. d = c
            BY <1>1, <1>t, <6>2, FirstIsUnique DEF Linking, TypeOK
          <6> QED
            BY <2>3, <6>2, <6>3
        <5> QED
          BY <4>2, <5>1, <5>2
      <4> QED
        BY <4>1, <4>2
    <3>2. Kept(x, d)' <=> Kept(x, d)
      BY <3>1 DEF Kept
    <3> QED
      BY <1>6, <2>1, <2>3, <3>2 DEF RcOf, RcOK
  <2> QED
    BY <2>2, <2>3
<1>8. ASSUME NEW x \in Behaviors
      PROVE  /\ SameRefs(x)
             /\ caller'[x] = "incref" <=> caller[x] = "incref"
             /\ caller[x] = "incref" => todo'[x] = todo[x]
  BY <1>1, <1>2 DEF SameRefs, CallerRef, RunnerRef
<1>9. BrcOK'
  <2>1. ASSUME NEW x \in Behaviors, caller[x] = "incref", Linking(x, c), next[p][c] = x
        PROVE  FALSE
    BY <1>1, <1>3, <2>1
  <2>2. rc[p][c] \in {1, 2}
    BY <1>5
  <2> QED
    BY <1>1, <1>3, <1>8, <2>1, <2>2, DropBrc
<1> QED
  BY <1>7, <1>9 DEF RcOK

\* release_all lets go of the request it has handed on.
LEMMA FreeRefs ==
    ASSUME IInv, LinkOK, RcOK, BrcOK, NEW b \in Behaviors, NEW c \in Cowns, Free(b, c)
    PROVE  RcOK' /\ BrcOK'
<1>t. TypeOK
  BY DEF IInv
<1>1. /\ runner[b] = "free" /\ c \in left[b] /\ DropRequest(b, c)
      /\ left' = [left EXCEPT ![b] = @ \ {c}]
      /\ runner' = [runner EXCEPT ![b] = IF left[b] = {c} THEN "end" ELSE "release"]
      /\ UNCHANGED <<next, prev, todo, caller>>
  BY DEF Free, GotoRunner, Releasing, IsFirst
<1>2. /\ left'[b] = left[b] \ {c}
      /\ runner'[b] = IF left[b] = {c} THEN "end" ELSE "release"
      /\ \A x \in Behaviors \ {b} : runner'[x] = runner[x] /\ left'[x] = left[x]
  BY <1>1, <1>t DEF TypeOK
<1>3. c \in Targets(b) /\ caller[b] # "idle"
  BY <1>1 DEF IInv, TicketInv, CountInv, PhaseOK
<1>4. Owned(b, c) /\ ~Owned(b, c)'
  BY <1>1, <1>2, <1>3 DEF Owned, Freed
<1>5. /\ rc'[b][c] = rc[b][c] - 1
      /\ \A x \in Behaviors : \A d \in Cowns : ~(x = b /\ d = c) => rc'[x][d] = rc[x][d]
  BY <1>1, <1>t DEF DropRequest, TypeOK
<1>6. \A x \in Behaviors : SameTouch(x)
  BY <1>1 DEF SameTouch
<1>7. ASSUME NEW x \in Behaviors, NEW d \in Cowns PROVE RcOf(x, d)'
  <2>1. Kept(x, d)' <=> Kept(x, d)
    BY <1>6, KeptSame
  <2>2. CASE x = b /\ d = c
    BY <1>4, <1>5, <2>1, <2>2 DEF RcOK, RcOf
  <2>3. CASE ~(x = b /\ d = c)
    <3>1. Owned(x, d)' <=> Owned(x, d)
      BY <1>1, <1>2, <2>3 DEF Owned, Freed
    <3> QED
      BY <1>5, <2>1, <2>3, <3>1 DEF RcOK, RcOf
  <2> QED
    BY <2>2, <2>3
<1>8. ASSUME NEW x \in Behaviors, caller[x] = "incref", Linking(x, c), next[b][c] = x
      PROVE  rc[b][c] = 2
  <2>1. next[prev[x]][c] = x /\ prev[x] \in Behaviors
    BY <1>8, LinkerIsNext DEF LinkOK, LinkOf, Touching
  <2>2. prev[x] = b
    BY <1>8, <2>1, FrontIsUnique
  <2>3. Kept(b, c)
    BY <1>8, <2>2 DEF Kept, Keeps, Touching
  <2> QED
    BY <1>4, <2>3 DEF RcOK, RcOf
<1>9. rc[b][c] \in {1, 2}
  BY <1>4 DEF RcOK, RcOf
<1>10. \A x \in Behaviors : SameRefs(x)
  BY <1>1, <1>2 DEF SameRefs, CallerRef, RunnerRef
<1>11. BrcOK'
  BY <1>1, <1>8, <1>9, <1>10, DropBrc
<1> QED
  BY <1>7, <1>11 DEF RcOK

\* A thread takes or drops its reference to the behavior m.
LEMMA ThreadRef ==
    ASSUME RcOK, BrcOK, UNCHANGED <<rc, next>>, NEW m \in Behaviors,
           \A x \in Behaviors : SameTouch(x) /\ SameOwner(x) /\ SameFollowing(x),
           \A x \in Behaviors \ {m} : brc'[x] = brc[x] /\ SameRefs(x),
           NEW k \in Int, brc'[m] = brc[m] + k,
           CallerRef(m)' + RunnerRef(m)' = CallerRef(m) + RunnerRef(m) + k
    PROVE  RcOK' /\ BrcOK'
<1>1. RcOK'
  BY RcSame
<1>2. \A x \in Behaviors : Following(x)' = Following(x)
  BY FollowingSame
<1>3. BrcOf(m)'
  <2>1. /\ CallerRef(m) \in Nat /\ RunnerRef(m) \in Nat
        /\ CallerRef(m)' \in Nat /\ RunnerRef(m)' \in Nat
    BY DEF CallerRef, RunnerRef
  <2>2. Cardinality(Following(m)) \in Nat /\ Following(m)' = Following(m)
    BY <1>2, FollowingFinite
  <2>3. brc[m] = CallerRef(m) + RunnerRef(m) + Cardinality(Following(m))
    BY DEF BrcOK, BrcOf
  <2> QED
    BY <2>1, <2>2, <2>3 DEF BrcOf
<1>4. {m} \in SUBSET Behaviors /\ \A x \in {m} : BrcOf(x)'
  BY <1>3
<1>5. BrcOK'
  BY <1>2, <1>4, BrcRest
<1> QED
  BY <1>1, <1>5

LEMMA ThreadRefs ==
    ASSUME IInv, RcOK, BrcOK, NEW b \in Behaviors, NEW c \in Cowns,
           CallerDispatch(b) \/ Return(b) \/ RunnerDispatch(b, c) \/ End(b)
    PROVE  RcOK' /\ BrcOK'
<1>t. TypeOK
  BY DEF IInv
<1>1. CASE CallerDispatch(b)
  <2>1. /\ caller[b] = "dispatch" /\ todo[b] = {} /\ runner[b] = "none"
    BY <1>1 DEF CallerDispatch, IInv, CountInv, PhaseOK
  <2>2. /\ caller' = [caller EXCEPT ![b] = "return"] /\ runner' = [runner EXCEPT ![b] = "ready"]
        /\ brc' = [brc EXCEPT ![b] = @ + 1] /\ UNCHANGED <<todo, prev, next, rc, left>>
    BY <1>1, <2>1 DEF CallerDispatch, GotoCaller, GotoRunner
  <2>3. /\ caller'[b] = "return" /\ runner'[b] = "ready" /\ brc'[b] = brc[b] + 1
        /\ \A x \in Behaviors \ {b} : /\ caller'[x] = caller[x] /\ runner'[x] = runner[x]
                                      /\ brc'[x] = brc[x]
    BY <2>2, <1>t DEF TypeOK
  <2>4. ASSUME NEW x \in Behaviors PROVE SameTouch(x) /\ SameOwner(x) /\ SameFollowing(x)
    BY <2>1, <2>2, <2>3 DEF SameTouch, SameOwner, SameFollowing, Touching, Freed
  <2>5. \A x \in Behaviors \ {b} : brc'[x] = brc[x] /\ SameRefs(x)
    BY <2>3 DEF SameRefs, CallerRef, RunnerRef
  <2>6. CallerRef(b)' + RunnerRef(b)' = CallerRef(b) + RunnerRef(b) + 1
    BY <2>1, <2>3 DEF CallerRef, RunnerRef
  <2> QED
    BY <2>2, <2>3, <2>4, <2>5, <2>6, ThreadRef
<1>2. CASE Return(b)
  <2>1. /\ caller[b] = "return" /\ caller' = [caller EXCEPT ![b] = "done"]
        /\ brc' = [brc EXCEPT ![b] = @ - 1] /\ UNCHANGED <<todo, prev, next, rc, runner, left>>
    BY <1>2 DEF Return, GotoCaller
  <2>2. /\ caller'[b] = "done" /\ brc'[b] = brc[b] + (-1)
        /\ \A x \in Behaviors \ {b} : caller'[x] = caller[x] /\ brc'[x] = brc[x]
    BY <2>1, <1>t DEF TypeOK
  <2>3. ASSUME NEW x \in Behaviors PROVE SameTouch(x) /\ SameOwner(x) /\ SameFollowing(x)
    BY <2>1, <2>2 DEF SameTouch, SameOwner, SameFollowing, Touching, Freed
  <2>4. \A x \in Behaviors \ {b} : brc'[x] = brc[x] /\ SameRefs(x)
    BY <2>1, <2>2 DEF SameRefs, CallerRef, RunnerRef
  <2>5. CallerRef(b)' + RunnerRef(b)' = CallerRef(b) + RunnerRef(b) + (-1)
    BY <2>1, <2>2 DEF CallerRef, RunnerRef
  <2> QED
    BY <2>1, <2>2, <2>3, <2>4, <2>5, ThreadRef
<1>3. CASE RunnerDispatch(b, c)
  <2>1. PICK m \in Behaviors : m = next[b][c] /\ runner[m] = "none"
    BY <1>3, <1>t DEF RunnerDispatch, IInv, RunnerInv, CountInv, DispatchOK, TypeOK
  <2>2. /\ runner[b] = "dispatch" /\ runner' = [runner EXCEPT ![m] = "ready", ![b] = "free"]
        /\ brc' = [brc EXCEPT ![m] = @ + 1] /\ UNCHANGED <<todo, prev, next, rc, caller, left>>
    BY <1>3, <2>1 DEF RunnerDispatch
  <2>3. /\ runner'[m] = "ready" /\ runner'[b] = "free" /\ brc'[m] = brc[m] + 1 /\ m # b
        /\ \A x \in Behaviors \ {m} : brc'[x] = brc[x] /\ (x # b => runner'[x] = runner[x])
    BY <2>1, <2>2, <1>t DEF TypeOK
  <2>4. ASSUME NEW x \in Behaviors PROVE SameTouch(x) /\ SameOwner(x) /\ SameFollowing(x)
    BY <2>1, <2>2, <2>3 DEF SameTouch, SameOwner, SameFollowing, Freed
  <2>5. \A x \in Behaviors \ {m} : brc'[x] = brc[x] /\ SameRefs(x)
    BY <2>2, <2>3 DEF SameRefs, CallerRef, RunnerRef
  <2>6. CallerRef(m)' + RunnerRef(m)' = CallerRef(m) + RunnerRef(m) + 1
    BY <2>1, <2>2, <2>3 DEF CallerRef, RunnerRef
  <2> QED
    BY <2>2, <2>3, <2>4, <2>5, <2>6, ThreadRef
<1>4. CASE End(b)
  <2>1. /\ runner[b] = "end" /\ runner' = [runner EXCEPT ![b] = "done"]
        /\ brc' = [brc EXCEPT ![b] = @ - 1] /\ UNCHANGED <<todo, prev, next, rc, caller, left>>
    BY <1>4 DEF End, GotoRunner
  <2>2. /\ runner'[b] = "done" /\ brc'[b] = brc[b] + (-1)
        /\ \A x \in Behaviors \ {b} : runner'[x] = runner[x] /\ brc'[x] = brc[x]
    BY <2>1, <1>t DEF TypeOK
  <2>3. ASSUME NEW x \in Behaviors PROVE SameTouch(x) /\ SameOwner(x) /\ SameFollowing(x)
    BY <2>1, <2>2 DEF SameTouch, SameOwner, SameFollowing, Freed
  <2>4. \A x \in Behaviors \ {b} : brc'[x] = brc[x] /\ SameRefs(x)
    BY <2>1, <2>2 DEF SameRefs, CallerRef, RunnerRef
  <2>5. CallerRef(b)' + RunnerRef(b)' = CallerRef(b) + RunnerRef(b) + (-1)
    BY <2>1, <2>2 DEF CallerRef, RunnerRef
  <2> QED
    BY <2>1, <2>2, <2>3, <2>4, <2>5, ThreadRef
<1> QED
  BY <1>1, <1>2, <1>3, <1>4

LEMMA StutterRefs ==
    ASSUME RInv, UNCHANGED vars
    PROVE  RInv'
<1>1. UNCHANGED <<next, rc, brc, caller, todo, prev, runner, left>>
  BY DEF vars, memory, threads
<1>2. LinkOK'
  BY <1>1 DEF RInv, LinkOK, LinkOf, Linking
<1>3. \A x \in Behaviors : /\ SameTouch(x) /\ SameOwner(x) /\ SameRefs(x)
                            /\ SameFollowing(x)
  BY <1>1 DEF SameTouch, SameFollowing, SameOwner, SameRefs, CallerRef, RunnerRef, Freed
<1>4. RcOK' /\ BrcOK'
  BY <1>1, <1>3, QuietRefs DEF RInv
<1> QED
  BY <1>2, <1>4 DEF RInv

LEMMA RefsStep ==
    ASSUME IInv, RInv, Next
    PROVE  RInv'
<1>0. LinkOK /\ RcOK /\ BrcOK
  BY DEF RInv
<1>1. ASSUME NEW b \in Behaviors PROVE \E e : e \in Cowns
  BY RequestsAssumption
<1>2. ASSUME NEW b \in Behaviors, CallerStep(b) PROVE RcOK' /\ BrcOK'
  <2>1. PICK e \in Cowns : TRUE
    BY <1>1
  <2>2. CASE Incref(b)
    BY <1>0, <2>2, IncrefRefs
  <2>3. CASE Final(b)
    BY <1>0, <2>1, <2>3, QuietRefsStep
  <2>4. CASE CallerDispatch(b) \/ Return(b)
    BY <1>0, <2>1, <2>4, ThreadRefs
  <2>5. ASSUME NEW c \in Cowns, \/ Exchange(b, c) \/ First(b, c) \/ Spin(b, c)
                                \/ Finish(b, c)
        PROVE  RcOK' /\ BrcOK'
    BY <1>0, <2>5, QuietRefsStep
  <2>6. ASSUME NEW c \in Cowns, Hold(b, c) \/ Publish(b, c) \/ Drop(b, c)
        PROVE  RcOK' /\ BrcOK'
    BY <1>0, <2>6, HoldRefs, PublishRefs, DropRefs
  <2> QED
    BY <1>2, <2>2, <2>3, <2>4, <2>5, <2>6 DEF CallerStep
<1>3. ASSUME NEW b \in Behaviors, RunnerStep(b) PROVE RcOK' /\ BrcOK'
  <2>1. PICK e \in Cowns : TRUE
    BY <1>1
  <2>2. CASE Start(b) \/ EndBody(b)
    BY <1>0, <2>1, <2>2, QuietRefsStep
  <2>3. CASE End(b)
    BY <1>0, <2>1, <2>3, ThreadRefs
  <2>4. ASSUME NEW c \in Cowns, ReadNext(b, c) \/ Cas(b, c) \/ Await(b, c) \/ Handoff(b, c)
        PROVE  RcOK' /\ BrcOK'
    BY <1>0, <2>4, QuietRefsStep
  <2>5. ASSUME NEW c \in Cowns, RunnerDispatch(b, c) \/ Free(b, c)
        PROVE  RcOK' /\ BrcOK'
    BY <1>0, <2>5, ThreadRefs, FreeRefs
  <2> QED
    BY <1>3, <2>2, <2>3, <2>4, <2>5 DEF RunnerStep
<1>4. ASSUME Finished PROVE RcOK' /\ BrcOK'
  BY <1>4, StutterRefs DEF Finished, RInv
<1>5. RcOK' /\ BrcOK'
  <2>1. ASSUME NEW b \in Behaviors, Create(b) PROVE RcOK' /\ BrcOK'
    BY <1>0, <2>1, CreateRefs
  <2>2. CASE \E b \in Behaviors : Create(b) \/ CallerStep(b) \/ RunnerStep(b)
    BY <2>2, <2>1, <1>2, <1>3
  <2> QED
    BY <2>2, <1>4 DEF Next
<1>6. LinkOK'
  BY <1>0, LinkStep
<1> QED
  BY <1>5, <1>6 DEF RInv

-----------------------------------------------------------------------------
(***************************************************************************)
(* The theorems.                                                           *)
(***************************************************************************)

LEMMA InitRefs == Init => RInv
<1> SUFFICES ASSUME Init PROVE RInv
  OBVIOUS
<1>1. \A b \in Behaviors : /\ caller[b] = "idle" /\ runner[b] = "none" /\ brc[b] = 0
                            /\ \A c \in Cowns : rc[b][c] = 0 /\ next[b][c] = Null
  BY DEF Init
<1>2. LinkOK
  BY <1>1 DEF LinkOK, LinkOf, Touching
<1>3. RcOK
  <2>1. ASSUME NEW b \in Behaviors, NEW c \in Cowns PROVE RcOf(b, c)
    <3>1. ~Owned(b, c)
      BY <1>1 DEF Owned
    <3>2. ~Kept(b, c)
      BY <1>1 DEF Kept, Keeps, Touching
    <3> QED
      BY <1>1, <3>1, <3>2 DEF RcOf
  <2> QED
    BY <2>1 DEF RcOK
<1>4. BrcOK
  <2>1. ASSUME NEW b \in Behaviors PROVE BrcOf(b)
    <3>1. Following(b) = {}
      <4>1. Targets(b) \subseteq Cowns
        BY TargetsFinite
      <4> QED
        BY <1>1, <4>1 DEF Following, Ahead
    <3>2. Cardinality(Following(b)) = 0
      BY <3>1, FS_EmptySet
    <3> QED
      BY <1>1, <3>2 DEF BrcOf, CallerRef, RunnerRef
  <2> QED
    BY <2>1 DEF BrcOK
<1> QED
  BY <1>2, <1>3, <1>4 DEF RInv

\* Every reference count of a request and of a behavior (request_decref,
\* behavior_decref) stands for the holders it is meant to, in every state.
THEOREM RefsInvariance == Spec => []RInv
<1>1. Init => RInv
  BY InitRefs
<1>2. IInv /\ RInv /\ [Next]_vars => RInv'
  BY RefsStep, StutterRefs
<1>3. Spec => []IInv
  BY Invariance
<1> QED
  BY <1>1, <1>2, <1>3, PTL DEF Spec

LEMMA RefsKeep ==
    ASSUME IInv, RInv
    PROVE  NoUseAfterFree
<1>t. TypeOK /\ LinkOK /\ RcOK /\ BrcOK
  BY DEF IInv, RInv
<1>1. ASSUME NEW b \in Behaviors
      PROVE  /\ caller[b] \notin {"idle", "done"} => brc[b] > 0
             /\ runner[b] \notin {"none", "done"} => brc[b] > 0
             /\ Following(b) # {} => brc[b] > 0
  <2>1. brc[b] = CallerRef(b) + RunnerRef(b) + Cardinality(Following(b))
    BY <1>t DEF BrcOK, BrcOf
  <2>2. /\ Cardinality(Following(b)) \in Nat
        /\ Cardinality(Following(b)) = 0 <=> Following(b) = {}
    BY FollowingFinite
  <2> QED
    BY <2>1, <2>2 DEF CallerRef, RunnerRef
<1>2. ASSUME NEW b \in Behaviors, NEW c \in Cowns,
             Owned(b, c) \/ Kept(b, c)
      PROVE  rc[b][c] > 0
  BY <1>t, <1>2 DEF RcOK, RcOf
<1>3. ASSUME NEW b \in Behaviors, NEW c \in Cowns,
             caller[b] \in {"hold", "publish", "spin", "drop"}, Linking(b, c)
      PROVE  rc[prev[b]][c] > 0
  <2>1. prev[b] \in Behaviors
    BY <1>t, <1>3, LinkerIsNext DEF Touching
  <2>2. CASE caller[b] = "hold"
    BY <1>t, <1>2, <1>3, <2>1, <2>2, FrontIsOwned
  <2>3. CASE caller[b] # "hold"
    <3>1. Kept(prev[b], c)
      BY <1>3, <2>3 DEF Kept, Keeps, Touching
    <3> QED
      BY <1>2, <2>1, <3>1
  <2> QED
    BY <2>2, <2>3
<1>4. ASSUME NEW b \in Behaviors, NEW c \in Cowns, caller[b] = "finish", Linking(b, c)
      PROVE  rc[b][c] > 0
  <2>1. runner[b] = "none" /\ c \in Targets(b)
    BY <1>4 DEF IInv, CountInv, PhaseOK, TicketInv, Linking, IsFirst
  <2> QED
    BY <1>2, <1>4, <2>1 DEF Owned, Freed
<1>5. ASSUME NEW b \in Behaviors, NEW c \in Cowns, Releasing(b, c),
             runner[b] \in {"release", "cas", "await", "handoff", "dispatch", "free"}
      PROVE  rc[b][c] > 0
  <2>1. c \in left[b] /\ c \in Targets(b) /\ caller[b] # "idle"
    BY <1>5 DEF IInv, CountInv, PhaseOK, TicketInv, Releasing, IsFirst
  <2> QED
    BY <1>2, <1>5, <2>1 DEF Owned, Freed
<1>6. ASSUME NEW b \in Behaviors, NEW c \in Cowns, Releasing(b, c),
             runner[b] \in {"handoff", "dispatch"}
      PROVE  brc[next[b][c]] > 0
  <2>1. PICK m \in Behaviors : next[b][c] = m
    BY <1>t, <1>6 DEF IInv, RunnerInv, TypeOK
  <2>2. CASE caller[m] = "incref"
    BY <1>1, <2>1, <2>2
  <2>3. CASE caller[m] # "incref"
    <3>1. c \in Targets(m)
      <4>1. ticket[m][c] = ticket[b][c] + 1 /\ ticket[b][c] \in Nat
        BY <2>1, NextTicket
      <4> QED
        BY <4>1 DEF IInv, TicketInv
    <3>2. c \in Following(m)
      BY <1>5, <1>6, <2>1, <2>3, <3>1 DEF Following, Ahead
    <3> QED
      BY <1>1, <2>1, <3>2
  <2> QED
    BY <2>2, <2>3
<1> QED
  BY <1>1, <1>3, <1>4, <1>5, <1>6 DEF NoUseAfterFree

\* Nothing is freed while a thread is about to touch it: neither the
\* request in front, which request_start_enqueue_inner still spins on after
\* its owner may have released it, nor the behavior behind, whose reference
\* request->next owns before it is taken.
THEOREM NoEarlyFree == Spec => []NoUseAfterFree
<1>1. IInv /\ RInv => NoUseAfterFree
  BY RefsKeep
<1> QED
  BY <1>1, Invariance, RefsInvariance, PTL

LEMMA RefsGone ==
    ASSUME IInv, RInv
    PROVE  Reclaimed
<1>t. TypeOK /\ RcOK /\ BrcOK
  BY DEF IInv, RInv
<1> SUFFICES ASSUME AllDone
             PROVE  /\ \A b \in Behaviors : brc[b] = 0 /\ \A c \in Cowns : rc[b][c] = 0
                    /\ \A c \in Cowns : last[c] = Null
  BY DEF Reclaimed
<1>1. \A b \in Behaviors : caller[b] = "done" /\ runner[b] = "done"
  BY DEF AllDone
<1>2. ASSUME NEW b \in Behaviors, NEW c \in Cowns PROVE rc[b][c] = 0
  <2>1. ~Owned(b, c)
    BY <1>1 DEF Owned, Freed
  <2>2. ~Kept(b, c)
    BY <1>1 DEF Kept, Keeps, Touching
  <2> QED
    BY <1>t, <2>1, <2>2 DEF RcOK, RcOf
<1>3. ASSUME NEW b \in Behaviors PROVE brc[b] = 0
  <2>1. Following(b) = {}
    <3>1. Targets(b) \subseteq Cowns
      BY TargetsFinite
    <3> QED
      BY <1>2, <3>1 DEF Following, Ahead
  <2>2. Cardinality(Following(b)) = 0
    BY <2>1, FS_EmptySet
  <2> QED
    BY <1>t, <1>1, <2>2 DEF BrcOK, BrcOf, CallerRef, RunnerRef
<1>4. ASSUME NEW c \in Cowns PROVE last[c] = Null
  <2>1. SUFFICES ASSUME last[c] # Null PROVE FALSE
    OBVIOUS
  <2>2. PICK m \in Behaviors : m = last[c]
    BY <1>t, <2>1 DEF TypeOK
  <2>3. served[c] < tail[c] /\ ticket[m][c] = tail[c] /\ served[c] \in Nat /\ tail[c] \in Nat
    BY <1>t, <2>1, <2>2 DEF IInv, QueueInv, EndOK, TypeOK
  <2>4. ticket[m][c] # 0 /\ c \in Targets(m)
    <3>1. ticket[m][c] # 0
      BY <2>3
    <3> QED
      BY <3>1 DEF IInv, TicketInv
  <2>5. Released(m, c)
    BY <1>1 DEF Released
  <2>6. ticket[m][c] <= served[c]
    BY <2>4, <2>5 DEF IInv, RunnerInv, ReleasedOK
  <2> QED
    BY <2>3, <2>6
<1> QED
  BY <1>2, <1>3, <1>4

\* When every behavior has run, every request and every behavior has been
\* freed exactly once (request_free_inner, behavior_free) and every cown's
\* queue is empty: the next schedule finds last = NULL.
THEOREM AllReclaimed == Spec => []Reclaimed
<1>1. IInv /\ RInv => Reclaimed
  BY RefsGone
<1> QED
  BY <1>1, Invariance, RefsInvariance, PTL

-----------------------------------------------------------------------------
(***************************************************************************)
(* The order in which phase 1 ends, and the queues of the mapping.         *)
(***************************************************************************)

\* b does not know yet that the request in front of it has ended phase 1.
Unsure(b, c) == caller[b] \in {"hold", "publish", "incref", "spin"} /\ Linking(b, c)

MarkOK(b, c) == scheduled[b][c] => Queued(b)

\* Nobody is past a request before the one in front has ended phase 1.
ChainOK(a, b, c) ==
    ticket[a][c] # 0 /\ ticket[b][c] = ticket[a][c] + 1 /\ ~Unsure(b, c) => Queued(a)

\* No ticket is lost.
OntoOK(c) == \A n \in 1 .. tail[c] : \E b \in Behaviors : ticket[b][c] = n

\* Up to ticket k, and no further, whoever asked for c has ended phase 1.
UpTo(c, k) == \A b \in Behaviors : ticket[b][c] # 0 => (Queued(b) <=> ticket[b][c] <= k)

\* Those who have ended phase 1 are the first in the queue.
LineOK(c) == \E k \in served[c] .. tail[c] : UpTo(c, k)

LineInv ==
    /\ \A b \in Behaviors : \A c \in Cowns : MarkOK(b, c)
    /\ \A a, b \in Behaviors : \A c \in Cowns : ChainOK(a, b, c)
    /\ \A c \in Cowns : OntoOK(c) /\ LineOK(c)

\* What the invariant says of the mapped queue of c.
InLine(c) ==
    /\ Entered(c) \in served[c] .. tail[c] /\ UpTo(c, Entered(c))
    /\ \A k \in 0 .. tail[c] : UpTo(c, k) => k = Entered(c)
    /\ queue[c] \in Seq(Behaviors) /\ Len(queue[c]) = Entered(c) - served[c]
    /\ \A i \in 1 .. Len(queue[c]) : /\ queue[c][i] \in Behaviors
                                    /\ ticket[queue[c][i]][c] = served[c] + i

InLines == \A c \in Cowns : InLine(c)

\* The mapped queue is what it is meant to be.
LEMMA LineMeaning == IInv /\ LineInv => InLines
<1> SUFFICES ASSUME IInv, LineInv, NEW c \in Cowns PROVE InLine(c)
  BY DEF InLines
<1>1. /\ tail[c] \in Nat /\ served[c] \in Nat
      /\ \A b \in Behaviors : ticket[b][c] \in Nat /\ ticket[b][c] <= tail[c]
  BY TicketRange DEF IInv, TypeOK
<1>2. OntoOK(c) /\ LineOK(c)
  BY DEF LineInv
<1>3. ASSUME NEW j \in 0 .. tail[c], NEW k \in 0 .. tail[c], UpTo(c, j), UpTo(c, k), j < k
      PROVE  FALSE
  <2>1. PICK b \in Behaviors : ticket[b][c] = k
    BY <1>1, <1>2, <1>3 DEF OntoOK
  <2>2. k # 0 /\ k <= k /\ ~(k <= j)
    BY <1>1, <1>3
  <2> QED BY <1>3, <2>1, <2>2 DEF UpTo
<1>4. /\ Entered(c) \in served[c] .. tail[c] /\ UpTo(c, Entered(c))
      /\ \A k \in 0 .. tail[c] : UpTo(c, k) => k = Entered(c)
  <2>1. PICK k \in served[c] .. tail[c] : UpTo(c, k)
    BY <1>2 DEF LineOK
  <2>2. k \in 0 .. tail[c]
    BY <1>1, <2>1
  <2>a. AllIn(c, k)
    BY <1>1, <2>1, <2>2 DEF AllIn, UpTo
  <2>b. ASSUME NEW m \in 0 .. tail[c], k < m PROVE ~AllIn(c, m)
    <3>1. k + 1 \in 1 .. tail[c] /\ k + 1 \in 1 .. m /\ ~(k + 1 <= k)
      BY <1>1, <2>2, <2>b
    <3>2. PICK b \in Behaviors : ticket[b][c] = k + 1
      BY <1>2, <3>1 DEF OntoOK
    <3>3. ~Queued(b)
      BY <2>1, <2>2, <3>1, <3>2 DEF UpTo
    <3> QED BY <3>1, <3>2, <3>3 DEF AllIn
  <2>c. k = tail[c] \/ ~AllIn(c, k + 1)
    <3> SUFFICES ASSUME k # tail[c] PROVE ~AllIn(c, k + 1)
      OBVIOUS
    <3>1. k + 1 \in 0 .. tail[c] /\ k < k + 1
      BY <1>1, <2>2
    <3> QED BY <2>b, <3>1
  <2>d. Entered(c) \in 0 .. tail[c] /\ AllIn(c, Entered(c))
        /\ (Entered(c) = tail[c] \/ ~AllIn(c, Entered(c) + 1))
    BY <2>2, <2>a, <2>c DEF Entered
  <2>e. PICK e : e = Entered(c)
    OBVIOUS
  <2>f. e \in 0 .. tail[c] /\ AllIn(c, e) /\ (e = tail[c] \/ ~AllIn(c, e + 1))
    BY <2>d, <2>e
  <2>g. ~(k < e)
    BY <2>b, <2>f
  <2>h. ~(e < k)
    <3> SUFFICES ASSUME e < k PROVE FALSE
      OBVIOUS
    <3>1. e # tail[c] /\ \A n \in 1 .. e + 1 : n \in 1 .. k
      BY <1>1, <2>2, <2>f
    <3>2. AllIn(c, e + 1)
      BY <2>a, <3>1 DEF AllIn
    <3> QED BY <2>f, <3>1, <3>2
  <2>i. e = k
    BY <1>1, <2>2, <2>f, <2>g, <2>h
  <2>3. Entered(c) \in 0 .. tail[c] /\ UpTo(c, Entered(c))
    BY <2>1, <2>2, <2>e, <2>i
  <2>4. \A m \in 0 .. tail[c] : UpTo(c, m) => m = Entered(c)
    <3> SUFFICES ASSUME NEW m \in 0 .. tail[c], UpTo(c, m) PROVE m = Entered(c)
      OBVIOUS
    <3>1. ~(m < Entered(c)) /\ ~(Entered(c) < m)
      BY <1>3, <2>3
    <3> QED BY <1>1, <2>3, <3>1
  <2>5. k = Entered(c)
    BY <2>1, <2>2, <2>4
  <2> QED BY <2>1, <2>4, <2>5
<1>5. \A n \in 1 .. tail[c] : Holder(c, n) \in Behaviors /\ ticket[Holder(c, n)][c] = n
  BY <1>2 DEF OntoOK, Holder
<1>6. /\ queue[c] \in Seq(Behaviors) /\ Len(queue[c]) = Entered(c) - served[c]
      /\ \A i \in 1 .. Len(queue[c]) : /\ queue[c][i] \in Behaviors
                                       /\ ticket[queue[c][i]][c] = served[c] + i
  <2>1. PICK m \in Nat : m = Entered(c) - served[c]
    BY <1>1, <1>4
  <2>2. queue[c] = [i \in 1 .. m |-> Holder(c, served[c] + i)]
    BY <2>1 DEF queue
  <2>3. \A i \in 1 .. m : served[c] + i \in 1 .. tail[c]
    BY <1>1, <1>4, <2>1
  <2>4. \A i \in 1 .. m : /\ Holder(c, served[c] + i) \in Behaviors
                           /\ ticket[Holder(c, served[c] + i)][c] = served[c] + i
    BY <1>5, <2>3
  <2>5. queue[c] \in [1 .. m -> Behaviors]
    BY <2>2, <2>4
  <2>6. queue[c] \in Seq(Behaviors)
    BY <2>5, SeqDef
  <2>7. Len(queue[c]) \in Nat /\ DOMAIN queue[c] = 1 .. Len(queue[c])
    BY <2>6, LenProperties
  <2>8. Len(queue[c]) = m
    BY <2>5, <2>6, <2>7
  <2> QED BY <2>1, <2>2, <2>4, <2>6, <2>8
<1> QED BY <1>4, <1>6 DEF InLine

\* The same of the next state.
LEMMA LineMeaningNext == IInv' /\ LineInv' => InLines'
  BY LineMeaning, PTL

-----------------------------------------------------------------------------
(***************************************************************************)
(* What a step does to those who have ended phase 1.                       *)
(***************************************************************************)

\* The step that ends the phase 1 of b.
Enters(b) == \E c \in Cowns : (First(b, c) \/ Drop(b, c)) /\ todo[b] = {c}

LEMMA EntersMeans ==
    ASSUME IInv, NEW b \in Behaviors, Enters(b)
    PROVE  /\ ~Queued(b) /\ Queued(b)'
           /\ caller[b] \in {"first", "drop"} /\ caller'[b] = "finish"
           /\ \A a \in Behaviors : a # b => caller'[a] = caller[a] /\ todo'[a] = todo[a]
           /\ UNCHANGED <<history, runner, last, next, scheduled, left, prev>>
           /\ \A c \in Targets(b) : ticket[b][c] # 0
<1>1. PICK c \in Cowns : (First(b, c) \/ Drop(b, c)) /\ todo[b] = {c}
  BY DEF Enters
<1>2. /\ caller[b] \in {"first", "drop"} /\ Linking(b, c)
      /\ UNCHANGED <<history, runner, last, next, scheduled, left, prev>>
  BY <1>1 DEF First, Drop
<1>3. First(b, c) => ~ResolvesLast(b)
  <2>1. First(b, c) => count[b] > 1
    BY CountPositive DEF First
  <2> QED BY <2>1 DEF ResolvesLast
<1>4. Advance(b, c)
  BY <1>1, <1>3 DEF First, Drop
<1>5. /\ caller' = [caller EXCEPT ![b] = "finish"]
      /\ todo' = [todo EXCEPT ![b] = Targets(b)]
  BY <1>1, <1>4 DEF Advance, GotoCaller
<1>6. /\ caller'[b] = "finish"
      /\ \A a \in Behaviors : a # b => caller'[a] = caller[a] /\ todo'[a] = todo[a]
  BY <1>5 DEF IInv, TypeOK
<1>7. ~Queued(b) /\ Queued(b)'
  BY <1>2, <1>6 DEF Queued
<1>8. \A d \in Targets(b) : ticket[b][d] # 0
  BY <1>1, <1>2 DEF IInv, TicketInv, Unlinked
<1> QED
  BY <1>2, <1>6, <1>7, <1>8

\* Only that step adds to them, and nothing takes one away.
LEMMA QueuedStep ==
    ASSUME IInv, Next, NEW b \in Behaviors
    PROVE  Queued(b)' <=> Queued(b) \/ Enters(b)
<1> USE DEF GotoCaller, Queued
<1>t. TypeOK
  BY DEF IInv
<1>1. Enters(b) => Queued(b)'
  BY EntersMeans
<1>2. ASSUME NEW x \in Behaviors, Create(x) PROVE Queued(b)' <=> Queued(b)
  BY <1>t, <1>2 DEF Create, TypeOK
<1>3. ASSUME NEW x \in Behaviors, NEW c \in Cowns, Exchange(x, c)
      PROVE  Queued(b)' <=> Queued(b)
  BY <1>t, <1>3 DEF Exchange, TypeOK
<1>4. ASSUME NEW x \in Behaviors, NEW c \in Cowns, First(x, c) \/ Drop(x, c)
      PROVE  Queued(b)' => Queued(b) \/ Enters(b)
  <2>1. First(x, c) => ~ResolvesLast(x)
    <3>1. First(x, c) => count[x] > 1
      BY CountPositive DEF First
    <3> QED BY <3>1 DEF ResolvesLast
  <2>2. Advance(x, c) /\ caller[x] \in {"first", "drop"}
    BY <1>4, <2>1 DEF First, Drop
  <2>3. CASE todo[x] = {c}
    BY <1>t, <1>4, <2>2, <2>3 DEF Enters, Advance, TypeOK
  <2>4. CASE todo[x] # {c}
    BY <1>t, <2>2, <2>4 DEF Advance, TypeOK
  <2> QED BY <2>3, <2>4
<1>5. ASSUME NEW x \in Behaviors, NEW c \in Cowns, First(x, c) \/ Drop(x, c)
      PROVE  Queued(b) => Queued(b)'
  <2>1. caller[x] \in {"first", "drop"}
    BY <1>5 DEF First, Drop
  <2>2. \A a \in Behaviors : a # x => caller'[a] = caller[a] /\ todo'[a] = todo[a]
    BY <1>t, <1>5 DEF First, Drop, Advance, TypeOK
  <2> QED BY <2>1, <2>2
<1>6. ASSUME NEW x \in Behaviors, NEW c \in Cowns, Hold(x, c) \/ Publish(x, c) \/ Spin(x, c)
      PROVE  Queued(b)' <=> Queued(b)
  BY <1>t, <1>6 DEF Hold, Publish, Spin, TypeOK
<1>7. ASSUME NEW x \in Behaviors, Incref(x) \/ Return(x)
      PROVE  Queued(b)' <=> Queued(b)
  BY <1>t, <1>7 DEF Incref, Return, TypeOK
<1>8. ASSUME NEW x \in Behaviors, NEW c \in Cowns, Finish(x, c)
      PROVE  Queued(b)' <=> Queued(b)
  BY <1>t, <1>8 DEF Finish, TypeOK
<1>9. ASSUME NEW x \in Behaviors, Final(x) \/ CallerDispatch(x)
      PROVE  Queued(b)' <=> Queued(b)
  <2>1. todo[x] = {} /\ caller[x] \in {"final", "dispatch"}
    BY <1>9 DEF Final, CallerDispatch, IInv, CountInv, PhaseOK
  <2>2. /\ todo' = todo /\ caller'[x] \in {"dispatch", "return"}
        /\ \A a \in Behaviors : a # x => caller'[a] = caller[a]
    BY <1>t, <1>9, <2>1 DEF Final, CallerDispatch, TypeOK
  <2> QED BY <2>1, <2>2
<1>10. ASSUME UNCHANGED <<caller, todo>> PROVE Queued(b)' <=> Queued(b)
  BY <1>10
<1> QED
  <2>1. ASSUME NEW x \in Behaviors, CallerStep(x) PROVE Queued(b)' <=> Queued(b) \/ Enters(b)
    BY <1>1, <1>3, <1>4, <1>5, <1>6, <1>7, <1>8, <1>9, <2>1 DEF CallerStep
  <2>2. ASSUME NEW x \in Behaviors, RunnerStep(x) PROVE UNCHANGED <<caller, todo>>
    <3>1. Start(x) \/ EndBody(x) \/ End(x) => UNCHANGED <<caller, todo>>
      BY DEF Start, EndBody, End
    <3>2. ASSUME NEW c \in Cowns,
                 ReadNext(x, c) \/ Cas(x, c) \/ Await(x, c) \/ Handoff(x, c)
                 \/ RunnerDispatch(x, c) \/ Free(x, c)
          PROVE  UNCHANGED <<caller, todo>>
      BY <3>2 DEF ReadNext, Cas, Await, Handoff, RunnerDispatch, Free
    <3> QED BY <2>2, <3>1, <3>2 DEF RunnerStep
  <2>3. Finished => UNCHANGED <<caller, todo>>
    BY DEF Finished, vars, threads
  <2> QED BY <1>1, <1>2, <1>10, <2>1, <2>2, <2>3 DEF Next

-----------------------------------------------------------------------------
(***************************************************************************)
(* The order in which phase 1 ends is an invariant.                        *)
(***************************************************************************)

\* Tickets are given out by the exchange alone.
LEMMA TicketMoves ==
    ASSUME Next
    PROVE  \/ UNCHANGED <<ticket, tail>>
           \/ \E b \in Behaviors : \E c \in Cowns : Exchange(b, c)
<1>1. ASSUME NEW x \in Behaviors, NEW c \in Cowns,
             \/ First(x, c) \/ Hold(x, c) \/ Publish(x, c) \/ Spin(x, c) \/ Drop(x, c)
             \/ Finish(x, c)
             \/ ReadNext(x, c) \/ Cas(x, c) \/ Await(x, c) \/ Handoff(x, c)
             \/ RunnerDispatch(x, c) \/ Free(x, c)
      PROVE  UNCHANGED <<ticket, tail>>
  BY <1>1 DEF First, Hold, Publish, Spin, Drop, Finish, ReadNext, Cas, Await, Handoff,
              RunnerDispatch, Free, history
<1>2. ASSUME NEW x \in Behaviors,
             \/ Create(x) \/ Incref(x) \/ Final(x) \/ CallerDispatch(x) \/ Return(x)
             \/ Start(x) \/ EndBody(x) \/ End(x)
      PROVE  UNCHANGED <<ticket, tail>>
  BY <1>2 DEF Create, Incref, Final, CallerDispatch, Return, Start, EndBody, End, history
<1>3. Finished => UNCHANGED <<ticket, tail>>
  BY DEF Finished, vars, history
<1> QED
  BY <1>1, <1>2, <1>3 DEF Next, CallerStep, RunnerStep

\* What the exchange does to tickets.
LEMMA ExchangeMeans ==
    ASSUME IInv, NEW x \in Behaviors, NEW d \in Cowns, Exchange(x, d)
    PROVE  /\ caller[x] = "link" /\ Linking(x, d) /\ d \in Targets(x)
           /\ caller'[x] = IF last[d] = Null THEN "first" ELSE "hold"
           /\ prev'[x] = last[d]
           /\ \A a \in Behaviors : a # x => caller'[a] = caller[a] /\ prev'[a] = prev[a]
           /\ UNCHANGED <<todo, runner, left, scheduled, served, next>>
           /\ ticket[x][d] = 0 /\ ticket'[x][d] = tail[d] + 1
           /\ \A a \in Behaviors : \A c \in Cowns :
                  a # x \/ c # d => ticket'[a][c] = ticket[a][c]
           /\ tail'[d] = tail[d] + 1 /\ \A c \in Cowns : c # d => tail'[c] = tail[c]
           /\ tail[d] \in Nat
<1>1. caller[x] = "link" /\ Linking(x, d) /\ d \in todo[x] /\ d \in Targets(x)
  BY DEF Exchange, Linking, IsFirst, IInv, TicketInv
<1>2. ticket[x][d] = 0
  BY <1>1 DEF IInv, TicketInv, Unlinked
<1> QED
  BY <1>1, <1>2 DEF Exchange, GotoCaller, IInv, TypeOK

\* Whoever has been served was dispatched, and so has ended phase 1.
LEMMA ServedIsQueued ==
    ASSUME IInv, NEW b \in Behaviors, NEW c \in Cowns,
           ticket[b][c] # 0, ticket[b][c] <= served[c]
    PROVE  Queued(b)
<1>1. c \in Targets(b)
  BY DEF IInv, TicketInv
<1>2. Released(b, c)
  BY <1>1 DEF IInv, RunnerInv, ReleasedOK
<1>3. runner[b] # "none"
  BY <1>2 DEF Released
<1> QED BY <1>3 DEF IInv, CountInv, PhaseOK, Queued

LEMMA OntoStep ==
    ASSUME IInv, LineInv, Next, NEW c \in Cowns
    PROVE  OntoOK(c)'
<1>1. CASE UNCHANGED <<ticket, tail>>
  BY <1>1 DEF LineInv, OntoOK
<1>2. ASSUME NEW x \in Behaviors, NEW d \in Cowns, Exchange(x, d) PROVE OntoOK(c)'
  <2> SUFFICES ASSUME NEW n \in 1 .. tail'[c] PROVE \E b \in Behaviors : ticket'[b][c] = n
    BY DEF OntoOK
  <2>1. CASE c = d /\ n = tail[d] + 1
    BY <1>2, <2>1, ExchangeMeans
  <2>2. CASE ~(c = d /\ n = tail[d] + 1)
    <3>1. n \in 1 .. tail[c]
      BY <1>2, <2>2, ExchangeMeans
    <3>2. PICK b \in Behaviors : ticket[b][c] = n
      BY <3>1 DEF LineInv, OntoOK
    <3>3. ~(b = x /\ c = d)
      BY <1>2, <3>1, <3>2, ExchangeMeans
    <3> QED BY <1>2, <3>2, <3>3, ExchangeMeans
  <2> QED BY <2>1, <2>2
<1> QED BY <1>1, <1>2, TicketMoves

LEMMA MarkStep ==
    ASSUME IInv, LineInv, Next, NEW b \in Behaviors, NEW c \in Cowns
    PROVE  MarkOK(b, c)'
<1>1. Queued(b) => Queued(b)'
  BY QueuedStep
<1>2. CASE UNCHANGED scheduled
  BY <1>1, <1>2 DEF LineInv, MarkOK
<1>3. ASSUME NEW x \in Behaviors, NEW d \in Cowns, Finish(x, d) PROVE MarkOK(b, c)'
  <2>1. Queued(x)
    BY <1>3 DEF Finish, Queued
  <2>2. b # x => scheduled'[b] = scheduled[b]
    BY <1>3 DEF Finish, IInv, TypeOK
  <2> QED BY <1>1, <2>1, <2>2 DEF LineInv, MarkOK
<1>4. UNCHANGED scheduled \/ \E x \in Behaviors : \E d \in Cowns : Finish(x, d)
  <2>1. ASSUME NEW x \in Behaviors, NEW d \in Cowns,
               \/ Exchange(x, d) \/ First(x, d) \/ Hold(x, d) \/ Publish(x, d)
               \/ Spin(x, d) \/ Drop(x, d)
               \/ ReadNext(x, d) \/ Cas(x, d) \/ Await(x, d) \/ Handoff(x, d)
               \/ RunnerDispatch(x, d) \/ Free(x, d)
        PROVE  UNCHANGED scheduled
    BY <2>1 DEF Exchange, First, Hold, Publish, Spin, Drop, ReadNext, Cas, Await, Handoff,
                RunnerDispatch, Free, memory
  <2>2. ASSUME NEW x \in Behaviors,
               \/ Create(x) \/ Incref(x) \/ Final(x) \/ CallerDispatch(x) \/ Return(x)
               \/ Start(x) \/ EndBody(x) \/ End(x)
        PROVE  UNCHANGED scheduled
    BY <2>2 DEF Create, Incref, Final, CallerDispatch, Return, Start, EndBody, End, memory
  <2>3. Finished => UNCHANGED scheduled
    BY DEF Finished, vars, memory
  <2> QED
    BY <2>1, <2>2, <2>3 DEF Next, CallerStep, RunnerStep
<1> QED BY <1>2, <1>3, <1>4

\* The doubt ends with the wait for the scheduled flag of the one in front.
LEMMA DoubtEnds ==
    ASSUME IInv, Next, NEW b \in Behaviors, NEW c \in Cowns, Unsure(b, c), ~Unsure(b, c)'
    PROVE  Spin(b, c)
<1> USE DEF Unsure, GotoCaller, Linking
<1>t. TypeOK
  BY DEF IInv
<1>1. \A d \in Cowns : Linking(b, d) => d = c
  BY <1>t, FirstIsUnique DEF TypeOK
<1>2. CASE UNCHANGED <<caller, todo>>
  BY <1>2
<1>3. ASSUME NEW x \in Behaviors, NEW d \in Cowns,
             Exchange(x, d) \/ First(x, d) \/ Drop(x, d) \/ Finish(x, d)
      PROVE  FALSE
  <2>1. caller[x] \in {"link", "first", "drop", "finish"}
    BY <1>3 DEF Exchange, First, Drop, Finish
  <2>2. \A a \in Behaviors : a # x => caller'[a] = caller[a] /\ todo'[a] = todo[a]
    BY <1>t, <1>3 DEF Exchange, First, Drop, Finish, Advance, TypeOK
  <2> QED BY <2>1, <2>2
<1>4. ASSUME NEW x \in Behaviors, NEW d \in Cowns,
             Hold(x, d) \/ Publish(x, d) \/ (Spin(x, d) /\ x # b)
      PROVE  FALSE
  BY <1>t, <1>4 DEF Hold, Publish, Spin, TypeOK
<1>5. ASSUME NEW x \in Behaviors, Create(x) \/ Final(x) \/ CallerDispatch(x) \/ Return(x)
      PROVE  FALSE
  <2>1. caller[x] \in {"idle", "final", "dispatch", "return"}
    BY <1>5 DEF Create, Final, CallerDispatch, Return
  <2>2. \A a \in Behaviors : a # x => caller'[a] = caller[a] /\ todo'[a] = todo[a]
    BY <1>t, <1>5 DEF Create, Final, CallerDispatch, Return, Advance, TypeOK
  <2> QED BY <2>1, <2>2
<1>6. ASSUME NEW x \in Behaviors, Incref(x) PROVE FALSE
  BY <1>t, <1>6 DEF Incref, TypeOK
<1>7. ASSUME NEW x \in Behaviors, RunnerStep(x) PROVE UNCHANGED <<caller, todo>>
  <2>1. Start(x) \/ EndBody(x) \/ End(x) => UNCHANGED <<caller, todo>>
    BY DEF Start, EndBody, End
  <2>2. ASSUME NEW d \in Cowns,
               ReadNext(x, d) \/ Cas(x, d) \/ Await(x, d) \/ Handoff(x, d)
               \/ RunnerDispatch(x, d) \/ Free(x, d)
        PROVE  UNCHANGED <<caller, todo>>
    BY <2>2 DEF ReadNext, Cas, Await, Handoff, RunnerDispatch, Free
  <2> QED BY <1>7, <2>1, <2>2 DEF RunnerStep
<1>8. Finished => UNCHANGED <<caller, todo>>
  BY DEF Finished, vars, threads
<1>9. ASSUME NEW x \in Behaviors, CallerStep(x) PROVE Spin(b, c)
  <2>1. PICK d \in Cowns : Spin(x, d)
    BY <1>3, <1>4, <1>5, <1>6, <1>9 DEF CallerStep
  <2>2. x = b
    BY <1>4, <2>1
  <2> QED BY <1>1, <2>1, <2>2 DEF Spin
<1> QED BY <1>2, <1>5, <1>7, <1>8, <1>9 DEF Next

LEMMA ChainStep ==
    ASSUME IInv, LinkOK, LineInv, Next,
           NEW a \in Behaviors, NEW b \in Behaviors, NEW c \in Cowns
    PROVE  ChainOK(a, b, c)'
<1> SUFFICES ASSUME ticket'[a][c] # 0, ticket'[b][c] = ticket'[a][c] + 1, ~Unsure(b, c)'
             PROVE  Queued(a)'
  BY DEF ChainOK
<1>1. Queued(a) => Queued(a)'
  BY QueuedStep
<1>2. ASSUME UNCHANGED ticket, ~Unsure(b, c) PROVE Queued(a)
  BY <1>2 DEF LineInv, ChainOK
<1>3. ASSUME UNCHANGED ticket, Unsure(b, c) PROVE Queued(a)
  <2>1. Spin(b, c)
    BY <1>3, DoubtEnds
  <2>2. /\ caller[b] \in Touching \cup {"hold"} /\ Linking(b, c)
        /\ scheduled[prev[b]][c]
    BY <2>1 DEF Spin, PrevIsScheduled, Touching
  <2>3. /\ prev[b] \in Behaviors /\ ticket[prev[b]][c] # 0
        /\ ticket[b][c] = ticket[prev[b]][c] + 1
    BY <2>2, LinkerIsNext
  <2>4. ticket[a][c] \in Nat /\ ticket[prev[b]][c] \in Nat
    BY <2>3, TicketRange
  <2>5. ticket[prev[b]][c] = ticket[a][c]
    BY <1>3, <2>3, <2>4
  <2>6. prev[b] = a
    BY <2>3, <2>5 DEF IInv, TicketInv
  <2> QED BY <2>2, <2>6 DEF LineInv, MarkOK
<1>4. ASSUME NEW x \in Behaviors, NEW d \in Cowns, Exchange(x, d) PROVE Queued(a)
  <2>1. \A y \in Behaviors : ticket[y][c] \in Nat /\ ticket[y][c] <= tail[c]
    BY TicketRange
  <2>2. CASE c # d \/ (a # x /\ b # x)
    <3>1. ticket'[a][c] = ticket[a][c] /\ ticket'[b][c] = ticket[b][c]
      BY <1>4, <2>2, ExchangeMeans
    <3>2. ~Unsure(b, c)
      <4>1. UNCHANGED todo /\ caller[x] = "link"
            /\ \A y \in Behaviors : y # x => caller'[y] = caller[y]
        BY <1>4, ExchangeMeans
      <4> QED BY <4>1 DEF Unsure, Linking
    <3> QED BY <3>1, <3>2 DEF LineInv, ChainOK
  <2>3. CASE c = d /\ a = x
    <3>1. ticket'[a][c] = tail[c] + 1 /\ tail[c] \in Nat
      BY <1>4, <2>3, ExchangeMeans
    <3>2. b # x => ticket'[b][c] <= tail[c] /\ ticket'[b][c] \in Nat
      BY <1>4, <2>1, <2>3, ExchangeMeans
    <3> QED BY <2>3, <3>1, <3>2
  <2>4. CASE c = d /\ b = x /\ a # x
    <3>1. /\ ticket'[b][c] = tail[c] + 1 /\ tail[c] \in Nat
          /\ ticket'[a][c] = ticket[a][c]
      BY <1>4, <2>4, ExchangeMeans
    <3>2. ticket[a][c] = tail[c] /\ ticket[a][c] # 0
      BY <2>1, <3>1
    <3>3. last[c] = Null
      BY <1>4, <2>4, ExchangeMeans DEF Unsure, Linking
    <3>4. served[c] = tail[c]
      BY <3>3 DEF IInv, QueueInv, EndOK
    <3> QED BY <2>1, <3>2, <3>4, ServedIsQueued
  <2> QED BY <2>2, <2>3, <2>4
<1> QED BY <1>1, <1>2, <1>3, <1>4, TicketMoves

-----------------------------------------------------------------------------
(***************************************************************************)
(* The steps that the program sees.                                        *)
(***************************************************************************)

\* release_all gives up cown c.
Gives(b, c) == Handoff(b, c) \/ (Cas(b, c) /\ last[c] = b)

RunnerSame(b) ==
    /\ runner'[b] \in {"none", "ready"} <=> runner[b] \in {"none", "ready"}
    /\ runner'[b] = "running" <=> runner[b] = "running"

\* Nothing that the mapping reads has changed.
Unseen == /\ \A b \in Behaviors : (Queued(b)' <=> Queued(b)) /\ RunnerSame(b)
          /\ UNCHANGED history

LEMMA StepKinds ==
    ASSUME IInv, Next
    PROVE  \/ Unseen
           \/ \E b \in Behaviors : Enters(b) \/ Start(b) \/ EndBody(b)
           \/ \E b \in Behaviors : \E c \in Cowns : Exchange(b, c) \/ Gives(b, c)
<1> SUFFICES ASSUME ~\E b \in Behaviors : Enters(b) \/ Start(b) \/ EndBody(b),
                    ~\E b \in Behaviors : \E c \in Cowns : Exchange(b, c) \/ Gives(b, c)
             PROVE  UNCHANGED history /\ \A b \in Behaviors : RunnerSame(b)
  BY QueuedStep DEF Unseen
<1>t. TypeOK
  BY DEF IInv
<1>1. ASSUME UNCHANGED runner, NEW b \in Behaviors PROVE RunnerSame(b)
  BY <1>1 DEF RunnerSame
<1>2. ASSUME NEW x \in Behaviors, NEW c \in Cowns,
             \/ First(x, c) \/ Hold(x, c) \/ Publish(x, c) \/ Spin(x, c) \/ Drop(x, c)
             \/ Finish(x, c)
      PROVE  UNCHANGED <<history, runner>>
  BY <1>2 DEF First, Hold, Publish, Spin, Drop, Finish
<1>3. ASSUME NEW x \in Behaviors, Create(x) \/ Incref(x) \/ Final(x) \/ Return(x)
      PROVE  UNCHANGED <<history, runner>>
  BY <1>3 DEF Create, Incref, Final, Return
<1>4. ASSUME NEW x \in Behaviors, CallerDispatch(x), NEW b \in Behaviors
      PROVE  UNCHANGED history /\ RunnerSame(b)
  <2>1. runner[x] = "none"
    BY <1>4 DEF CallerDispatch, IInv, CountInv, PhaseOK
  <2> QED BY <1>t, <1>4, <2>1 DEF CallerDispatch, GotoRunner, RunnerSame, TypeOK
<1>5. ASSUME NEW x \in Behaviors, NEW c \in Cowns,
             ReadNext(x, c) \/ Await(x, c) \/ Free(x, c), NEW b \in Behaviors
      PROVE  UNCHANGED history /\ RunnerSame(b)
  <2>1. ReadNext(x, c) => UNCHANGED history /\ RunnerSame(b)
    BY <1>t DEF ReadNext, GotoRunner, RunnerSame, TypeOK
  <2>2. Await(x, c) => UNCHANGED history /\ RunnerSame(b)
    BY <1>t DEF Await, GotoRunner, RunnerSame, TypeOK
  <2>3. Free(x, c) => UNCHANGED history /\ RunnerSame(b)
    BY <1>t DEF Free, GotoRunner, RunnerSame, TypeOK
  <2> QED BY <1>5, <2>1, <2>2, <2>3
<1>6. ASSUME NEW x \in Behaviors, NEW c \in Cowns, Cas(x, c), NEW b \in Behaviors
      PROVE  UNCHANGED history /\ RunnerSame(b)
  <2>1. last[c] # x
    BY <1>6 DEF Gives
  <2> QED BY <1>t, <1>6, <2>1 DEF Cas, GotoRunner, RunnerSame, TypeOK, history
<1>7. ASSUME NEW x \in Behaviors, NEW c \in Cowns, RunnerDispatch(x, c), NEW b \in Behaviors
      PROVE  UNCHANGED history /\ RunnerSame(b)
  <2>1. PICK n \in Behaviors : n = next[x][c]
    BY <1>7 DEF RunnerDispatch, IInv, TypeOK, RunnerInv
  <2>2. runner[n] = "none" /\ runner[x] = "dispatch" /\ UNCHANGED history
    BY <1>7, <2>1 DEF RunnerDispatch, IInv, CountInv, DispatchOK
  <2>3. runner' = [runner EXCEPT ![n] = "ready", ![x] = "free"]
    BY <1>7, <2>1 DEF RunnerDispatch
  <2> QED BY <1>t, <2>2, <2>3 DEF RunnerSame, TypeOK
<1>8. ASSUME NEW x \in Behaviors, End(x), NEW b \in Behaviors
      PROVE  UNCHANGED history /\ RunnerSame(b)
  BY <1>t, <1>8 DEF End, GotoRunner, RunnerSame, TypeOK
<1>9. Finished => UNCHANGED <<history, runner>>
  BY DEF Finished, vars, threads, history
<1>10. ASSUME NEW x \in Behaviors, Create(x) \/ CallerStep(x), NEW b \in Behaviors
       PROVE  UNCHANGED history /\ RunnerSame(b)
  BY <1>1, <1>2, <1>3, <1>4, <1>10 DEF CallerStep
<1>11. ASSUME NEW x \in Behaviors, RunnerStep(x), NEW b \in Behaviors
       PROVE  UNCHANGED history /\ RunnerSame(b)
  BY <1>5, <1>6, <1>7, <1>8, <1>11 DEF RunnerStep, Gives
<1>12. Behaviors = {} => UNCHANGED history
  BY <1>9 DEF Next
<1> QED BY <1>1, <1>9, <1>10, <1>11, <1>12 DEF Next

\* The ticket being served passes on.
LEMMA GivesMeans ==
    ASSUME IInv, NEW b \in Behaviors, NEW c \in Cowns, Gives(b, c)
    PROVE  /\ runner[b] \in {"cas", "handoff"} /\ Queued(b)
           /\ c \in Targets(b) /\ ticket[b][c] = served[c] + 1
           /\ served'[c] = served[c] + 1
           /\ \A d \in Cowns : d # c => served'[d] = served[d]
           /\ UNCHANGED <<ticket, tail, caller, todo>>
           /\ \A a \in Behaviors : RunnerSame(a)
<1>1. runner[b] \in {"cas", "handoff"} /\ Releasing(b, c)
  BY DEF Gives, Cas, Handoff
<1>2. c \in left[b] /\ c \in Targets(b) /\ ~Released(b, c)
  BY <1>1 DEF Releasing, IsFirst, Released, IInv, TicketInv
<1>3. ticket[b][c] = served[c] + 1
  BY <1>1, <1>2, HolderIsServed
<1>4. Queued(b)
  BY <1>1 DEF IInv, CountInv, PhaseOK, Queued
<1>5. /\ served'[c] = served[c] + 1
      /\ \A d \in Cowns : d # c => served'[d] = served[d]
      /\ UNCHANGED <<ticket, tail, caller, todo>>
  BY DEF Gives, Cas, Handoff, IInv, TypeOK
<1>6. runner'[b] \in {"free", "dispatch"} /\ \A a \in Behaviors : a # b => runner'[a] = runner[a]
  BY DEF Gives, Cas, Handoff, GotoRunner, IInv, TypeOK
<1> QED BY <1>1, <1>2, <1>3, <1>4, <1>5, <1>6 DEF RunnerSame

\* Whoever ends phase 1 comes, in every queue, right behind those who have.
LEMMA EntersAt ==
    ASSUME IInv, LineInv, NEW b \in Behaviors, Enters(b), NEW c \in Targets(b),
           NEW k \in 0 .. tail[c], UpTo(c, k)
    PROVE  ticket[b][c] = k + 1
<1>1. c \in Cowns
  BY TargetsFinite
<1>2. ticket[b][c] # 0 /\ ~Queued(b) /\ caller[b] \in {"first", "drop"}
  BY EntersMeans
<1>3. ~(ticket[b][c] <= k)
  BY <1>2 DEF UpTo
<1>4. ticket[b][c] \in Nat /\ tail[c] \in Nat /\ ticket[b][c] <= tail[c]
  BY <1>1, TicketRange
<1>5. ASSUME ticket[b][c] > k + 1 PROVE FALSE
  <2>1. ticket[b][c] - 1 \in 1 .. tail[c]
    BY <1>4, <1>5
  <2>2. PICK a \in Behaviors : ticket[a][c] = ticket[b][c] - 1
    BY <1>1, <2>1 DEF LineInv, OntoOK
  <2>3. ticket[a][c] # 0 /\ ticket[b][c] = ticket[a][c] + 1 /\ ~(ticket[a][c] <= k)
    BY <1>4, <1>5, <2>1, <2>2
  <2>4. Queued(a)
    BY <1>1, <1>2, <2>3 DEF LineInv, ChainOK, Unsure
  <2> QED BY <2>3, <2>4 DEF UpTo
<1> QED BY <1>3, <1>4, <1>5

\* The same of the state the step leads to.
LEMMA EntersNext ==
    ASSUME IInv, LineInv, Next, NEW b \in Behaviors, Enters(b), NEW c \in Cowns,
           NEW k \in 0 .. tail[c], UpTo(c, k)
    PROVE  IF c \in Targets(b) THEN UpTo(c, k + 1)' /\ k + 1 \in 0 .. tail[c]
                               ELSE UpTo(c, k)'
<1>1. \A a \in Behaviors : Queued(a)' <=> Queued(a) \/ a = b
  <2>1. ASSUME NEW a \in Behaviors, Enters(a) PROVE a = b
    BY <2>1, EntersMeans
  <2> QED BY <2>1, QueuedStep, EntersMeans
<1>2. UNCHANGED <<ticket, tail>>
  BY EntersMeans DEF history
<1>3. \A a \in Behaviors : ticket[a][c] \in Nat /\ ticket[a][c] <= tail[c] /\ tail[c] \in Nat
  BY TicketRange
<1>4. CASE c \in Targets(b)
  <2>1. ticket[b][c] = k + 1
    BY <1>4, EntersAt
  <2>2. \A a \in Behaviors : ticket[a][c] = k + 1 => a = b
    BY <2>1 DEF IInv, TicketInv
  <2>3. UpTo(c, k + 1)'
    BY <1>1, <1>2, <1>3, <2>1, <2>2 DEF UpTo
  <2> QED BY <1>3, <1>4, <2>1, <2>3
<1>5. CASE c \notin Targets(b)
  <2>1. ticket[b][c] = 0
    BY <1>5 DEF IInv, TicketInv
  <2> QED BY <1>1, <1>2, <1>5, <2>1 DEF UpTo
<1> QED BY <1>4, <1>5

LEMMA LineStep ==
    ASSUME IInv, IInv', LineInv, Next, NEW c \in Cowns
    PROVE  LineOK(c)'
<1>1. PICK k \in served[c] .. tail[c] : UpTo(c, k)
  BY DEF LineInv, LineOK
<1>2. /\ tail[c] \in Nat /\ served[c] \in Nat /\ k \in 0 .. tail[c]
      /\ \A b \in Behaviors : ticket[b][c] \in Nat /\ ticket[b][c] <= tail[c]
  BY <1>1, TicketRange DEF IInv, TypeOK
<1>3. CASE Unseen
  BY <1>1, <1>3 DEF Unseen, history, UpTo, LineOK
<1>4. ASSUME NEW b \in Behaviors, Enters(b) PROVE LineOK(c)'
  <2>1. UNCHANGED <<tail, served>>
    BY <1>4, EntersMeans DEF history
  <2>2. CASE c \in Targets(b)
    <3>1. UpTo(c, k + 1)' /\ k + 1 \in 0 .. tail[c]
      BY <1>1, <1>2, <1>4, <2>2, EntersNext
    <3> QED BY <1>1, <1>2, <2>1, <3>1 DEF LineOK
  <2>3. CASE c \notin Targets(b)
    <3>1. UpTo(c, k)'
      BY <1>1, <1>2, <1>4, <2>3, EntersNext
    <3> QED BY <1>1, <2>1, <3>1 DEF LineOK
  <2> QED BY <2>2, <2>3
<1>5. ASSUME NEW b \in Behaviors, Start(b) \/ EndBody(b) PROVE LineOK(c)'
  BY <1>1, <1>5 DEF Start, EndBody, history, Queued, UpTo, LineOK
<1>6. ASSUME NEW b \in Behaviors, NEW d \in Cowns, Exchange(b, d) PROVE LineOK(c)'
  <2>1. /\ caller[b] = "link" /\ caller'[b] \in {"first", "hold"} /\ UNCHANGED <<todo, served>>
        /\ \A a \in Behaviors : a # b => caller'[a] = caller[a]
    BY <1>6, ExchangeMeans
  <2>2. \A a \in Behaviors : Queued(a)' <=> Queued(a)
    BY <2>1 DEF Queued
  <2>3. ~Queued(b) /\ ~Queued(b)'
    BY <2>1 DEF Queued
  <2>4. /\ \A a \in Behaviors : a # b \/ c # d => ticket'[a][c] = ticket[a][c]
        /\ c = d => ticket'[b][c] = tail[c] + 1
        /\ tail'[c] = tail[c] \/ tail'[c] = tail[c] + 1
    BY <1>6, ExchangeMeans
  <2>5. UpTo(c, k)'
    <3> SUFFICES ASSUME NEW a \in Behaviors, ticket'[a][c] # 0
                 PROVE  Queued(a)' <=> ticket'[a][c] <= k
      BY DEF UpTo
    <3>1. CASE a = b /\ c = d
      BY <1>1, <1>2, <2>3, <2>4, <3>1
    <3>2. CASE a # b \/ c # d
      BY <1>1, <2>2, <2>4, <3>2 DEF UpTo
    <3> QED BY <3>1, <3>2
  <2> QED BY <1>1, <1>2, <2>1, <2>4, <2>5 DEF LineOK
<1>7. ASSUME NEW b \in Behaviors, NEW d \in Cowns, Gives(b, d) PROVE LineOK(c)'
  <2>1. /\ Queued(b) /\ ticket[b][d] = served[d] + 1
        /\ served'[d] = served[d] + 1
        /\ c # d => served'[c] = served[c]
        /\ UNCHANGED <<ticket, tail, caller, todo>>
    BY <1>7, GivesMeans
  <2>2. UpTo(c, k)'
    BY <1>1, <2>1 DEF UpTo, Queued
  <2>3. c = d => served[c] + 1 <= k
    BY <1>1, <1>2, <2>1 DEF UpTo
  <2> QED BY <1>1, <1>2, <2>1, <2>2, <2>3 DEF LineOK
<1> QED BY <1>3, <1>4, <1>5, <1>6, <1>7, StepKinds

\* The order in which phase 1 ends is that of the tickets, in every queue.
THEOREM Order == Spec => []LineInv
<1>1. Init => LineInv
  <2> SUFFICES ASSUME Init PROVE LineInv
    OBVIOUS
  <2>1. \A c \in Cowns : OntoOK(c)
    BY DEF Init, OntoOK
  <2>2. ASSUME NEW c \in Cowns PROVE LineOK(c)
    <3>1. UpTo(c, 0)
      BY DEF Init, UpTo
    <3>2. 0 \in served[c] .. tail[c]
      BY DEF Init
    <3> QED BY <3>1, <3>2 DEF LineOK
  <2> QED BY <2>1, <2>2 DEF Init, LineInv, MarkOK, ChainOK
<1>2. IInv /\ RInv /\ IInv' /\ LineInv /\ [Next]_vars => LineInv'
  <2> SUFFICES ASSUME IInv, RInv, IInv', LineInv, [Next]_vars PROVE LineInv'
    OBVIOUS
  <2>1. CASE Next
    <3>1. LinkOK
      BY DEF RInv
    <3> QED BY <2>1, <3>1, OntoStep, MarkStep, ChainStep, LineStep DEF LineInv
  <2>2. CASE UNCHANGED vars
    BY <2>2 DEF vars, memory, threads, history, LineInv, MarkOK, ChainOK, OntoOK, LineOK,
                UpTo, Queued, Unsure, Linking
  <2> QED BY <2>1, <2>2
<1> QED
  BY <1>1, <1>2, Invariance, RefsInvariance, PTL DEF Spec

-----------------------------------------------------------------------------
(***************************************************************************)
(* Every step is one of BOC's, or none.                                    *)
(***************************************************************************)

\* A queue stays as it is when the same behaviors are in line.
LEMMA QueueSame ==
    ASSUME IInv, IInv', NEW c \in Cowns, InLine(c), InLine(c)', UNCHANGED served[c],
           NEW k \in 0 .. tail'[c], k = Entered(c), UpTo(c, k)',
           \A b \in Behaviors : ticket[b][c] # 0 => ticket'[b][c] = ticket[b][c]
    PROVE  queue'[c] = queue[c]
<1>1. k = Entered(c)'
  BY DEF InLine
<1>4. /\ queue[c] \in Seq(Behaviors) /\ queue'[c] \in Seq(Behaviors)
      /\ Len(queue'[c]) = Len(queue[c])
  BY <1>1 DEF InLine
<1>5. ASSUME NEW i \in 1 .. Len(queue[c]) PROVE queue[c][i] = queue'[c][i]
  <2>1. PICK a \in Behaviors : a = queue[c][i] /\ ticket[a][c] = served[c] + i
    BY DEF InLine
  <2>2. PICK b \in Behaviors : b = queue'[c][i] /\ ticket'[b][c] = served'[c] + i
    BY <1>4 DEF InLine
  <2>3. served[c] \in Nat /\ i \in Nat /\ i # 0
    BY <1>4, LenProperties DEF IInv, TypeOK
  <2>4. ticket'[a][c] = ticket'[b][c] /\ ticket'[a][c] # 0
    BY <2>1, <2>2, <2>3
  <2> QED BY <2>1, <2>2, <2>4 DEF IInv, TicketInv
<1> QED BY <1>4, <1>5, SeqEqual

\* Whoever has ended phase 1 and is next to be served heads the queue.
LEMMA HeadOf ==
    ASSUME IInv, NEW c \in Cowns, InLine(c), NEW b \in Behaviors, Queued(b),
           ticket[b][c] = served[c] + 1
    PROVE  Promise!AtHead(b, c) /\ Len(queue[c]) > 0
<1>1. served[c] \in Nat
  BY DEF IInv, TypeOK
<1>2. served[c] + 1 <= Entered(c)
  BY <1>1 DEF InLine, UpTo
<1>3. Entered(c) \in Int /\ Len(queue[c]) = Entered(c) - served[c]
  BY <1>1 DEF InLine, IInv, TypeOK
<1>4. 1 \in 1 .. Len(queue[c])
  BY <1>1, <1>2, <1>3
<1>5. PICK a \in Behaviors : a = queue[c][1] /\ ticket[a][c] = served[c] + 1
  BY <1>4 DEF InLine
<1>6. a = b
  BY <1>1, <1>5 DEF IInv, TicketInv
<1>7. queue[c] # <<>>
  BY <1>4, EmptySeq
<1>8. queue[c] \in Seq(Behaviors) /\ Len(queue[c]) \in Nat
  BY LenProperties DEF InLine
<1>9. Head(queue[c]) = queue[c][1]
  BY <1>7, <1>8
<1> QED BY <1>4, <1>5, <1>6, <1>7, <1>8, <1>9 DEF Promise!AtHead

LEMMA PhaseSame ==
    ASSUME \A b \in Behaviors : (Queued(b)' <=> Queued(b)) /\ RunnerSame(b)
    PROVE  UNCHANGED phase
  BY DEF phase, RunnerSame

LEMMA QueuesSame ==
    ASSUME \A c \in Cowns : queue'[c] = queue[c]
    PROVE  UNCHANGED queue
<1>1. queue = [c \in Cowns |-> queue[c]]
  BY DEF queue
<1>2. queue' = [c \in Cowns |-> queue'[c]]
  BY DEF queue
<1> QED BY <1>1, <1>2

LEMMA UnseenMaps ==
    ASSUME IInv, IInv', InLines, InLines',
           \A b \in Behaviors : Queued(b)' <=> Queued(b), UNCHANGED history
    PROVE  UNCHANGED queue
<1> SUFFICES ASSUME NEW c \in Cowns PROVE queue'[c] = queue[c]
  BY QueuesSame
<1>1. InLine(c) /\ InLine(c)'
  BY DEF InLines
<1>2. PICK k : k = Entered(c)
  OBVIOUS
<1>3. k \in 0 .. tail[c] /\ UpTo(c, k)
  BY <1>1, <1>2 DEF InLine, IInv, TypeOK
<1>4. k \in 0 .. tail'[c] /\ UpTo(c, k)'
  BY <1>3 DEF UpTo, history
<1> QED BY <1>1, <1>2, <1>4, QueueSame DEF history

\* The end of phase 1 is the atomic step of BOC.
LEMMA EntersMaps ==
    ASSUME IInv, IInv', LineInv, InLines, InLines', Next, NEW b \in Behaviors, Enters(b)
    PROVE  Promise!Schedule(b)
<1>1. /\ ~Queued(b) /\ Queued(b)' /\ UNCHANGED history /\ UNCHANGED runner
  BY EntersMeans
<1>2. \A a \in Behaviors : a # b => (Queued(a)' <=> Queued(a))
  <2>1. ASSUME NEW a \in Behaviors, Enters(a) PROVE a = b
    BY <2>1, EntersMeans
  <2> QED BY <2>1, QueuedStep
<1>3. runner[b] = "none"
  BY <1>1 DEF Queued, IInv, CountInv, PhaseOK
<1>4. phase[b] = "new" /\ phase' = [phase EXCEPT ![b] = "waiting"]
  <2>1. phase'[b] = "waiting" /\ phase[b] = "new"
    BY <1>1, <1>3 DEF phase
  <2>2. \A a \in Behaviors : a # b => phase'[a] = phase[a]
    BY <1>1, <1>2 DEF phase
  <2>3. phase = [a \in Behaviors |-> phase[a]] /\ phase' = [a \in Behaviors |-> phase'[a]]
    BY DEF phase
  <2> QED BY <2>1, <2>2, <2>3
<1>5. ASSUME NEW c \in Cowns
      PROVE  queue'[c] = IF c \in Targets(b) THEN Append(queue[c], b) ELSE queue[c]
  <2>1. InLine(c) /\ InLine(c)'
    BY DEF InLines
  <2>2. PICK k : k = Entered(c)
    OBVIOUS
  <2>3. /\ k \in 0 .. tail[c] /\ UpTo(c, k) /\ k \in served[c] .. tail[c]
        /\ served[c] \in Nat /\ tail[c] \in Nat
    BY <2>1, <2>2 DEF InLine, IInv, TypeOK
  <2>4. CASE c \notin Targets(b)
    <3>1. k \in 0 .. tail'[c] /\ UpTo(c, k)'
      BY <1>1, <2>3, <2>4, EntersNext DEF history
    <3> QED BY <1>1, <2>1, <2>2, <2>4, <3>1, QueueSame DEF history
  <2>5. CASE c \in Targets(b)
    <3>1. UpTo(c, k + 1)' /\ k + 1 \in 0 .. tail[c] /\ ticket[b][c] = k + 1
      BY <2>3, <2>5, EntersNext, EntersAt
    <3>2. Entered(c)' = k + 1
      <4>1. k + 1 \in 0 .. tail'[c]
        BY <1>1, <3>1 DEF history
      <4> QED BY <2>1, <3>1, <4>1 DEF InLine
    <3>3. /\ queue[c] \in Seq(Behaviors) /\ queue'[c] \in Seq(Behaviors)
          /\ Len(queue[c]) = k - served[c]
          /\ Len(queue'[c]) = (k + 1) - served[c]
      <4>1. queue[c] \in Seq(Behaviors) /\ Len(queue[c]) = k - served[c]
        BY <2>1, <2>2 DEF InLine
      <4>2. queue'[c] \in Seq(Behaviors)
        BY <2>1 DEF InLine
      <4>3. served'[c] = served[c]
        BY <1>1 DEF history
      <4>4. Len(queue'[c]) = (k + 1) - served[c]
        BY <2>1, <3>2, <4>3 DEF InLine
      <4> QED BY <4>1, <4>2, <4>4
    <3>4. /\ Append(queue[c], b) \in Seq(Behaviors)
          /\ Len(Append(queue[c], b)) = Len(queue[c]) + 1
          /\ \A i \in 1 .. Len(queue[c]) : Append(queue[c], b)[i] = queue[c][i]
          /\ Append(queue[c], b)[Len(queue[c]) + 1] = b
      BY <3>3, AppendProperties
    <3>5. Len(queue'[c]) = Len(Append(queue[c], b))
      BY <2>3, <3>3, <3>4
    <3>6. ASSUME NEW i \in 1 .. Len(queue'[c]) PROVE queue'[c][i] = Append(queue[c], b)[i]
      <4>1. PICK a \in Behaviors : a = queue'[c][i] /\ ticket[a][c] = served[c] + i
        BY <1>1, <2>1 DEF InLine, history
      <4>2. CASE i \in 1 .. Len(queue[c])
        <5>1. PICK x \in Behaviors : x = queue[c][i] /\ ticket[x][c] = served[c] + i
          BY <2>1, <4>2 DEF InLine
        <5>2. served[c] + i # 0
          BY <2>3, <3>3, <4>2
        <5>3. x = a
          BY <4>1, <5>1, <5>2 DEF IInv, TicketInv
        <5> QED BY <3>4, <4>1, <4>2, <5>1, <5>3
      <4>3. CASE i \notin 1 .. Len(queue[c])
        <5>1. PICK m \in Nat : m = k - served[c] /\ k = served[c] + m
          BY <2>3
        <5>2. m = Len(queue[c]) /\ Len(queue'[c]) = m + 1
          BY <2>3, <3>3, <5>1
        <5>3. i = m + 1
          BY <4>3, <5>1, <5>2
        <5>s. served[c] \in Nat
          BY <2>3
        <5>4. served[c] + i = k + 1 /\ k + 1 # 0
          BY <5>s, <5>1, <5>3
        <5>5. a = b
          BY <3>1, <4>1, <5>4 DEF IInv, TicketInv
        <5> QED BY <3>4, <4>1, <5>2, <5>3, <5>5
      <4> QED BY <4>2, <4>3
    <3>7. queue'[c] = Append(queue[c], b)
      BY <3>3, <3>4, <3>5, <3>6, SeqEqual
    <3> QED BY <2>5, <3>7
  <2> QED BY <2>4, <2>5
<1>6. queue' = [c \in Cowns |-> IF c \in Targets(b) THEN Append(queue[c], b) ELSE queue[c]]
  <2>1. queue' = [c \in Cowns |-> queue'[c]]
    BY DEF queue
  <2> QED BY <1>5, <2>1
<1> QED BY <1>4, <1>6 DEF Promise!Schedule, Promise!Targets, Targets, Promise!ArgSet, ArgSet

\* Giving a cown up takes the head off its queue.
LEMMA GivesMaps ==
    ASSUME IInv, IInv', InLines, InLines', NEW b \in Behaviors, NEW c \in Cowns, Gives(b, c)
    PROVE  Promise!Release(b, c)
<1>1. /\ Queued(b) /\ ticket[b][c] = served[c] + 1
      /\ served'[c] = served[c] + 1 /\ \A d \in Cowns : d # c => served'[d] = served[d]
      /\ UNCHANGED <<ticket, tail, caller, todo>>
      /\ runner[b] \in {"cas", "handoff"} /\ \A a \in Behaviors : RunnerSame(a)
  BY GivesMeans
<1>2. \A a \in Behaviors : Queued(a)' <=> Queued(a)
  BY <1>1 DEF Queued
<1>3. phase[b] = "leaving" /\ UNCHANGED phase
  BY <1>1, <1>2, PhaseSame DEF phase
<1>4. ASSUME NEW d \in Cowns
      PROVE  /\ InLine(d) /\ InLine(d)' /\ Entered(d)' = Entered(d)
             /\ \E k \in 0 .. tail'[d] : k = Entered(d) /\ UpTo(d, k)'
  <2>1. InLine(d) /\ InLine(d)'
    BY DEF InLines
  <2>2. PICK k : k = Entered(d)
    OBVIOUS
  <2>3. k \in 0 .. tail[d] /\ UpTo(d, k)
    BY <2>1, <2>2 DEF InLine, IInv, TypeOK
  <2>4. k \in 0 .. tail'[d] /\ UpTo(d, k)'
    BY <1>1, <1>2, <2>3 DEF UpTo
  <2>5. k = Entered(d)'
    BY <2>1, <2>4 DEF InLine
  <2> QED BY <2>1, <2>2, <2>4, <2>5
<1>5. \A d \in Cowns : d # c => queue'[d] = queue[d]
  <2> SUFFICES ASSUME NEW d \in Cowns, d # c PROVE queue'[d] = queue[d]
    OBVIOUS
  <2>1. PICK k \in 0 .. tail'[d] : k = Entered(d) /\ UpTo(d, k)'
    BY <1>4
  <2> QED BY <1>1, <1>4, <2>1, QueueSame
<1>6. Promise!AtHead(b, c) /\ Len(queue[c]) > 0
  BY <1>1, <1>4, HeadOf
<1>7. queue'[c] = Tail(queue[c])
  <2>1. /\ served[c] \in Nat /\ Entered(c) \in Int
        /\ queue[c] \in Seq(Behaviors) /\ queue'[c] \in Seq(Behaviors)
        /\ Len(queue[c]) = Entered(c) - served[c]
        /\ Len(queue'[c]) = Entered(c) - (served[c] + 1)
    BY <1>1, <1>4 DEF InLine, IInv, TypeOK
  <2>2. /\ Tail(queue[c]) \in Seq(Behaviors)
        /\ Len(Tail(queue[c])) = Len(queue[c]) - 1
        /\ \A i \in 1 .. Len(Tail(queue[c])) : Tail(queue[c])[i] = queue[c][i + 1]
    BY <1>6, <2>1, HeadTailProperties DEF Promise!AtHead
  <2>3. Len(queue'[c]) = Len(Tail(queue[c]))
    BY <2>1, <2>2
  <2>4. ASSUME NEW i \in 1 .. Len(queue'[c]) PROVE queue'[c][i] = Tail(queue[c])[i]
    <3>1. PICK a \in Behaviors : a = queue'[c][i] /\ ticket'[a][c] = served'[c] + i
      BY <1>4 DEF InLine
    <3>2. i + 1 \in 1 .. Len(queue[c])
      BY <2>1
    <3>3. PICK x \in Behaviors : x = queue[c][i + 1] /\ ticket[x][c] = served[c] + (i + 1)
      BY <1>4, <3>2 DEF InLine
    <3>n. PICK n \in Nat : n = served[c]
      BY <2>1
    <3>i. i \in Nat
      BY <2>1
    <3>4. ticket[x][c] = ticket[a][c] /\ ticket[x][c] # 0
      <4>1. ticket'[a][c] = ticket[a][c] /\ served'[c] = n + 1
        BY <1>1, <3>n
      <4>2. ticket[a][c] = (n + 1) + i /\ ticket[x][c] = n + (i + 1)
        BY <3>1, <3>3, <3>n, <4>1
      <4> QED BY <3>i, <4>2
    <3>5. x = a
      BY <3>4 DEF IInv, TicketInv
    <3> QED BY <2>2, <2>3, <3>1, <3>3, <3>5
  <2> QED BY <2>1, <2>2, <2>3, <2>4, SeqEqual
<1>8. queue' = [queue EXCEPT ![c] = Tail(@)]
  <2>1. queue = [d \in Cowns |-> queue[d]] /\ queue' = [d \in Cowns |-> queue'[d]]
    BY DEF queue
  <2> QED BY <1>5, <1>7, <2>1
<1> QED BY <1>3, <1>6, <1>8 DEF Promise!Release

LEMMA StartMaps ==
    ASSUME IInv, InLines, NEW b \in Behaviors, Start(b) \/ EndBody(b), UNCHANGED queue
    PROVE  Promise!Start(b) \/ Promise!End(b)
<1>1. /\ runner[b] \in {"ready", "running"} /\ UNCHANGED <<caller, todo>>
      /\ \A a \in Behaviors : a # b => runner'[a] = runner[a]
      /\ Start(b) => runner[b] = "ready" /\ runner'[b] = "running"
      /\ EndBody(b) => runner[b] = "running" /\ runner'[b] = "release"
  BY DEF Start, EndBody, GotoRunner, IInv, TypeOK
<1>2. Queued(b) /\ \A a \in Behaviors : Queued(a)' <=> Queued(a)
  BY <1>1 DEF IInv, CountInv, PhaseOK, Queued
<1>3. phase = [a \in Behaviors |-> phase[a]] /\ phase' = [a \in Behaviors |-> phase'[a]]
  BY DEF phase
<1>4. \A a \in Behaviors : a # b => phase'[a] = phase[a]
  BY <1>1, <1>2 DEF phase
<1>5. CASE Start(b)
  <2>1. phase[b] = "waiting" /\ phase'[b] = "running"
    BY <1>1, <1>2, <1>5 DEF phase
  <2>2. phase' = [phase EXCEPT ![b] = "running"]
    BY <1>3, <1>4, <2>1
  <2>3. ASSUME NEW c \in Targets(b) PROVE Promise!AtHead(b, c)
    <3>1. c \in Cowns /\ ~Released(b, c)
      BY <1>1, <1>5, TargetsFinite DEF Released
    <3>2. ticket[b][c] = served[c] + 1 /\ InLine(c)
      BY <1>1, <3>1, HolderIsServed DEF InLines
    <3> QED BY <1>2, <3>1, <3>2, HeadOf
  <2> QED BY <2>1, <2>2, <2>3
          DEF Promise!Start, Promise!Targets, Targets, Promise!ArgSet, ArgSet
<1>6. CASE EndBody(b)
  <2>1. phase[b] = "running" /\ phase'[b] = "leaving"
    BY <1>1, <1>2, <1>6 DEF phase
  <2>2. phase' = [phase EXCEPT ![b] = "leaving"]
    BY <1>3, <1>4, <2>1
  <2> QED BY <2>1, <2>2 DEF Promise!End
<1> QED BY <1>5, <1>6

\* A ticket drawn puts nobody in line yet.
LEMMA ExchangeMaps ==
    ASSUME IInv, IInv', InLines, InLines', NEW b \in Behaviors, NEW d \in Cowns, Exchange(b, d)
    PROVE  UNCHANGED <<queue, phase>>
<1>1. /\ caller[b] = "link" /\ caller'[b] \in {"first", "hold"} /\ UNCHANGED <<todo, served, runner>>
      /\ \A a \in Behaviors : a # b => caller'[a] = caller[a]
      /\ \A a \in Behaviors : \A c \in Cowns : a # b \/ c # d => ticket'[a][c] = ticket[a][c]
      /\ ticket[b][d] = 0 /\ ticket'[b][d] = tail[d] + 1
      /\ \A c \in Cowns : tail'[c] = tail[c] \/ tail'[c] = tail[c] + 1
  BY ExchangeMeans
<1>2. ~Queued(b) /\ \A a \in Behaviors : Queued(a)' <=> Queued(a)
  BY <1>1 DEF Queued
<1>3. UNCHANGED phase
  BY <1>1, <1>2, PhaseSame DEF RunnerSame
<1>4. ASSUME NEW c \in Cowns PROVE queue'[c] = queue[c]
  <2>1. InLine(c) /\ InLine(c)'
    BY DEF InLines
  <2>2. PICK k : k = Entered(c)
    OBVIOUS
  <2>3. k \in 0 .. tail[c] /\ UpTo(c, k) /\ tail[c] \in Nat
    BY <2>1, <2>2 DEF InLine, IInv, TypeOK
  <2>4. k \in 0 .. tail'[c]
    BY <1>1, <2>3
  <2>5. UpTo(c, k)'
    <3> SUFFICES ASSUME NEW a \in Behaviors, ticket'[a][c] # 0
                 PROVE  Queued(a)' <=> ticket'[a][c] <= k
      BY DEF UpTo
    <3>1. CASE a = b /\ c = d
      BY <1>1, <1>2, <2>3, <3>1
    <3>2. CASE a # b \/ c # d
      BY <1>1, <1>2, <2>3, <3>2 DEF UpTo
    <3> QED BY <3>1, <3>2
  <2>6. \A a \in Behaviors : ticket[a][c] # 0 => ticket'[a][c] = ticket[a][c]
    BY <1>1
  <2> QED BY <1>1, <2>1, <2>2, <2>4, <2>5, <2>6, QueueSame
<1> QED BY <1>3, <1>4, QueuesSame

\* Two-phase locking over MCS queues is behavior-oriented concurrency:
\* however the two phases of schedule and release_all interleave, behaviors
\* join all their queues at once, run when they head all of them, and leave.
THEOREM ImplementsPromise == Spec => ImplementsBOC
<1>1. Init => Promise!Init
  <2> SUFFICES ASSUME Init PROVE Promise!Init
    OBVIOUS
  <2>1. phase = [b \in Behaviors |-> "new"]
    BY DEF Init, phase, Queued
  <2>2. ASSUME NEW c \in Cowns PROVE queue[c] = <<>>
    <3>1. 0 \in 0 .. tail[c] /\ served[c] = 0 /\ tail[c] = 0
      BY DEF Init
    <3>2. UpTo(c, 0)
      BY DEF Init, UpTo
    <3>3. Entered(c) = 0
      BY <3>1, <3>2 DEF Entered
    <3>4. queue[c] = [i \in 1 .. 0 |-> Holder(c, served[c] + i)]
      BY <3>1, <3>3 DEF queue
    <3>5. queue[c] \in [1 .. 0 -> Behaviors]
      BY <3>4
    <3>6. queue[c] \in Seq(Behaviors)
      BY <3>5, SeqDef
    <3>7. Len(queue[c]) = 0
      BY <3>5, <3>6, LenProperties
    <3> QED BY <3>6, <3>7, EmptySeq
  <2>3. queue = [c \in Cowns |-> queue[c]]
    BY DEF queue
  <2> QED BY <2>1, <2>2, <2>3 DEF Promise!Init
<1>2. IInv /\ IInv' /\ LineInv /\ LineInv' /\ [Next]_vars => [Promise!Next]_<<queue, phase>>
  <2> SUFFICES ASSUME IInv, IInv', LineInv, LineInv', [Next]_vars
               PROVE  Promise!Next \/ UNCHANGED <<queue, phase>>
    OBVIOUS
  <2>1. InLines /\ InLines'
    BY LineMeaning, LineMeaningNext
  <2>2. ASSUME UNCHANGED vars PROVE UNCHANGED <<queue, phase>>
    <3>1. UNCHANGED history /\ \A b \in Behaviors : (Queued(b)' <=> Queued(b)) /\ RunnerSame(b)
      BY <2>2 DEF vars, threads, Queued, RunnerSame
    <3> QED BY <2>1, <3>1, UnseenMaps, PhaseSame
  <2>3. ASSUME Unseen PROVE UNCHANGED <<queue, phase>>
    BY <2>1, <2>3, UnseenMaps, PhaseSame DEF Unseen
  <2>4. ASSUME NEW b \in Behaviors, Next, Enters(b) PROVE Promise!Next
    BY <2>1, <2>4, EntersMaps DEF Promise!Next
  <2>5. ASSUME NEW b \in Behaviors, Start(b) \/ EndBody(b) PROVE Promise!Next
    <3>1. UNCHANGED history /\ \A a \in Behaviors : Queued(a)' <=> Queued(a)
      BY <2>5 DEF Start, EndBody, Queued
    <3>2. UNCHANGED queue
      BY <2>1, <3>1, UnseenMaps
    <3>3. Promise!Start(b) \/ Promise!End(b)
      BY <2>1, <2>5, <3>2, StartMaps
    <3> QED BY <3>3 DEF Promise!Next
  <2>6. ASSUME NEW b \in Behaviors, NEW c \in Cowns, Exchange(b, c)
        PROVE  UNCHANGED <<queue, phase>>
    BY <2>1, <2>6, ExchangeMaps
  <2>7. ASSUME NEW b \in Behaviors, NEW c \in Cowns, Gives(b, c) PROVE Promise!Next
    BY <2>1, <2>7, GivesMaps DEF Promise!Next
  <2> QED BY <2>2, <2>3, <2>4, <2>5, <2>6, <2>7, StepKinds
<1> QED BY <1>1, <1>2, Invariance, Order, PTL DEF Spec, ImplementsBOC, Promise!Spec, Promise!vars
=============================================================================
