---------------------------- MODULE MainPump_proofs ----------------------------
(***************************************************************************)
(* Proofs about CownValues and MainPump, for every set of behaviors, cowns *)
(* and workers, whatever bodies store, return or raise, and whichever step *)
(* of an acquire or a release fails.                                       *)
(***************************************************************************)
EXTENDS MainPump, FiniteSetTheorems, TLAPS

InBody == {"acquire", "execute", "release"}

Stepped(b) ==
    /\ run[b].step \in {"acquire", "release"} => run[b].i >= 1
    /\ run[b].step \in InBody => run[b].on # Null /\ phase[b] = "running"
    /\ run[b].step \in {"none", "dec", "done"} => phase[b] # "running"
    /\ run[b].step = "none" => phase[b] \in {"new", "waiting"}
    /\ phase[b] \in {"new", "waiting"} => run[b].step = "none"
StepOK == \A b \in Behaviors : Stepped(b)

\* A behavior that runs is at the head of every queue it is in.
HeadOK == \A b \in Behaviors : phase[b] = "running" =>
            \A c \in Targets(b) : Sched!AtHead(b, c)

\* A cown somebody owns has its content in memory; the pinned ones are main's.
ContentOK == \A c \in Cowns :
    /\ owner[c] # Null => value[c] # Null
    /\ c \in PinnedCowns => owner[c] = Main

\* What a behavior has acquired so far stays its own.
Held(b, c) == owner[c] = run[b].on /\ value[c] # Null
Acquired(b) ==
    /\ run[b].step = "acquire" => \A k \in 1..(run[b].i - 1) : Held(b, Vars(b)[k])
    /\ run[b].step = "execute" => \A k \in 1..Len(Vars(b)) : Held(b, Vars(b)[k])
AcquiredOK == \A b \in Behaviors : Acquired(b)

\* What is owned and not stuck is owned by a behavior that will release it.
WillRelease(b, c) ==
    /\ run[b].on = owner[c]
    /\ \/ run[b].step \in {"acquire", "execute"} /\ c \in Targets(b)
       \/ run[b].step = "release" /\ \E k \in run[b].i..Len(Vars(b)) : Vars(b)[k] = c
ReleasedOK == \A c \in Cowns \ (PinnedCowns \union jammed) :
    owner[c] # Null => \E b \in Behaviors : WillRelease(b, c)

\* From the end of the body to release_all the result says how it ended.
Reports(b) == LET r == Result[b] IN
    /\ exception[r] <=> run[b].end # "returned"
    /\ exception[r] => \/ value[r] = "error"
                       \/ owner[r] = Null /\ xidata[r] = "error"
Reported(b) ==
    run[b].step \in {"release", "handon"} /\ phase[b] = "running" => Reports(b)
ReportOK == \A b \in Behaviors : Reported(b)

ValuesInv == /\ ValuesTypeOK /\ StepOK /\ HeadOK /\ ContentOK /\ AcquiredOK
             /\ ReleasedOK /\ ReportOK

\* What a step of the pump is to the cowns and behaviors.
ValueStep(b) == \/ Schedule(b) \/ Dec(b) \/ Running(b)
                \/ \E w \in Interps : Begin(b, w)

----------------------------------------------------------------------------
LEMMA VarsFacts ==
    ASSUME NEW b \in Behaviors
    PROVE  /\ Vars(b) \in Seq(Cowns) /\ Len(Vars(b)) \in Nat /\ Len(Vars(b)) >= 1
           /\ \A k \in 1..Len(Vars(b)) : Vars(b)[k] \in Targets(b)
           /\ \A c \in Targets(b) : c \in Cowns /\ \E k \in 1..Len(Vars(b)) : Vars(b)[k] = c
           /\ Result[b] \in Targets(b) /\ Result[b] \in Cowns
<1>1. Args[b] \in Seq(Cowns) /\ Result[b] \in Cowns
  BY RequestsAssumption
<1>2. /\ Vars(b) \in Seq(Cowns) /\ Len(Vars(b)) = Len(Args[b]) + 1
      /\ Vars(b)[1] = Result[b]
      /\ \A k \in 1..Len(Args[b]) : Vars(b)[k + 1] = Args[b][k]
  BY <1>1 DEF Vars
<1>3. \A k \in 1..Len(Vars(b)) : Vars(b)[k] \in Targets(b)
  <2> SUFFICES ASSUME NEW k \in 1..Len(Vars(b)) PROVE Vars(b)[k] \in Targets(b)
    OBVIOUS
  <2>1. CASE k = 1
    BY <1>2, <2>1 DEF Targets
  <2>2. CASE k # 1
    <3>1. k - 1 \in 1..Len(Args[b]) /\ Vars(b)[k] = Args[b][k - 1]
      BY <1>1, <1>2, <2>2
    <3> QED BY <1>1, <3>1 DEF Targets, ArgSet
  <2> QED BY <2>1, <2>2
<1>4. \A c \in Targets(b) : c \in Cowns /\ \E k \in 1..Len(Vars(b)) : Vars(b)[k] = c
  <2> SUFFICES ASSUME NEW c \in Targets(b)
               PROVE  c \in Cowns /\ \E k \in 1..Len(Vars(b)) : Vars(b)[k] = c
    OBVIOUS
  <2>1. CASE c = Result[b]
    BY <1>1, <1>2, <2>1
  <2>2. CASE c \in ArgSet(b)
    <3>1. PICK k \in 1..Len(Args[b]) : Args[b][k] = c
      BY <1>1, <2>2 DEF ArgSet
    <3>2. k + 1 \in 1..Len(Vars(b)) /\ Vars(b)[k + 1] = c
      BY <1>1, <1>2, <3>1
    <3> QED BY <1>1, <3>1, <3>2
  <2> QED BY <2>1, <2>2 DEF Targets
<1>5. Result[b] \in Targets(b)
  BY DEF Targets
<1> QED BY <1>1, <1>2, <1>3, <1>4, <1>5

LEMMA NullIsNothing == Null \notin Interps /\ Null \notin AllContents /\ Main \in Interps
BY ValuesAssumption DEF Interps

LEMMA CownInTargets ==
    ASSUME ValuesTypeOK, StepOK, NEW b \in Behaviors,
           run[b].step \in {"acquire", "release"}
    PROVE  /\ run[b].i \in 1..Len(Vars(b)) /\ Cown(b) = Vars(b)[run[b].i]
           /\ Cown(b) \in Targets(b) /\ Cown(b) \in Cowns
<1>1. run[b].i \in 1..Len(Vars(b))
  <2>1. run[b].i \in 0..Len(Vars(b))
    BY DEF ValuesTypeOK
  <2>2. run[b].i >= 1 /\ Len(Vars(b)) \in Nat
    BY VarsFacts DEF StepOK, Stepped
  <2> QED BY <2>1, <2>2
<1> QED BY <1>1, VarsFacts DEF Cown

LEMMA ValuesInit_Inv == ValuesInit => ValuesInv
<1> SUFFICES ASSUME ValuesInit PROVE ValuesInv
  OBVIOUS
<1>1. /\ queue = [c \in Cowns |-> <<>>] /\ phase = [b \in Behaviors |-> "new"]
      /\ owner = [c \in Cowns |-> IF c \in PinnedCowns THEN Main ELSE Null]
      /\ value = [c \in Cowns |-> IF c \in PinnedCowns THEN "good" ELSE Null]
      /\ exception = [c \in Cowns |-> FALSE] /\ jammed = {}
      /\ run = [b \in Behaviors |-> [on |-> Null, step |-> "none", i |-> 0, end |-> ""]]
  BY DEF ValuesInit, Sched!Init
<1>2. PICK torn : xidata = [c \in Cowns |-> IF c \in PinnedCowns THEN Null
                                            ELSE IF c \in torn THEN "torn" ELSE "good"]
  BY DEF ValuesInit
<1>3. ValuesTypeOK
  <2>1. run \in [Behaviors -> [on : Interps \union {Null}, step : Steps, i : Nat,
                               end : {"", "returned", "raised", "refused"}]]
    BY <1>1 DEF Steps
  <2>2. ASSUME NEW b \in Behaviors PROVE run[b].i \in 0..Len(Vars(b))
    <3>1. run[b].i = 0 /\ Len(Vars(b)) \in Nat
      BY <1>1, VarsFacts
    <3> QED BY <3>1
  <2>3. xidata \in [Cowns -> AllContents \union {Null}]
    BY <1>2 DEF AllContents, Storable
  <2>4. value \in [Cowns -> AllContents \union {Null}] /\ owner \in [Cowns -> Interps \union {Null}]
    BY <1>1, NullIsNothing DEF AllContents, Storable
  <2>5. queue \in [Cowns -> Seq(Behaviors)] /\ jammed \subseteq Cowns
    <3>1. <<>> \in Seq(Behaviors)
      OBVIOUS
    <3>2. queue = [c \in Cowns |-> <<>>] /\ jammed = {}
      BY <1>1
    <3> QED BY <3>1, <3>2
  <2>6. phase \in [Behaviors -> {"new", "waiting", "running", "leaving"}]
    BY <1>1
  <2>7. exception \in [Cowns -> BOOLEAN]
    <3>1. exception = [c \in Cowns |-> FALSE]
      BY <1>1
    <3> QED BY <3>1
  <2> QED BY <2>1, <2>2, <2>3, <2>4, <2>5, <2>6, <2>7 DEF ValuesTypeOK
<1>4. StepOK /\ HeadOK
  BY <1>1 DEF StepOK, Stepped, HeadOK, InBody
<1>5. ContentOK
  BY <1>1, NullIsNothing DEF ContentOK, AllContents, Storable
<1>6. AcquiredOK /\ ReportOK
  BY <1>1 DEF AcquiredOK, ReportOK, Acquired, Reported
<1>7. ReleasedOK
  BY <1>1 DEF ReleasedOK
<1> QED BY <1>3, <1>4, <1>5, <1>6, <1>7 DEF ValuesInv

----------------------------------------------------------------------------
(***************************************************************************)
(* What a step does, field by field.                                       *)
(***************************************************************************)
SameCown(c) == /\ owner'[c] = owner[c] /\ value'[c] = value[c]
               /\ xidata'[c] = xidata[c] /\ exception'[c] = exception[c]
SameRuns(b) == \A d \in Behaviors : d # b => run'[d] = run[d]
QueuesKept == queue' = queue /\ phase' = phase

Ends == {"", "returned", "raised", "refused"}
RunRecord == [on : Interps \union {Null}, step : Steps, i : Nat, end : Ends]
RunType == [Behaviors -> RunRecord]

LEMMA RunFields ==
    ASSUME ValuesTypeOK, NEW b \in Behaviors
    PROVE  /\ run \in RunType /\ run[b] \in RunRecord
           /\ run[b].on \in Interps \union {Null} /\ run[b].step \in Steps
           /\ run[b].i \in 0..Len(Vars(b)) /\ run[b].i \in Nat
           /\ run[b].end \in Ends
<1>1. run \in RunType /\ run[b].i \in 0..Len(Vars(b)) /\ Len(Vars(b)) \in Nat
  BY VarsFacts DEF ValuesTypeOK, RunType, RunRecord, Ends
<1>2. run[b] \in RunRecord
  BY <1>1 DEF RunType
<1> QED BY <1>1, <1>2 DEF RunRecord

LEMMA SetRun ==
    ASSUME ValuesTypeOK, NEW b \in Behaviors, NEW r \in RunRecord,
           run' = [run EXCEPT ![b] = r]
    PROVE  run' \in RunType /\ SameRuns(b) /\ run'[b] = r
<1>1. run \in RunType
  BY RunFields
<1> QED BY <1>1 DEF RunType, SameRuns

\* A record of run with everything but the interpreter replaced.
Moved(r, s, n, e) == [r EXCEPT !.step = s, !.i = n, !.end = e]

LEMMA SetThree ==
    ASSUME NEW r \in RunRecord, NEW s \in Steps, NEW n \in Nat,
           NEW e \in Ends
    PROVE  /\ Moved(r, s, n, e) \in RunRecord /\ Moved(r, s, n, e).on = r.on
           /\ Moved(r, s, n, e).step = s /\ Moved(r, s, n, e).i = n
           /\ Moved(r, s, n, e).end = e
<1> DEFINE q1 == [r EXCEPT !.step = s]
           q2 == [q1 EXCEPT !.i = n]
<1>1. q1 \in RunRecord /\ q1.on = r.on /\ q1.step = s
  BY DEF RunRecord
<1>3. Moved(r, s, n, e) = [q2 EXCEPT !.end = e]
  BY DEF Moved
<1> HIDE DEF q1
<1>2. q2 \in RunRecord /\ q2.on = r.on /\ q2.step = s /\ q2.i = n
  BY <1>1 DEF RunRecord
<1> HIDE DEF q2
<1> QED BY <1>2, <1>3 DEF RunRecord

LEMMA AdvanceFields ==
    ASSUME ValuesTypeOK, NEW b \in Behaviors, NEW last \in Steps,
           run[b].i \in 1..Len(Vars(b)), run' = Advance(b, last)
    PROVE  /\ run' \in RunType /\ SameRuns(b)
           /\ run'[b].on = run[b].on /\ run'[b].end = run[b].end
           /\ \/ run[b].i = Len(Vars(b)) /\ run'[b].step = last /\ run'[b].i = 1
              \/ /\ run[b].i < Len(Vars(b))
                 /\ run'[b].step = run[b].step /\ run'[b].i = run[b].i + 1
           /\ run'[b].i \in 0..Len(Vars(b))
<1>0. Len(Vars(b)) \in Nat /\ Len(Vars(b)) >= 1
  BY VarsFacts
<1>r. run[b] \in RunRecord /\ run \in RunType
  BY RunFields
<1>1. CASE run[b].i = Len(Vars(b))
  <2> DEFINE r == [run[b] EXCEPT !.step = last, !.i = 1]
  <2>1. run' = [run EXCEPT ![b] = r]
    BY <1>1, <1>r DEF Advance, RunType
  <2> DEFINE q == [run[b] EXCEPT !.step = last]
  <2>4. /\ q \in RunRecord /\ q.step = last /\ q.on = run[b].on /\ q.end = run[b].end
    BY <1>r DEF RunRecord
  <2> HIDE DEF q
  <2>5. r = [q EXCEPT !.i = 1]
    BY DEF q
  <2>2. /\ r \in RunRecord /\ r.step = last /\ r.i = 1
        /\ r.on = run[b].on /\ r.end = run[b].end
    BY <2>4, <2>5 DEF RunRecord
  <2> HIDE DEF r
  <2>3. run' \in RunType /\ SameRuns(b) /\ run'[b] = r
    BY <2>1, <2>2, SetRun
  <2> QED BY <1>0, <1>1, <2>2, <2>3
<1>2. CASE run[b].i # Len(Vars(b))
  <2> DEFINE n == run[b].i + 1
             r == [run[b] EXCEPT !.i = n]
  <2>n. n \in Nat /\ n = run[b].i + 1
    OBVIOUS
  <2> HIDE DEF n
  <2>1. run' = [run EXCEPT ![b] = r]
    BY <1>2, <1>r, <2>n DEF Advance, RunType
  <2>2. /\ r \in RunRecord /\ r.step = run[b].step /\ r.i = n
        /\ r.on = run[b].on /\ r.end = run[b].end
    BY <1>r, <2>n DEF RunRecord
  <2> HIDE DEF r
  <2>3. run' \in RunType /\ SameRuns(b) /\ run'[b] = r
    BY <2>1, <2>2, SetRun
  <2> QED BY <1>0, <1>2, <2>2, <2>3, <2>n
<1> QED BY <1>1, <1>2

LEMMA AcquireOneFields ==
    ASSUME ValuesInv, NEW b \in Behaviors, AcquireOne(b)
    PROVE  /\ QueuesKept /\ jammed' = jammed /\ run[b].step = "acquire"
           /\ run' = Advance(b, "execute")
           /\ \A d \in Cowns : d # Cown(b) => SameCown(d)
           /\ owner'[Cown(b)] = run[b].on /\ value'[Cown(b)] # Null
           /\ exception' = exception
           /\ owner' \in [Cowns -> Interps \union {Null}]
           /\ value' \in [Cowns -> AllContents \union {Null}]
           /\ xidata' \in [Cowns -> AllContents \union {Null}]
           /\ Cown(b) \in PinnedCowns => owner'[Cown(b)] = Main
<1> DEFINE c == Cown(b)
           w == run[b].on
<1>1. /\ QueuesKept /\ jammed' = jammed /\ run[b].step = "acquire"
      /\ run' = Advance(b, "execute") /\ Acquirable(c, w)
  BY DEF AcquireOne, At, QueuesKept
<1>2. c \in Cowns /\ w # Null /\ w \in Interps
  BY <1>1, CownInTargets DEF ValuesInv, StepOK, Stepped, InBody, ValuesTypeOK
<1>3. CASE owner[c] = w \/ c \in PinnedCowns
  <2>1. owner' = owner /\ value' = value /\ xidata' = xidata /\ exception' = exception
    BY <1>3 DEF AcquireOne, cownVars
  <2>2. owner[c] = w /\ value[c] # Null
    BY <1>1, <1>2, <1>3 DEF ValuesInv, ContentOK, Acquirable
  <2>3. c \in PinnedCowns => owner[c] = Main
    BY <1>2 DEF ValuesInv, ContentOK
  <2> QED BY <1>1, <2>1, <2>2, <2>3 DEF SameCown, ValuesInv, ValuesTypeOK
<1>4. CASE owner[c] # w /\ c \notin PinnedCowns
  <2>1. /\ owner' = [owner EXCEPT ![c] = w]
        /\ value' = [value EXCEPT ![c] = xidata[c]]
        /\ xidata' = [xidata EXCEPT ![c] = Null]
        /\ exception' = exception
    BY <1>4 DEF AcquireOne
  <2>2. xidata[c] # Null
    BY <1>1, <1>4 DEF Acquirable, Readable
  <2>3. /\ owner \in [Cowns -> Interps \union {Null}]
        /\ value \in [Cowns -> AllContents \union {Null}]
        /\ xidata \in [Cowns -> AllContents \union {Null}]
    BY DEF ValuesInv, ValuesTypeOK
  <2> HIDE DEF c, w
  <2>4. \A d \in Cowns : d # c => SameCown(d)
    BY <2>1, <2>3 DEF SameCown
  <2>5. owner'[c] = w /\ value'[c] # Null
    BY <1>2, <2>1, <2>2, <2>3
  <2>6. /\ owner' \in [Cowns -> Interps \union {Null}]
        /\ value' \in [Cowns -> AllContents \union {Null}]
        /\ xidata' \in [Cowns -> AllContents \union {Null}]
    BY <1>2, <2>1, <2>3
  <2> QED BY <1>1, <1>4, <2>1, <2>4, <2>5, <2>6 DEF c, w
<1> QED BY <1>3, <1>4

LEMMA ReleaseOneFields ==
    ASSUME ValuesInv, NEW b \in Behaviors, ReleaseOne(b)
    PROVE  /\ QueuesKept /\ jammed' = jammed /\ run[b].step = "release"
           /\ run' = Advance(b, "handon") /\ exception' = exception
           /\ \A d \in Cowns : d # Cown(b) => SameCown(d)
           /\ \/ SameCown(Cown(b)) /\ (owner[Cown(b)] # run[b].on \/ Cown(b) \in PinnedCowns)
              \/ /\ Cown(b) \notin PinnedCowns /\ owner[Cown(b)] = run[b].on
                 /\ owner'[Cown(b)] = Null /\ value'[Cown(b)] = Null
                 /\ xidata'[Cown(b)] = value[Cown(b)]
           /\ owner' \in [Cowns -> Interps \union {Null}]
           /\ value' \in [Cowns -> AllContents \union {Null}]
           /\ xidata' \in [Cowns -> AllContents \union {Null}]
<1> DEFINE c == Cown(b)
           w == run[b].on
<1>1. /\ QueuesKept /\ jammed' = jammed /\ run[b].step = "release"
      /\ run' = Advance(b, "handon") /\ Releasable(c, w)
  BY DEF ReleaseOne, At, QueuesKept
<1>2. c \in Cowns
  BY <1>1, CownInTargets DEF ValuesInv
<1>3. CASE owner[c] # w \/ c \in PinnedCowns
  <2>1. owner' = owner /\ value' = value /\ xidata' = xidata /\ exception' = exception
    BY <1>3 DEF ReleaseOne, cownVars
  <2> QED BY <1>1, <1>3, <2>1 DEF SameCown, ValuesInv, ValuesTypeOK
<1>4. CASE owner[c] = w /\ c \notin PinnedCowns
  <2>1. /\ xidata' = [xidata EXCEPT ![c] = value[c]]
        /\ value' = [value EXCEPT ![c] = Null]
        /\ owner' = [owner EXCEPT ![c] = Null]
        /\ exception' = exception
    BY <1>4 DEF ReleaseOne
  <2>3. /\ owner \in [Cowns -> Interps \union {Null}]
        /\ value \in [Cowns -> AllContents \union {Null}]
        /\ xidata \in [Cowns -> AllContents \union {Null}]
    BY DEF ValuesInv, ValuesTypeOK
  <2> HIDE DEF c, w
  <2>4. \A d \in Cowns : d # c => SameCown(d)
    BY <2>1, <2>3 DEF SameCown
  <2>5. owner'[c] = Null /\ value'[c] = Null /\ xidata'[c] = value[c]
    BY <1>2, <2>1, <2>3
  <2>6. /\ owner' \in [Cowns -> Interps \union {Null}]
        /\ value' \in [Cowns -> AllContents \union {Null}]
        /\ xidata' \in [Cowns -> AllContents \union {Null}]
    BY <1>2, <2>1, <2>3
  <2> QED BY <1>1, <1>4, <2>1, <2>4, <2>5, <2>6 DEF c, w
<1> QED BY <1>3, <1>4

----------------------------------------------------------------------------
(***************************************************************************)
(* Two behaviors that run share no cown: one step touches one of them.     *)
(***************************************************************************)
LEMMA Apart ==
    ASSUME HeadOK, NEW b \in Behaviors, NEW d \in Behaviors, b # d,
           phase[b] = "running", phase[d] = "running"
    PROVE  \A c \in Targets(b) : c \notin Targets(d)
BY DEF HeadOK, Sched!AtHead

LEMMA InBodyRuns ==
    ASSUME StepOK, NEW b \in Behaviors, run[b].step \in InBody
    PROVE  phase[b] = "running" /\ run[b].on # Null
BY DEF StepOK, Stepped

\* Who will release c is at the head of its queue.
LEMMA ReleaserRuns ==
    ASSUME StepOK, ValuesTypeOK, NEW b \in Behaviors, NEW c, WillRelease(b, c)
    PROVE  run[b].step \in InBody /\ phase[b] = "running" /\ c \in Targets(b)
<1>1. run[b].step \in InBody
  BY DEF WillRelease, InBody
<1>2. c \in Targets(b)
  <2>1. CASE run[b].step \in {"acquire", "execute"}
    BY <2>1 DEF WillRelease
  <2>2. CASE run[b].step = "release"
    <3>1. PICK k \in run[b].i..Len(Vars(b)) : Vars(b)[k] = c
      BY <2>2 DEF WillRelease
    <3>2. run[b].i >= 1 /\ run[b].i \in Nat /\ Len(Vars(b)) \in Nat
      BY <2>2, RunFields, VarsFacts DEF StepOK, Stepped
    <3> QED BY <3>1, <3>2, VarsFacts
  <2> QED BY <1>1, <2>1, <2>2 DEF InBody
<1> QED BY <1>1, <1>2, InBodyRuns

LEMMA ReleaserIsRunner ==
    ASSUME ValuesInv, NEW b \in Behaviors, phase[b] = "running",
           NEW c \in Targets(b), c \notin PinnedCowns, c \notin jammed, owner[c] # Null
    PROVE  WillRelease(b, c)
<1>1. c \in Cowns
  BY VarsFacts
<1>2. PICK e \in Behaviors : WillRelease(e, c)
  BY <1>1 DEF ValuesInv, ReleasedOK
<1>3. phase[e] = "running" /\ c \in Targets(e)
  BY <1>2, ReleaserRuns DEF ValuesInv
<1>4. e = b
  BY <1>3, Apart DEF ValuesInv
<1> QED BY <1>2, <1>4

TypesNext == /\ owner' \in [Cowns -> Interps \union {Null}]
             /\ value' \in [Cowns -> AllContents \union {Null}]
             /\ xidata' \in [Cowns -> AllContents \union {Null}]
             /\ exception' \in [Cowns -> BOOLEAN]
             /\ run' \in RunType /\ jammed' \subseteq Cowns

\* Everything but b and its cowns stays as it is.
OnlyOf(b) == /\ QueuesKept /\ SameRuns(b) /\ jammed \subseteq jammed'
             /\ \A c \in Cowns : c \notin Targets(b) => SameCown(c)

LEMMA OthersKept ==
    ASSUME ValuesInv, NEW b \in Behaviors, run[b].step \in InBody, OnlyOf(b),
           NEW d \in Behaviors, d # b
    PROVE  Stepped(d)' /\ Acquired(d)' /\ Reported(d)'
<1>1. run'[d] = run[d] /\ phase'[d] = phase[d]
  BY DEF OnlyOf, SameRuns, QueuesKept
<1>2. Stepped(d)'
  BY <1>1 DEF ValuesInv, StepOK, Stepped
<1>3. \A c \in Targets(d) : phase[d] = "running" => SameCown(c)
  <2>1. phase[b] = "running"
    BY InBodyRuns DEF ValuesInv
  <2> QED BY <2>1, Apart, VarsFacts DEF ValuesInv, OnlyOf
<1>4. Acquired(d)'
  <2>1. Acquired(d) /\ (run[d].step \in {"acquire", "execute"} => phase[d] = "running")
    BY InBodyRuns DEF ValuesInv, AcquiredOK, InBody
  <2>2. ASSUME run[d].step = "acquire", NEW k \in 1..(run[d].i - 1)
        PROVE  Held(d, Vars(d)[k])'
    <3>1. run[d].i \in 0..Len(Vars(d)) /\ Len(Vars(d)) \in Nat
      BY RunFields, VarsFacts DEF ValuesInv
    <3>2. k \in 1..Len(Vars(d))
      BY <3>1
    <3>3. SameCown(Vars(d)[k])
      BY <1>3, <2>1, <2>2, <3>2, VarsFacts
    <3>4. Held(d, Vars(d)[k])
      BY <2>1, <2>2 DEF Acquired
    <3> QED BY <1>1, <3>3, <3>4 DEF Held, SameCown, Vars
  <2>3. ASSUME run[d].step = "execute", NEW k \in 1..Len(Vars(d))
        PROVE  Held(d, Vars(d)[k])'
    <3>3. SameCown(Vars(d)[k])
      BY <1>3, <2>1, <2>3, VarsFacts
    <3>4. Held(d, Vars(d)[k])
      BY <2>1, <2>3 DEF Acquired
    <3> QED BY <1>1, <3>3, <3>4 DEF Held, SameCown, Vars
  <2> QED BY <1>1, <2>2, <2>3 DEF Acquired, Vars
<1>5. Reported(d)'
  <2> SUFFICES ASSUME run[d].step \in {"release", "handon"}, phase[d] = "running"
               PROVE  Reports(d)'
    BY <1>1 DEF Reported
  <2>1. SameCown(Result[d])
    BY <1>3, VarsFacts
  <2>2. Reports(d)
    BY DEF ValuesInv, ReportOK, Reported
  <2> QED BY <1>1, <2>1, <2>2 DEF Reports, SameCown
<1> QED BY <1>2, <1>4, <1>5

\* What remains to be shown of a step of b.
LEMMA StepOfBody ==
    ASSUME ValuesInv, NEW b \in Behaviors, run[b].step \in InBody, OnlyOf(b),
           TypesNext, run'[b].i \in 0..Len(Vars(b)),
           Stepped(b)', Acquired(b)', Reported(b)',
           \A c \in Targets(b) :
             /\ owner'[c] # Null => value'[c] # Null
             /\ c \in PinnedCowns => owner'[c] = Main
             /\ c \notin PinnedCowns /\ c \notin jammed' /\ owner'[c] # Null => WillRelease(b, c)'
    PROVE  ValuesInv'
<1>1. QueuesKept
  BY DEF OnlyOf
<1>2. ValuesTypeOK'
  <2>1. \A d \in Behaviors : run'[d].i \in 0..Len(Vars(d))
    BY RunFields DEF ValuesInv, OnlyOf, SameRuns
  <2>2. queue' \in [Cowns -> Seq(Behaviors)]
        /\ phase' \in [Behaviors -> {"new", "waiting", "running", "leaving"}]
    BY <1>1 DEF ValuesInv, ValuesTypeOK, QueuesKept
  <2> QED BY <2>1, <2>2 DEF ValuesTypeOK, TypesNext, RunType, RunRecord, Ends, Vars
<1>3. StepOK' /\ AcquiredOK' /\ ReportOK'
  BY OthersKept DEF StepOK, AcquiredOK, ReportOK
<1>4. HeadOK'
  BY <1>1 DEF ValuesInv, HeadOK, Sched!AtHead, QueuesKept, Targets, ArgSet
<1>5. ContentOK'
  BY DEF ValuesInv, ContentOK, OnlyOf, SameCown
<1>6. ReleasedOK'
  <2> SUFFICES ASSUME NEW c \in Cowns, c \notin PinnedCowns, c \notin jammed', owner'[c] # Null
               PROVE  \E e \in Behaviors : WillRelease(e, c)'
    BY DEF ReleasedOK
  <2>1. CASE c \in Targets(b)
    BY <2>1
  <2>2. CASE c \notin Targets(b)
    <3>1. owner'[c] = owner[c] /\ c \notin jammed
      BY <2>2 DEF OnlyOf, SameCown
    <3>2. PICK e \in Behaviors : WillRelease(e, c)
      BY <3>1 DEF ValuesInv, ReleasedOK
    <3>3. e # b
      BY <2>2, <3>2, ReleaserRuns DEF ValuesInv
    <3>4. run'[e] = run[e]
      BY <3>3 DEF OnlyOf, SameRuns
    <3>5. WillRelease(e, c)'
      BY <3>1, <3>2, <3>4 DEF WillRelease, Vars, Targets, ArgSet
    <3> QED BY <3>5
  <2> QED BY <2>1, <2>2
<1> QED BY <1>2, <1>3, <1>4, <1>5, <1>6 DEF ValuesInv

----------------------------------------------------------------------------
(***************************************************************************)
(* One lemma per step of a running behavior.                               *)
(***************************************************************************)
LEMMA Inv_AcquireOne ==
    ASSUME ValuesInv, NEW b \in Behaviors, AcquireOne(b) PROVE ValuesInv'
<1> DEFINE c == Cown(b)
<1>1. /\ QueuesKept /\ jammed' = jammed /\ run[b].step = "acquire"
      /\ run' = Advance(b, "execute")
      /\ \A d \in Cowns : d # c => SameCown(d)
      /\ owner'[c] = run[b].on /\ value'[c] # Null
      /\ exception' = exception
      /\ owner' \in [Cowns -> Interps \union {Null}]
      /\ value' \in [Cowns -> AllContents \union {Null}]
      /\ xidata' \in [Cowns -> AllContents \union {Null}]
      /\ c \in PinnedCowns => owner'[c] = Main
  BY AcquireOneFields
<1>2. /\ run[b].i \in 1..Len(Vars(b)) /\ c = Vars(b)[run[b].i]
      /\ c \in Targets(b) /\ c \in Cowns
  BY <1>1, CownInTargets DEF ValuesInv
<1>3. run[b].step \in InBody /\ phase[b] = "running" /\ run[b].on # Null
  BY <1>1, InBodyRuns DEF ValuesInv, InBody
<1>4. /\ run' \in RunType /\ SameRuns(b) /\ run'[b].on = run[b].on
      /\ \/ run[b].i = Len(Vars(b)) /\ run'[b].step = "execute" /\ run'[b].i = 1
         \/ /\ run[b].i < Len(Vars(b))
            /\ run'[b].step = "acquire" /\ run'[b].i = run[b].i + 1
      /\ run'[b].i \in 0..Len(Vars(b))
  <2>1. "execute" \in Steps /\ ValuesTypeOK
    BY DEF Steps, ValuesInv
  <2> QED BY <1>1, <1>2, <2>1, AdvanceFields
<1>5. OnlyOf(b) /\ TypesNext
  BY <1>1, <1>2, <1>4 DEF OnlyOf, TypesNext, ValuesInv, ValuesTypeOK
<1>6. phase'[b] = "running" /\ run'[b].step \in {"acquire", "execute"} /\ Len(Vars(b)) \in Nat
  BY <1>1, <1>3, <1>4, VarsFacts DEF QueuesKept
<1> HIDE DEF c
<1>7. Stepped(b)'
  BY <1>2, <1>3, <1>4, <1>6 DEF Stepped, InBody
<1>8. Acquired(b)'
  <2>1. ASSUME NEW k \in 1..run[b].i PROVE Held(b, Vars(b)[k])'
    <3>1. CASE Vars(b)[k] = c
      BY <1>1, <1>4, <3>1 DEF Held, Vars
    <3>2. CASE Vars(b)[k] # c
      <4>1. k \in 1..(run[b].i - 1) /\ k \in 1..Len(Vars(b))
        BY <1>2, <1>6, <3>2
      <4>2. Held(b, Vars(b)[k])
        BY <1>1, <4>1 DEF ValuesInv, AcquiredOK, Acquired
      <4>3. SameCown(Vars(b)[k])
        BY <1>1, <3>2, <4>1, VarsFacts
      <4> QED BY <1>4, <4>2, <4>3 DEF Held, SameCown, Vars
    <3> QED BY <3>1, <3>2
  <2>2. run'[b].step = "acquire" => run'[b].i - 1 = run[b].i
    BY <1>2, <1>4
  <2>3. run'[b].step = "execute" => Len(Vars(b)) = run[b].i
    BY <1>4
  <2> QED BY <2>1, <2>2, <2>3 DEF Acquired, Vars
<1>9. Reported(b)'
  BY <1>6 DEF Reported
<1>10. ASSUME NEW d \in Targets(b)
       PROVE /\ owner'[d] # Null => value'[d] # Null
             /\ d \in PinnedCowns => owner'[d] = Main
             /\ d \notin PinnedCowns /\ d \notin jammed' /\ owner'[d] # Null
                  => WillRelease(b, d)'
  <2>0. d \in Cowns
    BY VarsFacts
  <2>1. CASE d = c
    BY <1>1, <1>4, <1>6, <2>1 DEF WillRelease, Targets, ArgSet
  <2>2. CASE d # c
    <3>1. SameCown(d)
      BY <1>1, <2>0, <2>2
    <3>2. d \notin PinnedCowns /\ d \notin jammed /\ owner[d] # Null => WillRelease(b, d)
      BY <1>3, ReleaserIsRunner
    <3> QED BY <1>1, <1>4, <1>6, <2>0, <3>1, <3>2
            DEF WillRelease, Targets, ArgSet, SameCown, ValuesInv, ContentOK
  <2> QED BY <2>1, <2>2
<1> QED BY <1>3, <1>4, <1>5, <1>7, <1>8, <1>9, <1>10, StepOfBody


\* Both of the ways out of the acquires and the body lead to the releases.
LEMMA ToRelease ==
    ASSUME ValuesInv, NEW b \in Behaviors, NEW e \in Ends,
           run' = [run EXCEPT ![b] = Moved(run[b], "release", 1, e)]
    PROVE  /\ run' \in RunType /\ SameRuns(b) /\ run'[b].on = run[b].on
           /\ run'[b].step = "release" /\ run'[b].i = 1 /\ run'[b].end = e
           /\ run'[b].i \in 0..Len(Vars(b))
<1> DEFINE q == Moved(run[b], "release", 1, e)
<1>r. run[b] \in RunRecord /\ run \in RunType
  BY RunFields DEF ValuesInv
<1>4. q \in RunRecord /\ q.step = "release" /\ q.i = 1 /\ q.end = e /\ q.on = run[b].on
  <2>1. PICK s \in Steps : s = "release"
    BY DEF Steps
  <2>2. PICK n \in Nat : n = 1
    OBVIOUS
  <2>4. q = Moved(run[b], s, n, e)
    BY <2>1, <2>2
  <2>5. /\ Moved(run[b], s, n, e) \in RunRecord /\ Moved(run[b], s, n, e).on = run[b].on
        /\ Moved(run[b], s, n, e).step = s /\ Moved(run[b], s, n, e).i = n
        /\ Moved(run[b], s, n, e).end = e
    BY <1>r, SetThree
  <2> HIDE DEF q
  <2> QED BY <2>1, <2>2, <2>4, <2>5
<1> HIDE DEF q
<1>5. run' = [run EXCEPT ![b] = q]
  BY DEF q
<1>6. run' \in RunType /\ SameRuns(b) /\ run'[b] = q
  BY <1>4, <1>5, SetRun DEF ValuesInv
<1>7. 1 \in 0..Len(Vars(b))
  BY VarsFacts
<1> QED BY <1>4, <1>6, <1>7

\* What b holds before a step to the releases, it releases after it.
LEMMA WillReleaseAll ==
    ASSUME ValuesInv, NEW b \in Behaviors, phase[b] = "running", NEW d \in Targets(b),
           owner' = owner, jammed' = jammed,
           run'[b].on = run[b].on, run'[b].step = "release", run'[b].i = 1,
           d \notin PinnedCowns, d \notin jammed', owner'[d] # Null
    PROVE  WillRelease(b, d)'
<1>1. WillRelease(b, d)
  BY ReleaserIsRunner
<1>2. run[b].on = owner[d]
  BY <1>1 DEF WillRelease
<1>3. PICK k \in 1..Len(Vars(b)) : Vars(b)[k] = d
  BY VarsFacts
<1>4. \E j \in run'[b].i..Len(Vars(b)) : Vars(b)[j] = d
  BY <1>3
<1> QED BY <1>2, <1>4 DEF WillRelease, Vars

LEMMA Inv_AcquireFails ==
    ASSUME ValuesInv, NEW b \in Behaviors, AcquireFails(b) PROVE ValuesInv'
<1> DEFINE c == Cown(b)
           r == Result[b]
<1>1. /\ run[b].step = "acquire" /\ QueuesKept /\ jammed' = jammed /\ owner' = owner
      /\ value' = [value EXCEPT ![r] = "error"]
      /\ exception' = [exception EXCEPT ![r] = TRUE]
      /\ xidata' = [xidata EXCEPT ![c] = IF owner[c] = Null THEN Null ELSE xidata[c]]
  BY DEF AcquireFails, At, QueuesKept, Marked, Poisoned
<1>2. run' = [run EXCEPT ![b] = Moved(run[b], "release", 1, "refused")]
  <2>1. run' = [run EXCEPT ![b].step = "release", ![b].i = 1, ![b].end = "refused"]
    BY DEF AcquireFails, AfterRefusal
  <2> QED BY <2>1, RunFields DEF ValuesInv, RunType, Moved
<1>3. /\ run' \in RunType /\ SameRuns(b) /\ run'[b].on = run[b].on
      /\ run'[b].step = "release" /\ run'[b].i = 1 /\ run'[b].end = "refused"
      /\ run'[b].i \in 0..Len(Vars(b))
  BY <1>2, ToRelease DEF Ends
<1>4. run[b].step \in InBody /\ phase[b] = "running" /\ run[b].on # Null
  BY <1>1, InBodyRuns DEF ValuesInv, InBody
<1>5. c \in Targets(b) /\ c \in Cowns /\ r \in Targets(b) /\ r \in Cowns
  BY <1>1, CownInTargets, VarsFacts DEF ValuesInv
<1>t. /\ value \in [Cowns -> AllContents \union {Null}]
      /\ xidata \in [Cowns -> AllContents \union {Null}]
      /\ exception \in [Cowns -> BOOLEAN]
      /\ owner \in [Cowns -> Interps \union {Null}] /\ jammed \subseteq Cowns
      /\ "error" \in AllContents
  BY DEF ValuesInv, ValuesTypeOK, AllContents
<1> HIDE DEF c, r
<1>6. value'[r] = "error" /\ exception'[r] = TRUE
      /\ \A d \in Cowns : d # r => value'[d] = value[d]
  BY <1>1, <1>5, <1>t
<1>7. TypesNext
  BY <1>1, <1>3, <1>5, <1>t DEF TypesNext
<1>8. OnlyOf(b)
  BY <1>1, <1>3, <1>5, <1>t DEF OnlyOf, SameCown
<1>9. phase'[b] = "running" /\ "error" # Null
  BY <1>1, <1>4, <1>t, NullIsNothing DEF QueuesKept
<1>10. Stepped(b)' /\ Acquired(b)'
  BY <1>3, <1>4, <1>9 DEF Stepped, Acquired, InBody
<1>11. Reported(b)'
  BY <1>3, <1>6 DEF Reported, Reports, r
<1>12. ASSUME NEW d \in Targets(b)
       PROVE /\ owner'[d] # Null => value'[d] # Null
             /\ d \in PinnedCowns => owner'[d] = Main
             /\ d \notin PinnedCowns /\ d \notin jammed' /\ owner'[d] # Null
                  => WillRelease(b, d)'
  <2>0. d \in Cowns
    BY VarsFacts
  <2>1. owner'[d] # Null => value'[d] # Null
    BY <1>1, <1>6, <1>9, <2>0 DEF ValuesInv, ContentOK
  <2>2. d \in PinnedCowns => owner'[d] = Main
    BY <1>1, <2>0 DEF ValuesInv, ContentOK
  <2>3. d \notin PinnedCowns /\ d \notin jammed' /\ owner'[d] # Null => WillRelease(b, d)'
    BY <1>1, <1>3, <1>4, WillReleaseAll
  <2> QED BY <2>1, <2>2, <2>3
<1> QED BY <1>3, <1>4, <1>7, <1>8, <1>10, <1>11, <1>12, StepOfBody

LEMMA BodyTypes ==
    ASSUME NEW b \in Behaviors, NEW body \in Bodies[b]
    PROVE  body[1] \in AllContents /\ body[2] \in AllContents
BY ValuesAssumption DEF AllContents

LEMMA Inv_Execute ==
    ASSUME ValuesInv, NEW b \in Behaviors, NEW stored \in AllContents,
           NEW returned \in AllContents, Execute(b, stored, returned)
    PROVE  ValuesInv'
<1> DEFINE r == Result[b]
           e == IF returned = "error" THEN "raised" ELSE "returned"
<1>1. /\ run[b].step = "execute" /\ QueuesKept /\ jammed' = jammed /\ owner' = owner
      /\ xidata' = xidata /\ value' = Store(b, stored, returned)
      /\ exception' = [c \in Cowns |->
                     IF c = r THEN returned = "error"
                     ELSE IF Args[b] # <<>> /\ c = Args[b][1] THEN FALSE
                     ELSE exception[c]]
  BY DEF Execute, At, QueuesKept
<1>2. run' = [run EXCEPT ![b] = Moved(run[b], "release", 1, e)]
  <2>1. run' = [run EXCEPT ![b].step = "release", ![b].i = 1, ![b].end = e]
    BY DEF Execute
  <2> QED BY <2>1, RunFields DEF ValuesInv, RunType, Moved
<1>e. e \in Ends /\ (e # "returned" <=> returned = "error")
  BY DEF Ends
<1> HIDE DEF e
<1>3. /\ run' \in RunType /\ SameRuns(b) /\ run'[b].on = run[b].on
      /\ run'[b].step = "release" /\ run'[b].i = 1 /\ run'[b].end = e
      /\ run'[b].i \in 0..Len(Vars(b))
  BY <1>2, <1>e, ToRelease
<1>4. run[b].step \in InBody /\ phase[b] = "running" /\ run[b].on # Null
  BY <1>1, InBodyRuns DEF ValuesInv, InBody
<1>5. r \in Targets(b) /\ r \in Cowns
  BY VarsFacts DEF ValuesInv
<1>t. /\ value \in [Cowns -> AllContents \union {Null}]
      /\ xidata \in [Cowns -> AllContents \union {Null}]
      /\ exception \in [Cowns -> BOOLEAN]
      /\ owner \in [Cowns -> Interps \union {Null}] /\ jammed \subseteq Cowns
  BY DEF ValuesInv, ValuesTypeOK
<1>n. stored # Null /\ returned # Null
  BY NullIsNothing
<1>6. PICK a \in Targets(b) : /\ value' = [value EXCEPT ![r] = returned,
                                          ![a] = IF a = r THEN returned ELSE stored]
                              /\ a \in Cowns
                              /\ a # r => Args[b] # <<>> /\ a = Args[b][1]
                              /\ Args[b] # <<>> => a = Args[b][1]
  <2>1. CASE Args[b] = <<>>
    BY <1>1, <1>5, <2>1 DEF Store
  <2>2. CASE Args[b] # <<>>
    <3>1. Args[b] \in Seq(Cowns) /\ 1 \in DOMAIN Args[b]
      BY <2>2, RequestsAssumption
    <3>2. Args[b][1] \in Targets(b) /\ Args[b][1] \in Cowns /\ Args[b][1] # r
      BY <3>1, RequestsAssumption DEF Targets, ArgSet
    <3>3. value' = [value EXCEPT ![r] = returned, ![Args[b][1]] = stored]
      BY <1>1, <2>2 DEF Store
    <3> QED BY <2>2, <3>2, <3>3
  <2> QED BY <2>1, <2>2
<1> HIDE DEF r
<1>7. /\ value'[r] = returned /\ \A d \in Cowns : d # r /\ d # a => value'[d] = value[d]
      /\ value'[a] \in {stored, returned} /\ value' \in [Cowns -> AllContents \union {Null}]
  BY <1>5, <1>6, <1>t
<1>8. /\ exception'[r] <=> returned = "error"
      /\ \A d \in Cowns : d # r /\ d # a => exception'[d] = exception[d]
      /\ exception' \in [Cowns -> BOOLEAN]
  <2>1. exception'[r] <=> returned = "error"
    BY <1>1, <1>5
  <2>2. ASSUME NEW d \in Cowns, d # r, d # a PROVE exception'[d] = exception[d]
    <3>1. ~(Args[b] # <<>> /\ d = Args[b][1])
      BY <1>6, <2>2
    <3> QED BY <1>1, <2>2, <3>1
  <2>3. ASSUME NEW d \in Cowns
        PROVE (IF d = r THEN returned = "error"
               ELSE IF Args[b] # <<>> /\ d = Args[b][1] THEN FALSE
               ELSE exception[d]) \in BOOLEAN
    <3>1. exception[d] \in BOOLEAN
      BY <1>t
    <3> QED BY <3>1, Zenon
  <2>4. exception' \in [Cowns -> BOOLEAN]
    BY <1>1, <2>3, Zenon
  <2> QED BY <2>1, <2>2, <2>4
<1>9. TypesNext
  BY <1>1, <1>3, <1>7, <1>8, <1>t DEF TypesNext
<1>10. OnlyOf(b)
  BY <1>1, <1>3, <1>5, <1>6, <1>7, <1>8, <1>t DEF OnlyOf, SameCown
<1>11. phase'[b] = "running"
  BY <1>1, <1>4 DEF QueuesKept
<1>12. Stepped(b)' /\ Acquired(b)'
  BY <1>3, <1>4, <1>11 DEF Stepped, Acquired, InBody
<1>13. Reported(b)'
  BY <1>3, <1>7, <1>8, <1>e DEF Reported, Reports, r
<1>14. ASSUME NEW d \in Targets(b)
       PROVE /\ owner'[d] # Null => value'[d] # Null
             /\ d \in PinnedCowns => owner'[d] = Main
             /\ d \notin PinnedCowns /\ d \notin jammed' /\ owner'[d] # Null
                  => WillRelease(b, d)'
  <2>0. d \in Cowns
    BY VarsFacts
  <2>1. owner'[d] # Null => value'[d] # Null
    BY <1>1, <1>7, <1>n, <2>0 DEF ValuesInv, ContentOK
  <2>2. d \in PinnedCowns => owner'[d] = Main
    BY <1>1, <2>0 DEF ValuesInv, ContentOK
  <2>3. d \notin PinnedCowns /\ d \notin jammed' /\ owner'[d] # Null => WillRelease(b, d)'
    BY <1>1, <1>3, <1>4, WillReleaseAll
  <2> QED BY <2>1, <2>2, <2>3
<1> QED BY <1>3, <1>4, <1>9, <1>10, <1>12, <1>13, <1>14, StepOfBody

LEMMA Inv_ReleaseOne ==
    ASSUME ValuesInv, NEW b \in Behaviors, ReleaseOne(b) PROVE ValuesInv'
<1> DEFINE c == Cown(b)
<1>1. /\ QueuesKept /\ jammed' = jammed /\ run[b].step = "release"
      /\ run' = Advance(b, "handon") /\ exception' = exception
      /\ \A d \in Cowns : d # c => SameCown(d)
      /\ \/ SameCown(c) /\ (owner[c] # run[b].on \/ c \in PinnedCowns)
         \/ /\ c \notin PinnedCowns /\ owner[c] = run[b].on
            /\ owner'[c] = Null /\ value'[c] = Null /\ xidata'[c] = value[c]
      /\ owner' \in [Cowns -> Interps \union {Null}]
      /\ value' \in [Cowns -> AllContents \union {Null}]
      /\ xidata' \in [Cowns -> AllContents \union {Null}]
  BY ReleaseOneFields
<1>2. /\ run[b].i \in 1..Len(Vars(b)) /\ c = Vars(b)[run[b].i]
      /\ c \in Targets(b) /\ c \in Cowns
  BY <1>1, CownInTargets DEF ValuesInv
<1>3. run[b].step \in InBody /\ phase[b] = "running" /\ run[b].on # Null
  BY <1>1, InBodyRuns DEF ValuesInv, InBody
<1>4. /\ run' \in RunType /\ SameRuns(b) /\ run'[b].on = run[b].on /\ run'[b].end = run[b].end
      /\ \/ run[b].i = Len(Vars(b)) /\ run'[b].step = "handon" /\ run'[b].i = 1
         \/ /\ run[b].i < Len(Vars(b))
            /\ run'[b].step = "release" /\ run'[b].i = run[b].i + 1
      /\ run'[b].i \in 0..Len(Vars(b))
  <2>1. "handon" \in Steps /\ ValuesTypeOK
    BY DEF Steps, ValuesInv
  <2> QED BY <1>1, <1>2, <2>1, AdvanceFields
<1>5. OnlyOf(b) /\ TypesNext
  BY <1>1, <1>2, <1>4 DEF OnlyOf, TypesNext, ValuesInv, ValuesTypeOK
<1>6. phase'[b] = "running" /\ run'[b].step \in {"release", "handon"} /\ Len(Vars(b)) \in Nat
  BY <1>1, <1>3, <1>4, VarsFacts DEF QueuesKept
<1> HIDE DEF c
<1>7. Stepped(b)' /\ Acquired(b)'
  BY <1>2, <1>3, <1>4, <1>6 DEF Stepped, Acquired, InBody
<1>8. Reported(b)'
  <2>1. Reports(b)
    BY <1>1, <1>3 DEF ValuesInv, ReportOK, Reported
  <2>2. Result[b] \in Cowns
    BY VarsFacts
  <2>3. SameCown(Result[b]) \/ /\ owner'[Result[b]] = Null
                               /\ xidata'[Result[b]] = value[Result[b]]
                               /\ owner[Result[b]] # Null
                               /\ exception'[Result[b]] = exception[Result[b]]
    BY <1>1, <1>3, <2>2
  <2> QED BY <1>4, <2>1, <2>3 DEF Reported, Reports, SameCown
<1>9. ASSUME NEW d \in Targets(b)
       PROVE /\ owner'[d] # Null => value'[d] # Null
             /\ d \in PinnedCowns => owner'[d] = Main
             /\ d \notin PinnedCowns /\ d \notin jammed' /\ owner'[d] # Null
                  => WillRelease(b, d)'
  <2>0. d \in Cowns
    BY VarsFacts
  <2>1. SameCown(d) \/ (owner'[d] = Null /\ d \notin PinnedCowns)
    BY <1>1, <2>0
  <2>2. CASE owner'[d] = Null
    BY <2>0, <2>1, <2>2, ValuesAssumption DEF SameCown, ValuesInv, ContentOK
  <2>3. CASE owner'[d] # Null
    <3>1. SameCown(d)
      BY <2>1, <2>3
    <3>2. ASSUME d \notin PinnedCowns, d \notin jammed' PROVE WillRelease(b, d)'
      <4>1. WillRelease(b, d) /\ run[b].on = owner'[d]
        BY <1>1, <1>3, <2>3, <3>1, <3>2, ReleaserIsRunner DEF SameCown, WillRelease
      <4>2. PICK k \in run[b].i..Len(Vars(b)) : Vars(b)[k] = d
        BY <1>1, <4>1 DEF WillRelease
      <4>3. d # c
        BY <1>1, <2>3, <3>1, <3>2, <4>1 DEF SameCown
      <4>4. k \in (run[b].i + 1)..Len(Vars(b))
        BY <1>2, <1>6, <4>2, <4>3
      <4>5. run'[b].step = "release" /\ run'[b].i = run[b].i + 1
        BY <1>2, <1>4, <1>6, <4>4
      <4> QED BY <1>4, <4>1, <4>2, <4>4, <4>5 DEF WillRelease, Vars
    <3> QED BY <2>0, <3>1, <3>2 DEF SameCown, ValuesInv, ContentOK
  <2> QED BY <2>2, <2>3
<1> QED BY <1>3, <1>4, <1>5, <1>7, <1>8, <1>9, StepOfBody

LEMMA Inv_ReleaseFails ==
    ASSUME ValuesInv, NEW b \in Behaviors, ReleaseFails(b) PROVE ValuesInv'
<1> DEFINE rest == {Vars(b)[k] : k \in run[b].i..Len(Vars(b))}
<1>1. /\ run[b].step = "release" /\ QueuesKept
      /\ owner' = owner /\ value' = value /\ xidata' = xidata /\ exception' = exception
      /\ jammed' = jammed \union rest
      /\ run' = [run EXCEPT ![b].step = "handon", ![b].i = 1]
  BY DEF ReleaseFails, At, QueuesKept, Kept
<1>2. /\ run[b].i \in 1..Len(Vars(b)) /\ Len(Vars(b)) \in Nat
      /\ 1 \in 0..Len(Vars(b))
  BY <1>1, CownInTargets, VarsFacts DEF ValuesInv
<1>3. run[b].step \in InBody /\ phase[b] = "running" /\ run[b].on # Null
  BY <1>1, InBodyRuns DEF ValuesInv, InBody
<1>4. /\ run' \in RunType /\ SameRuns(b) /\ run'[b].on = run[b].on /\ run'[b].end = run[b].end
      /\ run'[b].step = "handon" /\ run'[b].i = 1
  <2> DEFINE q == Moved(run[b], "handon", 1, run[b].end)
  <2>r. run[b] \in RunRecord /\ run \in RunType /\ run[b].end \in Ends
    BY RunFields DEF ValuesInv
  <2>1. run' = [run EXCEPT ![b] = q]
    BY <1>1, <2>r DEF RunType, Moved, RunRecord
  <2>2. PICK s \in Steps : s = "handon"
    BY DEF Steps
  <2>3. PICK n \in Nat : n = 1
    OBVIOUS
  <2>4. q = Moved(run[b], s, n, run[b].end)
    BY <2>2, <2>3
  <2>5. /\ Moved(run[b], s, n, run[b].end) \in RunRecord
        /\ Moved(run[b], s, n, run[b].end).on = run[b].on
        /\ Moved(run[b], s, n, run[b].end).step = s /\ Moved(run[b], s, n, run[b].end).i = n
        /\ Moved(run[b], s, n, run[b].end).end = run[b].end
    BY <2>r, SetThree
  <2> HIDE DEF q
  <2>6. run' \in RunType /\ SameRuns(b) /\ run'[b] = q
    BY <2>1, <2>4, <2>5, SetRun DEF ValuesInv
  <2> QED BY <2>2, <2>3, <2>4, <2>5, <2>6
<1>5. rest \subseteq Cowns
  BY <1>2, VarsFacts
<1> HIDE DEF rest
<1>6. OnlyOf(b) /\ TypesNext
  BY <1>1, <1>4, <1>5 DEF OnlyOf, TypesNext, SameCown, ValuesInv, ValuesTypeOK
<1>7. Stepped(b)' /\ Acquired(b)'
  BY <1>1, <1>3, <1>4 DEF Stepped, Acquired, InBody, QueuesKept
<1>8. Reported(b)'
  <2>1. Reports(b)
    BY <1>1, <1>3 DEF ValuesInv, ReportOK, Reported
  <2> QED BY <1>1, <1>4, <2>1 DEF Reported, Reports
<1>9. ASSUME NEW d \in Targets(b)
       PROVE /\ owner'[d] # Null => value'[d] # Null
             /\ d \in PinnedCowns => owner'[d] = Main
             /\ d \notin PinnedCowns /\ d \notin jammed' /\ owner'[d] # Null
                  => WillRelease(b, d)'
  <2>0. d \in Cowns
    BY VarsFacts
  <2>1. ASSUME d \notin PinnedCowns, d \notin jammed', owner'[d] # Null PROVE FALSE
    <3>1. WillRelease(b, d)
      BY <1>1, <1>3, <2>1, ReleaserIsRunner
    <3>2. d \in rest
      BY <1>1, <3>1 DEF WillRelease, rest
    <3> QED BY <1>1, <2>1, <3>2
  <2> QED BY <1>1, <2>0, <2>1 DEF ValuesInv, ContentOK
<1> QED BY <1>2, <1>3, <1>4, <1>6, <1>7, <1>8, <1>9, StepOfBody

----------------------------------------------------------------------------
(***************************************************************************)
(* Steps that leave the cowns alone: what the queues and the behavior do   *)
(* must keep the rest of the invariant.                                    *)
(***************************************************************************)
LEMMA StepOfQueue ==
    ASSUME ValuesInv, NEW b \in Behaviors, UNCHANGED <<cownVars, jammed>>, SameRuns(b),
           run' \in RunType, run'[b].i \in 0..Len(Vars(b)),
           \A d \in Behaviors : d # b => phase'[d] = phase[d],
           queue' \in [Cowns -> Seq(Behaviors)],
           phase' \in [Behaviors -> {"new", "waiting", "running", "leaving"}],
           Stepped(b)', Acquired(b)', Reported(b)', HeadOK',
           \A c \in Cowns : WillRelease(b, c) => WillRelease(b, c)'
    PROVE  ValuesInv'
<1>1. owner' = owner /\ value' = value /\ xidata' = xidata /\ exception' = exception
      /\ jammed' = jammed
  BY DEF cownVars
<1>2. ValuesTypeOK'
  <2>1. \A d \in Behaviors : run'[d].i \in 0..Len(Vars(d))
    BY RunFields DEF ValuesInv, SameRuns
  <2> QED BY <1>1, <2>1 DEF ValuesInv, ValuesTypeOK, RunType, RunRecord, Ends, Vars
<1>3. ASSUME NEW d \in Behaviors, d # b PROVE Stepped(d)' /\ Acquired(d)' /\ Reported(d)'
  <2>1. run'[d] = run[d] /\ phase'[d] = phase[d]
    BY <1>3 DEF SameRuns
  <2>2. Stepped(d) /\ Acquired(d) /\ Reported(d)
    BY DEF ValuesInv, StepOK, AcquiredOK, ReportOK
  <2>3. Stepped(d)'
    BY <2>1, <2>2 DEF Stepped
  <2>4. Acquired(d)'
    BY <1>1, <2>1, <2>2 DEF Acquired, Held, Vars
  <2>5. Reported(d)'
    BY <1>1, <2>1, <2>2 DEF Reported, Reports
  <2> QED BY <2>3, <2>4, <2>5
<1>4. StepOK' /\ AcquiredOK' /\ ReportOK'
  BY <1>3 DEF StepOK, AcquiredOK, ReportOK
<1>5. ContentOK'
  BY <1>1 DEF ValuesInv, ContentOK
<1>6. ReleasedOK'
  <2> SUFFICES ASSUME NEW c \in Cowns, c \notin PinnedCowns, c \notin jammed, owner[c] # Null
               PROVE  \E e \in Behaviors : WillRelease(e, c)'
    BY <1>1 DEF ReleasedOK
  <2>1. PICK e \in Behaviors : WillRelease(e, c)
    BY DEF ValuesInv, ReleasedOK
  <2>2. CASE e = b
    BY <2>1, <2>2
  <2>3. CASE e # b
    <3>1. run'[e] = run[e]
      BY <2>3 DEF SameRuns
    <3>2. WillRelease(e, c)'
      BY <1>1, <2>1, <3>1 DEF WillRelease, Vars, Targets, ArgSet
    <3> QED BY <3>2
  <2> QED BY <2>2, <2>3
<1> QED BY <1>2, <1>4, <1>5, <1>6 DEF ValuesInv

LEMMA QueueTypes ==
    ASSUME ValuesTypeOK
    PROVE  /\ queue \in [Cowns -> Seq(Behaviors)]
           /\ phase \in [Behaviors -> {"new", "waiting", "running", "leaving"}]
BY DEF ValuesTypeOK

\* Only the step of b changes.
LEMMA ToStep ==
    ASSUME ValuesInv, NEW b \in Behaviors, NEW s \in Steps, run' = [run EXCEPT ![b].step = s]
    PROVE  /\ run' \in RunType /\ SameRuns(b) /\ run'[b].on = run[b].on
           /\ run'[b].step = s /\ run'[b].i \in 0..Len(Vars(b))
<1> DEFINE q == [run[b] EXCEPT !.step = s]
<1>r. run[b] \in RunRecord /\ run \in RunType /\ run[b].i \in 0..Len(Vars(b))
  BY RunFields DEF ValuesInv
<1>1. run' = [run EXCEPT ![b] = q]
  BY <1>r DEF RunType
<1>2. q \in RunRecord /\ q.step = s /\ q.on = run[b].on /\ q.i = run[b].i
  BY <1>r DEF RunRecord
<1> HIDE DEF q
<1>3. run' \in RunType /\ SameRuns(b) /\ run'[b] = q
  BY <1>1, <1>2, SetRun DEF ValuesInv
<1> QED BY <1>r, <1>2, <1>3

LEMMA Inv_Schedule ==
    ASSUME ValuesInv, NEW b \in Behaviors, Schedule(b) PROVE ValuesInv'
<1>1. /\ phase[b] = "new" /\ UNCHANGED <<cownVars, jammed>> /\ run' = run
      /\ phase' = [phase EXCEPT ![b] = "waiting"]
      /\ queue' = [c \in Cowns |-> IF c \in Targets(b) THEN Append(queue[c], b)
                                                     ELSE queue[c]]
  BY DEF Schedule, Sched!Schedule, Sched!Targets, Sched!ArgSet, Targets, ArgSet
<1>t. /\ queue \in [Cowns -> Seq(Behaviors)]
      /\ phase \in [Behaviors -> {"new", "waiting", "running", "leaving"}]
      /\ run \in RunType /\ run[b].i \in 0..Len(Vars(b))
  BY QueueTypes, RunFields DEF ValuesInv
<1>2. run[b].step = "none"
  BY <1>1 DEF ValuesInv, StepOK, Stepped
<1>3. /\ queue' \in [Cowns -> Seq(Behaviors)] /\ phase'[b] = "waiting"
      /\ phase' \in [Behaviors -> {"new", "waiting", "running", "leaving"}]
      /\ \A d \in Behaviors : d # b => phase'[d] = phase[d]
  BY <1>1, <1>t
<1>4. HeadOK'
  <2> SUFFICES ASSUME NEW d \in Behaviors, phase'[d] = "running", NEW c \in Targets(d)
               PROVE  queue'[c] # <<>> /\ Head(queue'[c]) = d
    BY DEF HeadOK, Sched!AtHead, Targets, ArgSet
  <2>1. phase[d] = "running" /\ c \in Cowns
    BY <1>3, VarsFacts
  <2>2. queue[c] # <<>> /\ Head(queue[c]) = d /\ queue[c] \in Seq(Behaviors)
    BY <1>t, <2>1 DEF ValuesInv, HeadOK, Sched!AtHead
  <2>3. Append(queue[c], b) # <<>> /\ Head(Append(queue[c], b)) = Head(queue[c])
    BY <2>2
  <2> QED BY <1>1, <2>1, <2>2, <2>3
<1>5. Stepped(b)' /\ Acquired(b)' /\ Reported(b)'
  BY <1>1, <1>2, <1>3 DEF Stepped, Acquired, Reported, InBody
<1>6. SameRuns(b) /\ \A c \in Cowns : WillRelease(b, c) => WillRelease(b, c)'
  BY <1>1, <1>2 DEF SameRuns, WillRelease
<1> QED BY <1>1, <1>t, <1>3, <1>4, <1>5, <1>6, StepOfQueue

LEMMA Inv_Begin ==
    ASSUME ValuesInv, NEW b \in Behaviors, NEW w \in Interps, Begin(b, w) PROVE ValuesInv'
<1>1. /\ phase[b] = "waiting" /\ \A c \in Targets(b) : Sched!AtHead(b, c)
      /\ UNCHANGED <<cownVars, jammed>> /\ queue' = queue
      /\ phase' = [phase EXCEPT ![b] = "running"]
      /\ run' = [run EXCEPT ![b].on = w, ![b].step = "acquire", ![b].i = 1]
  BY DEF Begin, Sched!Start, Sched!Targets, Sched!ArgSet, Sched!AtHead, Targets, ArgSet
<1>t. /\ queue \in [Cowns -> Seq(Behaviors)]
      /\ phase \in [Behaviors -> {"new", "waiting", "running", "leaving"}]
      /\ run \in RunType /\ run[b] \in RunRecord /\ run[b].end \in Ends
  BY QueueTypes, RunFields DEF ValuesInv
<1>2. run[b].step = "none"
  BY <1>1 DEF ValuesInv, StepOK, Stepped
<1>3. /\ run' \in RunType /\ SameRuns(b) /\ run'[b].on = w
      /\ run'[b].step = "acquire" /\ run'[b].i = 1
  <2> DEFINE p == [run[b] EXCEPT !.on = w]
             q == Moved(p, "acquire", 1, run[b].end)
  <2>1. p \in RunRecord /\ p.on = w /\ p.end = run[b].end
    BY <1>t DEF RunRecord
  <2>2. run' = [run EXCEPT ![b] = q]
    BY <1>1, <1>t DEF RunType, Moved, RunRecord
  <2>3. PICK s \in Steps : s = "acquire"
    BY DEF Steps
  <2>4. PICK n \in Nat : n = 1
    OBVIOUS
  <2> HIDE DEF p
  <2>5. q = Moved(p, s, n, run[b].end)
    BY <2>3, <2>4
  <2>6. /\ Moved(p, s, n, run[b].end) \in RunRecord
        /\ Moved(p, s, n, run[b].end).on = p.on
        /\ Moved(p, s, n, run[b].end).step = s /\ Moved(p, s, n, run[b].end).i = n
    BY <1>t, <2>1, SetThree
  <2> HIDE DEF q
  <2>7. run' \in RunType /\ SameRuns(b) /\ run'[b] = q
    BY <2>2, <2>5, <2>6, SetRun DEF ValuesInv
  <2> QED BY <2>1, <2>3, <2>4, <2>5, <2>6, <2>7
<1>4. /\ queue' \in [Cowns -> Seq(Behaviors)] /\ phase'[b] = "running"
      /\ phase' \in [Behaviors -> {"new", "waiting", "running", "leaving"}]
      /\ \A d \in Behaviors : d # b => phase'[d] = phase[d]
  BY <1>1, <1>t
<1>5. HeadOK'
  BY <1>1, <1>4 DEF ValuesInv, HeadOK, Sched!AtHead, Targets, ArgSet
<1>6. w # Null /\ 1 \in 0..Len(Vars(b))
  BY NullIsNothing, VarsFacts
<1>7. Stepped(b)' /\ Acquired(b)' /\ Reported(b)'
  BY <1>3, <1>4, <1>6 DEF Stepped, Acquired, Reported, InBody
<1>8. \A c \in Cowns : WillRelease(b, c) => WillRelease(b, c)'
  BY <1>2 DEF WillRelease
<1> QED BY <1>1, <1>3, <1>4, <1>5, <1>6, <1>7, <1>8, StepOfQueue

LEMMA Inv_Dec == ASSUME ValuesInv, NEW b \in Behaviors, Dec(b) PROVE ValuesInv'
<1>1. /\ run[b].step = "dec" /\ run' = [run EXCEPT ![b].step = "done"]
      /\ queue' = queue /\ phase' = phase /\ UNCHANGED <<cownVars, jammed>>
  BY DEF Dec, At
<1>2. /\ run' \in RunType /\ SameRuns(b) /\ run'[b].on = run[b].on
      /\ run'[b].step = "done" /\ run'[b].i \in 0..Len(Vars(b))
  BY <1>1, ToStep DEF Steps
<1>3. Stepped(b)' /\ Acquired(b)' /\ Reported(b)'
  BY <1>1, <1>2 DEF Stepped, Acquired, Reported, InBody, ValuesInv, StepOK
<1>4. HeadOK'
  BY <1>1 DEF ValuesInv, HeadOK, Sched!AtHead, Targets, ArgSet
<1>5. \A c \in Cowns : WillRelease(b, c) => WillRelease(b, c)'
  BY <1>1 DEF WillRelease
<1>6. /\ queue' \in [Cowns -> Seq(Behaviors)]
      /\ phase' \in [Behaviors -> {"new", "waiting", "running", "leaving"}]
  BY <1>1, QueueTypes DEF ValuesInv
<1> QED BY <1>1, <1>2, <1>3, <1>4, <1>5, <1>6, StepOfQueue

LEMMA Inv_HandOn == ASSUME ValuesInv, NEW b \in Behaviors, HandOn(b) PROVE ValuesInv'
<1>1. run[b].step = "handon" /\ UNCHANGED <<cownVars, jammed>>
  BY DEF HandOn, At
<1>t. /\ queue \in [Cowns -> Seq(Behaviors)]
      /\ phase \in [Behaviors -> {"new", "waiting", "running", "leaving"}]
      /\ run \in RunType /\ run[b].i \in 0..Len(Vars(b))
  BY QueueTypes, RunFields DEF ValuesInv
<1>2. \A c \in Cowns : WillRelease(b, c) => WillRelease(b, c)'
  BY <1>1 DEF WillRelease
<1>3. CASE phase[b] = "running" /\ Sched!End(b) /\ UNCHANGED run
  <2>1. /\ queue' = queue /\ run' = run /\ phase' = [phase EXCEPT ![b] = "leaving"]
    BY <1>3 DEF Sched!End
  <2>2. /\ phase'[b] = "leaving" /\ \A d \in Behaviors : d # b => phase'[d] = phase[d]
        /\ phase' \in [Behaviors -> {"new", "waiting", "running", "leaving"}]
    BY <1>t, <2>1
  <2>3. HeadOK'
    BY <2>1, <2>2 DEF ValuesInv, HeadOK, Sched!AtHead, Targets, ArgSet
  <2>4. Stepped(b)' /\ Acquired(b)' /\ Reported(b)' /\ SameRuns(b)
    BY <1>1, <2>1, <2>2 DEF Stepped, Acquired, Reported, InBody, SameRuns
  <2> QED BY <1>1, <1>t, <1>2, <2>1, <2>2, <2>3, <2>4, StepOfQueue
<1>4. CASE \E c \in Targets(b) : Sched!Release(b, c) /\ UNCHANGED run
  <2>1. PICK c \in Targets(b) : /\ phase[b] = "leaving" /\ Sched!AtHead(b, c)
                                /\ queue' = [queue EXCEPT ![c] = Tail(queue[c])]
                                /\ phase' = phase /\ run' = run
    BY <1>4 DEF Sched!Release
  <2>2. c \in Cowns /\ queue[c] # <<>> /\ Head(queue[c]) = b /\ queue[c] \in Seq(Behaviors)
    BY <1>t, <2>1, VarsFacts DEF Sched!AtHead
  <2>3. queue' \in [Cowns -> Seq(Behaviors)] /\ \A d \in Cowns : d # c => queue'[d] = queue[d]
    BY <1>t, <2>1, <2>2
  <2>4. HeadOK'
    <3> SUFFICES ASSUME NEW d \in Behaviors, phase'[d] = "running", NEW x \in Targets(d)
                 PROVE  queue'[x] # <<>> /\ Head(queue'[x]) = d
      BY DEF HeadOK, Sched!AtHead, Targets, ArgSet
    <3>1. phase[d] = "running" /\ x \in Cowns /\ queue[x] # <<>> /\ Head(queue[x]) = d
      BY <2>1, VarsFacts DEF ValuesInv, HeadOK, Sched!AtHead
    <3>2. x # c
      BY <2>1, <2>2, <3>1
    <3> QED BY <2>3, <3>1, <3>2
  <2>5. Stepped(b)' /\ Acquired(b)' /\ Reported(b)' /\ SameRuns(b)
    BY <1>1, <2>1 DEF Stepped, Acquired, Reported, InBody, SameRuns
  <2> QED BY <1>1, <1>t, <1>2, <2>1, <2>3, <2>4, <2>5, StepOfQueue
<1>5. CASE /\ phase[b] = "leaving" /\ run' = [run EXCEPT ![b].step = "dec"]
           /\ UNCHANGED <<queue, phase>>
  <2>1. /\ run' \in RunType /\ SameRuns(b) /\ run'[b].step = "dec"
        /\ run'[b].i \in 0..Len(Vars(b))
    BY <1>5, ToStep DEF Steps
  <2>2. Stepped(b)' /\ Acquired(b)' /\ Reported(b)'
    BY <1>5, <2>1 DEF Stepped, Acquired, Reported, InBody
  <2>3. HeadOK'
    BY <1>5 DEF ValuesInv, HeadOK, Sched!AtHead, Targets, ArgSet
  <2> QED BY <1>1, <1>t, <1>2, <1>5, <2>1, <2>2, <2>3, StepOfQueue
<1> QED BY <1>3, <1>4, <1>5 DEF HandOn

LEMMA Inv_Unwrap == ASSUME ValuesInv, NEW c \in Cowns, Unwrap(c) PROVE ValuesInv'
<1>1. /\ InFlight = {} /\ queue' = queue /\ phase' = phase /\ run' = run /\ jammed' = jammed
      /\ exception' = [exception EXCEPT ![c] = FALSE]
  BY DEF Unwrap
<1>t. /\ value \in [Cowns -> AllContents \union {Null}]
      /\ xidata \in [Cowns -> AllContents \union {Null}]
      /\ exception \in [Cowns -> BOOLEAN]
      /\ owner \in [Cowns -> Interps \union {Null}] /\ jammed \subseteq Cowns
      /\ "good" \in AllContents /\ "good" # Null
  BY NullIsNothing DEF ValuesInv, ValuesTypeOK, AllContents, Storable
<1>2. ASSUME NEW b \in Behaviors
      PROVE  phase[b] # "running" /\ run[b].step \notin InBody /\ run[b].step # "handon"
  <2>1. phase[b] = "new" \/ run[b].step = "done"
    BY <1>1 DEF InFlight, At
  <2> QED BY <2>1 DEF ValuesInv, StepOK, Stepped, InBody
<1>3. /\ \A d \in Cowns : d # c => owner'[d] = owner[d] /\ value'[d] = value[d]
      /\ \/ c \in PinnedCowns /\ owner'[c] = owner[c] /\ value'[c] = "good"
         \/ c \notin PinnedCowns /\ owner'[c] = Null
      /\ value' \in [Cowns -> AllContents \union {Null}]
      /\ xidata' \in [Cowns -> AllContents \union {Null}]
      /\ owner' \in [Cowns -> Interps \union {Null}]
  <2>1. CASE c \in PinnedCowns
    <3>1. value' = [value EXCEPT ![c] = "good"] /\ owner' = owner /\ xidata' = xidata
      BY <2>1 DEF Unwrap
    <3> QED BY <1>t, <2>1, <3>1
  <2>2. CASE c \notin PinnedCowns
    <3>1. /\ xidata' = [xidata EXCEPT ![c] = "good"] /\ value' = [value EXCEPT ![c] = Null]
          /\ owner' = [owner EXCEPT ![c] = Null]
      BY <2>2 DEF Unwrap
    <3> QED BY <1>t, <2>2, <3>1
  <2> QED BY <2>1, <2>2
<1>4. exception' \in [Cowns -> BOOLEAN]
  BY <1>1, <1>t
<1>5. ValuesTypeOK'
  BY <1>1, <1>3, <1>4 DEF ValuesInv, ValuesTypeOK, Vars
<1>6. StepOK' /\ HeadOK'
  BY <1>1 DEF ValuesInv, StepOK, Stepped, HeadOK, Sched!AtHead, Targets, ArgSet
<1>7. ContentOK'
  BY <1>3, <1>t DEF ValuesInv, ContentOK
<1>8. AcquiredOK' /\ ReportOK'
  BY <1>1, <1>2 DEF AcquiredOK, ReportOK, Acquired, Reported, InBody
<1>9. ReleasedOK'
  <2> SUFFICES ASSUME NEW d \in Cowns, d \notin PinnedCowns, d \notin jammed, owner'[d] # Null
               PROVE  FALSE
    BY <1>1 DEF ReleasedOK
  <2>1. owner[d] # Null
    BY <1>3
  <2>2. PICK e \in Behaviors : WillRelease(e, d)
    BY <2>1 DEF ValuesInv, ReleasedOK
  <2> QED BY <1>2, <2>2 DEF WillRelease, InBody
<1> QED BY <1>5, <1>6, <1>7, <1>8, <1>9 DEF ValuesInv

LEMMA Inv_Unchanged == ASSUME ValuesInv, UNCHANGED valueVars PROVE ValuesInv'
<1>1. /\ queue' = queue /\ phase' = phase /\ owner' = owner /\ value' = value
      /\ xidata' = xidata /\ exception' = exception /\ run' = run /\ jammed' = jammed
  BY DEF valueVars, cownVars
<1>2. ValuesTypeOK'
  BY <1>1 DEF ValuesInv, ValuesTypeOK, Vars
<1>3. StepOK' /\ HeadOK' /\ ContentOK'
  BY <1>1 DEF ValuesInv, StepOK, Stepped, HeadOK, Sched!AtHead, ContentOK, Targets, ArgSet
<1>4. AcquiredOK'
  BY <1>1 DEF ValuesInv, AcquiredOK, Acquired, Held, Vars
<1>5. ReleasedOK'
  <2>1. ASSUME NEW e \in Behaviors, NEW c \in Cowns, WillRelease(e, c)
        PROVE  WillRelease(e, c)'
    BY <1>1, <2>1 DEF WillRelease, Vars, Targets, ArgSet
  <2> QED BY <1>1, <2>1 DEF ValuesInv, ReleasedOK
<1>6. ReportOK'
  BY <1>1 DEF ValuesInv, ReportOK, Reported, Reports
<1> QED BY <1>2, <1>3, <1>4, <1>5, <1>6 DEF ValuesInv

LEMMA Inv_ValueStep == ASSUME ValuesInv, NEW b \in Behaviors, ValueStep(b) PROVE ValuesInv'
<1>1. CASE Schedule(b)
  BY <1>1, Inv_Schedule
<1>2. CASE Dec(b)
  BY <1>2, Inv_Dec
<1>3. CASE \E w \in Interps : Begin(b, w)
  BY <1>3, Inv_Begin
<1>4. CASE AcquireOne(b)
  BY <1>4, Inv_AcquireOne
<1>5. CASE AcquireFails(b)
  BY <1>5, Inv_AcquireFails
<1>6. CASE \E body \in Bodies[b] : Execute(b, body[1], body[2])
  BY <1>6, BodyTypes, Inv_Execute
<1>7. CASE ReleaseOne(b)
  BY <1>7, Inv_ReleaseOne
<1>8. CASE ReleaseFails(b)
  BY <1>8, Inv_ReleaseFails
<1>9. CASE HandOn(b)
  BY <1>9, Inv_HandOn
<1> QED BY <1>1, <1>2, <1>3, <1>4, <1>5, <1>6, <1>7, <1>8, <1>9 DEF ValueStep, Running

----------------------------------------------------------------------------
(***************************************************************************)
(* The pump: what is queued, what is counted.                              *)
(***************************************************************************)
PumpTypes == /\ pinned \in Seq(Behaviors) /\ depth \in Int
             /\ enqueue \in [Behaviors -> {"no", "count", "wake", "done"}]
             /\ pump \in [at : PumpPlaces, waits : BOOLEAN, b : Behaviors \union {Null}]
             /\ pump.at = "count" => pump.b \in Behaviors

IInv == ValuesInv /\ PumpTypes /\ DepthIsQueue

Counting == {b \in Behaviors : enqueue[b] = "count"}

LEMMA CountingFacts ==
    PumpTypes => Counting \subseteq Behaviors /\ IsFiniteSet(Counting) /\ Cardinality(Counting) \in Nat
<1>1. Counting \subseteq Behaviors
  BY DEF Counting
<1>2. IsFiniteSet(Behaviors)
  BY RequestsAssumption
<1>3. IsFiniteSet(Counting)
  BY <1>1, <1>2, FS_Subset
<1> QED BY <1>1, <1>3, FS_CardinalityType

\* Main goes from one place to another that is not between pop and uncount.
MovesOn == /\ pump.at # "count" /\ pump'.at # "count"
           /\ pump' \in [at : PumpPlaces, waits : BOOLEAN, b : Behaviors \union {Null}]
           /\ pinned' = pinned /\ depth' = depth

LEMMA Inv_MovesOn ==
    ASSUME PumpTypes, DepthIsQueue, MovesOn, Counting' = Counting,
           enqueue' \in [Behaviors -> {"no", "count", "wake", "done"}]
    PROVE  PumpTypes' /\ DepthIsQueue'
BY DEF PumpTypes, DepthIsQueue, MovesOn, Counting

LEMMA SetAt ==
    ASSUME PumpTypes, NEW to \in PumpPlaces, pump' = [pump EXCEPT !.at = to]
    PROVE  /\ pump'.at = to /\ pump'.b = pump.b
           /\ pump' \in [at : PumpPlaces, waits : BOOLEAN, b : Behaviors \union {Null}]
BY DEF PumpTypes

LEMMA WaitsIsBoolean == ASSUME PumpTypes PROVE Back \in {"poll", "idle"} /\ Back \in PumpPlaces
BY DEF PumpTypes, Back, PumpPlaces

LEMMA WokenIsPlace ==
    ASSUME PumpTypes
    PROVE  Woken \in PumpPlaces /\ (Woken = "count" <=> pump.at = "count") /\ pump.at \in PumpPlaces
BY DEF PumpTypes, Woken, PumpPlaces

LEMMA Inv_Linked ==
    ASSUME PumpTypes, DepthIsQueue, NEW b \in Behaviors, Linked(b)
    PROVE  PumpTypes' /\ DepthIsQueue'
<1>1. /\ enqueue[b] = "no" /\ pinned' = Append(pinned, b) /\ depth' = depth /\ pump' = pump
      /\ enqueue' = [enqueue EXCEPT ![b] = "count"]
  BY DEF Linked
<1>2. PumpTypes' /\ Len(pinned') = Len(pinned) + 1
  BY <1>1 DEF PumpTypes
<1>3. Counting' = Counting \union {b} /\ b \notin Counting
  BY <1>1 DEF Counting, PumpTypes
<1>4. Cardinality(Counting') = Cardinality(Counting) + 1
  BY <1>3, CountingFacts, FS_AddElement
<1>5. depth + Cardinality(Counting) = Len(pinned) + (IF pump.at = "count" THEN 1 ELSE 0)
  BY DEF DepthIsQueue, Counting
<1>6. Len(pinned) \in Nat /\ depth \in Int /\ Cardinality(Counting) \in Nat
  BY CountingFacts DEF PumpTypes
<1>7. depth' + Cardinality(Counting') = Len(pinned') + (IF pump'.at = "count" THEN 1 ELSE 0)
  BY <1>1, <1>2, <1>4, <1>5, <1>6
<1> QED BY <1>2, <1>7 DEF DepthIsQueue, Counting

LEMMA Inv_Counted ==
    ASSUME PumpTypes, DepthIsQueue, NEW b \in Behaviors, Counted(b)
    PROVE  PumpTypes' /\ DepthIsQueue'
<1>1. /\ enqueue[b] = "count" /\ pinned' = pinned /\ depth' = depth + 1 /\ pump' = pump
      /\ enqueue' = [enqueue EXCEPT ![b] = "wake"]
  BY DEF Counted
<1>2. PumpTypes'
  BY <1>1 DEF PumpTypes
<1>3. Counting' = Counting \ {b} /\ b \in Counting
  BY <1>1 DEF Counting, PumpTypes
<1>4. Cardinality(Counting') = Cardinality(Counting) - 1
  BY <1>3, CountingFacts, FS_RemoveElement
<1>5. depth + Cardinality(Counting) = Len(pinned) + (IF pump.at = "count" THEN 1 ELSE 0)
  BY DEF DepthIsQueue, Counting
<1>6. Len(pinned) \in Nat /\ depth \in Int /\ Cardinality(Counting) \in Nat
  BY CountingFacts DEF PumpTypes
<1>7. depth' + Cardinality(Counting') = Len(pinned') + (IF pump'.at = "count" THEN 1 ELSE 0)
  BY <1>1, <1>4, <1>5, <1>6
<1> QED BY <1>2, <1>7 DEF DepthIsQueue, Counting

LEMMA Inv_Wakes ==
    ASSUME PumpTypes, DepthIsQueue, NEW b \in Behaviors, Wakes(b)
    PROVE  PumpTypes' /\ DepthIsQueue'
<1>1. /\ enqueue[b] = "wake" /\ pinned' = pinned /\ depth' = depth
      /\ pump' = [pump EXCEPT !.at = Woken] /\ enqueue' = [enqueue EXCEPT ![b] = "done"]
  BY DEF Wakes
<1>2. Counting' = Counting /\ enqueue' \in [Behaviors -> {"no", "count", "wake", "done"}]
  BY <1>1 DEF Counting, PumpTypes
<1>3. /\ pump'.at = Woken /\ pump'.b = pump.b
      /\ pump' \in [at : PumpPlaces, waits : BOOLEAN, b : Behaviors \union {Null}]
  BY <1>1, SetAt, WokenIsPlace
<1> QED BY <1>1, <1>2, <1>3, WokenIsPlace DEF PumpTypes, DepthIsQueue, Counting

LEMMA Inv_PumpedDec ==
    ASSUME PumpTypes, DepthIsQueue, NEW b \in Behaviors, PumpedDec(b)
    PROVE  PumpTypes' /\ DepthIsQueue'
<1> DEFINE to == IF InFlight = {b} THEN Woken ELSE pump.at
<1>1. /\ pinned' = pinned /\ depth' = depth /\ enqueue' = enqueue
      /\ pump' = [pump EXCEPT !.at = to]
  BY DEF PumpedDec
<1>2. to \in PumpPlaces /\ (to = "count" <=> pump.at = "count")
  BY WokenIsPlace
<1> HIDE DEF to
<1>3. /\ pump'.at = to /\ pump'.b = pump.b
      /\ pump' \in [at : PumpPlaces, waits : BOOLEAN, b : Behaviors \union {Null}]
  BY <1>1, <1>2, SetAt
<1> QED BY <1>1, <1>2, <1>3 DEF PumpTypes, DepthIsQueue

LEMMA Inv_Pop ==
    ASSUME PumpTypes, DepthIsQueue, Pop PROVE PumpTypes' /\ DepthIsQueue'
<1>1. /\ pump.at = "pop" /\ pinned # <<>> /\ pinned' = Tail(pinned)
      /\ pump' = [pump EXCEPT !.at = "count", !.b = Head(pinned)]
      /\ depth' = depth /\ enqueue' = enqueue
  BY DEF Pop
<1>2. /\ Head(pinned) \in Behaviors /\ Tail(pinned) \in Seq(Behaviors)
      /\ Len(Tail(pinned)) = Len(pinned) - 1 /\ Len(pinned) \in Nat
  BY <1>1 DEF PumpTypes
<1>3. /\ pump'.at = "count" /\ pump'.b = Head(pinned)
      /\ pump' \in [at : PumpPlaces, waits : BOOLEAN, b : Behaviors \union {Null}]
  <2> DEFINE h == Head(pinned)
             p == [pump EXCEPT !.at = "count"]
  <2>1. p \in [at : PumpPlaces, waits : BOOLEAN, b : Behaviors \union {Null}] /\ p.at = "count"
    BY DEF PumpTypes, PumpPlaces
  <2>2. pump' = [p EXCEPT !.b = h]
    BY <1>1
  <2>3. h \in Behaviors
    BY <1>2
  <2> HIDE DEF h, p
  <2>4. /\ pump'.at = "count" /\ pump'.b = h
        /\ pump' \in [at : PumpPlaces, waits : BOOLEAN, b : Behaviors \union {Null}]
    BY <2>1, <2>2, <2>3
  <2> QED BY <2>4 DEF h
<1>4. PumpTypes'
  BY <1>1, <1>2, <1>3 DEF PumpTypes
<1>5. depth + Cardinality(Counting) = Len(pinned)
  BY <1>1, <1>2 DEF DepthIsQueue, Counting
<1>6. Counting' = Counting
  BY <1>1 DEF Counting
<1>7. depth' + Cardinality(Counting') = Len(pinned') + (IF pump'.at = "count" THEN 1 ELSE 0)
  BY <1>1, <1>2, <1>3, <1>5, <1>6
<1> QED BY <1>4, <1>7 DEF DepthIsQueue, Counting

LEMMA Inv_Uncount ==
    ASSUME PumpTypes, DepthIsQueue, Uncount PROVE PumpTypes' /\ DepthIsQueue'
<1>1. /\ pump.at = "count" /\ pinned' = pinned /\ depth' = depth - 1 /\ enqueue' = enqueue
      /\ pump' = [pump EXCEPT !.at = "body"]
  BY DEF Uncount, Uncounted
<1>2. /\ pump'.at = "body"
      /\ pump' \in [at : PumpPlaces, waits : BOOLEAN, b : Behaviors \union {Null}]
  BY <1>1, SetAt DEF PumpPlaces
<1>3. PumpTypes' /\ Len(pinned) \in Nat
  BY <1>1, <1>2 DEF PumpTypes
<1>5. depth + Cardinality(Counting) = Len(pinned) + 1
  BY <1>1 DEF DepthIsQueue, Counting
<1>6. Counting' = Counting /\ Cardinality(Counting) \in Nat /\ depth \in Int
  BY <1>1, CountingFacts DEF Counting, PumpTypes
<1>7. depth' + Cardinality(Counting') = Len(pinned') + (IF pump'.at = "count" THEN 1 ELSE 0)
  BY <1>1, <1>2, <1>3, <1>5, <1>6
<1> QED BY <1>3, <1>7 DEF DepthIsQueue, Counting

LEMMA Inv_OtherPump ==
    ASSUME PumpTypes, DepthIsQueue,
           CallPump \/ CallWait \/ PumpReady \/ FallAsleep \/ Terminated \/ PumpEnds \/ PumpOn
    PROVE  PumpTypes' /\ DepthIsQueue' /\ UNCHANGED valueVars
<1>1. pinned' = pinned /\ depth' = depth /\ enqueue' = enqueue /\ UNCHANGED valueVars
  BY DEF CallPump, CallWait, PumpReady, FallAsleep, Terminated, PumpEnds, PumpOn
<1>2. /\ pump.at # "count" /\ pump'.at # "count"
      /\ pump' \in [at : PumpPlaces, waits : BOOLEAN, b : Behaviors \union {Null}]
  <2> USE DEF Move
  <2>1. CASE CallPump
    BY <2>1, SetAt DEF CallPump, PumpPlaces
  <2>2. CASE PumpReady
    BY <2>2, SetAt DEF PumpReady, PumpPlaces
  <2>3. CASE FallAsleep
    BY <2>3, SetAt DEF FallAsleep, PumpPlaces
  <2>4. CASE PumpEnds
    BY <2>4, SetAt, WaitsIsBoolean DEF PumpEnds
  <2>5. CASE CallWait
    <3>1. pump' = [pump EXCEPT !.at = "poll", !.waits = TRUE] /\ pump.at = "idle"
      BY <2>5 DEF CallWait
    <3> QED BY <3>1 DEF PumpTypes, PumpPlaces
  <2>6. CASE Terminated
    <3>1. pump' = [pump EXCEPT !.at = "idle", !.waits = FALSE] /\ pump.at = "poll"
      BY <2>6 DEF Terminated
    <3> QED BY <3>1 DEF PumpTypes, PumpPlaces
  <2>7. CASE PumpOn
    <3>1. PICK to \in {"pop", Back} : pump' = [pump EXCEPT !.at = to, !.b = Null]
      BY <2>7 DEF PumpOn
    <3>2. to \in PumpPlaces /\ to # "count" /\ pump.at = "body"
      BY <2>7, WaitsIsBoolean DEF PumpOn, PumpPlaces
    <3> QED BY <3>1, <3>2 DEF PumpTypes
  <2> QED BY <2>1, <2>2, <2>3, <2>4, <2>5, <2>6, <2>7
<1> QED BY <1>1, <1>2, Inv_MovesOn DEF MovesOn, PumpTypes, Counting

\* Each step is one of these to the cowns and behaviors.
LEMMA StepIs ==
    ASSUME PumpTypes, [Next]_vars
    PROVE  \/ \E b \in Behaviors : ValueStep(b)
           \/ \E c \in Cowns : Unwrap(c)
           \/ UNCHANGED valueVars
<1>1. CASE UNCHANGED vars
  BY <1>1 DEF vars
<1>2. ASSUME NEW b \in Behaviors, NEW w \in Workers, Take(b, w) PROVE ValueStep(b)
  BY <1>2 DEF Take, ValueStep, Interps
<1>3. ASSUME NEW b \in Behaviors, EnqueueStep(b) PROVE UNCHANGED valueVars
  BY <1>3 DEF EnqueueStep, Linked, Counted, Wakes
<1>4. ASSUME NEW b \in Behaviors, RunStep(b) PROVE ValueStep(b)
  BY <1>4 DEF RunStep, PumpedDec, ValueStep
<1>5. CASE Uncount
  <2>1. pump.b \in Behaviors /\ Begin(pump.b, Main)
    BY <1>5 DEF Uncount, PumpTypes
  <2>2. ValueStep(pump.b)
    BY <2>1, NullIsNothing DEF ValueStep
  <2> QED BY <2>1, <2>2
<1>6. CASE Pop
  BY <1>6 DEF Pop
<1>7. CASE CallPump \/ CallWait \/ PumpReady \/ FallAsleep \/ Terminated \/ PumpEnds \/ PumpOn
  BY <1>7 DEF CallPump, CallWait, PumpReady, FallAsleep, Terminated, PumpEnds, PumpOn
<1>8. ASSUME NEW b \in Behaviors, Schedule(b) PROVE ValueStep(b)
  BY <1>8 DEF ValueStep
<1> QED BY <1>1, <1>2, <1>3, <1>4, <1>5, <1>6, <1>7, <1>8 DEF Next, PumpStep

LEMMA PumpStepIs ==
    ASSUME PumpTypes, DepthIsQueue, [Next]_vars PROVE PumpTypes' /\ DepthIsQueue'
<1>1. CASE UNCHANGED pumpVars
  BY <1>1 DEF pumpVars, PumpTypes, DepthIsQueue
<1>2. ASSUME NEW b \in Behaviors, EnqueueStep(b) \/ PumpedDec(b)
      PROVE  PumpTypes' /\ DepthIsQueue'
  BY <1>2, Inv_Linked, Inv_Counted, Inv_Wakes, Inv_PumpedDec DEF EnqueueStep
<1>3. CASE Pop
  BY <1>3, Inv_Pop
<1>4. CASE Uncount
  BY <1>4, Inv_Uncount
<1>5. CASE CallPump \/ CallWait \/ PumpReady \/ FallAsleep \/ Terminated \/ PumpEnds \/ PumpOn
  BY <1>5, Inv_OtherPump
<1> QED BY <1>1, <1>2, <1>3, <1>4, <1>5 DEF Next, PumpStep, RunStep, vars

LEMMA Init_IInv == Init => IInv
<1> SUFFICES ASSUME Init PROVE IInv
  OBVIOUS
<1>1. ValuesInv
  BY ValuesInit_Inv DEF Init
<1>2. /\ pinned = <<>> /\ depth = 0 /\ enqueue = [b \in Behaviors |-> "no"]
      /\ pump = [at |-> "idle", waits |-> FALSE, b |-> Null]
  BY DEF Init
<1>3. PumpTypes
  <2>1. <<>> \in Seq(Behaviors) /\ "idle" \in PumpPlaces
    BY DEF PumpPlaces
  <2> QED BY <1>2, <2>1 DEF PumpTypes
<1>4. Counting = {}
  BY <1>2 DEF Counting
<1>5. DepthIsQueue
  BY <1>2, <1>4, FS_EmptySet DEF DepthIsQueue, Counting
<1> QED BY <1>1, <1>3, <1>5 DEF IInv

LEMMA Next_IInv == IInv /\ [Next]_vars => IInv'
<1> SUFFICES ASSUME IInv, [Next]_vars PROVE IInv'
  OBVIOUS
<1>1. PumpTypes' /\ DepthIsQueue'
  BY PumpStepIs DEF IInv
<1>2. ValuesInv'
  BY StepIs, Inv_ValueStep, Inv_Unwrap, Inv_Unchanged DEF IInv
<1> QED BY <1>1, <1>2 DEF IInv

(***************************************************************************)
(* The inductive invariant: who holds what, in which step of acquire,      *)
(* execute and release, and what the pump has counted.                     *)
(***************************************************************************)
THEOREM MainPump_Invariance == Spec => []IInv
<1>1. Init => IInv
  BY Init_IInv
<1>2. IInv /\ [Next]_vars => IInv'
  BY Next_IInv
<1> QED BY <1>1, <1>2, PTL DEF Spec

(***************************************************************************)
(* A body runs with every cown of its behavior owned by its interpreter    *)
(* and in memory: behavior_acquire_impl never lets a partly acquired       *)
(* behavior through, and no other behavior, pump or worker takes one of    *)
(* its cowns in between.                                                   *)
(***************************************************************************)
THEOREM MainPump_BodyOwnsAll == Spec => []BodyOwnsAll
<1>1. IInv => BodyOwnsAll
  <2> SUFFICES ASSUME IInv, NEW b \in Behaviors, run[b].step = "execute", NEW c \in Targets(b)
               PROVE  owner[c] = run[b].on /\ value[c] # Null
    BY DEF BodyOwnsAll, At
  <2>1. PICK k \in 1..Len(Vars(b)) : Vars(b)[k] = c
    BY VarsFacts
  <2>2. Held(b, Vars(b)[k])
    BY DEF IInv, ValuesInv, AcquiredOK, Acquired
  <2> QED BY <2>1, <2>2 DEF Held
<1> QED BY <1>1, MainPump_Invariance, PTL

(***************************************************************************)
(* After a failed acquire, a raise or a failed release, a cown stays in an *)
(* interpreter's hands only where the release itself failed.               *)
(***************************************************************************)
THEOREM MainPump_NobodyKeepsACown == Spec => []NobodyKeepsACown
<1>1. IInv => NobodyKeepsACown
  <2> SUFFICES ASSUME IInv, NEW c \in Cowns, c \notin PinnedCowns, c \notin jammed, owner[c] # Null
               PROVE  \E b \in Behaviors : c \in Targets(b) /\ IsOn(b, owner[c])
    BY DEF NobodyKeepsACown
  <2>1. PICK b \in Behaviors : WillRelease(b, c)
    BY DEF IInv, ValuesInv, ReleasedOK
  <2>2. c \in Targets(b) /\ run[b].step \in InBody
    BY <2>1, ReleaserRuns DEF IInv, ValuesInv
  <2> QED BY <2>1, <2>2 DEF IsOn, WillRelease, InBody
<1> QED BY <1>1, MainPump_Invariance, PTL

(***************************************************************************)
(* set_exception and behavior_execute_impl: when release_all begins, the   *)
(* result says whether the behavior was refused, raised or returned.       *)
(***************************************************************************)
THEOREM MainPump_OutcomeIsReported == Spec => []OutcomeIsReported
<1>1. IInv => OutcomeIsReported
  <2> SUFFICES ASSUME IInv, NEW b \in Behaviors, run[b].step = "handon", phase[b] = "running"
               PROVE  /\ exception[Result[b]] <=> run[b].end # "returned"
                      /\ exception[Result[b]] => "error" \in {value[Result[b]], xidata[Result[b]]}
    BY DEF OutcomeIsReported, At
  <2>1. Reports(b)
    BY DEF IInv, ValuesInv, ReportOK, Reported
  <2> QED BY <2>1 DEF Reports
<1> QED BY <1>1, MainPump_Invariance, PTL

(***************************************************************************)
(* MAIN_PINNED_DEPTH is never further from the queue than the enqueues and *)
(* the pop that are between their two accesses.                            *)
(***************************************************************************)
THEOREM MainPump_DepthIsQueue == Spec => []DepthIsQueue
<1>1. IInv => DepthIsQueue
  BY DEF IInv
<1> QED BY <1>1, MainPump_Invariance, PTL

----------------------------------------------------------------------------
Keeps == \A c \in Cowns : value'[c] = Null /\ xidata'[c] = Null =>
           value[c] = Null /\ xidata[c] \in {Null, "torn"}

LEMMA Keeps_Unwrap == ASSUME ValuesInv, NEW c \in Cowns, Unwrap(c) PROVE Keeps
<1>t. /\ value \in [Cowns -> AllContents \union {Null}]
      /\ xidata \in [Cowns -> AllContents \union {Null}] /\ "good" # Null
  BY NullIsNothing DEF ValuesInv, ValuesTypeOK, AllContents, Storable
<1>1. CASE c \in PinnedCowns
  <2>1. value' = [value EXCEPT ![c] = "good"] /\ xidata' = xidata
    BY <1>1 DEF Unwrap
  <2> QED BY <1>t, <2>1 DEF Keeps
<1>2. CASE c \notin PinnedCowns
  <2>1. value' = [value EXCEPT ![c] = Null] /\ xidata' = [xidata EXCEPT ![c] = "good"]
    BY <1>2 DEF Unwrap
  <2> QED BY <1>t, <2>1 DEF Keeps
<1> QED BY <1>1, <1>2

LEMMA Keeps_AcquireFails == ASSUME ValuesInv, NEW b \in Behaviors, AcquireFails(b) PROVE Keeps
<1> DEFINE c == Cown(b)
           r == Result[b]
<1>1. /\ run[b].step = "acquire" /\ ~Acquirable(c, run[b].on)
      /\ value' = [value EXCEPT ![r] = "error"]
      /\ xidata' = [xidata EXCEPT ![c] = IF owner[c] = Null THEN Null ELSE xidata[c]]
  BY DEF AcquireFails, At, Poisoned
<1>2. c \in Cowns /\ r \in Cowns
  BY <1>1, CownInTargets, VarsFacts DEF ValuesInv
<1>t. /\ value \in [Cowns -> AllContents \union {Null}]
      /\ xidata \in [Cowns -> AllContents \union {Null}] /\ "error" # Null
  BY NullIsNothing DEF ValuesInv, ValuesTypeOK, AllContents
<1>3. owner[c] = Null => xidata[c] \in {Null, "torn"}
  <2>1. c \in PinnedCowns => owner[c] # Null
    BY <1>2, NullIsNothing DEF ValuesInv, ContentOK
  <2> QED BY <1>1, <2>1 DEF Acquirable, Readable
<1> HIDE DEF c, r
<1> QED BY <1>1, <1>2, <1>3, <1>t DEF Keeps

LEMMA Keeps_Body ==
    ASSUME ValuesInv, NEW b \in Behaviors, Running(b) PROVE Keeps
<1>1. CASE AcquireOne(b)
  BY <1>1, AcquireOneFields DEF Keeps, SameCown
<1>2. CASE AcquireFails(b)
  BY <1>2, Keeps_AcquireFails
<1>3. CASE \E body \in Bodies[b] : Execute(b, body[1], body[2])
  <2>1. PICK body \in Bodies[b] : Execute(b, body[1], body[2])
    BY <1>3
  <2>2. body[1] # Null /\ body[2] # Null
    BY BodyTypes, NullIsNothing
  <2>3. xidata' = xidata /\ value' = Store(b, body[1], body[2])
    BY <2>1 DEF Execute
  <2>4. value \in [Cowns -> AllContents \union {Null}]
    BY DEF ValuesInv, ValuesTypeOK
  <2>5. \A d \in Cowns : value'[d] = Null => value[d] = Null
    BY <2>2, <2>3, <2>4 DEF Store
  <2> QED BY <2>3, <2>5 DEF Keeps
<1>4. CASE ReleaseOne(b)
  <2>1. Cown(b) \in Cowns /\ run[b].on # Null
    BY <1>4, ReleaseOneFields, CownInTargets, InBodyRuns DEF ValuesInv, InBody
  <2>2. owner[Cown(b)] = run[b].on => value[Cown(b)] # Null
    BY <2>1 DEF ValuesInv, ContentOK
  <2> QED BY <1>4, <2>1, <2>2, ReleaseOneFields DEF Keeps, SameCown
<1>5. CASE ReleaseFails(b)
  BY <1>5 DEF ReleaseFails, Kept, Keeps
<1>6. CASE HandOn(b)
  BY <1>6 DEF HandOn, cownVars, Keeps
<1> QED BY <1>1, <1>2, <1>3, <1>4, <1>5, <1>6 DEF Running

(***************************************************************************)
(* No step of an acquire, a body, a release or an unwrap, failed or not,   *)
(* leaves a cown without both its object and its bytes, unless the bytes   *)
(* could not be read back.                                                 *)
(***************************************************************************)
THEOREM MainPump_NothingElseIsLost == Spec => NothingElseIsLost
<1>1. ASSUME IInv, [Next]_vars PROVE [Keeps]_valueVars
  <2>1. CASE UNCHANGED valueVars
    BY <2>1
  <2>2. CASE \E c \in Cowns : Unwrap(c)
    BY <1>1, <2>2, Keeps_Unwrap DEF IInv, Keeps
  <2>3. ASSUME NEW b \in Behaviors, ValueStep(b) PROVE Keeps
    <3>1. CASE Running(b)
      BY <1>1, <3>1, Keeps_Body DEF IInv, Keeps
    <3>2. CASE Schedule(b) \/ Dec(b) \/ \E w \in Interps : Begin(b, w)
      BY <3>2 DEF Schedule, Dec, Begin, cownVars, Keeps
    <3> QED BY <2>3, <3>1, <3>2 DEF ValueStep
  <2>4. PumpTypes
    BY <1>1 DEF IInv
  <2>5. CASE \E b \in Behaviors : ValueStep(b)
    BY <2>3, <2>5 DEF Keeps
  <2> QED BY <1>1, <2>1, <2>2, <2>4, <2>5, StepIs
<1>2. [][Keeps]_valueVars => NothingElseIsLost
  BY DEF NothingElseIsLost, Keeps
<1> QED BY <1>1, <1>2, MainPump_Invariance, PTL DEF Spec
=============================================================================
