-------------------------- MODULE Noticeboard_proofs --------------------------
(***************************************************************************)
(* Proofs about Noticeboard, for every set of workers, notices and keys,   *)
(* every program and every number of cycles: what a behavior sees, what an *)
(* update is based on, and what cycle_noticeboard returns.                 *)
(***************************************************************************)
EXTENDS Noticeboard, FiniteSetTheorems, FunctionTheorems, SequenceTheorems, TLAPS

Places == {"no", "build", "load", "shown"}
Busy == {"read", "commit", "drop"}
Asking == {"snapshot", "stale"}

\* What a thread keeps in its snapshot cache, and in a read.
Caches == [held : BOOLEAN, dict : Boards, version : Int, checked : BOOLEAN]
Reads == [at : Places, dict : Boards, version : Int]

Typed ==
  /\ box \in Seq(Notices \union {"shutdown"})
  /\ board \in Boards /\ version \in Nat
  /\ cache \in [Readers -> Caches]
  /\ reading \in [Readers -> Reads]
  /\ work \in [Workers -> [i : Nat, sent : BOOLEAN]]
  /\ mut \in [at : Busy \union {"receive", "dead"}, n : Notices \union {None},
              value : SUBSET Notices, pins : SUBSET Embeds]
  /\ mut.at \in Busy => mut.n \in Notices
  /\ cycle \in [at : {"idle", "join"} \union Asking, n : Nat]
  /\ shown \in [Workers -> SUBSET Int] /\ since \in [Workers -> Nat]
  /\ handled \subseteq Notices

\* A cache, or the bytes of a reader, show the board of the version they name.
CacheView(x) ==
  /\ cache[x].held => /\ cache[x].version <= version
                      /\ cache[x].version = version => cache[x].dict = board
  /\ cache[x].checked => cache[x].held
ReadingView(x) ==
  /\ reading[x].at \in {"load", "shown"} =>
       /\ reading[x].version <= version
       /\ reading[x].version = version => reading[x].dict = board
  /\ reading[x].at \in {"build", "load"} => ~cache[x].held
  /\ reading[x].at = "shown" => /\ cache[x].checked
                                /\ cache[x].version = reading[x].version
Views == \A x \in Readers : CacheView(x) /\ ReadingView(x)

\* What a behavior has been shown is what its cache holds, checked; and that
\* was fetched, or compared, since it began.
Frame(w) ==
  /\ \A v \in shown[w] : cache[w].checked /\ v = cache[w].version
  /\ since[w] <= version
  /\ cache[w].checked => since[w] <= cache[w].version
  /\ reading[w].at = "load" => since[w] <= reading[w].version
Frames == \A w \in Workers : Frame(w)

\* The board does not change while the mutator, or main in cycle_noticeboard,
\* reads it.
Holds(x) == \/ x = Mutator /\ mut.at = "read"
            \/ x = Main /\ cycle.at \in Asking
Local(x) ==
  /\ ~Holds(x) => reading[x].at = "no"
  /\ Holds(x) => /\ cache[x].checked => cache[x].version = version
                 /\ reading[x].at \in {"load", "shown"} => reading[x].version = version
Locals == /\ Local(Mutator) /\ Local(Main)
          /\ cycle.at \in Asking => mut.at = "dead"

\* Nothing is posted any more once a cycle began, and what is on the queue
\* behind its sentinel are sentinels.
Posts ==
  /\ \A w \in Workers : /\ work[w].i \in 1..(Len(Program[w]) + 1)
                        /\ work[w].sent => work[w].i <= Len(Program[w])
  /\ cycle.at # "idle" => Quiescent
  /\ mut.at = "dead" => Quiescent /\ \A i \in DOMAIN box : box[i] = "shutdown"
  /\ \A i \in DOMAIN box : box[i] = "shutdown" =>
       Quiescent /\ \A j \in DOMAIN box : j > i => box[j] = "shutdown"
  /\ \A n \in Posted : \/ n \in handled
                       \/ \E i \in DOMAIN box : box[i] = n
                       \/ mut.at \in Busy /\ mut.n = n

IInv == Typed /\ Views /\ Frames /\ Locals /\ UpdateIsAtomic /\ Posts

----------------------------------------------------------------------------
LEMMA ReadersDiffer == /\ Mutator \in Readers /\ Main \in Readers /\ Mutator # Main
                       /\ Workers \subseteq Readers
                       /\ Mutator \notin Workers /\ Main \notin Workers
BY NoticeboardAssumption DEF Readers

LEMMA BlankIsBoard == Blank \in Boards
BY DEF Blank, Boards

LEMMA FieldsTyped ==
    /\ \A c \in Caches : [c EXCEPT !.checked = TRUE] \in Caches
                         /\ [c EXCEPT !.checked = FALSE] \in Caches
    /\ \A r \in Reads : \A p \in Places : [r EXCEPT !.at = p] \in Reads
    /\ NoCache \in Caches /\ NotReading \in Reads
    /\ \A d \in Boards : \A v \in Int :
         /\ [held |-> TRUE, dict |-> d, version |-> v, checked |-> TRUE] \in Caches
         /\ \A p \in Places : [at |-> p, dict |-> d, version |-> v] \in Reads
<1>1. \A c \in Caches : [c EXCEPT !.checked = TRUE] \in Caches
                        /\ [c EXCEPT !.checked = FALSE] \in Caches
  BY DEF Caches
<1>2. \A r \in Reads : \A p \in Places : [r EXCEPT !.at = p] \in Reads
  BY DEF Reads
<1>3. NoCache \in Caches /\ NotReading \in Reads
  BY BlankIsBoard DEF NoCache, NotReading, Caches, Reads, Places
<1>4. \A d \in Boards : \A v \in Int :
        /\ [held |-> TRUE, dict |-> d, version |-> v, checked |-> TRUE] \in Caches
        /\ \A p \in Places : [at |-> p, dict |-> d, version |-> v] \in Reads
  BY DEF Caches, Reads
<1> QED BY <1>1, <1>2, <1>3, <1>4

LEMMA InitIInv == Init => IInv
<1> SUFFICES ASSUME Init PROVE IInv
  OBVIOUS
<1> USE DEF Init
<1>1. Typed
  <2>1. cache \in [Readers -> Caches]
    BY FieldsTyped
  <2>2. reading \in [Readers -> Reads]
    BY FieldsTyped
  <2>3. box \in Seq(Notices \union {"shutdown"})
    OBVIOUS
  <2>4. work \in [Workers -> [i : Nat, sent : BOOLEAN]]
    OBVIOUS
  <2> QED BY <2>1, <2>2, <2>3, <2>4, BlankIsBoard DEF Typed, Busy, Asking
<1>2. Views
  BY DEF Views, CacheView, ReadingView, NoCache, NotReading
<1>3. Frames
  BY ReadersDiffer DEF Frames, Frame, NoCache, NotReading
<1>4. Locals
  BY ReadersDiffer DEF Locals, Local, Holds, Asking, NoCache, NotReading
<1>5. UpdateIsAtomic
  BY DEF UpdateIsAtomic
<1>6. Posts
  <2>1. \A w \in Workers : Len(Program[w]) \in Nat
    BY NoticeboardAssumption
  <2>2. Posted = {}
    BY DEF Posted
  <2>3. DOMAIN box = {}
    OBVIOUS
  <2> QED BY <2>1, <2>2, <2>3 DEF Posts
<1> QED BY <1>1, <1>2, <1>3, <1>4, <1>5, <1>6 DEF IInv

----------------------------------------------------------------------------
LEMMA LookTyped ==
    ASSUME Typed, NEW x \in Readers, Look(x)
    PROVE  cache' \in [Readers -> Caches] /\ reading' \in [Readers -> Reads]
<1>t. /\ cache \in [Readers -> Caches] /\ cache[x] \in Caches
      /\ reading \in [Readers -> Reads] /\ reading[x] \in Reads
  BY DEF Typed
<1>p. "shown" \in Places /\ "build" \in Places
  BY DEF Places
<1>1. CASE IsFresh(x)
  <2>1. cache' = [cache EXCEPT ![x].checked = TRUE]
    BY <1>1 DEF Look
  <2>2. cache' \in [Readers -> Caches]
    BY <1>t, <2>1, FieldsTyped
  <2>3. reading' = [reading EXCEPT ![x] = [at |-> "shown", dict |-> cache[x].dict,
                                           version |-> cache[x].version]]
    BY <1>1 DEF Look
  <2>4. cache[x].dict \in Boards /\ cache[x].version \in Int
    BY <1>t DEF Caches
  <2>5. [at |-> "shown", dict |-> cache[x].dict, version |-> cache[x].version] \in Reads
    BY <1>p, <2>4, FieldsTyped
  <2>6. reading' \in [Readers -> Reads]
    BY <1>t, <2>3, <2>5
  <2> QED BY <2>2, <2>6
<1>2. CASE ~IsFresh(x)
  <2>1. cache' = [cache EXCEPT ![x] = NoCache]
    BY <1>2 DEF Look
  <2>2. cache' \in [Readers -> Caches]
    BY <1>t, <2>1, FieldsTyped
  <2>3. reading' = [reading EXCEPT ![x].at = "build"]
    BY <1>2 DEF Look
  <2>4. reading' \in [Readers -> Reads]
    BY <1>t, <1>p, <2>3, FieldsTyped
  <2> QED BY <2>2, <2>4
<1> QED BY <1>1, <1>2

LEMMA ReArmedTyped ==
    ASSUME Typed, NEW x \in Readers
    PROVE  ReArmed(x) \in [Readers -> Caches]
<1>1. cache \in [Readers -> Caches] /\ cache[x] \in Caches
  BY DEF Typed
<1> QED BY <1>1, FieldsTyped DEF ReArmed

LEMMA ReadingTyped ==
    ASSUME Typed, NEW x \in Readers
    PROVE  /\ [reading EXCEPT ![x] = NotReading] \in [Readers -> Reads]
           /\ [reading EXCEPT ![x].at = "shown"] \in [Readers -> Reads]
           /\ [reading EXCEPT ![x] = [at |-> "load", dict |-> board, version |-> version]]
                \in [Readers -> Reads]
<1>t. reading \in [Readers -> Reads] /\ reading[x] \in Reads
  BY DEF Typed
<1>1. "load" \in Places /\ "shown" \in Places /\ board \in Boards /\ version \in Int
  BY DEF Typed, Places
<1>2. NotReading \in Reads /\ [at |-> "load", dict |-> board, version |-> version] \in Reads
      /\ [reading[x] EXCEPT !.at = "shown"] \in Reads
  BY <1>t, <1>1, FieldsTyped
<1> QED BY <1>t, <1>2

LEMMA LoadTyped ==
    ASSUME Typed, NEW x \in Readers, Load(x)
    PROVE  cache' \in [Readers -> Caches] /\ reading' \in [Readers -> Reads]
<1>t. cache \in [Readers -> Caches] /\ reading[x] \in Reads
  BY DEF Typed
<1>1. reading[x].dict \in Boards /\ reading[x].version \in Int
  BY <1>t DEF Reads
<1>2. [held |-> TRUE, dict |-> reading[x].dict, version |-> reading[x].version,
       checked |-> TRUE] \in Caches
  BY <1>1, FieldsTyped
<1>3. cache' \in [Readers -> Caches]
  BY <1>t, <1>2 DEF Load
<1>4. reading' \in [Readers -> Reads]
  BY ReadingTyped DEF Load
<1> QED BY <1>3, <1>4

LEMMA WorkerTyped ==
    ASSUME Typed, Posts, NEW w \in Workers, WorkerStep(w) PROVE Typed'
<1> w \in Readers
  BY ReadersDiffer
<1>1. CASE Read(w)
  BY <1>1, LookTyped DEF Read, Look, Typed
<1>2. CASE Build(w)
  BY <1>2, ReadingTyped DEF Build, Typed
<1>3. CASE Load(w)
  <2>1. cache' \in [Readers -> Caches]
    BY <1>3, LoadTyped
  <2> QED BY <1>3, <2>1, LoadTyped DEF Load, Typed
<1>4. CASE IsShown(w)
  <2>1. shown' \in [Workers -> SUBSET Int]
    <3>1. reading[w].version \in Int
      BY DEF Typed, Reads
    <3> QED BY <1>4, <3>1 DEF IsShown, Typed
  <2> QED BY <1>4, <2>1, ReadingTyped DEF IsShown, Typed
<1>5. CASE LoadFails(w)
  BY <1>5, ReadingTyped DEF LoadFails, Typed
<1>6. CASE Notify(w)
  <2>1. Program[w][work[w].i] \in Notices
    <3>1. Program[w] \in Seq(Notices)
      BY NoticeboardAssumption
    <3>2. work[w].i \in 1..Len(Program[w])
      BY <1>6, <3>1 DEF Notify, InBehavior, Posts
    <3> QED BY <3>1, <3>2
  <2>2. box' \in Seq(Notices \union {"shutdown"})
    BY <1>6, <2>1 DEF Notify, Typed
  <2>3. work' \in [Workers -> [i : Nat, sent : BOOLEAN]]
    BY <1>6 DEF Notify, Typed
  <2> QED BY <1>6, <2>2, <2>3 DEF Notify, Typed
<1>7. CASE NextBehavior(w)
  <2>1. work' \in [Workers -> [i : Nat, sent : BOOLEAN]]
    BY <1>7 DEF NextBehavior, Typed
  <2>2. /\ shown' \in [Workers -> SUBSET Int] /\ since' \in [Workers -> Nat]
    BY <1>7 DEF NextBehavior, Typed
  <2> QED BY <1>7, <2>1, <2>2, ReArmedTyped DEF NextBehavior, Typed
<1> QED BY <1>1, <1>2, <1>3, <1>4, <1>5, <1>6, <1>7 DEF WorkerStep

LEMMA MutatorTyped ==
    ASSUME Typed, MutatorStep PROVE Typed'
<1> Mutator \in Readers
  BY ReadersDiffer
<1>1. CASE Receive
  <2>1. Head(box) \in Notices /\ box' \in Seq(Notices \union {"shutdown"})
    BY <1>1 DEF Receive, Typed
  <2>2. mut' \in [at : Busy \union {"receive", "dead"}, n : Notices \union {None},
                  value : SUBSET Notices, pins : SUBSET Embeds]
    BY <1>1, <2>1 DEF Receive, Typed, Busy
  <2>3. mut'.n \in Notices
    BY <1>1, <2>1 DEF Receive, Typed
  <2>4. cache' \in [Readers -> Caches]
    BY <1>1, ReArmedTyped DEF Receive, Typed
  <2> QED BY <1>1, <2>1, <2>2, <2>3, <2>4 DEF Receive, Typed
<1>2. CASE Shutdown
  <2>1. box' \in Seq(Notices \union {"shutdown"})
    BY <1>2 DEF Shutdown, Typed
  <2> QED BY <1>2, <2>1 DEF Shutdown, Typed, Busy
<1>3. CASE Reread
  BY <1>3, LookTyped DEF Reread, Look, Typed
<1>4. CASE Build(Mutator)
  BY <1>4, ReadingTyped DEF Build, Typed
<1>5. CASE Load(Mutator)
  <2>1. cache' \in [Readers -> Caches]
    BY <1>5, LoadTyped
  <2> QED BY <1>5, <2>1, LoadTyped DEF Load, Typed
<1>6. CASE Apply
  <2>1. mut.n \in Notices /\ Key[mut.n] \in Keys
    BY <1>6, NoticeboardAssumption DEF Apply, Typed, Busy
  <2>2. reading[Mutator].dict[Key[mut.n]] \subseteq Notices
    BY <2>1 DEF Typed, Reads, Boards
  <2>3. mut' \in [at : Busy \union {"receive", "dead"}, n : Notices \union {None},
                  value : SUBSET Notices, pins : SUBSET Embeds] /\ mut'.n = mut.n
    <3>1. PICK value \in {{}, reading[Mutator].dict[Key[mut.n]] \union {mut.n}} :
            mut' = [mut EXCEPT !.at = "commit", !.value = value, !.pins = value \cap Embeds]
      BY <1>6 DEF Apply
    <3>2. value \in SUBSET Notices /\ value \cap Embeds \in SUBSET Embeds
      BY <2>1, <2>2
    <3> QED BY <3>1, <3>2 DEF Typed, Busy
  <2> QED BY <1>6, <2>1, <2>3, ReadingTyped DEF Apply, Typed
<1>7. CASE UpdateFails
  <2>1. mut' \in [at : Busy \union {"receive", "dead"}, n : Notices \union {None},
                  value : SUBSET Notices, pins : SUBSET Embeds] /\ mut'.at \notin Busy
    BY <1>7 DEF UpdateFails, Typed, Busy, Survives
  <2>2. mut.n \in Notices
    BY <1>7 DEF UpdateFails, Typed, Busy
  <2> QED BY <1>7, <2>1, <2>2, ReadingTyped, ReArmedTyped DEF UpdateFails, Typed
<1>8. CASE Commit
  <2>1. mut.n \in Notices
    BY <1>8 DEF Commit, Typed, Busy
  <2>2. mut' \in [at : Busy \union {"receive", "dead"}, n : Notices \union {None},
                  value : SUBSET Notices, pins : SUBSET Embeds] /\ mut'.n = mut.n
    BY <1>8 DEF Commit, Typed, Busy, Leftover
  <2>3. board' \in Boards /\ version' \in Nat
    <3>1. \/ UNCHANGED <<board, version>>
          \/ /\ board' = [board EXCEPT ![Key[mut.n]] = {}]
             /\ version' \in {version, version + 1}
          \/ /\ board' = [board EXCEPT ![Key[mut.n]] = mut.value]
             /\ version' = version + 1
      BY <1>8 DEF Commit
    <3>2. mut.value \in SUBSET Notices /\ {} \in SUBSET Notices
      BY DEF Typed
    <3>3. /\ [board EXCEPT ![Key[mut.n]] = {}] \in Boards
          /\ [board EXCEPT ![Key[mut.n]] = mut.value] \in Boards
      BY <3>2 DEF Typed, Boards
    <3>4. board' \in Boards
      BY <3>1, <3>3, Zenon DEF Typed
    <3>5. version' \in Nat
      BY <3>1 DEF Typed
    <3> QED BY <3>4, <3>5
  <2> QED BY <1>8, <2>1, <2>2, <2>3 DEF Commit, Typed
<1>9. CASE Drop
  <2>1. mut' \in [at : Busy \union {"receive", "dead"}, n : Notices \union {None},
                  value : SUBSET Notices, pins : SUBSET Embeds] /\ mut'.at \notin Busy
    BY <1>9 DEF Drop, Typed, Busy
  <2>2. mut.n \in Notices
    BY <1>9 DEF Drop, Typed, Busy
  <2> QED BY <1>9, <2>1, <2>2, ReArmedTyped DEF Drop, Typed
<1> QED BY <1>1, <1>2, <1>3, <1>4, <1>5, <1>6, <1>7, <1>8, <1>9 DEF MutatorStep

LEMMA CycleTyped ==
    ASSUME Typed, CycleStep PROVE Typed'
<1> Main \in Readers
  BY ReadersDiffer
<1>1. CASE CycleSends
  <2>1. box' \in Seq(Notices \union {"shutdown"})
    BY <1>1 DEF CycleSends, Typed
  <2>2. cycle' \in [at : {"idle", "join"} \union Asking, n : Nat]
    BY <1>1 DEF CycleSends, Typed
  <2> QED BY <1>1, <2>1, <2>2 DEF CycleSends, Typed
<1>2. CASE CycleTimesOut
  BY <1>2 DEF CycleTimesOut, Typed
<1>3. CASE CycleJoins
  <2>1. cycle' \in [at : {"idle", "join"} \union Asking, n : Nat]
    BY <1>3 DEF CycleJoins, Typed, Asking
  <2> QED BY <1>3, <2>1, ReArmedTyped DEF CycleJoins, Typed
<1>4. CASE CycleFindsNobody
  <2>1. cycle' \in [at : {"idle", "join"} \union Asking, n : Nat]
    BY <1>4 DEF CycleFindsNobody, Typed, Asking
  <2> QED BY <1>4, <2>1, ReArmedTyped DEF CycleFindsNobody, Typed
<1>5. CASE CycleReads
  BY <1>5, LookTyped DEF CycleReads, Look, Typed
<1>6. CASE Build(Main)
  BY <1>6, ReadingTyped DEF Build, Typed
<1>7. CASE Load(Main)
  <2>1. cache' \in [Readers -> Caches]
    BY <1>7, LoadTyped
  <2> QED BY <1>7, <2>1, LoadTyped DEF Load, Typed
<1>8. CASE CycleReturns
  <2>1. cycle' \in [at : {"idle", "join"} \union Asking, n : Nat]
    BY <1>8 DEF CycleReturns, Typed, Asking
  <2>2. mut' \in [at : Busy \union {"receive", "dead"}, n : Notices \union {None},
                  value : SUBSET Notices, pins : SUBSET Embeds]
        /\ (mut'.at \in Busy => mut'.n \in Notices)
    BY <1>8 DEF CycleReturns, Typed, Busy
  <2> QED BY <1>8, <2>1, <2>2, ReadingTyped DEF CycleReturns, Typed
<1> QED BY <1>1, <1>2, <1>3, <1>4, <1>5, <1>6, <1>7, <1>8 DEF CycleStep

LEMMA NextTyped ==
    ASSUME IInv, [Next]_vars PROVE Typed'
<1>1. CASE \E w \in Workers : WorkerStep(w)
  BY <1>1, WorkerTyped DEF IInv
<1>2. CASE \E c \in Embeds : Forget(c)
  BY <1>2 DEF IInv, Forget, Typed
<1>3. CASE UNCHANGED vars
  BY <1>3 DEF IInv, vars, Typed
<1> QED BY <1>1, <1>2, <1>3, MutatorTyped, CycleTyped DEF IInv, Next

----------------------------------------------------------------------------
(***************************************************************************)
(* What a step does to the cache and the reading of a thread, field by     *)
(* field.                                                                  *)
(***************************************************************************)
SameView(y) == cache'[y] = cache[y] /\ reading'[y] = reading[y]
OthersKept(x) == \A y \in Readers : y # x => SameView(y)
BoardKept == board' = board /\ version' = version

LEMMA LookFields ==
    ASSUME Typed, NEW x \in Readers, Look(x)
    PROVE  /\ OthersKept(x) /\ BoardKept /\ reading[x].at = "no"
           /\ \/ /\ IsFresh(x)
                 /\ cache'[x].held /\ cache'[x].checked
                 /\ cache'[x].version = cache[x].version /\ cache'[x].dict = cache[x].dict
                 /\ reading'[x].at = "shown" /\ reading'[x].dict = cache[x].dict
                 /\ reading'[x].version = cache[x].version
              \/ /\ ~IsFresh(x)
                 /\ ~cache'[x].held /\ ~cache'[x].checked
                 /\ reading'[x].at = "build"
<1>1. OthersKept(x) /\ BoardKept /\ reading[x].at = "no"
  BY DEF Look, Typed, OthersKept, SameView, BoardKept
<1>2. CASE IsFresh(x)
  <2>1. cache' = [cache EXCEPT ![x].checked = TRUE]
    BY <1>2 DEF Look
  <2>2. /\ cache'[x].held = cache[x].held /\ cache'[x].checked
        /\ cache'[x].version = cache[x].version /\ cache'[x].dict = cache[x].dict
    BY <2>1 DEF Typed
  <2>3. reading' = [reading EXCEPT ![x] = [at |-> "shown", dict |-> cache[x].dict,
                                           version |-> cache[x].version]]
    BY <1>2 DEF Look
  <2>4. /\ reading'[x].at = "shown" /\ reading'[x].dict = cache[x].dict
        /\ reading'[x].version = cache[x].version
    BY <2>3 DEF Typed
  <2> QED BY <1>1, <1>2, <2>2, <2>4 DEF IsFresh
<1>3. CASE ~IsFresh(x)
  <2>1. cache' = [cache EXCEPT ![x] = NoCache]
    BY <1>3 DEF Look
  <2>2. ~cache'[x].held /\ ~cache'[x].checked
    BY <2>1 DEF Typed, NoCache
  <2>3. reading' = [reading EXCEPT ![x].at = "build"]
    BY <1>3 DEF Look
  <2>4. reading'[x].at = "build"
    BY <2>3 DEF Typed
  <2> QED BY <1>1, <1>3, <2>2, <2>4
<1> QED BY <1>2, <1>3

LEMMA BuildFields ==
    ASSUME Typed, NEW x \in Readers, Build(x)
    PROVE  /\ OthersKept(x) /\ BoardKept /\ reading[x].at = "build"
           /\ cache'[x] = cache[x]
           /\ reading'[x].at = "load" /\ reading'[x].dict = board
           /\ reading'[x].version = version
BY DEF Build, Typed, OthersKept, SameView, BoardKept

LEMMA LoadFields ==
    ASSUME Typed, NEW x \in Readers, Load(x)
    PROVE  /\ OthersKept(x) /\ BoardKept /\ reading[x].at = "load"
           /\ cache'[x].held /\ cache'[x].checked
           /\ cache'[x].version = reading[x].version /\ cache'[x].dict = reading[x].dict
           /\ reading'[x].at = "shown" /\ reading'[x].version = reading[x].version
           /\ reading'[x].dict = reading[x].dict
<1>1. /\ OthersKept(x) /\ BoardKept /\ reading[x].at = "load"
  BY DEF Load, Typed, OthersKept, SameView, BoardKept
<1>2. /\ reading'[x].at = "shown" /\ reading'[x].version = reading[x].version
      /\ reading'[x].dict = reading[x].dict
  BY DEF Load, Typed
<1>3. /\ cache'[x].held /\ cache'[x].checked
      /\ cache'[x].version = reading[x].version /\ cache'[x].dict = reading[x].dict
  BY DEF Load, Typed
<1> QED BY <1>1, <1>2, <1>3

LEMMA EndFields ==
    ASSUME Typed, NEW x \in Readers, reading' = [reading EXCEPT ![x] = NotReading]
    PROVE  reading'[x].at = "no" /\ \A y \in Readers : y # x => reading'[y] = reading[y]
BY DEF Typed, NotReading

LEMMA ReArmFields ==
    ASSUME Typed, NEW x \in Readers, cache' = ReArmed(x)
    PROVE  /\ \A y \in Readers : y # x => cache'[y] = cache[y]
           /\ cache'[x].held <=> cache[x].held
           /\ ~cache'[x].checked
           /\ cache'[x].version = cache[x].version /\ cache'[x].dict = cache[x].dict
<1>1. cache' = [cache EXCEPT ![x] = [cache[x] EXCEPT !.checked = FALSE]]
  BY DEF ReArmed
<1>2. cache'[x] = [cache[x] EXCEPT !.checked = FALSE]
  BY <1>1 DEF Typed
<1>3. /\ cache'[x].held = cache[x].held
      /\ cache'[x].version = cache[x].version /\ cache'[x].dict = cache[x].dict
  BY <1>2 DEF Typed
<1>4. ~cache'[x].checked
  BY <1>2 DEF Typed
<1> QED BY <1>1, <1>3, <1>4 DEF Typed

----------------------------------------------------------------------------
LEMMA Numbers ==
    ASSUME Typed
    PROVE  /\ \A x \in Readers : cache[x].version \in Int /\ reading[x].version \in Int
           /\ version \in Int /\ \A w \in Workers : since[w] \in Int
BY DEF Typed, Caches, Reads

LEMMA KeptViews ==
    ASSUME NEW y \in Readers, BoardKept, SameView(y), CacheView(y), ReadingView(y)
    PROVE  CacheView(y)' /\ ReadingView(y)'
BY DEF BoardKept, SameView, CacheView, ReadingView

\* Looking, building and loading.
LEMMA ReadViews ==
    ASSUME Typed, Views, NEW x \in Readers, Look(x) \/ Build(x) \/ Load(x) PROVE Views'
<1> USE DEF CacheView, ReadingView
<1>1. CacheView(x) /\ ReadingView(x)
  BY DEF Views
<1>2. OthersKept(x) /\ BoardKept
  BY LookFields, BuildFields, LoadFields
<1>3. CASE Look(x)
  <2>1. CacheView(x)'
    BY <1>1, <1>2, <1>3, LookFields DEF BoardKept, IsFresh
  <2>2. ReadingView(x)'
    BY <1>1, <1>2, <1>3, LookFields DEF BoardKept, IsFresh
  <2> QED BY <1>2, <2>1, <2>2, KeptViews DEF Views, OthersKept
<1>4. CASE Build(x)
  <2>1. CacheView(x)' /\ ReadingView(x)'
    BY <1>1, <1>2, <1>4, BuildFields, Numbers DEF BoardKept
  <2> QED BY <1>2, <2>1, KeptViews DEF Views, OthersKept
<1>5. CASE Load(x)
  <2>1. CacheView(x)' /\ ReadingView(x)'
    BY <1>1, <1>2, <1>5, LoadFields DEF BoardKept
  <2> QED BY <1>2, <2>1, KeptViews DEF Views, OthersKept
<1> QED BY <1>3, <1>4, <1>5

LEMMA ReadFrame ==
    ASSUME Typed, Views, NEW x \in Workers, Frame(x), Look(x) \/ Build(x) \/ Load(x)
    PROVE  Frame(x)'
<1> x \in Readers
  BY ReadersDiffer
<1>1. CacheView(x) /\ ReadingView(x)
  BY DEF Views
<1>2. BoardKept /\ shown' = shown /\ since' = since
  BY LookFields, BuildFields, LoadFields DEF Look, Build, Load
<1>3. CASE Look(x)
  BY <1>1, <1>2, <1>3, LookFields DEF Frame, CacheView, IsFresh, BoardKept
<1>4. CASE Build(x)
  BY <1>1, <1>2, <1>4, BuildFields DEF Frame, BoardKept
<1>5. CASE Load(x)
  BY <1>1, <1>2, <1>5, LoadFields DEF Frame, CacheView, ReadingView, BoardKept
<1> QED BY <1>3, <1>4, <1>5

LEMMA ReadLocal ==
    ASSUME Typed, Views, NEW x \in Readers, Local(x), Holds(x), Holds(x)',
           Look(x) \/ Build(x) \/ Load(x)
    PROVE  Local(x)'
<1>1. CacheView(x) /\ ReadingView(x) /\ BoardKept
  BY LookFields, BuildFields, LoadFields DEF Views
<1>3. CASE Look(x)
  BY <1>1, <1>3, LookFields DEF Local, CacheView, IsFresh, BoardKept
<1>4. CASE Build(x)
  BY <1>1, <1>4, BuildFields DEF Local, BoardKept
<1>5. CASE Load(x)
  BY <1>1, <1>5, LoadFields DEF Local, BoardKept
<1> QED BY <1>3, <1>4, <1>5

\* The end of a reading, and the mark between two uses of the cache.
LEMMA EndViews ==
    ASSUME Typed, Views, NEW x \in Readers, BoardKept,
           cache' = cache \/ cache' = ReArmed(x),
           \/ reading' = [reading EXCEPT ![x] = NotReading]
           \/ reading' = reading /\ reading[x].at = "no"
    PROVE  Views' /\ reading'[x].at = "no" /\ OthersKept(x)
<1>1. reading'[x].at = "no" /\ \A y \in Readers : y # x => reading'[y] = reading[y]
  BY EndFields
<1>2. /\ \A y \in Readers : y # x => cache'[y] = cache[y]
      /\ cache'[x].held <=> cache[x].held
      /\ cache'[x].checked => cache[x].checked
      /\ cache'[x].version = cache[x].version /\ cache'[x].dict = cache[x].dict
  <2>1. CASE cache' = ReArmed(x)
    BY <2>1, ReArmFields
  <2> QED BY <2>1
<1>3. OthersKept(x)
  BY <1>1, <1>2 DEF OthersKept, SameView
<1>4. CacheView(x)' /\ ReadingView(x)'
  BY <1>1, <1>2 DEF Views, CacheView, ReadingView, BoardKept
<1> QED BY <1>1, <1>3, <1>4, KeptViews DEF Views, OthersKept

LEMMA KeptFrame ==
    ASSUME NEW w \in Workers, Frame(w), SameView(w), version' = version,
           shown'[w] = shown[w], since'[w] = since[w]
    PROVE  Frame(w)'
BY DEF Frame, SameView

\* A local step of somebody else.
LEMMA KeptLocals ==
    ASSUME Locals, version' = version, SameView(Mutator), SameView(Main),
           mut' = mut, cycle' = cycle
    PROVE  Locals'
BY DEF Locals, Local, Holds, SameView

Grounded == Views /\ Frames /\ Locals

LEMMA WorkerGrounded ==
    ASSUME Typed, Grounded, NEW w \in Workers, WorkerStep(w) PROVE Grounded'
<1> w \in Readers /\ Mutator \in Readers /\ Main \in Readers /\ w # Mutator /\ w # Main
  BY ReadersDiffer
<1> Views /\ Frames /\ Locals
  BY DEF Grounded
<1>a. Frame(w)
  BY DEF Frames
<1>1. CASE Read(w) \/ Build(w) \/ Load(w)
  <2>1. Look(w) \/ Build(w) \/ Load(w)
    BY <1>1 DEF Read
  <2>2. /\ OthersKept(w) /\ BoardKept
        /\ shown' = shown /\ since' = since /\ mut' = mut /\ cycle' = cycle
    BY <2>1, LookFields, BuildFields, LoadFields DEF Look, Build, Load
  <2>3. Views' /\ Frame(w)'
    BY <1>a, <2>1, ReadViews, ReadFrame
  <2>4. Frames'
    BY <2>2, <2>3, KeptFrame, ReadersDiffer DEF Frames, OthersKept, BoardKept
  <2>5. Locals'
    BY <2>2, KeptLocals DEF OthersKept, BoardKept
  <2> QED BY <2>3, <2>4, <2>5 DEF Grounded
<1>2. CASE IsShown(w)
  <2>1. /\ BoardKept /\ cache' = cache /\ reading' = [reading EXCEPT ![w] = NotReading]
        /\ since' = since /\ mut' = mut /\ cycle' = cycle /\ reading[w].at = "shown"
    BY <1>2 DEF IsShown, BoardKept
  <2>2. Views' /\ reading'[w].at = "no" /\ OthersKept(w)
    BY <2>1, EndViews
  <2>3. /\ shown'[w] = shown[w] \union {reading[w].version}
        /\ \A v \in Workers : v # w => shown'[v] = shown[v]
    BY <1>2 DEF IsShown, Typed
  <2>4. cache[w].checked /\ cache[w].version = reading[w].version
    BY <2>1 DEF Views, ReadingView
  <2>5. Frame(w)'
    BY <1>a, <2>1, <2>2, <2>3, <2>4 DEF Frame, BoardKept
  <2>6. Frames'
    BY <2>1, <2>2, <2>3, <2>5, KeptFrame, ReadersDiffer DEF Frames, OthersKept, BoardKept
  <2>7. Locals'
    BY <2>1, <2>2, KeptLocals DEF OthersKept, BoardKept
  <2> QED BY <2>2, <2>6, <2>7 DEF Grounded
<1>3. CASE LoadFails(w)
  <2>1. /\ BoardKept /\ cache' = cache /\ reading' = [reading EXCEPT ![w] = NotReading]
        /\ shown' = shown /\ since' = since /\ mut' = mut /\ cycle' = cycle
    BY <1>3 DEF LoadFails, BoardKept
  <2>2. Views' /\ reading'[w].at = "no" /\ OthersKept(w)
    BY <2>1, EndViews
  <2>3. Frame(w)'
    BY <1>a, <2>1, <2>2 DEF Frame, BoardKept
  <2>4. Frames'
    BY <2>1, <2>2, <2>3, KeptFrame, ReadersDiffer DEF Frames, OthersKept, BoardKept
  <2>5. Locals'
    BY <2>1, <2>2, KeptLocals DEF OthersKept, BoardKept
  <2> QED BY <2>2, <2>4, <2>5 DEF Grounded
<1>4. CASE Notify(w)
  <2>1. /\ BoardKept /\ cache' = cache /\ reading' = reading
        /\ shown' = shown /\ since' = since /\ mut' = mut /\ cycle' = cycle
    BY <1>4 DEF Notify, BoardKept
  <2>2. \A y \in Readers : SameView(y)
    BY <2>1 DEF SameView
  <2>3. Views'
    BY <2>1, <2>2, KeptViews DEF Views
  <2>4. Frames'
    BY <2>1, <2>2, KeptFrame, ReadersDiffer DEF Frames, BoardKept
  <2>5. Locals'
    BY <2>1, <2>2, KeptLocals DEF BoardKept
  <2> QED BY <2>3, <2>4, <2>5 DEF Grounded
<1>5. CASE NextBehavior(w)
  <2>1. /\ BoardKept /\ cache' = ReArmed(w) /\ reading' = reading /\ reading[w].at = "no"
        /\ mut' = mut /\ cycle' = cycle
    BY <1>5 DEF NextBehavior, BoardKept
  <2>2. Views' /\ reading'[w].at = "no" /\ OthersKept(w)
    BY <2>1, EndViews
  <2>3. /\ shown'[w] = {} /\ since'[w] = version
        /\ \A v \in Workers : v # w => shown'[v] = shown[v] /\ since'[v] = since[v]
    BY <1>5 DEF NextBehavior, Typed
  <2>4. ~cache'[w].checked
    BY <2>1, ReArmFields
  <2>5. Frame(w)'
    BY <2>1, <2>2, <2>3, <2>4, Numbers DEF Frame, BoardKept
  <2>6. Frames'
    BY <2>1, <2>2, <2>3, <2>5, KeptFrame, ReadersDiffer DEF Frames, OthersKept, BoardKept
  <2>7. Locals'
    BY <2>1, <2>2, KeptLocals DEF OthersKept, BoardKept
  <2> QED BY <2>2, <2>6, <2>7 DEF Grounded
<1> QED BY <1>1, <1>2, <1>3, <1>4, <1>5 DEF WorkerStep

----------------------------------------------------------------------------
LEMMA KeptLocal ==
    ASSUME NEW x \in {Mutator, Main}, Local(x), SameView(x), version' = version,
           Holds(x)' <=> Holds(x)
    PROVE  Local(x)'
BY DEF Local, SameView

LEMMA KeptFrames ==
    ASSUME Frames, NEW x \in {Mutator, Main}, OthersKept(x), version' = version,
           shown' = shown, since' = since
    PROVE  Frames'
BY KeptFrame, ReadersDiffer DEF Frames, OthersKept

LEMMA MutatorReads ==
    ASSUME Typed, Grounded, UpdateIsAtomic, Reread \/ Build(Mutator) \/ Load(Mutator)
    PROVE  Grounded' /\ UpdateIsAtomic'
<1> Mutator \in Readers /\ Main \in Readers /\ Main # Mutator
  BY ReadersDiffer
<1>1. Look(Mutator) \/ Build(Mutator) \/ Load(Mutator)
  BY DEF Reread
<1>2. /\ OthersKept(Mutator) /\ BoardKept
      /\ shown' = shown /\ since' = since /\ mut' = mut /\ cycle' = cycle
  BY <1>1, LookFields, BuildFields, LoadFields DEF Look, Build, Load
<1>3. Holds(Mutator) /\ Holds(Mutator)' /\ (Holds(Main)' <=> Holds(Main))
  BY <1>2 DEF Grounded, Locals, Local, Holds, Reread, Build, Load
<1>4. Local(Mutator) /\ Local(Main) /\ (cycle.at \in Asking => mut.at = "dead")
  BY DEF Grounded, Locals
<1>5. Local(Mutator)'
  BY <1>1, <1>3, <1>4, ReadLocal DEF Grounded
<1>6. Local(Main)'
  BY <1>2, <1>3, <1>4, KeptLocal DEF OthersKept, BoardKept
<1>7. Views' /\ Frames'
  BY <1>1, <1>2, ReadViews, KeptFrames DEF Grounded, BoardKept
<1>8. UpdateIsAtomic'
  BY <1>2 DEF UpdateIsAtomic, BoardKept
<1> QED BY <1>2, <1>4, <1>5, <1>6, <1>7, <1>8 DEF Grounded, Locals

\* A step of the mutator that touches no more than its own cache and reading.
LEMMA MutatorElsewhere ==
    ASSUME Typed, Grounded, BoardKept,
           shown' = shown, since' = since, cycle' = cycle,
           cache' = cache \/ cache' = ReArmed(Mutator),
           \/ reading' = [reading EXCEPT ![Mutator] = NotReading]
           \/ reading' = reading /\ reading[Mutator].at = "no",
           mut'.at = "read" => cache' = ReArmed(Mutator),
           mut.at # "dead"
    PROVE  Grounded'
<1> Mutator \in Readers /\ Main \in Readers /\ Main # Mutator
  BY ReadersDiffer
<1>1. Views' /\ reading'[Mutator].at = "no" /\ OthersKept(Mutator)
  BY EndViews DEF Grounded
<1>2. Frames'
  BY <1>1, KeptFrames DEF Grounded, BoardKept
<1>3. Local(Mutator)'
  BY <1>1, ReArmFields, ReadersDiffer DEF Local, Holds
<1>4. Local(Main)'
  BY <1>1, KeptLocal DEF Grounded, Locals, Holds, OthersKept, BoardKept
<1>5. cycle.at \notin Asking
  BY DEF Grounded, Locals
<1> QED BY <1>1, <1>2, <1>3, <1>4, <1>5 DEF Grounded, Locals

LEMMA CommitGrounded ==
    ASSUME Typed, Grounded, Commit PROVE Grounded'
<1> Mutator \in Readers /\ Main \in Readers /\ Main # Mutator
  BY ReadersDiffer
<1>1. \/ board' = board /\ version' = version
      \/ version' = version + 1
  <2>1. CASE mut.value = {} /\ board[Key[mut.n]] = {}
    <3>1. board' = [board EXCEPT ![Key[mut.n]] = {}] /\ version' = version
      BY <2>1 DEF Commit
    <3>2. board' = board
      BY <2>1, <3>1 DEF Typed, Boards
    <3> QED BY <3>1, <3>2
  <2> QED BY <2>1 DEF Commit
<1>2. /\ cache' = cache /\ reading' = reading /\ shown' = shown /\ since' = since
      /\ cycle' = cycle /\ mut.at = "commit" /\ mut'.at = "drop"
  BY DEF Commit, Typed
<1>3. Views'
  BY <1>1, <1>2, Numbers DEF Grounded, Views, CacheView, ReadingView
<1>4. Frames'
  BY <1>1, <1>2, Numbers DEF Grounded, Frames, Frame
<1>5. cycle.at \notin Asking
  BY <1>2 DEF Grounded, Locals
<1>6. Locals'
  BY <1>2, <1>5 DEF Grounded, Locals, Local, Holds
<1> QED BY <1>3, <1>4, <1>6 DEF Grounded

LEMMA MutatorGrounded ==
    ASSUME Typed, Grounded, UpdateIsAtomic, MutatorStep PROVE Grounded' /\ UpdateIsAtomic'
<1> Mutator \in Readers /\ Main \in Readers /\ Main # Mutator
  BY ReadersDiffer
<1>a. mut.at # "read" => reading[Mutator].at = "no"
  BY DEF Grounded, Locals, Local, Holds
<1>1. CASE Receive
  <2>1. /\ BoardKept /\ shown' = shown /\ since' = since /\ cycle' = cycle
        /\ reading' = reading /\ mut.at = "receive"
        /\ cache' = IF Kind[Head(box)] = "update" THEN ReArmed(Mutator) ELSE cache
    BY <1>1 DEF Receive, BoardKept
  <2>2. mut'.n = Head(box) /\ mut'.at = IF Kind[Head(box)] = "update" THEN "read" ELSE "commit"
    BY <1>1 DEF Receive, Typed
  <2>3. Grounded'
    BY <1>a, <2>1, <2>2, MutatorElsewhere
  <2>4. UpdateIsAtomic'
    BY <2>2 DEF UpdateIsAtomic
  <2> QED BY <2>3, <2>4
<1>2. CASE Shutdown
  <2>1. /\ BoardKept /\ shown' = shown /\ since' = since /\ cycle' = cycle
        /\ reading' = reading /\ mut.at = "receive" /\ mut'.at = "dead" /\ cache' = cache
    BY <1>2 DEF Shutdown, BoardKept, Typed
  <2> QED BY <1>a, <2>1, MutatorElsewhere DEF UpdateIsAtomic
<1>3. CASE Reread \/ Build(Mutator) \/ Load(Mutator)
  BY <1>3, MutatorReads
<1>4. CASE Apply
  <2>1. /\ BoardKept /\ shown' = shown /\ since' = since /\ cycle' = cycle
        /\ reading' = [reading EXCEPT ![Mutator] = NotReading] /\ cache' = cache
        /\ mut.at = "read" /\ reading[Mutator].at = "shown"
    BY <1>4 DEF Apply, BoardKept
  <2>2. PICK value \in {{}, reading[Mutator].dict[Key[mut.n]] \union {mut.n}} :
          mut' = [mut EXCEPT !.at = "commit", !.value = value, !.pins = value \cap Embeds]
    BY <1>4 DEF Apply
  <2>3. mut'.at = "commit" /\ mut'.value = value /\ mut'.n = mut.n
    BY <2>2 DEF Typed
  <2>4. Grounded'
    BY <2>1, <2>3, MutatorElsewhere
  <2>5. reading[Mutator].dict = board
    BY <2>1 DEF Grounded, Locals, Local, Holds, Views, ReadingView
  <2>6. UpdateIsAtomic'
    BY <2>1, <2>2, <2>3, <2>5 DEF UpdateIsAtomic, BoardKept
  <2> QED BY <2>4, <2>6
<1>5. CASE UpdateFails
  <2>1. /\ BoardKept /\ shown' = shown /\ since' = since /\ cycle' = cycle
        /\ reading' = [reading EXCEPT ![Mutator] = NotReading] /\ cache' = ReArmed(Mutator)
        /\ mut.at = "read" /\ mut'.at = "receive"
    BY <1>5 DEF UpdateFails, BoardKept, Typed, Survives
  <2> QED BY <2>1, MutatorElsewhere DEF UpdateIsAtomic
<1>6. CASE Commit
  <2>1. mut'.at = "drop"
    BY <1>6 DEF Commit, Typed
  <2> QED BY <1>6, <2>1, CommitGrounded DEF UpdateIsAtomic
<1>7. CASE Drop
  <2>1. /\ BoardKept /\ shown' = shown /\ since' = since /\ cycle' = cycle
        /\ reading' = reading /\ mut.at = "drop" /\ mut'.at = "receive"
        /\ cache' = cache \/ cache' = ReArmed(Mutator)
    BY <1>7 DEF Drop, BoardKept, Typed
  <2> QED BY <1>a, <2>1, MutatorElsewhere DEF UpdateIsAtomic
<1> QED BY <1>1, <1>2, <1>3, <1>4, <1>5, <1>6, <1>7 DEF MutatorStep

----------------------------------------------------------------------------
LEMMA CycleGrounded ==
    ASSUME Typed, Grounded, UpdateIsAtomic, CycleStep PROVE Grounded' /\ UpdateIsAtomic'
<1> Mutator \in Readers /\ Main \in Readers /\ Main # Mutator
  BY ReadersDiffer
<1>a. Local(Mutator) /\ Local(Main) /\ (cycle.at \in Asking => mut.at = "dead")
  BY DEF Grounded, Locals
<1>1. CASE CycleSends \/ CycleTimesOut
  <2>1. /\ BoardKept /\ shown' = shown /\ since' = since /\ mut' = mut
        /\ reading' = reading /\ cache' = cache
        /\ cycle.at \notin Asking /\ cycle'.at \notin Asking
    BY <1>1 DEF CycleSends, CycleTimesOut, BoardKept, Typed, Asking
  <2>2. \A y \in Readers : SameView(y)
    BY <2>1 DEF SameView
  <2>3. Views' /\ Frames'
    BY <2>1, <2>2, KeptViews, KeptFrames DEF Grounded, Views, OthersKept, BoardKept
  <2>4. Locals'
    BY <1>a, <2>1, <2>2, KeptLocal DEF Locals, Holds, BoardKept
  <2> QED BY <2>1, <2>3, <2>4 DEF Grounded, UpdateIsAtomic, BoardKept
<1>2. CASE CycleJoins \/ CycleFindsNobody
  <2>1. /\ BoardKept /\ shown' = shown /\ since' = since /\ mut' = mut
        /\ reading' = reading /\ cache' = ReArmed(Main)
        /\ cycle.at \notin Asking /\ cycle'.at \in Asking /\ mut.at = "dead"
    BY <1>2 DEF CycleJoins, CycleFindsNobody, BoardKept, Typed, Asking, Joined
  <2>2. reading[Main].at = "no"
    BY <1>a, <2>1 DEF Local, Holds
  <2>3. Views' /\ reading'[Main].at = "no" /\ OthersKept(Main)
    BY <2>1, <2>2, EndViews DEF Grounded
  <2>4. Frames'
    BY <2>1, <2>3, KeptFrames DEF Grounded, BoardKept
  <2>5. Local(Main)'
    BY <2>1, <2>3, ReArmFields DEF Local, Holds
  <2>6. Local(Mutator)'
    BY <1>a, <2>1, <2>3, KeptLocal DEF Holds, OthersKept, BoardKept
  <2> QED BY <2>1, <2>3, <2>4, <2>5, <2>6 DEF Grounded, Locals, UpdateIsAtomic, BoardKept
<1>3. CASE CycleReads \/ Build(Main) \/ Load(Main)
  <2>1. Look(Main) \/ Build(Main) \/ Load(Main)
    BY <1>3 DEF CycleReads
  <2>2. /\ OthersKept(Main) /\ BoardKept
        /\ shown' = shown /\ since' = since /\ mut' = mut /\ cycle' = cycle
    BY <2>1, LookFields, BuildFields, LoadFields DEF Look, Build, Load
  <2>3. Holds(Main) /\ Holds(Main)' /\ (Holds(Mutator)' <=> Holds(Mutator))
    BY <1>a, <1>3, <2>2 DEF Local, Holds, CycleReads, Build, Load, Asking
  <2>4. Local(Main)'
    BY <1>a, <2>1, <2>3, ReadLocal DEF Grounded
  <2>5. Local(Mutator)'
    BY <1>a, <2>2, <2>3, KeptLocal DEF OthersKept, BoardKept
  <2>6. Views' /\ Frames'
    BY <2>1, <2>2, ReadViews, KeptFrames DEF Grounded, BoardKept
  <2> QED BY <1>a, <2>2, <2>4, <2>5, <2>6 DEF Grounded, Locals, UpdateIsAtomic, BoardKept
<1>4. CASE CycleReturns
  <2>1. /\ BoardKept /\ shown' = shown /\ since' = since
        /\ reading' = [reading EXCEPT ![Main] = NotReading] /\ cache' = cache
        /\ cycle.at \in Asking /\ cycle'.at = "idle"
        /\ mut' = mut \/ mut'.at = "receive"
    BY <1>4 DEF CycleReturns, BoardKept, Typed, Asking
  <2>2. Views' /\ reading'[Main].at = "no" /\ OthersKept(Main)
    BY <2>1, EndViews DEF Grounded
  <2>3. Frames'
    BY <2>1, <2>2, KeptFrames DEF Grounded, BoardKept
  <2>4. Local(Main)'
    BY <2>1, <2>2 DEF Local, Holds, Asking
  <2>5. ~Holds(Mutator) /\ ~Holds(Mutator)'
    BY <1>a, <2>1 DEF Holds
  <2>6. Local(Mutator)'
    BY <1>a, <2>2, <2>5 DEF Local, OthersKept, SameView
  <2>7. UpdateIsAtomic'
    BY <2>1 DEF UpdateIsAtomic, BoardKept
  <2> QED BY <2>1, <2>2, <2>3, <2>4, <2>6, <2>7 DEF Grounded, Locals, Asking
<1> QED BY <1>1, <1>2, <1>3, <1>4 DEF CycleStep

LEMMA NextGrounded ==
    ASSUME IInv, [Next]_vars PROVE Grounded' /\ UpdateIsAtomic'
<1> Typed /\ Grounded /\ UpdateIsAtomic
  BY DEF IInv, Grounded
<1>1. CASE \E w \in Workers : WorkerStep(w)
  <2> PICK w \in Workers : WorkerStep(w)
    BY <1>1
  <2>1. mut' = mut /\ board' = board
    BY DEF WorkerStep, Read, Look, Build, Load, IsShown, LoadFails, Notify, NextBehavior
  <2> QED BY <2>1, WorkerGrounded DEF UpdateIsAtomic
<1>2. CASE UNCHANGED vars \/ \E c \in Embeds : Forget(c)
  <2>1. /\ BoardKept /\ shown' = shown /\ since' = since /\ mut' = mut /\ cycle' = cycle
        /\ reading' = reading /\ cache' = cache
    BY <1>2 DEF vars, Forget, BoardKept
  <2>2. \A y \in Readers : SameView(y)
    BY <2>1 DEF SameView
  <2>3. Views' /\ Frames'
    BY <2>1, <2>2, KeptViews, KeptFrames, ReadersDiffer
    DEF Grounded, Views, OthersKept, BoardKept
  <2>4. Locals'
    BY <2>1, <2>2, KeptLocals, ReadersDiffer DEF Grounded, BoardKept
  <2> QED BY <2>1, <2>3, <2>4 DEF Grounded, UpdateIsAtomic, BoardKept
<1> QED BY <1>1, <1>2, MutatorGrounded, CycleGrounded DEF Next

----------------------------------------------------------------------------
(***************************************************************************)
(* The queue, its sentinels and what has been posted.                      *)
(***************************************************************************)
LEMMA PostedIs ==
    \A n : n \in Posted <=>
      \E w \in Workers : \E i \in 1..(IF work[w].sent THEN work[w].i ELSE work[w].i - 1) :
        n = Program[w][i]
BY DEF Posted

LEMMA PostedAreNotices ==
    ASSUME Typed, Posts, NEW n \in Posted PROVE n \in Notices /\ n # "shutdown"
<1>1. PICK w \in Workers :
        \E i \in 1..(IF work[w].sent THEN work[w].i ELSE work[w].i - 1) : n = Program[w][i]
  BY PostedIs
<1>2. PICK i \in 1..(IF work[w].sent THEN work[w].i ELSE work[w].i - 1) : n = Program[w][i]
  BY <1>1
<1>3. Program[w] \in Seq(Notices) /\ work[w].i \in Int
  BY NoticeboardAssumption DEF Typed
<1>4. i \in 1..Len(Program[w])
  BY <1>2, <1>3 DEF Posts
<1> QED BY <1>2, <1>3, <1>4, NoticeboardAssumption

LEMMA KeptPosts ==
    ASSUME Typed, Posts, work' = work, box' = box, handled \subseteq handled',
           mut'.at = "dead" => mut.at = "dead",
           mut.at \in Busy => mut.n \in handled' \/ (mut'.at \in Busy /\ mut'.n = mut.n),
           cycle'.at # "idle" => cycle.at # "idle" \/ Quiescent
    PROVE  Posts'
<1>1. Posted' = Posted /\ Quiescent' = Quiescent
  BY DEF Posted, Quiescent, InBehavior
<1>2. \A n \in Posted : \/ n \in handled'
                        \/ \E i \in DOMAIN box' : box'[i] = n
                        \/ mut'.at \in Busy /\ mut'.n = n
  BY DEF Posts
<1> QED BY <1>1, <1>2 DEF Posts

\* While a behavior runs there is no sentinel about.
LEMMA NoSentinel ==
    ASSUME Posts, NEW w \in Workers, InBehavior(w)
    PROVE  /\ cycle.at = "idle" /\ mut.at # "dead"
           /\ \A i \in DOMAIN box : box[i] # "shutdown"
BY DEF Posts, Quiescent

LEMMA NotifyPosts ==
    ASSUME Typed, Posts, NEW w \in Workers, Notify(w) PROVE Posts'
<1> DEFINE n == Program[w][work[w].i]
<1>1. InBehavior(w) /\ box' = Append(box, n) /\ mut' = mut /\ cycle' = cycle
      /\ handled' = handled /\ ~work[w].sent
  BY DEF Notify
<1>2. Program[w] \in Seq(Notices) /\ work[w].i \in Nat /\ box \in Seq(Notices \union {"shutdown"})
  BY NoticeboardAssumption DEF Typed
<1>3. work[w].i \in 1..Len(Program[w])
  BY <1>1, <1>2 DEF InBehavior, Posts
<1>4. n \in Notices /\ n # "shutdown"
  BY <1>2, <1>3, NoticeboardAssumption
<1>5. /\ DOMAIN box' = 1..(Len(box) + 1) /\ box'[Len(box) + 1] = n
      /\ \A i \in DOMAIN box : i \in DOMAIN box' /\ box'[i] = box[i]
      /\ \A i \in DOMAIN box' : i \in DOMAIN box \/ i = Len(box) + 1
  BY <1>1, <1>2, <1>4
<1>6. \A i \in DOMAIN box' : box'[i] # "shutdown"
  BY <1>1, <1>4, <1>5, NoSentinel
<1>7. /\ \A v \in Workers : work'[v].i = work[v].i
      /\ \A v \in Workers : v # w => work'[v] = work[v]
      /\ work'[w].sent
  BY DEF Notify, Typed
<1>8. \A m \in Posted' : m \in Posted \/ m = n
  <2> SUFFICES ASSUME NEW m \in Posted' PROVE m \in Posted \/ m = n
    OBVIOUS
  <2>1. PICK v \in Workers :
          \E i \in 1..(IF work'[v].sent THEN work'[v].i ELSE work'[v].i - 1) : m = Program[v][i]
    BY DEF Posted
  <2>2. CASE v # w
    BY <1>7, <2>1, <2>2, PostedIs
  <2>3. CASE v = w
    <3>1. PICK i \in 1..work[w].i : m = Program[w][i]
      BY <1>7, <2>1, <2>3
    <3>2. CASE i = work[w].i
      BY <3>1, <3>2
    <3>3. CASE i # work[w].i
      <4>1. i \in 1..(work[w].i - 1)
        BY <1>2, <3>3
      <4> QED BY <1>1, <3>1, <4>1, PostedIs
    <3> QED BY <3>2, <3>3
  <2> QED BY <2>2, <2>3
<1>9. \A m \in Posted' : \/ m \in handled'
                         \/ \E i \in DOMAIN box' : box'[i] = m
                         \/ mut'.at \in Busy /\ mut'.n = m
  <2>1. \E i \in DOMAIN box' : box'[i] = n
    BY <1>2, <1>5
  <2> QED BY <1>1, <1>5, <1>8, <2>1 DEF Posts
<1>10. cycle'.at = "idle" /\ mut'.at # "dead"
  BY <1>1, NoSentinel
<1>11. \A v \in Workers : /\ work'[v].i \in 1..(Len(Program[v]) + 1)
                          /\ work'[v].sent => work'[v].i <= Len(Program[v])
  BY <1>3, <1>7 DEF Posts
<1> HIDE DEF n
<1> QED BY <1>6, <1>9, <1>10, <1>11 DEF Posts

LEMMA NextBehaviorPosts ==
    ASSUME Typed, Posts, NEW w \in Workers, NextBehavior(w) PROVE Posts'
<1>1. InBehavior(w) /\ work[w].sent /\ box' = box /\ mut' = mut /\ cycle' = cycle
      /\ handled' = handled
  BY DEF NextBehavior
<1>2. /\ \A v \in Workers : v # w => work'[v] = work[v]
      /\ work'[w].i = work[w].i + 1 /\ ~work'[w].sent
  BY DEF NextBehavior, Typed
<1>3. Len(Program[w]) \in Nat /\ work[w].i \in Nat
  BY NoticeboardAssumption DEF Typed
<1>4. \A m \in Posted' : m \in Posted
  <2> SUFFICES ASSUME NEW m \in Posted' PROVE m \in Posted
    OBVIOUS
  <2>1. PICK v \in Workers :
          \E i \in 1..(IF work'[v].sent THEN work'[v].i ELSE work'[v].i - 1) : m = Program[v][i]
    BY DEF Posted
  <2>2. CASE v # w
    BY <1>2, <2>1, <2>2, PostedIs
  <2>3. CASE v = w
    <3>1. \E i \in 1..work[w].i : m = Program[w][i]
      BY <1>2, <1>3, <2>1, <2>3
    <3> QED BY <1>1, <3>1, PostedIs
  <2> QED BY <2>2, <2>3
<1>5. \A v \in Workers : /\ work'[v].i \in 1..(Len(Program[v]) + 1)
                         /\ work'[v].sent => work'[v].i <= Len(Program[v])
  BY <1>1, <1>2, <1>3 DEF InBehavior, Posts
<1>6. \A m \in Posted' : \/ m \in handled'
                         \/ \E i \in DOMAIN box' : box'[i] = m
                         \/ mut'.at \in Busy /\ mut'.n = m
  BY <1>1, <1>4 DEF Posts
<1> QED BY <1>1, <1>5, <1>6, NoSentinel DEF Posts

LEMMA WorkerPosts ==
    ASSUME Typed, Posts, NEW w \in Workers, WorkerStep(w) PROVE Posts'
<1>1. CASE Read(w) \/ Build(w) \/ Load(w) \/ IsShown(w) \/ LoadFails(w)
  <2>1. /\ work' = work /\ box' = box /\ handled' = handled
        /\ mut' = mut /\ cycle' = cycle
    BY <1>1 DEF Read, Look, Build, Load, IsShown, LoadFails
  <2> QED BY <2>1, KeptPosts
<1> QED BY <1>1, NotifyPosts, NextBehaviorPosts DEF WorkerStep

\* The head of the queue is taken off.
LEMMA TailFields ==
    ASSUME Typed, box # <<>>, box' = Tail(box)
    PROVE  /\ 1 \in DOMAIN box /\ Head(box) = box[1]
           /\ \A i \in DOMAIN box' : i + 1 \in DOMAIN box /\ box'[i] = box[i + 1]
           /\ \A i \in DOMAIN box : i # 1 => i - 1 \in DOMAIN box' /\ box'[i - 1] = box[i]
           /\ DOMAIN box \subseteq Int /\ DOMAIN box' \subseteq Int
           /\ \A i \in DOMAIN box : i >= 1
BY DEF Typed

LEMMA ReceivePosts ==
    ASSUME Typed, Posts, Receive PROVE Posts'
<1>1. /\ box # <<>> /\ box' = Tail(box) /\ Head(box) # "shutdown"
      /\ work' = work /\ cycle' = cycle /\ handled' = handled
      /\ mut.at = "receive" /\ mut'.at \in Busy /\ mut'.n = Head(box)
  BY DEF Receive, Typed, Busy
<1>2. Posted' = Posted /\ Quiescent' = Quiescent
  BY <1>1 DEF Posted, Quiescent, InBehavior
<1>3. \A i \in DOMAIN box' : box'[i] = "shutdown" =>
        Quiescent /\ \A j \in DOMAIN box' : j > i => box'[j] = "shutdown"
  BY <1>1, TailFields DEF Posts
<1>4. ASSUME NEW n \in Posted
      PROVE  n \in handled \/ (\E i \in DOMAIN box' : box'[i] = n) \/ mut'.n = n
  <2>1. n \in handled \/ \E i \in DOMAIN box : box[i] = n
    BY <1>1 DEF Posts, Busy
  <2>2. ASSUME NEW i \in DOMAIN box, box[i] = n
        PROVE  (\E j \in DOMAIN box' : box'[j] = n) \/ mut'.n = n
    BY <1>1, <2>2, TailFields
  <2> QED BY <2>1, <2>2
<1>5. mut'.at # "dead"
  BY <1>1 DEF Busy
<1> QED BY <1>1, <1>2, <1>3, <1>4, <1>5 DEF Posts

LEMMA ShutdownPosts ==
    ASSUME Typed, Posts, Shutdown PROVE Posts'
<1>1. /\ box # <<>> /\ box' = Tail(box) /\ Head(box) = "shutdown"
      /\ work' = work /\ cycle' = cycle /\ handled' = handled
      /\ mut.at = "receive" /\ mut'.at = "dead"
  BY DEF Shutdown, Typed
<1>2. Posted' = Posted /\ Quiescent' = Quiescent
  BY <1>1 DEF Posted, Quiescent, InBehavior
<1>3. Quiescent /\ \A i \in DOMAIN box : box[i] = "shutdown"
  BY <1>1, TailFields DEF Posts
<1>4. \A i \in DOMAIN box' : box'[i] = "shutdown"
  BY <1>1, <1>3, TailFields
<1>5. \A n \in Posted : n \in handled
  BY <1>1, <1>3, PostedAreNotices DEF Posts, Busy
<1> QED BY <1>1, <1>2, <1>3, <1>4, <1>5 DEF Posts

LEMMA MutatorPosts ==
    ASSUME Typed, Posts, MutatorStep PROVE Posts'
<1>1. CASE Reread \/ Build(Mutator) \/ Load(Mutator)
  <2>1. /\ work' = work /\ box' = box /\ handled' = handled
        /\ mut' = mut /\ cycle' = cycle
    BY <1>1 DEF Reread, Look, Build, Load
  <2> QED BY <2>1, KeptPosts
<1>2. CASE Apply \/ Commit
  <2>1. /\ work' = work /\ box' = box /\ handled' = handled /\ cycle' = cycle
        /\ mut'.at \in Busy /\ mut'.n = mut.n
    BY <1>2 DEF Apply, Commit, Typed, Busy
  <2>2. mut'.at # "dead"
    BY <2>1 DEF Busy
  <2> QED BY <2>1, <2>2, KeptPosts
<1>3. CASE UpdateFails \/ Drop
  <2>1. /\ work' = work /\ box' = box /\ handled' = handled \union {mut.n} /\ cycle' = cycle
        /\ mut'.at = "receive"
    BY <1>3 DEF UpdateFails, Drop, Typed, Survives
  <2> QED BY <2>1, KeptPosts
<1> QED BY <1>1, <1>2, <1>3, ReceivePosts, ShutdownPosts DEF MutatorStep

LEMMA SendsPosts ==
    ASSUME Typed, Posts, CycleSends PROVE Posts'
<1>1. /\ Quiescent /\ box' = Append(box, "shutdown") /\ work' = work
      /\ handled' = handled /\ mut' = mut /\ mut.at # "dead"
  BY DEF CycleSends
<1>2. Posted' = Posted /\ Quiescent' = Quiescent
  BY <1>1 DEF Posted, Quiescent, InBehavior
<1>3. /\ box'[Len(box) + 1] = "shutdown"
      /\ \A i \in DOMAIN box : i \in DOMAIN box' /\ box'[i] = box[i] /\ i <= Len(box)
      /\ \A i \in DOMAIN box' : i \in DOMAIN box \/ i = Len(box) + 1
      /\ Len(box) \in Nat /\ DOMAIN box \subseteq Int
  BY <1>1 DEF Typed
<1>4. \A i \in DOMAIN box' : box'[i] = "shutdown" =>
        Quiescent /\ \A j \in DOMAIN box' : j > i => box'[j] = "shutdown"
  BY <1>1, <1>3 DEF Posts
<1>5. \A n \in Posted : \/ n \in handled
                        \/ \E i \in DOMAIN box' : box'[i] = n
                        \/ mut.at \in Busy /\ mut.n = n
  BY <1>3 DEF Posts
<1> QED BY <1>1, <1>2, <1>4, <1>5 DEF Posts

LEMMA CyclePosts ==
    ASSUME Typed, Grounded, Posts, CycleStep PROVE Posts'
<1>1. CASE CycleTimesOut \/ CycleJoins \/ CycleFindsNobody
  <2>1. /\ work' = work /\ box' = box /\ handled' = handled /\ mut' = mut
        /\ cycle'.at # "idle" => cycle.at # "idle" \/ Quiescent
    BY <1>1 DEF CycleTimesOut, CycleJoins, CycleFindsNobody, Typed
  <2> QED BY <2>1, KeptPosts
<1>2. CASE CycleReads \/ Build(Main) \/ Load(Main)
  <2>1. /\ work' = work /\ box' = box /\ handled' = handled
        /\ mut' = mut /\ cycle' = cycle
    BY <1>2 DEF CycleReads, Look, Build, Load
  <2> QED BY <2>1, KeptPosts
<1>3. CASE CycleReturns
  <2>1. /\ work' = work /\ box' = box /\ handled' = handled
        /\ cycle.at \in Asking /\ cycle'.at = "idle"
        /\ mut' = mut \/ mut'.at = "receive"
    BY <1>3 DEF CycleReturns, Typed, Asking
  <2>2. mut.at = "dead"
    BY <2>1 DEF Grounded, Locals
  <2> QED BY <2>1, <2>2, KeptPosts DEF Busy
<1> QED BY <1>1, <1>2, <1>3, SendsPosts DEF CycleStep

LEMMA NextPosts ==
    ASSUME IInv, [Next]_vars PROVE Posts'
<1> Typed /\ Grounded /\ Posts
  BY DEF IInv, Grounded
<1>1. CASE UNCHANGED vars \/ \E c \in Embeds : Forget(c)
  <2>1. /\ work' = work /\ box' = box /\ handled' = handled
        /\ mut' = mut /\ cycle' = cycle
    BY <1>1 DEF vars, Forget
  <2> QED BY <2>1, KeptPosts
<1> QED BY <1>1, WorkerPosts, MutatorPosts, CyclePosts DEF Next

----------------------------------------------------------------------------
(***************************************************************************)
(* The inductive invariant.                                                *)
(***************************************************************************)
THEOREM Noticeboard_Invariance == Spec => []IInv
<1>1. IInv /\ [Next]_vars => IInv'
  BY NextTyped, NextGrounded, NextPosts DEF IInv, Grounded
<1> QED BY <1>1, InitIInv, PTL DEF Spec

(***************************************************************************)
(* A behavior cannot observe writes that happen while it runs.             *)
(***************************************************************************)
THEOREM Noticeboard_OneView == Spec => []OneViewPerBehavior
<1>1. IInv => OneViewPerBehavior
  <2> SUFFICES ASSUME IInv, NEW w \in Workers PROVE Cardinality(shown[w]) <= 1
    BY DEF OneViewPerBehavior
  <2>1. shown[w] \subseteq {cache[w].version}
    BY DEF IInv, Frames, Frame
  <2>2. shown[w] = {} \/ shown[w] = {cache[w].version}
    BY <2>1
  <2>3. Cardinality(shown[w]) \in {0, 1}
    BY <2>2, FS_EmptySet, FS_Singleton, Zenon
  <2> QED BY <2>3
<1> QED BY <1>1, Noticeboard_Invariance, PTL

(***************************************************************************)
(* What it sees is no older than itself.                                   *)
(***************************************************************************)
THEOREM Noticeboard_FreshView == Spec => []ViewIsFresh
<1>1. IInv => ViewIsFresh
  BY Numbers, ReadersDiffer DEF IInv, ViewIsFresh, Frames, Frame
<1> QED BY <1>1, Noticeboard_Invariance, PTL

(***************************************************************************)
(* notice_update commits what it computed of the board as it is.           *)
(***************************************************************************)
THEOREM Noticeboard_AtomicUpdate == Spec => []UpdateIsAtomic
<1>1. IInv => UpdateIsAtomic
  BY DEF IInv
<1> QED BY <1>1, Noticeboard_Invariance, PTL

(***************************************************************************)
(* quiesce(noticeboard=True) returns the board after every notice posted,  *)
(* whether an earlier attempt timed out or not.                            *)
(***************************************************************************)
THEOREM Noticeboard_CycleSeesAll == Spec => []CycleSeesEverything
<1>1. IInv => CycleSeesEverything
  <2> SUFFICES ASSUME IInv, reading[Main].at = "shown"
               PROVE  Posted \subseteq handled /\ reading[Main].dict = board
    BY DEF CycleSeesEverything
  <2>1. Main \in Readers /\ Main # Mutator
    BY ReadersDiffer
  <2>2. mut.at = "dead" /\ reading[Main].version = version
    BY <2>1 DEF IInv, Locals, Local, Holds
  <2>3. reading[Main].dict = board
    BY <2>1, <2>2 DEF IInv, Views, ReadingView
  <2>4. \A n \in Posted : n \in handled
    BY <2>2, PostedAreNotices DEF IInv, Posts, Busy
  <2> QED BY <2>3, <2>4
<1> QED BY <1>1, Noticeboard_Invariance, PTL
----------------------------------------------------------------------------
(***************************************************************************)
(* Reference counts.  Every reference to a cown is accounted for: the      *)
(* program's own, one for each of its notices on the queue, one for each   *)
(* entry of the board, of a cache and of bytes in the hand of a reader     *)
(* that name it, and the pin of the mutator.  What is named and not held,  *)
(* or held by nobody, breaks the sum.                                      *)
(***************************************************************************)
Has(S, c) == IF c \in S THEN 1 ELSE 0

QueuedIn(q, c) == Cardinality({i \in DOMAIN q : q[i] = c})
NamesIn(F, c) == Cardinality({p \in Readers \X Keys : c \in F[p[1]][p[2]]})

\* The bytes x has a hold on and has not unpickled.
Kept(x) == IF reading[x].at = "load" THEN reading[x].dict ELSE Blank

Dicts == [x \in Readers |-> cache[x].dict]
Holdings == [x \in Readers |-> Kept(x)]

Counted == \A c \in Embeds :
  refs[c] = Has(owned, c) + QueuedIn(box, c) + NamedIn(board, c)
              + NamesIn(Dicts, c) + NamesIn(Holdings, c) + Has(mut.pins, c)

\* A dict is kept only where its references are accounted for.
ViewShape(x) ==
  /\ ~cache[x].held => cache[x].dict = Blank
  /\ reading[x].at = "shown" => reading[x].dict = cache[x].dict
  /\ reading[x].at \in {"no", "build"} => reading[x].dict = Blank

MutShape ==
  /\ mut.at \notin {"commit", "drop"} => mut.pins = {}
  /\ mut.at # "commit" => mut.value = {}
  /\ mut.at = "commit" => mut.pins = mut.value \cap Embeds

RefsInv == /\ refs \in [Embeds -> Int] /\ Counted /\ MutShape
           /\ \A x \in Readers : ViewShape(x)

----------------------------------------------------------------------------
LEMMA FinitelyMany == IsFiniteSet(Readers) /\ IsFiniteSet(Keys)
                      /\ IsFiniteSet(Readers \X Keys)
<1>1. IsFiniteSet(Workers \union {Mutator})
  BY NoticeboardAssumption, FS_AddElement
<1>2. IsFiniteSet((Workers \union {Mutator}) \union {Main})
  BY <1>1, FS_AddElement
<1>3. Readers = (Workers \union {Mutator}) \union {Main}
  BY DEF Readers
<1>4. IsFiniteSet(Readers) /\ IsFiniteSet(Keys)
  BY <1>2, <1>3, NoticeboardAssumption
<1> QED BY <1>4, FS_Product

LEMMA NamedFacts ==
    ASSUME NEW d, NEW c
    PROVE  /\ NamedIn(d, c) \in Nat
           /\ (\E k \in Keys : c \in d[k]) => NamedIn(d, c) >= 1
<1>1. IsFiniteSet({k \in Keys : c \in d[k]})
  BY FinitelyMany, FS_Subset
<1>2. NamedIn(d, c) \in Nat
  BY <1>1, FS_CardinalityType DEF NamedIn
<1>3. (\E k \in Keys : c \in d[k]) => NamedIn(d, c) # 0
  BY <1>1, FS_EmptySet DEF NamedIn
<1> QED BY <1>2, <1>3

LEMMA NamedBlank ==
    ASSUME NEW c PROVE NamedIn(Blank, c) = 0
<1>1. {k \in Keys : c \in Blank[k]} = {}
  BY DEF Blank
<1> QED BY <1>1, FS_EmptySet DEF NamedIn

LEMMA NamedMoves ==
    ASSUME NEW d \in Boards, NEW k \in Keys, NEW v, NEW c
    PROVE  NamedIn([d EXCEPT ![k] = v], c) = NamedIn(d, c) - Has(d[k], c) + Has(v, c)
<1> DEFINE e == [d EXCEPT ![k] = v]
           R == {j \in Keys : j # k /\ c \in d[j]}
<1>1. e[k] = v /\ \A j \in Keys : j # k => e[j] = d[j]
  BY DEF Boards
<1>2. IsFiniteSet(R) /\ k \notin R
  BY FinitelyMany, FS_Subset
<1>3. Cardinality(R \union {k}) = Cardinality(R) + 1 /\ Cardinality(R) \in Nat
  BY <1>2, FS_AddElement, FS_CardinalityType
<1>4. NamedIn(d, c) = Cardinality(R) + Has(d[k], c)
  <2>1. CASE c \in d[k]
    <3>1. {j \in Keys : c \in d[j]} = R \union {k}
      BY <2>1
    <3>2. NamedIn(d, c) = Cardinality(R) + 1
      BY <1>3, <3>1 DEF NamedIn
    <3>3. Has(d[k], c) = 1
      BY <2>1 DEF Has
    <3> HIDE DEF R
    <3> QED BY <1>3, <3>2, <3>3
  <2>2. CASE c \notin d[k]
    <3>1. {j \in Keys : c \in d[j]} = R
      BY <2>2
    <3>2. NamedIn(d, c) = Cardinality(R)
      BY <3>1 DEF NamedIn
    <3>3. Has(d[k], c) = 0
      BY <2>2 DEF Has
    <3> HIDE DEF R
    <3> QED BY <1>3, <3>2, <3>3
  <2> QED BY <2>1, <2>2
<1>5. NamedIn(e, c) = Cardinality(R) + Has(v, c)
  <2>1. CASE c \in v
    <3>1. {j \in Keys : c \in e[j]} = R \union {k}
      BY <1>1, <2>1
    <3>2. NamedIn(e, c) = Cardinality(R) + 1
      BY <1>3, <3>1 DEF NamedIn
    <3>3. Has(v, c) = 1
      BY <2>1 DEF Has
    <3> HIDE DEF R
    <3> QED BY <1>3, <3>2, <3>3
  <2>2. CASE c \notin v
    <3>1. {j \in Keys : c \in e[j]} = R
      BY <1>1, <2>2
    <3>2. NamedIn(e, c) = Cardinality(R)
      BY <3>1 DEF NamedIn
    <3>3. Has(v, c) = 0
      BY <2>2 DEF Has
    <3> HIDE DEF R
    <3> QED BY <1>3, <3>2, <3>3
  <2> QED BY <2>1, <2>2
<1> HIDE DEF e, R
<1>6. Has(d[k], c) \in Nat /\ Has(v, c) \in Nat
  BY DEF Has
<1>7. NamedIn(e, c) = NamedIn(d, c) - Has(d[k], c) + Has(v, c)
  BY <1>3, <1>4, <1>5, <1>6
<1> QED BY <1>7 DEF e

LEMMA NamesFacts ==
    ASSUME NEW F, NEW c
    PROVE  /\ NamesIn(F, c) \in Nat
           /\ \A x \in Readers : (\E k \in Keys : c \in F[x][k]) => NamesIn(F, c) >= 1
<1>1. IsFiniteSet({p \in Readers \X Keys : c \in F[p[1]][p[2]]})
  BY FinitelyMany, FS_Subset
<1>2. NamesIn(F, c) \in Nat
  BY <1>1, FS_CardinalityType DEF NamesIn
<1>3. ASSUME NEW x \in Readers, NEW k \in Keys, c \in F[x][k]
      PROVE  NamesIn(F, c) # 0
  <2>1. <<x, k>> \in {p \in Readers \X Keys : c \in F[p[1]][p[2]]}
    BY <1>3
  <2> QED BY <1>1, <2>1, FS_EmptySet DEF NamesIn
<1> QED BY <1>2, <1>3

\* The entries of x, and those of the others.
LEMMA NamesSplit ==
    ASSUME NEW F, NEW c, NEW x \in Readers
    PROVE  /\ NamesIn(F, c) = NamedIn(F[x], c)
                + Cardinality({p \in Readers \X Keys : p[1] # x /\ c \in F[p[1]][p[2]]})
           /\ Cardinality({p \in Readers \X Keys : p[1] # x /\ c \in F[p[1]][p[2]]}) \in Nat
<1> DEFINE R == {p \in Readers \X Keys : p[1] # x /\ c \in F[p[1]][p[2]]}
           D == {k \in Keys : c \in F[x][k]}
           X == {x} \X D
<1>1. IsFiniteSet(R) /\ IsFiniteSet(D) /\ IsFiniteSet({x}) /\ Cardinality({x}) = 1
  BY FinitelyMany, FS_Subset, FS_Singleton
<1>2. Cardinality(R) \in Nat /\ Cardinality(D) \in Nat
  BY <1>1, FS_CardinalityType
<1>3. IsFiniteSet(X) /\ Cardinality(X) = 1 * Cardinality(D)
  BY <1>1, FS_Product
<1>4. R \cap X = {}
  OBVIOUS
<1>5. Cardinality(R \union X) = Cardinality(R) + Cardinality(X)
  <2>1. Cardinality(R \union X) = Cardinality(R) + Cardinality(X) - Cardinality(R \cap X)
    BY <1>1, <1>3, FS_Union
  <2>2. Cardinality(R \cap X) = 0
    BY <1>4, FS_EmptySet
  <2> QED BY <1>2, <1>3, <2>1, <2>2
<1>6. {p \in Readers \X Keys : c \in F[p[1]][p[2]]} = R \union X
  OBVIOUS
<1>7. NamesIn(F, c) = Cardinality(R \union X)
  BY <1>6 DEF NamesIn
<1>8. NamedIn(F[x], c) = Cardinality(D)
  BY DEF NamedIn
<1>9. NamesIn(F, c) = NamedIn(F[x], c) + Cardinality(R)
  <2> HIDE DEF R, X, D
  <2> QED BY <1>2, <1>3, <1>5, <1>7, <1>8
<1> QED BY <1>2, <1>9

LEMMA NamesMove ==
    ASSUME NEW F, NEW G, NEW c, NEW x \in Readers,
           \A y \in Readers : y # x => G[y] = F[y]
    PROVE  NamesIn(G, c) = NamesIn(F, c) - NamedIn(F[x], c) + NamedIn(G[x], c)
<1> DEFINE R(H) == {p \in Readers \X Keys : p[1] # x /\ c \in H[p[1]][p[2]]}
<1>1. R(F) = R(G)
  OBVIOUS
<1>2. /\ NamesIn(F, c) = NamedIn(F[x], c) + Cardinality(R(F))
      /\ NamesIn(G, c) = NamedIn(G[x], c) + Cardinality(R(G))
      /\ Cardinality(R(F)) \in Nat
  BY NamesSplit
<1>3. NamedIn(F[x], c) \in Nat /\ NamedIn(G[x], c) \in Nat
  BY NamedFacts
<1> HIDE DEF R
<1> QED BY <1>1, <1>2, <1>3

LEMMA QueuedFacts ==
    ASSUME NEW S, NEW q \in Seq(S), NEW c
    PROVE  /\ QueuedIn(q, c) \in Nat
           /\ (\E i \in DOMAIN q : q[i] = c) => QueuedIn(q, c) >= 1
           /\ q = <<>> => QueuedIn(q, c) = 0
<1>1. DOMAIN q = 1 .. Len(q) /\ Len(q) \in Nat
  OBVIOUS
<1>2. IsFiniteSet(1 .. Len(q))
  BY <1>1, FS_Interval
<1>3. IsFiniteSet({i \in DOMAIN q : q[i] = c})
  BY <1>1, <1>2, FS_Subset
<1>4. QueuedIn(q, c) \in Nat
  BY <1>3, FS_CardinalityType DEF QueuedIn
<1>5. (\E i \in DOMAIN q : q[i] = c) => QueuedIn(q, c) # 0
  BY <1>3, FS_EmptySet DEF QueuedIn
<1>6. ASSUME q = <<>> PROVE QueuedIn(q, c) = 0
  <2>1. {i \in DOMAIN q : q[i] = c} = {}
    BY <1>1, <1>6
  <2> QED BY <2>1, FS_EmptySet DEF QueuedIn
<1> QED BY <1>4, <1>5, <1>6

LEMMA QueuedAppend ==
    ASSUME NEW S, NEW q \in Seq(S), NEW m \in S, NEW c
    PROVE  QueuedIn(Append(q, m), c) = QueuedIn(q, c) + Has({m}, c)
<1> DEFINE R == {i \in DOMAIN q : q[i] = c}
           a == Append(q, m)
<1>1. /\ DOMAIN q = 1 .. Len(q) /\ Len(q) \in Nat
      /\ DOMAIN a = 1 .. Len(q) + 1
      /\ a[Len(q) + 1] = m /\ \A i \in 1 .. Len(q) : a[i] = q[i]
  OBVIOUS
<1>2. IsFiniteSet(1 .. Len(q))
  BY <1>1, FS_Interval
<1>3. IsFiniteSet(R) /\ Len(q) + 1 \notin R
  BY <1>1, <1>2, FS_Subset
<1>4. Cardinality(R \union {Len(q) + 1}) = Cardinality(R) + 1 /\ Cardinality(R) \in Nat
  BY <1>3, FS_AddElement, FS_CardinalityType
<1>5. QueuedIn(q, c) = Cardinality(R)
  BY DEF QueuedIn
<1>6. CASE m = c
  <2>1. {i \in DOMAIN a : a[i] = c} = R \union {Len(q) + 1}
    BY <1>1, <1>6
  <2>2. QueuedIn(a, c) = Cardinality(R) + 1
    BY <1>4, <2>1 DEF QueuedIn
  <2>3. Has({m}, c) = 1
    BY <1>6 DEF Has
  <2> QED BY <1>5, <2>2, <2>3
<1>7. CASE m # c
  <2>1. {i \in DOMAIN a : a[i] = c} = R
    BY <1>1, <1>7
  <2>2. QueuedIn(a, c) = Cardinality(R)
    BY <2>1 DEF QueuedIn
  <2>3. Has({m}, c) = 0
    BY <1>7 DEF Has
  <2> HIDE DEF R, a
  <2>4. QueuedIn(a, c) = QueuedIn(q, c) + Has({m}, c)
    BY <1>4, <1>5, <2>2, <2>3
  <2> QED BY <2>4 DEF a
<1> QED BY <1>6, <1>7

LEMMA QueuedTail ==
    ASSUME NEW S, NEW q \in Seq(S), q # <<>>, NEW c
    PROVE  QueuedIn(Tail(q), c) = QueuedIn(q, c) - Has({Head(q)}, c)
<1> DEFINE n == Len(q)
           T == {i \in 1 .. n - 1 : q[i + 1] = c}
           R == {i \in 2 .. n : q[i] = c}
           f == [i \in T |-> i + 1]
<1>1. /\ DOMAIN q = 1 .. n /\ n \in Nat \ {0} /\ Head(q) = q[1]
      /\ DOMAIN Tail(q) = 1 .. n - 1 /\ \A i \in 1 .. n - 1 : Tail(q)[i] = q[i + 1]
  OBVIOUS
<1>2. IsFiniteSet(1 .. n - 1) /\ IsFiniteSet(2 .. n)
  BY <1>1, FS_Interval
<1>3. IsFiniteSet(T) /\ IsFiniteSet(R) /\ 1 \notin R
  BY <1>1, <1>2, FS_Subset
<1>4. Cardinality(R \union {1}) = Cardinality(R) + 1 /\ Cardinality(R) \in Nat
  BY <1>3, FS_AddElement, FS_CardinalityType
<1>5. Cardinality(T) = Cardinality(R)
  <2>1. f \in [T -> R]
    BY <1>1
  <2>2. \A i, j \in T : f[i] = f[j] => i = j
    BY <1>1
  <2>3. ASSUME NEW j \in R PROVE \E i \in T : f[i] = j
    <3>1. j - 1 \in T /\ (j - 1) + 1 = j
      BY <1>1
    <3> QED BY <3>1
  <2>4. f \in Bijection(T, R)
    BY <2>1, <2>2, <2>3, Fun_IsBij
  <2>5. ExistsBijection(T, R)
    BY <2>4, Fun_ExistsBij
  <2> QED BY <1>3, <2>5, FS_Bijection
<1>6. QueuedIn(Tail(q), c) = Cardinality(R)
  <2>1. {i \in DOMAIN Tail(q) : Tail(q)[i] = c} = T
    BY <1>1
  <2> QED BY <1>5, <2>1 DEF QueuedIn
<1>7. CASE Head(q) = c
  <2>1. {i \in DOMAIN q : q[i] = c} = R \union {1}
    BY <1>1, <1>7
  <2>2. QueuedIn(q, c) = Cardinality(R) + 1
    BY <1>4, <2>1 DEF QueuedIn
  <2>3. Has({Head(q)}, c) = 1
    BY <1>7 DEF Has
  <2> HIDE DEF R
  <2> QED BY <1>4, <1>6, <2>2, <2>3
<1>8. CASE Head(q) # c
  <2>1. {i \in DOMAIN q : q[i] = c} = R
    BY <1>1, <1>8
  <2>2. QueuedIn(q, c) = Cardinality(R)
    BY <2>1 DEF QueuedIn
  <2>3. Has({Head(q)}, c) = 0
    BY <1>8 DEF Has
  <2> HIDE DEF R
  <2> QED BY <1>4, <1>6, <2>2, <2>3
<1> QED BY <1>7, <1>8
----------------------------------------------------------------------------
\* What a step of x does to the names in caches and in bytes being read.
LEMMA ViewNames ==
    ASSUME NEW x \in Readers, OthersKept(x), NEW c
    PROVE  /\ NamesIn(Dicts, c)' = NamesIn(Dicts, c) - NamedIn(cache[x].dict, c)
                                     + NamedIn(cache'[x].dict, c)
           /\ NamesIn(Holdings, c)' = NamesIn(Holdings, c) - NamedIn(Kept(x), c)
                                        + NamedIn(Kept(x)', c)
<1>1. PICK F : F = Dicts
  OBVIOUS
<1>2. PICK G : G = [y \in Readers |-> cache'[y].dict]
  OBVIOUS
<1>3. \A y \in Readers : F[y] = cache[y].dict /\ G[y] = cache'[y].dict
  BY <1>1, <1>2 DEF Dicts
<1>4. \A y \in Readers : y # x => G[y] = F[y]
  BY <1>3 DEF OthersKept, SameView
<1>5. NamesIn(G, c) = NamesIn(F, c) - NamedIn(F[x], c) + NamedIn(G[x], c)
  BY <1>4, NamesMove
<1>6. G = Dicts'
  BY <1>2 DEF Dicts
<1>7. NamesIn(Dicts, c)' = NamesIn(G, c)
  BY <1>6
<1>8. PICK H : H = Holdings
  OBVIOUS
<1>9. PICK J : J = [y \in Readers |-> Kept(y)']
  OBVIOUS
<1>10. \A y \in Readers : H[y] = Kept(y) /\ J[y] = Kept(y)'
  BY <1>8, <1>9 DEF Holdings
<1>11. \A y \in Readers : y # x => J[y] = H[y]
  BY <1>10 DEF OthersKept, SameView, Kept
<1>12. NamesIn(J, c) = NamesIn(H, c) - NamedIn(H[x], c) + NamedIn(J[x], c)
  BY <1>11, NamesMove
<1>13. J = Holdings'
  BY <1>9 DEF Holdings
<1>14. NamesIn(Holdings, c)' = NamesIn(J, c)
  BY <1>13
<1> QED BY <1>1, <1>3, <1>5, <1>7, <1>8, <1>10, <1>12, <1>14

\* All the terms of the sum are numbers.
LEMMA Terms ==
    ASSUME Typed, NEW c
    PROVE  /\ QueuedIn(box, c) \in Nat /\ NamedIn(board, c) \in Nat
           /\ NamesIn(Dicts, c) \in Nat /\ NamesIn(Holdings, c) \in Nat
           /\ Has(owned, c) \in Nat /\ Has(mut.pins, c) \in Nat
           /\ \A d : NamedIn(d, c) \in Nat
           /\ \A S : Has(S, c) \in Nat
<1>1. QueuedIn(box, c) \in Nat
  BY QueuedFacts DEF Typed
<1>2. \A S : Has(S, c) \in Nat
  BY DEF Has
<1> QED BY <1>1, <1>2, NamedFacts, NamesFacts

LEMMA Sum ==
    ASSUME RefsInv, NEW c \in Embeds
    PROVE  /\ refs[c] = Has(owned, c) + QueuedIn(box, c) + NamedIn(board, c)
                          + NamesIn(Dicts, c) + NamesIn(Holdings, c) + Has(mut.pins, c)
           /\ refs[c] \in Int
BY DEF RefsInv, Counted

LEMMA LookCounted ==
    ASSUME Typed, RefsInv, NEW x \in Readers, Look(x)
    PROVE  RefsInv'
<1>1. /\ UNCHANGED <<box, board, owned, mut>> /\ OthersKept(x) /\ reading[x].at = "no"
  BY LookFields DEF Look
<1>2. reading[x].dict = Blank /\ Kept(x) = Blank
  BY <1>1 DEF RefsInv, ViewShape, Kept
<1>3. /\ reading'[x].at # "load"
      /\ \/ /\ refs' = refs
            /\ cache'[x].dict = cache[x].dict /\ cache'[x].held
            /\ reading'[x].at = "shown" /\ reading'[x].dict = cache[x].dict
         \/ /\ refs' = DecrefDict(cache[x].dict)
            /\ cache'[x].dict = Blank
            /\ reading'[x].at = "build" /\ reading'[x].dict = Blank
  <2>1. CASE IsFresh(x)
    <3>1. refs' = refs
      BY <2>1 DEF Look
    <3> QED BY <2>1, <3>1, LookFields
  <2>2. CASE ~IsFresh(x)
    <3>1. /\ refs' = DecrefDict(cache[x].dict) /\ cache' = [cache EXCEPT ![x] = NoCache]
          /\ reading' = [reading EXCEPT ![x] = [reading[x] EXCEPT !.at = "build"]]
      BY <2>2 DEF Look
    <3>2. cache'[x].dict = Blank
      BY <3>1 DEF Typed, NoCache
    <3>3. reading'[x].at = "build" /\ reading'[x].dict = reading[x].dict
      BY <3>1 DEF Typed, Reads
    <3> QED BY <1>2, <3>1, <3>2, <3>3
  <2> QED BY <2>1, <2>2
<1>4. Kept(x)' = Blank
  BY <1>3 DEF Kept
<1>5. refs' \in [Embeds -> Int]
  BY <1>3, NamedFacts DEF RefsInv, DecrefDict
<1>6. ASSUME NEW c \in Embeds
      PROVE  refs'[c] = Has(owned, c) + QueuedIn(box, c) + NamedIn(board, c)
                          + NamesIn(Dicts, c)' + NamesIn(Holdings, c)' + Has(mut.pins, c)
  <2>1. NamesIn(Holdings, c)' = NamesIn(Holdings, c)
    BY <1>1, <1>2, <1>4, ViewNames, NamedBlank, Terms
  <2>2. NamesIn(Dicts, c)' = NamesIn(Dicts, c) - NamedIn(cache[x].dict, c)
                               + NamedIn(cache'[x].dict, c)
    BY <1>1, ViewNames
  <2>3. refs'[c] = refs[c] - NamedIn(cache[x].dict, c) + NamedIn(cache'[x].dict, c)
    <3>1. refs[c] \in Int /\ NamedIn(cache[x].dict, c) \in Nat
      BY Terms DEF RefsInv
    <3>2. CASE refs' = refs /\ cache'[x].dict = cache[x].dict
      BY <3>1, <3>2
    <3>3. CASE refs' = DecrefDict(cache[x].dict) /\ cache'[x].dict = Blank
      BY <3>1, <3>3, NamedBlank DEF DecrefDict
    <3> QED BY <1>3, <3>2, <3>3
  <2>4. refs[c] = Has(owned, c) + QueuedIn(box, c) + NamedIn(board, c)
                    + NamesIn(Dicts, c) + NamesIn(Holdings, c) + Has(mut.pins, c)
    BY DEF RefsInv, Counted
  <2> QED BY <2>1, <2>2, <2>3, <2>4, Terms
<1>7. Counted'
  BY <1>1, <1>6 DEF Counted
<1>8. MutShape'
  BY <1>1 DEF RefsInv, MutShape
<1>9. \A y \in Readers : ViewShape(y)'
  BY <1>1, <1>3 DEF RefsInv, ViewShape, OthersKept, SameView
<1> QED BY <1>5, <1>7, <1>8, <1>9 DEF RefsInv

LEMMA BuildCounted ==
    ASSUME Typed, RefsInv, NEW x \in Readers, Build(x)
    PROVE  RefsInv'
<1>1. /\ UNCHANGED <<box, board, owned, mut, cache>> /\ OthersKept(x)
      /\ reading[x].at = "build" /\ reading'[x].at = "load" /\ reading'[x].dict = board
      /\ refs' = WithKeepalive
  BY BuildFields DEF Build
<1>2. Kept(x) = Blank /\ Kept(x)' = board
  BY <1>1 DEF Kept
<1>3. refs' \in [Embeds -> Int]
  BY <1>1, NamedFacts DEF RefsInv, WithKeepalive
<1>4. ASSUME NEW c \in Embeds
      PROVE  refs'[c] = Has(owned, c) + QueuedIn(box, c) + NamedIn(board, c)
                          + NamesIn(Dicts, c)' + NamesIn(Holdings, c)' + Has(mut.pins, c)
  <2>1. NamesIn(Holdings, c)' = NamesIn(Holdings, c) + NamedIn(board, c)
    BY <1>1, <1>2, ViewNames, NamedBlank, Terms
  <2>2. NamesIn(Dicts, c)' = NamesIn(Dicts, c)
    BY <1>1 DEF Dicts
  <2>3. refs'[c] = refs[c] + NamedIn(board, c) /\ refs[c] \in Int
    BY <1>1 DEF RefsInv, WithKeepalive
  <2>4. refs[c] = Has(owned, c) + QueuedIn(box, c) + NamedIn(board, c)
                    + NamesIn(Dicts, c) + NamesIn(Holdings, c) + Has(mut.pins, c)
    BY DEF RefsInv, Counted
  <2> QED BY <2>1, <2>2, <2>3, <2>4, Terms
<1>5. Counted'
  BY <1>1, <1>4 DEF Counted
<1>6. MutShape'
  BY <1>1 DEF RefsInv, MutShape
<1>7. \A y \in Readers : ViewShape(y)'
  BY <1>1 DEF RefsInv, ViewShape, OthersKept, SameView
<1> QED BY <1>3, <1>5, <1>6, <1>7 DEF RefsInv

LEMMA LoadCounted ==
    ASSUME IInv, RefsInv, NEW x \in Readers, Load(x)
    PROVE  RefsInv'
<1>0. Typed
  BY DEF IInv
<1>1. /\ UNCHANGED <<box, board, owned, mut, refs>> /\ OthersKept(x)
      /\ reading[x].at = "load" /\ reading'[x].at = "shown"
      /\ reading'[x].dict = reading[x].dict
      /\ cache'[x].held /\ cache'[x].dict = reading[x].dict
  BY <1>0, LoadFields DEF Load
<1>2. cache[x].dict = Blank
  BY <1>1 DEF IInv, Views, ReadingView, RefsInv, ViewShape
<1>3. Kept(x) = reading[x].dict /\ Kept(x)' = Blank
  BY <1>1 DEF Kept
<1>4. ASSUME NEW c \in Embeds
      PROVE  refs[c] = Has(owned, c) + QueuedIn(box, c) + NamedIn(board, c)
                         + NamesIn(Dicts, c)' + NamesIn(Holdings, c)' + Has(mut.pins, c)
  <2>1. NamesIn(Holdings, c)' = NamesIn(Holdings, c) - NamedIn(reading[x].dict, c)
    BY <1>0, <1>1, <1>3, ViewNames, NamedBlank, Terms
  <2>2. NamesIn(Dicts, c)' = NamesIn(Dicts, c) + NamedIn(reading[x].dict, c)
    BY <1>0, <1>1, <1>2, ViewNames, NamedBlank, Terms
  <2>3. refs[c] = Has(owned, c) + QueuedIn(box, c) + NamedIn(board, c)
                    + NamesIn(Dicts, c) + NamesIn(Holdings, c) + Has(mut.pins, c)
    BY DEF RefsInv, Counted
  <2> QED BY <1>0, <2>1, <2>2, <2>3, Terms
<1>5. Counted'
  BY <1>1, <1>4 DEF Counted
<1>6. MutShape'
  BY <1>1 DEF RefsInv, MutShape
<1>7. \A y \in Readers : ViewShape(y)'
  BY <1>1 DEF RefsInv, ViewShape, OthersKept, SameView
<1> QED BY <1>1, <1>5, <1>6, <1>7 DEF RefsInv

\* The end of a read: what x has a hold on is let go of.
LEMMA EndNames ==
    ASSUME Typed, RefsInv, NEW x \in Readers, NEW c,
           reading' = [reading EXCEPT ![x] = NotReading],
           cache' = cache \/ cache' = ReArmed(x)
    PROVE  /\ NamesIn(Dicts, c)' = NamesIn(Dicts, c)
           /\ NamesIn(Holdings, c)' = NamesIn(Holdings, c) - NamedIn(Kept(x), c)
           /\ \A y \in Readers : ViewShape(y)'
<1>1. /\ \A y \in Readers : y # x => reading'[y] = reading[y] /\ cache'[y] = cache[y]
      /\ reading'[x].at = "no" /\ reading'[x].dict = Blank
      /\ cache'[x].dict = cache[x].dict /\ (cache'[x].held <=> cache[x].held)
  <2>1. \A y \in Readers : y # x => reading'[y] = reading[y]
    BY DEF Typed
  <2>2. reading'[x] = NotReading
    BY DEF Typed
  <2>3. /\ \A y \in Readers : y # x => cache'[y] = cache[y]
        /\ cache'[x].dict = cache[x].dict /\ (cache'[x].held <=> cache[x].held)
    BY ReArmFields
  <2> QED BY <2>1, <2>2, <2>3 DEF NotReading
<1>2. OthersKept(x)
  BY <1>1 DEF OthersKept, SameView
<1>3. Kept(x)' = Blank
  BY <1>1 DEF Kept
<1>4. NamesIn(Dicts, c)' = NamesIn(Dicts, c)
  BY <1>1, <1>2, ViewNames, Terms
<1>5. NamesIn(Holdings, c)' = NamesIn(Holdings, c) - NamedIn(Kept(x), c)
  BY <1>2, <1>3, ViewNames, NamedBlank, Terms
<1>6. \A y \in Readers : ViewShape(y)'
  BY <1>1 DEF RefsInv, ViewShape
<1> QED BY <1>4, <1>5, <1>6

LEMMA ShownNames ==
    ASSUME Typed, RefsInv, NEW x \in Readers, NEW c, reading[x].at # "load",
           reading' = [reading EXCEPT ![x] = NotReading],
           cache' = cache \/ cache' = ReArmed(x)
    PROVE  /\ NamesIn(Dicts, c)' = NamesIn(Dicts, c)
           /\ NamesIn(Holdings, c)' = NamesIn(Holdings, c)
           /\ \A y \in Readers : ViewShape(y)'
<1>1. Kept(x) = Blank
  BY DEF Kept
<1>2. NamedIn(Kept(x), c) = 0
  BY <1>1, NamedBlank
<1>3. NamesIn(Holdings, c)' = NamesIn(Holdings, c) - NamedIn(Kept(x), c)
  BY EndNames
<1>4. NamesIn(Holdings, c) \in Nat
  BY Terms
<1>5. NamesIn(Holdings, c)' = NamesIn(Holdings, c)
  BY <1>2, <1>3, <1>4
<1> QED BY <1>5, EndNames

\* No dict is touched.
LEMMA SameNames ==
    ASSUME Typed, RefsInv, NEW x \in Readers, NEW c,
           reading' = reading, cache' = cache \/ cache' = ReArmed(x)
    PROVE  /\ NamesIn(Dicts, c)' = NamesIn(Dicts, c)
           /\ NamesIn(Holdings, c)' = NamesIn(Holdings, c)
           /\ \A y \in Readers : ViewShape(y)'
<1>1. /\ \A y \in Readers : y # x => cache'[y] = cache[y]
      /\ cache'[x].dict = cache[x].dict /\ (cache'[x].held <=> cache[x].held)
  BY ReArmFields
<1>2. OthersKept(x) /\ Kept(x)' = Kept(x)
  BY <1>1 DEF OthersKept, SameView, Kept
<1>3. NamesIn(Dicts, c)' = NamesIn(Dicts, c)
  BY <1>1, <1>2, ViewNames, Terms
<1>4. NamesIn(Holdings, c)' = NamesIn(Holdings, c)
  BY <1>2, ViewNames, Terms
<1>5. \A y \in Readers : ViewShape(y)'
  BY <1>1 DEF RefsInv, ViewShape
<1> QED BY <1>3, <1>4, <1>5

LEMMA RefsMove ==
    ASSUME RefsInv
    PROVE  /\ \A S : /\ Incref(S) \in [Embeds -> Int] /\ Decref(S) \in [Embeds -> Int]
                     /\ \A c \in Embeds : /\ Incref(S)[c] = refs[c] + Has(S, c)
                                          /\ Decref(S)[c] = refs[c] - Has(S, c)
           /\ \A d : /\ DecrefDict(d) \in [Embeds -> Int]
                     /\ \A c \in Embeds : DecrefDict(d)[c] = refs[c] - NamedIn(d, c)
<1>1. refs \in [Embeds -> Int]
  BY DEF RefsInv
<1>2. ASSUME NEW S
      PROVE  /\ Incref(S) \in [Embeds -> Int] /\ Decref(S) \in [Embeds -> Int]
             /\ \A c \in Embeds : /\ Incref(S)[c] = refs[c] + Has(S, c)
                                  /\ Decref(S)[c] = refs[c] - Has(S, c)
  BY <1>1 DEF Incref, Decref, Has
<1>3. ASSUME NEW d
      PROVE  /\ DecrefDict(d) \in [Embeds -> Int]
             /\ \A c \in Embeds : DecrefDict(d)[c] = refs[c] - NamedIn(d, c)
  BY <1>1, NamedFacts DEF DecrefDict
<1> QED BY <1>2, <1>3

LEMMA WorkerCounted ==
    ASSUME IInv, RefsInv, NEW w \in Workers, WorkerStep(w)
    PROVE  RefsInv'
<1>0. Typed /\ w \in Readers
  BY ReadersDiffer DEF IInv
<1>1. CASE Read(w) \/ Build(w) \/ Load(w)
  BY <1>0, <1>1, LookCounted, BuildCounted, LoadCounted DEF Read
<1>2. CASE IsShown(w)
  <2>1. /\ reading[w].at = "shown" /\ reading' = [reading EXCEPT ![w] = NotReading]
        /\ UNCHANGED <<box, board, refs, owned, cache, mut>>
    BY <1>2 DEF IsShown
  <2>2. reading[w].at # "load"
    BY <2>1
  <2>3. ASSUME NEW c
        PROVE  NamesIn(Dicts, c)' = NamesIn(Dicts, c) /\ NamesIn(Holdings, c)' = NamesIn(Holdings, c)
    BY <1>0, <2>1, <2>2, ShownNames
  <2>4. \A y \in Readers : ViewShape(y)'
    BY <1>0, <2>1, <2>2, ShownNames
  <2> QED BY <2>1, <2>3, <2>4 DEF RefsInv, Counted, MutShape
<1>3. CASE LoadFails(w)
  <2>1. /\ reading[w].at = "load" /\ reading' = [reading EXCEPT ![w] = NotReading]
        /\ refs' = DecrefDict(reading[w].dict)
        /\ UNCHANGED <<box, board, owned, cache, mut>>
    BY <1>3 DEF LoadFails
  <2>2. Kept(w) = reading[w].dict
    BY <2>1 DEF Kept
  <2>3. ASSUME NEW c \in Embeds
        PROVE  refs'[c] = Has(owned, c) + QueuedIn(box, c) + NamedIn(board, c)
                            + NamesIn(Dicts, c)' + NamesIn(Holdings, c)' + Has(mut.pins, c)
    <3>1. /\ NamesIn(Dicts, c)' = NamesIn(Dicts, c)
          /\ NamesIn(Holdings, c)' = NamesIn(Holdings, c) - NamedIn(reading[w].dict, c)
      BY <1>0, <2>1, <2>2, EndNames
    <3>2. refs'[c] = refs[c] - NamedIn(reading[w].dict, c)
      BY <2>1, RefsMove
    <3> QED BY <1>0, Sum, <3>1, <3>2, Terms
  <2>4. \A y \in Readers : ViewShape(y)'
    BY <1>0, <2>1, EndNames
  <2>5. Counted'
    BY <2>1, <2>3 DEF Counted
  <2> QED BY <2>1, <2>4, <2>5, RefsMove DEF RefsInv, MutShape
<1>4. CASE Notify(w)
  <2>1. PICK n : n = Program[w][work[w].i]
    OBVIOUS
  <2>2. /\ box' = Append(box, n) /\ refs' = Incref({n})
        /\ UNCHANGED <<board, owned, cache, reading, mut>>
    BY <1>4, <2>1 DEF Notify
  <2>3. n \in Notices \union {"shutdown"}
    <3>1. Program[w] \in Seq(Notices)
      BY NoticeboardAssumption
    <3>2. work[w].i \in 1..Len(Program[w])
      BY <1>4, <3>1 DEF Notify, InBehavior, IInv, Posts
    <3> QED BY <2>1, <3>1, <3>2
  <2>4. ASSUME NEW c \in Embeds
        PROVE  refs'[c] = Has(owned, c) + QueuedIn(box', c) + NamedIn(board, c)
                            + NamesIn(Dicts, c)' + NamesIn(Holdings, c)' + Has(mut.pins, c)
    <3>1. /\ NamesIn(Dicts, c)' = NamesIn(Dicts, c)
          /\ NamesIn(Holdings, c)' = NamesIn(Holdings, c)
      BY <1>0, <2>2, SameNames
    <3>2. refs'[c] = refs[c] + Has({n}, c)
      BY <2>2, RefsMove
    <3>3. box \in Seq(Notices \union {"shutdown"})
      BY <1>0 DEF Typed
    <3>5. QueuedIn(box', c) = QueuedIn(box, c) + Has({n}, c)
      BY <2>2, <2>3, <3>3, QueuedAppend
    <3> QED BY <1>0, Sum, <3>1, <3>2, <3>5, Terms
  <2>5. \A y \in Readers : ViewShape(y)'
    BY <1>0, <2>2, SameNames
  <2>6. Counted'
    BY <2>2, <2>4 DEF Counted
  <2> QED BY <2>2, <2>5, <2>6, RefsMove DEF RefsInv, MutShape
<1>5. CASE NextBehavior(w)
  <2>1. cache' = ReArmed(w) /\ UNCHANGED <<box, board, refs, owned, reading, mut>>
    BY <1>5 DEF NextBehavior
  <2>2. ASSUME NEW c
        PROVE  NamesIn(Dicts, c)' = NamesIn(Dicts, c) /\ NamesIn(Holdings, c)' = NamesIn(Holdings, c)
    BY <1>0, <2>1, SameNames
  <2>3. \A y \in Readers : ViewShape(y)'
    BY <1>0, <2>1, SameNames
  <2> QED BY <2>1, <2>2, <2>3 DEF RefsInv, Counted, MutShape
<1> QED BY <1>1, <1>2, <1>3, <1>4, <1>5 DEF WorkerStep

LEMMA ForgetCounted ==
    ASSUME IInv, RefsInv, NEW d \in Embeds, Forget(d)
    PROVE  RefsInv'
<1>0. Typed /\ Main \in Readers
  BY ReadersDiffer DEF IInv
<1>1. /\ d \in owned /\ owned' = owned \ {d} /\ refs' = Decref({d})
      /\ UNCHANGED <<box, board, cache, reading, mut>>
  BY DEF Forget
<1>2. ASSUME NEW c \in Embeds
      PROVE  refs'[c] = Has(owned', c) + QueuedIn(box, c) + NamedIn(board, c)
                          + NamesIn(Dicts, c)' + NamesIn(Holdings, c)' + Has(mut.pins, c)
  <2>1. /\ NamesIn(Dicts, c)' = NamesIn(Dicts, c)
        /\ NamesIn(Holdings, c)' = NamesIn(Holdings, c)
    BY <1>0, <1>1, SameNames
  <2>2. refs'[c] = refs[c] - Has({d}, c)
    BY <1>1, RefsMove
  <2>3. Has(owned', c) = Has(owned, c) - Has({d}, c)
    BY <1>1 DEF Has
  <2>4. /\ refs[c] = Has(owned, c) + QueuedIn(box, c) + NamedIn(board, c)
                       + NamesIn(Dicts, c) + NamesIn(Holdings, c) + Has(mut.pins, c)
    BY DEF RefsInv, Counted
  <2> QED BY <1>0, <2>1, <2>2, <2>3, <2>4, Terms
<1>3. \A y \in Readers : ViewShape(y)'
  BY <1>0, <1>1, SameNames
<1>4. Counted'
  BY <1>1, <1>2 DEF Counted
<1> QED BY <1>1, <1>3, <1>4, RefsMove DEF RefsInv, MutShape

LEMMA CycleCounted ==
    ASSUME IInv, RefsInv, CycleStep
    PROVE  RefsInv'
<1>0. Typed /\ Main \in Readers
  BY ReadersDiffer DEF IInv
<1>1. CASE CycleReads \/ Build(Main) \/ Load(Main)
  BY <1>0, <1>1, LookCounted, BuildCounted, LoadCounted DEF CycleReads
<1>2. CASE CycleSends
  <2>1. /\ box' = Append(box, "shutdown")
        /\ UNCHANGED <<board, refs, owned, cache, reading, mut>>
    BY <1>2 DEF CycleSends
  <2>2. ASSUME NEW c \in Embeds PROVE QueuedIn(box', c) = QueuedIn(box, c)
    <3>1. "shutdown" # c
      BY NoticeboardAssumption
    <3>2. Has({"shutdown"}, c) = 0
      BY <3>1 DEF Has
    <3>3. box \in Seq(Notices \union {"shutdown"})
      BY <1>0 DEF Typed
    <3>4. QueuedIn(box', c) = QueuedIn(box, c) + Has({"shutdown"}, c)
      BY <2>1, <3>3, QueuedAppend
    <3>5. QueuedIn(box, c) \in Nat
      BY <1>0, Terms
    <3> QED BY <3>2, <3>4, <3>5
  <2>3. ASSUME NEW c
        PROVE  NamesIn(Dicts, c)' = NamesIn(Dicts, c) /\ NamesIn(Holdings, c)' = NamesIn(Holdings, c)
    BY <1>0, <2>1, SameNames
  <2>4. \A y \in Readers : ViewShape(y)'
    BY <1>0, <2>1, SameNames
  <2> QED BY <2>1, <2>2, <2>3, <2>4 DEF RefsInv, Counted, MutShape
<1>3. CASE CycleTimesOut \/ CycleJoins \/ CycleFindsNobody
  <2>1. /\ cache' = cache \/ cache' = ReArmed(Main)
        /\ UNCHANGED <<box, board, refs, owned, reading, mut>>
    BY <1>3 DEF CycleTimesOut, CycleJoins, CycleFindsNobody
  <2>2. ASSUME NEW c
        PROVE  NamesIn(Dicts, c)' = NamesIn(Dicts, c) /\ NamesIn(Holdings, c)' = NamesIn(Holdings, c)
    BY <1>0, <2>1, SameNames
  <2>3. \A y \in Readers : ViewShape(y)'
    BY <1>0, <2>1, SameNames
  <2> QED BY <2>1, <2>2, <2>3 DEF RefsInv, Counted, MutShape
<1>4. CASE CycleReturns
  <2>1. /\ reading[Main].at = "shown" /\ reading' = [reading EXCEPT ![Main] = NotReading]
        /\ UNCHANGED <<box, board, refs, owned, cache>>
    BY <1>4 DEF CycleReturns
  <2>2. reading[Main].at # "load"
    BY <2>1
  <2>3. ASSUME NEW c
        PROVE  NamesIn(Dicts, c)' = NamesIn(Dicts, c) /\ NamesIn(Holdings, c)' = NamesIn(Holdings, c)
    BY <1>0, <2>1, <2>2, ShownNames
  <2>4. \A y \in Readers : ViewShape(y)'
    BY <1>0, <2>1, <2>2, ShownNames
  <2>5. mut'.pins = mut.pins /\ MutShape'
    <3>1. CASE mut' = mut
      BY <3>1 DEF RefsInv, MutShape
    <3>2. CASE mut' = [mut EXCEPT !.at = "receive"] /\ cycle.at = "snapshot"
      <4>1. mut.at = "dead"
        BY <3>2 DEF IInv, Locals, Asking
      <4>2. mut'.at = "receive" /\ mut'.pins = mut.pins /\ mut'.value = mut.value
        BY <1>0, <3>2 DEF Typed
      <4> QED BY <4>1, <4>2 DEF RefsInv, MutShape
    <3> QED BY <1>4, <3>1, <3>2 DEF CycleReturns
  <2> QED BY <2>1, <2>3, <2>4, <2>5 DEF RefsInv, Counted
<1> QED BY <1>1, <1>2, <1>3, <1>4 DEF CycleStep

\* What a commit does to the entries and the pins.
LEMMA CommitNames ==
    ASSUME IInv, RefsInv, Commit, NEW c \in Embeds
    PROVE  NamedIn(board', c) + Has(mut'.pins, c) = NamedIn(board, c) + Has(mut.pins, c)
<1>0. Typed
  BY DEF IInv
<1>1. PICK k : k = Key[mut.n]
  OBVIOUS
<1>2. k \in Keys /\ board \in Boards
  <2>1. mut.n \in Notices
    BY <1>0 DEF Commit, Typed, Busy
  <2> QED BY <1>0, <1>1, <2>1, NoticeboardAssumption DEF Typed
<1>3. mut'.pins = Leftover(k) /\ mut.pins = mut.value \cap Embeds
  BY <1>0, <1>1 DEF Commit, Typed, RefsInv, MutShape
<1>4. /\ NamedIn(board, c) \in Nat /\ NamedIn(board', c) \in Nat
      /\ \A S : Has(S, c) \in Nat
  BY <1>0, NamedFacts, Terms
<1>5. \A S : Has(S \cap Embeds, c) = Has(S, c)
  BY DEF Has
<1>6. \A v : NamedIn([board EXCEPT ![k] = v], c) = NamedIn(board, c) - Has(board[k], c) + Has(v, c)
  BY <1>2, NamedMoves
<1>7. CASE mut.value # {} /\ IsFull(k)
  <2>1. board' = board /\ mut'.pins = mut.pins
    BY <1>1, <1>3, <1>7 DEF Commit, Leftover
  <2> QED BY <2>1
<1>8. CASE ~(mut.value # {} /\ IsFull(k))
  <2>1. board' = [board EXCEPT ![k] = mut.value] /\ mut'.pins = board[k] \cap Embeds
    BY <1>1, <1>3, <1>8 DEF Commit, Leftover
  <2>2. NamedIn(board', c) = NamedIn(board, c) - Has(board[k], c) + Has(mut.value, c)
    BY <1>6, <2>1
  <2>3. Has(mut'.pins, c) = Has(board[k], c) /\ Has(mut.pins, c) = Has(mut.value, c)
    BY <1>3, <1>5, <2>1
  <2>4. Has(board[k], c) \in Nat /\ Has(mut.value, c) \in Nat
    BY <1>4
  <2> QED BY <1>4, <2>2, <2>3, <2>4
<1> QED BY <1>7, <1>8

LEMMA ReceiveCounted ==
    ASSUME IInv, RefsInv, Receive
    PROVE  RefsInv'
<1>0. Typed /\ Mutator \in Readers
  BY ReadersDiffer DEF IInv
<1>1. PICK n : n = Head(box)
  OBVIOUS
<1>2. /\ mut.at = "receive" /\ box # <<>> /\ n # "shutdown" /\ box' = Tail(box)
      /\ mut' = [mut EXCEPT !.n = n, !.pins = {n} \cap Embeds,
                            !.value = IF Kind[n] = "write" THEN {n} ELSE {},
                            !.at = IF Kind[n] = "update" THEN "read" ELSE "commit"]
      /\ cache' = cache \/ cache' = ReArmed(Mutator)
      /\ UNCHANGED <<board, refs, owned, reading>>
  BY <1>1 DEF Receive
<1>3. box \in Seq(Notices \union {"shutdown"})
  BY <1>0 DEF Typed
<1>4. n \in Notices
  BY <1>1, <1>2, <1>3
<1>5. /\ mut'.pins = {n} \cap Embeds
      /\ mut'.value = IF Kind[n] = "write" THEN {n} ELSE {}
      /\ mut'.at = IF Kind[n] = "update" THEN "read" ELSE "commit"
  BY <1>0, <1>2 DEF Typed
<1>6. n \in Embeds => Kind[n] = "write"
  BY NoticeboardAssumption
<1>7. mut.pins = {}
  BY <1>2 DEF RefsInv, MutShape
<1>8. ASSUME NEW c \in Embeds
      PROVE  refs'[c] = Has(owned, c) + QueuedIn(box', c) + NamedIn(board, c)
                          + NamesIn(Dicts, c)' + NamesIn(Holdings, c)' + Has(mut'.pins, c)
  <2>1. /\ NamesIn(Dicts, c)' = NamesIn(Dicts, c)
        /\ NamesIn(Holdings, c)' = NamesIn(Holdings, c)
    BY <1>0, <1>2, SameNames
  <2>2. QueuedIn(box', c) = QueuedIn(box, c) - Has({n}, c)
    BY <1>1, <1>2, <1>3, QueuedTail
  <2>3. Has(mut'.pins, c) = Has({n}, c) /\ Has(mut.pins, c) = 0
    BY <1>5, <1>7 DEF Has
  <2>4. Has({n}, c) \in Nat
    BY DEF Has
  <2>5. refs'[c] = refs[c]
    BY <1>2
  <2> QED BY <1>0, Sum, <2>1, <2>2, <2>3, <2>4, <2>5, Terms
<1>9. \A y \in Readers : ViewShape(y)'
  BY <1>0, <1>2, SameNames
<1>10. Counted'
  BY <1>2, <1>8 DEF Counted
<1>11. MutShape'
  BY <1>5, <1>6 DEF MutShape
<1> QED BY <1>2, <1>9, <1>10, <1>11 DEF RefsInv

LEMMA ApplyCounted ==
    ASSUME IInv, RefsInv, Apply
    PROVE  RefsInv'
<1>0. Typed /\ Mutator \in Readers
  BY ReadersDiffer DEF IInv
<1>1. PICK value : /\ mut' = [mut EXCEPT !.at = "commit", !.value = value,
                                         !.pins = value \cap Embeds]
                   /\ refs' = Incref(value \cap Embeds)
  BY DEF Apply
<1>2. /\ mut.at = "read" /\ reading[Mutator].at # "load"
      /\ reading' = [reading EXCEPT ![Mutator] = NotReading]
      /\ UNCHANGED <<box, board, owned, cache>>
  BY DEF Apply
<1>3. mut'.at = "commit" /\ mut'.value = value /\ mut'.pins = value \cap Embeds
  BY <1>0, <1>1 DEF Typed
<1>4. mut.pins = {}
  BY <1>2 DEF RefsInv, MutShape
<1>5. ASSUME NEW c \in Embeds
      PROVE  refs'[c] = Has(owned, c) + QueuedIn(box, c) + NamedIn(board, c)
                          + NamesIn(Dicts, c)' + NamesIn(Holdings, c)' + Has(mut'.pins, c)
  <2>1. /\ NamesIn(Dicts, c)' = NamesIn(Dicts, c)
        /\ NamesIn(Holdings, c)' = NamesIn(Holdings, c)
    BY <1>0, <1>2, ShownNames
  <2>2. refs'[c] = refs[c] + Has(mut'.pins, c)
    BY <1>1, <1>3, RefsMove
  <2>3. Has(mut.pins, c) = 0 /\ Has(mut'.pins, c) \in Nat
    BY <1>4 DEF Has
  <2> QED BY <1>0, Sum, <2>1, <2>2, <2>3, Terms
<1>6. \A y \in Readers : ViewShape(y)'
  BY <1>0, <1>2, ShownNames
<1>7. Counted'
  BY <1>2, <1>5 DEF Counted
<1>8. refs' \in [Embeds -> Int]
  BY <1>1, RefsMove
<1>9. MutShape'
  BY <1>3 DEF MutShape
<1> QED BY <1>6, <1>7, <1>8, <1>9 DEF RefsInv

LEMMA UpdateFailsCounted ==
    ASSUME IInv, RefsInv, UpdateFails
    PROVE  RefsInv'
<1>0. Typed /\ Mutator \in Readers
  BY ReadersDiffer DEF IInv
<1>1. /\ mut.at = "read" /\ reading[Mutator].at \in {"load", "shown"}
      /\ reading' = [reading EXCEPT ![Mutator] = NotReading] /\ cache' = ReArmed(Mutator)
      /\ mut' = [mut EXCEPT !.at = "receive", !.n = None, !.value = {}, !.pins = {}]
      /\ UNCHANGED <<box, board, owned>>
  BY DEF UpdateFails, Survives
<1>2. refs' = IF reading[Mutator].at = "load" THEN DecrefDict(reading[Mutator].dict) ELSE refs
  BY DEF UpdateFails
<1>3. mut'.at = "receive" /\ mut'.value = {} /\ mut'.pins = {}
  BY <1>0, <1>1 DEF Typed
<1>4. mut'.pins = mut.pins
  BY <1>1, <1>3 DEF RefsInv, MutShape
<1>5. ASSUME NEW c \in Embeds
      PROVE  refs'[c] = Has(owned, c) + QueuedIn(box, c) + NamedIn(board, c)
                          + NamesIn(Dicts, c)' + NamesIn(Holdings, c)' + Has(mut.pins, c)
  <2>1. NamesIn(Dicts, c)' = NamesIn(Dicts, c)
    BY <1>0, <1>1, EndNames
  <2>2. NamesIn(Holdings, c)' = NamesIn(Holdings, c) - NamedIn(Kept(Mutator), c)
    BY <1>0, <1>1, EndNames
  <2>3. NamedIn(Kept(Mutator), c) \in Nat
    BY NamedFacts
  <2>4. CASE reading[Mutator].at = "load"
    <3>1. refs' = DecrefDict(reading[Mutator].dict) /\ Kept(Mutator) = reading[Mutator].dict
      BY <1>2, <2>4 DEF Kept
    <3>2. refs'[c] = refs[c] - NamedIn(Kept(Mutator), c)
      BY <3>1, RefsMove
    <3> QED BY <1>0, Sum, <2>1, <2>2, <2>3, <3>2, Terms
  <2>5. CASE reading[Mutator].at = "shown"
    <3>1. refs'[c] = refs[c] /\ Kept(Mutator) = Blank
      BY <1>2, <2>5 DEF Kept
    <3>2. NamedIn(Kept(Mutator), c) = 0
      BY <3>1, NamedBlank
    <3> QED BY <1>0, Sum, <2>1, <2>2, <3>1, <3>2, Terms
  <2> QED BY <1>1, <2>4, <2>5
<1>6. \A y \in Readers : ViewShape(y)'
  BY <1>0, <1>1, EndNames
<1>7. Counted'
  BY <1>1, <1>4, <1>5 DEF Counted
<1>8. refs' \in [Embeds -> Int]
  BY <1>2, RefsMove DEF RefsInv
<1>9. MutShape'
  BY <1>3 DEF MutShape
<1> QED BY <1>6, <1>7, <1>8, <1>9 DEF RefsInv

LEMMA CommitCounted ==
    ASSUME IInv, RefsInv, Commit
    PROVE  RefsInv'
<1>0. Typed /\ Mutator \in Readers
  BY ReadersDiffer DEF IInv
<1>1. /\ mut' = [mut EXCEPT !.at = "drop", !.value = {}, !.pins = Leftover(Key[mut.n])]
      /\ UNCHANGED <<box, refs, owned, cache, reading>>
  BY DEF Commit
<1>2. mut'.at = "drop" /\ mut'.value = {}
  BY <1>0, <1>1 DEF Typed
<1>3. ASSUME NEW c \in Embeds
      PROVE  refs'[c] = Has(owned, c) + QueuedIn(box, c) + NamedIn(board', c)
                          + NamesIn(Dicts, c)' + NamesIn(Holdings, c)' + Has(mut'.pins, c)
  <2>1. /\ NamesIn(Dicts, c)' = NamesIn(Dicts, c)
        /\ NamesIn(Holdings, c)' = NamesIn(Holdings, c)
    BY <1>0, <1>1, SameNames
  <2>2. NamedIn(board', c) + Has(mut'.pins, c) = NamedIn(board, c) + Has(mut.pins, c)
    BY CommitNames
  <2>3. NamedIn(board', c) \in Nat /\ Has(mut'.pins, c) \in Nat
    BY NamedFacts DEF Has
  <2>4. refs'[c] = refs[c]
    BY <1>1
  <2> QED BY <1>0, Sum, <2>1, <2>2, <2>3, <2>4, Terms
<1>4. \A y \in Readers : ViewShape(y)'
  BY <1>0, <1>1, SameNames
<1>5. Counted'
  BY <1>1, <1>3 DEF Counted
<1>6. MutShape'
  BY <1>2 DEF MutShape
<1> QED BY <1>1, <1>4, <1>5, <1>6 DEF RefsInv

LEMMA DropCounted ==
    ASSUME IInv, RefsInv, Drop
    PROVE  RefsInv'
<1>0. Typed /\ Mutator \in Readers
  BY ReadersDiffer DEF IInv
<1>1. /\ mut.at = "drop" /\ refs' = Decref(mut.pins)
      /\ cache' = cache \/ cache' = ReArmed(Mutator)
      /\ mut' = [mut EXCEPT !.at = "receive", !.n = None, !.pins = {}]
      /\ UNCHANGED <<box, board, owned, reading>>
  BY DEF Drop
<1>2. mut'.at = "receive" /\ mut'.value = mut.value /\ mut'.pins = {}
  BY <1>0, <1>1 DEF Typed
<1>3. mut.value = {}
  BY <1>1 DEF RefsInv, MutShape
<1>4. ASSUME NEW c \in Embeds
      PROVE  refs'[c] = Has(owned, c) + QueuedIn(box, c) + NamedIn(board, c)
                          + NamesIn(Dicts, c)' + NamesIn(Holdings, c)' + Has(mut'.pins, c)
  <2>1. /\ NamesIn(Dicts, c)' = NamesIn(Dicts, c)
        /\ NamesIn(Holdings, c)' = NamesIn(Holdings, c)
    BY <1>0, <1>1, SameNames
  <2>2. refs'[c] = refs[c] - Has(mut.pins, c)
    BY <1>1, RefsMove
  <2>3. Has(mut'.pins, c) = 0
    BY <1>2 DEF Has
  <2> QED BY <1>0, Sum, <2>1, <2>2, <2>3, Terms
<1>5. \A y \in Readers : ViewShape(y)'
  BY <1>0, <1>1, SameNames
<1>6. Counted'
  BY <1>1, <1>4 DEF Counted
<1>7. refs' \in [Embeds -> Int]
  BY <1>1, RefsMove
<1>8. MutShape'
  BY <1>2, <1>3 DEF MutShape
<1> QED BY <1>5, <1>6, <1>7, <1>8 DEF RefsInv

LEMMA ShutdownCounted ==
    ASSUME IInv, RefsInv, Shutdown
    PROVE  RefsInv'
<1>0. Typed /\ Mutator \in Readers
  BY ReadersDiffer DEF IInv
<1>1. /\ mut.at = "receive" /\ box # <<>> /\ Head(box) = "shutdown" /\ box' = Tail(box)
      /\ mut' = [mut EXCEPT !.at = "dead"]
      /\ UNCHANGED <<board, refs, owned, cache, reading>>
  BY DEF Shutdown
<1>2. mut'.at = "dead" /\ mut'.value = mut.value /\ mut'.pins = mut.pins
  BY <1>0, <1>1 DEF Typed
<1>3. ASSUME NEW c \in Embeds PROVE QueuedIn(box', c) = QueuedIn(box, c)
  <2>1. Has({Head(box)}, c) = 0
    BY <1>1, NoticeboardAssumption DEF Has
  <2>2. box \in Seq(Notices \union {"shutdown"})
    BY <1>0 DEF Typed
  <2>3. QueuedIn(Tail(box), c) = QueuedIn(box, c) - Has({Head(box)}, c)
    BY <1>1, <2>2, QueuedTail
  <2>4. QueuedIn(box, c) \in Nat
    BY <1>0, Terms
  <2> QED BY <1>1, <2>1, <2>3, <2>4
<1>4. ASSUME NEW c
      PROVE  NamesIn(Dicts, c)' = NamesIn(Dicts, c) /\ NamesIn(Holdings, c)' = NamesIn(Holdings, c)
  BY <1>0, <1>1, SameNames
<1>5. \A y \in Readers : ViewShape(y)'
  BY <1>0, <1>1, SameNames
<1>6. Counted'
  BY <1>1, <1>2, <1>3, <1>4 DEF RefsInv, Counted
<1>7. MutShape'
  BY <1>1, <1>2 DEF RefsInv, MutShape
<1> QED BY <1>1, <1>5, <1>6, <1>7 DEF RefsInv

LEMMA MutatorCounted ==
    ASSUME IInv, RefsInv, MutatorStep
    PROVE  RefsInv'
<1>0. Typed /\ Mutator \in Readers
  BY ReadersDiffer DEF IInv
<1>1. CASE Reread \/ Build(Mutator) \/ Load(Mutator)
  BY <1>0, <1>1, LookCounted, BuildCounted, LoadCounted DEF Reread
<1> QED BY <1>1, ReceiveCounted, ShutdownCounted, ApplyCounted, UpdateFailsCounted,
           CommitCounted, DropCounted DEF MutatorStep

LEMMA RefsNext ==
    IInv /\ RefsInv /\ [Next]_vars => RefsInv'
<1> SUFFICES ASSUME IInv, RefsInv, [Next]_vars PROVE RefsInv'
  OBVIOUS
<1>1. CASE UNCHANGED vars
  <2>1. /\ UNCHANGED <<box, board, refs, owned, cache, reading, mut>>
        /\ Typed /\ Main \in Readers
    BY <1>1, ReadersDiffer DEF vars, IInv
  <2>2. ASSUME NEW c
        PROVE  NamesIn(Dicts, c)' = NamesIn(Dicts, c) /\ NamesIn(Holdings, c)' = NamesIn(Holdings, c)
    BY <2>1, SameNames
  <2>3. \A y \in Readers : ViewShape(y)'
    BY <2>1, SameNames
  <2> QED BY <2>1, <2>2, <2>3 DEF RefsInv, Counted, MutShape
<1>2. CASE Next
  BY <1>2, WorkerCounted, ForgetCounted, MutatorCounted, CycleCounted DEF Next
<1> QED BY <1>1, <1>2

LEMMA RefsInit == Init => RefsInv
<1> SUFFICES ASSUME Init PROVE RefsInv
  OBVIOUS
<1>1. /\ box = <<>> /\ board = Blank /\ refs = [n \in Embeds |-> 1] /\ owned = Embeds
      /\ mut.at = "receive" /\ mut.value = {} /\ mut.pins = {}
      /\ \A x \in Readers : cache[x] = NoCache /\ reading[x] = NotReading
  BY DEF Init
<1>2. ASSUME NEW F, \A x \in Readers : F[x] = Blank, NEW c PROVE NamesIn(F, c) = 0
  <2>1. {p \in Readers \X Keys : c \in F[p[1]][p[2]]} = {}
    BY <1>2 DEF Blank
  <2> QED BY <2>1, FS_EmptySet DEF NamesIn
<1>3. ASSUME NEW c \in Embeds
      PROVE  refs[c] = Has(owned, c) + QueuedIn(box, c) + NamedIn(board, c)
                         + NamesIn(Dicts, c) + NamesIn(Holdings, c) + Has(mut.pins, c)
  <2>1. refs[c] = 1 /\ Has(owned, c) = 1 /\ Has(mut.pins, c) = 0
    BY <1>1 DEF Has
  <2>2. QueuedIn(box, c) = 0
    <3>1. box \in Seq({}) /\ box = <<>>
      BY <1>1
    <3> QED BY <3>1, QueuedFacts
  <2>3. NamedIn(board, c) = 0
    BY <1>1, NamedBlank
  <2>4. \A x \in Readers : Dicts[x] = Blank /\ Holdings[x] = Blank
    BY <1>1 DEF Dicts, Holdings, Kept, NoCache, NotReading
  <2>5. NamesIn(Dicts, c) = 0 /\ NamesIn(Holdings, c) = 0
    BY <1>2, <2>4
  <2> QED BY <2>1, <2>2, <2>3, <2>5
<1>4. \A x \in Readers : ViewShape(x)
  BY <1>1 DEF ViewShape, NoCache, NotReading
<1> QED BY <1>1, <1>3, <1>4 DEF RefsInv, Counted, MutShape

(***************************************************************************)
(* Every step keeps the sum: no reference is taken or let go of without    *)
(* the name it stands for.                                                 *)
(***************************************************************************)
THEOREM Noticeboard_References == Spec => []RefsInv
BY RefsInit, RefsNext, Noticeboard_Invariance, PTL DEF Spec

(***************************************************************************)
(* A cown is alive wherever its address is: each place it is named in has  *)
(* a term of the sum.                                                      *)
(***************************************************************************)
THEOREM Noticeboard_NamedIsAlive == Spec => []NamedIsAlive
<1>1. IInv /\ RefsInv => NamedIsAlive
  <2> SUFFICES ASSUME IInv, RefsInv, NEW c \in Named \cap Embeds PROVE refs[c] > 0
    BY DEF NamedIsAlive
  <2>1. Typed /\ c \in Embeds
    BY DEF IInv
  <2>2. \/ NamedIn(board, c) >= 1 \/ QueuedIn(box, c) >= 1 \/ Has(mut.pins, c) >= 1
        \/ NamesIn(Dicts, c) >= 1 \/ NamesIn(Holdings, c) >= 1
    <3>1. CASE c \in UNION {board[k] : k \in Keys}
      BY <3>1, NamedFacts
    <3>2. CASE c \in {box[i] : i \in DOMAIN box}
      <4>1. box \in Seq(Notices \union {"shutdown"})
        BY <2>1 DEF Typed
      <4> QED BY <3>2, <4>1, QueuedFacts
    <3>3. CASE c \in mut.value
      <4>1. c \in mut.pins
        BY <2>1, <3>3 DEF RefsInv, MutShape
      <4> QED BY <4>1 DEF Has
    <3>4. CASE c \in UNION {cache[x].dict[k] : x \in Readers, k \in Keys}
      <4>1. PICK x \in Readers, k \in Keys : c \in cache[x].dict[k]
        BY <3>4
      <4>2. c \in Dicts[x][k]
        BY <4>1 DEF Dicts
      <4> QED BY <4>2, NamesFacts
    <3>5. CASE c \in UNION {reading[x].dict[k] : x \in Readers, k \in Keys}
      <4>1. PICK x \in Readers, k \in Keys : c \in reading[x].dict[k]
        BY <3>5
      <4>2. reading[x].at \in Places
        BY <2>1 DEF Typed, Reads
      <4>3. CASE reading[x].at = "load"
        <5>1. c \in Holdings[x][k]
          BY <4>1, <4>3 DEF Holdings, Kept
        <5> QED BY <5>1, NamesFacts
      <4>4. CASE reading[x].at = "shown"
        <5>1. c \in Dicts[x][k]
          BY <4>1, <4>4 DEF RefsInv, ViewShape, Dicts
        <5> QED BY <5>1, NamesFacts
      <4>5. CASE reading[x].at \in {"no", "build"}
        <5>1. c \in Blank[k]
          BY <4>1, <4>5 DEF RefsInv, ViewShape
        <5> QED BY <5>1 DEF Blank
      <4> QED BY <4>2, <4>3, <4>4, <4>5 DEF Places
    <3> QED BY <3>1, <3>2, <3>3, <3>4, <3>5 DEF Named
  <2> QED BY <2>1, <2>2, Sum, Terms
<1> QED BY <1>1, Noticeboard_Invariance, Noticeboard_References, PTL

(***************************************************************************)
(* With everybody at rest only the board and the caches hold a cown the    *)
(* program has forgotten: no path of the code keeps a reference too many.  *)
(***************************************************************************)
THEOREM Noticeboard_NothingLeaks == Spec => []NothingLeaks
<1>1. IInv /\ RefsInv => NothingLeaks
  <2> SUFFICES ASSUME IInv, RefsInv, box = <<>>, mut.at \in {"receive", "dead"},
                      \A x \in Readers : reading[x].at \in {"no", "build"},
                      NEW c \in Embeds \ owned
               PROVE  refs[c] = NamedIn(board, c) + CachesNaming(c)
    BY DEF NothingLeaks
  <2>1. Typed /\ c \in Embeds
    BY DEF IInv
  <2>2. QueuedIn(box, c) = 0
    <3>1. box \in Seq(Notices \union {"shutdown"})
      BY <2>1 DEF Typed
    <3> QED BY <3>1, QueuedFacts
  <2>3. Has(owned, c) = 0 /\ Has(mut.pins, c) = 0
    BY DEF Has, RefsInv, MutShape
  <2>4. NamesIn(Holdings, c) = 0
    <3>1. \A x \in Readers : Holdings[x] = Blank
      BY DEF Holdings, Kept
    <3>2. {p \in Readers \X Keys : c \in Holdings[p[1]][p[2]]} = {}
      BY <3>1 DEF Blank
    <3> QED BY <3>2, FS_EmptySet DEF NamesIn
  <2>5. NamesIn(Dicts, c) = CachesNaming(c)
    <3>1. {p \in Readers \X Keys : c \in Dicts[p[1]][p[2]]}
            = {p \in Readers \X Keys : c \in cache[p[1]].dict[p[2]]}
      BY DEF Dicts
    <3> QED BY <3>1 DEF NamesIn, CachesNaming
  <2> QED BY <2>1, <2>2, <2>3, <2>4, <2>5, Sum, Terms
<1> QED BY <1>1, Noticeboard_Invariance, Noticeboard_References, PTL
=============================================================================
