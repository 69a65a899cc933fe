---------------------------- MODULE Noticeboard -----------------------------
(***************************************************************************)
(* The noticeboard (boc_noticeboard.c, the wrappers in _core.c, notice_*   *)
(* and the mutator thread of behaviors.py).  Behaviors send notices to the *)
(* mutator thread, through a queue as Mailbox promises it; the mutator     *)
(* applies them one by one; everybody reads cached snapshots.              *)
(*                                                                         *)
(* What the mutex protects is one action.  A value is the set of notices   *)
(* that made it up: a write starts a new one, an update adds to the one it *)
(* read.  A notice may embed one cown, of its own; every value it is part  *)
(* of then names that cown, by its address.                                *)
(***************************************************************************)
EXTENDS Integers, Sequences, FiniteSets

CONSTANTS Workers, Mutator, Main,  \* threads that read
          Notices, Keys,
          Kind, Key,     \* Kind[n] and Key[n] of notice n
          Embeds,        \* the notices whose value embeds a cown
          Program,       \* Program[w]: the notices of w's behaviors, in turn
          MaxEntries,    \* NB_MAX_ENTRIES
          MaxCycles,     \* bound: calls of cycle_noticeboard
          None

ASSUME NoticeboardAssumption ==
  /\ IsFiniteSet(Workers) /\ IsFiniteSet(Keys)
  /\ Kind \in [Notices -> {"write", "update", "delete"}]
  /\ Key \in [Notices -> Keys]
  /\ Embeds \subseteq {n \in Notices : Kind[n] = "write"}
  /\ Program \in [Workers -> Seq(Notices)]
  /\ MaxEntries \in Nat /\ MaxCycles \in Nat
  /\ {None, "shutdown"} \cap Notices = {}
  /\ Mutator # Main /\ {Mutator, Main} \cap Workers = {}

VARIABLES box,       \* the queue "boc_noticeboard"
          board,     \* board[k]: the value, {} if there is no entry
          version,   \* NB_VERSION
          refs,      \* refs[n]: reference count of the cown of notice n
          owned,     \* cowns the program has a reference of its own to
          cache,     \* cache[x]: the snapshot cache of thread x
          reading,   \* reading[x]: x in noticeboard_snapshot
          work,      \* work[w]: the behavior w runs
          mut,       \* the mutator thread
          cycle,     \* main in cycle_noticeboard
          shown,     \* history: versions shown to w in this behavior
          since,     \* history: the version when it began
          handled    \* history: notices the mutator is done with

vars == <<box, board, version, refs, owned, cache, reading, work, mut, cycle,
          shown, since, handled>>

Readers == Workers \union {Mutator, Main}
Boards == [Keys -> SUBSET Notices]
Blank == [k \in Keys |-> {}]
NoCache == [held |-> FALSE, dict |-> Blank, version |-> -1, checked |-> FALSE]
NotReading == [at |-> "no", dict |-> Blank, version |-> -1]

TypeOK ==
  /\ box \in Seq(Notices \union {"shutdown"})
  /\ board \in Boards /\ Cardinality({k \in Keys : board[k] # {}}) <= MaxEntries
  /\ version \in Nat /\ refs \in [Embeds -> Nat] /\ owned \subseteq Embeds
  /\ cache \in [Readers -> [held : BOOLEAN, dict : Boards, version : Int,
                            checked : BOOLEAN]]
  /\ reading \in [Readers -> [at : {"no", "build", "load", "shown"}, dict : Boards,
                              version : Int]]
  /\ work \in [Workers -> [i : Nat, sent : BOOLEAN]]
  /\ mut \in [at : {"receive", "read", "commit", "drop", "dead"},
              n : Notices \union {None}, value : SUBSET Notices, pins : SUBSET Embeds]
  /\ cycle \in [at : {"idle", "join", "snapshot", "stale"}, n : 0..MaxCycles]
  /\ shown \in [Workers -> SUBSET Nat] /\ since \in [Workers -> Nat]
  /\ handled \subseteq Notices

Init == /\ box = <<>> /\ board = Blank /\ version = 0
        /\ refs = [n \in Embeds |-> 1] /\ owned = Embeds
        /\ cache = [x \in Readers |-> NoCache]
        /\ reading = [x \in Readers |-> NotReading]
        /\ work = [w \in Workers |-> [i |-> 1, sent |-> FALSE]]
        /\ mut = [at |-> "receive", n |-> None, value |-> {}, pins |-> {}]
        /\ cycle = [at |-> "idle", n |-> 0]
        /\ shown = [w \in Workers |-> {}] /\ since = [w \in Workers |-> 0]
        /\ handled = {}

(***************************************************************************)
(* Reference counts.  A dict holds one reference per entry that names the  *)
(* cown.                                                                   *)
(***************************************************************************)
NamedIn(dict, c) == Cardinality({k \in Keys : c \in dict[k]})

Incref(S) == [c \in Embeds |-> refs[c] + (IF c \in S THEN 1 ELSE 0)]
Decref(S) == [c \in Embeds |-> refs[c] - (IF c \in S THEN 1 ELSE 0)]
DecrefDict(dict) == [c \in Embeds |-> refs[c] - NamedIn(dict, c)]

(***************************************************************************)
(* noticeboard_snapshot.                                                   *)
(***************************************************************************)
\* Faulty variants: versions are not compared; versions are compared every time.
HeldAtAll(x) == cache[x].held
Polled(x) == cache[x].held /\ cache[x].version = version

IsFresh(x) == cache[x].held /\ (cache[x].checked \/ cache[x].version = version)

\* A valid cache is shown as it is, another one is dropped.
Look(x) ==
  /\ reading[x].at = "no"
  /\ IF IsFresh(x)
     THEN /\ cache' = [cache EXCEPT ![x].checked = TRUE]
          /\ reading' = [reading EXCEPT ![x] = [at |-> "shown", dict |-> cache[x].dict,
                                                version |-> cache[x].version]]
          /\ UNCHANGED refs
     ELSE /\ cache' = [cache EXCEPT ![x] = NoCache]
          /\ refs' = DecrefDict(cache[x].dict)
          /\ reading' = [reading EXCEPT ![x].at = "build"]
  /\ UNCHANGED <<box, board, version, owned, work, mut, cycle, shown, since, handled>>

\* Faulty variant: the bytes are read without references of the reader's own.
WithoutKeepalive == refs

WithKeepalive == [c \in Embeds |-> refs[c] + NamedIn(board, c)]

\* Under the mutex: the bytes, the version, and a hold on what they name.
Build(x) ==
  /\ reading[x].at = "build"
  /\ reading' = [reading EXCEPT ![x] = [at |-> "load", dict |-> board, version |-> version]]
  /\ refs' = WithKeepalive
  /\ UNCHANGED <<box, board, version, owned, cache, work, mut, cycle, shown, since, handled>>

\* The bytes are unpickled, which takes references, and the hold let go.
Load(x) ==
  /\ reading[x].at = "load"
  /\ reading' = [reading EXCEPT ![x].at = "shown"]
  /\ cache' = [cache EXCEPT ![x] = [held |-> TRUE, dict |-> reading[x].dict,
                                    version |-> reading[x].version, checked |-> TRUE]]
  /\ UNCHANGED <<box, board, version, refs, owned, work, mut, cycle, shown, since, handled>>

(***************************************************************************)
(* A behavior: reads as often as it likes, sends its notice, ends.         *)
(***************************************************************************)
InBehavior(w) == work[w].i <= Len(Program[w])

Read(w) == InBehavior(w) /\ Look(w)

\* The snapshot has been returned.
IsShown(w) ==
  /\ reading[w].at = "shown"
  /\ shown' = [shown EXCEPT ![w] = @ \union {reading[w].version}]
  /\ reading' = [reading EXCEPT ![w] = NotReading]
  /\ UNCHANGED <<box, board, version, refs, owned, cache, work, mut, cycle, since, handled>>

\* pickle.loads raises: nothing is cached, the hold is let go.
LoadFails(w) ==
  /\ reading[w].at = "load"
  /\ reading' = [reading EXCEPT ![w] = NotReading]
  /\ refs' = DecrefDict(reading[w].dict)
  /\ UNCHANGED <<box, board, version, owned, cache, work, mut, cycle, shown, since, handled>>

\* notice_write, notice_update, notice_delete; a write pins what it embeds.
Notify(w) ==
  /\ InBehavior(w) /\ reading[w].at = "no" /\ ~work[w].sent
  /\ LET n == Program[w][work[w].i] IN
       /\ box' = Append(box, n)
       /\ refs' = Incref({n})
  /\ work' = [work EXCEPT ![w].sent = TRUE]
  /\ UNCHANGED <<board, version, owned, cache, reading, mut, cycle, shown, since, handled>>

\* The program forgets the cown it has sent.
Forget(c) ==
  /\ c \in owned
  /\ \E w \in Workers : \E i \in DOMAIN Program[w] :
       Program[w][i] = c /\ (i < work[w].i \/ (i = work[w].i /\ work[w].sent))
  /\ owned' = owned \ {c}
  /\ refs' = Decref({c})
  /\ UNCHANGED <<box, board, version, cache, reading, work, mut, cycle, shown, since, handled>>

\* Faulty variant: the boundary between behaviors is not marked.
Unmarked(x) == cache

\* noticeboard_cache_clear: the next look compares versions.
ReArmed(x) == [cache EXCEPT ![x].checked = FALSE]

\* run_behavior of the next one.
NextBehavior(w) ==
  /\ InBehavior(w) /\ reading[w].at = "no" /\ work[w].sent
  /\ work' = [work EXCEPT ![w] = [i |-> @.i + 1, sent |-> FALSE]]
  /\ cache' = ReArmed(w)
  /\ shown' = [shown EXCEPT ![w] = {}]
  /\ since' = [since EXCEPT ![w] = version]
  /\ UNCHANGED <<box, board, version, refs, owned, reading, mut, cycle, handled>>

(***************************************************************************)
(* The mutator thread.                                                     *)
(***************************************************************************)
Receive ==
  /\ mut.at = "receive" /\ box # <<>> /\ Head(box) # "shutdown"
  /\ box' = Tail(box)
  /\ LET n == Head(box) IN
       /\ mut' = [mut EXCEPT !.n = n, !.pins = {n} \cap Embeds,
                             !.value = IF Kind[n] = "write" THEN {n} ELSE {},
                             !.at = IF Kind[n] = "update" THEN "read" ELSE "commit"]
       /\ cache' = IF Kind[n] = "update" THEN ReArmed(Mutator) ELSE cache
  /\ UNCHANGED <<board, version, refs, owned, reading, work, cycle, shown, since, handled>>

Shutdown == /\ mut.at = "receive" /\ box # <<>> /\ Head(box) = "shutdown"
            /\ box' = Tail(box)
            /\ mut' = [mut EXCEPT !.at = "dead"]
            /\ UNCHANGED <<board, version, refs, owned, cache, reading, work, cycle,
                           shown, since, handled>>

Reread == mut.at = "read" /\ Look(Mutator)

\* fn(current), and a pin for every cown of the result; it may be REMOVED.
Apply ==
  /\ mut.at = "read" /\ reading[Mutator].at = "shown"
  /\ reading' = [reading EXCEPT ![Mutator] = NotReading]
  /\ \E value \in {{}, reading[Mutator].dict[Key[mut.n]] \union {mut.n}} :
       LET pins == value \cap Embeds IN
         /\ mut' = [mut EXCEPT !.at = "commit", !.value = value, !.pins = pins]
         /\ refs' = Incref(pins)
  /\ UNCHANGED <<box, board, version, owned, cache, work, cycle, shown, since, handled>>

\* Faulty variant: an exception ends the thread.
Dies == "dead"

Survives == "receive"

\* fn, or reading what it is applied to, raises: a warning.
UpdateFails ==
  /\ mut.at = "read" /\ reading[Mutator].at \in {"load", "shown"}
  /\ refs' = IF reading[Mutator].at = "load" THEN DecrefDict(reading[Mutator].dict)
             ELSE refs
  /\ reading' = [reading EXCEPT ![Mutator] = NotReading]
  /\ cache' = ReArmed(Mutator)
  /\ mut' = [mut EXCEPT !.at = Survives, !.n = None, !.value = {}, !.pins = {}]
  /\ handled' = handled \union {mut.n}
  /\ UNCHANGED <<box, board, version, owned, work, cycle, shown, since>>

IsFull(k) == board[k] = {} /\ Cardinality({j \in Keys : board[j] # {}}) >= MaxEntries

\* Faulty variant: the pins of a refused write are forgotten.
OldPins(k) == board[k] \cap Embeds

\* What noticeboard_write or noticeboard_delete lets go of after the mutex.
Leftover(k) == IF mut.value # {} /\ IsFull(k) THEN mut.pins ELSE board[k] \cap Embeds

Commit ==
  LET k == Key[mut.n] IN
  /\ mut.at = "commit"
  /\ IF mut.value = {}  \* a delete
     THEN /\ board' = [board EXCEPT ![k] = {}]
          /\ version' = IF board[k] = {} THEN version ELSE version + 1
     ELSE IF IsFull(k) THEN UNCHANGED <<board, version>>
     ELSE /\ board' = [board EXCEPT ![k] = mut.value]
          /\ version' = version + 1
  /\ mut' = [mut EXCEPT !.at = "drop", !.value = {}, !.pins = Leftover(k)]
  /\ UNCHANGED <<box, refs, owned, cache, reading, work, cycle, shown, since, handled>>

Drop ==
  /\ mut.at = "drop"
  /\ refs' = Decref(mut.pins)
  /\ cache' = IF Kind[mut.n] = "update" THEN ReArmed(Mutator) ELSE cache
  /\ handled' = handled \union {mut.n}
  /\ mut' = [mut EXCEPT !.at = "receive", !.n = None, !.pins = {}]
  /\ UNCHANGED <<box, board, version, owned, reading, work, cycle, shown, since>>

MutatorStep == \/ Receive \/ Shutdown \/ Reread \/ Build(Mutator) \/ Load(Mutator)
               \/ Apply \/ UpdateFails \/ Commit \/ Drop

(***************************************************************************)
(* cycle_noticeboard, called by quiesce when the behaviors are over.       *)
(***************************************************************************)
Quiescent == \A w \in Workers : ~InBehavior(w)

CycleSends ==
  /\ Quiescent /\ cycle.at = "idle" /\ cycle.n < MaxCycles /\ mut.at # "dead"
  /\ box' = Append(box, "shutdown")
  /\ cycle' = [at |-> "join", n |-> cycle.n + 1]
  /\ UNCHANGED <<board, version, refs, owned, cache, reading, work, mut, shown, since, handled>>

\* The join times out and the call raises TimeoutError.
CycleTimesOut ==
  /\ cycle.at = "join" /\ mut.at # "dead"
  /\ cycle' = [cycle EXCEPT !.at = "idle"]
  /\ UNCHANGED <<box, board, version, refs, owned, cache, reading, work, mut, shown, since, handled>>

\* Faulty variant: the thread is not joined.
Unjoined == TRUE

Joined == mut.at = "dead"

CycleJoins ==
  /\ cycle.at = "join" /\ Joined
  /\ cache' = ReArmed(Main)
  /\ cycle' = [cycle EXCEPT !.at = "snapshot"]
  /\ UNCHANGED <<box, board, version, refs, owned, reading, work, mut, shown, since, handled>>

\* A call that finds the thread dead.
CycleFindsNobody ==
  /\ Quiescent /\ cycle.at = "idle" /\ cycle.n < MaxCycles /\ mut.at = "dead"
  /\ cache' = ReArmed(Main)
  /\ cycle' = [at |-> "stale", n |-> cycle.n + 1]
  /\ UNCHANGED <<box, board, version, refs, owned, reading, work, mut, shown, since, handled>>

CycleReads == cycle.at \in {"snapshot", "stale"} /\ Look(Main)

\* Restarts the thread, if the call has stopped it.
CycleReturns ==
  /\ cycle.at \in {"snapshot", "stale"} /\ reading[Main].at = "shown"
  /\ reading' = [reading EXCEPT ![Main] = NotReading]
  /\ mut' = IF cycle.at = "snapshot" THEN [mut EXCEPT !.at = "receive"] ELSE mut
  /\ cycle' = [cycle EXCEPT !.at = "idle"]
  /\ UNCHANGED <<box, board, version, refs, owned, cache, work, shown, since, handled>>

CycleStep == \/ CycleSends \/ CycleTimesOut \/ CycleJoins \/ CycleFindsNobody
             \/ CycleReads \/ Build(Main) \/ Load(Main) \/ CycleReturns

WorkerStep(w) == \/ Read(w) \/ Build(w) \/ Load(w) \/ IsShown(w) \/ LoadFails(w)
                 \/ Notify(w) \/ NextBehavior(w)

Next == \/ \E w \in Workers : WorkerStep(w)
        \/ \E c \in Embeds : Forget(c)
        \/ MutatorStep \/ CycleStep

Spec == Init /\ [][Next]_vars

\* The mutator thread runs.
FairSpec == Spec /\ WF_vars(MutatorStep)

----------------------------------------------------------------------------
(***************************************************************************)
(* "a behavior cannot observe writes that happened mid-flight" (the no-    *)
(* polling invariant): however often it reads, it is shown one version.    *)
(***************************************************************************)
OneViewPerBehavior == \A w \in Workers : Cardinality(shown[w]) <= 1

(***************************************************************************)
(* That version is no older than the behavior: a cache of an earlier one   *)
(* is not reused once anything was written.                                *)
(***************************************************************************)
ViewIsFresh == \A w \in Workers : \A v \in shown[w] : v >= since[w]

(***************************************************************************)
(* notice_update reads, modifies and writes in one: what it commits is     *)
(* based on what is on the board, not on a cached view.                    *)
(***************************************************************************)
UpdateIsAtomic == mut.at = "commit" /\ Kind[mut.n] = "update" =>
                    mut.value \in {{}, board[Key[mut.n]] \union {mut.n}}

(***************************************************************************)
(* A cown is alive wherever its address is: on the queue, on the board, in *)
(* bytes a reader took from it before they were replaced, and in a cache.  *)
(***************************************************************************)
Named == (UNION {board[k] : k \in Keys})
         \union {box[i] : i \in DOMAIN box}
         \union mut.value
         \union (UNION {cache[x].dict[k] : x \in Readers, k \in Keys})
         \union (UNION {reading[x].dict[k] : x \in Readers, k \in Keys})

NamedIsAlive == \A c \in Named \cap Embeds : refs[c] > 0

(***************************************************************************)
(* And not longer: with everybody at rest a cown the program has forgotten *)
(* has as many references as there are entries and caches that name it, so *)
(* refused and replaced writes, failed reads and updates leak none.        *)
(***************************************************************************)
CachesNaming(c) == Cardinality({p \in Readers \X Keys : c \in cache[p[1]].dict[p[2]]})

NothingLeaks ==
  box = <<>> /\ mut.at \in {"receive", "dead"}
  /\ (\A x \in Readers : reading[x].at \in {"no", "build"}) =>
    \A c \in Embeds \ owned : c \in handled =>
      refs[c] = NamedIn(board, c) + CachesNaming(c)

Posted == UNION {{Program[w][i] : i \in 1..(IF work[w].sent THEN work[w].i
                                            ELSE work[w].i - 1)} : w \in Workers}

(***************************************************************************)
(* quiesce(noticeboard=True) returns what every behavior before it has     *)
(* posted, timed out or not at the first attempt.                          *)
(***************************************************************************)
CycleSeesEverything ==
  reading[Main].at = "shown" =>
    /\ Posted \subseteq handled
    /\ reading[Main].dict = board

(***************************************************************************)
(* A notice that was sent is applied or refused some day.                  *)
(***************************************************************************)
EveryNoticeIsHandled == []<>(Posted \subseteq handled)
=============================================================================
