----------------------------- MODULE CownValues -----------------------------
(***************************************************************************)
(* What a cown contains and who owns it, from the moment a worker or the   *)
(* main pump takes a behavior to the moment its hold goes back             *)
(* (worker.py run_behavior, _core.c cown_acquire, cown_release and the     *)
(* behavior's acquire, execute and release over them).  Whose turn it is   *)
(* in the queues of the cowns is as BOC promises it.                       *)
(*                                                                         *)
(* An unowned cown has its content serialised, one owned by an interpreter *)
(* has it as an object there.  Contents are told apart by what can be done *)
(* with them: "stuck" cannot be serialised, "torn" can, but cannot be read *)
(* back, "error" is an exception.                                          *)
(***************************************************************************)
EXTENDS Requests

CONSTANTS Workers,       \* interpreters of the pool
          Main,          \* the main interpreter
          PinnedCowns,   \* owned by Main for good
          Bodies         \* Bodies[b]: what b may store in its first argument,
                         \* paired with what it may return or raise

Storable == {"good", "stuck", "torn"}
AllContents == Storable \union {"error"}

ASSUME ValuesAssumption == /\ PinnedCowns \subseteq Cowns
                           /\ Main \notin Workers
                           /\ Null \notin Workers \union {Main} \union AllContents
                           /\ Bodies \in [Behaviors -> SUBSET
                                (Storable \X (Storable \union {"error"}))]

VARIABLES queue, phase,  \* of BOC
          owner,         \* owner[c]: an interpreter, or Null for BOCPY_NO_OWNER
          value,         \* value[c]: the object, or Null
          xidata,        \* xidata[c]: the serialised content, or Null
          exception,     \* exception[c]: the content is an unhandled exception
          run,           \* run[b]: where and how far behavior b is
          jammed         \* history: cowns whose release failed or was skipped

Sched == INSTANCE BOC WITH queue <- queue, phase <- phase

cownVars == <<owner, value, xidata, exception>>
valueVars == <<queue, phase, cownVars, run, jammed>>

Interps == Workers \union {Main}
Steps == {"none", "acquire", "execute", "release", "handon", "dec", "done"}

\* The cowns behavior_acquire_impl and behavior_release_impl go through, in
\* order and with duplicates; a capture is an argument nobody else names.
Vars(b) == <<Result[b]>> \o Args[b]

ValuesTypeOK ==
  /\ queue \in [Cowns -> Seq(Behaviors)]
  /\ phase \in [Behaviors -> {"new", "waiting", "running", "leaving"}]
  /\ owner \in [Cowns -> Interps \union {Null}]
  /\ value \in [Cowns -> AllContents \union {Null}]
  /\ xidata \in [Cowns -> AllContents \union {Null}]
  /\ exception \in [Cowns -> BOOLEAN]
  /\ run \in [Behaviors -> [on : Interps \union {Null}, step : Steps, i : Nat,
                            end : {"", "returned", "raised", "refused"}]]
  /\ \A b \in Behaviors : run[b].i \in 0..Len(Vars(b))
  /\ jammed \subseteq Cowns

\* Every cown starts out released, but a pinned one is born acquired.  A
\* program may have made one whose content cannot be read back.
ValuesInit ==
  /\ Sched!Init
  /\ owner = [c \in Cowns |-> IF c \in PinnedCowns THEN Main ELSE Null]
  /\ value = [c \in Cowns |-> IF c \in PinnedCowns THEN "good" ELSE Null]
  /\ \E torn \in SUBSET {c \in Cowns \ PinnedCowns :
                           \A b \in Behaviors : Result[b] # c} :
       xidata = [c \in Cowns |-> IF c \in PinnedCowns THEN Null
                                 ELSE IF c \in torn THEN "torn" ELSE "good"]
  /\ exception = [c \in Cowns |-> FALSE]
  /\ run = [b \in Behaviors |-> [on |-> Null, step |-> "none", i |-> 0, end |-> ""]]
  /\ jammed = {}

IsPinned(b) == Targets(b) \cap PinnedCowns # {}

IsDue(b) == phase[b] = "waiting" /\ \A c \in Targets(b) : Sched!AtHead(b, c)
IsOn(b, w) == run[b].on = w /\ run[b].step # "done"
Idle(w) == \A b \in Behaviors : ~IsOn(b, w)

\* whencall creates the result, so its readers come after.
Schedule(b) == /\ \A a \in Behaviors : Feeds(a, b) => phase[a] # "new"
               /\ Sched!Schedule(b)
               /\ UNCHANGED <<cownVars, run, jammed>>

Begin(b, w) == /\ Sched!Start(b)
               /\ run' = [run EXCEPT ![b].on = w, ![b].step = "acquire", ![b].i = 1]
               /\ UNCHANGED <<cownVars, jammed>>

\* A worker takes a behavior without pinned cowns.
Take(b, w) == ~IsPinned(b) /\ Idle(w) /\ Begin(b, w)

(***************************************************************************)
(* Acquire, one cown at a time.  The CAS on the owner keeps everybody else *)
(* out while the content is read back, so one cown is one step.            *)
(***************************************************************************)
At(b, step) == run[b].step = step
Cown(b) == Vars(b)[run[b].i]

Readable(c) == xidata[c] \notin {Null, "torn"}

\* Faulty variant: ignores whose the cown is.
AcquirableByAll(c, w) == Readable(c) \/ owner[c] # Null
Acquirable(c, w) == IF c \in PinnedCowns THEN w = Main
                    ELSE owner[c] = w \/ (owner[c] = Null /\ Readable(c))

\* The loop of step goes on, or ends and the next step is last.
Advance(b, last) == IF run[b].i = Len(Vars(b)) THEN [run EXCEPT ![b].step = last, ![b].i = 1]
                    ELSE [run EXCEPT ![b].i = @ + 1]

AcquireOne(b) ==
  LET c == Cown(b)  w == run[b].on
  IN /\ At(b, "acquire") /\ Acquirable(c, w)
     /\ run' = Advance(b, "execute")
     /\ IF owner[c] = w \/ c \in PinnedCowns THEN UNCHANGED cownVars
        ELSE /\ owner' = [owner EXCEPT ![c] = w]
             /\ value' = [value EXCEPT ![c] = xidata[c]]
             /\ xidata' = [xidata EXCEPT ![c] = Null]
             /\ UNCHANGED exception
     /\ UNCHANGED <<queue, phase, jammed>>

\* cown_acquire gives up the bytes of a cown it cannot read back, for good.
Poisoned(c) == [xidata EXCEPT ![c] = IF owner[c] = Null THEN Null ELSE @]

\* Faulty variant: the flag is not set.
Unmarked(r) == exception

\* set_exception stores into the result, acquired or not.
Marked(r) == [exception EXCEPT ![r] = TRUE]

\* Faulty variant: a behavior whose body did not run is not released.
StraightOn == "handon"

\* run_behavior releases whatever was acquired before the failure.
AfterRefusal == "release"

AcquireFails(b) ==
  LET c == Cown(b)  r == Result[b]
  IN /\ At(b, "acquire") /\ ~Acquirable(c, run[b].on)
     /\ xidata' = Poisoned(c)
     /\ value' = [value EXCEPT ![r] = "error"]
     /\ exception' = Marked(r)
     /\ run' = [run EXCEPT ![b].step = AfterRefusal, ![b].i = 1, ![b].end = "refused"]
     /\ UNCHANGED <<queue, phase, owner, jammed>>

(***************************************************************************)
(* The body stores something in its first argument and returns something,  *)
(* or raises; behavior_execute_impl puts either into the result.           *)
(***************************************************************************)
Store(b, stored, returned) ==
  [value EXCEPT ![Result[b]] = returned,
                ![IF Args[b] = <<>> THEN Result[b] ELSE Args[b][1]] =
                   IF Args[b] = <<>> THEN returned ELSE stored]

Execute(b, stored, returned) ==
  /\ At(b, "execute")
  /\ value' = Store(b, stored, returned)
  /\ exception' = [c \in Cowns |->
                     IF c = Result[b] THEN returned = "error"
                     ELSE IF Args[b] # <<>> /\ c = Args[b][1] THEN FALSE
                     ELSE exception[c]]
  /\ run' = [run EXCEPT ![b].step = "release", ![b].i = 1,
               ![b].end = IF returned = "error" THEN "raised" ELSE "returned"]
  /\ UNCHANGED <<queue, phase, owner, xidata, jammed>>

(***************************************************************************)
(* Release stops at the first cown it cannot release: one whose content    *)
(* cannot be serialised, or that another interpreter owns.  What is left   *)
(* stays acquired.  release_all goes ahead either way.                     *)
(***************************************************************************)
Releasable(c, w) == IF c \in PinnedCowns THEN w = Main
                    ELSE owner[c] = Null \/ (owner[c] = w /\ value[c] # "stuck")

ReleaseOne(b) ==
  LET c == Cown(b)  w == run[b].on
  IN /\ At(b, "release") /\ Releasable(c, w)
     /\ run' = Advance(b, "handon")
     /\ IF owner[c] # w \/ c \in PinnedCowns THEN UNCHANGED cownVars
        ELSE /\ xidata' = [xidata EXCEPT ![c] = value[c]]
             /\ value' = [value EXCEPT ![c] = Null]
             /\ owner' = [owner EXCEPT ![c] = Null]
             /\ UNCHANGED exception
     /\ UNCHANGED <<queue, phase, jammed>>

\* Faulty variant: cown_release gives up the object before it has serialised it.
Dropped(c) == [value EXCEPT ![c] = Null]
Kept(c) == value

ReleaseFails(b) ==
  /\ At(b, "release") /\ ~Releasable(Cown(b), run[b].on)
  /\ value' = Kept(Cown(b))
  /\ run' = [run EXCEPT ![b].step = "handon", ![b].i = 1]
  /\ jammed' = jammed \union {Vars(b)[k] : k \in run[b].i..Len(Vars(b))}
  /\ UNCHANGED <<queue, phase, owner, xidata, exception>>

\* release_all: every queue moves on.
HandOn(b) == /\ At(b, "handon")
             /\ \/ phase[b] = "running" /\ Sched!End(b) /\ UNCHANGED run
                \/ \E c \in Targets(b) : Sched!Release(b, c) /\ UNCHANGED run
                \/ /\ phase[b] = "leaving"
                   /\ \A c \in Targets(b) : ~Sched!AtHead(b, c)
                   /\ run' = [run EXCEPT ![b].step = "dec"]
                   /\ UNCHANGED <<queue, phase>>
             /\ UNCHANGED <<cownVars, jammed>>

\* terminator_dec; w is free for the next.
Dec(b) == /\ At(b, "dec")
          /\ run' = [run EXCEPT ![b].step = "done"]
          /\ UNCHANGED <<queue, phase, cownVars, jammed>>

InFlight == {b \in Behaviors : phase[b] # "new" /\ ~At(b, "done")}

(***************************************************************************)
(* Cown.unwrap() on the main thread, refused while a hold is out: takes    *)
(* the content and leaves None.                                            *)
(***************************************************************************)
Unwrap(c) ==
  /\ InFlight = {} /\ Acquirable(c, Main)
  /\ IF c \in PinnedCowns
     THEN /\ value' = [value EXCEPT ![c] = "good"]
          /\ UNCHANGED <<owner, xidata>>
     ELSE /\ xidata' = [xidata EXCEPT ![c] = "good"]
          /\ value' = [value EXCEPT ![c] = Null]
          /\ owner' = [owner EXCEPT ![c] = Null]
  /\ exception' = [exception EXCEPT ![c] = FALSE]
  /\ UNCHANGED <<queue, phase, run, jammed>>

Running(b) == \/ AcquireOne(b) \/ AcquireFails(b)
              \/ \E body \in Bodies[b] : Execute(b, body[1], body[2])
              \/ ReleaseOne(b) \/ ReleaseFails(b) \/ HandOn(b)

----------------------------------------------------------------------------
(***************************************************************************)
(* A body runs only when its interpreter owns every cown of the behavior   *)
(* and has its content in memory, however the acquires went.               *)
(***************************************************************************)
BodyOwnsAll == \A b \in Behaviors : At(b, "execute") =>
                 \A c \in Targets(b) : owner[c] = run[b].on /\ value[c] # Null

(***************************************************************************)
(* A cown is left in the hands of an interpreter that has no behavior on   *)
(* it only where a release failed.                                         *)
(***************************************************************************)
NobodyKeepsACown ==
  \A c \in Cowns \ (PinnedCowns \union jammed) :
    owner[c] # Null => \E b \in Behaviors : c \in Targets(b) /\ IsOn(b, owner[c])

(***************************************************************************)
(* A behavior that was refused or raised says so in its result, before     *)
(* anybody else gets to see it.                                            *)
(***************************************************************************)
OutcomeIsReported ==
  \A b \in Behaviors :
    At(b, "handon") /\ phase[b] = "running" =>
      LET r == Result[b] IN
        /\ exception[r] <=> run[b].end # "returned"
        /\ exception[r] => "error" \in {value[r], xidata[r]}

(***************************************************************************)
(* Content is lost only if it cannot be read back: no failing step drops   *)
(* both forms of a cown.                                                   *)
(***************************************************************************)
NothingElseIsLost ==
  [][\A c \in Cowns : value'[c] = Null /\ xidata'[c] = Null =>
        value[c] = Null /\ xidata[c] \in {Null, "torn"}]_valueVars
=============================================================================
