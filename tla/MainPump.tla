----------------------------- MODULE MainPump ------------------------------
(***************************************************************************)
(* Behaviors with a pinned cown run on the main interpreter.  Whoever      *)
(* makes one due puts it in MAIN_PINNED_QUEUE and counts it; main runs it  *)
(* from pump(), or from a wait that pumps (boc_main_pinned_enqueue,        *)
(* _core_main_pump_bounded, terminator_wait_pumpable, _auto_pump_loop).    *)
(* One action per access to the shared counters; the queue itself is as    *)
(* SegmentQueues promises it.  The depth is unsigned in the code: below    *)
(* zero stands for its wrapped values, which are also "not zero".          *)
(***************************************************************************)
EXTENDS CownValues

VARIABLES pinned,    \* MAIN_PINNED_QUEUE
          depth,     \* MAIN_PINNED_DEPTH
          enqueue,   \* enqueue[b]: the producer's place in boc_main_pinned_enqueue
          pump       \* main: its place, and whether it pumps inside a wait

pumpVars == <<pinned, depth, enqueue, pump>>
vars == <<valueVars, pumpVars>>

PumpPlaces == {"idle", "poll", "asleep", "pop", "count", "body"}

TypeOK == /\ ValuesTypeOK
          /\ pinned \in Seq(Behaviors)
          /\ depth \in -Cardinality(Behaviors)..Cardinality(Behaviors)
          /\ enqueue \in [Behaviors -> {"no", "count", "wake", "done"}]
          /\ pump \in [at : PumpPlaces, waits : BOOLEAN, b : Behaviors \union {Null}]

Init == /\ ValuesInit
        /\ pinned = <<>> /\ depth = 0
        /\ enqueue = [b \in Behaviors |-> "no"]
        /\ pump = [at |-> "idle", waits |-> FALSE, b |-> Null]

(***************************************************************************)
(* boc_main_pinned_enqueue: link, count, wake whoever waits.               *)
(***************************************************************************)
Linked(b) == /\ IsPinned(b) /\ IsDue(b) /\ enqueue[b] = "no"
             /\ pinned' = Append(pinned, b)
             /\ enqueue' = [enqueue EXCEPT ![b] = "count"]
             /\ UNCHANGED <<valueVars, depth, pump>>

Counted(b) == /\ enqueue[b] = "count"
              /\ depth' = depth + 1
              /\ enqueue' = [enqueue EXCEPT ![b] = "wake"]
              /\ UNCHANGED <<valueVars, pinned, pump>>

\* boc_main_pinned_enqueue and terminator_dec broadcast on the condition of the wait.
Woken == IF pump.at = "asleep" THEN "poll" ELSE pump.at

Wakes(b) == /\ enqueue[b] = "wake"
            /\ enqueue' = [enqueue EXCEPT ![b] = "done"]
            /\ pump' = [pump EXCEPT !.at = Woken]
            /\ UNCHANGED <<valueVars, pinned, depth>>

\* The producer is a caller inside schedule or a behavior inside release_all,
\* which is not over before.
Producing(b) == \E x \in Behaviors : /\ IsPinned(x) /\ IsDue(x)
                                     /\ Targets(x) \cap Targets(b) # {}
                                     /\ enqueue[x] # "done"

\* terminator_dec broadcasts when it was the last hold.
PumpedDec(b) == /\ Dec(b) /\ ~Producing(b)
                /\ pump' = [pump EXCEPT !.at = IF InFlight = {b} THEN Woken ELSE @]
                /\ UNCHANGED <<pinned, depth, enqueue>>

(***************************************************************************)
(* Main: pump(), or wait() with pinned cowns about.                        *)
(***************************************************************************)
Move(from, to) == pump.at = from /\ pump' = [pump EXCEPT !.at = to]

CallPump == Move("idle", "pop") /\ UNCHANGED <<valueVars, pinned, depth, enqueue>>

CallWait == /\ pump.at = "idle" /\ InFlight # {}
            /\ pump' = [pump EXCEPT !.at = "poll", !.waits = TRUE]
            /\ UNCHANGED <<valueVars, pinned, depth, enqueue>>

\* terminator_wait_pumpable, under the mutex of the broadcasts.
\* Faulty variant: off by one.
SeesBacklog == depth > 1
SeesWork == depth # 0

Terminated == /\ pump.at = "poll" /\ InFlight = {}
              /\ pump' = [pump EXCEPT !.at = "idle", !.waits = FALSE]
              /\ UNCHANGED <<valueVars, pinned, depth, enqueue>>

PumpReady == /\ InFlight # {} /\ SeesWork /\ Move("poll", "pop")
             /\ UNCHANGED <<valueVars, pinned, depth, enqueue>>

FallAsleep == /\ InFlight # {} /\ ~SeesWork /\ Move("poll", "asleep")
              /\ UNCHANGED <<valueVars, pinned, depth, enqueue>>

(***************************************************************************)
(* main_pump_bounded: pop, take off the count, run, until the queue or the *)
(* bound on this call is exhausted.                                        *)
(***************************************************************************)
Pop == /\ pump.at = "pop" /\ pinned # <<>>
       /\ pump' = [pump EXCEPT !.at = "count", !.b = Head(pinned)]
       /\ pinned' = Tail(pinned)
       /\ UNCHANGED <<valueVars, depth, enqueue>>

\* Faulty variant: the count saturates at zero.
UncountedIfAny == IF depth = 0 THEN 0 ELSE depth - 1

Uncounted == depth - 1

Uncount == /\ pump.at = "count"
           /\ depth' = Uncounted
           /\ pump' = [pump EXCEPT !.at = "body"]
           /\ Begin(pump.b, Main)
           /\ UNCHANGED <<pinned, enqueue>>

Back == IF pump.waits THEN "poll" ELSE "idle"

\* The queue is empty.
PumpEnds == /\ pinned = <<>> /\ Move("pop", Back)
            /\ UNCHANGED <<valueVars, pinned, depth, enqueue>>

\* One behavior is done; the call goes on, or ends on its maximum, its
\* deadline or an error it was asked to raise.
PumpOn == /\ pump.at = "body" /\ At(pump.b, "done")
          /\ \E to \in {"pop", Back} :
               pump' = [pump EXCEPT !.at = to, !.b = Null]
          /\ UNCHANGED <<valueVars, pinned, depth, enqueue>>

PumpStep == \/ PumpReady \/ FallAsleep \/ Terminated \/ Pop \/ Uncount
            \/ PumpEnds \/ PumpOn

EnqueueStep(b) == Linked(b) \/ Counted(b) \/ Wakes(b)
RunStep(b) == (Running(b) /\ UNCHANGED pumpVars) \/ PumpedDec(b)

Next == \/ \E b \in Behaviors :
             \/ Schedule(b) /\ UNCHANGED pumpVars
             \/ \E w \in Workers : Take(b, w) /\ UNCHANGED pumpVars
             \/ EnqueueStep(b) \/ RunStep(b)
        \/ CallPump \/ CallWait \/ PumpStep
        \/ pump.at = "idle" /\ (\E c \in Cowns : Unwrap(c)) /\ UNCHANGED pumpVars

Spec == Init /\ [][Next]_vars

(***************************************************************************)
(* Bodies end and threads run; the pool takes what is due (WorkerPool); a  *)
(* program whose behaviors need the main pump waits or pumps again.        *)
(* Nobody need schedule anything, and nothing is assumed of poll timeouts. *)
(***************************************************************************)
Fairness ==
  /\ \A b \in Behaviors : /\ WF_vars(EnqueueStep(b)) /\ WF_vars(RunStep(b))
                          /\ SF_vars(\E w \in Workers : Take(b, w) /\ UNCHANGED pumpVars)
  /\ WF_vars(PumpStep) /\ WF_vars(CallWait)

FairSpec == Spec /\ Fairness

----------------------------------------------------------------------------
(***************************************************************************)
(* The depth is off from the queue by the producers that have linked and   *)
(* not counted and the behavior that main has popped and not uncounted; in *)
(* particular it goes back to zero, having wrapped or not.                 *)
(***************************************************************************)
DepthIsQueue == depth + Cardinality({b \in Behaviors : enqueue[b] = "count"})
                  = Len(pinned) + (IF pump.at = "count" THEN 1 ELSE 0)

(***************************************************************************)
(* Every behavior scheduled is over some day, on whatever it ran and       *)
(* however it went: a failed acquire or release holds nobody up.           *)
(***************************************************************************)
EverySettles == \A b \in Behaviors : phase[b] = "waiting" ~> At(b, "done")
=============================================================================
