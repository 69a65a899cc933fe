--------------------------- MODULE Matrices_proofs ---------------------------
(***************************************************************************)
(* Proofs about Matrices, for any interpreters, worlds, numbers, keys and  *)
(* index lists: whoever does not own a matrix that its call uses is        *)
(* refused, and a call writes the matrix it was asked to write, and no     *)
(* other.                                                                  *)
(*                                                                         *)
(* A call refuses, or it has found every matrix it uses to be the caller's *)
(* and changes one at most (Obeys).  Each method has a lemma that says so. *)
(* What a loop works out cell by cell is left open: it is written to the   *)
(* data of one matrix (WithData), whatever it is.                          *)
(***************************************************************************)
EXTENDS Matrices, TLAPS

----------------------------------------------------------------------------
(***************************************************************************)
(* Memory.  Buffers for operands and results have places of their own.     *)
(***************************************************************************)
Spots == Named \cup Temporary
IsMemory(s) == /\ s = [who |-> s.who, mat |-> s.mat]
               /\ s.mat = [p \in Spots |-> s.mat[p]]

\* In t every matrix but x is as in s; in t every one is.
Spares(s, t, x) == /\ IsMemory(t) /\ t.who = s.who
                   /\ \A p \in Named : p # x => t.mat[p] = s.mat[p]
Alike(s, t) == /\ IsMemory(t) /\ t.who = s.who
               /\ \A p \in Named : t.mat[p] = s.mat[p]

\* A refusal; and a result, found by changing x at most.
Refuses(s, o) == \E u, e : Alike(s, u) /\ e # "none" /\ o = Raise(u, e)
Changes(s, x, o) == \E u, r : Spares(s, u, x) /\ o = Done(u, r)

\* What is claimed of a call.
Obeys(s, o, may, uses) ==
    /\ o.err = "none" => \A p \in uses : Owned(s, p)
    /\ \A p \in Named : o.s.mat[p] # s.mat[p] => o.err = "none" /\ p \in may

LEMMA AssignedSpares ==
    ASSUME NEW s, IsMemory(s), NEW x, NEW m
    PROVE  Spares(s, [s EXCEPT !.mat[x] = m], x)
<1>1. PICK t : t = [s EXCEPT !.mat[x] = m]
  OBVIOUS
<1>2. t = [who |-> s.who, mat |-> [s.mat EXCEPT ![x] = m]]
  BY <1>1 DEF IsMemory
<1>3. t.who = s.who /\ t.mat = [s.mat EXCEPT ![x] = m]
  BY <1>2
<1>4. IsMemory(t)
  BY <1>2, <1>3 DEF IsMemory
<1>5. \A p \in Named : p # x => t.mat[p] = s.mat[p]
  BY <1>3 DEF IsMemory, Spots
<1> QED BY <1>1, <1>3, <1>4, <1>5 DEF Spares

\* New data for x, whatever they are.
LEMMA WithDataSpares ==
    ASSUME NEW s, IsMemory(s), NEW x, NEW d
    PROVE  Spares(s, WithData(s, x, d), x)
<1>1. PICK m : m = [s.mat[x] EXCEPT !.data = d]
  OBVIOUS
<1>2. WithData(s, x, d) = [s EXCEPT !.mat[x] = m]
  BY <1>1 DEF WithData
<1> QED BY <1>2, AssignedSpares

LEMMA NewSpares ==
    ASSUME NEW s, IsMemory(s), NEW x, NEW r, NEW c
    PROVE  Spares(s, New(s, x, r, c), x)
BY AssignedSpares DEF New, Buffer

LEMMA SparesTwice ==
    ASSUME NEW s, NEW t, NEW u, NEW x, Spares(s, t, x), Spares(t, u, x)
    PROVE  Spares(s, u, x)
BY DEF Spares

LEMMA TemporaryAlike ==
    ASSUME NEW s, NEW t, NEW x \in Temporary, Spares(s, t, x)
    PROVE  Alike(s, t)
BY DEF Spares, Alike, Temporary, Named

LEMMA AlikeThenSpares ==
    ASSUME NEW s, NEW t, NEW u, NEW x, Alike(s, t), Spares(t, u, x)
    PROVE  Spares(s, u, x)
BY DEF Spares, Alike

LEMMA AlikeItself == ASSUME NEW s, IsMemory(s) PROVE Alike(s, s)
BY DEF Alike

LEMMA AlikeTwice ==
    ASSUME NEW s, NEW t, NEW u, Alike(s, t), Alike(t, u)
    PROVE  Alike(s, u)
BY DEF Alike

\* A fresh matrix, and what a loop has put there.
LEMMA FreshAlike ==
    ASSUME NEW s, IsMemory(s), NEW r, NEW c
    PROVE  LET t == New(s, "out", r, c) IN
           IsMemory(t) /\ Alike(s, t) /\ \A u : Spares(t, u, "out") => Alike(s, u)
<1>1. PICK t : t = New(s, "out", r, c)
  OBVIOUS
<1>2. Spares(s, t, "out")
  BY <1>1, NewSpares
<1>3. \A u : Spares(t, u, "out") => Alike(s, u)
  BY <1>2, SparesTwice, TemporaryAlike DEF Temporary
<1>4. IsMemory(t) /\ Alike(s, t)
  BY <1>2, TemporaryAlike DEF Temporary, Spares
<1> QED BY <1>1, <1>3, <1>4

----------------------------------------------------------------------------
(***************************************************************************)
(* Endings and what they are worth.                                        *)
(***************************************************************************)
LEMMA Ending ==
    ASSUME NEW u, NEW e, NEW r
    PROVE  /\ Raise(u, e).s = u /\ Raise(u, e).err = e
           /\ Done(u, r).s = u /\ Done(u, r).err = "none"
BY DEF Raise, Done

LEMMA RefusesObeys ==
    ASSUME NEW s, NEW o, NEW may, NEW uses, Refuses(s, o)
    PROVE  Obeys(s, o, may, uses)
BY Ending DEF Refuses, Obeys, Alike

LEMMA ChangesObeys ==
    ASSUME NEW s, NEW o, NEW may, NEW uses, NEW x, Changes(s, x, o),
           x \in Named => x \in may, \A p \in uses : Owned(s, p)
    PROVE  Obeys(s, o, may, uses)
<1>1. PICK u, r : Spares(s, u, x) /\ o = Done(u, r)
  BY DEF Changes
<1>2. o.s = u /\ o.err = "none"
  BY <1>1, Ending
<1> QED BY <1>1, <1>2 DEF Obeys, Spares

\* A call that leaves the memory as it is, or refuses.
Raised(s, o) == \E e : e # "none" /\ o = Raise(s, e)
LEMMA RaisedObeys ==
    ASSUME NEW s, IsMemory(s), NEW o, Raised(s, o), NEW may, NEW uses
    PROVE  Obeys(s, o, may, uses)
BY RefusesObeys, AlikeItself DEF Refuses, Raised

LEMMA DoneObeys ==
    ASSUME NEW s, IsMemory(s), NEW r, NEW may, NEW uses, \A p \in uses : Owned(s, p)
    PROVE  Obeys(s, Done(s, r), may, uses)
BY Ending DEF Obeys

\* What a method has checked itself may be added to what it obeys.
LEMMA ObeysMore ==
    ASSUME NEW s, NEW o, NEW may, NEW uses, NEW all, Obeys(s, o, may, uses),
           \A p \in all : p \in uses \/ Owned(s, p)
    PROVE  Obeys(s, o, may, all)
BY DEF Obeys

LEMMA ObeysWider ==
    ASSUME NEW s, NEW o, NEW may, NEW more, NEW uses, Obeys(s, o, may, uses),
           may \subseteq more
    PROVE  Obeys(s, o, more, uses)
BY DEF Obeys

\* An owner stays one as long as nothing happens to the matrix.
LEMMA AlikeOwned ==
    ASSUME NEW s, NEW t, Alike(s, t)
    PROVE  \A p \in Named : Owned(t, p) <=> Owned(s, p)
BY DEF Alike, Owned

LEMMA AlikeObeys ==
    ASSUME NEW s, NEW t, Alike(s, t), NEW o, NEW may, NEW uses \in SUBSET Named,
           Obeys(t, o, may, uses)
    PROVE  Obeys(s, o, may, uses)
BY AlikeOwned DEF Alike, Obeys

----------------------------------------------------------------------------
(***************************************************************************)
(* Targets.  o is what a kernel makes of target t: it fills t.at with some *)
(* data, or changes no named matrix but t.at in some other way.            *)
(***************************************************************************)
Missed(t, o) == t.err # "none" /\ o = Raise(t.s, t.err)
Fills(t, o) ==
    \/ Missed(t, o)
    \/ t.err = "none" /\ \E d, r : o = Done(WithData(t.s, t.at, d), r)
Finishes(t, o) ==
    \/ Missed(t, o)
    \/ t.err = "none" /\ \E u, r : Spares(t.s, u, t.at) /\ o = Done(u, r)

\* What o does to the target that SetOutput finds for a matrix like x.
Outputs(s, x, mode, o) == \E t : t = SetOutput(s, x, mode) /\ Fills(t, o)

LEMMA FillsFinishes ==
    ASSUME NEW t, NEW o, Fills(t, o), IsMemory(t.s)
    PROVE  Finishes(t, o)
BY WithDataSpares DEF Fills, Finishes

LEMMA Finding ==
    ASSUME NEW s, NEW x, NEW e
    PROVE  /\ At(s, x).s = s /\ At(s, x).at = x /\ At(s, x).err = "none"
           /\ Not(s, e).s = s /\ Not(s, e).err = e
BY DEF At, Not

LEMMA UseOutTargetIs ==
    ASSUME NEW s, IsMemory(s), NEW x, NEW r, NEW c, NEW t, t = UseOutTarget(s, x, r, c)
    PROVE  /\ t.s = s
           /\ t.err = "none" => t.at = x /\ Owned(s, x)
BY Finding DEF UseOutTarget

\* Where it looks, SetOutput leaves the named matrices alone.
LEMMA SetOutputIs ==
    ASSUME NEW s, IsMemory(s), NEW x, NEW mode, NEW t, t = SetOutput(s, x, mode)
    PROVE  /\ Alike(s, t.s)
           /\ t.err = "none" => \/ mode = "fresh" /\ t.at = "out"
                                \/ mode = "in_place" /\ t.at = x
                                \/ t.at = mode /\ Owned(s, mode)
<1>1. CASE mode = "fresh"
  <2>1. PICK n : n = New(s, "out", Rows(s, x), Cols(s, x))
    OBVIOUS
  <2>2. t = At(n, "out") /\ Alike(s, n)
    BY <1>1, <2>1, FreshAlike DEF SetOutput
  <2> QED BY <1>1, <2>2, Finding
<1>2. CASE mode = "in_place"
  <2>1. t = At(s, x)
    BY <1>2 DEF SetOutput
  <2> QED BY <1>2, <2>1, Finding, AlikeItself
<1>3. CASE mode # "fresh" /\ mode # "in_place"
  <2>1. t = UseOutTarget(s, mode, Rows(s, x), Cols(s, x))
    BY <1>3 DEF SetOutput
  <2> QED BY <2>1, UseOutTargetIs, AlikeItself
<1> QED BY <1>1, <1>2, <1>3

LEMMA FinishesObeys ==
    ASSUME NEW s, IsMemory(s), NEW x, NEW mode, NEW t, t = SetOutput(s, x, mode),
           NEW o, Finishes(t, o),
           NEW may, mode = "in_place" /\ x \in Named => x \in may,
           {mode} \cap Named \subseteq may
    PROVE  Obeys(s, o, may, {mode} \cap Named)
<1>1. Alike(s, t.s)
  BY SetOutputIs
<1>2. CASE Missed(t, o)
  BY <1>1, <1>2, RefusesObeys DEF Missed, Refuses
<1>3. ASSUME t.err = "none", NEW u, NEW r, Spares(t.s, u, t.at), o = Done(u, r)
      PROVE  Obeys(s, o, may, {mode} \cap Named)
  <2>1. \/ mode = "fresh" /\ t.at = "out"
        \/ mode = "in_place" /\ t.at = x
        \/ t.at = mode /\ Owned(s, mode)
    BY <1>3, SetOutputIs
  <2>2. Changes(s, t.at, o)
    BY <1>1, <1>3, AlikeThenSpares DEF Changes
  <2>3. t.at \in Named => t.at \in may
    BY <2>1 DEF Named
  <2>4. \A p \in {mode} \cap Named : Owned(s, p)
    BY <2>1 DEF Named
  <2> QED BY <2>2, <2>3, <2>4, ChangesObeys
<1> QED BY <1>2, <1>3 DEF Finishes

\* The usual end of a method of x.
LEMMA OutputsObeys ==
    ASSUME NEW s, IsMemory(s), NEW x, Owned(s, x), NEW mode, NEW o, Outputs(s, x, mode, o)
    PROVE  Obeys(s, o, Target(x, mode), {x} \cup Target(x, mode))
<1>1. PICK t : t = SetOutput(s, x, mode) /\ Fills(t, o)
  BY DEF Outputs
<1>2. Finishes(t, o)
  BY <1>1, SetOutputIs, FillsFinishes DEF Alike
<1>3. Obeys(s, o, Target(x, mode), {mode} \cap Named)
  BY <1>1, <1>2, FinishesObeys DEF Target, Named
<1> QED BY <1>3, ObeysMore DEF Target

\* A method of x that has looked at operands by then, in a memory t that is alike.
LEMMA OutputsThenObeys ==
    ASSUME NEW s, IsMemory(s), NEW x \in Named, Owned(s, x), NEW t, Alike(s, t),
           NEW mode, NEW o, Outputs(t, x, mode, o),
           NEW uses, \A p \in uses : Owned(s, p) \/ p \in Target(x, mode)
    PROVE  Obeys(s, o, Target(x, mode), uses)
<1>1. Owned(t, x) /\ IsMemory(t)
  BY AlikeOwned DEF Alike
<1>2. Obeys(t, o, Target(x, mode), {x} \cup Target(x, mode))
  BY <1>1, OutputsObeys
<1>3. {x} \cup Target(x, mode) \in SUBSET Named
  BY DEF Target
<1>4. Obeys(s, o, Target(x, mode), {x} \cup Target(x, mode))
  BY <1>2, <1>3, AlikeObeys
<1> QED BY <1>4, ObeysMore

\* A matrix of the method's own.
Creates(s, o) == \E r, c, t : t = At(New(s, "out", r, c), "out") /\ Fills(t, o)

LEMMA CreatesObeys ==
    ASSUME NEW s, IsMemory(s), NEW o, Creates(s, o), NEW may,
           NEW uses, \A p \in uses : Owned(s, p)
    PROVE  Obeys(s, o, may, uses)
<1>1. PICK r, c, t : t = At(New(s, "out", r, c), "out") /\ Fills(t, o)
  BY DEF Creates
<1>2. PICK n : n = New(s, "out", r, c)
  OBVIOUS
<1>3. t.s = n /\ t.at = "out" /\ t.err = "none"
  BY <1>1, <1>2, Finding
<1>4. PICK d, v : o = Done(WithData(n, "out", d), v)
  BY <1>1, <1>3 DEF Fills, Missed
<1>5. IsMemory(n) /\ \A u : Spares(n, u, "out") => Alike(s, u)
  BY <1>2, FreshAlike
<1>6. Alike(s, WithData(n, "out", d))
  BY <1>5, WithDataSpares
<1>7. Spares(s, WithData(n, "out", d), "out")
  BY <1>6 DEF Alike, Spares
<1>8. Changes(s, "out", o)
  BY <1>4, <1>7 DEF Changes
<1> QED BY <1>8, ChangesObeys DEF Named

----------------------------------------------------------------------------
(***************************************************************************)
(* Operands.  What was found is the caller's, in a memory that is alike.   *)
(***************************************************************************)
IsOperand(o) == /\ o.kind \in {"mat", "view", "list", "num"}
                /\ Of(o) \subseteq Named
Serves(s, o, u) ==
    u.err = "none" => Alike(s, u.s) /\ \A p \in Of(o) : Owned(s, p)
PlaceOf(o, x) == IF o.kind = "mat" THEN o.at ELSE x

LEMMA BufferSpares ==
    ASSUME NEW s, IsMemory(s), NEW x, NEW m, NEW t, t = [s EXCEPT !.mat[x] = m], x \in Temporary
    PROVE  Alike(s, t)
BY AssignedSpares, TemporaryAlike

LEMMA FromSequenceIs ==
    ASSUME NEW s, IsMemory(s), NEW q, NEW x \in Temporary, NEW column, NEW u,
           u = FromSequence(s, q, x, column), u.err = "none"
    PROVE  Alike(s, u.s) /\ u.at = x
<1>1. CASE q = << >>
  BY <1>1, Finding DEF FromSequence
<1>2. CASE q # << >>
  <2>1. PICK m : u = At([s EXCEPT !.mat[x] = m], x)
    BY <1>2 DEF FromSequence, Buffer
  <2>2. Alike(s, [s EXCEPT !.mat[x] = m])
    BY BufferSpares
  <2> QED BY <2>1, <2>2, Finding
<1> QED BY <1>1, <1>2

LEMMA MaterializeIs ==
    ASSUME NEW s, IsMemory(s), NEW v, NEW x \in Temporary, NEW u, u = Materialize(s, v, x)
    PROVE  /\ u.s = s \/ u.err = "none"
           /\ u.err = "none" => Alike(s, u.s) /\ u.at = x /\ Owned(s, v.base)
<1>1. CASE ~Owned(s, v.base)
  BY <1>1, Finding DEF Materialize
<1>2. CASE Owned(s, v.base)
  <2>1. PICK m : u = At([s EXCEPT !.mat[x] = m], x)
    BY <1>2 DEF Materialize, Buffer
  <2>2. Alike(s, [s EXCEPT !.mat[x] = m])
    BY BufferSpares
  <2> QED BY <1>2, <2>1, <2>2, Finding
<1> QED BY <1>1, <1>2

LEMMA UnwrapIs ==
    ASSUME NEW s, IsMemory(s), NEW o, IsOperand(o), NEW x \in Temporary, NEW column,
           NEW u, u = Unwrap(s, o, x, column)
    PROVE  /\ Serves(s, o, u)
           /\ u.err = "none" => u.at = PlaceOf(o, x)
<1>1. CASE o.kind = "mat"
  <2>1. u = IF Owned(s, o.at) THEN At(s, o.at) ELSE Not(s, "owner")
    BY <1>1 DEF Unwrap
  <2>2. Of(o) = {o.at}
    BY <1>1 DEF Of
  <2> QED BY <1>1, <2>1, <2>2, Finding, AlikeItself DEF Serves, PlaceOf
<1>2. CASE o.kind = "view"
  <2>1. u = Materialize(s, o, x)
    BY <1>2 DEF Unwrap
  <2>2. Of(o) = {o.base}
    BY <1>2 DEF Of
  <2> QED BY <1>2, <2>1, <2>2, MaterializeIs DEF Serves, PlaceOf
<1>3. CASE o.kind = "list"
  <2>1. u = FromSequence(s, o.values, x, column)
    BY <1>3 DEF Unwrap
  <2>2. Of(o) = {}
    BY <1>3 DEF Of
  <2> QED BY <1>3, <2>1, <2>2, FromSequenceIs DEF Serves, PlaceOf
<1>4. CASE o.kind = "num"
  <2>1. u = Not(s, "type")
    BY <1>4 DEF Unwrap
  <2> QED BY <2>1, Finding DEF Serves
<1> QED BY <1>1, <1>2, <1>3, <1>4 DEF IsOperand

LEMMA UnwrapServes ==
    ASSUME NEW s, IsMemory(s), NEW o, IsOperand(o), NEW x \in Temporary, NEW column
    PROVE  Serves(s, o, Unwrap(s, o, x, column))
BY UnwrapIs

LEMMA UnwrapAt ==
    ASSUME NEW s, IsMemory(s), NEW o, IsOperand(o), NEW x \in Temporary, NEW column,
           Unwrap(s, o, x, column).err = "none"
    PROVE  Unwrap(s, o, x, column).at = PlaceOf(o, x)
BY UnwrapIs

LEMMA FactorIs ==
    ASSUME NEW s, NEW v, NEW t
    PROVE  /\ Repeated(s, v).s = s
           /\ Everywhere(t).s = t.s /\ Everywhere(t).err = t.err /\ Everywhere(t).at = t.at
BY DEF Repeated, Everywhere

LEMMA NumberServes ==
    ASSUME NEW s, IsMemory(s), NEW o, o.kind = "num", NEW v
    PROVE  Serves(s, o, Repeated(s, v))
BY FactorIs, AlikeItself DEF Serves, Of

LEMMA RefusalServes ==
    ASSUME NEW s, NEW o, NEW e, e # "none"
    PROVE  Serves(s, o, Everywhere(Not(s, e)))
BY FactorIs, Finding DEF Serves

LEMMA MatrixServes ==
    ASSUME NEW s, NEW o, o.kind = "mat", Owned(s, o.at), NEW u, Alike(s, u.s)
    PROVE  Serves(s, o, u)
BY DEF Serves, Of

LEMMA ClassifyBroadcastServes ==
    ASSUME NEW s, IsMemory(s), NEW o, IsOperand(o), NEW x, NEW tmp \in Temporary
    PROVE  Serves(s, o, ClassifyBroadcast(s, o, x, tmp))
<1>1. PICK u : u = ClassifyBroadcast(s, o, x, tmp)
  OBVIOUS
<1>2. CASE o.kind = "num"
  <2>1. u = Repeated(s, o.value)
    BY <1>1, <1>2 DEF ClassifyBroadcast
  <2> QED BY <1>1, <1>2, <2>1, NumberServes
<1>3. CASE o.kind \in {"list", "view"}
  <2>1. u = Everywhere(Not(s, "type"))
    BY <1>1, <1>3 DEF ClassifyBroadcast
  <2> QED BY <1>1, <2>1, RefusalServes
<1>4. CASE o.kind = "mat"
  <2>1. \/ u = Everywhere(Not(s, "owner")) \/ u = Everywhere(Not(s, "shape"))
        \/ Owned(s, o.at) /\ \E v : u = Repeated(s, v)
        \/ Owned(s, o.at) /\ u = Everywhere(At(s, o.at))
        \/ Owned(s, o.at) /\ \E m : u = Everywhere(At([s EXCEPT !.mat[tmp] = m], tmp))
    BY <1>1, <1>4 DEF ClassifyBroadcast, Buffer
  <2>2. CASE u = Everywhere(Not(s, "owner")) \/ u = Everywhere(Not(s, "shape"))
    BY <1>1, <2>2, RefusalServes
  <2>3. CASE Owned(s, o.at) /\ \E v : u = Repeated(s, v)
    BY <1>1, <1>4, <2>3, FactorIs, MatrixServes, AlikeItself
  <2>4. CASE Owned(s, o.at) /\ u = Everywhere(At(s, o.at))
    BY <1>1, <1>4, <2>4, FactorIs, Finding, MatrixServes, AlikeItself
  <2>5. ASSUME Owned(s, o.at), NEW m, u = Everywhere(At([s EXCEPT !.mat[tmp] = m], tmp))
        PROVE  Serves(s, o, u)
    <3>1. Alike(s, [s EXCEPT !.mat[tmp] = m])
      BY BufferSpares
    <3>2. u.s = [s EXCEPT !.mat[tmp] = m]
      BY <2>5, FactorIs, Finding
    <3> QED BY <1>4, <2>5, <3>1, <3>2, MatrixServes
  <2> QED BY <1>1, <2>1, <2>2, <2>3, <2>4, <2>5
<1> QED BY <1>2, <1>3, <1>4 DEF IsOperand

LEMMA WhereOperandServes ==
    ASSUME NEW s, IsMemory(s), NEW o, IsOperand(o), NEW mask, NEW tmp \in Temporary
    PROVE  Serves(s, o, WhereOperand(s, o, mask, tmp))
<1>1. PICK w : w = WhereOperand(s, o, mask, tmp)
  OBVIOUS
<1>2. PICK u : u = Unwrap(s, o, tmp, FALSE)
  OBVIOUS
<1>3. Serves(s, o, u)
  BY <1>2, UnwrapIs
<1>4. \/ o.kind = "num" /\ w = Repeated(s, o.value)
      \/ w = Everywhere(Not(s, "type")) \/ w = Everywhere(Not(s, "shape"))
      \/ w = Everywhere(u)
  BY <1>1, <1>2 DEF WhereOperand
<1>5. CASE o.kind = "num" /\ w = Repeated(s, o.value)
  BY <1>1, <1>5, NumberServes
<1>6. CASE w = Everywhere(Not(s, "type")) \/ w = Everywhere(Not(s, "shape"))
  BY <1>1, <1>6, RefusalServes
<1>7. CASE w = Everywhere(u)
  BY <1>1, <1>3, <1>7, FactorIs DEF Serves
<1> QED BY <1>4, <1>5, <1>6, <1>7

LEMMA ClassifyScatterServes ==
    ASSUME NEW s, IsMemory(s), NEW o, IsOperand(o), NEW r, NEW c
    PROVE  Serves(s, o, classify_scatter_rhs(s, o, r, c))
<1>1. PICK u : u = classify_scatter_rhs(s, o, r, c)
  OBVIOUS
<1>2. CASE o.kind = "num"
  <2>1. u = Repeated(s, o.value)
    BY <1>1, <1>2 DEF classify_scatter_rhs
  <2> QED BY <1>1, <1>2, <2>1, NumberServes
<1>3. CASE o.kind \in {"list", "view"}
  <2>1. u = Everywhere(Not(s, "type"))
    BY <1>1, <1>3 DEF classify_scatter_rhs
  <2> QED BY <1>1, <2>1, RefusalServes
<1>4. CASE o.kind = "mat"
  <2>1. \/ u = Everywhere(Not(s, "owner")) \/ u = Everywhere(Not(s, "shape"))
        \/ Owned(s, o.at) /\ \E v : u = Repeated(s, v)
        \/ Owned(s, o.at) /\ u = Everywhere(At(s, o.at))
    BY <1>1, <1>4 DEF classify_scatter_rhs
  <2> QED BY <1>1, <1>4, <2>1, RefusalServes, FactorIs, Finding, MatrixServes, AlikeItself
<1> QED BY <1>2, <1>3, <1>4 DEF IsOperand

----------------------------------------------------------------------------
(***************************************************************************)
(* The methods that compute.                                               *)
(***************************************************************************)
LEMMA UnaryObeys ==
    ASSUME NEW s, IsMemory(s), NEW f, NEW x, NEW mode
    PROVE  Obeys(s, Matrix_unary(s, f, x, mode), Target(x, mode), {x} \cup Target(x, mode))
<1>1. PICK o : o = Matrix_unary(s, f, x, mode)
  OBVIOUS
<1>2. \/ Raised(s, o)
      \/ Owned(s, x) /\ Outputs(s, x, mode, o)
  BY <1>1 DEF Matrix_unary, Acquired, Exclusive, Into, UnaryEwise, Sweep, Loop,
              Raised, Outputs, Fills, Missed
<1> QED BY <1>1, <1>2, RaisedObeys, OutputsObeys

LEMMA ClipObeys ==
    ASSUME NEW s, IsMemory(s), NEW x, NEW lo, NEW hi, NEW mode
    PROVE  Obeys(s, Matrix_clip(s, x, lo, hi, mode), Target(x, mode), {x} \cup Target(x, mode))
<1>1. PICK o : o = Matrix_clip(s, x, lo, hi, mode)
  OBVIOUS
<1>2. \/ Raised(s, o)
      \/ Owned(s, x) /\ Outputs(s, x, mode, o)
  BY <1>1 DEF Matrix_clip, Acquired, Exclusive, Into, Sweep, Loop,
              Raised, Outputs, Fills, Missed
<1> QED BY <1>1, <1>2, RaisedObeys, OutputsObeys

LEMMA FmaObeys ==
    ASSUME NEW s, IsMemory(s), NEW x \in Named, NEW bo, IsOperand(bo), NEW co, IsOperand(co),
           NEW mode
    PROVE  Obeys(s, Matrix_fma(s, x, bo, co, mode), Target(x, mode), {x} \cup Of(bo) \cup Of(co))
<1>1. PICK o : o = Matrix_fma(s, x, bo, co, mode)
  OBVIOUS
<1>2. PICK b : b = ClassifyBroadcast(s, bo, x, "lhs")
  OBVIOUS
<1>3. PICK c : c = ClassifyBroadcast(b.s, co, x, "rhs")
  OBVIOUS
<1>4. \/ Raised(s, o)
      \/ Owned(s, x) /\ b.err = "none" /\ c.err = "none" /\ Outputs(c.s, x, mode, o)
  BY <1>1, <1>2, <1>3 DEF Matrix_fma, Acquired, Into, Fma, Sweep, Loop,
                          Raised, Outputs, Fills, Missed
<1>5. ASSUME Owned(s, x), b.err = "none", c.err = "none", Outputs(c.s, x, mode, o)
      PROVE  Obeys(s, o, Target(x, mode), {x} \cup Of(bo) \cup Of(co))
  <2>1. Alike(s, b.s) /\ \A p \in Of(bo) : Owned(s, p)
    BY <1>2, <1>5, ClassifyBroadcastServes DEF Serves, Temporary
  <2>2. Alike(b.s, c.s) /\ \A p \in Of(co) : Owned(b.s, p)
    BY <1>3, <1>5, <2>1, ClassifyBroadcastServes DEF Serves, Temporary, Alike
  <2>3. Alike(s, c.s) /\ \A p \in Of(co) : Owned(s, p)
    BY <2>1, <2>2, AlikeTwice, AlikeOwned DEF IsOperand
  <2> QED BY <1>5, <2>1, <2>3, OutputsThenObeys
<1> QED BY <1>1, <1>4, <1>5, RaisedObeys

LEMMA ScaledAddObeys ==
    ASSUME NEW s, IsMemory(s), NEW y \in Named, NEW so, IsOperand(so), NEW xo, IsOperand(xo),
           NEW mode
    PROVE  Obeys(s, Matrix_scaled_add(s, y, so, xo, mode), Target(y, mode),
                 {y} \cup Of(so) \cup Of(xo))
<1>1. PICK o : o = Matrix_scaled_add(s, y, so, xo, mode)
  OBVIOUS
<1>2. PICK f : f = ClassifyBroadcast(s, so, y, "lhs")
  OBVIOUS
<1>3. PICK x : x = Unwrap(f.s, xo, "rhs", FALSE)
  OBVIOUS
<1>4. \/ Raised(s, o)
      \/ Owned(s, y) /\ f.err = "none" /\ x.err = "none" /\ Outputs(x.s, y, mode, o)
  BY <1>1, <1>2, <1>3 DEF Matrix_scaled_add, Acquired, Into, ScaledAdd, Sweep, Loop,
                          Raised, Outputs, Fills, Missed
<1>5. ASSUME Owned(s, y), f.err = "none", x.err = "none", Outputs(x.s, y, mode, o)
      PROVE  Obeys(s, o, Target(y, mode), {y} \cup Of(so) \cup Of(xo))
  <2>1. Alike(s, f.s) /\ \A p \in Of(so) : Owned(s, p)
    BY <1>2, <1>5, ClassifyBroadcastServes DEF Serves, Temporary
  <2>2. Alike(f.s, x.s) /\ \A p \in Of(xo) : Owned(f.s, p)
    <3>1. IsMemory(f.s) /\ "rhs" \in Temporary
      BY <2>1 DEF Alike, Temporary
    <3>2. Serves(f.s, xo, x)
      BY <1>3, <3>1, UnwrapServes
    <3> QED BY <1>5, <3>2 DEF Serves
  <2>3. Alike(s, x.s) /\ \A p \in Of(xo) : Owned(s, p)
    BY <2>1, <2>2, AlikeTwice, AlikeOwned DEF IsOperand
  <2> QED BY <1>5, <2>1, <2>3, OutputsThenObeys
<1> QED BY <1>1, <1>4, <1>5, RaisedObeys

LEMMA BinObeys ==
    ASSUME NEW s, IsMemory(s), NEW x, NEW n, NEW bounds, NEW right, NEW mode
    PROVE  Obeys(s, Matrix_bin(s, x, n, bounds, right, mode), Target(x, mode),
                 {x} \cup Target(x, mode))
<1>1. PICK o : o = Matrix_bin(s, x, n, bounds, right, mode)
  OBVIOUS
<1>2. \/ Raised(s, o)
      \/ Owned(s, x) /\ Outputs(s, x, mode, o)
  BY <1>1 DEF Matrix_bin, Acquired, Exclusive, Into, Sweep, Loop,
              Raised, Outputs, Fills, Missed
<1> QED BY <1>1, <1>2, RaisedObeys, OutputsObeys

LEMMA DigitizeObeys ==
    ASSUME NEW s, IsMemory(s), NEW x \in Named, NEW eo, IsOperand(eo), NEW right, NEW mode
    PROVE  Obeys(s, Matrix_digitize(s, x, eo, right, mode), Target(x, mode),
                 {x} \cup Of(eo) \cup Target(x, mode))
<1>1. PICK o : o = Matrix_digitize(s, x, eo, right, mode)
  OBVIOUS
<1>2. PICK e : e = Unwrap(s, eo, "rhs", FALSE)
  OBVIOUS
<1>3. \/ Raised(s, o)
      \/ Owned(s, x) /\ e.err = "none" /\ Outputs(e.s, x, mode, o)
  BY <1>1, <1>2 DEF Matrix_digitize, Acquired, Exclusive, Into, Sweep, Loop,
                    Raised, Outputs, Fills, Missed
<1>4. ASSUME Owned(s, x), e.err = "none", Outputs(e.s, x, mode, o)
      PROVE  Obeys(s, o, Target(x, mode), {x} \cup Of(eo) \cup Target(x, mode))
  <2>1. Alike(s, e.s) /\ \A p \in Of(eo) : Owned(s, p)
    BY <1>2, <1>4, UnwrapIs DEF Serves, Temporary
  <2> QED BY <1>4, <2>1, OutputsThenObeys
<1> QED BY <1>1, <1>3, <1>4, RaisedObeys

LEMMA WhereObeys ==
    ASSUME NEW s, IsMemory(s), NEW mask \in Named, NEW ao, IsOperand(ao), NEW bo, IsOperand(bo),
           NEW mode
    PROVE  Obeys(s, Matrix_where(s, mask, ao, bo, mode), Target(mask, mode),
                 {mask} \cup Of(ao) \cup Of(bo) \cup Target(mask, mode))
<1>1. PICK o : o = Matrix_where(s, mask, ao, bo, mode)
  OBVIOUS
<1>2. PICK a : a = WhereOperand(s, ao, mask, "lhs")
  OBVIOUS
<1>3. PICK b : b = WhereOperand(a.s, bo, mask, "rhs")
  OBVIOUS
<1>4. \/ Raised(s, o)
      \/ Owned(s, mask) /\ a.err = "none" /\ b.err = "none" /\ Outputs(b.s, mask, mode, o)
  BY <1>1, <1>2, <1>3 DEF Matrix_where, Acquired, Into, Sweep, Loop,
                          Raised, Outputs, Fills, Missed
<1>5. ASSUME Owned(s, mask), a.err = "none", b.err = "none", Outputs(b.s, mask, mode, o)
      PROVE  Obeys(s, o, Target(mask, mode), {mask} \cup Of(ao) \cup Of(bo) \cup Target(mask, mode))
  <2>1. Alike(s, a.s) /\ \A p \in Of(ao) : Owned(s, p)
    BY <1>2, <1>5, WhereOperandServes DEF Serves, Temporary
  <2>2. Alike(a.s, b.s) /\ \A p \in Of(bo) : Owned(a.s, p)
    BY <1>3, <1>5, <2>1, WhereOperandServes DEF Serves, Temporary, Alike
  <2>3. Alike(s, b.s) /\ \A p \in Of(bo) : Owned(s, p)
    BY <2>1, <2>2, AlikeTwice, AlikeOwned DEF IsOperand
  <2> QED BY <1>5, <2>1, <2>3, OutputsThenObeys
<1> QED BY <1>1, <1>4, <1>5, RaisedObeys

LEMMA PerpendicularObeys ==
    ASSUME NEW s, IsMemory(s), NEW x \in Named, NEW axis, NEW mode
    PROVE  Obeys(s, Matrix_perpendicular(s, x, axis, mode), Target(x, mode), {x})
<1>1. PICK o : o = Matrix_perpendicular(s, x, axis, mode)
  OBVIOUS
<1>2. \/ Raised(s, o)
      \/ Owned(s, x) /\ Outputs(s, x, mode, o)
  BY <1>1 DEF Matrix_perpendicular, Acquired, WithAxis, Into,
              Raised, Outputs, Fills, Missed
<1> QED BY <1>1, <1>2, RaisedObeys, OutputsThenObeys, AlikeItself

\* The two operands of a binary method, one after the other.
ServeBoth(s, lo, ro, l, r) ==
    /\ Alike(s, r.s) /\ \A p \in Of(lo) \cup Of(ro) : Owned(s, p)
    /\ l.at = PlaceOf(lo, "lhs") /\ r.at = PlaceOf(ro, "rhs")

LEMMA UnwrapBoth ==
    ASSUME NEW s, IsMemory(s), NEW lo, IsOperand(lo), NEW ro, IsOperand(ro),
           NEW l, l = Unwrap(s, lo, "lhs", FALSE), NEW r, r = Unwrap(l.s, ro, "rhs", FALSE),
           l.err = "none", r.err = "none"
    PROVE  ServeBoth(s, lo, ro, l, r)
<1>1. "lhs" \in Temporary /\ "rhs" \in Temporary
  BY DEF Temporary
<1>2. Alike(s, l.s) /\ \A p \in Of(lo) : Owned(s, p)
  BY <1>1, UnwrapServes DEF Serves
<1>3. IsMemory(l.s)
  BY <1>2 DEF Alike
<1>4. Serves(l.s, ro, r)
  BY <1>1, <1>3, UnwrapServes
<1>5. Alike(l.s, r.s) /\ \A p \in Of(ro) : Owned(l.s, p)
  BY <1>4 DEF Serves
<1>6. Alike(s, r.s) /\ \A p \in Of(lo) \cup Of(ro) : Owned(s, p)
  BY <1>2, <1>5, AlikeTwice, AlikeOwned DEF IsOperand
<1>7. l.at = PlaceOf(lo, "lhs")
  BY <1>1, UnwrapAt
<1>8. r.at = PlaceOf(ro, "rhs")
  BY <1>1, <1>3, UnwrapAt
<1> QED BY <1>6, <1>7, <1>8 DEF ServeBoth

\* A product is made in a matrix of its own, which is cleared and then added to.
LEMMA MatMulSpares ==
    ASSUME NEW s, IsMemory(s), NEW l, NEW r, NEW out
    PROVE  Spares(s, MatMul(s, l, r, out), out)
<1>1. PICK u : u = Sweep(s, out, Size(s, out), LAMBDA t, i : 0)
  OBVIOUS
<1>2. Spares(s, u, out)
  BY <1>1, WithDataSpares DEF Sweep, Loop
<1>3. \E d : MatMul(s, l, r, out) = WithData(u, out, d)
  <2>1. \E d : MatMul(s, l, r, out)
                 = WithData(Sweep(s, out, Size(s, out), LAMBDA t, i : 0), out, d)
    BY DEF MatMul, Loop
  <2> QED BY <1>1, <2>1
<1>4. \A d : Spares(u, WithData(u, out, d), out)
  BY <1>2, WithDataSpares DEF Spares
<1> QED BY <1>2, <1>3, <1>4, SparesTwice

LEMMA MatmulObeys ==
    ASSUME NEW s, IsMemory(s), NEW lo, IsOperand(lo), NEW ro, IsOperand(ro)
    PROVE  Obeys(s, Matrix_matmul(s, lo, ro), {}, Of(lo) \cup Of(ro))
<1>1. PICK o : o = Matrix_matmul(s, lo, ro)
  OBVIOUS
<1>2. PICK l : l = Unwrap(s, lo, "lhs", FALSE)
  OBVIOUS
<1>3. PICK r : r = Unwrap(l.s, ro, "rhs", FALSE)
  OBVIOUS
<1>4. PICK n : n = New(r.s, "out", Rows(r.s, l.at), Cols(r.s, r.at))
  OBVIOUS
<1>5. PICK a : a = At(n, "out")
  OBVIOUS
<1>6. a.err = "none" /\ a.s = n /\ a.at = "out"
  BY <1>5, Finding
<1>7. \/ Raised(s, o)
      \/ /\ l.err = "none" /\ r.err = "none"
         /\ o = Done(MatMul(a.s, l.at, r.at, a.at), Ref(a.at))
  BY <1>1, <1>2, <1>3, <1>4, <1>5, <1>6 DEF Matrix_matmul, Fresh, Into, Raised
<1>8. ASSUME l.err = "none", r.err = "none", o = Done(MatMul(a.s, l.at, r.at, a.at), Ref(a.at))
      PROVE  Obeys(s, o, {}, Of(lo) \cup Of(ro))
  <2>1. Alike(s, r.s) /\ \A p \in Of(lo) \cup Of(ro) : Owned(s, p)
    <3>1. ServeBoth(s, lo, ro, l, r)
      BY <1>2, <1>3, <1>8, UnwrapBoth
    <3> QED BY <3>1 DEF ServeBoth
  <2>2. IsMemory(n) /\ \A u : Spares(n, u, "out") => Alike(r.s, u)
    BY <1>4, <2>1, FreshAlike DEF Alike
  <2>3. Alike(s, MatMul(n, l.at, r.at, "out"))
    BY <2>1, <2>2, MatMulSpares, AlikeTwice
  <2>4. Changes(s, "out", o)
    BY <1>6, <1>8, <2>3 DEF Changes, Alike, Spares
  <2> QED BY <2>1, <2>4, ChangesObeys DEF Named
<1> QED BY <1>1, <1>7, <1>8, RaisedObeys

\* A target given as out, or one of the method's own, whatever its shape.
LEMMA GivenObeys ==
    ASSUME NEW s, IsMemory(s), NEW mode, NEW r, NEW c, NEW t, NEW o, Fills(t, o),
           IF mode = "fresh" THEN t = At(New(s, "out", r, c), "out")
                             ELSE t = UseOutTarget(s, mode, r, c)
    PROVE  Obeys(s, o, {mode} \cap Named, {mode} \cap Named)
<1>1. CASE mode = "fresh"
  <2>2. Creates(s, o)
    BY <1>1 DEF Creates
  <2>3. {mode} \cap Named = {}
    BY <1>1 DEF Named
  <2> QED BY <2>2, <2>3, CreatesObeys
<1>2. CASE mode # "fresh"
  <2>1. t.s = s /\ (t.err = "none" => t.at = mode /\ Owned(s, mode))
    BY <1>2, UseOutTargetIs
  <2>2. CASE Missed(t, o)
    BY <2>1, <2>2, RaisedObeys DEF Missed, Raised
  <2>3. CASE t.err = "none" /\ \E d, v : o = Done(WithData(t.s, t.at, d), v)
    <3>1. Changes(s, mode, o)
      BY <2>1, <2>3, WithDataSpares DEF Changes
    <3> QED BY <2>1, <2>3, <3>1, ChangesObeys
  <2> QED BY <2>2, <2>3 DEF Fills
<1> QED BY <1>1, <1>2

LEMMA OuterObeys ==
    ASSUME NEW s, IsMemory(s), NEW f, NEW col, NEW row, NEW mode
    PROVE  Obeys(s, Outer(s, f, col, row, mode), {mode} \cap Named, {mode} \cap Named)
<1>1. PICK o : o = Outer(s, f, col, row, mode)
  OBVIOUS
<1>2. PICK t : t = IF mode = "fresh"
                   THEN At(New(s, "out", Rows(s, col), Cols(s, row)), "out")
                   ELSE UseOutTarget(s, mode, Rows(s, col), Cols(s, row))
  OBVIOUS
<1>3. Raised(s, o) \/ Fills(t, o)
  BY <1>1, <1>2 DEF Outer, Into, BinOuter, Sweep, Loop, Raised, Fills, Missed
<1> QED BY <1>1, <1>2, <1>3, RaisedObeys, GivenObeys

\* The receiver l would have to grow to hold what comes of it and r.
Grows(s, l, r) == \/ Rows(s, l) = 1 /\ Cols(s, l) # 1 /\ Rows(s, r) # 1
                  \/ Cols(s, l) = 1 /\ Rows(s, l) # 1 /\ Cols(s, r) # 1

\* The target is like the operand that is not repeated.
LEMMA TwoMatricesOutputs ==
    ASSUME NEW s, NEW f, NEW l, NEW r, NEW mode, NEW o, o = TwoMatrices(s, f, l, r, mode)
    PROVE  \/ Raised(s, o)
           \/ Outputs(s, l, mode, o)
           \/ Outputs(s, r, mode, o) /\ (mode = "in_place" => Grows(s, l, r))
           \/ \E g, col, row : o = Outer(s, g, col, row, mode)
<1>1. CASE Size(s, r) = 1
  <2>1. o = Into(SetOutput(s, l, mode), LAMBDA t, out : BinScalar(t, f, l, Val(s, r, 0), out))
    BY <1>1 DEF TwoMatrices
  <2> QED BY <2>1 DEF Into, BinScalar, Sweep, Loop, Outputs, Fills, Missed
<1>2. CASE Size(s, r) # 1 /\ Size(s, l) = 1
  <2>0. ~SameShape(s, l, r)
    BY <1>2 DEF SameShape, Size
  <2>1. \/ o = Raise(s, "shape")
        \/ /\ mode # "in_place"
           /\ o = Into(SetOutput(s, r, mode),
                       LAMBDA t, out : BinScalar(t, SwapRight(f), r, Val(s, l, 0), out))
    BY <1>2, <2>0 DEF TwoMatrices
  <2> QED BY <2>1 DEF Into, BinScalar, Sweep, Loop, Outputs, Fills, Missed, Raised
<1>3. CASE SameShape(s, l, r) /\ Size(s, r) # 1 /\ Size(s, l) # 1
  <2>1. o = Into(SetOutput(s, l, mode), LAMBDA t, out : BinEwise(t, f, l, r, out))
    BY <1>3 DEF TwoMatrices
  <2> QED BY <2>1 DEF Into, BinEwise, Sweep, Loop, Outputs, Fills, Missed
<1>4. CASE ~SameShape(s, l, r) /\ Size(s, r) # 1 /\ Size(s, l) # 1
  <2>1. \/ o = Raise(s, "shape")
        \/ \E g, col, row : o = Outer(s, g, col, row, mode)
        \/ /\ Rows(s, l) # Rows(s, r) /\ Cols(s, l) = Cols(s, r) /\ Rows(s, l) = 1
           /\ o = Into(SetOutput(s, r, mode),
                       LAMBDA t, out : BinRowwise(t, SwapRight(f), r, l, out))
        \/ o = Into(SetOutput(s, l, mode), LAMBDA t, out : BinRowwise(t, f, l, r, out))
        \/ /\ Rows(s, l) = Rows(s, r) /\ Cols(s, l) = 1
           /\ o = Into(SetOutput(s, r, mode),
                       LAMBDA t, out : BinColumnwise(t, SwapRight(f), r, l, out))
        \/ o = Into(SetOutput(s, l, mode), LAMBDA t, out : BinColumnwise(t, f, l, r, out))
    BY <1>4 DEF TwoMatrices
  <2>2. CASE o = Raise(s, "shape")
    BY <2>2 DEF Raised
  <2>3. CASE o = Into(SetOutput(s, l, mode), LAMBDA t, out : BinRowwise(t, f, l, r, out))
    BY <2>3 DEF Into, BinRowwise, Sweep, Loop, Outputs, Fills, Missed
  <2>4. CASE o = Into(SetOutput(s, l, mode), LAMBDA t, out : BinColumnwise(t, f, l, r, out))
    BY <2>4 DEF Into, BinColumnwise, Sweep, Loop, Outputs, Fills, Missed
  <2>5. CASE /\ Rows(s, l) # Rows(s, r) /\ Cols(s, l) = Cols(s, r) /\ Rows(s, l) = 1
             /\ o = Into(SetOutput(s, r, mode),
                         LAMBDA t, out : BinRowwise(t, SwapRight(f), r, l, out))
    <3>1. Outputs(s, r, mode, o)
      BY <2>5 DEF Into, BinRowwise, Sweep, Loop, Outputs, Fills, Missed
    <3>2. Rows(s, l) # Rows(s, r) /\ Rows(s, l) = 1
      BY <2>5
    <3>3. Grows(s, l, r)
      BY <1>4, <3>2 DEF Grows, Size
    <3> QED BY <3>1, <3>3
  <2>6. CASE /\ Rows(s, l) = Rows(s, r) /\ Cols(s, l) = 1
             /\ o = Into(SetOutput(s, r, mode),
                         LAMBDA t, out : BinColumnwise(t, SwapRight(f), r, l, out))
    <3>1. Outputs(s, r, mode, o)
      BY <2>6 DEF Into, BinColumnwise, Sweep, Loop, Outputs, Fills, Missed
    <3>2. Rows(s, l) = Rows(s, r) /\ Cols(s, l) = 1
      BY <2>6
    <3>3. Grows(s, l, r)
      BY <1>4, <3>2 DEF Grows, Size, SameShape
    <3> QED BY <3>1, <3>3
  <2> QED BY <2>1, <2>2, <2>3, <2>4, <2>5, <2>6
<1> QED BY <1>1, <1>2, <1>3, <1>4

\* In place, l must not have to grow to hold what comes of it and r.
LEMMA TwoMatricesObeys ==
    ASSUME NEW s, IsMemory(s), NEW f, NEW l, NEW r, NEW mode, NEW may,
           {mode} \cap Named \subseteq may,
           mode = "in_place" => /\ l \in Named => l \in may
                                /\ r \in Named => r \in may \/ ~Grows(s, l, r)
    PROVE  Obeys(s, TwoMatrices(s, f, l, r, mode), may, {mode} \cap Named)
<1>1. PICK o : o = TwoMatrices(s, f, l, r, mode)
  OBVIOUS
<1>2. ASSUME NEW x, Outputs(s, x, mode, o), mode = "in_place" /\ x \in Named => x \in may
      PROVE  Obeys(s, o, may, {mode} \cap Named)
  <2>1. PICK t : t = SetOutput(s, x, mode) /\ Fills(t, o)
    BY <1>2 DEF Outputs
  <2>2. Finishes(t, o)
    BY <2>1, SetOutputIs, FillsFinishes DEF Alike
  <2> QED BY <1>2, <2>1, <2>2, FinishesObeys
<1>3. CASE Raised(s, o)
  BY <1>1, <1>3, RaisedObeys
<1>4. CASE Outputs(s, l, mode, o)
  BY <1>1, <1>2, <1>4
<1>5. CASE Outputs(s, r, mode, o) /\ (mode = "in_place" => Grows(s, l, r))
  BY <1>1, <1>2, <1>5
<1>6. CASE \E g, col, row : o = Outer(s, g, col, row, mode)
  BY <1>1, <1>6, OuterObeys, ObeysWider
<1> QED BY <1>1, <1>3, <1>4, <1>5, <1>6, TwoMatricesOutputs

LEMMA WithScalarObeys ==
    ASSUME NEW s, IsMemory(s), NEW f, NEW v, NEW o, IsOperand(o), NEW mode, NEW may,
           {mode} \cap Named \subseteq may, mode = "in_place" => Of(o) \subseteq may
    PROVE  Obeys(s, WithScalar(s, f, v, o, mode), may, Of(o) \cup ({mode} \cap Named))
<1>1. PICK a : a = WithScalar(s, f, v, o, mode)
  OBVIOUS
<1>2. PICK u : u = Unwrap(s, o, "lhs", FALSE)
  OBVIOUS
<1>3. \/ Raised(s, a)
      \/ u.err = "none" /\ Outputs(u.s, u.at, mode, a)
  BY <1>1, <1>2 DEF WithScalar, Into, BinScalar, Sweep, Loop, Raised, Outputs, Fills, Missed
<1>4. ASSUME u.err = "none", Outputs(u.s, u.at, mode, a)
      PROVE  Obeys(s, a, may, Of(o) \cup ({mode} \cap Named))
  <2>1. /\ Alike(s, u.s) /\ \A p \in Of(o) : Owned(s, p)
        /\ u.at \in Named => u.at \in Of(o)
    <3>1. "lhs" \in Temporary /\ "lhs" \notin Named
      BY DEF Temporary, Named
    <3>2. Serves(s, o, u) /\ u.at = PlaceOf(o, "lhs")
      BY <1>2, <1>4, <3>1, UnwrapIs
    <3> QED BY <1>4, <3>1, <3>2 DEF Serves, PlaceOf, Of
  <2>2. PICK t : t = SetOutput(u.s, u.at, mode) /\ Fills(t, a)
    BY <1>4 DEF Outputs
  <2>3. IsMemory(u.s)
    BY <2>1 DEF Alike
  <2>4. Finishes(t, a)
    BY <2>2, <2>3, SetOutputIs, FillsFinishes DEF Alike
  <2>5. Obeys(u.s, a, may, {mode} \cap Named)
    BY <2>1, <2>2, <2>3, <2>4, FinishesObeys
  <2> QED BY <2>1, <2>5, AlikeObeys, ObeysMore
<1> QED BY <1>1, <1>3, <1>4, RaisedObeys

LEMMA BinaryObeys ==
    ASSUME NEW s, IsMemory(s), NEW f, NEW lo, IsOperand(lo), NEW ro, IsOperand(ro),
           NEW mode, NEW may, {mode} \cap Named \subseteq may,
           mode = "in_place" => /\ lo.kind = "mat" /\ lo.at \in may
                                /\ ro.kind = "mat" => \/ ro.at \in may
                                                      \/ ~Grows(s, lo.at, ro.at)
    PROVE  Obeys(s, Matrix_binary_op(s, f, lo, ro, mode), may,
                 Of(lo) \cup Of(ro) \cup ({mode} \cap Named))
<1> DEFINE uses == Of(lo) \cup Of(ro) \cup ({mode} \cap Named)
<1>1. PICK o : o = Matrix_binary_op(s, f, lo, ro, mode)
  OBVIOUS
<1>2. CASE lo.kind = "num"
  <2>1. o = WithScalar(s, SwapRight(f), lo.value, ro, mode)
    BY <1>1, <1>2 DEF Matrix_binary_op
  <2>2. Of(lo) = {} /\ mode # "in_place"
    BY <1>2 DEF Of
  <2> QED BY <1>1, <2>1, <2>2, WithScalarObeys
<1>3. CASE lo.kind # "num" /\ ro.kind = "num"
  <2>1. o = WithScalar(s, f, ro.value, lo, mode)
    BY <1>1, <1>3 DEF Matrix_binary_op
  <2>2. Of(ro) = {} /\ (mode = "in_place" => Of(lo) \subseteq may)
    BY <1>3 DEF Of
  <2> QED BY <1>1, <2>1, <2>2, WithScalarObeys
<1>4. CASE lo.kind # "num" /\ ro.kind # "num"
  <2>1. PICK l : l = Unwrap(s, lo, "lhs", FALSE)
    OBVIOUS
  <2>2. PICK r : r = Unwrap(l.s, ro, "rhs", FALSE)
    OBVIOUS
  <2>3. \/ Raised(s, o)
        \/ /\ l.err = "none" /\ r.err = "none"
           /\ o = TwoMatrices(r.s, f, l.at, r.at, mode)
    BY <1>1, <1>4, <2>1, <2>2 DEF Matrix_binary_op, Raised
  <2>4. ASSUME l.err = "none", r.err = "none", o = TwoMatrices(r.s, f, l.at, r.at, mode)
        PROVE  Obeys(s, o, may, uses)
    <3>1. ServeBoth(s, lo, ro, l, r)
      BY <2>1, <2>2, <2>4, UnwrapBoth
    <3>4. Alike(s, r.s) /\ \A p \in Of(lo) \cup Of(ro) : Owned(s, p)
      BY <3>1 DEF ServeBoth
    <3>2. "lhs" \notin Named /\ "rhs" \notin Named
      BY DEF Named
    <3>3. l.at = PlaceOf(lo, "lhs")
      BY <3>1 DEF ServeBoth
    <3>5. r.at = PlaceOf(ro, "rhs")
      BY <3>1 DEF ServeBoth
    <3>6. IsMemory(r.s) /\ \A p \in Named : Rows(r.s, p) = Rows(s, p) /\ Cols(r.s, p) = Cols(s, p)
      BY <3>4 DEF Alike, Rows, Cols
    <3>7. mode = "in_place" => /\ l.at \in Named => l.at \in may
                               /\ r.at \in Named => r.at \in may \/ ~Grows(r.s, l.at, r.at)
      <4>1. SUFFICES ASSUME mode = "in_place", r.at \in Named, r.at \notin may
                     PROVE  l.at \in may /\ ~Grows(r.s, l.at, r.at)
        BY <3>2, <3>3 DEF PlaceOf
      <4>2. l.at = lo.at /\ lo.at \in Named /\ lo.at \in may
        BY <4>1, <3>3 DEF IsOperand, Of, PlaceOf
      <4>3. r.at = ro.at /\ ro.kind = "mat"
        BY <4>1, <3>2, <3>5 DEF PlaceOf
      <4>4. ~Grows(s, lo.at, ro.at)
        BY <4>1, <4>3
      <4> QED BY <3>6, <4>1, <4>2, <4>3, <4>4 DEF Grows
    <3>8. Obeys(r.s, o, may, {mode} \cap Named)
      BY <2>4, <3>6, <3>7, TwoMatricesObeys
    <3> QED BY <3>4, <3>8, AlikeObeys, ObeysMore
  <2> QED BY <1>1, <2>3, <2>4, RaisedObeys
<1> QED BY <1>2, <1>3, <1>4

----------------------------------------------------------------------------
(***************************************************************************)
(* Reductions, and the methods built on them.                              *)
(***************************************************************************)
LEMMA AggColumnwiseSpares ==
    ASSUME NEW s, IsMemory(s), NEW k, NEW x, NEW out
    PROVE  Spares(s, AggColumnwise(s, k, x, out), out)
<1>1. \E a, b, d : AggColumnwise(s, k, x, out)
                     = WithData(WithData(WithData(s, out, a), out, b), out, d)
  BY DEF AggColumnwise, Sweep, Loop
<1>2. \A t, d : Spares(s, t, out) => Spares(s, WithData(t, out, d), out)
  BY WithDataSpares, SparesTwice DEF Spares
<1>3. \A a : Spares(s, WithData(s, out, a), out)
  BY WithDataSpares
<1> QED BY <1>1, <1>2, <1>3

LEMMA AggRowwiseSpares ==
    ASSUME NEW s, IsMemory(s), NEW k, NEW x, NEW out
    PROVE  Spares(s, AggRowwise(s, k, x, out), out)
BY WithDataSpares DEF AggRowwise, Sweep, Loop

\* The magnitudes are kept at a place of their own, "rhs".
LEMMA NormalizeObeys ==
    ASSUME NEW s, IsMemory(s), NEW x \in Named, NEW axis, NEW mode
    PROVE  Obeys(s, Matrix_normalize(s, x, axis, mode), Target(x, mode), {x})
<1> DEFINE Sanitize(t) == Sweep(t, "rhs", Size(t, "rhs"),
                                LAMBDA u, i : IF Val(u, "rhs", i) = 0 THEN 1
                                              ELSE Val(u, "rhs", i))
           Total(t, out) ==
               LET m == AggLanes("Magnitude", Size(t, x), t.mat[x].data)
               IN IF m # 0 THEN BinScalar(t, "Divide", x, m, out)
                  ELSE IF out = x THEN t ELSE Copied(t, x, out)
           ByColumn(t, out) ==
               BinRowwise(Sanitize(AggColumnwise(New(t, "rhs", 1, Cols(t, x)),
                                                 "Magnitude", x, "rhs")),
                          "Divide", x, "rhs", out)
           ByRow(t, out) ==
               BinColumnwise(Sanitize(AggRowwise(New(t, "rhs", Rows(t, x), 1),
                                                 "Magnitude", x, "rhs")),
                             "Divide", x, "rhs", out)
<1>1. PICK o : o = Matrix_normalize(s, x, axis, mode)
  OBVIOUS
<1>2. PICK t : t = SetOutput(s, x, mode)
  OBVIOUS
<1>3. IsAxis(axis) => NormalisedAxis(axis) \in {None, 0, 1}
  BY DEF IsAxis, NormalisedAxis
<1>4. PICK a : a = NormalisedAxis(axis)
  OBVIOUS
<1>5. \/ Raised(s, o)
      \/ Owned(s, x) /\ Missed(SetOutput(s, x, mode), o)
      \/ /\ Owned(s, x) /\ SetOutput(s, x, mode).err = "none" /\ a \in {None, 0, 1}
         /\ o = Done(CASE a = None -> Total(SetOutput(s, x, mode).s, SetOutput(s, x, mode).at)
                       [] a = 0 -> ByColumn(SetOutput(s, x, mode).s, SetOutput(s, x, mode).at)
                       [] a = 1 -> ByRow(SetOutput(s, x, mode).s, SetOutput(s, x, mode).at),
                     Ref(SetOutput(s, x, mode).at))
  BY <1>1, <1>3, <1>4 DEF Matrix_normalize, Acquired, WithAxis, Into, Raised, Missed
<1>6. PICK w : w = Total(t.s, t.at)
  OBVIOUS
<1>7. PICK c : c = ByColumn(t.s, t.at)
  OBVIOUS
<1>8. PICK l : l = ByRow(t.s, t.at)
  OBVIOUS
<1>9. \/ Raised(s, o)
      \/ Owned(s, x) /\ Missed(t, o)
      \/ Owned(s, x) /\ t.err = "none" /\ \E u \in {w, c, l} : \E r : o = Done(u, r)
  <2> HIDE DEF Total, ByColumn, ByRow
  <2> QED BY <1>2, <1>5, <1>6, <1>7, <1>8
<1>10. Alike(s, t.s) /\ IsMemory(t.s)
  BY <1>2, SetOutputIs DEF Alike
<1>11. Spares(t.s, w, t.at)
  <2>1. w = t.s \/ \E d : w = WithData(t.s, t.at, d)
    BY <1>6 DEF BinScalar, Copied, Sweep, Loop
  <2> QED BY <1>10, <2>1, WithDataSpares DEF Spares
<1>12. ASSUME NEW n, NEW r, NEW k, n = New(t.s, "rhs", r, k), NEW g, Spares(n, g, "rhs"), NEW b, NEW d
       PROVE  Spares(t.s, WithData(WithData(g, "rhs", b), t.at, d), t.at)
  <2>1. Spares(t.s, n, "rhs")
    BY <1>10, <1>12, NewSpares
  <2>2. Spares(t.s, g, "rhs")
    BY <1>12, <2>1, SparesTwice
  <2>3. Spares(g, WithData(g, "rhs", b), "rhs")
    BY <2>2, WithDataSpares DEF Spares
  <2>4. Spares(t.s, WithData(g, "rhs", b), "rhs")
    BY <2>2, <2>3, SparesTwice
  <2>5. Alike(t.s, WithData(g, "rhs", b))
    BY <2>4, TemporaryAlike DEF Temporary
  <2>6. IsMemory(WithData(g, "rhs", b))
    BY <2>5 DEF Alike
  <2> QED BY <2>5, <2>6, AlikeThenSpares, WithDataSpares
<1>13. Spares(t.s, c, t.at)
  <2>1. PICK n : n = New(t.s, "rhs", 1, Cols(t.s, x))
    OBVIOUS
  <2>2. PICK g : g = AggColumnwise(n, "Magnitude", x, "rhs")
    OBVIOUS
  <2>3. Spares(n, g, "rhs")
    BY <1>10, <2>1, <2>2, NewSpares, AggColumnwiseSpares DEF Spares
  <2>4. \E b, d : c = WithData(WithData(g, "rhs", b), t.at, d)
    BY <1>7, <2>1, <2>2 DEF BinRowwise, Sweep, Loop
  <2> QED BY <1>12, <2>1, <2>3, <2>4
<1>14. Spares(t.s, l, t.at)
  <2>1. PICK n : n = New(t.s, "rhs", Rows(t.s, x), 1)
    OBVIOUS
  <2>2. PICK g : g = AggRowwise(n, "Magnitude", x, "rhs")
    OBVIOUS
  <2>3. Spares(n, g, "rhs")
    BY <1>10, <2>1, <2>2, NewSpares, AggRowwiseSpares DEF Spares
  <2>4. \E b, d : l = WithData(WithData(g, "rhs", b), t.at, d)
    BY <1>8, <2>1, <2>2 DEF BinColumnwise, Sweep, Loop
  <2> QED BY <1>12, <2>1, <2>3, <2>4
<1>15. ASSUME Owned(s, x), Finishes(t, o)
       PROVE  Obeys(s, o, Target(x, mode), {x})
  <2>1. Obeys(s, o, Target(x, mode), {mode} \cap Named)
    BY <1>2, <1>15, FinishesObeys DEF Target, Named
  <2> QED BY <1>15, <2>1, ObeysMore
<1> HIDE DEF Total, ByColumn, ByRow
<1> QED BY <1>1, <1>9, <1>11, <1>13, <1>14, <1>15, RaisedObeys DEF Finishes

\* What a method returns that writes nothing of its caller's.
Makes(s, o) == Creates(s, o) \/ \E r : o = Done(s, r)

LEMMA MakesObeys ==
    ASSUME NEW s, IsMemory(s), NEW o, Makes(s, o), NEW may,
           NEW uses, \A p \in uses : Owned(s, p)
    PROVE  Obeys(s, o, may, uses)
BY CreatesObeys, DoneObeys DEF Makes

MaskOf(where) == IF where = "all" THEN {} ELSE {where}
LEMMA WithMaskObeys ==
    ASSUME NEW s, IsMemory(s), NEW x, Owned(s, x), NEW where, NEW b, NEW may, Obeys(s, b, may, {})
    PROVE  Obeys(s, WithMask(s, x, where, b), may, {x} \cup MaskOf(where))
<1>1. CASE Raised(s, WithMask(s, x, where, b))
  BY <1>1, RaisedObeys
<1>2. CASE ~Raised(s, WithMask(s, x, where, b))
  <2>1. WithMask(s, x, where, b) = b /\ \A p \in MaskOf(where) : Owned(s, p)
    BY <1>2 DEF WithMask, MaskOf, Raised
  <2> QED BY <2>1, ObeysMore
<1> QED BY <1>1, <1>2

\* The same after operands were looked at, in a memory t that is alike.
LEMMA ThenObeys ==
    ASSUME NEW s, NEW t, Alike(s, t), NEW o, Raised(t, o) \/ Makes(t, o), NEW may,
           NEW uses, \A p \in uses : Owned(s, p)
    PROVE  Obeys(s, o, may, uses)
<1>1. Obeys(t, o, may, {})
  BY RaisedObeys, MakesObeys DEF Alike
<1>2. Obeys(s, o, may, {})
  BY <1>1, AlikeObeys
<1> QED BY <1>2, ObeysMore

LEMMA ArgextremeObeys ==
    ASSUME NEW s, IsMemory(s), NEW x, NEW axis, NEW where, NEW max, NEW as_matrix
    PROVE  Obeys(s, Matrix_argextreme(s, x, axis, where, max, as_matrix), {}, {x} \cup MaskOf(where))
<1>1. PICK o : o = Matrix_argextreme(s, x, axis, where, max, as_matrix)
  OBVIOUS
<1>2. \/ Raised(s, o)
      \/ \E b : /\ Owned(s, x) /\ o = WithMask(s, x, where, b)
                /\ Makes(s, b)
  BY <1>1 DEF Matrix_argextreme, WithAxis, Acquired, GroupResults, Fresh, Into,
              Sweep, Loop, Raised, Makes, Creates, Fills, Missed
<1> QED BY <1>1, <1>2, RaisedObeys, WithMaskObeys, MakesObeys

LEMMA AngleObeys ==
    ASSUME NEW s, IsMemory(s), NEW x, NEW axis
    PROVE  Obeys(s, Matrix_angle(s, x, axis), {}, {x})
<1>1. PICK o : o = Matrix_angle(s, x, axis)
  OBVIOUS
<1>2. \/ Raised(s, o)
      \/ Owned(s, x) /\ Makes(s, o)
  BY <1>1 DEF Matrix_angle, WithAxis, Acquired, PerVector, Fresh, Into,
              Sweep, Loop, Raised, Makes, Creates, Fills, Missed
<1> QED BY <1>1, <1>2, RaisedObeys, MakesObeys

LEMMA AggregateObeys ==
    ASSUME NEW s, IsMemory(s), NEW k, NEW x, NEW axis, NEW where
    PROVE  Obeys(s, Matrix_aggregate(s, k, x, axis, where), {}, {x} \cup MaskOf(where))
<1>1. PICK o : o = Matrix_aggregate(s, k, x, axis, where)
  OBVIOUS
<1>2. CASE NormalisedAxis(axis) = None
  <2>1. \/ Raised(s, o)
        \/ \E r : Owned(s, x) /\ o = WithMask(s, x, where, Done(s, r))
    BY <1>1, <1>2 DEF Matrix_aggregate, WithAxis, Acquired, Raised
  <2> QED BY <1>1, <2>1, RaisedObeys, WithMaskObeys, DoneObeys
<1>3. CASE NormalisedAxis(axis) # None /\ where # "all"
  <2>1. \/ Raised(s, o)
        \/ \E b : Owned(s, x) /\ o = WithMask(s, x, where, b) /\ Makes(s, b)
    BY <1>1, <1>3 DEF Matrix_aggregate, WithAxis, Acquired, GroupResults, Fresh, Into,
                      Sweep, Loop, Raised, Makes, Creates, Fills, Missed
  <2> QED BY <1>1, <2>1, RaisedObeys, WithMaskObeys, MakesObeys
<1>4. CASE NormalisedAxis(axis) # None /\ where = "all" /\ NormalisedAxis(axis) # 0
  <2>1. \/ Raised(s, o)
        \/ \E b : Owned(s, x) /\ o = WithMask(s, x, where, b) /\ Makes(s, b)
    BY <1>1, <1>4 DEF Matrix_aggregate, WithAxis, Acquired, GroupResults, Fresh, Into, AggRowwise,
                      Sweep, Loop, Raised, Makes, Creates, Fills, Missed
  <2> QED BY <1>1, <2>1, RaisedObeys, WithMaskObeys, MakesObeys
<1>5. CASE where = "all" /\ NormalisedAxis(axis) = 0 /\ NormalisedAxis(axis) # None
  <2>1. \/ Raised(s, o)
        \/ \E b, r, c, t :
              /\ Owned(s, x) /\ o = WithMask(s, x, where, b)
              /\ t = At(New(s, "out", r, c), "out")
              /\ b = IF t.err # "none" THEN Raise(t.s, t.err)
                     ELSE Done(AggColumnwise(t.s, k, x, t.at), Ref(t.at))
    BY <1>1, <1>5 DEF Matrix_aggregate, WithAxis, Acquired, GroupResults, Fresh, Into, Raised
  <2>2. ASSUME NEW b, NEW r, NEW c, NEW t, t = At(New(s, "out", r, c), "out"),
               b = IF t.err # "none" THEN Raise(t.s, t.err)
                   ELSE Done(AggColumnwise(t.s, k, x, t.at), Ref(t.at))
        PROVE  Obeys(s, b, {}, {})
    <3>1. PICK n : n = New(s, "out", r, c)
      OBVIOUS
    <3>2. t.s = n /\ t.at = "out" /\ t.err = "none"
      BY <2>2, <3>1, Finding
    <3>3. b = Done(AggColumnwise(n, k, x, "out"), Ref("out"))
      BY <2>2, <3>2
    <3>4. IsMemory(n) /\ \A u : Spares(n, u, "out") => Alike(s, u)
      BY <3>1, FreshAlike
    <3>5. Alike(s, AggColumnwise(n, k, x, "out"))
      BY <3>4, AggColumnwiseSpares
    <3>6. Changes(s, "out", b)
      BY <3>3, <3>5 DEF Changes, Alike, Spares
    <3> QED BY <3>6, ChangesObeys DEF Named
  <2> QED BY <1>1, <2>1, <2>2, RaisedObeys, WithMaskObeys
<1> QED BY <1>2, <1>3, <1>4, <1>5

LEMMA TopkObeys ==
    ASSUME NEW s, IsMemory(s), NEW x, NEW k, NEW axis, NEW largest, NEW where
    PROVE  Obeys(s, Matrix_topk(s, x, k, axis, largest, where), {}, {x} \cup MaskOf(where))
<1> DEFINE Best(t, a, g) ==
               TopK(Length(t, x, a), Group(t, x, a, g), GroupMask(t, x, a, where, g), k, largest)
           Kernel(a, t, out) ==
               WithData(t, out,
                   FoldLeft(LAMBDA d, g : WriteGroup(d, Cols(t, out), a, g, Best(t, a, g)),
                            t.mat[out].data, Upto(Groups(s, x, a))))
<1>1. PICK o : o = Matrix_topk(s, x, k, axis, largest, where)
  OBVIOUS
<1>2. \/ Raised(s, o)
      \/ \E b : /\ Owned(s, x) /\ o = WithMask(s, x, where, b)
                /\ \/ Raised(s, b)
                   \/ \E q, r : Creates(s, q) /\ b = Done(q.s, r)
  <2>2. PICK q : q = GroupResults(s, x, NormalisedAxis(axis), k,
                                  LAMBDA t, out : Kernel(NormalisedAxis(axis), t, out))
    OBVIOUS
  <2>3. Creates(s, q)
    BY <2>2 DEF GroupResults, Fresh, Into, Creates, Fills, Missed
  <2>4. CASE k < 1
    BY <1>1, <2>4 DEF Matrix_topk, Acquired, Raised
  <2>5. CASE ~(k < 1) /\ k > Length(s, x, NormalisedAxis(axis))
    BY <1>1, <2>5 DEF Matrix_topk, WithAxis, Acquired, Raised
  <2>6. CASE ~(k < 1) /\ ~(k > Length(s, x, NormalisedAxis(axis)))
    <3>1. \/ Raised(s, o)
          \/ \E r : Owned(s, x) /\ o = WithMask(s, x, where, Done(q.s, r))
      BY <1>1, <2>2, <2>6 DEF Matrix_topk, WithAxis, Acquired, Raised
    <3> QED BY <2>3, <3>1
  <2> QED BY <2>4, <2>5, <2>6
<1>3. ASSUME NEW b, NEW q, NEW v, Creates(s, q), b = Done(q.s, v)
      PROVE  Obeys(s, b, {}, {})
  <2>1. PICK r, c, t : t = At(New(s, "out", r, c), "out") /\ Fills(t, q)
    BY <1>3 DEF Creates
  <2>2. PICK d, u : q = Done(WithData(t.s, t.at, d), u)
    BY <2>1, Finding DEF Fills, Missed
  <2>3. b = Done(WithData(t.s, t.at, d), v)
    BY <1>3, <2>2, Ending
  <2>4. Creates(s, b)
    BY <2>1, <2>3, Finding DEF Creates, Fills
  <2> QED BY <2>4, CreatesObeys
<1> QED BY <1>1, <1>2, <1>3, RaisedObeys, WithMaskObeys

LEMMA VecdotObeys ==
    ASSUME NEW s, IsMemory(s), NEW x \in Named, NEW vo, IsOperand(vo), NEW axis
    PROVE  Obeys(s, Matrix_vecdot(s, x, vo, axis), {}, {x} \cup Of(vo))
<1> DEFINE y == Unwrap(s, vo, "rhs", FALSE)
           p == Canonical(y.s, x, y.at)
           Dot(u, cells) == Products(u, p.mat, p.vec, p.shape, cells)
           Total == Done(y.s, Float(Dot(y.s, [i \in 1..Size(y.s, p.mat) |->
                        <<(i - 1) \div Cols(y.s, p.mat), (i - 1) % Cols(y.s, p.mat)>>])))
           ByColumn == Fresh(y.s, 1, Cols(y.s, p.mat), LAMBDA u, out :
                           Sweep(u, out, Cols(u, p.mat), LAMBDA w, c :
                               Dot(w, [r \in 1..Rows(w, p.mat) |-> <<r - 1, c>>])))
           ByRow == Fresh(y.s, Rows(y.s, p.mat), 1, LAMBDA u, out :
                        Sweep(u, out, Rows(u, p.mat), LAMBDA w, r :
                            Dot(w, [c \in 1..Cols(w, p.mat) |-> <<r, c - 1>>])))
<1>1. PICK o : o = Matrix_vecdot(s, x, vo, axis)
  OBVIOUS
<1>2. PICK a : a = NormalisedAxis(axis)
  OBVIOUS
<1>3. \/ Raised(s, o)
      \/ /\ Owned(s, x) /\ y.err = "none"
         /\ \/ o = Raise(y.s, "axis")
            \/ /\ IsAxis(axis)
               /\ o = CASE a = None -> Total [] a = 0 -> ByColumn [] a = 1 -> ByRow
  BY <1>1, <1>2 DEF Matrix_vecdot, WithAxis, Acquired, Raised
<1>4. IsAxis(axis) => a \in {None, 0, 1}
  BY <1>2 DEF IsAxis, NormalisedAxis
<1>5. Makes(y.s, Total)
  BY DEF Makes
<1>6. Makes(y.s, ByColumn)
  BY DEF Fresh, Into, Sweep, Loop, Makes, Creates, Fills, Missed
<1>7. Makes(y.s, ByRow)
  BY DEF Fresh, Into, Sweep, Loop, Makes, Creates, Fills, Missed
<1>8. y.err = "none" => Alike(s, y.s) /\ \A q \in Of(vo) : Owned(s, q)
  BY UnwrapServes DEF Serves, Temporary
<1>9. \/ Raised(s, o)
      \/ /\ Owned(s, x) /\ y.err = "none"
         /\ Raised(y.s, o) \/ Makes(y.s, o)
  <2> HIDE DEF y, Total, ByColumn, ByRow
  <2> QED BY <1>3, <1>4, <1>5, <1>6, <1>7 DEF Raised
<1> HIDE DEF y
<1> QED BY <1>1, <1>8, <1>9, RaisedObeys, ThenObeys

LEMMA CrossObeys ==
    ASSUME NEW s, IsMemory(s), NEW x \in Named, NEW vo, IsOperand(vo), NEW axis
    PROVE  Obeys(s, Matrix_cross(s, x, vo, axis), {}, {x} \cup Of(vo))
<1>1. PICK o : o = Matrix_cross(s, x, vo, axis)
  OBVIOUS
<1>2. PICK y : y = Unwrap(s, vo, "rhs", FALSE)
  OBVIOUS
<1>4. \/ Raised(s, o)
      \/ Owned(s, x) /\ y.err = "none" /\ (Raised(y.s, o) \/ Makes(y.s, o))
  BY <1>1, <1>2 DEF Matrix_cross, WithAxis, Acquired, PerVector, Fresh, Into,
              Sweep, Loop, Raised, Makes, Creates, Fills, Missed
<1>5. ASSUME Owned(s, x), y.err = "none", Raised(y.s, o) \/ Makes(y.s, o)
      PROVE  Obeys(s, o, {}, {x} \cup Of(vo))
  <2>1. Serves(s, vo, y)
    BY <1>2, UnwrapServes DEF Temporary
  <2> QED BY <1>5, <2>1, ThenObeys DEF Serves
<1> QED BY <1>1, <1>2, <1>4, <1>5, RaisedObeys

----------------------------------------------------------------------------
(***************************************************************************)
(* Copies, arrangements, comparisons and constructors.                     *)
(***************************************************************************)
LEMMA CopyObeys ==
    ASSUME NEW s, IsMemory(s), NEW x
    PROVE  Obeys(s, Matrix_copy(s, x), {}, {x})
<1>1. PICK o : o = Matrix_copy(s, x)
  OBVIOUS
<1>2. \/ Raised(s, o)
      \/ Owned(s, x) /\ Makes(s, o)
  BY <1>1 DEF Matrix_copy, Acquired, Fresh, Into, Copied, Sweep, Loop, Raised,
              Makes, Creates, Fills, Missed
<1> QED BY <1>1, <1>2, RaisedObeys, MakesObeys

LEMMA UnpickleObeys ==
    ASSUME NEW s, IsMemory(s), NEW x
    PROVE  Obeys(s, Matrix_reduce_unpickle(s, x), {}, {x})
BY CopyObeys DEF Matrix_copy, Matrix_reduce_unpickle

LEMMA FromViewObeys ==
    ASSUME NEW s, IsMemory(s), NEW v
    PROVE  Obeys(s, Matrix_from_view(s, v), {}, {v.base})
<1>1. PICK o : o = Matrix_from_view(s, v)
  OBVIOUS
<1>2. PICK t : t = Materialize(s, v, "out")
  OBVIOUS
<1>3. \/ t.err # "none" /\ o = Raise(s, t.err)
      \/ t.err = "none" /\ o = Done(t.s, Ref("out"))
  BY <1>1, <1>2 DEF Matrix_from_view
<1>4. t.err = "none" => Alike(s, t.s) /\ Owned(s, v.base)
  BY <1>2, MaterializeIs DEF Temporary
<1>5. CASE t.err # "none" /\ o = Raise(s, t.err)
  BY <1>1, <1>5, RaisedObeys DEF Raised
<1>6. CASE t.err = "none" /\ o = Done(t.s, Ref("out"))
  <2>1. Changes(s, "out", o)
    BY <1>4, <1>6 DEF Changes, Alike, Spares
  <2> QED BY <1>1, <1>4, <1>6, <2>1, ChangesObeys DEF Named
<1> QED BY <1>3, <1>5, <1>6

LEMMA TransposeInPlaceSpares ==
    ASSUME NEW s, IsMemory(s), NEW x
    PROVE  Spares(s, impl_transpose_in_place(s, x), x)
<1> DEFINE Relabel(t) == [t EXCEPT !.mat[x].rows = Cols(s, x), !.mat[x].cols = Rows(s, x)]
<1>1. PICK t : t = impl_transpose_in_place(s, x)
  OBVIOUS
<1>2. \/ t = Relabel(s)
      \/ \E d : t = WithData(s, x, d)
      \/ \E d : t = Relabel(WithData(s, x, d))
  BY <1>1 DEF impl_transpose_in_place
<1>3. ASSUME NEW u, IsMemory(u)
      PROVE  Spares(u, Relabel(u), x)
  <2>1. PICK m : m = [u.mat[x] EXCEPT !.rows = Cols(s, x), !.cols = Rows(s, x)]
    OBVIOUS
  <2>2. Relabel(u) = [u EXCEPT !.mat[x] = m]
    BY <1>3, <2>1 DEF IsMemory
  <2> QED BY <1>3, <2>2, AssignedSpares
<1>4. ASSUME NEW d, t = Relabel(WithData(s, x, d))
      PROVE  Spares(s, t, x)
  <2>1. PICK u : u = WithData(s, x, d)
    OBVIOUS
  <2>2. Spares(s, u, x)
    BY <2>1, WithDataSpares
  <2>3. Spares(u, Relabel(u), x)
    BY <1>3, <2>2 DEF Spares
  <2> QED BY <1>4, <2>1, <2>2, <2>3, SparesTwice
<1> HIDE DEF Relabel
<1> QED BY <1>1, <1>2, <1>3, <1>4, WithDataSpares

LEMMA TransposeObeys ==
    ASSUME NEW s, IsMemory(s), NEW x \in Named, NEW in_place \in BOOLEAN
    PROVE  Obeys(s, Matrix_transpose(s, x, in_place),
                 IF in_place THEN {x} ELSE {}, {x})
<1>1. PICK o : o = Matrix_transpose(s, x, in_place)
  OBVIOUS
<1>2. \/ Raised(s, o)
      \/ in_place /\ Owned(s, x) /\ Changes(s, x, o)
      \/ Owned(s, x) /\ Makes(s, o)
  <2>1. CASE in_place
    BY <1>1, <2>1, TransposeInPlaceSpares DEF Matrix_transpose, Acquired, Raised, Changes
  <2>2. CASE ~in_place
    BY <1>1, <2>2 DEF Matrix_transpose, Acquired, impl_transpose, Fresh, Into, Loop, Raised,
                      Makes, Creates, Fills, Missed
  <2> QED BY <2>1, <2>2
<1>3. CASE in_place /\ Owned(s, x) /\ Changes(s, x, o)
  <2>1. Obeys(s, o, {x}, {x})
    BY <1>3, ChangesObeys
  <2> QED BY <1>1, <1>3, <2>1
<1> QED BY <1>1, <1>2, <1>3, RaisedObeys, MakesObeys

LEMMA AllCloseObeys ==
    ASSUME NEW s, IsMemory(s), NEW x, NEW y, NEW rtol, NEW atol, NEW equal_nan
    PROVE  Obeys(s, Matrix_allclose(s, x, y, rtol, atol, equal_nan), {}, {x, y})
<1>1. PICK o : o = Matrix_allclose(s, x, y, rtol, atol, equal_nan)
  OBVIOUS
<1>2. \/ Raised(s, o)
      \/ Owned(s, x) /\ Owned(s, y) /\ Makes(s, o)
  <2>1. PICK b : b = Bool(/\ SameShape(s, x, y)
                          /\ \A i \in 0..(Size(s, x) - 1) :
                                Tolerant(Val(s, x, i), Val(s, y, i), rtol, atol, equal_nan))
    OBVIOUS
  <2>2. o = IF Owned(s, x) THEN IF Owned(s, y) THEN Done(s, b) ELSE Raise(s, "owner")
            ELSE Raise(s, "owner")
    BY <1>1, <2>1 DEF Matrix_allclose, Acquired
  <2> QED BY <2>2 DEF Raised, Makes
<1> QED BY <1>1, <1>2, RaisedObeys, MakesObeys

LEMMA FilledIs ==
    ASSUME NEW s, NEW r, NEW c, NEW v
    PROVE  Raised(s, Filled(s, r, c, v)) \/ Makes(s, Filled(s, r, c, v))
<1>1. PICK o : o = Filled(s, r, c, v)
  OBVIOUS
<1>2. Raised(s, o) \/ Makes(s, o)
  BY <1>1 DEF Filled, Fresh, Into, Sweep, Loop, Raised, Makes, Creates, Fills, Missed
<1> QED BY <1>1, <1>2

LEMMA FilledObeys ==
    ASSUME NEW s, IsMemory(s), NEW r, NEW c, NEW v
    PROVE  Obeys(s, Filled(s, r, c, v), {}, {})
BY FilledIs, RaisedObeys, MakesObeys

LEMMA InitObeys ==
    ASSUME NEW s, IsMemory(s), NEW r, NEW c, NEW vo
    PROVE  Obeys(s, Matrix_init(s, r, c, vo), {}, {})
<1>1. PICK o : o = Matrix_init(s, r, c, vo)
  OBVIOUS
<1>2. CASE vo = None
  <2>1. Raised(s, o) \/ o = Filled(s, r, c, 0)
    BY <1>1, <1>2 DEF Matrix_init, Raised
  <2> QED BY <1>1, <2>1, RaisedObeys, FilledObeys
<1>3. CASE vo # None /\ vo.kind = "num"
  <2>1. Raised(s, o) \/ o = Filled(s, r, c, vo.value)
    BY <1>1, <1>3 DEF Matrix_init, Raised
  <2> QED BY <1>1, <2>1, RaisedObeys, FilledObeys
<1>4. CASE vo # None /\ vo.kind # "num"
  <2>1. Raised(s, o) \/ Makes(s, o)
    BY <1>1, <1>4 DEF Matrix_init, Fresh, Into, Sweep, Loop, Raised, Makes, Creates, Fills, Missed
  <2> QED BY <1>1, <2>1, RaisedObeys, MakesObeys
<1> QED BY <1>2, <1>3, <1>4

LEMMA VectorObeys ==
    ASSUME NEW s, IsMemory(s), NEW q, NEW asColumn
    PROVE  Obeys(s, Matrix_vector(s, q, asColumn), {}, {})
<1>1. PICK o : o = Matrix_vector(s, q, asColumn)
  OBVIOUS
<1>2. PICK t : t = FromSequence(s, q, "out", asColumn)
  OBVIOUS
<1>3. \/ t.err # "none" /\ o = Raise(s, t.err)
      \/ t.err = "none" /\ o = Done(t.s, Ref("out"))
  BY <1>1, <1>2 DEF Matrix_vector
<1>4. CASE t.err # "none" /\ o = Raise(s, t.err)
  BY <1>1, <1>4, RaisedObeys DEF Raised
<1>5. CASE t.err = "none" /\ o = Done(t.s, Ref("out"))
  <2>1. Alike(s, t.s)
    BY <1>2, <1>5, FromSequenceIs DEF Temporary
  <2>2. Changes(s, "out", o)
    BY <1>5, <2>1 DEF Changes, Alike, Spares
  <2> QED BY <1>1, <2>2, ChangesObeys DEF Named
<1> QED BY <1>3, <1>4, <1>5

LEMMA RepeatObeys ==
    ASSUME NEW s, IsMemory(s), NEW x, NEW n, NEW axis
    PROVE  Obeys(s, Matrix_repeat_interleave(s, x, n, axis), {}, {x})
<1> DEFINE Copies(rows, cols, From(_)) ==
               Fresh(s, rows, cols, LAMBDA t, out :
                   Sweep(t, out, rows * cols, LAMBDA u, i : Val(u, x, From(i))))
           Row == Copies(1, Rows(s, x) * Cols(s, x) * n, LAMBDA i : i \div n)
           Down == Copies(Rows(s, x) * n, Cols(s, x),
                          LAMBDA i : ((i \div Cols(s, x)) \div n) * Cols(s, x) + (i % Cols(s, x)))
           Along == Copies(Rows(s, x), Cols(s, x) * n, LAMBDA i : i \div n)
<1>1. PICK o : o = Matrix_repeat_interleave(s, x, n, axis)
  OBVIOUS
<1>2. PICK a : a = NormalisedAxis(axis)
  OBVIOUS
<1>3. \/ Raised(s, o)
      \/ /\ Owned(s, x) /\ IsAxis(axis)
         /\ o = CASE a = None -> Row [] a = 0 -> Down [] a = 1 -> Along
  <2>1. CASE Owned(s, x) /\ IsAxis(axis) /\ ~(n < 1)
    <3>1. o = CASE NormalisedAxis(axis) = None -> Row
                [] NormalisedAxis(axis) = 0 -> Down
                [] NormalisedAxis(axis) = 1 -> Along
      BY <1>1, <2>1 DEF Matrix_repeat_interleave, WithAxis, Acquired
    <3> HIDE DEF Row, Down, Along
    <3> QED BY <1>2, <2>1, <3>1
  <2>2. CASE ~Owned(s, x) \/ ~IsAxis(axis) \/ n < 1
    <3>1. Raised(s, o)
      <4>1. CASE ~Owned(s, x)
        BY <1>1, <4>1 DEF Matrix_repeat_interleave, Acquired, Raised
      <4>2. CASE Owned(s, x) /\ n < 1
        BY <1>1, <4>2 DEF Matrix_repeat_interleave, Acquired, Raised
      <4>3. CASE Owned(s, x) /\ ~(n < 1) /\ ~IsAxis(axis)
        BY <1>1, <4>3 DEF Matrix_repeat_interleave, Acquired, WithAxis, Raised
      <4> QED BY <2>2, <4>1, <4>2, <4>3
    <3> QED BY <3>1
  <2> QED BY <2>1, <2>2
<1>4. IsAxis(axis) => a \in {None, 0, 1}
  BY <1>2 DEF IsAxis, NormalisedAxis
<1>5. Makes(s, Row) /\ Makes(s, Down) /\ Makes(s, Along)
  BY DEF Fresh, Into, Sweep, Loop, Makes, Creates, Fills, Missed
<1>6. \/ Raised(s, o)
      \/ Owned(s, x) /\ Makes(s, o)
  <2> HIDE DEF Row, Down, Along
  <2> QED BY <1>3, <1>4, <1>5
<1> QED BY <1>1, <1>6, RaisedObeys, MakesObeys

LEMMA ConcatObeys ==
    ASSUME NEW s, IsMemory(s), NEW items, NEW axis,
           \A i \in DOMAIN items : IsOperand(items[i]) /\ items[i].kind \in {"mat", "list"}
    PROVE  Obeys(s, Matrix_concat(s, items, axis), {}, UNION {Of(items[i]) : i \in DOMAIN items})
<1>1. PICK o : o = Matrix_concat(s, items, axis)
  OBVIOUS
<1>2. PICK uses : uses = UNION {Of(items[i]) : i \in DOMAIN items}
  OBVIOUS
<1>3. \/ Raised(s, o)
      \/ items = << >> /\ \E r : o = Done(s, r)
      \/ /\ ~(\E i \in DOMAIN items : items[i].kind = "mat" /\ ~Owned(s, items[i].at))
         /\ \E r, c, d : o = Done(WithData(New(s, "out", r, c), "out", d), Ref("out"))
  BY <1>1 DEF Matrix_concat, Raised
<1>4. ASSUME NEW r, NEW c, NEW d, o = Done(WithData(New(s, "out", r, c), "out", d), Ref("out"))
      PROVE  Makes(s, o)
  <2>1. PICK t : t = At(New(s, "out", r, c), "out")
    OBVIOUS
  <2>2. t.err = "none" /\ o = Done(WithData(t.s, t.at, d), Ref("out"))
    BY <1>4, <2>1, Finding
  <2> QED BY <2>1, <2>2 DEF Makes, Creates, Fills
<1>5. CASE items = << >> /\ \E r : o = Done(s, r)
  <2>1. uses = {}
    BY <1>2, <1>5
  <2> QED BY <1>1, <1>2, <1>5, <2>1, MakesObeys DEF Makes
<1>6. CASE /\ ~(\E i \in DOMAIN items : items[i].kind = "mat" /\ ~Owned(s, items[i].at))
           /\ \E r, c, d : o = Done(WithData(New(s, "out", r, c), "out", d), Ref("out"))
  <2>1. \A p \in uses : Owned(s, p)
    BY <1>2, <1>6 DEF Of
  <2> QED BY <1>1, <1>2, <1>4, <1>6, <2>1, MakesObeys
<1> QED BY <1>1, <1>3, <1>5, <1>6, RaisedObeys

LEMMA RichcompareObeys ==
    ASSUME NEW s, IsMemory(s), NEW x, NEW vo, IsOperand(vo), NEW op
    PROVE  Obeys(s, Matrix_richcompare(s, x, vo, op), {},
                 {x} \cup (IF vo.kind = "mat" THEN {vo.at} ELSE {}))
<1>1. PICK o : o = Matrix_richcompare(s, x, vo, op)
  OBVIOUS
<1>2. PICK uses : uses = {x} \cup (IF vo.kind = "mat" THEN {vo.at} ELSE {})
  OBVIOUS
<1>3. CASE vo.kind = "num"
  <2>1. \/ Raised(s, o)
        \/ Owned(s, x) /\ \E r : o = Done(s, r)
    BY <1>1, <1>3 DEF Matrix_richcompare, Acquired, Raised
  <2> QED BY <1>1, <1>3, <2>1, RaisedObeys, MakesObeys DEF Makes
<1>4. CASE vo.kind = "mat"
  <2>1. \/ Raised(s, o)
        \/ Owned(s, x) /\ Owned(s, vo.at) /\ o = RichcompareMatrix(s, s, x, vo.at, op)
    BY <1>1, <1>4 DEF Matrix_richcompare, Acquired, Raised
  <2>2. o = RichcompareMatrix(s, s, x, vo.at, op) => Raised(s, o) \/ \E r : o = Done(s, r)
    BY DEF RichcompareMatrix, Unequal, Raised
  <2> QED BY <1>1, <1>4, <2>1, <2>2, RaisedObeys, MakesObeys DEF Makes
<1>5. CASE vo.kind = "list"
  <2>1. PICK t : t = FromSequence(s, vo.values, "rhs", FALSE)
    OBVIOUS
  <2>2. \/ Raised(s, o)
        \/ /\ Owned(s, x)
           /\ \/ t.err # "none" /\ o = Unequal(s, op, t.err)
              \/ o = RichcompareMatrix(s, t.s, x, "rhs", op)
    BY <1>1, <1>5, <2>1 DEF Matrix_richcompare, Acquired, Raised
  <2>3. o = RichcompareMatrix(s, t.s, x, "rhs", op) => Raised(s, o) \/ \E r : o = Done(s, r)
    BY DEF RichcompareMatrix, Unequal, Raised
  <2>4. t.err # "none" /\ o = Unequal(s, op, t.err) => Raised(s, o) \/ \E r : o = Done(s, r)
    BY DEF Unequal, Raised
  <2> QED BY <1>1, <1>5, <2>2, <2>3, <2>4, RaisedObeys, MakesObeys DEF Makes
<1>6. CASE vo.kind = "view"
  <2>1. \/ Raised(s, o)
        \/ Owned(s, x) /\ o = Unequal(s, op, "type")
    BY <1>1, <1>6 DEF Matrix_richcompare, Acquired, Raised
  <2>2. o = Unequal(s, op, "type") => Raised(s, o) \/ \E r : o = Done(s, r)
    BY DEF Unequal, Raised
  <2> QED BY <1>1, <1>6, <2>1, <2>2, RaisedObeys, MakesObeys DEF Makes
<1> QED BY <1>3, <1>4, <1>5, <1>6 DEF IsOperand

----------------------------------------------------------------------------
(***************************************************************************)
(* Parts of a matrix.                                                      *)
(***************************************************************************)
LEMMA FancyKind ==
    ASSUME NEW k
    PROVE  classify_fancy_key(k).kind \in {"axis0", "axis1", "unsupported", "none"}
<1>1. \A kind, q : Fancy(kind, q).kind = kind
  BY DEF Fancy
<1>2. PICK f : f = classify_fancy_key(k)
  OBVIOUS
<1>3. \E q : \/ f = Fancy("axis0", q) \/ f = Fancy("axis1", q)
             \/ f = Fancy("unsupported", q) \/ f = Fancy("none", q)
  BY <1>2 DEF classify_fancy_key
<1> QED BY <1>1, <1>2, <1>3

\* A target for gathered cells is a fresh matrix or the one given as out.
Gathers(s, x, mode, o) == \E r, c, t : t = gather_output(s, x, mode, r, c) /\ Fills(t, o)

LEMMA GathersObeys ==
    ASSUME NEW s, IsMemory(s), NEW x, NEW mode, NEW o, Gathers(s, x, mode, o),
           Owned(s, x), NEW may, {mode} \cap Named \subseteq may,
           NEW uses, \A p \in uses : p = x \/ p \in {mode} \cap Named
    PROVE  Obeys(s, o, may, uses)
<1>1. PICK r, c, t : t = gather_output(s, x, mode, r, c) /\ Fills(t, o)
  BY DEF Gathers
<1>2. CASE mode = "fresh"
  <2>1. t = At(New(s, "out", r, c), "out")
    BY <1>1, <1>2 DEF gather_output
  <2>2. Creates(s, o)
    BY <1>1, <2>1 DEF Creates
  <2>3. Obeys(s, o, may, {x})
    BY <2>2, CreatesObeys
  <2> QED BY <1>2, <2>3, ObeysMore DEF Named
<1>3. CASE mode # "fresh"
  <2>1. PICK u : u = UseOutTarget(s, mode, r, c)
    OBVIOUS
  <2>2. t = u \/ t = Not(s, "value")
    BY <1>1, <1>3, <2>1 DEF gather_output
  <2>3. t.s = s /\ (t.err = "none" => t.at = mode /\ Owned(s, mode))
    BY <2>1, <2>2, Finding, UseOutTargetIs
  <2>4. CASE Missed(t, o)
    BY <2>3, <2>4, RaisedObeys DEF Missed, Raised
  <2>5. ASSUME t.err = "none", NEW d, NEW v, o = Done(WithData(t.s, t.at, d), v)
        PROVE  Obeys(s, o, may, uses)
    <3>1. o = Done(WithData(s, mode, d), v) /\ Owned(s, mode)
      BY <2>3, <2>5
    <3>2. Changes(s, mode, o)
      BY <3>1, WithDataSpares DEF Changes
    <3> QED BY <3>1, <3>2, ChangesObeys
  <2> QED BY <1>1, <2>4, <2>5 DEF Fills
<1> QED BY <1>2, <1>3

LEMMA GatherAxisIs ==
    ASSUME NEW s, NEW x, NEW q, NEW axis, NEW mode, NEW o,
           o = gather_axis(s, x, q, axis, mode)
    PROVE  Raised(s, o) \/ Gathers(s, x, mode, o)
BY DEF gather_axis, Into, Sweep, Loop, Raised, Gathers, Fills, Missed

LEMMA GatherAlongIs ==
    ASSUME NEW s, NEW x, NEW q, NEW axis, NEW mode, NEW o,
           o = gather_along_axis(s, x, q, axis, mode)
    PROVE  Raised(s, o) \/ Gathers(s, x, mode, o)
BY DEF gather_along_axis, Into, Sweep, Loop, Raised, Gathers, Fills, Missed

LEMMA TakeObeys ==
    ASSUME NEW s, IsMemory(s), NEW x \in Named, NEW q, NEW axis, NEW mode
    PROVE  /\ Obeys(s, Matrix_take(s, x, q, axis, mode), Target(x, mode), {x} \cup Target(x, mode))
           /\ Obeys(s, Matrix_take_along_axis(s, x, q, axis, mode),
                    Target(x, mode), {x} \cup Target(x, mode))
<1>1. ASSUME NEW o, \/ Raised(s, o)
                    \/ Owned(s, x) /\ Gathers(s, x, mode, o)
      PROVE  Obeys(s, o, Target(x, mode), {x} \cup Target(x, mode))
  <2>1. CASE Owned(s, x) /\ Gathers(s, x, mode, o)
    <3>1. {mode} \cap Named \subseteq Target(x, mode)
      BY DEF Target, Named
    <3>2. \A p \in {x} \cup Target(x, mode) : p = x \/ p \in {mode} \cap Named
      BY DEF Target
    <3> QED BY <2>1, <3>1, <3>2, GathersObeys
  <2> QED BY <1>1, <2>1, RaisedObeys
<1>2. PICK a : a = NormalisedAxis(axis)
  OBVIOUS
<1>3. PICK o : o = Matrix_take(s, x, q, axis, mode)
  OBVIOUS
<1>4. \/ Raised(s, o)
      \/ Owned(s, x) /\ o = gather_axis(s, x, q, a, mode)
  BY <1>2, <1>3 DEF Matrix_take, Acquired, WithAxis, Raised
<1>5. Obeys(s, o, Target(x, mode), {x} \cup Target(x, mode))
  BY <1>1, <1>4, GatherAxisIs
<1>6. PICK b : b = Matrix_take_along_axis(s, x, q, axis, mode)
  OBVIOUS
<1>7. \/ Raised(s, b)
      \/ Owned(s, x) /\ b = gather_along_axis(s, x, q, a, mode)
  BY <1>2, <1>6 DEF Matrix_take_along_axis, Acquired, WithAxis, Raised
<1>8. Obeys(s, b, Target(x, mode), {x} \cup Target(x, mode))
  BY <1>1, <1>7, GatherAlongIs
<1> QED BY <1>3, <1>5, <1>6, <1>8

LEMMA SubscriptObeys ==
    ASSUME NEW s, IsMemory(s), NEW x, NEW k
    PROVE  Obeys(s, Matrix_subscript(s, x, k), {}, {x})
<1>1. PICK o : o = Matrix_subscript(s, x, k)
  OBVIOUS
<1>2. PICK f : f = classify_fancy_key(k)
  OBVIOUS
<1>3. \/ Raised(s, o)
      \/ Owned(s, x) /\ \E axis : o = gather_axis(s, x, f.q, axis, "fresh")
      \/ Owned(s, x) /\ Makes(s, o)
  <2>1. CASE f.kind \in {"axis0", "axis1", "unsupported"}
    BY <1>1, <1>2, <2>1 DEF Matrix_subscript, Acquired, Raised
  <2>2. CASE f.kind = "none"
    BY <1>1, <1>2, <2>2 DEF Matrix_subscript, Acquired, Raised, Fresh, Into, Sweep, Loop,
                            Makes, Creates, Fills, Missed
  <2> QED BY <1>2, <2>1, <2>2, FancyKind
<1>4. ASSUME Owned(s, x), NEW axis, o = gather_axis(s, x, f.q, axis, "fresh")
      PROVE  Obeys(s, o, {}, {x})
  <2>1. Raised(s, o) \/ Gathers(s, x, "fresh", o)
    BY <1>4, GatherAxisIs
  <2>2. {"fresh"} \cap Named \subseteq {}
    BY DEF Named
  <2> QED BY <1>4, <2>1, <2>2, RaisedObeys, GathersObeys
<1> QED BY <1>1, <1>3, <1>4, RaisedObeys, MakesObeys

LEMMA ItemObeys ==
    ASSUME NEW s, IsMemory(s), NEW x, NEW i
    PROVE  Obeys(s, Matrix_item(s, x, i), {}, {x})
<1>1. PICK o : o = Matrix_item(s, x, i)
  OBVIOUS
<1>2. \/ Raised(s, o)
      \/ Owned(s, x) /\ Makes(s, o)
  BY <1>1 DEF Matrix_item, Acquired, Fresh, Into, Sweep, Loop, Raised,
              Makes, Creates, Fills, Missed
<1> QED BY <1>1, <1>2, RaisedObeys, MakesObeys

\* The value put may be the receiver: a copy of it is read then.
LEMMA SnapshotAlike ==
    ASSUME NEW s, NEW f, f = [s |-> f.s, at |-> f.at, err |-> f.err, scalar |-> f.scalar],
           Alike(s, f.s), NEW x
    PROVE  Alike(s, Snapshot(f, x).s)
<1>1. CASE f.at # x
  BY <1>1 DEF Snapshot
<1>2. CASE f.at = x
  <2>1. PICK n : n = New(f.s, "rhs", Rows(f.s, x), Cols(f.s, x))
    OBVIOUS
  <2>2. PICK c : c = Copied(n, x, "rhs")
    OBVIOUS
  <2>3. Spares(f.s, n, "rhs")
    BY <2>1, NewSpares DEF Alike
  <2>4. \E d : c = WithData(n, "rhs", d)
    BY <2>2 DEF Copied, Sweep, Loop
  <2>5. Spares(n, c, "rhs")
    BY <2>3, <2>4, WithDataSpares DEF Spares
  <2>6. Spares(f.s, c, "rhs")
    BY <2>3, <2>5, SparesTwice
  <2>7. Alike(f.s, c)
    BY <2>6, TemporaryAlike DEF Temporary
  <2>8. Snapshot(f, x) = [f EXCEPT !.at = "rhs", !.s = c]
    BY <1>2, <2>1, <2>2 DEF Snapshot
  <2>9. Snapshot(f, x).s = c
    BY <2>8
  <2> QED BY <2>7, <2>9, AlikeTwice
<1> QED BY <1>1, <1>2

LEMMA FactorForm ==
    ASSUME NEW s, NEW o, IsOperand(o), NEW r, NEW c, NEW f, f = classify_scatter_rhs(s, o, r, c)
    PROVE  f = [s |-> f.s, at |-> f.at, err |-> f.err, scalar |-> f.scalar]
<1>1. (\E v : f = Repeated(s, v)) \/ (\E t : f = Everywhere(t))
  <2>1. CASE o.kind = "num"
    BY <2>1 DEF classify_scatter_rhs
  <2>2. CASE o.kind \in {"list", "view"}
    BY <2>2 DEF classify_scatter_rhs
  <2>3. CASE o.kind = "mat"
    BY <2>3 DEF classify_scatter_rhs
  <2> QED BY <2>1, <2>2, <2>3 DEF IsOperand
<1>2. ASSUME NEW v, f = Repeated(s, v)
      PROVE  f = [s |-> f.s, at |-> f.at, err |-> f.err, scalar |-> f.scalar]
  BY <1>2 DEF Repeated
<1>3. ASSUME NEW t, f = Everywhere(t)
      PROVE  f = [s |-> f.s, at |-> f.at, err |-> f.err, scalar |-> f.scalar]
  BY <1>3 DEF Everywhere
<1> QED BY <1>1, <1>2, <1>3

\* What the two ways of scattering a value over x come to.
Puts(s, x, vo, o) ==
    \E r, c, f : /\ f = classify_scatter_rhs(s, vo, r, c)
                 /\ f.err = "none"
                 /\ \E d, v : o = Done(WithData(Snapshot(f, x).s, x, d), v)

LEMMA PutsObeys ==
    ASSUME NEW s, IsMemory(s), NEW x \in Named, Owned(s, x), NEW vo, IsOperand(vo),
           NEW o, Puts(s, x, vo, o)
    PROVE  Obeys(s, o, {x}, {x} \cup Of(vo))
<1>1. PICK r, c, f : /\ f = classify_scatter_rhs(s, vo, r, c)
                     /\ f.err = "none"
                     /\ \E d, v : o = Done(WithData(Snapshot(f, x).s, x, d), v)
  BY DEF Puts
<1>2. PICK d, v : o = Done(WithData(Snapshot(f, x).s, x, d), v)
  BY <1>1
<1>3. Alike(s, f.s) /\ \A p \in Of(vo) : Owned(s, p)
  BY <1>1, ClassifyScatterServes DEF Serves
<1>4. f = [s |-> f.s, at |-> f.at, err |-> f.err, scalar |-> f.scalar]
  BY <1>1, FactorForm
<1>5. PICK t : t = Snapshot(f, x).s
  OBVIOUS
<1>6. Alike(s, t)
  BY <1>3, <1>4, <1>5, SnapshotAlike
<1>7. Spares(s, WithData(t, x, d), x)
  BY <1>6, WithDataSpares, AlikeThenSpares DEF Alike
<1>8. Changes(s, x, o)
  BY <1>2, <1>5, <1>7 DEF Changes
<1> QED BY <1>3, <1>8, ChangesObeys

LEMMA ScatterAxisIs ==
    ASSUME NEW s, NEW x, NEW q, NEW axis, NEW vo, NEW accumulate, NEW o,
           o = scatter_axis(s, x, q, axis, vo, accumulate)
    PROVE  Raised(s, o) \/ Puts(s, x, vo, o)
<1>1. PICK r, c, f : /\ f = classify_scatter_rhs(s, vo, r, c)
                     /\ \/ Raised(s, o)
                        \/ f.err # "none" /\ o = Raise(s, f.err)
                        \/ /\ f.err = "none"
                           /\ \E n, to, v : o = Done(ScatterAll(Snapshot(f, x), x, n, to, accumulate), v)
  BY DEF scatter_axis, Raised
<1>2. ASSUME NEW n, NEW to, NEW v, f.err = "none",
             o = Done(ScatterAll(Snapshot(f, x), x, n, to, accumulate), v)
      PROVE  Puts(s, x, vo, o)
  <2>1. \E d : o = Done(WithData(Snapshot(f, x).s, x, d), v)
    BY <1>2 DEF ScatterAll, Loop
  <2> QED BY <1>1, <1>2, <2>1 DEF Puts
<1> QED BY <1>1, <1>2 DEF Raised

LEMMA ScatterAlongIs ==
    ASSUME NEW s, NEW x, NEW q, NEW axis, NEW vo, NEW accumulate, NEW o,
           o = scatter_along_axis(s, x, q, axis, vo, accumulate)
    PROVE  Raised(s, o) \/ Puts(s, x, vo, o)
<1>1. PICK r, c, f : /\ f = classify_scatter_rhs(s, vo, r, c)
                     /\ \/ Raised(s, o)
                        \/ f.err # "none" /\ o = Raise(s, f.err)
                        \/ /\ f.err = "none"
                           /\ \E n, to, v : o = Done(ScatterAll(Snapshot(f, x), x, n, to, accumulate), v)
  BY DEF scatter_along_axis, Raised
<1>2. ASSUME NEW n, NEW to, NEW v, f.err = "none",
             o = Done(ScatterAll(Snapshot(f, x), x, n, to, accumulate), v)
      PROVE  Puts(s, x, vo, o)
  <2>1. \E d : o = Done(WithData(Snapshot(f, x).s, x, d), v)
    BY <1>2 DEF ScatterAll, Loop
  <2> QED BY <1>1, <1>2, <2>1 DEF Puts
<1> QED BY <1>1, <1>2 DEF Raised

LEMMA PutObeys ==
    ASSUME NEW s, IsMemory(s), NEW x \in Named, NEW q, NEW vo, IsOperand(vo), NEW axis,
           NEW accumulate
    PROVE  /\ Obeys(s, Matrix_put(s, x, q, vo, axis, accumulate), {x}, {x} \cup Of(vo))
           /\ Obeys(s, Matrix_put_along_axis(s, x, q, vo, axis, accumulate), {x}, {x} \cup Of(vo))
<1>1. ASSUME NEW o, \/ Raised(s, o)
                    \/ Owned(s, x) /\ Puts(s, x, vo, o)
      PROVE  Obeys(s, o, {x}, {x} \cup Of(vo))
  BY <1>1, RaisedObeys, PutsObeys
<1>2. PICK a : a = NormalisedAxis(axis)
  OBVIOUS
<1>3. PICK o : o = Matrix_put(s, x, q, vo, axis, accumulate)
  OBVIOUS
<1>4. \/ Raised(s, o)
      \/ Owned(s, x) /\ o = scatter_axis(s, x, q, a, vo, accumulate)
  BY <1>2, <1>3 DEF Matrix_put, Acquired, WithAxis, Raised
<1>5. Obeys(s, o, {x}, {x} \cup Of(vo))
  BY <1>1, <1>4, ScatterAxisIs
<1>6. PICK b : b = Matrix_put_along_axis(s, x, q, vo, axis, accumulate)
  OBVIOUS
<1>7. \/ Raised(s, b)
      \/ Owned(s, x) /\ b = scatter_along_axis(s, x, q, a, vo, accumulate)
  BY <1>2, <1>6 DEF Matrix_put_along_axis, Acquired, WithAxis, Raised
<1>8. Obeys(s, b, {x}, {x} \cup Of(vo))
  BY <1>1, <1>7, ScatterAlongIs
<1> QED BY <1>3, <1>5, <1>6, <1>8

\* A caller's value is written over cells of x, from operands found before.
Assigns(s, x, vo, column, o) ==
    \E u : /\ u = Unwrap(s, vo, "rhs", column) /\ u.err = "none"
           /\ \E d, v : o = Done(WithData(u.s, x, d), v)

LEMMA AssignsObeys ==
    ASSUME NEW s, IsMemory(s), NEW x \in Named, Owned(s, x), NEW vo, IsOperand(vo), NEW column,
           NEW o, Assigns(s, x, vo, column, o)
    PROVE  Obeys(s, o, {x}, {x} \cup Of(vo))
<1>1. PICK u : /\ u = Unwrap(s, vo, "rhs", column) /\ u.err = "none"
               /\ \E d, v : o = Done(WithData(u.s, x, d), v)
  BY DEF Assigns
<1>2. PICK d, v : o = Done(WithData(u.s, x, d), v)
  BY <1>1
<1>3. Alike(s, u.s) /\ \A p \in Of(vo) : Owned(s, p)
  BY <1>1, UnwrapServes DEF Serves, Temporary
<1>4. Spares(s, WithData(u.s, x, d), x)
  BY <1>3, WithDataSpares, AlikeThenSpares DEF Alike
<1>5. Changes(s, x, o)
  BY <1>2, <1>4 DEF Changes
<1> QED BY <1>3, <1>5, ChangesObeys

\* A number is written over cells of x.
Sets(s, x, o) == \E d, v : o = Done(WithData(s, x, d), v)

LEMMA SetsObeys ==
    ASSUME NEW s, IsMemory(s), NEW x \in Named, Owned(s, x), NEW o, Sets(s, x, o)
    PROVE  Obeys(s, o, {x}, {x})
<1>1. Changes(s, x, o)
  BY WithDataSpares DEF Sets, Changes
<1> QED BY <1>1, ChangesObeys

LEMMA AssSubscriptObeys ==
    ASSUME NEW s, IsMemory(s), NEW x \in Named, NEW k, NEW vo, IsOperand(vo)
    PROVE  Obeys(s, Matrix_ass_subscript(s, x, k, vo), {x}, {x} \cup Of(vo))
<1>1. PICK o : o = Matrix_ass_subscript(s, x, k, vo)
  OBVIOUS
<1>2. PICK f : f = classify_fancy_key(k)
  OBVIOUS
<1>3. CASE f.kind \in {"axis0", "axis1", "unsupported"}
  <2>1. \/ Raised(s, o)
        \/ /\ Owned(s, x)
           /\ \E axis, c : /\ c = scatter_axis(s, x, f.q, axis, vo, FALSE)
                           /\ \/ c.err = "none" /\ \E v : o = Done(c.s, v)
                              \/ c.err # "none" /\ o = c
    BY <1>1, <1>2, <1>3 DEF Matrix_ass_subscript, Acquired, Raised
  <2>2. ASSUME Owned(s, x), NEW axis, NEW c, c = scatter_axis(s, x, f.q, axis, vo, FALSE),
               \/ c.err = "none" /\ \E v : o = Done(c.s, v)
               \/ c.err # "none" /\ o = c
        PROVE  Obeys(s, o, {x}, {x} \cup Of(vo))
    <3>1. Raised(s, c) \/ Puts(s, x, vo, c)
      BY <2>2, ScatterAxisIs
    <3>2. CASE Raised(s, c)
      <4>1. PICK e : e # "none" /\ c = Raise(s, e)
        BY <3>2 DEF Raised
      <4>2. c.err = e
        BY <4>1, Ending
      <4>3. o = c
        BY <2>2, <4>1, <4>2
      <4> QED BY <3>2, <4>3, RaisedObeys
    <3>3. CASE Puts(s, x, vo, c)
      <4>1. PICK r, w, g, d, v : /\ g = classify_scatter_rhs(s, vo, r, w)
                                 /\ g.err = "none"
                                 /\ c = Done(WithData(Snapshot(g, x).s, x, d), v)
        BY <3>3 DEF Puts
      <4>2. PICK t : t = WithData(Snapshot(g, x).s, x, d)
        OBVIOUS
      <4>3. c.err = "none" /\ c.s = t
        BY <4>1, <4>2, Ending
      <4>4. \E n : o = Done(t, n)
        BY <2>2, <4>3
      <4>5. Puts(s, x, vo, o)
        BY <4>1, <4>2, <4>4 DEF Puts
      <4> QED BY <2>2, <4>5, PutsObeys
    <3> QED BY <3>1, <3>2, <3>3
  <2> QED BY <1>1, <2>1, <2>2, RaisedObeys
<1>4. CASE f.kind = "none"
  <2>1. CASE vo.kind = "num"
    <3>1. \/ Raised(s, o)
          \/ Owned(s, x) /\ Sets(s, x, o)
      BY <1>1, <1>2, <1>4, <2>1 DEF Matrix_ass_subscript, Acquired, Raised, Loop, Sets
    <3>2. Of(vo) = {}
      BY <2>1 DEF Of
    <3>3. {x} \cup Of(vo) = {x}
      BY <3>2
    <3> QED BY <1>1, <3>1, <3>3, RaisedObeys, SetsObeys
  <2>2. CASE vo.kind # "num"
    <3>1. PICK u : u = Unwrap(s, vo, "rhs", FALSE)
      OBVIOUS
    <3>2. \/ Raised(s, o)
          \/ Owned(s, x) /\ u.err = "none" /\ \E d, v : o = Done(WithData(u.s, x, d), v)
      BY <1>1, <1>2, <1>4, <2>2, <3>1 DEF Matrix_ass_subscript, Acquired, Raised, Loop
    <3>3. \/ Raised(s, o)
          \/ Owned(s, x) /\ Assigns(s, x, vo, FALSE, o)
      BY <3>1, <3>2 DEF Assigns
    <3> QED BY <1>1, <3>3, RaisedObeys, AssignsObeys
  <2> QED BY <2>1, <2>2
<1> QED BY <1>2, <1>3, <1>4, FancyKind

LEMMA GetComponentObeys ==
    ASSUME NEW s, IsMemory(s), NEW x, NEW k
    PROVE  Obeys(s, Matrix_get_component(s, x, k), {}, {x})
<1>1. PICK o : o = Matrix_get_component(s, x, k)
  OBVIOUS
<1>2. \/ Raised(s, o)
      \/ Owned(s, x) /\ Makes(s, o)
  BY <1>1 DEF Matrix_get_component, Acquired, Raised, Makes
<1> QED BY <1>1, <1>2, RaisedObeys, MakesObeys

LEMMA SetComponentObeys ==
    ASSUME NEW s, IsMemory(s), NEW x \in Named, NEW k, NEW v
    PROVE  Obeys(s, Matrix_set_component(s, x, k, v), {x}, {x})
<1>1. PICK o : o = Matrix_set_component(s, x, k, v)
  OBVIOUS
<1>2. \/ Raised(s, o)
      \/ Owned(s, x) /\ Sets(s, x, o)
  BY <1>1 DEF Matrix_set_component, Write, Acquired, Raised, Sets
<1> QED BY <1>1, <1>2, RaisedObeys, SetsObeys

LEMMA GetLengthObeys ==
    ASSUME NEW s, IsMemory(s), NEW x
    PROVE  Obeys(s, Matrix_get_length(s, x), {}, {x})
<1>1. {x} \cup MaskOf("all") = {x}
  BY DEF MaskOf
<1> QED BY <1>1, AggregateObeys DEF Matrix_get_length

----------------------------------------------------------------------------
(***************************************************************************)
(* Views and iterators.                                                    *)
(***************************************************************************)
IsView(v) == v.kind = "view" /\ v.base \in Named
Lends(s, x, o) == \E v : v.kind = "view" /\ v.base = x /\ o = Done(s, v)

LEMMA LendsMakes ==
    ASSUME NEW s, NEW x, NEW o, Lends(s, x, o)
    PROVE  Makes(s, o)
BY DEF Lends, Makes

LEMMA ViewIs ==
    ASSUME NEW x, NEW offset, NEW count, NEW stride, NEW row, NEW ro, NEW v,
           v = View(x, offset, count, stride, row, ro)
    PROVE  v.kind = "view" /\ v.base = x
BY DEF View

LEMMA ViewNewIs ==
    ASSUME NEW s, NEW v, v.kind = "view", NEW o, o = view_new(s, v)
    PROVE  Raised(s, o) \/ Lends(s, v.base, o)
BY DEF view_new, Raised, Lends

LEMMA LineViewIs ==
    ASSUME NEW s, NEW x, NEW i, NEW r, NEW ro, NEW o,
           o = view_new(s, RowLine(s, x, i, r, ro)) \/ o = view_new(s, ColumnLine(s, x, i, r, ro))
    PROVE  Raised(s, o) \/ Lends(s, x, o)
<1>1. PICK v : /\ o = view_new(s, v)
               /\ \E offset, count, stride, row : v = View(x, offset, count, stride, row, ro)
  BY DEF RowLine, ColumnLine
<1>2. v.kind = "view" /\ v.base = x
  BY <1>1, ViewIs
<1> QED BY <1>1, <1>2, ViewNewIs

LEMMA MakeIs ==
    ASSUME NEW s, NEW way, way.how \in {"row", "column", "key"}, NEW o, o = Make(s, way)
    PROVE  \/ Raised(s, o)
           \/ Owned(s, way.base) /\ Lends(s, way.base, o)
<1>1. CASE way.how = "row"
  <2>1. \/ Raised(s, o)
        \/ /\ Owned(s, way.base)
           /\ \E n, r : o = view_new(s, RowLine(s, way.base, n, r, way.ro))
    BY <1>1 DEF Make, Matrix_row_view, Acquired, Raised
  <2> QED BY <2>1, LineViewIs
<1>2. CASE way.how = "column"
  <2>1. \/ Raised(s, o)
        \/ /\ Owned(s, way.base)
           /\ \E n, r : o = view_new(s, ColumnLine(s, way.base, n, r, way.ro))
    BY <1>2 DEF Make, Matrix_column_view, Acquired, Raised
  <2> QED BY <2>1, LineViewIs
<1>3. CASE way.how = "key"
  <2>1. \/ Raised(s, o)
        \/ /\ Owned(s, way.base)
           /\ \/ \E n, r : o = view_new(s, RowLine(s, way.base, n, r, FALSE))
              \/ \E n, r : o = view_new(s, ColumnLine(s, way.base, n, r, FALSE))
              \/ \E n : o = view_new(s, View(way.base, n, 1, 1, TRUE, FALSE))
    BY <1>3 DEF Make, Matrix_view, Acquired, Raised
  <2>2. ASSUME NEW n, o = view_new(s, View(way.base, n, 1, 1, TRUE, FALSE))
        PROVE  Raised(s, o) \/ Lends(s, way.base, o)
    <3>1. PICK v : v = View(way.base, n, 1, 1, TRUE, FALSE)
      OBVIOUS
    <3>2. v.kind = "view" /\ v.base = way.base
      BY <3>1 DEF View
    <3> QED BY <2>2, <3>1, <3>2, ViewNewIs
  <2> QED BY <2>1, <2>2, LineViewIs
<1> QED BY <1>1, <1>2, <1>3

LEMMA MakeObeys ==
    ASSUME NEW s, IsMemory(s), NEW way, way.how \in {"row", "column", "key"}
    PROVE  Obeys(s, Make(s, way), {}, {way.base})
<1>1. PICK o : o = Make(s, way)
  OBVIOUS
<1>2. \/ Raised(s, o)
      \/ Owned(s, way.base) /\ Lends(s, way.base, o)
  BY <1>1, MakeIs
<1> QED BY <1>1, <1>2, RaisedObeys, LendsMakes, MakesObeys

LEMMA ViewTObeys ==
    ASSUME NEW s, IsMemory(s), NEW v
    PROVE  Obeys(s, MatrixView_T(s, v), {}, {})
<1>1. PICK o : o = MatrixView_T(s, v)
  OBVIOUS
<1>2. Raised(s, o) \/ Makes(s, o)
  BY <1>1 DEF MatrixView_T, view_new, Raised, Makes
<1> QED BY <1>1, <1>2, RaisedObeys, MakesObeys

LEMMA ViewSubscriptObeys ==
    ASSUME NEW s, IsMemory(s), NEW v, NEW k
    PROVE  Obeys(s, MatrixView_subscript(s, v, k), {}, {v.base})
<1>1. PICK o : o = MatrixView_subscript(s, v, k)
  OBVIOUS
<1>2. \/ Raised(s, o)
      \/ Owned(s, v.base) /\ Makes(s, o)
  BY <1>1 DEF MatrixView_subscript, Acquired, view_new, Raised, Makes
<1> QED BY <1>1, <1>2, RaisedObeys, MakesObeys

LEMMA ViewGetComponentObeys ==
    ASSUME NEW s, IsMemory(s), NEW v, NEW k
    PROVE  Obeys(s, view_get_component(s, v, k), {}, {v.base})
<1>1. PICK o : o = view_get_component(s, v, k)
  OBVIOUS
<1>2. \/ Raised(s, o)
      \/ Owned(s, v.base) /\ Makes(s, o)
  BY <1>1 DEF view_get_component, Acquired, Raised, Makes
<1> QED BY <1>1, <1>2, RaisedObeys, MakesObeys

LEMMA ViewSetComponentObeys ==
    ASSUME NEW s, IsMemory(s), NEW v, v.base \in Named, NEW k, NEW x
    PROVE  Obeys(s, view_set_component(s, v, k, x), {v.base}, {v.base})
<1>1. PICK o : o = view_set_component(s, v, k, x)
  OBVIOUS
<1>2. \/ Raised(s, o)
      \/ Owned(s, v.base) /\ Sets(s, v.base, o)
  BY <1>1 DEF view_set_component, Acquired, Write, Raised, Sets
<1> QED BY <1>1, <1>2, RaisedObeys, SetsObeys

LEMMA ViewAssSubscriptObeys ==
    ASSUME NEW s, IsMemory(s), NEW v, v.base \in Named, NEW k, NEW vo, IsOperand(vo)
    PROVE  Obeys(s, MatrixView_ass_subscript(s, v, k, vo), {v.base}, {v.base} \cup Of(vo))
<1>1. PICK o : o = MatrixView_ass_subscript(s, v, k, vo)
  OBVIOUS
<1>2. CASE vo.kind = "num"
  <2>1. \/ Raised(s, o)
        \/ Owned(s, v.base) /\ Sets(s, v.base, o)
    BY <1>1, <1>2 DEF MatrixView_ass_subscript, Acquired, Write, Loop, Raised, Sets
  <2>2. Of(vo) = {}
    BY <1>2 DEF Of
  <2>3. {v.base} \cup Of(vo) = {v.base}
    BY <2>2
  <2> QED BY <1>1, <2>1, <2>3, RaisedObeys, SetsObeys
<1>3. CASE vo.kind # "num"
  <2>1. PICK u : u = Unwrap(s, vo, "rhs", FALSE)
    OBVIOUS
  <2>2. \/ Raised(s, o)
        \/ Owned(s, v.base) /\ u.err = "none" /\ \E d, n : o = Done(WithData(u.s, v.base, d), n)
    BY <1>1, <1>3, <2>1 DEF MatrixView_ass_subscript, Acquired, Loop, Raised
  <2>3. \/ Raised(s, o)
        \/ Owned(s, v.base) /\ Assigns(s, v.base, vo, FALSE, o)
    BY <2>1, <2>2 DEF Assigns
  <2> QED BY <1>1, <2>3, RaisedObeys, AssignsObeys
<1> QED BY <1>2, <1>3

LEMMA ViewUnaryObeys ==
    ASSUME NEW s, IsMemory(s), NEW f, NEW v, v.base \in Named
    PROVE  Obeys(s, view_unary(s, f, v), {}, {v.base})
<1>1. PICK o : o = view_unary(s, f, v)
  OBVIOUS
<1>2. PICK t : t = Materialize(s, v, "lhs")
  OBVIOUS
<1>3. \/ t.err # "none" /\ o = Raise(s, t.err)
      \/ t.err = "none" /\ o = Matrix_unary(t.s, f, "lhs", "fresh")
  BY <1>1, <1>2 DEF view_unary
<1>4. CASE t.err # "none" /\ o = Raise(s, t.err)
  BY <1>1, <1>4, RaisedObeys DEF Raised
<1>5. CASE t.err = "none" /\ o = Matrix_unary(t.s, f, "lhs", "fresh")
  <2>1. Alike(s, t.s) /\ Owned(s, v.base)
    BY <1>2, <1>5, MaterializeIs DEF Temporary
  <2>2. Target("lhs", "fresh") = {}
    BY DEF Target, Named
  <2>3. Obeys(t.s, o, Target("lhs", "fresh"), {"lhs"} \cup Target("lhs", "fresh"))
    BY <1>5, <2>1, UnaryObeys DEF Alike
  <2>4. Obeys(t.s, o, {}, {})
    BY <2>2, <2>3, ObeysMore
  <2>5. Obeys(s, o, {}, {})
    BY <2>1, <2>4, AlikeObeys
  <2> QED BY <1>1, <2>1, <2>5, ObeysMore
<1> QED BY <1>3, <1>4, <1>5

IsIter(it) == /\ it = [kind |-> it.kind, base |-> it.base, view |-> it.view,
                       cursor |-> it.cursor, ro |-> it.ro]
              /\ it.kind \in {"values", "view_values", "rows", "columns"}
              /\ it.base \in Named

LEMMA IterNextObeys ==
    ASSUME NEW s, IsMemory(s), NEW it, IsIter(it)
    PROVE  /\ Obeys(s, Iter_next(s, it), {}, {it.base})
           /\ Iter_next(s, it).s = s
<1>1. PICK o : o = Iter_next(s, it)
  OBVIOUS
<1>2. \/ Raised(s, o)
      \/ Owned(s, it.base) /\ \E r : o = Done(s, r)
  BY <1>1 DEF IsIter, Iter_next, Acquired, view_new, Raised
<1> QED BY <1>1, <1>2, Ending, RaisedObeys, MakesObeys DEF Raised, Makes

----------------------------------------------------------------------------
(***************************************************************************)
(* Calls by an interpreter: w makes one that obeys, on named matrices.     *)
(***************************************************************************)
Lawful(w) == \E op, args, may, o : \E uses \in SUBSET Named :
                 /\ Call(w, op, args, may, uses, o)
                 /\ Obeys(Memory(w), o, may, uses)

\* What views and iterators hold on to.
Held == /\ view # None => IsView(view.v)
        /\ iter # None => IsIter(iter)

LEMMA MemoryIs ==
    ASSUME NEW w
    PROVE  /\ IsMemory(Memory(w))
           /\ \A p \in Named : Memory(w).mat[p] = mem[p] /\ (Owned(Memory(w), p) <=> mem[p].owner = w)
BY DEF Memory, IsMemory, Spots, Owned

LEMMA LawfulKeeps ==
    ASSUME NEW w, Lawful(w)
    PROVE  ForeignIsUntouched' /\ WritesOnlyItsTarget' /\ UNCHANGED <<view, iter>>
<1>1. PICK op, args, may, o : \E uses \in SUBSET Named :
                 /\ Call(w, op, args, may, uses, o)
                 /\ Obeys(Memory(w), o, may, uses)
  BY DEF Lawful
<1>2. PICK uses \in SUBSET Named : /\ Call(w, op, args, may, uses, o)
                                   /\ Obeys(Memory(w), o, may, uses)
  BY <1>1
<1>3. PICK was : was = mem
  OBVIOUS
<1>4. PICK l : l = last'
  OBVIOUS
<1>5. /\ l.may = may /\ l.uses = uses /\ l.who = w /\ l.before = was /\ l.err = o.err
      /\ mem' = [p \in Named |-> o.s.mat[p]]
      /\ UNCHANGED <<view, iter>>
  BY <1>2, <1>3, <1>4 DEF Call
<1>6. \A p \in Named : /\ Memory(w).mat[p] = was[p]
                       /\ Owned(Memory(w), p) <=> was[p].owner = w
  BY <1>3, MemoryIs
<1>7. ForeignIsUntouched'
  <2>1. Foreign(l) => l.err # "none"
    BY <1>2, <1>5, <1>6 DEF Foreign, Obeys
  <2> QED BY <1>4, <2>1 DEF ForeignIsUntouched
<1>8. WritesOnlyItsTarget'
  <2>1. \A p \in Named : mem'[p] # l.before[p] => l.err = "none" /\ p \in l.may
    BY <1>2, <1>5, <1>6 DEF Obeys
  <2> QED BY <1>4, <2>1 DEF WritesOnlyItsTarget
<1> QED BY <1>5, <1>7, <1>8

LEMMA TargetNamed ==
    ASSUME NEW x \in Named, NEW mode
    PROVE  Target(x, mode) \in SUBSET Named
BY DEF Target

LEMMA OperandsAre ==
    ASSUME Held
    PROVE  /\ \A o \in Operands : IsOperand(o)
           /\ \A o \in Places : IsOperand(o) /\ o.kind = "mat"
           /\ \A q : IsOperand(List(q)) /\ List(q).kind = "list" /\ Of(List(q)) = {}
           /\ \A o \in ViewOperand : IsOperand(o)
<1>1. \A x \in Named : IsOperand(Mat(x)) /\ Mat(x).kind = "mat"
  BY DEF IsOperand, Of, Mat
<1>2. \A v : IsOperand(Num(v))
  BY DEF IsOperand, Of, Num
<1>3. \A q : IsOperand(List(q)) /\ List(q).kind = "list" /\ Of(List(q)) = {}
  BY DEF IsOperand, Of, List
<1>4. \A o \in ViewOperand : IsOperand(o)
  BY DEF ViewOperand, Held, IsView, IsOperand, Of
<1> QED BY <1>1, <1>2, <1>3, <1>4 DEF Operands, Places, Nums, Lists

LEMMA ElementwiseLawful ==
    ASSUME Held, NEW w, Unary(w) \/ Clip(w) \/ Normalize(w) \/ Perpendicular(w) \/ Angle(w) \/ Bin(w)
    PROVE  Lawful(w)
<1>1. PICK s : s = Memory(w)
  OBVIOUS
<1>2. IsMemory(s) /\ "a" \in Named
  BY <1>1, MemoryIs DEF Named
<1>3. \A mode : /\ {"a"} \cup Target("a", mode) \in SUBSET Named
                /\ {"a"} \in SUBSET Named
  BY <1>2, TargetNamed
<1>4. CASE Unary(w)
  BY <1>1, <1>2, <1>3, <1>4, UnaryObeys DEF Unary, Lawful
<1>5. CASE Clip(w)
  BY <1>1, <1>2, <1>3, <1>5, ClipObeys DEF Clip, Lawful
<1>6. CASE Normalize(w)
  BY <1>1, <1>2, <1>3, <1>6, NormalizeObeys DEF Normalize, Lawful
<1>7. CASE Perpendicular(w)
  BY <1>1, <1>2, <1>3, <1>7, PerpendicularObeys DEF Perpendicular, Lawful
<1>8. CASE Angle(w)
  BY <1>1, <1>2, <1>3, <1>8, AngleObeys DEF Angle, Lawful
<1>9. CASE Bin(w)
  BY <1>1, <1>2, <1>3, <1>9, BinObeys DEF Bin, Lawful
<1> QED BY <1>4, <1>5, <1>6, <1>7, <1>8, <1>9

LEMMA BinaryLawful ==
    ASSUME Held, NEW w, Binary(w)
    PROVE  Lawful(w)
<1>1. PICK s : s = Memory(w)
  OBVIOUS
<1>2. IsMemory(s) /\ "a" \in Named
  BY <1>1, MemoryIs DEF Named
<1>3. PICK f, mode, l, r :
        /\ l \in {Mat("a")} \cup Nums \cup Lists \cup ViewOperand /\ r \in Operands
        /\ mode = "in_place" => l.kind = "mat" /\ ~InPlaceGrows(l.at, r)
        /\ Call(w, "binary", [f |-> f, l |-> l, r |-> r, mode |-> mode],
                Target("a", mode), Of(l) \cup Of(r) \cup Target("a", mode),
                Matrix_binary_op(s, f, l, r, mode))
  BY <1>1 DEF Binary
<1>4. IsOperand(l) /\ IsOperand(r)
  BY <1>2, <1>3, OperandsAre DEF Operands, Places
<1>5. l.kind = "mat" => l = Mat("a") /\ l.at = "a" /\ Of(l) = {"a"}
  <2>1. l \in Nums \cup Lists \cup ViewOperand => l.kind # "mat"
    BY DEF Nums, Num, Lists, List, ViewOperand, Held, IsView
  <2> QED BY <1>3, <2>1 DEF Mat, Of
<1>6. mode = "in_place" => /\ l.kind = "mat" /\ l.at \in Target("a", mode)
                           /\ r.kind = "mat" => \/ r.at \in Target("a", mode)
                                                \/ ~Grows(s, l.at, r.at)
  <2>1. ASSUME mode = "in_place"
        PROVE  l.kind = "mat" /\ l.at \in Target("a", mode)
    BY <1>3, <1>5, <2>1 DEF Target
  <2>2. ASSUME mode = "in_place", r.kind = "mat"
        PROVE  ~Grows(s, l.at, r.at)
    <3>1. l.at \in Named /\ r.at \in Named
      BY <1>2, <1>3, <1>4, <1>5, <2>2 DEF IsOperand, Of
    <3>2. s.mat[l.at] = mem[l.at] /\ s.mat[r.at] = mem[r.at]
      BY <1>1, <3>1, MemoryIs
    <3>3. ~InPlaceGrows(l.at, r)
      BY <1>3, <2>2
    <3> QED BY <2>2, <3>2, <3>3 DEF InPlaceGrows, Grows, Rows, Cols
  <2> QED BY <2>1, <2>2
<1>7. {mode} \cap Named \subseteq Target("a", mode)
  BY DEF Target, Named
<1>8. PICK o : o = Matrix_binary_op(s, f, l, r, mode)
  OBVIOUS
<1>9. PICK may : may = Target("a", mode)
  OBVIOUS
<1>10. Obeys(s, o, may, Of(l) \cup Of(r) \cup ({mode} \cap Named))
  BY <1>2, <1>4, <1>6, <1>7, <1>8, <1>9, BinaryObeys
<1>11. PICK uses : uses = Of(l) \cup Of(r) \cup may
  OBVIOUS
<1>12. \A p \in uses : p \in Of(l) \cup Of(r) \cup ({mode} \cap Named)
  BY <1>3, <1>5, <1>9, <1>11 DEF Target
<1>13. Obeys(s, o, may, uses)
  BY <1>10, <1>12, ObeysMore
<1>14. uses \in SUBSET Named
  BY <1>2, <1>4, <1>9, <1>11, TargetNamed DEF IsOperand
<1> QED BY <1>1, <1>3, <1>8, <1>9, <1>11, <1>13, <1>14 DEF Lawful

\* The methods of a that take operands.
LEMMA OperandsLawful ==
    ASSUME Held, NEW w,
           Matmul(w) \/ FusedAdd(w) \/ ScaledSum(w) \/ Digitize(w) \/ Vecdot(w) \/ Cross(w) \/ Where(w)
    PROVE  Lawful(w)
<1>1. PICK s : s = Memory(w)
  OBVIOUS
<1>2. IsMemory(s) /\ "a" \in Named /\ "b" \in Named
  BY <1>1, MemoryIs DEF Named
<1>3. \A o \in Operands : IsOperand(o) /\ Of(o) \subseteq Named
  BY OperandsAre DEF IsOperand
<1>4. \A o : o \in Places \cup Nums \cup Lists \cup ViewOperand => o \in Operands
  BY DEF Operands
<1>5. \A mode : Target("a", mode) \subseteq Named /\ Target("b", mode) \subseteq Named
  BY <1>2, TargetNamed
<1>6. CASE Matmul(w)
  <2>1. PICK l, r :
            /\ l \in Operands /\ r \in Operands
            /\ Call(w, "matmul", [l |-> l, r |-> r], {}, Of(l) \cup Of(r), Matrix_matmul(s, l, r))
    BY <1>1, <1>6 DEF Matmul
  <2>2. Obeys(s, Matrix_matmul(s, l, r), {}, Of(l) \cup Of(r))
    BY <1>2, <1>3, <2>1, MatmulObeys
  <2>3. Of(l) \cup Of(r) \in SUBSET Named
    BY <1>3, <2>1
  <2> QED BY <1>1, <2>1, <2>2, <2>3 DEF Lawful
<1>7. CASE FusedAdd(w)
  <2>1. PICK b, c, mode :
            /\ b \in Operands /\ c \in Operands
            /\ Call(w, "fma", [x |-> "a", b |-> b, c |-> c, mode |-> mode],
                    Target("a", mode), {"a"} \cup Of(b) \cup Of(c), Matrix_fma(s, "a", b, c, mode))
    BY <1>1, <1>4, <1>7 DEF FusedAdd
  <2>2. Obeys(s, Matrix_fma(s, "a", b, c, mode), Target("a", mode), {"a"} \cup Of(b) \cup Of(c))
    BY <1>2, <1>3, <2>1, FmaObeys
  <2>3. {"a"} \cup Of(b) \cup Of(c) \in SUBSET Named
    BY <1>2, <1>3, <2>1
  <2> QED BY <1>1, <2>1, <2>2, <2>3 DEF Lawful
<1>8. CASE ScaledSum(w)
  <2>1. PICK f, x, mode :
            /\ f \in Operands /\ x \in Operands
            /\ Call(w, "scaled_add", [y |-> "a", f |-> f, x |-> x, mode |-> mode],
                    Target("a", mode), {"a"} \cup Of(f) \cup Of(x),
                    Matrix_scaled_add(s, "a", f, x, mode))
    BY <1>1, <1>4, <1>8 DEF ScaledSum
  <2>2. Obeys(s, Matrix_scaled_add(s, "a", f, x, mode), Target("a", mode),
              {"a"} \cup Of(f) \cup Of(x))
    BY <1>2, <1>3, <2>1, ScaledAddObeys
  <2>3. {"a"} \cup Of(f) \cup Of(x) \in SUBSET Named
    BY <1>2, <1>3, <2>1
  <2> QED BY <1>1, <2>1, <2>2, <2>3 DEF Lawful
<1>9. CASE Digitize(w)
  <2>1. PICK e, right, mode :
            /\ IsOperand(e) /\ Of(e) \subseteq Named
            /\ Call(w, "digitize", [x |-> "a", e |-> e, right |-> right, mode |-> mode],
                    Target("a", mode), {"a"} \cup Of(e) \cup Target("a", mode),
                    Matrix_digitize(s, "a", e, right, mode))
    <3>1. \A e \in Places \cup Lists \cup ViewOperand \cup {List(<<-1, 0, 2>>)} :
              IsOperand(e) /\ Of(e) \subseteq Named
      BY <1>3, <1>4, OperandsAre DEF IsOperand
    <3> QED BY <1>1, <1>9, <3>1 DEF Digitize
  <2>2. Obeys(s, Matrix_digitize(s, "a", e, right, mode), Target("a", mode),
              {"a"} \cup Of(e) \cup Target("a", mode))
    BY <1>2, <2>1, DigitizeObeys
  <2>3. {"a"} \cup Of(e) \cup Target("a", mode) \in SUBSET Named
    BY <1>2, <1>5, <2>1
  <2> QED BY <1>1, <2>1, <2>2, <2>3 DEF Lawful
<1>10. CASE Vecdot(w)
  <2>1. PICK o, axis :
            /\ o \in Operands
            /\ Call(w, "vecdot", [x |-> "a", o |-> o, axis |-> axis], {}, {"a"} \cup Of(o),
                    Matrix_vecdot(s, "a", o, axis))
    BY <1>1, <1>10 DEF Vecdot
  <2>2. Obeys(s, Matrix_vecdot(s, "a", o, axis), {}, {"a"} \cup Of(o))
    BY <1>2, <1>3, <2>1, VecdotObeys
  <2>3. {"a"} \cup Of(o) \in SUBSET Named
    BY <1>2, <1>3, <2>1
  <2> QED BY <1>1, <2>1, <2>2, <2>3 DEF Lawful
<1>11. CASE Cross(w)
  <2>1. PICK o, axis :
            /\ o \in Operands
            /\ Call(w, "cross", [x |-> "a", o |-> o, axis |-> axis], {}, {"a"} \cup Of(o),
                    Matrix_cross(s, "a", o, axis))
    BY <1>1, <1>11 DEF Cross
  <2>2. Obeys(s, Matrix_cross(s, "a", o, axis), {}, {"a"} \cup Of(o))
    BY <1>2, <1>3, <2>1, CrossObeys
  <2>3. {"a"} \cup Of(o) \in SUBSET Named
    BY <1>2, <1>3, <2>1
  <2> QED BY <1>1, <2>1, <2>2, <2>3 DEF Lawful
<1>12. CASE Where(w)
  <2>1. PICK x, y, mode :
            /\ x \in Operands /\ y \in Operands
            /\ Call(w, "where", [mask |-> "b", x |-> x, y |-> y, mode |-> mode],
                    Target("b", mode), {"b"} \cup Of(x) \cup Of(y) \cup Target("b", mode),
                    Matrix_where(s, "b", x, y, mode))
    BY <1>1, <1>12 DEF Where
  <2>2. Obeys(s, Matrix_where(s, "b", x, y, mode), Target("b", mode),
              {"b"} \cup Of(x) \cup Of(y) \cup Target("b", mode))
    BY <1>2, <1>3, <2>1, WhereObeys
  <2>3. {"b"} \cup Of(x) \cup Of(y) \cup Target("b", mode) \in SUBSET Named
    BY <1>2, <1>3, <1>5, <2>1
  <2> QED BY <1>1, <2>1, <2>2, <2>3 DEF Lawful
<1> QED BY <1>6, <1>7, <1>8, <1>9, <1>10, <1>11, <1>12

\* The methods of a that take a mask.
LEMMA MaskedLawful ==
    ASSUME Held, NEW w, Aggregate(w) \/ ArgMinMax(w) \/ Topk(w)
    PROVE  Lawful(w)
<1>1. PICK s : s = Memory(w)
  OBVIOUS
<1>2. IsMemory(s)
  BY <1>1, MemoryIs
<1>3. \A where \in Wheres : /\ UsesMask(where) = {"a"} \cup MaskOf(where)
                            /\ UsesMask(where) \in SUBSET Named
  BY DEF UsesMask, MaskOf, Wheres, Named
<1>4. CASE Aggregate(w)
  BY <1>1, <1>2, <1>3, <1>4, AggregateObeys DEF Aggregate, Lawful
<1>5. CASE ArgMinMax(w)
  BY <1>1, <1>2, <1>3, <1>5, ArgextremeObeys DEF ArgMinMax, Lawful
<1>6. CASE Topk(w)
  BY <1>1, <1>2, <1>3, <1>6, TopkObeys DEF Topk, Lawful
<1> QED BY <1>4, <1>5, <1>6

LEMMA ArrangeLawful ==
    ASSUME Held, NEW w, Arrange(w)
    PROVE  Lawful(w)
<1>1. PICK s : s = Memory(w)
  OBVIOUS
<1>2. IsMemory(s) /\ "a" \in Named
  BY <1>1, MemoryIs DEF Named
<1>3. {} \in SUBSET Named /\ {"a"} \in SUBSET Named
  BY <1>2
<1>4. \A o \in Operands : IsOperand(o) /\ Of(o) \subseteq Named
  BY OperandsAre DEF IsOperand
<1>5. CASE Copy(w)
  <2>1. view # None => {view.v.base} \in SUBSET Named
    BY DEF Held, IsView
  <2> QED BY <1>1, <1>2, <1>3, <1>5, <2>1, CopyObeys, UnpickleObeys, FromViewObeys DEF Copy, Lawful
<1>6. CASE Transpose(w)
  <2>1. PICK in_place \in BOOLEAN, mode \in {"in_place", "fresh"} :
            /\ mode = IF in_place THEN "in_place" ELSE "fresh"
            /\ Call(w, "transpose", [x |-> "a", mode |-> mode], Target("a", mode), {"a"},
                    Matrix_transpose(s, "a", in_place))
    BY <1>1, <1>6 DEF Transpose
  <2>2. Target("a", mode) = IF in_place THEN {"a"} ELSE {}
    BY <2>1 DEF Target, Named
  <2>3. Obeys(s, Matrix_transpose(s, "a", in_place), IF in_place THEN {"a"} ELSE {}, {"a"})
    BY <1>2, TransposeObeys
  <2>4. Obeys(s, Matrix_transpose(s, "a", in_place), Target("a", mode), {"a"})
    BY <2>2, <2>3
  <2> QED BY <1>1, <1>3, <2>1, <2>4 DEF Lawful
<1>7. CASE Concat(w)
  <2>1. PICK x, y, axis, n : /\ x \in Places \cup Lists /\ y \in Places \cup Lists /\ n \in 0..2
                             /\ LET items == SubSeq(<<x, y>>, 1, n)
                                IN Call(w, "concat", [items |-> items, axis |-> axis], {},
                                        UNION {Of(items[i]) : i \in DOMAIN items},
                                        Matrix_concat(s, items, axis))
    BY <1>1, <1>7 DEF Concat
  <2>2. PICK items : items = SubSeq(<<x, y>>, 1, n)
    OBVIOUS
  <2>3. \A i \in DOMAIN items : items[i] \in {x, y}
    BY <2>1, <2>2
  <2>4. \A o \in {x, y} : IsOperand(o) /\ o.kind \in {"mat", "list"}
    BY <2>1, OperandsAre DEF Lists
  <2>5. PICK uses : uses = UNION {Of(items[i]) : i \in DOMAIN items}
    OBVIOUS
  <2>6. uses \in SUBSET Named
    BY <2>3, <2>4, <2>5 DEF IsOperand
  <2>7. Obeys(s, Matrix_concat(s, items, axis), {}, uses)
    BY <1>2, <2>3, <2>4, <2>5, ConcatObeys
  <2> QED BY <1>1, <2>1, <2>2, <2>5, <2>6, <2>7 DEF Lawful
<1>8. CASE Repeat(w)
  BY <1>1, <1>2, <1>3, <1>8, RepeatObeys DEF Repeat, Lawful
<1>9. CASE AllClose(w)
  <2>1. \A y \in {"b", "c"} : {"a", y} \in SUBSET Named
    BY DEF Named
  <2> QED BY <1>1, <1>2, <1>9, <2>1, AllCloseObeys DEF AllClose, Lawful
<1>10. CASE RichCompare(w)
  <2>1. PICK o, op, uses : /\ o \in Operands
                           /\ uses = {"a"} \cup (IF o.kind = "mat" THEN {o.at} ELSE {})
                           /\ Call(w, "compare", [o |-> o, op |-> op], {}, uses,
                                   Matrix_richcompare(s, "a", o, op))
    BY <1>1, <1>10 DEF RichCompare
  <2>2. uses \in SUBSET Named
    BY <1>2, <1>4, <2>1 DEF Of
  <2>3. Obeys(s, Matrix_richcompare(s, "a", o, op), {}, uses)
    BY <1>2, <1>4, <2>1, RichcompareObeys
  <2> QED BY <1>1, <2>1, <2>2, <2>3 DEF Lawful
<1>11. CASE Construct(w)
  <2>1. PICK op, args, o : /\ Call(w, op, args, {}, {}, o)
                           /\ \/ \E r, c, v : \/ o = Matrix_zeros(s, r, c)
                                              \/ o = Matrix_ones(s, r, c)
                                              \/ o = Matrix_full(s, r, c, v)
                              \/ \E r, c, vo : o = Matrix_init(s, r, c, vo)
                              \/ \E q, column : o = Matrix_vector(s, q, column)
    BY <1>1, <1>11 DEF Construct
  <2>2. Obeys(s, o, {}, {})
    BY <1>2, <2>1, FilledObeys, InitObeys, VectorObeys DEF Matrix_zeros, Matrix_ones, Matrix_full
  <2> QED BY <1>1, <1>3, <2>1, <2>2 DEF Lawful
<1> QED BY <1>5, <1>6, <1>7, <1>8, <1>9, <1>10, <1>11 DEF Arrange

LEMMA PartsLawful ==
    ASSUME Held, NEW w, Subscript(w) \/ Item(w) \/ Assign(w) \/ Take(w) \/ Put(w) \/ Components(w)
    PROVE  Lawful(w)
<1>1. PICK s : s = Memory(w)
  OBVIOUS
<1>2. IsMemory(s) /\ "a" \in Named /\ {"a"} \in SUBSET Named
  BY <1>1, MemoryIs DEF Named
<1>3. \A o \in Operands : IsOperand(o) /\ Of(o) \subseteq Named
  BY OperandsAre DEF IsOperand
<1>4. CASE Subscript(w)
  BY <1>1, <1>2, <1>4, SubscriptObeys DEF Subscript, Lawful
<1>5. CASE Item(w)
  BY <1>1, <1>2, <1>5, ItemObeys DEF Item, Lawful
<1>6. CASE Assign(w)
  <2>1. PICK k, o : /\ o \in Operands
                    /\ Call(w, "assign", [k |-> k, o |-> o], {"a"}, {"a"} \cup Of(o),
                            Matrix_ass_subscript(s, "a", k, o))
    BY <1>1, <1>6 DEF Assign
  <2>2. Obeys(s, Matrix_ass_subscript(s, "a", k, o), {"a"}, {"a"} \cup Of(o))
    BY <1>2, <1>3, <2>1, AssSubscriptObeys
  <2>3. {"a"} \cup Of(o) \in SUBSET Named
    BY <1>2, <1>3, <2>1
  <2> QED BY <1>1, <2>1, <2>2, <2>3 DEF Lawful
<1>7. CASE Take(w)
  <2>1. \A mode : {"a"} \cup Target("a", mode) \in SUBSET Named
    BY <1>2, TargetNamed
  <2> QED BY <1>1, <1>2, <1>7, <2>1, TakeObeys DEF Take, Lawful
<1>8. CASE Put(w)
  <2>1. PICK args, q, axis, accumulate, o, b :
            /\ o \in Operands
            /\ \/ b = Matrix_put(s, "a", q, o, axis, accumulate)
               \/ b = Matrix_put_along_axis(s, "a", q, o, axis, accumulate)
            /\ \E op : Call(w, op, args, {"a"}, {"a"} \cup Of(o), b)
    <3>1. \A o : o \in Places \cup Nums \cup ViewOperand => o \in Operands
      BY DEF Operands
    <3> QED BY <1>1, <1>8, <3>1 DEF Put
  <2>2. Obeys(s, b, {"a"}, {"a"} \cup Of(o))
    BY <1>2, <1>3, <2>1, PutObeys
  <2>3. {"a"} \cup Of(o) \in SUBSET Named
    BY <1>2, <1>3, <2>1
  <2> QED BY <1>1, <2>1, <2>2, <2>3 DEF Lawful
<1>9. CASE Components(w)
  <2>1. PICK how, n, v, args, may, o :
            /\ \/ how = "get" /\ may = {} /\ o = Matrix_get_component(s, "a", n)
               \/ how = "length" /\ may = {} /\ o = Matrix_get_length(s, "a")
               \/ how = "set" /\ may = {"a"} /\ o = Matrix_set_component(s, "a", n, v)
            /\ Call(w, "component", args, may, {"a"}, o)
    BY <1>1, <1>9 DEF Components
  <2>2. Obeys(s, o, may, {"a"})
    BY <1>2, <2>1, GetComponentObeys, GetLengthObeys, SetComponentObeys
  <2> QED BY <1>1, <1>2, <2>1, <2>2 DEF Lawful
<1> QED BY <1>4, <1>5, <1>6, <1>7, <1>8, <1>9

LEMMA ViewsLawful ==
    ASSUME Held, NEW w, ViewOf(w) \/ ViewRead(w) \/ ViewWrite(w) \/ ViewUnary(w) \/ IterNext(w)
    PROVE  Lawful(w)
<1>1. PICK s : s = Memory(w)
  OBVIOUS
<1>2. IsMemory(s) /\ "a" \in Named /\ {"a"} \in SUBSET Named /\ {} \in SUBSET Named
  BY <1>1, MemoryIs DEF Named
<1>3. view # None => view.v.base \in Named /\ {view.v.base} \in SUBSET Named
  BY DEF Held, IsView
<1>4. CASE ViewOf(w)
  <2>1. \A way \in ByLine("a") \cup ByKey("a") : way.how \in {"row", "column", "key"} /\ way.base = "a"
    BY DEF ByLine, ByKey
  <2> QED BY <1>1, <1>2, <1>4, <2>1, MakeObeys DEF ViewOf, Lawful
<1>5. CASE ViewRead(w)
  BY <1>1, <1>2, <1>3, <1>5, ViewSubscriptObeys, ViewGetComponentObeys, ViewTObeys DEF ViewRead, Lawful
<1>6. CASE ViewWrite(w)
  <2>1. PICK op, args, base, uses, o :
            /\ view # None /\ base = view.v.base
            /\ \/ \E k, vo : /\ vo \in Operands /\ uses = {base} \cup Of(vo)
                             /\ o = MatrixView_ass_subscript(s, view.v, k, vo)
               \/ \E n, v : uses = {base} /\ o = view_set_component(s, view.v, n, v)
            /\ Call(w, op, args, {base}, uses, o)
    <3>1. \A o : o \in Places \cup Nums \cup Lists => o \in Operands
      BY DEF Operands
    <3> QED BY <1>1, <1>6, <3>1 DEF ViewWrite
  <2>2. \A vo \in Operands : IsOperand(vo) /\ Of(vo) \subseteq Named
    BY OperandsAre DEF IsOperand
  <2>3. uses \in SUBSET Named
    BY <1>3, <2>1, <2>2
  <2>4. Obeys(s, o, {base}, uses)
    <3>1. ASSUME NEW k, NEW vo, vo \in Operands, uses = {base} \cup Of(vo),
                 o = MatrixView_ass_subscript(s, view.v, k, vo)
          PROVE  Obeys(s, o, {base}, uses)
      BY <1>2, <1>3, <2>1, <2>2, <3>1, ViewAssSubscriptObeys
    <3>2. ASSUME NEW n, NEW v, uses = {base}, o = view_set_component(s, view.v, n, v)
          PROVE  Obeys(s, o, {base}, uses)
      BY <1>2, <1>3, <2>1, <3>2, ViewSetComponentObeys
    <3> QED BY <2>1, <3>1, <3>2
  <2> QED BY <1>1, <2>1, <2>3, <2>4 DEF Lawful
<1>7. CASE ViewUnary(w)
  BY <1>1, <1>2, <1>3, <1>7, ViewUnaryObeys DEF ViewUnary, Lawful
<1>8. CASE IterNext(w)
  <2>1. iter # None /\ IsIter(iter) /\ {iter.base} \in SUBSET Named
    BY <1>8 DEF IterNext, Held, IsIter
  <2>2. Obeys(s, Iter_next(s, iter), {}, {iter.base})
    BY <1>2, <2>1, IterNextObeys
  <2> QED BY <1>1, <1>8, <2>1, <2>2 DEF IterNext, Lawful
<1> QED BY <1>4, <1>5, <1>6, <1>7, <1>8

----------------------------------------------------------------------------
(***************************************************************************)
(* Preparing steps leave last as it is, and hold on to what they made.     *)
(***************************************************************************)
LEMMA ReadyHeld ==
    ASSUME Held, NEW w, Ready(w)
    PROVE  Held' /\ last = None /\ last' = None
<1>1. last = None /\ last' = None
  BY DEF Ready, KeepView, StartIter, StepIter, Send, Receive, TransposeFirst, SetFirst, Turn, Prepare
<1>2. CASE KeepView(w)
  <2>1. PICK way \in Ways : /\ Prepare(Make(Memory(w), way))
                            /\ \E cells : view' = [v |-> Make(Memory(w), way).ret, cells |-> cells]
                            /\ iter' = iter
    BY <1>2 DEF KeepView
  <2>2. PICK o : o = Make(Memory(w), way)
    OBVIOUS
  <2>3. o.err = "none" /\ view'.v = o.ret /\ iter' = iter
    BY <2>1, <2>2 DEF Prepare
  <2>4. way.how \in {"row", "column", "key"} /\ way.base \in Named
    BY <2>1, MatricesAssumption
  <2>5. \E v : v.kind = "view" /\ v.base = way.base /\ o = Done(Memory(w), v)
    BY <2>2, <2>3, <2>4, MakeIs, Ending DEF Raised, Lends
  <2>6. IsView(o.ret)
    BY <2>4, <2>5 DEF Done, IsView
  <2> QED BY <1>1, <2>3, <2>6 DEF Held
<1>3. CASE StartIter(w)
  <2>1. PICK it \in {Values("a")} \cup {Lines("a", kind, TRUE) : kind \in {"rows", "columns"}}
                        \cup (IF view = None THEN {} ELSE {ViewValues(view.v)}) :
            iter' = it /\ view' = view
    BY <1>3 DEF StartIter
  <2>2. IsIter(Values("a")) /\ \A kind \in {"rows", "columns"} : IsIter(Lines("a", kind, TRUE))
    BY DEF IsIter, Values, Lines, Named
  <2>3. view # None => IsIter(ViewValues(view.v))
    BY DEF Held, IsView, IsIter, ViewValues
  <2>4. IsIter(it)
    BY <2>1, <2>2, <2>3
  <2> QED BY <1>1, <2>1, <2>4 DEF Held
<1>4. CASE StepIter(w)
  <2>1. iter # None /\ iter' = Advanced(iter) /\ view' = view
    BY <1>4 DEF StepIter
  <2>2. IsIter(iter')
    BY <2>1 DEF Held, IsIter, Advanced
  <2> QED BY <1>1, <2>1, <2>2 DEF Held
<1>5. CASE Send(w) \/ Receive(w) \/ TransposeFirst(w) \/ SetFirst(w)
  BY <1>1, <1>5 DEF Send, Receive, TransposeFirst, SetFirst, Held
<1> QED BY <1>2, <1>3, <1>4, <1>5 DEF Ready

----------------------------------------------------------------------------
(***************************************************************************)
(* The invariant.  A call ends the run, so that both properties follow     *)
(* from what each method obeys; Held says that views and iterators, which  *)
(* outlive the call that made them, stand for named matrices.              *)
(***************************************************************************)
MInv == Held /\ ForeignIsUntouched /\ WritesOnlyItsTarget

LEMMA MInv_Init ==
    ASSUME Init
    PROVE  MInv
BY DEF Init, MInv, Held, ForeignIsUntouched, WritesOnlyItsTarget

LEMMA Compute_Lawful ==
    ASSUME Held, NEW w, Compute(w)
    PROVE  Lawful(w)
BY ElementwiseLawful, BinaryLawful, OperandsLawful, MaskedLawful DEF Compute

LEMMA Touch_Lawful ==
    ASSUME Held, NEW w, Touch(w)
    PROVE  Lawful(w)
BY PartsLawful, ViewsLawful DEF Touch

LEMMA MInv_Next ==
    ASSUME MInv, [Next]_vars
    PROVE  MInv'
<1>1. Held
  BY DEF MInv
<1>2. ASSUME NEW w, Lawful(w)
      PROVE  MInv'
  <2>1. Held'
    BY <1>1, <1>2, LawfulKeeps DEF Held
  <2> QED BY <1>2, <2>1, LawfulKeeps DEF MInv
<1>3. ASSUME NEW w, Ready(w)
      PROVE  MInv'
  <2>1. Held' /\ last' = None
    BY <1>1, <1>3, ReadyHeld
  <2> QED BY <2>1 DEF MInv, ForeignIsUntouched, WritesOnlyItsTarget
<1>4. CASE UNCHANGED vars
  BY <1>4 DEF MInv, Held, ForeignIsUntouched, WritesOnlyItsTarget, vars
<1>5. CASE Next
  <2>1. PICK w \in Interpreters : Compute(w) \/ Arrange(w) \/ Touch(w) \/ Ready(w)
    BY <1>5 DEF Next
  <2> QED BY <1>1, <1>2, <1>3, <2>1, Compute_Lawful, ArrangeLawful, Touch_Lawful
<1> QED BY <1>4, <1>5

(***************************************************************************)
(* Views and iterators hold on to named matrices, and the call that ended  *)
(* the run was refused, or had found its matrices to be its caller's and   *)
(* changed none but its target.                                            *)
(***************************************************************************)
THEOREM Matrices_Invariant == Spec => []MInv
<1>1. Init => MInv
  BY MInv_Init
<1>2. MInv /\ [Next]_vars => MInv'
  BY MInv_Next
<1> QED BY <1>1, <1>2, PTL DEF Spec

(***************************************************************************)
(* impl_check_acquired, in every method: a call that uses a matrix its     *)
(* interpreter does not own - as receiver, operand, mask, target, base of  *)
(* a view or of an iterator, and also when the matrix was sent away after  *)
(* the view was made - raises.                                             *)
(***************************************************************************)
THEOREM Matrices_ForeignIsUntouched == Spec => []ForeignIsUntouched
<1>1. MInv => ForeignIsUntouched
  BY DEF MInv
<1> QED BY <1>1, Matrices_Invariant, PTL

(***************************************************************************)
(* No call changes a matrix but the one it was asked to write, and none    *)
(* that raises changes any: indices, operands and the target are judged    *)
(* before the first cell is written.                                       *)
(***************************************************************************)
THEOREM Matrices_WritesOnlyItsTarget == Spec => []WritesOnlyItsTarget
<1>1. MInv => WritesOnlyItsTarget
  BY DEF MInv
<1> QED BY <1>1, Matrices_Invariant, PTL
=============================================================================
