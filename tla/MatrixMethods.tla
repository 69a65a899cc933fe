---------------------------- MODULE MatrixMethods ----------------------------
(***************************************************************************)
(* _math.c: the methods of a Matrix that compute.  A method validates its  *)
(* operands, finds its target (a fresh matrix, the receiver, or the one    *)
(* given as out) and runs a kernel.  Its outcome is the memory it leaves   *)
(* and what it returns or raises.                                          *)
(*                                                                         *)
(* mode is "fresh", "in_place", or the place of the matrix given as out;   *)
(* None is an omitted argument.  Allocation does not fail.                 *)
(***************************************************************************)
EXTENDS MatrixKernels

CONSTANT None

Done(s, ret) == [s |-> s, err |-> "none", ret |-> ret]
Raise(s, e) == [s |-> s, err |-> e, ret |-> [kind |-> "nothing"]]
Float(v) == [kind |-> "float", value |-> v]
Ints(q) == [kind |-> "ints", values |-> q]
Bool(b) == [kind |-> "bool", value |-> b]
Ref(x) == [kind |-> "ref", at |-> x]

----------------------------------------------------------------------------
(***************************************************************************)
(* Operands: a matrix, a number, a list of numbers, or a view (Matrices).  *)
(***************************************************************************)
Mat(x) == [kind |-> "mat", at |-> x]
Num(v) == [kind |-> "num", value |-> v]
List(q) == [kind |-> "list", values |-> q]

\* Where an operand was found, in which memory; or why it was not.
At(s, x) == [s |-> s, at |-> x, err |-> "none"]
Not(s, e) == [s |-> s, at |-> "nowhere", err |-> e]

FromSequence(s, q, x, asColumn) ==
    IF q = << >> THEN Not(s, "value")
    ELSE At(Buffer(s, x, IF asColumn THEN Len(q) ELSE 1, IF asColumn THEN 1 ELSE Len(q),
                   LAMBDA i : q[i + 1]), x)

Materialize(s, v, x) ==
    IF ~Owned(s, v.base) THEN Not(s, "owner")
    ELSE At(Buffer(s, x, IF v.row THEN 1 ELSE v.count, IF v.row THEN v.count ELSE 1,
                   LAMBDA i : Val(s, v.base, v.offset + i * v.stride)), x)

\* tmp is the place of the buffer made for an operand that is no matrix.
Unwrap(s, o, tmp, asColumn) ==
    CASE o.kind = "mat" -> IF Owned(s, o.at) THEN At(s, o.at) ELSE Not(s, "owner")
      [] o.kind = "view" -> Materialize(s, o, tmp)
      [] o.kind = "list" -> FromSequence(s, o.values, tmp, asColumn)
      [] o.kind = "num" -> Not(s, "type")

----------------------------------------------------------------------------
(***************************************************************************)
(* Targets.                                                                *)
(***************************************************************************)
\* A faulty variant: a matrix of the right shape is taken, whoever owns it.
AnyTarget(s, x, r, c) ==
    IF Rows(s, x) # r \/ Cols(s, x) # c THEN Not(s, "shape") ELSE At(s, x)

UseOutTarget(s, x, r, c) ==
    IF ~Owned(s, x) THEN Not(s, "owner")
    ELSE IF Rows(s, x) # r \/ Cols(s, x) # c THEN Not(s, "shape")
    ELSE At(s, x)

SetOutput(s, lhs, mode) ==
    CASE mode = "fresh" -> At(New(s, "out", Rows(s, lhs), Cols(s, lhs)), "out")
      [] mode = "in_place" -> At(s, lhs)
      [] OTHER -> UseOutTarget(s, mode, Rows(s, lhs), Cols(s, lhs))

\* Kernel(t, out) runs once the target is known, or nothing is written.
Into(target, Kernel(_, _)) ==
    IF target.err # "none" THEN Raise(target.s, target.err)
    ELSE Done(Kernel(target.s, target.at), Ref(target.at))

Fresh(s, r, c, Kernel(_, _)) == Into(At(New(s, "out", r, c), "out"), Kernel)

----------------------------------------------------------------------------
(***************************************************************************)
(* Binary operators, with broadcasting.  swap_right mirrors the operator   *)
(* when its operands change sides.                                         *)
(***************************************************************************)
SwapRight(f) == CASE f = "Subtract" -> "RSubtract"
                  [] f = "Divide" -> "RDivide"
                  [] f = "Less" -> "Greater"
                  [] f = "Greater" -> "Less"
                  [] f = "LessEqual" -> "GreaterEqual"
                  [] f = "GreaterEqual" -> "LessEqual"
                  [] OTHER -> f

WithScalar(s, f, v, o, mode) ==
    LET u == Unwrap(s, o, "lhs", FALSE)
    IN IF u.err # "none" THEN Raise(s, u.err)
       ELSE Into(SetOutput(u.s, u.at, mode),
                 LAMBDA t, out : BinScalar(t, f, u.at, v, out))

Outer(s, f, col, row, mode) ==
    IF mode = "in_place" THEN Raise(s, "shape")
    ELSE Into(IF mode = "fresh"
              THEN At(New(s, "out", Rows(s, col), Cols(s, row)), "out")
              ELSE UseOutTarget(s, mode, Rows(s, col), Cols(s, row)),
              LAMBDA t, out : BinOuter(t, f, col, row, out))

TwoMatrices(s, f, l, r, mode) ==
    CASE Size(s, r) = 1 ->
            Into(SetOutput(s, l, mode),
                 LAMBDA t, out : BinScalar(t, f, l, Val(s, r, 0), out))
      [] Size(s, r) # 1 /\ Size(s, l) = 1 ->
            IF mode = "in_place" THEN Raise(s, "shape")
            ELSE Into(SetOutput(s, r, mode),
                      LAMBDA t, out : BinScalar(t, SwapRight(f), r, Val(s, l, 0), out))
      [] SameShape(s, l, r) /\ Size(s, r) # 1 ->
            Into(SetOutput(s, l, mode), LAMBDA t, out : BinEwise(t, f, l, r, out))
      [] OTHER ->
            IF Rows(s, l) # Rows(s, r) /\ Cols(s, l) # Cols(s, r)
            THEN IF Cols(s, l) = 1 /\ Rows(s, r) = 1 THEN Outer(s, f, l, r, mode)
                 ELSE IF Rows(s, l) = 1 /\ Cols(s, r) = 1
                      THEN Outer(s, SwapRight(f), r, l, mode)
                      ELSE Raise(s, "shape")
            ELSE IF Rows(s, l) # Rows(s, r)
            THEN IF Rows(s, l) = 1
                 THEN Into(SetOutput(s, r, mode),
                           LAMBDA t, out : BinRowwise(t, SwapRight(f), r, l, out))
                 ELSE IF Rows(s, r) = 1
                      THEN Into(SetOutput(s, l, mode),
                                LAMBDA t, out : BinRowwise(t, f, l, r, out))
                      ELSE Raise(s, "shape")
            ELSE IF Cols(s, l) = 1
                 THEN Into(SetOutput(s, r, mode),
                           LAMBDA t, out : BinColumnwise(t, SwapRight(f), r, l, out))
                 ELSE IF Cols(s, r) = 1
                      THEN Into(SetOutput(s, l, mode),
                                LAMBDA t, out : BinColumnwise(t, f, l, r, out))
                      ELSE Raise(s, "shape")

Matrix_binary_op(s, f, lo, ro, mode) ==
    IF lo.kind = "num" THEN WithScalar(s, SwapRight(f), lo.value, ro, mode)
    ELSE IF ro.kind = "num" THEN WithScalar(s, f, ro.value, lo, mode)
    ELSE LET l == Unwrap(s, lo, "lhs", FALSE)
             r == Unwrap(l.s, ro, "rhs", FALSE)
         IN IF l.err # "none" THEN Raise(s, l.err)
            ELSE IF r.err # "none" THEN Raise(s, r.err)
            ELSE TwoMatrices(r.s, f, l.at, r.at, mode)

Matrix_matmul(s, lo, ro) ==
    LET l == Unwrap(s, lo, "lhs", FALSE)
        r == Unwrap(l.s, ro, "rhs", FALSE)
    IN IF l.err # "none" THEN Raise(s, l.err)
       ELSE IF r.err # "none" THEN Raise(s, r.err)
       ELSE IF Cols(r.s, l.at) # Rows(r.s, r.at) THEN Raise(s, "shape")
       ELSE Fresh(r.s, Rows(r.s, l.at), Cols(r.s, r.at),
                  LAMBDA t, out : MatMul(t, l.at, r.at, out))

----------------------------------------------------------------------------
(***************************************************************************)
(* What methods check before they touch anything.                          *)
(***************************************************************************)
Acquired(s, x, Body) == IF Owned(s, x) THEN Body ELSE Raise(s, "owner")

\* out and in_place are mutually exclusive: mode "both" asks for the two.
Exclusive(s, mode, Body) == IF mode = "both" THEN Raise(s, "value") ELSE Body

\* -2 and 0 are the columns' axis 0, -1 and 1 the rows' axis 1.
IsAxis(axis) == IF axis = None THEN TRUE ELSE axis \in -2..1
NormalisedAxis(axis) == IF axis = None THEN None ELSE axis % 2
WithAxis(s, axis, Body(_)) ==
    IF IsAxis(axis) THEN Body(NormalisedAxis(axis)) ELSE Raise(s, "axis")

\* where is "all", or the place of a mask: a zero excludes the cell, NaN does not.
WithMask(s, x, where, Body) ==
    IF where = "all" THEN Body
    ELSE IF ~Owned(s, where) THEN Raise(s, "owner")
    ELSE IF ~SameShape(s, x, where) THEN Raise(s, "shape")
    ELSE Body

Included(s, where, i) == where = "all" \/ Val(s, where, i) # 0

----------------------------------------------------------------------------
(***************************************************************************)
(* Element by element.                                                     *)
(***************************************************************************)
Matrix_unary(s, f, x, mode) ==
    Acquired(s, x, Exclusive(s, mode,
        Into(SetOutput(s, x, mode), LAMBDA t, out : UnaryEwise(t, f, x, out))))

Matrix_clip(s, x, lo, hi, mode) ==
    Acquired(s, x, Exclusive(s, mode,
        IF lo = None /\ hi = None THEN Raise(s, "value")
        ELSE LET min == IF lo = None THEN -Huge ELSE lo
                 max == IF hi = None THEN Huge ELSE hi
             IN IF Less(max, min) THEN Raise(s, "value")
                ELSE Into(SetOutput(s, x, mode),
                          LAMBDA t, out : Sweep(t, out, Size(t, x),
                              LAMBDA u, i : Clamped(Val(u, x, i), min, max)))))

\* The multiplier and the addend of fma, the scale of scaled_add.
ClassifyBroadcast(s, o, x, tmp) ==
    LET Spread(Of(_)) == At(Buffer(s, tmp, Rows(s, x), Cols(s, x), Of), tmp)
    IN CASE o.kind = "num" -> Repeated(s, o.value)
         [] o.kind \in {"list", "view"} -> Everywhere(Not(s, "type"))
         [] o.kind = "mat" ->
              IF ~Owned(s, o.at) THEN Everywhere(Not(s, "owner"))
              ELSE IF Size(s, o.at) = 1 THEN Repeated(s, Val(s, o.at, 0))
              ELSE IF SameShape(s, o.at, x) THEN Everywhere(At(s, o.at))
              ELSE IF Rows(s, o.at) = 1 /\ Cols(s, o.at) = Cols(s, x)
              THEN Everywhere(Spread(LAMBDA i : Val(s, o.at, i % Cols(s, x))))
              ELSE IF Cols(s, o.at) = 1 /\ Rows(s, o.at) = Rows(s, x)
              THEN Everywhere(Spread(LAMBDA i : Val(s, o.at, i \div Cols(s, x))))
              ELSE Everywhere(Not(s, "shape"))

Matrix_fma(s, x, bo, co, mode) ==
    LET b == ClassifyBroadcast(s, bo, x, "lhs")
        c == ClassifyBroadcast(b.s, co, x, "rhs")
    IN Acquired(s, x,
         IF b.err # "none" THEN Raise(s, b.err)
         ELSE IF c.err # "none" THEN Raise(s, c.err)
         ELSE Into(SetOutput(c.s, x, mode),
                   LAMBDA t, out : Fma(t, x, b, c, out)))

Matrix_scaled_add(s, y, so, xo, mode) ==
    LET f == ClassifyBroadcast(s, so, y, "lhs")
        x == Unwrap(f.s, xo, "rhs", FALSE)
    IN Acquired(s, y,
         IF f.err # "none" THEN Raise(s, f.err)
         ELSE IF x.err # "none" THEN Raise(s, x.err)
         ELSE IF ~SameShape(x.s, x.at, y) THEN Raise(s, "shape")
         ELSE Into(SetOutput(x.s, y, mode),
                   LAMBDA t, out : ScaledAdd(t, y, f, x.at, out)))

\* The all-zero row, column or matrix is kept: its magnitude is taken as 1.
Matrix_normalize(s, x, axis, mode) ==
    LET Sanitize(t) == Sweep(t, "rhs", Size(t, "rhs"),
                             LAMBDA u, i : IF Val(u, "rhs", i) = 0 THEN 1
                                           ELSE Val(u, "rhs", i))
        Whole(t, out) ==
            LET m == AggLanes("Magnitude", Size(t, x), t.mat[x].data)
            IN IF m # 0 THEN BinScalar(t, "Divide", x, m, out)
               ELSE IF out = x THEN t ELSE Copied(t, x, out)
        Columns(t, out) ==
            BinRowwise(Sanitize(AggColumnwise(New(t, "rhs", 1, Cols(t, x)),
                                              "Magnitude", x, "rhs")),
                       "Divide", x, "rhs", out)
        Lines(t, out) ==
            BinColumnwise(Sanitize(AggRowwise(New(t, "rhs", Rows(t, x), 1),
                                              "Magnitude", x, "rhs")),
                          "Divide", x, "rhs", out)
    IN Acquired(s, x, WithAxis(s, axis, LAMBDA a :
           Into(SetOutput(s, x, mode),
                LAMBDA t, out : CASE a = None -> Whole(t, out)
                                  [] a = 0 -> Columns(t, out)
                                  [] a = 1 -> Lines(t, out))))
=============================================================================
