---------------------------- MODULE MatrixKernels ----------------------------
(***************************************************************************)
(* _math.c below the Python layer: buffers of doubles and the loops over   *)
(* them.  A kernel takes the places of its operands and writes its target  *)
(* cell by cell, reading what the memory holds by then, so that a target   *)
(* which is also an operand is seen as the loop sees it.                   *)
(*                                                                         *)
(* A double is an integer or NaN.  Rounding is left out; a quotient, a     *)
(* root and the like are not worked out but named, by Apply.               *)
(***************************************************************************)
EXTENDS Integers, Sequences, SequencesExt

CONSTANTS NaN,            \* the double that is equal to none
          Huge,           \* DBL_MAX and INFINITY: beyond every value met
          Apply(_, _, _)  \* Apply(f, x, y): f of the doubles x and y

ASSUME KernelAssumption == Huge \in Nat /\ NaN \notin Int

----------------------------------------------------------------------------
(***************************************************************************)
(* Doubles.                                                                *)
(***************************************************************************)
Less(x, y) == x # NaN /\ y # NaN /\ x < y
Same(x, y) == x # NaN /\ y # NaN /\ x = y
Truth(b) == IF b THEN 1 ELSE 0

Strict(x, y, z) == IF x = NaN \/ y = NaN THEN NaN ELSE z
Plus(x, y) == Strict(x, y, x + y)
Minus(x, y) == Strict(x, y, x - y)
Times(x, y) == Strict(x, y, x * y)
Over(x, y) == Strict(x, y, Apply("over", x, y))
Root(x) == Strict(x, x, Apply("sqrt", x, 0))

BinaryFun(f, x, y) ==
    CASE f = "Add" -> Plus(x, y)
      [] f = "Subtract" -> Minus(x, y)
      [] f = "RSubtract" -> Minus(y, x)
      [] f = "Multiply" -> Times(x, y)
      [] f = "Divide" -> Over(x, y)
      [] f = "RDivide" -> Over(y, x)
      [] f = "Less" -> Truth(Less(x, y))
      [] f = "LessEqual" -> Truth(Less(x, y) \/ Same(x, y))
      [] f = "Greater" -> Truth(Less(y, x))
      [] f = "GreaterEqual" -> Truth(Less(y, x) \/ Same(x, y))
      [] f = "Equal" -> Truth(Same(x, y))
      [] f = "NotEqual" -> Truth(~Same(x, y))

UnaryFun(f, v) ==
    CASE f = "Negate" -> Minus(0, v)
      [] f = "Abs" -> IF Less(v, 0) THEN -v ELSE v
      [] f = "Sign" -> Truth(Less(0, v)) - Truth(Less(v, 0))
      [] OTHER -> Strict(v, v, Apply(f, v, 0))

----------------------------------------------------------------------------
(***************************************************************************)
(* Memory.  s.mat[x] is the matrix at place x, row-major; s.who is the     *)
(* interpreter that runs the call.                                         *)
(***************************************************************************)
Rows(s, x) == s.mat[x].rows
Cols(s, x) == s.mat[x].cols
Size(s, x) == Rows(s, x) * Cols(s, x)
Val(s, x, i) == s.mat[x].data[i]
Cell(s, x, r, c) == Val(s, x, r * Cols(s, x) + c)
WithData(s, x, d) == [s EXCEPT !.mat[x].data = d]
Write(s, x, i, v) == WithData(s, x, [s.mat[x].data EXCEPT ![i] = v])

Matrix(r, c, owner, Data(_)) ==
    [rows |-> r, cols |-> c, owner |-> owner,
     data |-> [i \in 0..(r * c - 1) |-> Data(i)]]

\* A new matrix at x, the caller's, with these cells; impl_new clears them.
Buffer(s, x, r, c, Data(_)) == [s EXCEPT !.mat[x] = Matrix(r, c, s.who, Data)]
New(s, x, r, c) == Buffer(s, x, r, c, LAMBDA i : 0)

Owned(s, x) == s.mat[x].owner = s.who
SameShape(s, x, y) == Rows(s, x) = Rows(s, y) /\ Cols(s, x) = Cols(s, y)

Between(a, b) == [k \in 1..(b - a) |-> a + k - 1]
Upto(n) == Between(0, n)

\* A loop over is that writes x: step i sets cell To(t, i) to Value(t, i), both
\* worked out on the memory t of then.
Loop(s, x, is, To(_, _), Value(_, _)) ==
    LET Step(d, i) == LET t == WithData(s, x, d) IN [d EXCEPT ![To(t, i)] = Value(t, i)]
    IN WithData(s, x, FoldLeft(Step, s.mat[x].data, is))

\* Cells 0..n-1 of x are set in turn.
Sweep(s, x, n, Fresh(_, _)) == Loop(s, x, Upto(n), LAMBDA t, i : i, Fresh)

----------------------------------------------------------------------------
(***************************************************************************)
(* Element by element: the macro-stamped binary and unary loops.           *)
(***************************************************************************)
BinEwise(s, f, l, r, out) ==
    Sweep(s, out, Size(s, l),
          LAMBDA t, i : BinaryFun(f, Val(t, l, i), Val(t, r, i)))

BinRowwise(s, f, l, vec, out) ==
    Sweep(s, out, Size(s, l),
          LAMBDA t, i : BinaryFun(f, Val(t, l, i), Val(t, vec, i % Cols(s, l))))

BinColumnwise(s, f, l, vec, out) ==
    Sweep(s, out, Size(s, l),
          LAMBDA t, i : BinaryFun(f, Val(t, l, i), Val(t, vec, i \div Cols(s, l))))

BinScalar(s, f, l, v, out) ==
    Sweep(s, out, Size(s, l), LAMBDA t, i : BinaryFun(f, Val(t, l, i), v))

BinOuter(s, f, col, row, out) ==
    Sweep(s, out, Size(s, out),
          LAMBDA t, i : BinaryFun(f, Val(t, col, i \div Cols(s, out)),
                                     Val(t, row, i % Cols(s, out))))

UnaryEwise(s, f, x, out) ==
    Sweep(s, out, Size(s, x), LAMBDA t, i : UnaryFun(f, Val(t, x, i)))

\* ikj order: out[r][c] += lhs[r][k] * rhs[k][c], into a cleared target.
MatMul(s, l, r, out) ==
    LET n == Cols(s, l)
        w == Cols(s, r)
        To(t, j) == (j \div (n * w)) * w + (j % w)
        Add(t, j) == LET k == (j \div w) % n
                     IN Plus(Val(t, out, To(t, j)),
                             Times(Cell(t, l, j \div (n * w), k), Cell(t, r, k, j % w)))
    IN Loop(Sweep(s, out, Size(s, out), LAMBDA t, i : 0), out,
            Upto(Rows(s, l) * n * w), To, Add)

\* A factor is repeated everywhere, or read from a buffer of x's shape.
Repeated(s, v) == [s |-> s, at |-> "nowhere", err |-> "none", scalar |-> v]
Everywhere(t) == [s |-> t.s, at |-> t.at, err |-> t.err, scalar |-> 0]
FactorAt(t, f, i) == IF f.at = "nowhere" THEN f.scalar ELSE Val(t, f.at, i)

Fma(s, x, b, c, out) ==
    Sweep(s, out, Size(s, x),
          LAMBDA t, i : Plus(Times(Val(t, x, i), FactorAt(t, b, i)), FactorAt(t, c, i)))

ScaledAdd(s, y, f, x, out) ==
    Sweep(s, out, Size(s, y),
          LAMBDA t, i : Plus(Val(t, y, i), Times(FactorAt(t, f, i), Val(t, x, i))))

Clamped(v, lo, hi) == LET up == IF Less(v, lo) THEN lo ELSE v
                      IN IF Less(hi, up) THEN hi ELSE up

Copied(s, x, out) == Sweep(s, out, Size(s, x), LAMBDA t, i : Val(t, x, i))

----------------------------------------------------------------------------
(***************************************************************************)
(* Reductions.  get[i], for i below n, is the i-th value reduced, and in[i] *)
(* whether the mask lets it in.                                            *)
(***************************************************************************)
AggInit(k) == CASE k = "Minimum" -> Huge
                [] k = "Maximum" -> -Huge
                [] OTHER -> 0

AggMerge(k, agg, v) == CASE k = "Minimum" -> IF Less(agg, v) THEN agg ELSE v
                         [] k = "Maximum" -> IF Less(v, agg) THEN agg ELSE v
                         [] OTHER -> Plus(agg, v)

AggStep(k, agg, v) ==
    AggMerge(k, agg, IF k \in {"Magnitude", "MagnitudeSquared"}
                     THEN Times(v, v) ELSE v)

AggFinal(k, agg, cnt) ==
    CASE k = "Mean" -> IF cnt > 0 THEN Over(agg, cnt) ELSE agg
      [] k = "Magnitude" -> Root(agg)
      [] OTHER -> agg

AggEmpty(k) == IF k \in {"Mean", "Minimum", "Maximum"} THEN NaN ELSE 0

\* Four accumulators in turn, the tail into the first, then merged into it.
Lanes == 4
TailStart(n) == n - (n % Lanes)
AggLanes(k, n, get) ==
    LET Step(acc, lane, i) == [acc EXCEPT ![lane] = AggStep(k, @, get[i])]
        main == FoldLeft(LAMBDA acc, i : Step(acc, i % Lanes, i),
                         [lane \in 0..(Lanes - 1) |-> AggInit(k)],
                         Upto(TailStart(n)))
        all == FoldLeft(LAMBDA acc, i : Step(acc, 0, i), main,
                        Between(TailStart(n), n))
        one == IF TailStart(n) > 0
               THEN FoldLeft(LAMBDA agg, lane : AggMerge(k, agg, all[lane]),
                             all[0], Between(1, Lanes))
               ELSE all[0]
    IN AggFinal(k, one, n)

AggMasked(k, n, get, in) ==
    LET Step(a, i) == [cnt |-> a.cnt + Truth(in[i]),
                       agg |-> AggStep(k, a.agg, IF in[i] THEN get[i]
                                                          ELSE AggInit(k))]
        all == FoldLeft(Step, [cnt |-> 0, agg |-> AggInit(k)], Upto(n))
    IN IF all.cnt > 0 THEN AggFinal(k, all.agg, all.cnt) ELSE AggEmpty(k)

\* The target's own cells are the accumulators: cleared, fed row by row, closed.
AggColumnwise(s, k, x, out) ==
    LET w == Cols(s, x)
        fed == Loop(Sweep(s, out, w, LAMBDA t, i : AggInit(k)), out, Upto(Size(s, x)),
                    LAMBDA t, i : i % w,
                    LAMBDA t, i : AggStep(k, Val(t, out, i % w), Val(t, x, i)))
    IN Sweep(fed, out, w, LAMBDA t, i : AggFinal(k, Val(t, out, i), Rows(s, x)))

AggRowwise(s, k, x, out) ==
    Sweep(s, out, Rows(s, x),
          LAMBDA t, r : AggLanes(k, Cols(s, x), [i \in 0..Cols(s, x) - 1 |-> Cell(t, x, r, i)]))

(***************************************************************************)
(* The index of the first strict extreme; -1 if nothing is included.       *)
(***************************************************************************)
Beats(v, best, max) == IF max THEN Less(best, v) ELSE Less(v, best)
ArgExtreme(n, get, in, max) ==
    FoldLeft(LAMBDA best, i : IF in[i] /\ (best < 0 \/ Beats(get[i], get[best], max))
                              THEN i ELSE best,
             -1, Upto(n))

(***************************************************************************)
(* topk of one group: the pairs of included values and indices, sorted.    *)
(* NaN comes last and the smaller index first.                             *)
(***************************************************************************)
Above(a, b, largest) ==
    IF a.value = NaN \/ b.value = NaN
    THEN IF a.value = b.value THEN a.index < b.index ELSE b.value = NaN
    ELSE \/ Beats(a.value, b.value, largest)
         \/ a.value = b.value /\ a.index < b.index
TopK(n, get, in, k, largest) ==
    LET Entry(i) == [value |-> get[i], index |-> i]
        got == SelectSeq(Upto(n), LAMBDA i : in[i])
        sorted == SortSeq([j \in 1..Len(got) |-> Entry(got[j])],
                          LAMBDA a, b : Above(a, b, largest))
    IN [j \in 1..k |-> IF j <= Len(got) THEN sorted[j]
                       ELSE [value |-> NaN, index |-> -1]]

(***************************************************************************)
(* The sum of products, with the operand that is repeated along rows or    *)
(* columns second.                                                         *)
(***************************************************************************)
VecAt(s, x, vec, shape, r, c) ==
    CASE shape = "none" -> Val(s, vec, r * Cols(s, x) + c)
      [] shape = "row" -> Val(s, vec, c)
      [] shape = "col" -> Val(s, vec, r)
Products(s, x, vec, shape, cells) ==
    FoldLeft(LAMBDA agg, q : Plus(agg, Times(Cell(s, x, q[1], q[2]),
                                             VecAt(s, x, vec, shape, q[1], q[2]))),
             0, cells)

Tolerant(a, b, rtol, atol, equal_nan) ==
    \/ a = NaN /\ b = NaN /\ equal_nan
    \/ a = NaN \/ b = NaN            \* no comparison with NaN is "too far"
    \/ ~Less(atol + rtol * UnaryFun("Abs", b), UnaryFun("Abs", Minus(a, b)))

\* -1, 0 or 1: the first pair that an order separates decides.
LexCompare(n, l, r) ==
    FoldLeft(LAMBDA sign, i : IF sign # 0 THEN sign
                              ELSE Truth(Less(r[i], l[i])) - Truth(Less(l[i], r[i])),
             0, Upto(n))
=============================================================================
