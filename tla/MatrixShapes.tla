----------------------------- MODULE MatrixShapes -----------------------------
(***************************************************************************)
(* _math.c: the methods of a Matrix that sort values into bins, choose     *)
(* between matrices, lay their cells out anew, compare and construct.      *)
(***************************************************************************)
EXTENDS MatrixReductions, FiniteSets

----------------------------------------------------------------------------
(***************************************************************************)
(* Bins.  NaN has none (-1).                                               *)
(***************************************************************************)
impl_data_range(s, x) ==
    FoldLeft(LAMBDA b, i : LET v == Val(s, x, i)
                           IN [lo |-> IF Less(v, b.lo) THEN v ELSE b.lo,
                               hi |-> IF Less(b.hi, v) THEN v ELSE b.hi],
             [lo |-> Huge, hi |-> -Huge], Upto(Size(s, x)))

BinOf(v, b, n, right) ==
    LET pos == ((v - b.lo) * n) \div (b.hi - b.lo)
        up == -((-((v - b.lo) * n)) \div (b.hi - b.lo))
        idx == IF right THEN up - 1 ELSE pos
    IN IF v = NaN THEN -1
       ELSE IF b.hi <= b.lo THEN 0
       ELSE Clamped(idx, 0, n - 1)

\* bounds is None or a record lo, hi; the range is found before the target.
Matrix_bin(s, x, n, bounds, right, mode) ==
    LET b == IF bounds = None THEN impl_data_range(s, x) ELSE bounds
    IN Acquired(s, x,
         IF n < 1 THEN Raise(s, "value")
         ELSE Exclusive(s, mode,
           IF bounds # None /\ b.hi < b.lo THEN Raise(s, "value")
           ELSE Into(SetOutput(s, x, mode), LAMBDA t, out :
                  Sweep(t, out, Size(t, x),
                        LAMBDA u, i : BinOf(Val(u, x, i), b, n, right)))))

\* The edges below v, or up to it; they are copied before the target is written.
EdgesBelow(v, edges, right) ==
    IF v = NaN THEN -1
    ELSE Len(SelectSeq(edges, LAMBDA e : e < v \/ (~right /\ e = v)))

Matrix_digitize(s, x, o, right, mode) ==
    LET e == Unwrap(s, o, "rhs", FALSE)
        edges == [i \in 1..Size(e.s, e.at) |-> Val(e.s, e.at, i - 1)]
        Increasing == /\ \A i \in 1..Len(edges) : edges[i] # NaN
                      /\ \A i \in 2..Len(edges) : Less(edges[i - 1], edges[i])
    IN Acquired(s, x, Exclusive(s, mode,
         IF e.err # "none" THEN Raise(s, e.err)
         ELSE IF Rows(e.s, e.at) # 1 /\ Cols(e.s, e.at) # 1 THEN Raise(s, "value")
         ELSE IF ~Increasing THEN Raise(s, "value")
         ELSE Into(SetOutput(e.s, x, mode), LAMBDA t, out :
                Sweep(t, out, Size(t, x),
                      LAMBDA u, i : EdgesBelow(Val(u, x, i), edges, right)))))

----------------------------------------------------------------------------
(***************************************************************************)
(* where(mask, a, b): a number is itself everywhere, anything else has     *)
(* the mask's shape.                                                       *)
(***************************************************************************)
WhereOperand(s, o, mask, tmp) ==
    IF o.kind = "num" THEN Repeated(s, o.value)
    ELSE IF o.kind = "view" THEN Everywhere(Not(s, "type"))
    ELSE LET u == Unwrap(s, o, tmp, FALSE)
         IN IF u.err # "none" THEN Everywhere(u)
            ELSE IF ~SameShape(u.s, u.at, mask) THEN Everywhere(Not(s, "shape"))
            ELSE Everywhere(u)

Matrix_where(s, mask, ao, bo, mode) ==
    LET a == WhereOperand(s, ao, mask, "lhs")
        b == WhereOperand(a.s, bo, mask, "rhs")
    IN Acquired(s, mask,
         IF a.err # "none" THEN Raise(s, a.err)
         ELSE IF b.err # "none" THEN Raise(s, b.err)
         ELSE Into(SetOutput(b.s, mask, mode), LAMBDA t, out :
                Sweep(t, out, Size(t, out), LAMBDA u, i :
                  FactorAt(u, IF Val(u, mask, i) # 0 THEN a ELSE b, i))))

----------------------------------------------------------------------------
(***************************************************************************)
(* Copies.                                                                 *)
(***************************************************************************)
Matrix_copy(s, x) ==
    Acquired(s, x, Fresh(s, Rows(s, x), Cols(s, x), LAMBDA t, out : Copied(t, x, out)))

Matrix_from_view(s, v) == LET t == Materialize(s, v, "out")
                          IN IF t.err # "none" THEN Raise(s, t.err)
                             ELSE Done(t.s, Ref("out"))

\* Pickled by the owner, rebuilt by whoever reads the bytes.
Matrix_reduce_unpickle(s, x) ==
    Acquired(s, x, Fresh(s, Rows(s, x), Cols(s, x), LAMBDA t, out : Copied(t, x, out)))

impl_transpose(s, x) ==
    Fresh(s, Cols(s, x), Rows(s, x), LAMBDA t, out :
        Loop(t, out, Upto(Size(s, x)),
             LAMBDA u, i : (i % Cols(s, x)) * Rows(s, x) + (i \div Cols(s, x)),
             LAMBDA u, i : Val(u, x, i)))

(***************************************************************************)
(* In place: a vector changes its shape only, a square swaps cells across  *)
(* its diagonal, and any other matrix moves each cell along its cycle,     *)
(* which is closed, at the latest, after as many steps as there are cells. *)
(***************************************************************************)
FollowCycle(m, size, start, c) ==
    LET Move(b) == LET next == (b.current * m) % size
                   IN [data |-> [b.data EXCEPT ![next] = b.value],
                       value |-> b.data[next],
                       visited |-> b.visited \cup {b.current},
                       current |-> next, closed |-> next = start]
    IN FoldLeft(LAMBDA b, k : IF b.closed THEN b ELSE Move(b),
                [data |-> c.data, value |-> c.data[start], visited |-> c.visited,
                 current |-> start, closed |-> FALSE],
                Upto(size))

impl_transpose_in_place(s, x) ==
    LET m == Rows(s, x)
        n == Cols(s, x)
        Relabel(t) == [t EXCEPT !.mat[x].rows = n, !.mat[x].cols = m]
        Swap(d, i) == LET j == (i % n) * n + (i \div n)
                      IN IF i % n >= i \div n THEN d ELSE [d EXCEPT ![i] = d[j], ![j] = d[i]]
        Cycle(c, i) == IF i \in c.visited THEN c ELSE FollowCycle(m, m * n - 1, i, c)
    IN IF m = 1 \/ n = 1 THEN Relabel(s)
       ELSE IF m = n THEN WithData(s, x, FoldLeft(Swap, s.mat[x].data, Upto(m * n)))
       ELSE Relabel(WithData(s, x,
                FoldLeft(Cycle, [data |-> s.mat[x].data, visited |-> {}],
                         Between(1, m * n - 1)).data))

Matrix_transpose(s, x, in_place) ==
    Acquired(s, x, IF in_place THEN Done(impl_transpose_in_place(s, x), Ref(x))
                   ELSE impl_transpose(s, x))

(***************************************************************************)
(* concat: shapes and owners first, then the blocks one after the other.   *)
(* A list is a row along axis 0 and a column along axis 1.                 *)
(***************************************************************************)
Matrix_concat(s, items, axis) ==
    LET ax == IF axis < 0 THEN 2 + axis ELSE axis
        column == ax # 0
        Shape(o) == IF o.kind = "mat" THEN <<Rows(s, o.at), Cols(s, o.at)>>
                    ELSE IF column THEN <<Len(o.values), 1>> ELSE <<1, Len(o.values)>>
        across == IF column THEN 1 ELSE 2
        along == IF column THEN 2 ELSE 1
        total == FoldLeft(LAMBDA n, o : n + Shape(o)[along], 0, items)
        width == Shape(items[1])[across]
        Block(c, o) ==
            LET u == Unwrap(s, o, "rhs", column)
                w == Cols(u.s, u.at)
                Place(i) == IF column THEN (i \div w) * total + c.at + (i % w)
                            ELSE c.at * width + i
            IN IF c.err # "none" THEN c
               ELSE IF u.err # "none" THEN [c EXCEPT !.err = u.err]
               ELSE [c EXCEPT !.data = FoldLeft(LAMBDA d, i : [d EXCEPT ![Place(i)] = Val(u.s, u.at, i)],
                                                @, Upto(Size(u.s, u.at))),
                              !.at = @ + Shape(o)[along]]
        t == New(s, "out", IF column THEN width ELSE total, IF column THEN total ELSE width)
        put == FoldLeft(Block, [err |-> "none", at |-> 0, data |-> t.mat["out"].data], items)
    IN IF ax >= 2 THEN Raise(s, "axis")
       ELSE IF items = << >> THEN Done(s, [kind |-> "nothing"])
       ELSE IF \E i \in DOMAIN items : items[i].kind = "mat" /\ ~Owned(s, items[i].at)
       THEN Raise(s, "owner")
       ELSE IF \E i \in DOMAIN items : Shape(items[i])[across] # width THEN Raise(s, "shape")
       ELSE IF put.err # "none" THEN Raise(s, put.err)
       ELSE Done(WithData(t, "out", put.data), Ref("out"))

\* Copies run interleaved: a, a, b, b.
Matrix_repeat_interleave(s, x, n, axis) ==
    LET m == Rows(s, x)
        w == Cols(s, x)
        Repeat(rows, cols, From(_)) ==
            Fresh(s, rows, cols, LAMBDA t, out :
                Sweep(t, out, rows * cols, LAMBDA u, i : Val(u, x, From(i))))
    IN Acquired(s, x,
         IF n < 1 THEN Raise(s, "value")
         ELSE WithAxis(s, axis, LAMBDA a :
           CASE a = None -> Repeat(1, m * w * n, LAMBDA i : i \div n)
             [] a = 0 -> Repeat(m * n, w, LAMBDA i : ((i \div w) \div n) * w + (i % w))
             [] a = 1 -> Repeat(m, w * n, LAMBDA i : i \div n)))

----------------------------------------------------------------------------
(***************************************************************************)
(* Comparisons.                                                            *)
(***************************************************************************)
Matrix_allclose(s, x, y, rtol, atol, equal_nan) ==
    Acquired(s, x, Acquired(s, y, Done(s, Bool(
        /\ SameShape(s, x, y)
        /\ \A i \in 0..(Size(s, x) - 1) :
              Tolerant(Val(s, x, i), Val(s, y, i), rtol, atol, equal_nan)))))

FromSign(sign, op) == CASE op = "<" -> sign < 0
                        [] op = "<=" -> sign <= 0
                        [] op = ">" -> sign > 0
                        [] op = ">=" -> sign >= 0
                        [] op = "==" -> sign = 0
                        [] op = "!=" -> sign # 0

\* == and != are total: what has another shape, or none, is just not equal.
Unequal(s, op, e) == IF op \in {"==", "!="} THEN Done(s, Bool(op = "!=")) ELSE Raise(s, e)

RichcompareMatrix(s, t, x, y, op) ==
    IF ~SameShape(t, x, y) THEN Unequal(s, op, "shape")
    ELSE Done(s, Bool(FromSign(LexCompare(Size(t, x), t.mat[x].data, t.mat[y].data), op)))

Matrix_richcompare(s, x, o, op) ==
    Acquired(s, x,
        CASE o.kind = "num" ->
               Done(s, Bool(FromSign(LexCompare(Size(s, x), s.mat[x].data,
                              [i \in 0..Size(s, x) - 1 |-> o.value]), op)))
          [] o.kind = "mat" -> Acquired(s, o.at, RichcompareMatrix(s, s, x, o.at, op))
          [] o.kind = "list" ->
               LET t == FromSequence(s, o.values, "rhs", FALSE)
               IN IF t.err # "none" THEN Unequal(s, op, t.err)
                  ELSE RichcompareMatrix(s, t.s, x, "rhs", op)
          [] o.kind = "view" -> Unequal(s, op, "type"))   \* NotImplemented: identity

----------------------------------------------------------------------------
(***************************************************************************)
(* Constructors.                                                           *)
(***************************************************************************)
Filled(s, r, c, v) ==
    IF r < 1 \/ c < 1 THEN Raise(s, "value")
    ELSE Fresh(s, r, c, LAMBDA t, out : Sweep(t, out, r * c, LAMBDA u, i : v))
Matrix_zeros(s, r, c) == Filled(s, r, c, 0)
Matrix_ones(s, r, c) == Filled(s, r, c, 1)
Matrix_full(s, r, c, v) == Filled(s, r, c, v)

\* Matrix(rows, columns, values): no values, one for all, or one for each cell.
Matrix_init(s, r, c, o) ==
    IF r < 1 \/ c < 1 THEN Raise(s, "value")
    ELSE CASE o = None -> Filled(s, r, c, 0)
           [] o # None /\ o.kind = "num" -> Filled(s, r, c, o.value)
           [] o # None /\ o.kind # "num" ->
                IF Len(o.values) # r * c THEN Raise(s, "type")
                ELSE Fresh(s, r, c, LAMBDA t, out :
                       Sweep(t, out, r * c, LAMBDA u, i : o.values[i + 1]))

Matrix_vector(s, q, asColumn) == LET t == FromSequence(s, q, "out", asColumn)
                                 IN IF t.err # "none" THEN Raise(s, t.err)
                                    ELSE Done(t.s, Ref("out"))
=============================================================================
