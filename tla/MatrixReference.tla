--------------------------- MODULE MatrixReference ---------------------------
(***************************************************************************)
(* What each method of a Matrix promises, told cell by cell, on the memory *)
(* a call met: no kernel, no target that is written while it is read, no   *)
(* ranges.  A table is a shape and its cells; the operand of a call stands *)
(* for one.  l is a recorded call (Matrices, Call).                        *)
(***************************************************************************)
EXTENDS MatrixViews, FiniteSetsExt

Table(r, c, F(_, _)) ==
    [rows |-> r, cols |-> c, data |-> [i \in 0..(r * c - 1) |-> F(i \div c, i % c)]]
Entry(t, r, c) == t.data[r * t.cols + c]
Flat(t) == 0..(t.rows * t.cols - 1)
Shape(t) == <<t.rows, t.cols>>
Empty(t) == t.cols = 0
IsLine(t) == 1 \in {t.rows, t.cols}
Bare(m) == [rows |-> m.rows, cols |-> m.cols, data |-> m.data]
RowOf(q) == Table(1, Len(q), LAMBDA r, c : q[c + 1])
ColumnOf(q) == Table(Len(q), 1, LAMBDA r, c : q[r + 1])

\* One value for all cells: a dimension of 1 is repeated.
Broadcasts(t, r, c) == t.rows \in {1, r} /\ t.cols \in {1, c}
Spread(t, r, c) == Entry(t, IF t.rows = 1 THEN 0 ELSE r, IF t.cols = 1 THEN 0 ELSE c)

TotalOf(S, F(_)) == IF \E i \in S : F(i) = NaN THEN NaN ELSE MapThenSumSet(F, S)

Receiver(l) == Bare(l.before["a"])
Seen(l) == [i \in 1..Len(l.cells) |-> l.before[l.args.v.base].data[l.cells[i]]]
Denote(l, o) == CASE o.kind = "mat" -> Bare(l.before[o.at])
                  [] o.kind = "num" -> RowOf(<<o.value>>)
                  [] o.kind = "list" -> RowOf(o.values)
                  [] o.kind = "view" ->
                       LET q == [i \in 1..Len(l.cells) |-> l.before[o.base].data[l.cells[i]]]
                       IN IF o.row THEN RowOf(q) ELSE ColumnOf(q)

----------------------------------------------------------------------------
(***************************************************************************)
(* What a call may come to.                                                *)
(***************************************************************************)
Refused == [kind |-> "refused"]
Result(x, t) == [kind |-> "result", at |-> x, table |-> t]
Wrote(x, t) == [kind |-> "wrote", at |-> x, table |-> t]
Value(v) == [kind |-> "value", ret |-> v]
Line(base, cells, row, ro) ==
    [kind |-> "line", base |-> base, cells |-> cells, row |-> row, ro |-> ro]

If(c, e) == IF c THEN e ELSE Refused

\* The target takes tables of its own shape only.
Placed(l, t) ==
    LET mode == l.args.mode
    IN CASE mode = "fresh" -> Result("out", t)
         [] mode = "in_place" -> If(Shape(l.before["a"]) = Shape(t), Result("a", t))
         [] mode = "both" -> Refused
         [] OTHER -> If(Shape(l.before[mode]) = Shape(t), Result(mode, t))
AsNew(t) == Result("out", t)

Agrees(l, after, e) ==
    CASE e.kind = "refused" -> l.err # "none"
      [] e.kind = "value" -> l.err = "none" /\ l.ret = e.ret
      [] e.kind = "wrote" -> /\ l.err = "none" /\ l.ret.kind = "nothing"
                             /\ Bare(after[e.at]) = e.table
      [] e.kind = "result" -> /\ l.err = "none" /\ l.ret.kind \in {"ref", "pairs"}
                              /\ l.ret.at = e.at /\ Bare(l.out) = e.table
                              /\ l.out.owner = l.who
      [] e.kind = "topk" -> /\ l.err = "none" /\ l.ret.kind = "pairs" /\ l.ret.at = "out"
                            /\ Bare(l.out) = e.table /\ l.ret.values = e.indices
      [] e.kind = "line" ->
           /\ l.err = "none" /\ l.ret.kind = "view"
           /\ l.ret.base = e.base /\ l.ret.row = e.row /\ l.ret.ro = e.ro
           /\ [i \in 1..l.ret.count |-> l.ret.offset + (i - 1) * l.ret.stride] = e.cells

----------------------------------------------------------------------------
(***************************************************************************)
(* Element by element.                                                     *)
(***************************************************************************)
TheBinary(l) ==
    LET x == Denote(l, l.args.l)
        y == Denote(l, l.args.r)
        r == Max({x.rows, y.rows})
        c == Max({x.cols, y.cols})
    IN If(Broadcasts(x, r, c) /\ Broadcasts(y, r, c),
          Placed(l, Table(r, c, LAMBDA i, j :
                            BinaryFun(l.args.f, Spread(x, i, j), Spread(y, i, j)))))

TheMatmul(l) ==
    LET x == Denote(l, l.args.l)
        y == Denote(l, l.args.r)
    IN If(x.cols = y.rows /\ ~Empty(x) /\ ~Empty(y),
          AsNew(Table(x.rows, y.cols, LAMBDA i, j :
                 TotalOf(0..(x.cols - 1), LAMBDA k : Times(Entry(x, i, k), Entry(y, k, j))))))

\* Each cell of the receiver by itself.
Each(l, F(_, _, _)) ==
    LET x == Receiver(l)
    IN Placed(l, Table(x.rows, x.cols, LAMBDA i, j : F(i, j, Entry(x, i, j))))

TheUnary(l) == Each(l, LAMBDA i, j, v : UnaryFun(l.args.f, v))

TheClip(l) ==
    LET lo == IF l.args.lo = None THEN {} ELSE {l.args.lo}
        hi == IF l.args.hi = None THEN {} ELSE {l.args.hi}
    IN If(lo \cup hi # {} /\ \A p \in lo, q \in hi : p <= q,
          Each(l, LAMBDA i, j, v :
                 IF v = NaN THEN NaN ELSE Min({Max({v} \cup lo)} \cup hi)))

Factor(l, o) == /\ o.kind \in {"num", "mat"}
                /\ Broadcasts(Denote(l, o), Receiver(l).rows, Receiver(l).cols)

TheFma(l) ==
    If(Factor(l, l.args.b) /\ Factor(l, l.args.c),
       Each(l, LAMBDA i, j, v : Plus(Times(v, Spread(Denote(l, l.args.b), i, j)),
                                     Spread(Denote(l, l.args.c), i, j))))

TheScaledAdd(l) ==
    If(Factor(l, l.args.f) /\ Shape(Denote(l, l.args.x)) = Shape(Receiver(l)),
       Each(l, LAMBDA i, j, v : Plus(v, Times(Spread(Denote(l, l.args.f), i, j),
                                              Entry(Denote(l, l.args.x), i, j)))))

----------------------------------------------------------------------------
(***************************************************************************)
(* Groups: the cells, in order, that one result is made of.                *)
(***************************************************************************)
OnAxis(axis, Body(_)) == IF axis = None THEN Body(None) ELSE If(axis \in -2..1, Body(axis % 2))

GroupLine(t, axis, g) ==
    CASE axis = None -> [i \in 1..(t.rows * t.cols) |-> i - 1]
      [] axis = 0 -> [i \in 1..t.rows |-> (i - 1) * t.cols + g]
      [] axis = 1 -> [i \in 1..t.cols |-> g * t.cols + i - 1]
GroupCount(t, axis) == CASE axis = None -> 1 [] axis = 0 -> t.cols [] axis = 1 -> t.rows
GroupOf(axis, i, j) == CASE axis = None -> 0 [] axis = 0 -> j [] axis = 1 -> i

\* One result for each group, at the group's place.
PerGroup(t, axis, F(_)) == IF axis = 0 THEN Table(1, t.cols, LAMBDA i, j : F(j))
                                       ELSE Table(t.rows, 1, LAMBDA i, j : F(i))

MaskFits(l) == l.args.where # "all" => Shape(l.before[l.args.where]) = Shape(Receiver(l))
\* The positions in line q that the mask includes.
Chosen(l, q) == {i \in DOMAIN q : l.args.where = "all" \/ l.before[l.args.where].data[q[i]] # 0}

Square(v) == Times(v, v)
Aggregated(k, S, V(_)) ==
    LET n == Cardinality(S)
        vs == {V(i) : i \in S}
    IN CASE k = "Sum" -> TotalOf(S, V)
         [] k = "Mean" -> IF n = 0 THEN NaN ELSE Over(TotalOf(S, V), n)
         [] k = "MagnitudeSquared" -> TotalOf(S, LAMBDA i : Square(V(i)))
         [] k = "Magnitude" -> Root(TotalOf(S, LAMBDA i : Square(V(i))))
         [] k = "Minimum" -> IF n = 0 THEN NaN ELSE Min(vs)
         [] k = "Maximum" -> IF n = 0 THEN NaN ELSE Max(vs)

TheAggregate(l) ==
    LET x == Receiver(l)
        One(a, g) == LET q == GroupLine(x, a, g)
                    IN Aggregated(l.args.k, Chosen(l, q), LAMBDA i : x.data[q[i]])
    IN If(MaskFits(l), OnAxis(l.args.axis, LAMBDA a :
          IF a = None THEN Value(Float(One(a, 0)))
          ELSE AsNew(PerGroup(x, a, LAMBDA g : One(a, g)))))

\* The smallest index of an extreme; NaN is one only where nothing precedes it.
FirstExtreme(S, V(_), max) ==
    LET numbers == {i \in S : V(i) # NaN}
        best == {i \in numbers : \A j \in numbers : IF max THEN V(i) >= V(j) ELSE V(i) <= V(j)}
    IN IF S = {} THEN -1
       ELSE IF V(Min(S)) = NaN THEN Min(S) - 1
       ELSE Min(best) - 1

TheArgExtreme(l) ==
    LET x == Receiver(l)
        One(a, g) == LET q == GroupLine(x, a, g)
                    IN FirstExtreme(Chosen(l, q), LAMBDA i : x.data[q[i]], l.args.max)
    IN If(MaskFits(l), OnAxis(l.args.axis, LAMBDA a :
          IF a = None THEN Value(Float(One(a, 0)))
          ELSE IF l.args.as_matrix THEN AsNew(PerGroup(x, a, LAMBDA g : One(a, g)))
          ELSE Value(Ints([g \in 1..GroupCount(x, a) |-> One(a, g - 1)]))))

\* Who has exactly n of S before it, or 0.
Ranked(S, V(_), largest, n) ==
    LET Before(i, j) == \/ V(i) # NaN /\ V(j) = NaN
                        \/ V(i) = V(j) /\ i < j
                        \/ Less(IF largest THEN V(j) ELSE V(i), IF largest THEN V(i) ELSE V(j))
        hit == {i \in S : Cardinality({j \in S : Before(j, i)}) = n}
    IN IF hit = {} THEN 0 ELSE CHOOSE i \in hit : TRUE

TheTopk(l) ==
    LET x == Receiver(l)
        k == l.args.k
        Pick(a, g, n) == LET q == GroupLine(x, a, g)
                             i == Ranked(Chosen(l, q), LAMBDA p : x.data[q[p]], l.args.largest, n)
                         IN [index |-> i - 1, value |-> IF i = 0 THEN NaN ELSE x.data[q[i]]]
        Best(a) == IF a = 0 THEN Table(k, x.cols, LAMBDA i, j : Pick(a, j, i).value)
                      ELSE Table(GroupCount(x, a), k, LAMBDA i, j : Pick(a, i, j).value)
        Indices(a) == [g \in 1..GroupCount(x, a) |-> [n \in 1..k |-> Pick(a, g - 1, n - 1).index]]
    IN If(MaskFits(l) /\ k >= 1, OnAxis(l.args.axis, LAMBDA a :
          If(k <= Len(GroupLine(x, a, 0)),
             [kind |-> "topk", table |-> Best(a), indices |-> Indices(a)])))

\* The line whose length is nothing stays as it is.
TheNormalize(l) ==
    LET x == Receiver(l)
        LengthAt(a, i, j) == LET q == GroupLine(x, a, GroupOf(a, i, j))
                            IN Aggregated("Magnitude", DOMAIN q, LAMBDA p : x.data[q[p]])
    IN OnAxis(l.args.axis, LAMBDA a :
         Each(l, LAMBDA i, j, v :
                IF LengthAt(a, i, j) = 0 THEN v ELSE Over(v, LengthAt(a, i, j))))

----------------------------------------------------------------------------
(***************************************************************************)
(* Products of vectors.                                                    *)
(***************************************************************************)
TheVecdot(l) ==
    LET x == Receiver(l)
        y == Denote(l, l.args.o)
        r == Max({x.rows, y.rows})
        c == Max({x.cols, y.cols})
        SumOver(p) == OnAxis(l.args.axis, LAMBDA a :
            LET One(g) == LET q == GroupLine(p, a, g)
                          IN TotalOf(DOMAIN q, LAMBDA i : p.data[q[i]])
            IN IF a = None THEN Value(Float(One(0))) ELSE AsNew(PerGroup(p, a, One)))
    IN IF Empty(y) THEN Refused
       ELSE IF /\ Broadcasts(x, r, c) /\ Broadcasts(y, r, c)
               /\ Shape(x) = <<r, c>> \/ Shape(y) = <<r, c>>
               /\ x.rows = y.rows \/ x.cols = y.cols
       THEN SumOver(Table(r, c, LAMBDA i, j : Times(Spread(x, i, j), Spread(y, i, j))))
       ELSE \* two lines of one length that run across each other
            If(IsLine(x) /\ IsLine(y) /\ Flat(x) = Flat(y),
               SumOver(Table(x.rows, x.cols, LAMBDA i, j :
                             Times(x.data[Max({i, j})], y.data[Max({i, j})]))))

\* Vectors are rows of 2 or 3, or columns: as the axis says, else the
\* shorter way, else the rows.
Orientations(x, dims) == {a \in {0, 1} : (IF a = 1 THEN x.cols ELSE x.rows) \in dims}
DimAlong(x, a) == IF a = 1 THEN x.cols ELSE x.rows
Orientation(x, dims, axis) ==
    LET can == Orientations(x, dims)
        short == {a \in can : \A b \in can : DimAlong(x, a) <= DimAlong(x, b)}
    IN IF axis # None THEN axis ELSE Max(short)
Oriented(x, dims, axis, Body(_)) ==
    OnAxis(axis, LAMBDA a :
       If(Orientations(x, dims) # {} /\ (a # None => a \in Orientations(x, dims)),
          Body(Orientation(x, dims, a))))

Coordinate(x, a, g, i) == x.data[GroupLine(x, a, g)[i]]
TheCross(l) ==
    LET x == Receiver(l)
        y == Denote(l, l.args.o)
        Across(a) ==
            LET d == DimAlong(x, a)
                one == GroupCount(x, a) = 1
                lone == Cardinality(Flat(y)) = d /\ (one \/ IsLine(y))
                U(g, i) == Coordinate(x, a, g, i)
                V(g, i) == IF ~one /\ Shape(y) = Shape(x) THEN Coordinate(y, a, g, i)
                           ELSE y.data[i - 1]
                Det(g, i, j) == Minus(Times(U(g, i), V(g, j)), Times(U(g, j), V(g, i)))
                After(i) == (i % 3) + 1
            IN If(lone \/ (~one /\ Shape(y) = Shape(x)),
                  IF d = 2
                  THEN IF one THEN Value(Float(Det(0, 1, 2)))
                       ELSE AsNew(PerGroup(x, a, LAMBDA g : Det(g, 1, 2)))
                  ELSE AsNew(Table(x.rows, x.cols, LAMBDA i, j :
                         LET g == GroupOf(a, i, j)
                             n == IF a = 1 THEN j + 1 ELSE i + 1
                         IN Det(g, After(n), After(After(n))))))
    IN Oriented(x, {2, 3}, l.args.axis, Across)

ThePerpendicular(l) ==
    LET x == Receiver(l)
    IN Oriented(x, {2}, l.args.axis, LAMBDA a :
         Each(l, LAMBDA i, j, v :
                LET g == GroupOf(a, i, j)
                IN IF (IF a = 1 THEN j ELSE i) = 0 THEN Minus(0, Coordinate(x, a, g, 2))
                   ELSE Coordinate(x, a, g, 1)))

TheAngle(l) ==
    LET x == Receiver(l)
        One(a, g) == Strict(Coordinate(x, a, g, 1), Coordinate(x, a, g, 2),
                            Apply("atan2", Coordinate(x, a, g, 2), Coordinate(x, a, g, 1)))
    IN Oriented(x, {2}, l.args.axis, LAMBDA a :
         IF GroupCount(x, a) = 1 THEN Value(Float(One(a, 0)))
         ELSE AsNew(PerGroup(x, a, LAMBDA g : One(a, g))))
=============================================================================
