------------------------- MODULE MatrixPartsReference -------------------------
(***************************************************************************)
(* The promises of MatrixReference, continued: cells laid out anew, parts  *)
(* of a matrix, views and iterators.  A key names the set of indices that  *)
(* Python's rules for indices and slices give it.                          *)
(***************************************************************************)
EXTENDS MatrixReference

TheBin(l) ==
    LET x == Receiver(l)
        vs == {x.data[i] : i \in Flat(x)} \ {NaN}
        b == IF l.args.bounds # None THEN l.args.bounds
             ELSE IF vs = {} THEN [lo |-> 0, hi |-> 0] ELSE [lo |-> Min(vs), hi |-> Max(vs)]
        n == l.args.n
        \* The boundaries inside the range that are below v, or at it.
        Below(v) == {k \in 1..(n - 1) :
                       \/ k * (b.hi - b.lo) < (v - b.lo) * n
                       \/ ~l.args.right /\ k * (b.hi - b.lo) = (v - b.lo) * n}
    IN If(n >= 1 /\ b.lo <= b.hi,
          Each(l, LAMBDA i, j, v : IF v = NaN THEN -1
                                   ELSE IF b.lo = b.hi THEN 0 ELSE Cardinality(Below(v))))

TheDigitize(l) ==
    LET e == Denote(l, l.args.e)
        edges == {e.data[i] : i \in Flat(e)}
        Passed(v) == {x \in edges : x < v \/ (~l.args.right /\ x = v)}
    IN If(/\ IsLine(e) /\ ~Empty(e) /\ NaN \notin edges
          /\ \A i, j \in Flat(e) : i < j => e.data[i] < e.data[j],
          Each(l, LAMBDA i, j, v : IF v = NaN THEN -1 ELSE Cardinality(Passed(v))))

TheWhere(l) ==
    LET mask == Bare(l.before["b"])
        Fit(o) == o.kind = "num" \/ (o.kind # "view" /\ Shape(Denote(l, o)) = Shape(mask))
        Pick(o, i, j) == Spread(Denote(l, o), i, j)
        t == Table(mask.rows, mask.cols, LAMBDA i, j :
                     IF Entry(mask, i, j) = 0 THEN Pick(l.args.y, i, j) ELSE Pick(l.args.x, i, j))
        fits == l.args.mode = "fresh" \/ Shape(l.before[l.args.mode]) = Shape(mask)
    IN If(Fit(l.args.x) /\ Fit(l.args.y) /\ fits,
          Result(IF l.args.mode = "fresh" THEN "out" ELSE l.args.mode, t))

TheTranspose(l) ==
    LET x == Receiver(l)
    IN Result(IF l.args.mode = "fresh" THEN "out" ELSE "a",
              Table(x.cols, x.rows, LAMBDA i, j : Entry(x, j, i)))

\* A list joins as a line along the axis.
TheConcat(l) ==
    LET ax == IF l.args.axis < 0 THEN l.args.axis + 2 ELSE l.args.axis
        items == l.args.items
        Item(n) == IF items[n].kind = "list" /\ ax = 1 THEN ColumnOf(items[n].values)
                   ELSE Denote(l, items[n])
        Along(n) == IF ax = 1 THEN Item(n).cols ELSE Item(n).rows
        Across(n) == IF ax = 1 THEN Item(n).rows ELSE Item(n).cols
        Start(n) == MapThenSumSet(Along, 1..(n - 1))
        Holder(k) == CHOOSE n \in DOMAIN items : k \in Start(n)..(Start(n) + Along(n) - 1)
        total == Start(Len(items) + 1)
    IN If(ax \in 0..1,
          IF items = << >> THEN Value([kind |-> "nothing"])
          ELSE If(/\ \A n \in DOMAIN items : Across(n) = Across(1) /\ Item(n).rows > 0
                                             /\ Item(n).cols > 0,
                  AsNew(IF ax = 1
                       THEN Table(Across(1), total, LAMBDA i, j :
                                    Entry(Item(Holder(j)), i, j - Start(Holder(j))))
                       ELSE Table(total, Across(1), LAMBDA i, j :
                                    Entry(Item(Holder(i)), i - Start(Holder(i)), j)))))

TheRepeat(l) ==
    LET x == Receiver(l)
        n == l.args.n
    IN If(n >= 1, OnAxis(l.args.axis, LAMBDA a :
          CASE a = None -> AsNew(Table(1, Cardinality(Flat(x)) * n, LAMBDA i, j : x.data[j \div n]))
            [] a = 0 -> AsNew(Table(x.rows * n, x.cols, LAMBDA i, j : Entry(x, i \div n, j)))
            [] a = 1 -> AsNew(Table(x.rows, x.cols * n, LAMBDA i, j : Entry(x, i, j \div n)))))

TheAllclose(l) ==
    LET x == Bare(l.before[l.args.x])
        y == Bare(l.before[l.args.y])
        Near(v, w) == \/ v = NaN /\ w = NaN
                      \/ v # NaN /\ w # NaN /\ v - w <= l.args.atol /\ w - v <= l.args.atol
    IN Value(Bool(Shape(x) = Shape(y) /\ \A i \in Flat(x) : Near(x.data[i], y.data[i])))

\* The first pair of cells that an order separates decides.
TheComparison(l) ==
    LET x == Receiver(l)
        y == IF l.args.o.kind = "num" THEN Table(x.rows, x.cols, LAMBDA i, j : l.args.o.value)
             ELSE Denote(l, l.args.o)
        op == l.args.op
        split == {i \in Flat(x) : Less(x.data[i], y.data[i]) \/ Less(y.data[i], x.data[i])}
        less == split # {} /\ Less(x.data[Min(split)], y.data[Min(split)])
    IN IF l.args.o.kind = "view" \/ Shape(x) # Shape(y)
       THEN If(op \in {"==", "!="}, Value(Bool(op = "!=")))
       ELSE Value(Bool(CASE op = "==" -> split = {}
                         [] op = "!=" -> split # {}
                         [] op = "<" -> less
                         [] op = "<=" -> less \/ split = {}
                         [] op = ">" -> split # {} /\ ~less
                         [] op = ">=" -> ~less))

TheConstruction(l) ==
    CASE l.args.how = "vector" ->
           If(l.args.q # << >>, AsNew(IF l.args.column THEN ColumnOf(l.args.q) ELSE RowOf(l.args.q)))
      [] l.args.how = "init" ->
           LET o == l.args.o
           IN If(l.args.r > 0 /\ l.args.c > 0,
                 IF o # None /\ o.kind = "list"
                 THEN If(Len(o.values) = l.args.r * l.args.c,
                         AsNew(Table(l.args.r, l.args.c, LAMBDA i, j : o.values[i * l.args.c + j + 1])))
                 ELSE AsNew(Table(l.args.r, l.args.c,
                                  LAMBDA i, j : IF o = None THEN 0 ELSE o.value)))
      [] OTHER -> If(l.args.r > 0 /\ l.args.c > 0, AsNew(Table(l.args.r, l.args.c, LAMBDA i, j :
                       CASE l.args.how = "zeros" -> 0 [] l.args.how = "ones" -> 1
                         [] l.args.how = "full" -> l.args.v)))

----------------------------------------------------------------------------
(***************************************************************************)
(* Indices.                                                                *)
(***************************************************************************)
InRange(i, n) == i \in -n..(n - 1)
Sorted(S, down) == SetToSortSeq(S, LAMBDA i, j : IF down THEN i > j ELSE i < j)

SliceOf(k, n) ==
    LET step == IF k.step = None THEN 1 ELSE k.step
        Wrap(i) == IF i < 0 THEN i + n ELSE i
        first == IF k.start = None THEN IF step > 0 THEN 0 ELSE n - 1
                 ELSE IF step > 0 THEN Max({Wrap(k.start), 0}) ELSE Min({Wrap(k.start), n - 1})
        Inside(i) == IF step > 0 THEN i >= first /\ (k.stop # None => i < Wrap(k.stop))
                     ELSE i <= first /\ (k.stop # None => i > Wrap(k.stop))
    IN Sorted({i \in 0..(n - 1) : Inside(i) /\ (i - first) % (IF step > 0 THEN step ELSE -step) = 0},
              step < 0)

Indices(k, n) == CASE k.kind = "int" -> IF InRange(k.i, n) THEN <<k.i % n>> ELSE << >>
                   [] k.kind = "slice" -> SliceOf(k, n)
                   [] k.kind = "list" -> IF \A j \in DOMAIN k.q : InRange(k.q[j], n)
                                         THEN [j \in DOMAIN k.q |-> k.q[j] % n] ELSE << >>
AcrossKey(k, n) == Indices(IF k = None THEN FullSlice ELSE k, n)

RowKey(k) == IF k.kind = "pair" THEN k.rows ELSE k
ColKey(k) == IF k.kind = "pair" THEN k.cols ELSE FullSlice
\* A list stands alone or with everything across.
Proper(k) == /\ RowKey(k).kind = "list" => ColKey(k) = FullSlice
             /\ ColKey(k).kind = "list" => RowKey(k) = FullSlice
RowsOf(k, x) == Indices(RowKey(k), x.rows)
ColsOf(k, x) == Indices(ColKey(k), x.cols)
Names(k, x) == Proper(k) /\ RowsOf(k, x) # << >> /\ ColsOf(k, x) # << >>

Part(x, rs, cs) == Table(Len(rs), Len(cs), LAMBDA i, j : Entry(x, rs[i + 1], cs[j + 1]))

TheSubscript(l) ==
    LET x == Receiver(l)
        k == l.args.k
        rs == RowsOf(k, x)
        cs == ColsOf(k, x)
        one == /\ RowKey(k).kind = "int" /\ (k.kind = "pair" => k.cols.kind = "int")
               /\ Len(cs) = 1
    IN If(Names(k, x), IF one THEN Value(Float(Entry(x, rs[1], cs[1])))
                              ELSE AsNew(Part(x, rs, cs)))

TheItem(l) ==
    LET x == Receiver(l)
    IN If(l.args.i \in 0..(x.rows - 1),
          IF x.cols = 1 THEN Value(Float(Entry(x, l.args.i, 0)))
          ELSE AsNew(Part(x, <<l.args.i>>, Sorted(0..(x.cols - 1), FALSE))))

\* V(i, j) is what position (i, j) of the selection receives; the last one counts.
Update(x, rs, cs, V(_, _)) ==
    LET LastAt(q, i) == Max({j \in DOMAIN q : q[j] = i})
    IN Table(x.rows, x.cols, LAMBDA i, j :
         IF (\E n \in DOMAIN rs : rs[n] = i) /\ (\E n \in DOMAIN cs : cs[n] = j)
         THEN V(LastAt(rs, i) - 1, LastAt(cs, j) - 1) ELSE Entry(x, i, j))

Accumulate(x, rs, cs, V(_, _)) ==
    Table(x.rows, x.cols, LAMBDA i, j :
       LET hits == {p \in (DOMAIN rs) \X (DOMAIN cs) : rs[p[1]] = i /\ cs[p[2]] = j}
       IN Plus(Entry(x, i, j), TotalOf(hits, LAMBDA p : V(p[1] - 1, p[2] - 1))))

\* What may be scattered: a number, a single cell, or a table of the shape.
Scatters(l, o, r, c) == \/ o.kind = "num"
                        \/ o.kind = "mat" /\ Shape(Denote(l, o)) \in {<<1, 1>>, <<r, c>>}

TheAssignment(l) ==
    LET x == Receiver(l)
        k == l.args.k
        o == l.args.o
        listed == "list" \in {RowKey(k).kind, ColKey(k).kind}
    IN If(/\ Names(k, x) /\ ~Empty(Denote(l, o))
          /\ listed => Scatters(l, o, Len(RowsOf(k, x)), Len(ColsOf(k, x))),
          Wrote("a", Update(x, RowsOf(k, x), ColsOf(k, x),
                            LAMBDA i, j : Spread(Denote(l, o), i, j))))

AlongAxis(l, Body(_)) == If(l.args.axis \in -2..1, Body(l.args.axis % 2))

TheTake(l) ==
    LET x == Receiver(l)
        Key(a) == IF a = 0 THEN ListKey(l.args.q) ELSE PairKey(FullSlice, ListKey(l.args.q))
    IN If(l.args.mode # "a", AlongAxis(l, LAMBDA a :
          If(Names(Key(a), x), Placed(l, Part(x, RowsOf(Key(a), x), ColsOf(Key(a), x))))))

\* One index for each line across the axis.
AlongIndices(l, x, a) == Indices(ListKey(l.args.q), IF a = 0 THEN x.rows ELSE x.cols)
AlongLength(x, a) == IF a = 0 THEN x.cols ELSE x.rows

TheTakeAlong(l) ==
    LET x == Receiver(l)
    IN If(l.args.mode # "a", AlongAxis(l, LAMBDA a :
          LET q == AlongIndices(l, x, a)
          IN If(Len(q) = AlongLength(x, a),
                Placed(l, IF a = 0 THEN Table(1, x.cols, LAMBDA i, j : Entry(x, q[j + 1], j))
                          ELSE Table(x.rows, 1, LAMBDA i, j : Entry(x, i, q[i + 1]))))))

ThePut(l) ==
    LET x == Receiver(l)
        v == Denote(l, l.args.o)
        V(i, j) == Spread(v, i, j)
        Key(a) == IF a = 0 THEN ListKey(l.args.q) ELSE PairKey(FullSlice, ListKey(l.args.q))
    IN AlongAxis(l, LAMBDA a :
         LET rs == RowsOf(Key(a), x)
             cs == ColsOf(Key(a), x)
         IN If(Names(Key(a), x) /\ Scatters(l, l.args.o, Len(rs), Len(cs)),
               Result("a", IF l.args.accumulate THEN Accumulate(x, rs, cs, V)
                           ELSE Update(x, rs, cs, V))))

ThePutAlong(l) ==
    LET x == Receiver(l)
        v == Denote(l, l.args.o)
    IN AlongAxis(l, LAMBDA a :
         LET q == AlongIndices(l, x, a)
             Hit(i, j) == IF a = 0 THEN q[j + 1] = i ELSE q[i + 1] = j
             old(i, j) == IF l.args.accumulate THEN Entry(x, i, j) ELSE 0
             new(i, j) == IF a = 0 THEN Spread(v, 0, j) ELSE Spread(v, i, 0)
         IN If(/\ Len(q) = AlongLength(x, a)
               /\ Scatters(l, l.args.o, IF a = 0 THEN 1 ELSE x.rows, IF a = 0 THEN x.cols ELSE 1),
               Result("a", Table(x.rows, x.cols, LAMBDA i, j :
                  IF ~Hit(i, j) THEN Entry(x, i, j)
                  ELSE IF l.args.accumulate THEN Plus(old(i, j), new(i, j)) ELSE new(i, j)))))

TheComponent(l) ==
    LET x == Receiver(l)
    IN CASE l.args.how = "get" -> If(l.args.n \in Flat(x), Value(Float(x.data[l.args.n])))
         [] l.args.how = "length" ->
              Value(Float(Aggregated("Magnitude", Flat(x), LAMBDA i : x.data[i])))
         [] l.args.how = "set" ->
              If(l.args.n \in Flat(x),
                 Wrote("a", [x EXCEPT !.data[l.args.n] = l.args.v]))

----------------------------------------------------------------------------
(***************************************************************************)
(* Views and iterators.                                                    *)
(***************************************************************************)
LineOf(base, m, rs, cs, row, ro) ==
    If(rs # << >> /\ cs # << >>,
       Line(base, IF row THEN [n \in DOMAIN cs |-> rs[1] * m.cols + cs[n]]
                  ELSE [n \in DOMAIN rs |-> rs[n] * m.cols + cs[1]], row, ro))

RowLineOf(base, m, i, cols, ro) ==
    LineOf(base, m, Indices(IntKey(i), m.rows), AcrossKey(cols, m.cols), TRUE, ro)
ColumnLineOf(base, m, j, rows, ro) ==
    LineOf(base, m, AcrossKey(rows, m.rows), Indices(IntKey(j), m.cols), FALSE, ro)

KeyLineOf(base, m, k) ==
    IF k.kind = "int" THEN RowLineOf(base, m, k.i, None, FALSE)
    ELSE IF k.kind # "pair" \/ "list" \in {k.rows.kind, k.cols.kind} THEN Refused
    ELSE IF k.rows.kind = "slice" /\ k.cols.kind = "slice" THEN Refused
    ELSE LineOf(base, m, Indices(k.rows, m.rows), Indices(k.cols, m.cols),
                k.rows.kind = "int", FALSE)

\* way is [how, base, i, across, ro] or [how, base, k].
ViewMade(m, way) ==
    CASE way.how = "row" -> RowLineOf(way.base, m, way.i, way.across, way.ro)
      [] way.how = "column" -> ColumnLineOf(way.base, m, way.i, way.across, way.ro)
      [] way.how = "key" -> KeyLineOf(way.base, m, way.k)
TheView(l) == ViewMade(Bare(l.before[l.args.base]), l.args)

CellsAt(l, q) == [n \in DOMAIN q |-> l.cells[q[n] + 1]]
TheViewRead(l) ==
    LET v == l.args.v
        q == Indices(l.args.k, Len(l.cells))
    IN CASE l.args.how = "T" -> Line(v.base, l.cells, ~v.row, v.ro)
         [] l.args.how = "component" ->
              If(l.args.n < Len(l.cells), Value(Float(Seen(l)[l.args.n + 1])))
         [] l.args.how = "subscript" ->
              If(l.args.k.kind \in {"int", "slice"} /\ q # << >>,
                 IF l.args.k.kind = "int" THEN Value(Float(Seen(l)[q[1] + 1]))
                 ELSE Line(v.base, CellsAt(l, q), v.row, v.ro))

TheViewWrite(l) ==
    LET v == l.args.v
        x == Bare(l.before[v.base])
        Hit(q) == {q[n] : n \in DOMAIN q}
        SetTo(q, V(_)) == Wrote(v.base, [x EXCEPT !.data = [i \in Flat(x) |->
                             IF i \in Hit(q) THEN V(CHOOSE n \in DOMAIN q : q[n] = i)
                             ELSE x.data[i]]])
        q == Indices(l.args.k, Len(l.cells))
        o == Denote(l, l.args.o)
    IN IF v.ro THEN Refused
       ELSE IF l.args.how = "component"
       THEN If(l.args.n < Len(l.cells),
               SetTo(<<l.cells[l.args.n + 1]>>, LAMBDA n : l.args.o.value))
       ELSE IF l.args.k.kind \notin {"int", "slice"} \/ q = << >> \/ Empty(o) THEN Refused
       ELSE IF l.args.k.kind = "int"
       THEN If(l.args.o.kind = "num", SetTo(CellsAt(l, q), LAMBDA n : l.args.o.value))
       ELSE IF l.args.o.kind = "num" THEN SetTo(CellsAt(l, q), LAMBDA n : l.args.o.value)
       ELSE If(Cardinality(Flat(o)) = Len(q), SetTo(CellsAt(l, q), LAMBDA n : o.data[n - 1]))

TheViewUnary(l) ==
    LET t == Denote(l, l.args.v)
    IN AsNew(Table(t.rows, t.cols, LAMBDA i, j : UnaryFun(l.args.f, Entry(t, i, j))))

\* The next of what its matrix holds by now.
TheNext(l) ==
    LET it == l.args.it
        x == Bare(l.before[it.base])
        n == it.cursor
        Offer(in, e) == IF in THEN e ELSE Value(Stop)
    IN CASE it.kind = "values" -> Offer(n \in Flat(x), Value(Float(x.data[n])))
         [] it.kind = "view_values" ->
              Offer(n < Len(l.cells), Value(Float(x.data[l.cells[n + 1]])))
         [] it.kind = "rows" -> Offer(n < x.rows, RowLineOf(it.base, x, n, None, it.ro))
         [] it.kind = "columns" -> Offer(n < x.cols, ColumnLineOf(it.base, x, n, None, it.ro))

----------------------------------------------------------------------------
Promised(l) ==
    CASE l.op = "binary" -> TheBinary(l)
      [] l.op = "matmul" -> TheMatmul(l)
      [] l.op = "unary" -> TheUnary(l)
      [] l.op = "clip" -> TheClip(l)
      [] l.op = "fma" -> TheFma(l)
      [] l.op = "scaled_add" -> TheScaledAdd(l)
      [] l.op = "normalize" -> TheNormalize(l)
      [] l.op = "aggregate" -> TheAggregate(l)
      [] l.op = "argextreme" -> TheArgExtreme(l)
      [] l.op = "topk" -> TheTopk(l)
      [] l.op = "vecdot" -> TheVecdot(l)
      [] l.op = "cross" -> TheCross(l)
      [] l.op = "perpendicular" -> ThePerpendicular(l)
      [] l.op = "angle" -> TheAngle(l)
      [] l.op = "bin" -> TheBin(l)
      [] l.op = "digitize" -> TheDigitize(l)
      [] l.op = "where" -> TheWhere(l)
      [] l.op = "copy" -> AsNew(Receiver(l))
      [] l.op = "from_view" -> AsNew(Denote(l, l.args.v))
      [] l.op = "transpose" -> TheTranspose(l)
      [] l.op = "concat" -> TheConcat(l)
      [] l.op = "repeat" -> TheRepeat(l)
      [] l.op = "allclose" -> TheAllclose(l)
      [] l.op = "compare" -> TheComparison(l)
      [] l.op = "construct" -> TheConstruction(l)
      [] l.op = "subscript" -> TheSubscript(l)
      [] l.op = "item" -> TheItem(l)
      [] l.op = "assign" -> TheAssignment(l)
      [] l.op = "take" -> TheTake(l)
      [] l.op = "take_along" -> TheTakeAlong(l)
      [] l.op = "put" -> ThePut(l)
      [] l.op = "put_along" -> ThePutAlong(l)
      [] l.op = "component" -> TheComponent(l)
      [] l.op = "view" -> TheView(l)
      [] l.op = "view_read" -> TheViewRead(l)
      [] l.op = "view_write" -> TheViewWrite(l)
      [] l.op = "view_unary" -> TheViewUnary(l)
      [] l.op = "next" -> TheNext(l)
=============================================================================
