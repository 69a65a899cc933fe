---------------------------- MODULE MatrixIndexing ----------------------------
(***************************************************************************)
(* _math.c: reading and writing parts of a Matrix.  A key names rows and   *)
(* columns by integers, slices or lists; a view is a strided line of a     *)
(* matrix whose storage it shares; an iterator looks at its matrix again   *)
(* at every step.                                                          *)
(***************************************************************************)
EXTENDS MatrixShapes

----------------------------------------------------------------------------
(***************************************************************************)
(* Keys.                                                                   *)
(***************************************************************************)
IntKey(i) == [kind |-> "int", i |-> i]
SliceKey(start, stop, step) ==
    [kind |-> "slice", start |-> start, stop |-> stop, step |-> step]
PairKey(k0, k1) == [kind |-> "pair", rows |-> k0, cols |-> k1]
ListKey(q) == [kind |-> "list", q |-> q]
FullSlice == SliceKey(None, None, None)

\* PySlice_Unpack and PySlice_AdjustIndices, of CPython.
Unpack(k) ==
    LET step == IF k.step = None THEN 1 ELSE k.step
    IN [step |-> step,
        start |-> IF k.start # None THEN k.start ELSE IF step < 0 THEN Huge ELSE 0,
        stop |-> IF k.stop # None THEN k.stop ELSE IF step < 0 THEN -Huge ELSE Huge]

AdjustIndices(n, r) ==
    LET Adjust(i) == LET j == IF i < 0 THEN i + n ELSE i
                     IN IF j < 0 THEN IF r.step < 0 THEN -1 ELSE 0
                        ELSE IF j >= n THEN IF r.step < 0 THEN n - 1 ELSE n
                        ELSE j
        a == Adjust(r.start)
        b == Adjust(r.stop)
    IN [start |-> a, step |-> r.step,
        count |-> IF r.step < 0
                  THEN IF b < a THEN (a - b - 1) \div (-r.step) + 1 ELSE 0
                  ELSE IF a < b THEN (b - a - 1) \div r.step + 1 ELSE 0]

Scalar(r, is) == [start |-> r.start, step |-> r.step, count |-> r.count, scalar |-> is]
NoRange == Scalar([start |-> 0, step |-> 1, count |-> 0], FALSE)

\* A negative integer is brought into range here and once more by Adjust.
range_read(k, n) ==
    IF k.kind = "int"
    THEN LET i == IF k.i < 0 THEN k.i + n ELSE k.i
         IN Scalar(AdjustIndices(n, [start |-> i, stop |-> i + 1, step |-> 1]), TRUE)
    ELSE IF k.kind = "slice" THEN Scalar(AdjustIndices(n, Unpack(k)), FALSE)
    ELSE NoRange

Whole(n, is) == Scalar([start |-> 0, step |-> 1, count |-> n], is)

\* A key that is no pair names rows only; an omitted column counts as scalar.
read_key_ranges(s, x, k) ==
    IF k.kind = "pair"
    THEN [rows |-> range_read(k.rows, Rows(s, x)), cols |-> range_read(k.cols, Cols(s, x))]
    ELSE [rows |-> range_read(k, Rows(s, x)), cols |-> Whole(Cols(s, x), TRUE)]

NoCells(r) == r.rows.count = 0 \/ r.cols.count = 0

\* The flat index of the n-th selected cell, row by row.
Selected(s, x, r, n) ==
    (r.rows.start + (n \div r.cols.count) * r.rows.step) * Cols(s, x)
      + r.cols.start + (n % r.cols.count) * r.cols.step

\* Which axis a list selects along; a list in any other key is unsupported.
Fancy(kind, q) == [kind |-> kind, q |-> q]
classify_fancy_key(k) ==
    CASE k.kind = "list" -> Fancy("axis0", k.q)
      [] k.kind = "pair" ->
           IF k.rows.kind # "list" /\ k.cols.kind # "list" THEN Fancy("none", << >>)
           ELSE IF k.rows.kind = "list" /\ k.cols = FullSlice THEN Fancy("axis0", k.rows.q)
           ELSE IF k.cols.kind = "list" /\ k.rows = FullSlice THEN Fancy("axis1", k.cols.q)
           ELSE Fancy("unsupported", << >>)
      [] OTHER -> Fancy("none", << >>)

----------------------------------------------------------------------------
(***************************************************************************)
(* Gathering: every index is resolved before anything is written.          *)
(***************************************************************************)
resolve_gather_index(i, n) == IF i < 0 THEN i + n ELSE i
InBounds(q, n) == \A j \in DOMAIN q : resolve_gather_index(q[j], n) \in 0..(n - 1)
Extent(s, x, axis) == IF axis = 0 THEN Rows(s, x) ELSE Cols(s, x)

gather_output(s, x, mode, r, c) ==
    IF mode = "fresh" THEN At(New(s, "out", r, c), "out")
    ELSE LET t == UseOutTarget(s, mode, r, c)
         IN IF t.err = "none" /\ mode = x THEN Not(s, "value") ELSE t

gather_axis(s, x, q, axis, mode) ==
    LET n == Extent(s, x, axis)
        Line(i) == resolve_gather_index(q[i + 1], n)
        w == IF axis = 0 THEN Cols(s, x) ELSE Len(q)
        From(i) == IF axis = 0 THEN Line(i \div w) * Cols(s, x) + (i % w)
                   ELSE (i \div w) * Cols(s, x) + Line(i % w)
    IN IF q = << >> \/ ~InBounds(q, n) THEN Raise(s, "index")
       ELSE Into(gather_output(s, x, mode, IF axis = 0 THEN Len(q) ELSE Rows(s, x), w),
                 LAMBDA t, out : Sweep(t, out, Size(t, out), LAMBDA u, i : Val(u, x, From(i))))

\* Along axis 0 the i-th index names a row of column i, and so on.
AlongCell(s, x, q, axis, i) ==
    LET k == resolve_gather_index(q[i + 1], Extent(s, x, axis))
    IN IF axis = 0 THEN k * Cols(s, x) + i ELSE i * Cols(s, x) + k
AlongShape(s, x, axis) == IF axis = 0 THEN <<1, Cols(s, x)>> ELSE <<Rows(s, x), 1>>

gather_along_axis(s, x, q, axis, mode) ==
    LET shape == AlongShape(s, x, axis)
    IN IF Len(q) # shape[1] * shape[2] THEN Raise(s, "value")
       ELSE IF ~InBounds(q, Extent(s, x, axis)) THEN Raise(s, "index")
       ELSE Into(gather_output(s, x, mode, shape[1], shape[2]), LAMBDA t, out :
              Sweep(t, out, Len(q), LAMBDA u, i : Val(u, x, AlongCell(u, x, q, axis, i))))

Matrix_take(s, x, q, axis, mode) ==
    Acquired(s, x, WithAxis(s, axis, LAMBDA a : gather_axis(s, x, q, a, mode)))
Matrix_take_along_axis(s, x, q, axis, mode) ==
    Acquired(s, x, WithAxis(s, axis, LAMBDA a : gather_along_axis(s, x, q, a, mode)))

----------------------------------------------------------------------------
(***************************************************************************)
(* Scattering: indices, then the value, then a snapshot of a value that is *)
(* the receiver itself, and only then the writes.                          *)
(***************************************************************************)
classify_scatter_rhs(s, o, r, c) ==
    CASE o.kind = "num" -> Repeated(s, o.value)
      [] o.kind \in {"list", "view"} -> Everywhere(Not(s, "type"))
      [] o.kind = "mat" -> IF ~Owned(s, o.at) THEN Everywhere(Not(s, "owner"))
                           ELSE IF Size(s, o.at) = 1 THEN Repeated(s, Val(s, o.at, 0))
                           ELSE IF Rows(s, o.at) = r /\ Cols(s, o.at) = c
                           THEN Everywhere(At(s, o.at))
                           ELSE Everywhere(Not(s, "shape"))

\* A faulty variant: the receiver is read while it is written.
NoSnapshot(f, x) == f

Snapshot(f, x) ==
    IF f.at # x THEN f
    ELSE [f EXCEPT !.at = "rhs",
                   !.s = Copied(New(@, "rhs", Rows(@, x), Cols(@, x)), x, "rhs")]

\* Value i goes to cell to[i], or is added to it.
ScatterAll(f, x, n, to, accumulate) ==
    Loop(f.s, x, Upto(n), LAMBDA t, i : to[i],
         LAMBDA t, i : IF accumulate THEN Plus(Val(t, x, to[i]), FactorAt(t, f, i))
                       ELSE FactorAt(t, f, i))

scatter_axis(s, x, q, axis, o, accumulate) ==
    LET n == Extent(s, x, axis)
        Line(i) == resolve_gather_index(q[i + 1], n)
        w == IF axis = 0 THEN Cols(s, x) ELSE Len(q)
        r == IF axis = 0 THEN Len(q) ELSE Rows(s, x)
        to == [i \in 0..(r * w - 1) |-> IF axis = 0 THEN Line(i \div w) * w + (i % w)
                                        ELSE (i \div w) * Cols(s, x) + Line(i % w)]
        f == classify_scatter_rhs(s, o, r, w)
    IN IF q = << >> \/ ~InBounds(q, n) THEN Raise(s, "index")
       ELSE IF f.err # "none" THEN Raise(s, f.err)
       ELSE Done(ScatterAll(Snapshot(f, x), x, r * w, to, accumulate), Ref(x))

AlongCells(s, x, q, axis) == [i \in 0..Len(q) - 1 |-> AlongCell(s, x, q, axis, i)]

\* A faulty variant: indices are resolved one by one, as cells are written.
ScatterAsResolved(s, x, q, axis, o, accumulate) ==
    LET shape == AlongShape(s, x, axis)
        f == classify_scatter_rhs(s, o, shape[1], shape[2])
        n == Extent(s, x, axis)
        good == SelectSeq(Upto(Len(q)), LAMBDA i : InBounds(SubSeq(q, 1, i + 1), n))
        t == ScatterAll(f, x, Len(good), AlongCells(s, x, q, axis), accumulate)
    IN IF Len(q) # shape[1] * shape[2] THEN Raise(s, "value")
       ELSE IF f.err # "none" THEN Raise(s, f.err)
       ELSE IF ~InBounds(q, n) THEN Raise(t, "index") ELSE Done(t, Ref(x))

scatter_along_axis(s, x, q, axis, o, accumulate) ==
    LET shape == AlongShape(s, x, axis)
        f == classify_scatter_rhs(s, o, shape[1], shape[2])
    IN IF q = << >> \/ ~InBounds(q, Extent(s, x, axis)) THEN Raise(s, "index")
       ELSE IF Len(q) # shape[1] * shape[2] THEN Raise(s, "value")
       ELSE IF f.err # "none" THEN Raise(s, f.err)
       ELSE Done(ScatterAll(Snapshot(f, x), x, Len(q), AlongCells(s, x, q, axis), accumulate), Ref(x))

Matrix_put(s, x, q, o, axis, accumulate) ==
    Acquired(s, x, WithAxis(s, axis, LAMBDA a : scatter_axis(s, x, q, a, o, accumulate)))
Matrix_put_along_axis(s, x, q, o, axis, accumulate) ==
    Acquired(s, x, WithAxis(s, axis, LAMBDA a : scatter_along_axis(s, x, q, a, o, accumulate)))
=============================================================================
