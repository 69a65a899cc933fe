----------------------------- MODULE MatrixViews -----------------------------
(***************************************************************************)
(* _math.c: subscripts of a Matrix, MatrixView and the iterators.  A view  *)
(* is a strided line of a matrix whose storage it shares; it and an        *)
(* iterator look at their matrix, and at its owner, whenever they are used.*)
(***************************************************************************)
EXTENDS MatrixIndexing

----------------------------------------------------------------------------
(***************************************************************************)
(* m[k], m[k] = v and the named components of a matrix.                    *)
(***************************************************************************)
Matrix_subscript(s, x, k) ==
    LET fancy == classify_fancy_key(k)
        r == read_key_ranges(s, x, k)
        One == r.rows.scalar /\ r.cols.scalar /\ r.rows.count = 1 /\ r.cols.count = 1
    IN Acquired(s, x,
         CASE fancy.kind = "axis0" -> gather_axis(s, x, fancy.q, 0, "fresh")
           [] fancy.kind = "axis1" -> gather_axis(s, x, fancy.q, 1, "fresh")
           [] fancy.kind = "unsupported" -> Raise(s, "index")
           [] fancy.kind = "none" ->
                IF NoCells(r) THEN Raise(s, "index")
                ELSE IF One THEN Done(s, Float(Val(s, x, Selected(s, x, r, 0))))
                ELSE Fresh(s, r.rows.count, r.cols.count, LAMBDA t, out :
                       Sweep(t, out, Size(t, out),
                             LAMBDA u, i : Val(u, x, Selected(u, x, r, i)))))

\* m[i] as iteration calls it.
Matrix_item(s, x, i) ==
    Acquired(s, x,
        IF i \notin 0..(Rows(s, x) - 1) THEN Raise(s, "index")
        ELSE IF Cols(s, x) = 1 THEN Done(s, Float(Val(s, x, i)))
        ELSE Fresh(s, 1, Cols(s, x), LAMBDA t, out :
               Sweep(t, out, Cols(t, x), LAMBDA u, j : Cell(u, x, i, j))))

\* How a value is repeated over the selected cells; its shape is not checked.
AssignedFrom(s, v, r, i) ==
    IF r.rows.count > 1 /\ Rows(s, v) = 1 THEN i % r.cols.count
    ELSE IF r.cols.count > 1 /\ Cols(s, v) = 1 THEN i \div r.cols.count
    ELSE i

\* What the kernels assert of it.
Fits(s, v, r) ==
    IF r.rows.count > 1 /\ Rows(s, v) = 1 THEN Cols(s, v) = r.cols.count
    ELSE IF r.cols.count > 1 /\ Cols(s, v) = 1 THEN Rows(s, v) = r.rows.count
    ELSE Rows(s, v) = r.rows.count /\ Cols(s, v) = r.cols.count

Matrix_ass_subscript(s, x, k, o) ==
    LET fancy == classify_fancy_key(k)
        r == read_key_ranges(s, x, k)
        v == Unwrap(s, o, "rhs", FALSE)
        Set(t, Of(_, _)) == Loop(t, x, Upto(r.rows.count * r.cols.count),
                                 LAMBDA u, i : Selected(u, x, r, i), Of)
        Nothing(t) == Done(t, [kind |-> "nothing"])
        Scatter(axis) == LET c == scatter_axis(s, x, fancy.q, axis, o, FALSE)
                         IN IF c.err = "none" THEN Nothing(c.s) ELSE c
    IN Acquired(s, x,
         CASE fancy.kind = "axis0" -> Scatter(0)
           [] fancy.kind = "axis1" -> Scatter(1)
           [] fancy.kind = "unsupported" -> Raise(s, "index")
           [] fancy.kind = "none" ->
                IF NoCells(r) THEN Raise(s, "index")
                ELSE IF o.kind = "num" THEN Nothing(Set(s, LAMBDA u, i : o.value))
                ELSE IF v.err # "none" THEN Raise(s, "type")
                ELSE Nothing(Set(v.s, LAMBDA u, i :
                               Val(u, v.at, AssignedFrom(u, v.at, r, i)))))

Matrix_get_component(s, x, k) ==
    Acquired(s, x, IF Size(s, x) <= k THEN Raise(s, "index")
                   ELSE Done(s, Float(Val(s, x, k))))
Matrix_set_component(s, x, k, v) ==
    Acquired(s, x, IF Size(s, x) <= k THEN Raise(s, "index")
                   ELSE Done(Write(s, x, k, v), [kind |-> "nothing"]))
Matrix_get_length(s, x) == Matrix_aggregate(s, "Magnitude", x, None, "all")

----------------------------------------------------------------------------
(***************************************************************************)
(* Making views.                                                           *)
(***************************************************************************)
View(base, offset, count, stride, row, ro) ==
    [kind |-> "view", base |-> base, offset |-> offset, count |-> count,
     stride |-> stride, row |-> row, ro |-> ro]

view_new(s, v) ==
    LET last == v.offset + (v.count - 1) * v.stride
    IN IF v.count = 0 \/ v.offset \notin 0..(Size(s, v.base) - 1)
                      \/ last \notin 0..(Size(s, v.base) - 1)
       THEN Raise(s, "index") ELSE Done(s, v)

AxisRange(k, n) == IF k = None THEN Whole(n, FALSE) ELSE range_read(k, n)
RowLine(s, x, i, r, ro) == View(x, i * Cols(s, x) + r.start, r.count, r.step, TRUE, ro)
ColumnLine(s, x, j, r, ro) ==
    View(x, r.start * Cols(s, x) + j, r.count,
         IF r.count > 1 THEN Cols(s, x) * r.step ELSE Cols(s, x), FALSE, ro)

Matrix_row_view(s, x, i, cols, ro) ==
    LET n == resolve_gather_index(i, Rows(s, x))
        r == AxisRange(cols, Cols(s, x))
    IN Acquired(s, x,
         IF n \notin 0..(Rows(s, x) - 1) \/ r.count = 0 THEN Raise(s, "index")
         ELSE view_new(s, RowLine(s, x, n, r, ro)))

Matrix_column_view(s, x, j, rows, ro) ==
    LET n == resolve_gather_index(j, Cols(s, x))
        r == AxisRange(rows, Rows(s, x))
    IN Acquired(s, x,
         IF n \notin 0..(Cols(s, x) - 1) \/ r.count = 0 THEN Raise(s, "index")
         ELSE view_new(s, ColumnLine(s, x, n, r, ro)))

\* m.view[k]: the line is a row if the row is an integer, and else a column.
Matrix_view(s, x, k) ==
    LET r == read_key_ranges(s, x, k)
        n == resolve_gather_index(k.i, Rows(s, x))
    IN Acquired(s, x,
         IF k.kind = "int"
         THEN IF n \notin 0..(Rows(s, x) - 1) THEN Raise(s, "index")
              ELSE view_new(s, RowLine(s, x, n, Whole(Cols(s, x), FALSE), FALSE))
         ELSE IF k.kind # "pair" THEN Raise(s, "type")
         ELSE IF NoCells(r) THEN Raise(s, "index")
         ELSE IF r.rows.scalar /\ r.cols.scalar
         THEN view_new(s, View(x, Selected(s, x, r, 0), 1, 1, TRUE, FALSE))
         ELSE IF r.rows.scalar THEN view_new(s, RowLine(s, x, r.rows.start, r.cols, FALSE))
         ELSE IF r.cols.scalar THEN view_new(s, ColumnLine(s, x, r.cols.start, r.rows, FALSE))
         ELSE Raise(s, "type"))

----------------------------------------------------------------------------
(***************************************************************************)
(* Reading and writing through a view.                                     *)
(***************************************************************************)
Element(v, i) == v.offset + i * v.stride
MatrixView_T(s, v) == view_new(s, [v EXCEPT !.row = ~@])

MatrixView_subscript(s, v, k) ==
    LET i == resolve_gather_index(k.i, v.count)
        r == range_read(k, v.count)
    IN Acquired(s, v.base,
         IF k.kind = "int"
         THEN IF i \notin 0..(v.count - 1) THEN Raise(s, "index")
              ELSE Done(s, Float(Val(s, v.base, Element(v, i))))
         ELSE IF k.kind # "slice" THEN Raise(s, "type")
         ELSE IF r.count = 0 THEN Raise(s, "index")
         ELSE view_new(s, [v EXCEPT !.offset = Element(v, r.start), !.count = r.count,
                                    !.stride = IF r.count > 1 THEN @ * r.step ELSE @]))

MatrixView_ass_subscript(s, v, k, o) ==
    LET i == resolve_gather_index(k.i, v.count)
        r == range_read(k, v.count)
        u == Unwrap(s, o, "rhs", FALSE)
        Set(t, Of(_, _)) == Loop(t, v.base, Upto(r.count),
                                 LAMBDA w, n : Element(v, r.start + n * r.step), Of)
        Nothing(t) == Done(t, [kind |-> "nothing"])
    IN Acquired(s, v.base,
         IF v.ro \/ o.kind = "deleted" THEN Raise(s, "type")
         ELSE IF k.kind = "int"
         THEN IF i \notin 0..(v.count - 1) THEN Raise(s, "index")
              ELSE IF o.kind # "num" THEN Raise(s, "type")
              ELSE Nothing(Write(s, v.base, Element(v, i), o.value))
         ELSE IF k.kind # "slice" THEN Raise(s, "type")
         ELSE IF r.count = 0 THEN Raise(s, "index")
         ELSE IF o.kind = "num" THEN Nothing(Set(s, LAMBDA w, n : o.value))
         ELSE IF u.err # "none" THEN Raise(s, u.err)
         ELSE IF Size(u.s, u.at) # r.count THEN Raise(s, "value")
         ELSE Nothing(Set(u.s, LAMBDA w, n : Val(w, u.at, n))))

view_get_component(s, v, k) ==
    Acquired(s, v.base, IF v.count <= k THEN Raise(s, "index")
                        ELSE Done(s, Float(Val(s, v.base, Element(v, k)))))
view_set_component(s, v, k, x) ==
    Acquired(s, v.base, IF v.ro THEN Raise(s, "type")
                        ELSE IF v.count <= k THEN Raise(s, "index")
                        ELSE Done(Write(s, v.base, Element(v, k), x), [kind |-> "nothing"]))

\* -v and abs(v) compute on a copy.
view_unary(s, f, v) ==
    LET t == Materialize(s, v, "lhs")
    IN IF t.err # "none" THEN Raise(s, t.err) ELSE Matrix_unary(t.s, f, "lhs", "fresh")

----------------------------------------------------------------------------
(***************************************************************************)
(* Iterators: over the values of a matrix or of a view, over the rows or   *)
(* the columns of a matrix as views.                                       *)
(***************************************************************************)
Stop == [kind |-> "stop"]
Values(x) == [kind |-> "values", base |-> x, view |-> None, cursor |-> 0, ro |-> FALSE]
ViewValues(v) == [kind |-> "view_values", base |-> v.base, view |-> v, cursor |-> 0, ro |-> v.ro]
Lines(x, kind, ro) == [kind |-> kind, base |-> x, view |-> None, cursor |-> 0, ro |-> ro]
make_iter(s, it) == Acquired(s, it.base, Done(s, it))

Limit(s, it) == CASE it.kind = "values" -> Size(s, it.base)
                  [] it.kind = "view_values" -> it.view.count
                  [] it.kind = "rows" -> Rows(s, it.base)
                  [] it.kind = "columns" -> Cols(s, it.base)

Iter_next(s, it) ==
    Acquired(s, it.base,
        IF it.cursor >= Limit(s, it) THEN Done(s, Stop)
        ELSE CASE it.kind = "values" -> Done(s, Float(Val(s, it.base, it.cursor)))
               [] it.kind = "view_values" ->
                    Done(s, Float(Val(s, it.base, Element(it.view, it.cursor))))
               [] it.kind = "rows" ->
                    view_new(s, RowLine(s, it.base, it.cursor,
                                        Whole(Cols(s, it.base), FALSE), it.ro))
               [] it.kind = "columns" ->
                    view_new(s, View(it.base, it.cursor, Rows(s, it.base),
                                     Cols(s, it.base), FALSE, it.ro)))
Advanced(it) == [it EXCEPT !.cursor = @ + 1]

----------------------------------------------------------------------------
(***************************************************************************)
(* Between interpreters: a message's sender gives its matrix up, and who   *)
(* unpacks the message takes it.                                           *)
(***************************************************************************)
_matrix_shared(s, x) ==
    IF s.mat[x].owner # s.who THEN Raise(s, "owner")
    ELSE Done([s EXCEPT !.mat[x].owner = None], [kind |-> "nothing"])
_new_matrix_object(s, x) ==
    IF s.mat[x].owner # None THEN Raise(s, "owner")
    ELSE Done([s EXCEPT !.mat[x].owner = s.who], Ref(x))
=============================================================================
