------------------------------- MODULE Matrices -------------------------------
(***************************************************************************)
(* Matrices in use by interpreters.  An interpreter takes a view, starts   *)
(* or steps an iterator, sends a matrix away or receives it, transposes in *)
(* place or writes a component; each of these changes what later calls     *)
(* meet.  Then one call computes, is recorded in last with the memory it   *)
(* met, and ends the run.                                                  *)
(***************************************************************************)
EXTENDS MatrixPartsReference

CONSTANTS Interpreters,
          Worlds,     \* where runs begin: [mat, the matrices by name, with their owners;
                      \*  budget, of preparing steps; scope, of callers and menu]
          Ways,       \* how views are kept
          Numbers,    \* the numbers used as operands
          Counts,     \* bins, repeats, ks and component indices
          Axes, Keys, LineKeys, IndexLists

Named == {"a", "b", "c"}
ASSUME MatricesAssumption ==
    \A way \in Ways : way.how \in {"row", "column", "key"} /\ way.base \in Named
Temporary == {"out", "lhs", "rhs", "nowhere"}
Blank == [rows |-> 1, cols |-> 1, owner |-> None, data |-> [i \in {0} |-> 0]]

VARIABLES mem,      \* the matrices, by name
          view,     \* None, or a view and (a history) the cells it stands for
          iter,     \* None, or an iterator
          budget,   \* preparing steps left
          scope,    \* the interpreters that act, and the families of calls they end with
          last      \* None, or the call that ended the run

vars == <<mem, view, iter, budget, scope, last>>

Init == \E w \in Worlds : /\ mem = w.mat
                          /\ budget = w.budget
                          /\ scope = w.scope
                          /\ view = None /\ iter = None /\ last = None

Memory(w) == [who |-> w, mat |-> [p \in Named \cup Temporary |->
                                     IF p \in Named THEN mem[p] ELSE Blank]]

----------------------------------------------------------------------------
(***************************************************************************)
(* Calls.  may and uses are the matrices the caller asked to be written    *)
(* and to be used.                                                         *)
(***************************************************************************)
Returned(o) == IF o.ret.kind \in {"ref", "pairs"} THEN o.s.mat[o.ret.at] ELSE Blank

Call(w, op, args, may, uses, o) ==
    /\ mem' = [p \in Named |-> o.s.mat[p]]
    /\ last' = [op |-> op, args |-> args, may |-> may, uses |-> uses, who |-> w,
                before |-> mem, err |-> o.err, ret |-> o.ret, out |-> Returned(o),
                cells |-> IF view = None THEN << >> ELSE view.cells]
    /\ UNCHANGED <<view, iter, budget, scope>>

Target(x, mode) == IF mode = "in_place" THEN {x} ELSE {mode} \cap Named
Of(o) == IF o.kind = "mat" THEN {o.at} ELSE IF o.kind = "view" THEN {o.base} ELSE {}

\* Interpreter w may make a call of this family.
Turn(w, family) == last = None /\ w \in scope.callers /\ family \in scope.menu

Modes == {"fresh", "in_place", "both", "a", "c"}
OutModes == {"fresh", "a", "c"}
Places == {Mat(x) : x \in Named}
Nums == {Num(v) : v \in Numbers}
Lists == {List(q) : q \in {<< >>, <<3, -1>>, <<2, 0, 1>>}}
ViewOperand == IF view = None THEN {} ELSE {view.v}
Operands == Places \cup Nums \cup Lists \cup ViewOperand
HasNaN(x) == \E i \in 0..(mem[x].rows * mem[x].cols - 1) : mem[x].data[i] = NaN

\* The receiver would have to grow: such an in-place call returns, and
\* writes, its other operand, which no reader of += expects.  Left out.
InPlaceGrows(l, o) ==
    /\ o.kind = "mat"
    /\ \/ mem[l].rows = 1 /\ mem[l].cols # 1 /\ mem[o.at].rows # 1
       \/ mem[l].cols = 1 /\ mem[l].rows # 1 /\ mem[o.at].cols # 1

Binary(w) ==
    /\ Turn(w, "compute")
    /\ \E f \in {"Add", "Subtract", "Divide", "Less", "GreaterEqual", "NotEqual"},
          l \in {Mat("a")} \cup Nums \cup Lists \cup ViewOperand, r \in Operands,
          mode \in {"fresh", "in_place", "a", "c"} :
        /\ l.kind \in {"mat", "view"} \/ r.kind \in {"mat", "view"}
        /\ mode = "in_place" => l.kind = "mat" /\ ~InPlaceGrows(l.at, r)
        /\ LET o == Matrix_binary_op(Memory(w), f, l, r, mode)
           IN Call(w, "binary", [f |-> f, l |-> l, r |-> r, mode |-> mode],
                   Target("a", mode), Of(l) \cup Of(r) \cup Target("a", mode), o)

Matmul(w) ==
    /\ Turn(w, "compute")
    /\ \E l \in Operands \ Nums, r \in Operands \ Nums :
        /\ l.kind \in {"mat", "view"} \/ r.kind \in {"mat", "view"}
        /\ Call(w, "matmul", [l |-> l, r |-> r], {}, Of(l) \cup Of(r),
                Matrix_matmul(Memory(w), l, r))

Unary(w) ==
    /\ Turn(w, "compute")
    /\ \E f \in {"Negate", "Abs", "Sign", "Sqrt"}, mode \in Modes :
        Call(w, "unary", [f |-> f, x |-> "a", mode |-> mode],
             Target("a", mode), {"a"} \cup Target("a", mode),
             Matrix_unary(Memory(w), f, "a", mode))

Clip(w) ==
    /\ Turn(w, "compute")
    /\ \E lo, hi \in {None, -1, 1}, mode \in Modes :
        Call(w, "clip", [x |-> "a", lo |-> lo, hi |-> hi, mode |-> mode],
             Target("a", mode), {"a"} \cup Target("a", mode),
             Matrix_clip(Memory(w), "a", lo, hi, mode))

FusedAdd(w) ==
    /\ Turn(w, "compute")
    /\ \E b, c \in Places \cup Nums \cup ViewOperand, mode \in {"fresh", "in_place"} :
        Call(w, "fma", [x |-> "a", b |-> b, c |-> c, mode |-> mode],
             Target("a", mode), {"a"} \cup Of(b) \cup Of(c),
             Matrix_fma(Memory(w), "a", b, c, mode))

ScaledSum(w) ==
    /\ Turn(w, "compute")
    /\ \E f \in Places \cup Nums, x \in Places \cup Lists \cup ViewOperand,
          mode \in {"fresh", "in_place"} :
        Call(w, "scaled_add", [y |-> "a", f |-> f, x |-> x, mode |-> mode],
             Target("a", mode), {"a"} \cup Of(f) \cup Of(x),
             Matrix_scaled_add(Memory(w), "a", f, x, mode))

Normalize(w) ==
    /\ Turn(w, "compute")
    /\ \E axis \in Axes, mode \in {"fresh", "in_place"} :
        Call(w, "normalize", [x |-> "a", axis |-> axis, mode |-> mode],
             Target("a", mode), {"a"},
             Matrix_normalize(Memory(w), "a", axis, mode))

----------------------------------------------------------------------------
Wheres == {"all", "b", "c"}
UsesMask(where) == {"a"} \cup (IF where = "all" THEN {} ELSE {where})

\* The order of NaN among the accumulators decides minima and maxima: left out.
Aggregate(w) ==
    /\ Turn(w, "compute")
    /\ \E k \in {"Sum", "Mean", "Magnitude", "MagnitudeSquared", "Minimum", "Maximum"},
          axis \in Axes, where \in Wheres :
        /\ k \in {"Minimum", "Maximum"} => ~HasNaN("a")
        /\ Call(w, "aggregate", [k |-> k, x |-> "a", axis |-> axis, where |-> where],
                {}, UsesMask(where), Matrix_aggregate(Memory(w), k, "a", axis, where))

ArgMinMax(w) ==
    /\ Turn(w, "compute")
    /\ \E axis \in Axes, where \in Wheres, max, as_matrix \in BOOLEAN :
        Call(w, "argextreme",
             [x |-> "a", axis |-> axis, where |-> where, max |-> max, as_matrix |-> as_matrix],
             {}, UsesMask(where),
             Matrix_argextreme(Memory(w), "a", axis, where, max, as_matrix))

Topk(w) ==
    /\ Turn(w, "compute")
    /\ \E k \in Counts, axis \in Axes, largest \in BOOLEAN, where \in Wheres :
        Call(w, "topk", [x |-> "a", k |-> k, axis |-> axis, largest |-> largest, where |-> where],
             {}, UsesMask(where), Matrix_topk(Memory(w), "a", k, axis, largest, where))

Vecdot(w) ==
    /\ Turn(w, "compute")
    /\ \E o \in Operands \ Nums, axis \in Axes :
        Call(w, "vecdot", [x |-> "a", o |-> o, axis |-> axis], {}, {"a"} \cup Of(o),
             Matrix_vecdot(Memory(w), "a", o, axis))

\* 2x3 and 3x2 hold two kinds of vectors and ignore the axis that asks for
\* the other kind: left out.
AxisIgnored(m, axis) == \/ m.rows = 2 /\ m.cols = 3 /\ axis \in {1, -1}
                        \/ m.rows = 3 /\ m.cols = 2 /\ axis \in {0, -2}
Cross(w) ==
    /\ Turn(w, "compute")
    /\ \E o \in Operands \ Nums, axis \in Axes :
        /\ ~AxisIgnored(mem["a"], axis)
        /\ Call(w, "cross", [x |-> "a", o |-> o, axis |-> axis], {}, {"a"} \cup Of(o),
                Matrix_cross(Memory(w), "a", o, axis))

Perpendicular(w) ==
    /\ Turn(w, "compute")
    /\ \E axis \in Axes, mode \in {"fresh", "in_place"} :
        Call(w, "perpendicular", [x |-> "a", axis |-> axis, mode |-> mode],
             Target("a", mode), {"a"}, Matrix_perpendicular(Memory(w), "a", axis, mode))

Angle(w) ==
    /\ Turn(w, "compute")
    /\ \E axis \in Axes :
        Call(w, "angle", [x |-> "a", axis |-> axis], {}, {"a"},
             Matrix_angle(Memory(w), "a", axis))

----------------------------------------------------------------------------
Bin(w) ==
    /\ Turn(w, "compute")
    /\ \E n \in Counts, b \in {None, [lo |-> -1, hi |-> 2], [lo |-> 1, hi |-> 1], [lo |-> 1, hi |-> 0]},
          right \in BOOLEAN, mode \in Modes :
        Call(w, "bin", [x |-> "a", n |-> n, bounds |-> b, right |-> right, mode |-> mode],
             Target("a", mode), {"a"} \cup Target("a", mode),
             Matrix_bin(Memory(w), "a", n, b, right, mode))

Digitize(w) ==
    /\ Turn(w, "compute")
    /\ \E e \in Places \cup Lists \cup ViewOperand \cup {List(<<-1, 0, 2>>)},
          right \in BOOLEAN, mode \in Modes :
        Call(w, "digitize", [x |-> "a", e |-> e, right |-> right, mode |-> mode],
             Target("a", mode), {"a"} \cup Of(e) \cup Target("a", mode),
             Matrix_digitize(Memory(w), "a", e, right, mode))

Where(w) ==
    /\ Turn(w, "compute")
    /\ \E x, y \in Operands, mode \in OutModes :
        /\ x.kind = "num" \/ y.kind # "num"
        /\ Call(w, "where", [mask |-> "b", x |-> x, y |-> y, mode |-> mode],
                Target("b", mode), {"b"} \cup Of(x) \cup Of(y) \cup Target("b", mode),
                Matrix_where(Memory(w), "b", x, y, mode))

Copy(w) ==
    /\ Turn(w, "arrange")
    /\ \/ Call(w, "copy", [x |-> "a"], {}, {"a"}, Matrix_copy(Memory(w), "a"))
       \/ Call(w, "copy", [x |-> "a"], {}, {"a"}, Matrix_reduce_unpickle(Memory(w), "a"))
       \/ view # None /\ Call(w, "from_view", [v |-> view.v], {}, {view.v.base},
                              Matrix_from_view(Memory(w), view.v))

Transpose(w) ==
    /\ Turn(w, "arrange")
    /\ \E in_place \in BOOLEAN :
        /\ in_place => view = None     \* a view keeps the strides of the old shape
        /\ LET mode == IF in_place THEN "in_place" ELSE "fresh"
           IN Call(w, "transpose", [x |-> "a", mode |-> mode], Target("a", mode), {"a"},
                   Matrix_transpose(Memory(w), "a", in_place))

Concat(w) ==
    /\ Turn(w, "arrange")
    /\ \E x, y \in Places \cup Lists, axis \in {-1, 0, 1, 2}, n \in 0..2 :
        LET items == SubSeq(<<x, y>>, 1, n)
        IN /\ \E i \in DOMAIN items : items[i] \in Places \/ n = 0
           /\ n < 2 => y = Mat("a")
           /\ Call(w, "concat", [items |-> items, axis |-> axis], {},
                   UNION {Of(items[i]) : i \in DOMAIN items},
                   Matrix_concat(Memory(w), items, axis))

Repeat(w) ==
    /\ Turn(w, "arrange")
    /\ \E n \in Counts, axis \in Axes :
        Call(w, "repeat", [x |-> "a", n |-> n, axis |-> axis], {}, {"a"},
             Matrix_repeat_interleave(Memory(w), "a", n, axis))

\* NaN is close to everything in the code, whatever equal_nan says; only
\* pairs of NaN that are to be equal are met here.
AllClose(w) ==
    /\ Turn(w, "arrange")
    /\ \E y \in {"b", "c"}, atol \in {0, 1}, equal_nan \in BOOLEAN :
        /\ \A i \in DOMAIN mem["a"].data \cap DOMAIN mem[y].data :
              NaN \in {mem["a"].data[i], mem[y].data[i]} =>
                  equal_nan /\ mem["a"].data[i] = mem[y].data[i]
        /\ Call(w, "allclose", [x |-> "a", y |-> y, atol |-> atol], {}, {"a", y},
                Matrix_allclose(Memory(w), "a", y, 0, atol, equal_nan))

RichCompare(w) ==
    /\ Turn(w, "arrange")
    /\ \E o \in Operands, op \in {"==", "!=", "<", "<=", ">", ">="} :
        Call(w, "compare", [o |-> o, op |-> op], {},
             {"a"} \cup (IF o.kind = "mat" THEN {o.at} ELSE {}),
             Matrix_richcompare(Memory(w), "a", o, op))

Construct(w) ==
    /\ Turn(w, "arrange")
    /\ \/ \E r, c \in 0..2, v \in Numbers, how \in {"zeros", "ones", "full"} :
             Call(w, "construct", [how |-> how, r |-> r, c |-> c, v |-> v], {}, {},
                  CASE how = "zeros" -> Matrix_zeros(Memory(w), r, c)
                    [] how = "ones" -> Matrix_ones(Memory(w), r, c)
                    [] how = "full" -> Matrix_full(Memory(w), r, c, v))
       \/ \E r, c \in 0..2, o \in {None} \cup Nums \cup Lists :
             Call(w, "construct", [how |-> "init", r |-> r, c |-> c, o |-> o], {}, {},
                  Matrix_init(Memory(w), r, c, o))
       \/ \E o \in Lists, column \in BOOLEAN :
             Call(w, "construct", [how |-> "vector", q |-> o.values, column |-> column], {}, {},
                  Matrix_vector(Memory(w), o.values, column))

----------------------------------------------------------------------------
(***************************************************************************)
(* Parts.  range_read brings a negative integer into range twice, so that  *)
(* one below -n-1 may name a line: such keys are left out.                 *)
(***************************************************************************)
WrapsOnce(k, n) == k.kind = "int" => k.i >= -n - 1
Meant(x, k) == IF k.kind = "pair" THEN WrapsOnce(k.rows, mem[x].rows) /\ WrapsOnce(k.cols, mem[x].cols)
               ELSE WrapsOnce(k, mem[x].rows)

Subscript(w) ==
    /\ Turn(w, "touch")
    /\ \E k \in Keys :
        /\ Meant("a", k)
        /\ Call(w, "subscript", [k |-> k], {}, {"a"}, Matrix_subscript(Memory(w), "a", k))

Item(w) ==
    /\ Turn(w, "touch")
    /\ \E i \in -1..3 : Call(w, "item", [i |-> i], {}, {"a"}, Matrix_item(Memory(w), "a", i))

\* The kernels only assert that the value fits the selection, and read the
\* receiver while they write it: a value that does not fit, or shares the
\* receiver's storage, is left out.
Assignable(w, k, o) ==
    \/ o.kind = "num" \/ classify_fancy_key(k).kind # "none"
    \/ LET s == Memory(w)
           r == read_key_ranges(s, "a", k)
           v == Unwrap(s, o, "rhs", FALSE)
       IN /\ "a" \notin Of(o)
          /\ NoCells(r) \/ v.err # "none" \/ Fits(v.s, v.at, r)

Assign(w) ==
    /\ Turn(w, "touch")
    /\ \E k \in Keys, o \in Operands :
        /\ Meant("a", k) /\ Assignable(w, k, o)
        /\ Call(w, "assign", [k |-> k, o |-> o], {"a"}, {"a"} \cup Of(o),
                Matrix_ass_subscript(Memory(w), "a", k, o))

Take(w) ==
    /\ Turn(w, "touch")
    /\ \E q \in IndexLists, axis \in Axes \ {None}, mode \in OutModes :
        \/ Call(w, "take", [q |-> q, axis |-> axis, mode |-> mode],
                Target("a", mode), {"a"} \cup Target("a", mode),
                Matrix_take(Memory(w), "a", q, axis, mode))
        \/ Call(w, "take_along", [q |-> q, axis |-> axis, mode |-> mode],
                Target("a", mode), {"a"} \cup Target("a", mode),
                Matrix_take_along_axis(Memory(w), "a", q, axis, mode))

Put(w) ==
    /\ Turn(w, "touch")
    /\ \E q \in IndexLists, axis \in Axes \ {None}, accumulate \in BOOLEAN,
          o \in Places \cup Nums \cup ViewOperand :
        LET args == [q |-> q, axis |-> axis, o |-> o, accumulate |-> accumulate]
        IN \/ Call(w, "put", args, {"a"}, {"a"} \cup Of(o),
                   Matrix_put(Memory(w), "a", q, o, axis, accumulate))
           \/ Call(w, "put_along", args, {"a"}, {"a"} \cup Of(o),
                   Matrix_put_along_axis(Memory(w), "a", q, o, axis, accumulate))

Components(w) ==
    /\ Turn(w, "touch")
    /\ \E n \in 0..3, how \in {"get", "length", "set"}, v \in Numbers :
        Call(w, "component", [how |-> how, n |-> n, v |-> v],
             IF how = "set" THEN {"a"} ELSE {}, {"a"},
             CASE how = "get" -> Matrix_get_component(Memory(w), "a", n)
               [] how = "length" -> Matrix_get_length(Memory(w), "a")
               [] how = "set" -> Matrix_set_component(Memory(w), "a", n, v))

----------------------------------------------------------------------------
(***************************************************************************)
(* Views and iterators.                                                    *)
(***************************************************************************)
ByLine(base) ==
    [how : {"row", "column"}, base : {base}, i : -2..1, across : LineKeys, ro : BOOLEAN]
ByKey(base) == [how : {"key"}, base : {base}, k : {k \in Keys : Meant(base, k)}]

Make(s, way) ==
    CASE way.how = "row" -> Matrix_row_view(s, way.base, way.i, way.across, way.ro)
      [] way.how = "column" -> Matrix_column_view(s, way.base, way.i, way.across, way.ro)
      [] way.how = "key" -> Matrix_view(s, way.base, way.k)


ViewOf(w) ==
    /\ Turn(w, "touch")
    /\ \E way \in ByLine("a") \cup ByKey("a") : Call(w, "view", way, {}, {"a"}, Make(Memory(w), way))

ViewRead(w) ==
    /\ Turn(w, "touch")
    /\ view # None
    /\ \/ \E k \in Keys :
             Call(w, "view_read", [how |-> "subscript", v |-> view.v, k |-> k], {},
                  {view.v.base}, MatrixView_subscript(Memory(w), view.v, k))
       \/ \E n \in 0..2 :
             Call(w, "view_read", [how |-> "component", v |-> view.v, n |-> n], {},
                  {view.v.base}, view_get_component(Memory(w), view.v, n))
       \/ Call(w, "view_read", [how |-> "T", v |-> view.v], {}, {},
               MatrixView_T(Memory(w), view.v))

ViewWrite(w) ==
    /\ Turn(w, "touch")
    /\ view # None
    /\ \/ \E k \in Keys, o \in Places \cup Nums \cup Lists :
             /\ view.v.base \notin Of(o)
             /\ Call(w, "view_write", [how |-> "subscript", v |-> view.v, k |-> k, o |-> o],
                     {view.v.base}, {view.v.base} \cup Of(o),
                     MatrixView_ass_subscript(Memory(w), view.v, k, o))
       \/ \E n \in 0..2, o \in Nums :
             Call(w, "view_write", [how |-> "component", v |-> view.v, n |-> n, o |-> o],
                  {view.v.base}, {view.v.base},
                  view_set_component(Memory(w), view.v, n, o.value))

ViewUnary(w) ==
    /\ Turn(w, "touch")
    /\ view # None
    /\ \E f \in {"Negate", "Abs"} :
          Call(w, "view_unary", [v |-> view.v, f |-> f], {}, {view.v.base},
               view_unary(Memory(w), f, view.v))

IterNext(w) ==
    /\ Turn(w, "touch")
    /\ iter # None
    /\ Call(w, "next", [it |-> iter], {}, {iter.base}, Iter_next(Memory(w), iter))

----------------------------------------------------------------------------
(***************************************************************************)
(* Preparing steps.  Each is a call that succeeds and that others follow.  *)
(***************************************************************************)
Prepare(o) == /\ budget > 0 /\ o.err = "none"
              /\ budget' = budget - 1
              /\ mem' = [p \in Named |-> o.s.mat[p]]
              /\ UNCHANGED <<scope, last>>

KeepView(w) ==
    /\ Turn(w, "ready")
    /\ \E way \in Ways :
        LET o == Make(Memory(w), way)
        IN /\ view = None /\ Prepare(o)
           /\ view' = [v |-> o.ret, cells |-> ViewMade(Bare(mem[way.base]), way).cells]
           /\ UNCHANGED iter

StartIter(w) ==
    /\ Turn(w, "ready")
    /\ \E it \in {Values("a")} \cup {Lines("a", kind, TRUE) : kind \in {"rows", "columns"}}
              \cup (IF view = None THEN {} ELSE {ViewValues(view.v)}) :
        /\ iter = None /\ Prepare(make_iter(Memory(w), it))
        /\ iter' = it
        /\ UNCHANGED view

StepIter(w) ==
    /\ Turn(w, "ready") /\ iter # None
    /\ LET o == Iter_next(Memory(w), iter)
       IN Prepare(o) /\ o.ret # Stop
    /\ iter' = Advanced(iter)
    /\ UNCHANGED view

Send(w) ==
    /\ Turn(w, "ready") /\ Prepare(_matrix_shared(Memory(w), "a"))
    /\ UNCHANGED <<view, iter>>
Receive(w) ==
    /\ Turn(w, "ready") /\ Prepare(_new_matrix_object(Memory(w), "a"))
    /\ UNCHANGED <<view, iter>>

\* A view made before keeps the offset and stride of the old shape: left out.
TransposeFirst(w) ==
    /\ Turn(w, "ready") /\ view = None
    /\ Prepare(Matrix_transpose(Memory(w), "a", TRUE))
    /\ UNCHANGED <<view, iter>>
SetFirst(w) ==
    /\ Turn(w, "ready")
    /\ \E v \in Numbers : Prepare(Matrix_set_component(Memory(w), "a", 0, v))
    /\ UNCHANGED <<view, iter>>

----------------------------------------------------------------------------
Compute(w) == \/ Binary(w) \/ Matmul(w) \/ Unary(w) \/ Clip(w) \/ FusedAdd(w) \/ ScaledSum(w)
              \/ Normalize(w) \/ Aggregate(w) \/ ArgMinMax(w) \/ Topk(w) \/ Vecdot(w)
              \/ Cross(w) \/ Perpendicular(w) \/ Angle(w) \/ Bin(w) \/ Digitize(w) \/ Where(w)
Arrange(w) == \/ Copy(w) \/ Transpose(w) \/ Concat(w) \/ Repeat(w) \/ AllClose(w)
              \/ RichCompare(w) \/ Construct(w)
Touch(w) == \/ Subscript(w) \/ Item(w) \/ Assign(w) \/ Take(w) \/ Put(w) \/ Components(w)
            \/ ViewOf(w) \/ ViewRead(w) \/ ViewWrite(w) \/ ViewUnary(w) \/ IterNext(w)
Ready(w) == \/ KeepView(w) \/ StartIter(w) \/ StepIter(w) \/ Send(w) \/ Receive(w)
            \/ TransposeFirst(w) \/ SetFirst(w)

Next == \E w \in Interpreters : Compute(w) \/ Arrange(w) \/ Touch(w) \/ Ready(w)
Spec == Init /\ [][Next]_vars

----------------------------------------------------------------------------
Foreign(l) == \E p \in l.uses : l.before[p].owner # l.who

(***************************************************************************)
(* A method that may use its matrices does what its definition, cell by    *)
(* cell, says: the table it returns and where that is, the number, the     *)
(* view and the cells it stands for, or a refusal.  At stake is every      *)
(* place where _math.c computes on storage instead: operands swapped to    *)
(* broadcast, accumulators in the target, targets that are operands,       *)
(* strides and offsets of views, indices brought into range.               *)
(***************************************************************************)
ResultIsReference ==
    last = None \/ Foreign(last) \/ Agrees(last, mem, Promised(last))

(***************************************************************************)
(* A call writes the matrix it was asked to write and no other, and only   *)
(* if it succeeds: indices, operands and the target are judged before the  *)
(* first cell is written (the three phases of scatter_along_axis).         *)
(***************************************************************************)
WritesOnlyItsTarget ==
    last # None => \A p \in Named :
        mem[p] # last.before[p] => last.err = "none" /\ p \in last.may

(***************************************************************************)
(* Whoever does not own one of the matrices a call uses - as receiver,     *)
(* operand, mask, target, base of a view or of an iterator, also one sent  *)
(* away after the view was made - is refused (impl_check_acquired).        *)
(***************************************************************************)
ForeignIsUntouched == last # None /\ Foreign(last) => last.err # "none"
=============================================================================
