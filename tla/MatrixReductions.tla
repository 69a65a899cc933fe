--------------------------- MODULE MatrixReductions ---------------------------
(***************************************************************************)
(* _math.c: the methods of a Matrix that reduce, along no axis (the whole  *)
(* matrix), along 0 (one result for each column) or along 1 (one for each  *)
(* row), and those that take a matrix for a batch of plane or space        *)
(* vectors.                                                                *)
(***************************************************************************)
EXTENDS MatrixMethods

----------------------------------------------------------------------------
(***************************************************************************)
(* The groups that are reduced, and the flat index of a group's members.   *)
(***************************************************************************)
Groups(s, x, axis) == CASE axis = None -> 1
                        [] axis = 0 -> Cols(s, x)
                        [] axis = 1 -> Rows(s, x)
Length(s, x, axis) == Size(s, x) \div Groups(s, x, axis)
Member(s, x, axis, g, i) == CASE axis = None -> i
                              [] axis = 0 -> i * Cols(s, x) + g
                              [] axis = 1 -> g * Cols(s, x) + i
Group(s, x, axis, g) == [i \in 0..Length(s, x, axis) - 1 |->
                            Val(s, x, Member(s, x, axis, g, i))]
GroupMask(s, x, axis, where, g) == [i \in 0..Length(s, x, axis) - 1 |->
                                       Included(s, where, Member(s, x, axis, g, i))]

\* k results for each group, laid out along the axis they were reduced along.
GroupResults(s, x, axis, k, Kernel(_, _)) ==
    Fresh(s, IF axis = 0 THEN k ELSE Groups(s, x, axis),
             IF axis = 0 THEN Groups(s, x, axis) ELSE k, Kernel)

Matrix_aggregate(s, k, x, axis, where) ==
    LET Masked(t, a, g) ==
            AggMasked(k, Length(t, x, a), Group(t, x, a, g), GroupMask(t, x, a, where, g))
        Total == IF where = "all"
                 THEN AggLanes(k, Size(s, x), s.mat[x].data)
                 ELSE Masked(s, None, 0)
        Kernel(a, t, out) ==
            IF where # "all"
            THEN Sweep(t, out, Groups(t, x, a), LAMBDA u, g : Masked(u, a, g))
            ELSE IF a = 0 THEN AggColumnwise(t, k, x, out)
            ELSE AggRowwise(t, k, x, out)
    IN WithAxis(s, axis, LAMBDA a :
         Acquired(s, x, WithMask(s, x, where,
           IF a = None THEN Done(s, Float(Total))
           ELSE GroupResults(s, x, a, 1, LAMBDA t, out : Kernel(a, t, out)))))

\* as_matrix: the indices as doubles in a matrix, or else as a list of integers.
Matrix_argextreme(s, x, axis, where, max, as_matrix) ==
    LET At1(t, a, g) ==
            ArgExtreme(Length(t, x, a), Group(t, x, a, g), GroupMask(t, x, a, where, g), max)
        All(a) == [g \in 1..Groups(s, x, a) |-> At1(s, a, g - 1)]
    IN WithAxis(s, axis, LAMBDA a :
         Acquired(s, x, WithMask(s, x, where,
           IF a = None THEN Done(s, Float(At1(s, a, 0)))
           ELSE IF ~as_matrix THEN Done(s, Ints(All(a)))
           ELSE GroupResults(s, x, a, 1, LAMBDA t, out :
                    Sweep(t, out, Groups(t, x, a), LAMBDA u, g : At1(u, a, g))))))

(***************************************************************************)
(* topk returns two matrices of the same shape; the indices' is told here  *)
(* as the sequence of its groups (the list of lists of the default form).  *)
(***************************************************************************)
WriteGroup(data, w, axis, g, best) ==
    LET Slot(j) == IF axis = 0 THEN j * w + g ELSE g * w + j
    IN FoldLeft(LAMBDA d, j : [d EXCEPT ![Slot(j)] = best[j + 1].value], data, Upto(Len(best)))

Pairs(v, q) == [kind |-> "pairs", at |-> v, values |-> q]
Matrix_topk(s, x, k, axis, largest, where) ==
    LET Best(t, a, g) ==
            TopK(Length(t, x, a), Group(t, x, a, g), GroupMask(t, x, a, where, g), k, largest)
        Kernel(a, t, out) ==
            WithData(t, out,
                FoldLeft(LAMBDA d, g : WriteGroup(d, Cols(t, out), a, g, Best(t, a, g)),
                         t.mat[out].data, Upto(Groups(s, x, a))))
        Indices(a) == [g \in 1..Groups(s, x, a) |->
                          [j \in 1..k |-> Best(s, a, g - 1)[j].index]]
    IN Acquired(s, x,
         IF k < 1 THEN Raise(s, "value")
         ELSE WithAxis(s, axis, LAMBDA a : WithMask(s, x, where,
           IF k > Length(s, x, a) THEN Raise(s, "value")
           ELSE LET o == GroupResults(s, x, a, k, LAMBDA t, out : Kernel(a, t, out))
                IN Done(o.s, Pairs("out", Indices(a))))))

----------------------------------------------------------------------------
(***************************************************************************)
(* vecdot: the operand that is repeated is put second; two vectors of one  *)
(* length may differ in orientation.                                       *)
(***************************************************************************)
Canonical(s, x, y) ==
    LET IsVector(v) == Rows(s, v) = 1 \/ Cols(s, v) = 1
        Pair(m, v, how) == [mat |-> m, vec |-> v, shape |-> how]
    IN IF SameShape(s, x, y) THEN Pair(x, y, "none")
       ELSE IF Rows(s, x) = Rows(s, y) /\ 1 \in {Cols(s, x), Cols(s, y)}
       THEN IF Cols(s, x) = 1 THEN Pair(y, x, "col") ELSE Pair(x, y, "col")
       ELSE IF Cols(s, x) = Cols(s, y) /\ 1 \in {Rows(s, x), Rows(s, y)}
       THEN IF Rows(s, x) = 1 THEN Pair(y, x, "row") ELSE Pair(x, y, "row")
       ELSE IF IsVector(x) /\ IsVector(y) /\ Size(s, x) = Size(s, y) THEN Pair(x, y, "none")
       ELSE Pair(x, y, "incompatible")

Matrix_vecdot(s, x, o, axis) ==
    LET y == Unwrap(s, o, "rhs", FALSE)
        t == y.s
        pair == Canonical(t, x, y.at)
        \* Contiguous walks: cell n of the matrix meets cell n of the vector.
        Dot(u, p, cells) == Products(u, p.mat, p.vec, p.shape, cells)
        Row(u, p, r) == [c \in 1..Cols(u, p.mat) |-> <<r, c - 1>>]
        Column(u, p, c) == [r \in 1..Rows(u, p.mat) |-> <<r - 1, c>>]
        Every(u, p) == [i \in 1..Size(u, p.mat) |->
                           <<(i - 1) \div Cols(u, p.mat), (i - 1) % Cols(u, p.mat)>>]
    IN Acquired(s, x,
         IF y.err # "none" THEN Raise(s, y.err)
         ELSE IF pair.shape = "incompatible" THEN Raise(s, "shape")
         ELSE WithAxis(t, axis, LAMBDA a :
           CASE a = None -> Done(t, Float(Dot(t, pair, Every(t, pair))))
             [] a = 0 -> Fresh(t, 1, Cols(t, pair.mat), LAMBDA u, out :
                           Sweep(u, out, Cols(u, pair.mat),
                                 LAMBDA w, c : Dot(w, pair, Column(w, pair, c))))
             [] a = 1 -> Fresh(t, Rows(t, pair.mat), 1, LAMBDA u, out :
                           Sweep(u, out, Rows(u, pair.mat),
                                 LAMBDA w, r : Dot(w, pair, Row(w, pair, r))))))

----------------------------------------------------------------------------
(***************************************************************************)
(* Batches of vectors: [dim |-> their dimension, axis |-> 1 if they are    *)
(* the rows and 0 if the columns].  dim 0 is a shape that holds none, or   *)
(* an axis that contradicts the only one it can hold.                      *)
(***************************************************************************)
Batch(d, a) == [dim |-> d, axis |-> a]
NoBatch == Batch(0, 0)

classify_cross_axis(m, n, axis) ==
    IF m = n /\ n \in {2, 3} THEN Batch(n, IF axis = 0 THEN 0 ELSE 1)
    ELSE IF m = 3 /\ n = 2 THEN Batch(2, 1)      \* whatever the axis
    ELSE IF m = 2 /\ n = 3 THEN Batch(2, 0)      \* whatever the axis
    ELSE IF n \in {2, 3} THEN IF axis = 0 THEN NoBatch ELSE Batch(n, 1)
    ELSE IF m \in {2, 3} THEN IF axis = 1 THEN NoBatch ELSE Batch(m, 0)
    ELSE NoBatch

classify_vec2_axis(m, n, axis) ==
    IF m = 2 /\ n = 2 THEN Batch(2, IF axis = 0 THEN 0 ELSE 1)
    ELSE IF n = 2 THEN IF axis = 0 THEN NoBatch ELSE Batch(2, 1)
    ELSE IF m = 2 THEN IF axis = 1 THEN NoBatch ELSE Batch(2, 0)
    ELSE NoBatch

\* Where component j of vector v is kept; how many vectors there are.
Component(s, x, b, v, j) == IF b.axis = 1 THEN v * b.dim + j ELSE j * Cols(s, x) + v
Vectors(s, x, b) == Size(s, x) \div b.dim
Single(s, x, b) == Vectors(s, x, b) = 1

\* One number for each vector of the batch, or the number of the only one.
PerVector(s, x, b, of) ==
    IF Single(s, x, b) THEN Done(s, Float(of[0]))
    ELSE Fresh(s, IF b.axis = 1 THEN Vectors(s, x, b) ELSE 1,
                  IF b.axis = 1 THEN 1 ELSE Vectors(s, x, b),
               LAMBDA t, out : Sweep(t, out, Vectors(t, x, b), LAMBDA u, v : of[v]))

Matrix_cross(s, x, o, axis) ==
    LET y == Unwrap(s, o, "rhs", FALSE)
        Cross(a) ==
          LET t == y.s
              b == classify_cross_axis(Rows(s, x), Cols(s, x), a)
              IsVector == Rows(t, y.at) = 1 \/ Cols(t, y.at) = 1
              A(u, v, j) == Val(u, x, Component(u, x, b, v, j))
              B(u, v, j) == IF ~Single(u, x, b) /\ SameShape(u, x, y.at)
                            THEN Val(u, y.at, Component(u, x, b, v, j))
                            ELSE Val(u, y.at, j)
              Minor(u, v, i, j) == Minus(Times(A(u, v, i), B(u, v, j)),
                                         Times(A(u, v, j), B(u, v, i)))
              VectorOf(i) == IF b.axis = 1 THEN i \div 3 ELSE i % Cols(s, x)
              Which(i) == IF b.axis = 1 THEN i % 3 ELSE i \div Cols(s, x)
          IN IF b = NoBatch THEN Raise(s, "shape")
             ELSE IF /\ Size(t, y.at) # b.dim \/ (~Single(s, x, b) /\ ~IsVector)
                     /\ Single(s, x, b) \/ ~SameShape(t, x, y.at)
             THEN Raise(s, "shape")
             ELSE IF b.dim = 2 THEN PerVector(t, x, b, [v \in 0..Vectors(t, x, b) - 1 |-> Minor(t, v, 0, 1)])
             ELSE Fresh(t, Rows(t, x), Cols(t, x), LAMBDA u, out :
                    Sweep(u, out, Size(u, x), LAMBDA w, i :
                      Minor(w, VectorOf(i), (Which(i) + 1) % 3, (Which(i) + 2) % 3)))
    IN Acquired(s, x, WithAxis(s, axis, LAMBDA a :
         IF y.err # "none" THEN Raise(s, y.err) ELSE Cross(a)))

\* Every vector (x, y) becomes (-y, x); in place, through a saved x.
Matrix_perpendicular(s, x, axis, mode) ==
    LET Turn(t, d, b, v) ==
            LET i == Component(t, x, b, v, 0)
                j == Component(t, x, b, v, 1)
                temp == Val(t, x, i)
            IN [d EXCEPT ![i] = Minus(0, Val(t, x, j)), ![j] = temp]
    IN Acquired(s, x, WithAxis(s, axis, LAMBDA a :
         LET b == classify_vec2_axis(Rows(s, x), Cols(s, x), a)
         IN IF b = NoBatch THEN Raise(s, "shape")
            ELSE Into(SetOutput(s, x, mode), LAMBDA t, out :
                   WithData(t, out,
                       FoldLeft(LAMBDA d, v : Turn(WithData(t, out, d), d, b, v),
                                t.mat[out].data, Upto(Vectors(t, x, b)))))))

Matrix_angle(s, x, axis) ==
    Acquired(s, x, WithAxis(s, axis, LAMBDA a :
        LET b == classify_vec2_axis(Rows(s, x), Cols(s, x), a)
            Angle(v) == LET p == Val(s, x, Component(s, x, b, v, 0))
                            q == Val(s, x, Component(s, x, b, v, 1))
                        IN Strict(p, q, Apply("atan2", q, p))
        IN IF b = NoBatch THEN Raise(s, "shape")
           ELSE PerVector(s, x, b, [v \in 0..Vectors(s, x, b) - 1 |-> Angle(v)])))
=============================================================================
