------------------------------ MODULE MCMatrices ------------------------------
EXTENDS Matrices

\* f of x and y, as a number of its own; a root of 0 and a quotient by 1 are known.
MCApply(f, x, y) == CASE f = "over" -> IF y = 1 THEN x ELSE 10000 + (x + 50) * 2000 + y + 100
                      [] f = "atan2" -> 900000 + (x + 50) * 1000 + y + 50
                      [] OTHER -> IF x = 0 THEN 0 ELSE 500 + x
MCHuge == 100000000

\* Distinct values, negative ones and ties.
Pattern == <<3, -1, 2, 3, 0, -2, 5, 1, 4>>
M(r, c, shift, owner) == Matrix(r, c, owner, LAMBDA i : Pattern[((i + shift) % 9) + 1])
WithNaN(m) == [m EXCEPT !.data[0] = NaN]

World(a, b, c, steps, who, menu) ==
    [mat |-> [p \in Named |-> CASE p = "a" -> a [] p = "b" -> b [] p = "c" -> c],
     budget |-> steps, scope |-> [callers |-> who, menu |-> {"ready"} \cup menu]]
\* Three shapes, one interpreter.
All == {"compute", "arrange", "touch"}
Plain(ra, ca, rb, cb, rc, cc) ==
    World(M(ra, ca, 0, 1), M(rb, cb, 3, 1), M(rc, cc, 4, 1), 0, {1}, All)

MCWorlds == {
    Plain(2, 3, 2, 3, 2, 3), Plain(2, 3, 1, 3, 2, 1), Plain(1, 3, 3, 1, 3, 3),
    Plain(2, 2, 2, 2, 1, 1), Plain(1, 1, 2, 2, 2, 2), Plain(3, 2, 2, 3, 1, 2),
    Plain(1, 5, 1, 5, 2, 5), Plain(2, 1, 1, 2, 2, 2), Plain(3, 3, 3, 3, 1, 3),
    Plain(2, 5, 1, 2, 2, 1), Plain(4, 2, 1, 2, 4, 1), Plain(5, 1, 1, 5, 5, 5),
    Plain(3, 4, 3, 4, 3, 4),
    World(M(2, 2, 0, 1), M(2, 2, 3, 2), M(2, 2, 5, 1), 0, {1, 2}, All),
    World(M(2, 1, 0, 1), M(2, 1, 3, 1), M(2, 1, 5, 2), 0, {1, 2}, All),
    World(WithNaN(M(2, 2, 1, 1)), M(2, 2, 4, 1), WithNaN(M(2, 2, 0, 1)), 0, {1}, All),
    World(M(2, 2, 0, 1), M(2, 2, 2, 1), M(2, 1, 3, 2), 1, {1}, All),
    World(M(2, 3, 0, 1), M(3, 2, 2, 2), M(2, 3, 3, 1), 2, {1, 2}, {"touch"}) }

MCWays == {[how |-> "row", base |-> "a", i |-> -1, across |-> None, ro |-> FALSE],
           [how |-> "column", base |-> "a", i |-> 1, across |-> SliceKey(None, None, -1), ro |-> FALSE],
           [how |-> "column", base |-> "b", i |-> 0, across |-> None, ro |-> TRUE],
           [how |-> "key", base |-> "b", k |-> PairKey(IntKey(1), SliceKey(None, None, -1))]}

MCNumbers == {-1, 2}
MCCounts == 0..3
MCAxes == {None, -2, 0, 1, 2}
IntKeys == {IntKey(i) : i \in -3..2}
SliceKeys == {FullSlice, SliceKey(1, None, None), SliceKey(None, None, -1),
              SliceKey(None, -1, None), SliceKey(2, 0, -2), SliceKey(0, 5, 2), SliceKey(1, 1, None)}
ListKeys == {ListKey(q) : q \in {<<1, -1>>, <<0, 0>>, << >>, <<0, 7>>}}
MCKeys == IntKeys \cup SliceKeys \cup ListKeys
          \cup {PairKey(k, h) : k, h \in {IntKey(-1), IntKey(1), IntKey(3), FullSlice,
                                          SliceKey(None, None, -1), SliceKey(1, None, None)}}
          \cup {PairKey(FullSlice, ListKey(<<1, 0>>)), PairKey(ListKey(<<1, 1>>), FullSlice),
                PairKey(IntKey(0), ListKey(<<0>>))}
MCLineKeys == {None, SliceKey(1, None, None), SliceKey(None, None, -1), SliceKey(5, None, None)}
MCIndexLists == {<< >>, <<0>>, <<1, 0>>, <<0, 0>>, <<-1, 1>>, <<0, 1, -1>>, <<0, 7>>, <<0, -3, 0>>}
=============================================================================
