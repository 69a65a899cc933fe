-------------------------- MODULE Scheduler_proofs ---------------------------
(***************************************************************************)
(* Proofs about Scheduler, for any number of workers, any behaviors and    *)
(* any batch size.                                                         *)
(*                                                                         *)
(* A node is in one place: a queue, a private slot or a thief's hand.  The *)
(* invariant says so kind of place by kind of place, and what being there  *)
(* means: a behavior that is somewhere is ready, one that is run is        *)
(* running, and a token that is nowhere may have its flag up.  The flag    *)
(* stays up through the fairness arm, which is why the token it queues is  *)
(* not queued twice.                                                       *)
(***************************************************************************)
EXTENDS Scheduler, FiniteSetTheorems, SequenceTheorems, TLAPS

MeSet == [pc : PCs, node : Nodes \cup {None}, snap : Nat, at : Workers]
DispSet == [pc : {"idle", "pause", "unpause", "cas", "count", "ring", "signal"},
            pe : Nat, ue : Nat, target : Workers, at : 0 .. N]

Queues == [Workers -> Seq(Nodes)]

\* The nodes in the queues q, and that none of them is there twice.
Elems(q) == {n \in Nodes : \E w \in Workers : \E i \in 1 .. Len(q[w]) : q[w][i] = n}

Disjoint(q) ==
    \A v, w \in Workers : \A i \in 1 .. Len(q[v]), j \in 1 .. Len(q[w]) :
        q[v][i] = q[w][j] => v = w /\ i = j

Holds(w) == me[w].pc \in {"token", "return"}
Arming(w) == me[w].pc \in {"arm", "token"}

There(n) == \/ n \in Elems(queue)
            \/ \E w \in Workers : pending[w] = n
            \/ \E w \in Workers : Holds(w) /\ me[w].node = n

SlotOK == /\ \A v, w \in Workers : pending[v] = pending[w] /\ pending[v] # None => v = w
          /\ \A w \in Workers : pending[w] \notin Elems(queue)

HandOK == /\ \A v, w \in Workers : Holds(v) /\ Holds(w) /\ me[v].node = me[w].node
                                     /\ me[v].node # None => v = w
          /\ \A v \in Workers : Holds(v) => me[v].node \notin Elems(queue)
          /\ \A v, w \in Workers : Holds(v) /\ me[v].node # None =>
                                     pending[w] # me[v].node
          /\ \A v \in Workers : me[v].pc = "return" => me[v].node # None

StatusOK == \A t \in Tasks : There(t) <=> status[t] = "ready"

RunOK == /\ \A w \in Workers : me[w].pc = "run" =>
                                 me[w].node \in Tasks /\ status[me[w].node] = "running"
         /\ \A v, w \in Workers : me[v].pc = "run" /\ me[w].pc = "run"
                                    /\ me[v].node = me[w].node => v = w

FlagOK == \A w \in Workers : fair[w] => ~There(w)
ArmOK == \A w \in Workers : Arming(w) => fair[w]

PlacesOK == Disjoint(queue) /\ SlotOK /\ HandOK /\ StatusOK /\ RunOK /\ FlagOK /\ ArmOK

IInv == TypeOK /\ PlacesOK

----------------------------------------------------------------------------
LEMMA Mod == ASSUME NEW a \in Nat PROVE a % N \in Workers
BY SchedulerAssumption DEF Workers

LEMMA Constants ==
    /\ N \in Nat \ {0} /\ Batch \in Nat \ {0} /\ None \notin Nodes
    /\ Workers \subseteq Nat /\ 0 \in Workers /\ Tasks \cap Workers = {}
    /\ Main \notin Workers /\ Nodes = Tasks \cup Workers
BY SchedulerAssumption DEF Workers, Nodes, Main

\* What the three operations on queues do to what is in them.
LEMMA Appending ==
    ASSUME NEW q \in Queues, Disjoint(q), NEW w \in Workers, NEW n \in Nodes,
           n \notin Elems(q)
    PROVE  LET r == [q EXCEPT ![w] = Append(@, n)] IN
             r \in Queues /\ Disjoint(r) /\ Elems(r) = Elems(q) \cup {n}
<1> DEFINE r == [q EXCEPT ![w] = Append(@, n)]
<1>1. r \in Queues /\ r[w] = Append(q[w], n) /\ \A v \in Workers \ {w} : r[v] = q[v]
  BY DEF Queues
<1>2. /\ \A v \in Workers : q[v] \in Seq(Nodes) /\ Len(q[v]) \in Nat
      /\ Len(r[w]) = Len(q[w]) + 1 /\ r[w][Len(q[w]) + 1] = n
      /\ \A i \in 1 .. Len(q[w]) : r[w][i] = q[w][i]
  BY <1>1 DEF Queues
<1>3. \A v \in Workers : \A i \in 1 .. Len(r[v]) :
        \/ i \in 1 .. Len(q[v]) /\ r[v][i] = q[v][i] /\ r[v][i] # n
        \/ v = w /\ i = Len(q[w]) + 1 /\ r[v][i] = n
  <2> TAKE v \in Workers
  <2> TAKE i \in 1 .. Len(r[v])
  <2>1. i \in 1 .. Len(q[v]) => q[v][i] # n
    BY DEF Elems
  <2>2. i \in 1 .. Len(q[v]) \/ (v = w /\ i = Len(q[w]) + 1)
    BY <1>1, <1>2
  <2> QED BY <1>1, <1>2, <2>1, <2>2
<1>4. Disjoint(r)
  BY <1>3 DEF Disjoint
<1>5. Elems(r) = Elems(q) \cup {n}
  <2>1. Elems(r) \subseteq Elems(q) \cup {n}
    BY <1>3 DEF Elems
  <2>2. n \in Elems(r)
    BY <1>2 DEF Elems
  <2>3. Elems(q) \subseteq Elems(r)
    <3> SUFFICES ASSUME NEW m \in Elems(q) PROVE m \in Elems(r)
      OBVIOUS
    <3>v. PICK v \in Workers : \E i \in 1 .. Len(q[v]) : q[v][i] = m
      BY DEF Elems
    <3>1. PICK i \in 1 .. Len(q[v]) : q[v][i] = m
      BY <3>v
    <3>2. i \in 1 .. Len(r[v]) /\ r[v][i] = m
      BY <1>1, <1>2, <3>1
    <3> QED BY <3>2 DEF Elems
  <2> QED BY <2>1, <2>2, <2>3
<1> QED BY <1>1, <1>4, <1>5

LEMMA Popping ==
    ASSUME NEW q \in Queues, Disjoint(q), NEW w \in Workers, q[w] # <<>>
    PROVE  LET r == [q EXCEPT ![w] = Tail(@)]
               n == Head(q[w]) IN
             r \in Queues /\ Disjoint(r) /\ n \in Elems(q) /\ Elems(r) = Elems(q) \ {n}
<1> DEFINE r == [q EXCEPT ![w] = Tail(@)]
           n == Head(q[w])
<1>1. r \in Queues /\ r[w] = Tail(q[w]) /\ \A v \in Workers \ {w} : r[v] = q[v]
  BY DEF Queues
<1>2. /\ \A v \in Workers : q[v] \in Seq(Nodes) /\ Len(q[v]) \in Nat
      /\ Len(q[w]) > 0 /\ Len(r[w]) = Len(q[w]) - 1 /\ n = q[w][1]
      /\ \A i \in 1 .. Len(r[w]) : r[w][i] = q[w][i + 1]
  BY <1>1 DEF Queues
<1>3. n \in Elems(q)
  BY <1>2 DEF Elems
<1>4. \A v \in Workers : \A i \in 1 .. Len(r[v]) :
        IF v = w THEN i + 1 \in 1 .. Len(q[v]) /\ r[v][i] = q[v][i + 1]
                 ELSE i \in 1 .. Len(q[v]) /\ r[v][i] = q[v][i]
  BY <1>1, <1>2
<1>5. Disjoint(r)
  <2> SUFFICES ASSUME NEW v \in Workers, NEW x \in Workers,
                      NEW i \in 1 .. Len(r[v]), NEW j \in 1 .. Len(r[x]),
                      r[v][i] = r[x][j]
               PROVE  v = x /\ i = j
    BY DEF Disjoint
  <2> QED BY <1>4, <1>2 DEF Disjoint
<1>6. Elems(r) = Elems(q) \ {n}
  <2>1. ASSUME NEW m \in Elems(r) PROVE m \in Elems(q) /\ m # n
    <3>v. PICK v \in Workers : \E i \in 1 .. Len(r[v]) : r[v][i] = m
      BY <2>1 DEF Elems
    <3>1. PICK i \in 1 .. Len(r[v]) : r[v][i] = m
      BY <3>v
    <3>2. PICK j \in 1 .. Len(q[v]) : q[v][j] = m /\ (v = w => j # 1)
      BY <1>4, <3>1
    <3>3. m \in Nodes /\ 1 \in 1 .. Len(q[w]) /\ q[w][1] = n
      BY <1>2, <2>1 DEF Elems
    <3>4. m # n
      BY <3>2, <3>3 DEF Disjoint
    <3> QED BY <3>2, <3>3, <3>4 DEF Elems
  <2>2. ASSUME NEW m \in Elems(q), m # n PROVE m \in Elems(r)
    <3>v. PICK v \in Workers : \E i \in 1 .. Len(q[v]) : q[v][i] = m
      BY <2>2 DEF Elems
    <3>1. PICK i \in 1 .. Len(q[v]) : q[v][i] = m
      BY <3>v
    <3>2. CASE v = w
      <4>1. i # 1 /\ i - 1 \in 1 .. Len(r[w]) /\ r[w][i - 1] = m
        BY <1>2, <2>2, <3>1, <3>2
      <4> QED BY <2>2, <4>1 DEF Elems
    <3>3. CASE v # w
      <4>1. i \in 1 .. Len(r[v]) /\ r[v][i] = m
        BY <1>1, <3>1, <3>3
      <4> QED BY <2>2, <4>1 DEF Elems
    <3> QED BY <3>2, <3>3
  <2> QED BY <2>1, <2>2
<1> QED BY <1>1, <1>3, <1>5, <1>6

LEMMA SamePlace ==
    ASSUME NEW q, Disjoint(q), NEW a \in Workers, NEW b \in Workers,
           NEW l \in 1 .. Len(q[a]), NEW m \in 1 .. Len(q[b]), q[a][l] = q[b][m]
    PROVE  a = b /\ l = m
BY DEF Disjoint

\* The head of queue v is gone and the rest of it is behind queue w.
Moved(q, r, v, w) ==
    /\ Len(r[v]) = 0 /\ Len(r[w]) = Len(q[w]) + Len(q[v]) - 1
    /\ \A i \in 1 .. Len(q[w]) : r[w][i] = q[w][i]
    /\ \A i \in 2 .. Len(q[v]) : r[w][Len(q[w]) + i - 1] = q[v][i]
    /\ \A x \in Workers \ {v, w} : r[x] = q[x]

LEMMA Moving ==
    ASSUME NEW q \in Queues, Disjoint(q), NEW w \in Workers, NEW v \in Workers,
           v # w, NEW r \in Queues, Len(q[v]) > 0, Moved(q, r, v, w)
    PROVE  /\ Disjoint(r) /\ q[v][1] \in Elems(q) /\ Elems(r) = Elems(q) \ {q[v][1]}
<1> DEFINE n == q[v][1]
<1>0. PICK k : k = Len(q[w])
  OBVIOUS
<1>1. \A x \in Workers : /\ q[x] \in Seq(Nodes) /\ Len(q[x]) \in Nat
                         /\ r[x] \in Seq(Nodes) /\ Len(r[x]) \in Nat
  BY DEF Queues
<1>2. n \in Elems(q)
  BY <1>1 DEF Elems
<1>3. /\ k \in Nat /\ Len(r[v]) = 0 /\ Len(r[w]) = k + Len(q[v]) - 1
      /\ Len(q[v]) \in Nat
  BY <1>0, <1>1 DEF Moved
<1>m. /\ \A i \in 1 .. k : r[w][i] = q[w][i]
      /\ \A i \in 2 .. Len(q[v]) : r[w][k + i - 1] = q[v][i]
      /\ \A x \in Workers \ {v, w} : r[x] = q[x]
  BY <1>0 DEF Moved
<1>4. \A x \in Workers : \A i \in 1 .. Len(r[x]) :
        \/ i \in 1 .. Len(q[x]) /\ r[x][i] = q[x][i] /\ x # v
        \/ /\ x = w /\ i > k /\ i - k + 1 \in 2 .. Len(q[v])
           /\ r[x][i] = q[v][i - k + 1]
  <2>1. ASSUME NEW i \in 1 .. Len(r[w]), i > k
        PROVE  i - k + 1 \in 2 .. Len(q[v]) /\ r[w][i] = q[v][i - k + 1]
    <3>1. i - k + 1 \in 2 .. Len(q[v]) /\ k + (i - k + 1) - 1 = i
      BY <1>3, <2>1
    <3> QED BY <1>m, <3>1
  <2>2. ASSUME NEW i \in 1 .. Len(r[w]), ~(i > k)
        PROVE  i \in 1 .. Len(q[w]) /\ r[w][i] = q[w][i]
    <3>1. i \in 1 .. k
      BY <1>3, <2>2
    <3> QED BY <1>0, <1>m, <3>1
  <2>3. ASSUME NEW i \in 1 .. Len(r[v]) PROVE FALSE
    BY <1>3, <2>3
  <2> SUFFICES ASSUME NEW x \in Workers, NEW i \in 1 .. Len(r[x])
               PROVE \/ i \in 1 .. Len(q[x]) /\ r[x][i] = q[x][i] /\ x # v
                     \/ /\ x = w /\ i > k /\ i - k + 1 \in 2 .. Len(q[v])
                        /\ r[x][i] = q[v][i - k + 1]
    OBVIOUS
  <2>4. CASE x = w
    BY <2>1, <2>2, <2>4
  <2>5. CASE x = v
    BY <2>3, <2>5
  <2>6. CASE x \notin {v, w}
    BY <1>m, <2>6
  <2> QED BY <2>4, <2>5, <2>6
<1>5. Disjoint(r)
  <2> SUFFICES ASSUME NEW x \in Workers, NEW y \in Workers,
                      NEW i \in 1 .. Len(r[x]), NEW j \in 1 .. Len(r[y]),
                      r[x][i] = r[y][j]
               PROVE  x = y /\ i = j
    BY DEF Disjoint
  <2>1. \A l \in 2 .. Len(q[v]) : l \in 1 .. Len(q[v])
    BY <1>1
  <2>3. CASE x # v /\ i \in 1 .. Len(q[x]) /\ r[x][i] = q[x][i]
    <3>1. CASE j \in 1 .. Len(q[y]) /\ r[y][j] = q[y][j]
      <4>1. q[x][i] = q[y][j]
        BY <2>3, <3>1
      <4> QED BY <2>3, <3>1, <4>1, SamePlace
    <3>2. CASE /\ y = w /\ j > k /\ j - k + 1 \in 2 .. Len(q[v])
               /\ r[y][j] = q[v][j - k + 1]
      <4>1. q[x][i] = q[v][j - k + 1] /\ j - k + 1 \in 1 .. Len(q[v])
        BY <2>1, <2>3, <3>2
      <4> QED BY <2>3, <4>1, SamePlace
    <3> QED BY <1>4, <3>1, <3>2
  <2>4. CASE x = w /\ i > k /\ i - k + 1 \in 2 .. Len(q[v])
             /\ r[x][i] = q[v][i - k + 1]
    <3>0. i - k + 1 \in 1 .. Len(q[v])
      BY <2>1, <2>4
    <3>1. CASE j \in 1 .. Len(q[y]) /\ r[y][j] = q[y][j] /\ y # v
      <4>1. q[y][j] = q[v][i - k + 1]
        BY <2>4, <3>1
      <4> QED BY <3>0, <3>1, <4>1, SamePlace
    <3>2. CASE /\ y = w /\ j > k /\ j - k + 1 \in 2 .. Len(q[v])
               /\ r[y][j] = q[v][j - k + 1]
      <4>1. q[v][i - k + 1] = q[v][j - k + 1] /\ j - k + 1 \in 1 .. Len(q[v])
        BY <2>1, <2>4, <3>2
      <4>2. i - k + 1 = j - k + 1
        BY <3>0, <4>1, SamePlace
      <4>3. i \in Int /\ j \in Int
        OBVIOUS
      <4> QED BY <1>3, <2>4, <3>2, <4>2, <4>3
    <3> QED BY <1>4, <3>1, <3>2
  <2> QED BY <1>4, <2>3, <2>4
<1>6. Elems(r) = Elems(q) \ {n}
  <2>1. ASSUME NEW m \in Elems(r) PROVE m \in Elems(q) /\ m # n
    <3>x. PICK x \in Workers : \E i \in 1 .. Len(r[x]) : r[x][i] = m
      BY <2>1 DEF Elems
    <3>1. PICK i \in 1 .. Len(r[x]) : r[x][i] = m
      BY <3>x
    <3>2. \E y \in Workers : \E j \in 1 .. Len(q[y]) : q[y][j] = m /\ (y = v => j # 1)
      <4>1. CASE i \in 1 .. Len(q[x]) /\ r[x][i] = q[x][i] /\ x # v
        BY <3>1, <4>1
      <4>2. CASE i - k + 1 \in 2 .. Len(q[v]) /\ r[x][i] = q[v][i - k + 1]
        <5>1. i - k + 1 \in 1 .. Len(q[v]) /\ i - k + 1 # 1
          BY <1>1, <4>2
        <5> QED BY <3>1, <4>2, <5>1
      <4> QED BY <1>4, <4>1, <4>2
    <3>y. PICK y \in Workers : \E j \in 1 .. Len(q[y]) : q[y][j] = m /\ (y = v => j # 1)
      BY <3>2
    <3>3. PICK j \in 1 .. Len(q[y]) : q[y][j] = m /\ (y = v => j # 1)
      BY <3>y
    <3>4. m \in Nodes /\ 1 \in 1 .. Len(q[v])
      BY <1>1, <2>1 DEF Elems
    <3>5. m # n
      BY <3>3, <3>4 DEF Disjoint
    <3> QED BY <3>3, <3>4, <3>5 DEF Elems
  <2>2. ASSUME NEW m \in Elems(q), m # n PROVE m \in Elems(r)
    <3>x. PICK x \in Workers : \E i \in 1 .. Len(q[x]) : q[x][i] = m
      BY <2>2 DEF Elems
    <3>1. PICK i \in 1 .. Len(q[x]) : q[x][i] = m
      BY <3>x
    <3>2. CASE x = v
      <4>1. i \in 2 .. Len(q[v])
        BY <1>1, <2>2, <3>1, <3>2
      <4>2. k + i - 1 \in 1 .. Len(r[w])
        BY <1>1, <1>3, <4>1
      <4>3. r[w][k + i - 1] = m
        BY <1>m, <3>1, <3>2, <4>1
      <4> QED BY <2>2, <4>2, <4>3 DEF Elems
    <3>3. CASE x = w
      <4>1. i \in 1 .. k
        BY <1>0, <3>3
      <4>2. r[w][i] = m
        BY <1>m, <3>1, <3>3, <4>1
      <4>3. i \in 1 .. Len(r[w])
        BY <1>3, <4>1
      <4> QED BY <2>2, <4>2, <4>3 DEF Elems
    <3>4. CASE x \notin {v, w}
      <4>1. i \in 1 .. Len(r[x]) /\ r[x][i] = m
        BY <1>m, <3>1, <3>4
      <4> QED BY <2>2, <4>1 DEF Elems
    <3> QED BY <3>2, <3>3, <3>4
  <2> QED BY <2>1, <2>2
<1> QED BY <1>2, <1>5, <1>6

LEMMA Looting ==
    ASSUME NEW q \in Queues, Disjoint(q), NEW w \in Workers, NEW v \in Workers,
           v # w, q[v] # <<>>
    PROVE  LET r == [q EXCEPT ![v] = <<>>, ![w] = @ \o Tail(q[v])]
               n == Head(q[v]) IN
             r \in Queues /\ Disjoint(r) /\ n \in Elems(q) /\ Elems(r) = Elems(q) \ {n}
<1>1. /\ q[w] \in Seq(Nodes) /\ q[v] \in Seq(Nodes) /\ Len(q[v]) > 0
      /\ Len(q[w]) \in Nat /\ Len(q[v]) \in Nat /\ Head(q[v]) = q[v][1]
  BY DEF Queues
<1>2. PICK s : s = Tail(q[v])
  OBVIOUS
<1>3. /\ s \in Seq(Nodes) /\ Len(s) = Len(q[v]) - 1 /\ Len(s) \in Nat
      /\ \A i \in 1 .. Len(s) : s[i] = q[v][i + 1]
  BY <1>1, <1>2, HeadTailProperties
<1>l. PICK a, b, c \in Nat : a = Len(q[w]) /\ b = Len(q[v]) /\ c = Len(s) /\ c = b - 1
  BY <1>1, <1>3
<1>4. PICK u : u = q[w] \o s
  OBVIOUS
<1>5. /\ u \in Seq(Nodes) /\ Len(u) = Len(q[w]) + Len(s)
      /\ \A i \in 1 .. Len(q[w]) + Len(s) :
           u[i] = IF i <= Len(q[w]) THEN q[w][i] ELSE s[i - Len(q[w])]
  BY <1>1, <1>3, <1>4, ConcatProperties
<1>6. PICK r : r = [q EXCEPT ![v] = <<>>, ![w] = @ \o Tail(q[v])]
  OBVIOUS
<1>7. r = [q EXCEPT ![v] = <<>>, ![w] = u]
  BY <1>2, <1>4, <1>6
<1>8. /\ r \in Queues /\ r[v] = <<>> /\ r[w] = u
      /\ \A x \in Workers \ {v, w} : r[x] = q[x]
  <2>1. PICK z : z = [q EXCEPT ![v] = <<>>]
    OBVIOUS
  <2>2. z \in [Workers -> Seq(Nodes)] /\ r = [z EXCEPT ![w] = u]
    BY <1>7, <2>1 DEF Queues
  <2>3. u \in Seq(Nodes)
    BY <1>5
  <2> QED BY <2>1, <2>2, <2>3 DEF Queues
<1>9. \A i \in 2 .. Len(q[v]) : r[w][Len(q[w]) + i - 1] = q[v][i]
  <2> TAKE i \in 2 .. Len(q[v])
  <2>0. i \in 2 .. b
    BY <1>l
  <2>4. i \in Int /\ 2 <= i /\ i <= b /\ c = b - 1 /\ a \in Nat /\ b \in Nat
    BY <1>l, <2>0
  <2>5. i - 1 \in 1 .. c /\ a + i - 1 \in 1 .. a + c
    BY <2>4
  <2>6. ~(a + i - 1 <= a) /\ a + i - 1 - a = i - 1 /\ (i - 1) + 1 = i
    BY <2>4
  <2>1. \A m \in 1 .. a + c : u[m] = IF m <= a THEN q[w][m] ELSE s[m - a]
    BY <1>5, <1>l
  <2>2. u[a + i - 1] = s[i - 1]
    BY <2>1, <2>5, <2>6
  <2>3. \A m \in 1 .. c : s[m] = q[v][m + 1]
    BY <1>3, <1>l
  <2>7. s[i - 1] = q[v][i]
    BY <2>3, <2>5, <2>6
  <2> QED BY <1>8, <1>l, <2>2, <2>7
<1>a. \A i \in 1 .. Len(q[w]) : r[w][i] = q[w][i]
  <2> TAKE i \in 1 .. Len(q[w])
  <2>0. i \in 1 .. a
    BY <1>l
  <2>2. i \in 1 .. a + c /\ i <= a
    BY <2>0
  <2>1. i \in 1 .. Len(q[w]) + Len(s) /\ i <= Len(q[w])
    BY <1>l, <2>2
  <2> QED BY <1>5, <1>8, <2>1
<1>b. Len(r[v]) = 0 /\ Len(r[w]) = Len(q[w]) + Len(q[v]) - 1
  BY <1>1, <1>3, <1>5, <1>8
<1>d. Moved(q, r, v, w)
  BY <1>8, <1>9, <1>a, <1>b DEF Moved
<1>c. Disjoint(r) /\ q[v][1] \in Elems(q) /\ Elems(r) = Elems(q) \ {q[v][1]}
  BY <1>1, <1>8, <1>d, Moving
<1> QED BY <1>1, <1>6, <1>8, <1>c

----------------------------------------------------------------------------
(***************************************************************************)
(* Types.                                                                  *)
(***************************************************************************)
LEMMA Fields ==
    /\ \A p \in PCs : At(p) \in MeSet /\ At(p).pc = p /\ At(p).node = None
    /\ \A p \in PCs, n \in Nodes \cup {None} :
         LET r == [At(p) EXCEPT !.node = n] IN
           r \in MeSet /\ r.pc = p /\ r.node = n
    /\ \A s \in Nat : [At("pause") EXCEPT !.snap = s] \in MeSet
    /\ Idle \in DispSet
    /\ \A v \in Workers : [Idle EXCEPT !.pc = "pause", !.target = v] \in DispSet
<1>0. 0 \in Nat /\ 0 \in Workers /\ 0 \in 0 .. N /\ None \in Nodes \cup {None}
  BY Constants
<1>1. \A p \in PCs : At(p) \in MeSet /\ At(p).pc = p /\ At(p).node = None
  BY <1>0 DEF At, MeSet
<1>2. \A p \in PCs, n \in Nodes \cup {None} :
        LET r == [At(p) EXCEPT !.node = n] IN r \in MeSet /\ r.pc = p /\ r.node = n
  BY <1>0 DEF At, MeSet
<1>3. \A s \in Nat : [At("pause") EXCEPT !.snap = s] \in MeSet
  BY <1>0 DEF At, MeSet, PCs
<1>4. Idle \in DispSet
  BY <1>0 DEF Idle, DispSet
<1>5. \A v \in Workers : [Idle EXCEPT !.pc = "pause", !.target = v] \in DispSet
  <2> TAKE v \in Workers
  <2>1. PICK z : z = [Idle EXCEPT !.pc = "pause"]
    OBVIOUS
  <2>2. z \in DispSet
    BY <1>4, <2>1 DEF DispSet
  <2>3. [Idle EXCEPT !.pc = "pause", !.target = v] = [z EXCEPT !.target = v]
    BY <2>1
  <2> QED BY <2>2, <2>3 DEF DispSet
<1> QED BY <1>1, <1>2, <1>3, <1>4, <1>5

LEMMA TypeInit == Init => TypeOK
<1> SUFFICES ASSUME Init PROVE TypeOK
  OBVIOUS
<1>1. At("fast") \in MeSet
  BY Fields DEF PCs
<1>2. queue \in [Workers -> Seq(Nodes)]
  BY DEF Init
<1>3. batch \in [Workers -> 0 .. Batch]
  BY Constants DEF Init
<1>4. me \in [Workers -> MeSet] /\ disp \in [Threads -> DispSet]
  BY <1>1, Fields DEF Init
<1>5. rr \in Workers /\ stopper \in 0 .. 2 * N /\ pauseEpoch \in Nat /\ unpauseEpoch \in Nat
  BY Constants DEF Init
<1>6. /\ pending \in [Workers -> Tasks \cup {None}]
      /\ fair \in [Workers -> BOOLEAN] /\ stop \in [Workers -> BOOLEAN]
      /\ status \in [Tasks -> {"new", "ready", "running", "done"}]
  BY DEF Init
<1> QED BY <1>2, <1>3, <1>4, <1>5, <1>6 DEF TypeOK, MeSet, DispSet

LEMMA TakeTyped ==
    ASSUME TypeOK, NEW w \in Workers, NEW n \in Nodes, Take(w, n)
    PROVE  /\ me' \in [Workers -> MeSet]
           /\ fair' \in [Workers -> BOOLEAN]
           /\ status' \in [Tasks -> {"new", "ready", "running", "done"}]
<1>1. me \in [Workers -> MeSet]
  BY DEF TypeOK, MeSet
<1>2. "run" \in PCs /\ "fast" \in PCs
  BY DEF PCs
<1>3. At("fast") \in MeSet /\ [At("run") EXCEPT !.node = n] \in MeSet
  BY <1>2, Fields
<1>4. CASE n \in Tasks
  <2>1. me' = [me EXCEPT ![w] = [At("run") EXCEPT !.node = n]]
    BY <1>4 DEF Take
  <2>2. me' \in [Workers -> MeSet]
    BY <1>1, <1>3, <2>1
  <2> QED BY <1>4, <2>2 DEF Take, Status, TypeOK
<1>5. CASE n \notin Tasks
  <2>1. me' = [me EXCEPT ![w] = At("fast")]
    BY <1>5 DEF Take, Goto
  <2>2. me' \in [Workers -> MeSet]
    BY <1>1, <1>3, <2>1
  <2> QED BY <1>5, <2>2 DEF Take, TypeOK
<1> QED BY <1>4, <1>5

LEMMA GotoTyped ==
    ASSUME TypeOK, NEW w \in Workers, NEW p \in PCs, Goto(w, p)
    PROVE  me' \in [Workers -> MeSet]
<1>1. me \in [Workers -> MeSet] /\ At(p) \in MeSet
  BY Fields DEF TypeOK, MeSet
<1> QED BY <1>1 DEF Goto

LEMMA SignalTyped ==
    ASSUME TypeOK, NEW v \in Workers, Signal(v)
    PROVE  me' \in [Workers -> MeSet]
<1>1. me \in [Workers -> MeSet]
  BY DEF TypeOK, MeSet
<1>2. CASE me' = [me EXCEPT ![v].pc = "signalled"]
  BY <1>1, <1>2 DEF MeSet, PCs
<1> QED BY <1>1, <1>2 DEF Signal

TypeMe == me \in [Workers -> MeSet]
TypeQueue == queue \in Queues
TypeRest == /\ pending \in [Workers -> Tasks \cup {None}]
            /\ batch \in [Workers -> 0 .. Batch]
            /\ fair \in [Workers -> BOOLEAN] /\ stop \in [Workers -> BOOLEAN]
            /\ pauseEpoch \in Nat /\ unpauseEpoch \in Nat
            /\ rr \in Workers /\ stopper \in 0 .. 2 * N
            /\ status \in [Tasks -> {"new", "ready", "running", "done"}]
TypeDisp == disp \in [Threads -> DispSet]

LEMMA TypeParts == TypeOK <=> TypeMe /\ TypeQueue /\ TypeRest /\ TypeDisp
BY DEF TypeOK, TypeMe, TypeQueue, TypeRest, TypeDisp, MeSet, DispSet, Queues

LEMMA TypePartsNext == TypeMe' /\ TypeQueue' /\ TypeRest' /\ TypeDisp' => TypeOK'
BY DEF TypeOK, TypeMe, TypeQueue, TypeRest, TypeDisp, MeSet, DispSet, Queues

LEMMA Names == \A p \in {"fast", "slow", "arm", "token", "return", "own", "steal",
                         "snap", "pause", "scan", "lock", "park", "asleep",
                         "signalled", "run", "exited"} : p \in PCs
BY DEF PCs

LEMMA HeadTyped ==
    ASSUME TypeOK, NEW w \in Workers, queue[w] # <<>>
    PROVE  Head(queue[w]) \in Nodes /\ [queue EXCEPT ![w] = Tail(@)] \in Queues
BY DEF TypeOK, Queues

LEMMA EnqueuedTyped ==
    ASSUME TypeOK, NEW w \in Workers, NEW n \in Nodes
    PROVE  Enqueued(w, n) \in Queues
BY DEF TypeOK, Queues, Enqueued

LEMMA TypeWorker ==
    ASSUME TypeOK, NEW w \in Workers, Worker(w)
    PROVE  TypeOK'
<1> USE TypeParts, TypePartsNext
<1>t. TypeMe /\ TypeQueue /\ TypeRest /\ TypeDisp
  OBVIOUS
<1>g. \A p \in PCs : Goto(w, p) => TypeMe'
  BY GotoTyped DEF TypeMe
<1>k. \A n \in Nodes : Take(w, n) => TypeMe' /\ (TypeRest /\ UNCHANGED <<stop, epochs, rr, stopper>>
        /\ pending' \in [Workers -> Tasks \cup {None}]
        /\ batch' \in [Workers -> 0 .. Batch] => TypeRest')
  BY TakeTyped DEF TypeMe, TypeRest, epochs
<1>u. ASSUME UNCHANGED <<work, others>>, TypeMe' PROVE TypeOK'
  BY <1>t, <1>u DEF work, others, epochs, TypeQueue, TypeRest, TypeDisp
<1>p. ASSUME NEW k \in 0 .. Batch, PopPending(w, k), UNCHANGED others
      PROVE  TypeOK'
  <2>1. pending[w] \in Nodes
    BY <1>t, <1>p, Constants DEF PopPending, TypeRest
  <2>2. /\ pending' \in [Workers -> Tasks \cup {None}]
        /\ batch' \in [Workers -> 0 .. Batch]
    BY <1>t, <1>p DEF PopPending, TypeRest
  <2> QED BY <1>k, <1>p, <1>t, <2>1, <2>2
           DEF PopPending, others, epochs, TypeQueue, TypeDisp
<1>q. ASSUME NEW k \in 0 .. Batch, PopQueue(w, k), UNCHANGED others
      PROVE  TypeOK'
  <2>1. Head(queue[w]) \in Nodes /\ queue' \in Queues
    BY <1>q, HeadTyped DEF PopQueue
  <2>2. /\ pending' \in [Workers -> Tasks \cup {None}]
        /\ batch' \in [Workers -> 0 .. Batch]
    BY <1>t, <1>q DEF PopQueue, TypeRest
  <2> QED BY <1>k, <1>q, <1>t, <2>1, <2>2
           DEF PopQueue, others, epochs, TypeQueue, TypeDisp
<1>b. Batch \in 0 .. Batch /\ (IF batch[w] > 0 THEN batch[w] - 1 ELSE Batch) \in 0 .. Batch
  BY <1>t, Constants DEF TypeRest
<1>1. ASSUME PopFast(w) PROVE TypeOK'
  <2>1. Goto(w, "slow") => TypeMe'
    BY <1>g, Names
  <2>2. UNCHANGED others
    BY <1>1 DEF PopFast
  <2>3. CASE PopPending(w, IF batch[w] > 0 THEN batch[w] - 1 ELSE Batch)
    BY <1>b, <1>p, <2>2, <2>3
  <2>4. CASE PopQueue(w, Batch)
    BY <1>b, <1>q, <2>2, <2>4
  <2>5. CASE Goto(w, "slow") /\ UNCHANGED work
    BY <1>u, <2>1, <2>2, <2>5
  <2> QED BY <1>1, <2>3, <2>4, <2>5 DEF PopFast
<1>2. ASSUME Slow(w) PROVE TypeOK'
  <2>1. TypeMe'
    BY <1>2, <1>g, Names DEF Slow
  <2> QED BY <1>2, <1>u, <2>1 DEF Slow
<1>3. ASSUME ArmToken(w) PROVE TypeOK'
  <2>1. TypeMe'
    <3>1. CASE me[w].node = None
      BY <1>3, <1>g, <3>1, Names DEF ArmToken
    <3>2. CASE me[w].node # None
      BY <1>3, <1>t, <3>2, Names DEF ArmToken, TypeMe, MeSet
    <3> QED BY <3>1, <3>2
  <2>2. queue' \in Queues
    <3>1. Token(w) \in Nodes
      BY Constants DEF Token
    <3> QED BY <1>3, <3>1, EnqueuedTyped DEF ArmToken
  <2>3. fair' \in [Workers -> BOOLEAN]
    BY <1>3, <1>t DEF ArmToken, FlagServed, TypeRest
  <2> QED BY <1>3, <1>t, <2>1, <2>2, <2>3
           DEF ArmToken, others, epochs, TypeQueue, TypeRest, TypeDisp
<1>4. ASSUME ArmReturn(w) PROVE TypeOK'
  <2>1. me[w].node \in Nodes \cup {None}
    BY <1>t DEF TypeMe, MeSet
  <2>2. CASE me[w].node \in Nodes
    <3>1. /\ pending' \in [Workers -> Tasks \cup {None}]
          /\ batch' \in [Workers -> 0 .. Batch]
      BY <1>4, <1>t DEF ArmReturn, TypeRest
    <3> QED BY <1>4, <1>k, <1>t, <2>2, <3>1
             DEF ArmReturn, others, epochs, TypeQueue, TypeDisp
  <2>3. CASE me[w].node = None
    <3>1. me[w].node \notin Tasks /\ me[w].node \notin Workers
      BY <2>3, Constants
    <3>2. Goto(w, "fast") /\ fair' \in [Workers -> BOOLEAN] /\ status' = status
      BY <1>4, <1>t, <3>1 DEF ArmReturn, Take, TypeRest
    <3>3. TypeMe'
      BY <1>g, <3>2, Names
    <3> QED BY <1>4, <1>t, <3>2, <3>3
             DEF ArmReturn, others, epochs, TypeQueue, TypeRest, TypeDisp
  <2> QED BY <2>1, <2>2, <2>3
<1>5. ASSUME Own(w) PROVE TypeOK'
  <2>1. Goto(w, "steal") => TypeMe'
    BY <1>g, Names
  <2> QED BY <1>5, <1>b, <1>p, <1>q, <1>u, <2>1 DEF Own
<1>6. ASSUME StealGets(w) PROVE TypeOK'
  <2> DEFINE v == Victim(w)
  <2>1. v \in Workers /\ queue[v] # <<>>
    <3>1. w + me[w].at \in Nat
      BY <1>t, Constants DEF TypeMe, MeSet
    <3> QED BY <1>6, <3>1, Mod DEF StealGets, Victim
  <2>2. Head(queue[v]) \in Nodes
    BY <2>1, HeadTyped
  <2>3. queue' \in Queues
    <3>1. CASE v = w
      BY <1>6, <2>1, <3>1, HeadTyped DEF StealGets
    <3>2. CASE v # w
      <4>1. queue[v] \in Seq(Nodes) /\ queue[w] \in Seq(Nodes) /\ <<>> \in Seq(Nodes)
        BY <1>t, <2>1 DEF TypeQueue, Queues
      <4>2. Tail(queue[v]) \in Seq(Nodes)
        BY <2>1, <4>1, HeadTailProperties
      <4>3. queue[w] \o Tail(queue[v]) \in Seq(Nodes)
        BY <4>1, <4>2, ConcatProperties
      <4>4. PICK z : z = [queue EXCEPT ![v] = <<>>]
        OBVIOUS
      <4>5. z \in Queues /\ z[w] = queue[w]
        BY <1>t, <2>1, <3>2, <4>1, <4>4 DEF TypeQueue, Queues
      <4>6. queue' = [z EXCEPT ![w] = queue[w] \o Tail(queue[v])]
        BY <1>6, <3>2, <4>4, <4>5 DEF StealGets, Loot
      <4> QED BY <4>3, <4>5, <4>6 DEF Queues
    <3> QED BY <3>1, <3>2
  <2>4. /\ pending' \in [Workers -> Tasks \cup {None}]
        /\ batch' \in [Workers -> 0 .. Batch]
    BY <1>6, <1>t DEF StealGets, TypeRest
  <2>5. CASE me[w].pc = "arm"
    <3>1. [At("token") EXCEPT !.node = Head(queue[v])] \in MeSet
      BY <2>2, Fields, Names
    <3>2. TypeMe'
      BY <1>6, <1>t, <2>5, <3>1 DEF StealGets, TypeMe
    <3> QED BY <1>6, <1>t, <2>3, <2>4, <2>5, <3>2
             DEF StealGets, others, epochs, TypeQueue, TypeRest, TypeDisp
  <2>6. CASE me[w].pc # "arm"
    BY <1>6, <1>k, <1>t, <2>2, <2>3, <2>4, <2>6
       DEF StealGets, others, epochs, TypeQueue, TypeDisp
  <2> QED BY <2>5, <2>6
<1>7. ASSUME StealMisses(w) PROVE TypeOK'
  <2>1. CASE me' = [me EXCEPT ![w].at = @ + 1] /\ me[w].at + 1 < N
    <3>1. me[w].at + 1 \in Workers
      BY <1>t, <2>1, Constants DEF TypeMe, MeSet, Workers
    <3>2. TypeMe'
      BY <1>t, <2>1, <3>1 DEF TypeMe, MeSet
    <3> QED BY <1>7, <1>u, <3>2 DEF StealMisses
  <2>2. CASE \E p \in {"token", "snap"} : Goto(w, p)
    <3>1. TypeMe'
      BY <1>g, <2>2, Names
    <3> QED BY <1>7, <1>u, <3>1 DEF StealMisses
  <2> QED BY <1>7, <2>1, <2>2 DEF StealMisses
<1>8. ASSUME Snapshot(w) PROVE TypeOK'
  <2>1. [At("pause") EXCEPT !.snap = unpauseEpoch] \in MeSet
    BY <1>t, Fields DEF TypeRest
  <2>2. TypeMe'
    BY <1>8, <1>t, <2>1 DEF Snapshot, TypeMe
  <2> QED BY <1>8, <1>u, <2>2 DEF Snapshot
<1>9. ASSUME Pause(w) PROVE TypeOK'
  <2>1. TypeMe'
    BY <1>9, <1>t, Names DEF Pause, TypeMe, MeSet
  <2>2. pauseEpoch' \in Nat
    BY <1>9, <1>t DEF Pause, Announce, TypeRest
  <2> QED BY <1>9, <1>t, <2>1, <2>2 DEF Pause, work, TypeQueue, TypeRest, TypeDisp
<1>10. ASSUME Scan(w) PROVE TypeOK'
  <2>0. me \in [Workers -> MeSet] /\ 0 \in Workers
    BY <1>t, Constants DEF TypeMe
  <2>1. CASE Goto(w, "slow")
    BY <1>10, <1>g, <1>u, <2>1, Names DEF Scan
  <2>2. CASE me' = [me EXCEPT ![w].at = @ + 1] /\ me[w].at + 1 < N
    <3>1. me[w].at + 1 \in Workers
      BY <2>0, <2>2, Constants DEF MeSet, Workers
    <3>2. TypeMe'
      BY <2>0, <2>2, <3>1 DEF TypeMe, MeSet
    <3> QED BY <1>10, <1>u, <3>2 DEF Scan
  <2>3. CASE me' = [me EXCEPT ![w].at = 0, ![w].pc = "lock"]
    <3>1. PICK z : z = [me EXCEPT ![w].at = 0]
      OBVIOUS
    <3>2. z \in [Workers -> MeSet]
      BY <2>0, <3>1 DEF MeSet
    <3>3. me' = [z EXCEPT ![w].pc = "lock"]
      BY <2>3, <3>1
    <3>4. TypeMe'
      BY <3>2, <3>3, Names DEF TypeMe, MeSet
    <3> QED BY <1>10, <1>u, <3>4 DEF Scan
  <2> QED BY <1>10, <2>1, <2>2, <2>3 DEF Scan
<1>11. ASSUME Lock(w) PROVE TypeOK'
  <2>1. TypeMe'
    BY <1>11, <1>g, Names DEF Lock
  <2> QED BY <1>11, <1>u, <2>1 DEF Lock
<1>12. ASSUME Park(w) PROVE TypeOK'
  BY <1>12, <1>g, <1>u, Names DEF Park
<1>13. ASSUME Wake(w) PROVE TypeOK'
  BY <1>13, <1>g, <1>u, Names DEF Wake
<1>14. ASSUME Complete(w) PROVE TypeOK'
  <2>1. TypeMe'
    BY <1>14, <1>g, Names DEF Complete
  <2> QED BY <1>14, <1>t, <2>1
           DEF Complete, Status, others, epochs, TypeQueue, TypeRest, TypeDisp
<1>15. ASSUME NEW t \in Tasks, PlaceOwn(w, t) PROVE TypeOK'
  <2>1. queue' \in Queues
    <3>1. CASE pending[w] = None
      BY <1>15, <1>t, <3>1 DEF PlaceOwn, Evicted, TypeQueue
    <3>2. CASE pending[w] # None
      <4>1. pending[w] \in Nodes
        BY <1>t, <3>2, Constants DEF TypeRest
      <4> QED BY <1>15, <3>2, <4>1, EnqueuedTyped DEF PlaceOwn, Evicted
    <3> QED BY <3>1, <3>2
  <2>2. disp' \in [Threads -> DispSet]
    BY <1>15, <1>t, Fields DEF PlaceOwn, Placed, TypeDisp
  <2> QED BY <1>15, <1>t, <2>1, <2>2
           DEF PlaceOwn, Status, epochs, TypeMe, TypeQueue, TypeRest, TypeDisp
<1> QED BY <1>1, <1>2, <1>3, <1>4, <1>5, <1>6, <1>7, <1>8, <1>9, <1>10, <1>11, <1>12,
           <1>13, <1>14, <1>15 DEF Worker

LEMMA TypeDispatch ==
    ASSUME TypeOK, NEW d \in Threads, Dispatch(d)
    PROVE  TypeOK'
<1> USE TypeParts, TypePartsNext
<1>t. TypeMe /\ TypeQueue /\ TypeRest /\ TypeDisp
  OBVIOUS
<1>d. disp[d] \in DispSet
  BY <1>t DEF TypeDisp
<1>p. ASSUME NEW pc \in {"idle", "pause", "unpause", "cas", "count", "ring", "signal"},
             disp' = [disp EXCEPT ![d].pc = pc]
      PROVE  TypeDisp'
  BY <1>t, <1>p DEF TypeDisp, DispSet
<1>1. CASE LoadPause(d)
  <2>1. pauseEpoch \in Nat
    BY <1>t DEF TypeRest
  <2>2. PICK z : z = [disp EXCEPT ![d].pc = "unpause"]
    OBVIOUS
  <2>3. z \in [Threads -> DispSet]
    BY <1>t, <2>2 DEF TypeDisp, DispSet
  <2>4. disp' = [z EXCEPT ![d].pe = pauseEpoch]
    BY <1>1, <2>2 DEF LoadPause
  <2>5. TypeDisp'
    BY <2>1, <2>3, <2>4 DEF TypeDisp, DispSet
  <2> QED BY <1>1, <1>t, <2>5 DEF LoadPause, work, epochs, TypeMe, TypeQueue, TypeRest
<1>2. CASE LoadUnpause(d)
  <2>1. unpauseEpoch \in Nat
    BY <1>t DEF TypeRest
  <2>2. CASE disp[d].pe = unpauseEpoch
    <3>1. TypeDisp'
      BY <1>2, <1>p, <2>2 DEF LoadUnpause
    <3> QED BY <1>2, <1>t, <3>1 DEF LoadUnpause, work, epochs, TypeMe, TypeQueue, TypeRest
  <2>3. CASE disp[d].pe # unpauseEpoch
    <3>2. PICK z : z = [disp EXCEPT ![d].pc = "cas"]
      OBVIOUS
    <3>3. z \in [Threads -> DispSet]
      BY <1>t, <3>2 DEF TypeDisp, DispSet
    <3>4. disp' = [z EXCEPT ![d].ue = unpauseEpoch]
      BY <1>2, <2>3, <3>2 DEF LoadUnpause
    <3>5. TypeDisp'
      BY <2>1, <3>3, <3>4 DEF TypeDisp, DispSet
    <3> QED BY <1>2, <1>t, <3>5 DEF LoadUnpause, work, epochs, TypeMe, TypeQueue, TypeRest
  <2> QED BY <2>2, <2>3
<1>3. CASE Cas(d)
  <2>1. disp[d].pe \in Nat
    BY <1>d DEF DispSet
  <2>2. TypeDisp'
    BY <1>3, <1>p DEF Cas
  <2> QED BY <1>3, <1>t, <2>1, <2>2 DEF Cas, work, epochs, TypeMe, TypeQueue, TypeRest
<1>4. CASE Count(d)
  <2>1. TypeDisp'
    BY <1>4, <1>p DEF Count
  <2> QED BY <1>4, <1>t, <2>1 DEF Count, work, epochs, TypeMe, TypeQueue, TypeRest
<1>5. CASE Ring(d)
  <2>1. (disp[d].target + disp[d].at + 1) % N \in Workers
    <3>1. disp[d].target \in Workers /\ disp[d].at \in 0 .. N
      BY <1>d DEF DispSet
    <3>2. disp[d].target \in Nat /\ disp[d].at \in Nat
      BY <3>1, Constants DEF Workers
    <3>3. disp[d].target + disp[d].at + 1 \in Nat
      BY <3>2
    <3> QED BY <3>3, Mod
  <2>2. TypeMe'
    BY <1>5, <1>t, <2>1, SignalTyped DEF Ring, TypeMe
  <2>3. TypeDisp'
    <3>1. CASE disp[d].at + 1 < N
      <4>1. disp[d].at + 1 \in 0 .. N
        BY <1>d, <3>1, Constants DEF DispSet
      <4>2. disp' = [disp EXCEPT ![d].at = @ + 1]
        BY <1>5, <3>1 DEF Ring
      <4> QED BY <1>t, <4>1, <4>2 DEF TypeDisp, DispSet
    <3>2. CASE ~(disp[d].at + 1 < N)
      BY <1>5, <1>p, <3>2 DEF Ring
    <3> QED BY <3>1, <3>2
  <2> QED BY <1>5, <1>t, <2>2, <2>3 DEF Ring, work, epochs, TypeQueue, TypeRest
<1>6. CASE Dispatched(d)
  <2>1. disp[d].target \in Workers
    BY <1>d DEF DispSet
  <2>2. TypeMe'
    BY <1>6, <1>t, <2>1, SignalTyped DEF Dispatched, SignalTarget, TypeMe
  <2>3. TypeDisp'
    BY <1>6, <1>t, Fields DEF Dispatched, TypeDisp
  <2> QED BY <1>6, <1>t, <2>2, <2>3 DEF Dispatched, work, epochs, TypeQueue, TypeRest
<1> QED BY <1>1, <1>2, <1>3, <1>4, <1>5, <1>6 DEF Dispatch

LEMMA TypeNext == ASSUME TypeOK, [Next]_vars PROVE TypeOK'
<1> USE TypeParts, TypePartsNext
<1>t. TypeMe /\ TypeQueue /\ TypeRest /\ TypeDisp
  OBVIOUS
<1>1. ASSUME NEW w \in Workers, Worker(w) PROVE TypeOK'
  BY <1>1, TypeWorker
<1>2. ASSUME NEW d \in Threads, Dispatch(d) PROVE TypeOK'
  BY <1>2, TypeDispatch
<1>3. ASSUME NEW t \in Tasks, PlaceOut(t) PROVE TypeOK'
  <2>1. rr \in Workers /\ rr \in Nat /\ t \in Nodes
    BY <1>t, Constants DEF TypeRest
  <2>2. queue' \in Queues
    BY <1>3, <2>1, EnqueuedTyped DEF PlaceOut
  <2>3. rr' \in Workers
    BY <1>3, <2>1, Mod DEF PlaceOut, NextInRing
  <2>4. disp' \in [Threads -> DispSet]
    BY <1>3, <1>t, <2>1, Fields DEF PlaceOut, Placed, TypeDisp
  <2> QED BY <1>3, <1>t, <2>2, <2>3, <2>4
           DEF PlaceOut, Status, epochs, TypeMe, TypeQueue, TypeRest, TypeDisp
<1>4. CASE RequestStop
  <2>1. stopper' \in 0 .. 2 * N /\ stopper \in Nat
    BY <1>4, <1>t, Constants DEF RequestStop, TypeRest
  <2>2. stop' \in [Workers -> BOOLEAN]
    BY <1>4, <1>t DEF RequestStop, TypeRest
  <2>3. TypeMe'
    <3>1. CASE stopper < N
      BY <1>4, <1>t, <3>1 DEF RequestStop, TypeMe
    <3>2. CASE ~(stopper < N)
      <4>1. stopper - N \in Workers
        BY <1>4, <2>1, <3>2, Constants DEF RequestStop, Workers
      <4> QED BY <1>4, <3>2, <4>1, SignalTyped DEF RequestStop, TypeMe
    <3> QED BY <3>1, <3>2
  <2> QED BY <1>4, <1>t, <2>1, <2>2, <2>3
           DEF RequestStop, work, epochs, TypeQueue, TypeRest, TypeDisp
<1>5. CASE UNCHANGED vars
  BY <1>5, <1>t DEF vars, work, epochs, TypeMe, TypeQueue, TypeRest, TypeDisp
<1> QED BY <1>1, <1>2, <1>3, <1>4, <1>5 DEF Next, Finished

----------------------------------------------------------------------------
(***************************************************************************)
(* Where nodes are.                                                        *)
(***************************************************************************)
LEMMA PlacesInit == Init => PlacesOK
<1> SUFFICES ASSUME Init PROVE PlacesOK
  OBVIOUS
<1>1. \A w \in Workers : queue[w] = <<>> /\ Len(queue[w]) = 0
  BY DEF Init
<1>2. Elems(queue) = {} /\ Disjoint(queue)
  BY <1>1 DEF Elems, Disjoint
<1>3. \A w \in Workers : pending[w] = None /\ me[w].pc = "fast"
  BY DEF Init, At
<1>4. \A n \in Nodes : ~There(n)
  BY <1>2, <1>3, Constants DEF There, Holds
<1>5. \A w \in Workers : w \in Nodes
  BY Constants
<1>6. \A t \in Tasks : t \in Nodes /\ status[t] = "new"
  BY Constants DEF Init
<1> QED BY <1>2, <1>3, <1>4, <1>5, <1>6
        DEF PlacesOK, SlotOK, HandOK, StatusOK, RunOK, FlagOK, ArmOK, Holds, Arming

\* A worker that moves on with nothing in its hands changes nothing.
Calm(w) == \/ me'[w].pc = me[w].pc /\ me'[w].node = me[w].node
           \/ /\ me[w].pc \notin {"token", "return", "run"}
              /\ me'[w].pc \notin {"return", "run"}
              /\ me'[w].pc = "token" => me'[w].node = None
              /\ me'[w].pc \in {"arm", "token"} => fair[w]

LEMMA Calmly ==
    ASSUME TypeOK, PlacesOK, UNCHANGED <<queue, pending, fair, status>>,
           \A w \in Workers : Calm(w)
    PROVE  PlacesOK'
<1>1. Elems(queue)' = Elems(queue) /\ Disjoint(queue)'
  BY DEF PlacesOK, Elems, Disjoint
<1>2. None \notin Elems(queue)
  BY Constants DEF Elems
<1>3. \A w \in Workers : Holds(w)' /\ me'[w].node # None =>
                            Holds(w) /\ me'[w].node = me[w].node
  BY DEF Calm, Holds
<1>4. \A w \in Workers : Holds(w) => Holds(w)' /\ me'[w].node = me[w].node
  BY DEF Calm, Holds
<1>5. \A n \in Nodes : There(n)' <=> There(n)
  BY <1>1, <1>3, <1>4, Constants DEF There
<1>6. SlotOK'
  BY <1>1 DEF PlacesOK, SlotOK
<1>7. HandOK'
  <2>1. \A v, w \in Workers : Holds(v)' /\ Holds(w)' /\ me'[v].node = me'[w].node
                                /\ me'[v].node # None => v = w
    BY <1>3 DEF PlacesOK, HandOK
  <2>2. \A v \in Workers : Holds(v)' => me'[v].node \notin Elems(queue)'
    BY <1>1, <1>2, <1>3 DEF PlacesOK, HandOK
  <2>3. \A v, w \in Workers : Holds(v)' /\ me'[v].node # None => pending'[w] # me'[v].node
    BY <1>3 DEF PlacesOK, HandOK
  <2>4. \A v \in Workers : me'[v].pc = "return" => me'[v].node # None
    BY DEF PlacesOK, HandOK, Calm
  <2> QED BY <2>1, <2>2, <2>3, <2>4 DEF HandOK
<1>8. StatusOK'
  BY <1>5, Constants DEF PlacesOK, StatusOK
<1>9. RunOK'
  BY DEF PlacesOK, RunOK, Calm
<1>10. FlagOK'
  BY <1>5, Constants DEF PlacesOK, FlagOK
<1>11. ArmOK'
  BY DEF PlacesOK, ArmOK, Arming, Calm
<1> QED BY <1>1, <1>6, <1>7, <1>8, <1>9, <1>10, <1>11 DEF PlacesOK

\* w takes node n from wherever it is.
Removed(w, n) ==
    /\ There(n)
    /\ Disjoint(queue)' /\ Elems(queue)' = Elems(queue) \ {n}
    /\ \A v \in Workers : pending'[v] = IF pending[v] = n THEN None ELSE pending[v]
    /\ \A v \in Workers \ {w} : Holds(v) => me[v].node # n
    /\ Holds(w) => me[w].pc = "return" /\ me[w].node = n
    /\ me[w].pc # "run"

LEMMA Taking ==
    ASSUME TypeOK, PlacesOK, NEW w \in Workers, NEW n \in Nodes, Take(w, n),
           Removed(w, n)
    PROVE  PlacesOK' /\ (n \in Tasks => status[n] = "ready")
<1>1. n # None /\ None \notin Elems(queue)
  BY Constants DEF Elems
<1>2. \A v \in Workers \ {w} : me'[v] = me[v]
  BY DEF Take, Goto, TypeOK
<1>3. IF n \in Tasks THEN me'[w].pc = "run" /\ me'[w].node = n
                     ELSE me'[w].pc = "fast"
  <2>1. "run" \in PCs /\ "fast" \in PCs
    BY Names
  <2>2. CASE n \in Tasks
    <3>1. PICK r : r = [At("run") EXCEPT !.node = n]
      OBVIOUS
    <3>2. r.pc = "run" /\ r.node = n
      BY <2>1, <3>1, Fields
    <3>3. me' = [me EXCEPT ![w] = r]
      BY <2>2, <3>1 DEF Take
    <3> QED BY <2>2, <3>2, <3>3 DEF TypeOK
  <2>3. CASE n \notin Tasks
    BY <2>1, <2>3, Fields DEF Take, Goto, TypeOK
  <2> QED BY <2>2, <2>3
<1>4. ~Holds(w)' /\ ~Arming(w)' /\ \A v \in Workers \ {w} : Holds(v)' <=> Holds(v)
  BY <1>2, <1>3 DEF Holds, Arming
<1>5. \A m \in Nodes : There(m)' <=> There(m) /\ m # n
  <2> TAKE m \in Nodes
  <2>1. m # None
    BY Constants
  <2>2. ASSUME There(m)' PROVE There(m) /\ m # n
    <3>1. CASE m \in Elems(queue)'
      BY <3>1 DEF Removed, There
    <3>2. CASE \E v \in Workers : pending'[v] = m
      BY <2>1, <3>2 DEF Removed, There
    <3>3. CASE \E v \in Workers : Holds(v)' /\ me'[v].node = m
      BY <1>2, <1>4, <3>3 DEF Removed, There
    <3> QED BY <2>2, <3>1, <3>2, <3>3 DEF There
  <2>3. ASSUME There(m), m # n PROVE There(m)'
    <3>1. CASE m \in Elems(queue)
      BY <2>3, <3>1 DEF Removed, There
    <3>2. CASE \E v \in Workers : pending[v] = m
      BY <2>3, <3>2 DEF Removed, There
    <3>3. CASE \E v \in Workers : Holds(v) /\ me[v].node = m
      <4>1. PICK v \in Workers : Holds(v) /\ me[v].node = m
        BY <3>3
      <4>2. v # w
        BY <2>3, <4>1 DEF Removed
      <4> QED BY <1>2, <1>4, <4>1, <4>2 DEF There
    <3> QED BY <2>3, <3>1, <3>2, <3>3 DEF There
  <2> QED BY <2>2, <2>3
<1>6. SlotOK'
  <2>1. \A v \in Workers : pending'[v] # None => pending'[v] = pending[v] /\ pending[v] # n
    BY DEF Removed
  <2> QED BY <1>1, <2>1 DEF PlacesOK, SlotOK, Removed
<1>7. HandOK'
  <2>1. \A v \in Workers : Holds(v)' => v # w /\ Holds(v) /\ me'[v] = me[v]
    BY <1>2, <1>4
  <2>2. \A v \in Workers : Holds(v)' => me'[v].node \notin Elems(queue)'
    BY <2>1 DEF PlacesOK, HandOK, Removed
  <2>3. \A v, x \in Workers : Holds(v)' /\ me'[v].node # None => pending'[x] # me'[v].node
    BY <2>1 DEF PlacesOK, HandOK, Removed
  <2>4. \A v \in Workers : me'[v].pc = "return" => me'[v].node # None
    BY <1>2, <1>3 DEF PlacesOK, HandOK
  <2> QED BY <2>1, <2>2, <2>3, <2>4 DEF PlacesOK, HandOK
<1>8. n \in Tasks => status[n] = "ready"
  BY DEF PlacesOK, StatusOK, Removed
<1>9. StatusOK'
  <2>1. CASE n \in Tasks
    <3>1. \A t \in Tasks : status'[t] = IF t = n THEN "running" ELSE status[t]
      BY <2>1 DEF Take, Status, TypeOK
    <3> QED BY <1>5, <3>1, Constants DEF PlacesOK, StatusOK
  <2>2. CASE n \notin Tasks
    BY <1>5, <2>2, Constants DEF Take, PlacesOK, StatusOK
  <2> QED BY <2>1, <2>2
<1>10. RunOK'
  <2>1. CASE n \in Tasks
    <3>1. \A t \in Tasks : status'[t] = IF t = n THEN "running" ELSE status[t]
      BY <2>1 DEF Take, Status, TypeOK
    <3>2. \A v \in Workers \ {w} : me'[v].pc = "run" => me'[v].node # n
      BY <1>2, <1>8, <2>1 DEF PlacesOK, RunOK
    <3> QED BY <1>2, <1>3, <2>1, <3>1, <3>2 DEF PlacesOK, RunOK
  <2>2. CASE n \notin Tasks
    BY <1>2, <1>3, <2>2 DEF Take, PlacesOK, RunOK
  <2> QED BY <2>1, <2>2
<1>11. FlagOK'
  <2>1. \A v \in Workers : fair'[v] => fair[v] \/ v = n
    BY DEF Take, TypeOK
  <2> QED BY <1>5, <2>1, Constants DEF PlacesOK, FlagOK
<1>12. ArmOK'
  <2>1. \A v \in Workers : fair[v] => fair'[v]
    BY DEF Take, TypeOK
  <2> QED BY <1>2, <1>4, <2>1 DEF PlacesOK, ArmOK, Arming
<1> QED BY <1>6, <1>7, <1>8, <1>9, <1>10, <1>11, <1>12 DEF PlacesOK, Removed

LEMMA PendingTaken ==
    ASSUME TypeOK, PlacesOK, NEW w \in Workers, NEW k, PopPending(w, k),
           me[w].pc \in {"fast", "own"}
    PROVE  /\ PlacesOK' /\ pending[w] \in Tasks /\ status[pending[w]] = "ready"
           /\ Take(w, pending[w])
<1> DEFINE n == pending[w]
<1>1. n \in Tasks /\ n \in Nodes /\ n # None
  BY Constants DEF PopPending, TypeOK
<1>2. Elems(queue)' = Elems(queue) /\ Disjoint(queue)'
  BY DEF PopPending, PlacesOK, Elems, Disjoint
<1>3. Elems(queue) \ {n} = Elems(queue)
  BY DEF PlacesOK, SlotOK
<1>4. There(n)
  BY DEF There
<1>5. \A v \in Workers : pending'[v] = IF pending[v] = n THEN None ELSE pending[v]
  BY <1>1 DEF PopPending, PlacesOK, SlotOK, TypeOK
<1>6. \A v \in Workers : Holds(v) => me[v].node # n
  BY <1>1 DEF PlacesOK, HandOK
<1>7. Removed(w, n)
  BY <1>2, <1>3, <1>4, <1>5, <1>6 DEF Removed, Holds
<1> QED BY <1>1, <1>7, Taking DEF PopPending

\* n has left the queues for the hands of w.
LEMMA QueueTaken ==
    ASSUME TypeOK, PlacesOK, NEW w \in Workers, NEW n \in Elems(queue), Take(w, n),
           Disjoint(queue)', Elems(queue)' = Elems(queue) \ {n},
           pending' = pending, ~Holds(w), me[w].pc # "run"
    PROVE  PlacesOK' /\ (n \in Tasks => status[n] = "ready")
<1>1. n \in Nodes
  BY DEF Elems
<1>2. There(n)
  BY DEF There
<1>3. \A v \in Workers : pending[v] # n
  BY DEF PlacesOK, SlotOK
<1>4. \A v \in Workers : Holds(v) => me[v].node # n
  BY DEF PlacesOK, HandOK
<1>5. Removed(w, n)
  BY <1>2, <1>3, <1>4 DEF Removed
<1> QED BY <1>1, <1>5, Taking

LEMMA HeadTaken ==
    ASSUME TypeOK, PlacesOK, NEW w \in Workers, NEW k, PopQueue(w, k),
           me[w].pc \in {"fast", "own"}
    PROVE  LET n == Head(queue[w]) IN
             /\ PlacesOK' /\ Take(w, n) /\ n \in Nodes /\ (n \in Tasks => status[n] = "ready")
<1> DEFINE n == Head(queue[w])
<1>1. queue \in Queues /\ Disjoint(queue) /\ queue[w] # <<>>
  BY DEF TypeOK, Queues, PlacesOK, PopQueue
<1>2. /\ Disjoint(queue)' /\ Elems(queue)' = Elems(queue) \ {n} /\ n \in Elems(queue)
  <2>1. queue' = [queue EXCEPT ![w] = Tail(@)]
    BY DEF PopQueue
  <2>2. /\ Disjoint(queue') /\ Elems(queue') = Elems(queue) \ {n} /\ n \in Elems(queue)
    BY <1>1, <2>1, Popping
  <2> QED BY <2>2 DEF Disjoint, Elems
<1>3. Take(w, n) /\ pending' = pending /\ ~Holds(w) /\ me[w].pc # "run"
  BY DEF PopQueue, Holds
<1> QED BY <1>2, <1>3, QueueTaken DEF Elems

LEMMA Placing ==
    ASSUME TypeOK, PlacesOK, NEW t \in Tasks, status[t] = "new",
           Status(t, "ready"), UNCHANGED <<fair, me>>, Disjoint(queue)',
           \A n \in Nodes : There(n)' <=> There(n) \/ n = t, SlotOK', HandOK'
    PROVE  PlacesOK'
<1>1. \A s \in Tasks : status'[s] = IF s = t THEN "ready" ELSE status[s]
  BY DEF Status, TypeOK
<1>2. \A s \in Tasks : s \in Nodes
  BY Constants
<1>3. StatusOK'
  BY <1>1, <1>2 DEF PlacesOK, StatusOK
<1>4. RunOK'
  BY <1>1 DEF PlacesOK, RunOK
<1>5. FlagOK'
  BY Constants DEF PlacesOK, FlagOK
<1>6. ArmOK'
  BY DEF PlacesOK, ArmOK, Arming
<1> QED BY <1>3, <1>4, <1>5, <1>6 DEF PlacesOK

LEMMA EnqueuedPlaces ==
    ASSUME TypeOK, PlacesOK, NEW w \in Workers, NEW n \in Nodes, n \notin Elems(queue),
           queue' = Enqueued(w, n)
    PROVE  Disjoint(queue)' /\ Elems(queue)' = Elems(queue) \cup {n}
<1>1. queue \in Queues /\ Disjoint(queue)
  BY DEF TypeOK, Queues, PlacesOK
<1>2. queue' = [queue EXCEPT ![w] = Append(@, n)]
  BY DEF Enqueued
<1>3. PICK r : r = [queue EXCEPT ![w] = Append(@, n)]
  OBVIOUS
<1>4. Disjoint(r) /\ Elems(r) = Elems(queue) \cup {n}
  BY <1>1, <1>3, Appending
<1>5. queue' = r
  BY <1>2, <1>3
<1> QED BY <1>4, <1>5 DEF Disjoint, Elems

LEMMA PlacesPlaceOut ==
    ASSUME TypeOK, PlacesOK, NEW t \in Tasks, PlaceOut(t)
    PROVE  PlacesOK'
<1>1. t \in Nodes /\ ~There(t) /\ rr \in Workers /\ status[t] = "new"
  BY Constants DEF PlaceOut, PlacesOK, StatusOK, TypeOK
<1>2. Disjoint(queue)' /\ Elems(queue)' = Elems(queue) \cup {t}
  BY <1>1, EnqueuedPlaces DEF There, PlaceOut
<1>3. UNCHANGED <<fair, me, pending>>
  BY DEF PlaceOut
<1>4. \A n \in Nodes : There(n)' <=> There(n) \/ n = t
  BY <1>1, <1>2, <1>3 DEF There, Holds
<1>5. SlotOK'
  BY <1>1, <1>2, <1>3 DEF PlacesOK, SlotOK, There
<1>6. HandOK'
  BY <1>1, <1>2, <1>3 DEF PlacesOK, HandOK, Holds, There
<1> QED BY <1>1, <1>2, <1>3, <1>4, <1>5, <1>6, Placing DEF PlaceOut

LEMMA PlacesPlaceOwn ==
    ASSUME TypeOK, PlacesOK, NEW w \in Workers, NEW t \in Tasks, PlaceOwn(w, t)
    PROVE  PlacesOK'
<1>1. t \in Nodes /\ ~There(t) /\ t # None /\ status[t] = "new"
  BY Constants DEF PlaceOwn, PlacesOK, StatusOK
<1>2. UNCHANGED <<fair, me>> /\ \A v \in Workers : pending'[v] = IF v = w THEN t ELSE pending[v]
  BY DEF PlaceOwn, TypeOK
<1>3. Disjoint(queue)' /\ Elems(queue)' = IF pending[w] = None THEN Elems(queue)
                                          ELSE Elems(queue) \cup {pending[w]}
  <2>1. CASE pending[w] = None
    BY <2>1 DEF PlaceOwn, Evicted, PlacesOK, Disjoint, Elems
  <2>2. CASE pending[w] # None
    <3>1. pending[w] \in Nodes /\ pending[w] \notin Elems(queue)
      BY <2>2, Constants DEF TypeOK, PlacesOK, SlotOK
    <3> QED BY <2>2, <3>1, EnqueuedPlaces DEF PlaceOwn, Evicted
  <2> QED BY <2>1, <2>2
<1>4. \A n \in Nodes : n # None
  BY Constants
<1>5. \A n \in Nodes : There(n)' <=> There(n) \/ n = t
  <2> TAKE n \in Nodes
  <2>1. (\E v \in Workers : Holds(v)' /\ me'[v].node = n)
          <=> \E v \in Workers : Holds(v) /\ me[v].node = n
    BY <1>2 DEF Holds
  <2>2. n \in Elems(queue)' \/ (\E v \in Workers : pending'[v] = n)
          <=> n \in Elems(queue) \/ (\E v \in Workers : pending[v] = n) \/ n = t
    BY <1>2, <1>3, <1>4
  <2> QED BY <2>1, <2>2 DEF There
<1>6. SlotOK'
  BY <1>1, <1>2, <1>3 DEF PlacesOK, SlotOK, There
<1>7. HandOK'
  <2>1. \A v \in Workers : Holds(v)' <=> Holds(v)
    BY <1>2 DEF Holds
  <2>2. \A v \in Workers : Holds(v) => me[v].node # t
    BY <1>1 DEF There
  <2> QED BY <1>2, <1>3, <2>1, <2>2 DEF PlacesOK, HandOK
<1> QED BY <1>1, <1>2, <1>3, <1>5, <1>6, <1>7, Placing DEF PlaceOwn

\* Steps that move one worker, or nobody, on.
LEMMA Going ==
    ASSUME TypeOK, PlacesOK, UNCHANGED <<queue, pending, fair, status>>,
           NEW w \in Workers, NEW p \in PCs, Goto(w, p),
           me[w].pc \notin {"token", "return", "run"}, p \notin {"return", "run"},
           p \in {"arm", "token"} => fair[w]
    PROVE  PlacesOK'
<1>1. At(p).pc = p /\ At(p).node = None
  BY Fields
<1>2. \A v \in Workers : me'[v] = IF v = w THEN At(p) ELSE me[v]
  BY DEF Goto, TypeOK
<1>3. \A v \in Workers : Calm(v)
  BY <1>1, <1>2 DEF Calm
<1> QED BY <1>3, Calmly

LEMMA SignalCalm ==
    ASSUME TypeOK, NEW v \in Workers, Signal(v)
    PROVE  \A w \in Workers : Calm(w)
<1> TAKE w \in Workers
<1>1. CASE me' = me
  BY <1>1 DEF Calm
<1>2. CASE me[v].pc = "asleep" /\ me' = [me EXCEPT ![v].pc = "signalled"]
  <2>1. me[v] \in MeSet /\ me \in [Workers -> MeSet]
    BY DEF TypeOK, MeSet
  <2>2. me'[w] = IF w = v THEN [me[v] EXCEPT !.pc = "signalled"] ELSE me[w]
    BY <1>2, <2>1
  <2>3. w = v => me'[w].pc = "signalled"
    BY <2>1, <2>2 DEF MeSet
  <2> QED BY <1>2, <2>2, <2>3 DEF Calm
<1> QED BY <1>1, <1>2 DEF Signal

LEMMA Same ==
    ASSUME TypeOK, PlacesOK, UNCHANGED <<queue, pending, fair, status, me>>
    PROVE  PlacesOK'
<1>1. \A w \in Workers : Calm(w)
  BY DEF Calm
<1> QED BY <1>1, Calmly

LEMMA PlacesPopFast ==
    ASSUME TypeOK, PlacesOK, NEW w \in Workers, PopFast(w)
    PROVE  PlacesOK'
<1>1. me[w].pc = "fast"
  BY DEF PopFast
<1>2. CASE PopPending(w, IF batch[w] > 0 THEN batch[w] - 1 ELSE Batch)
  BY <1>1, <1>2, PendingTaken
<1>3. CASE PopQueue(w, Batch)
  BY <1>1, <1>3, HeadTaken
<1>4. CASE Goto(w, "slow") /\ UNCHANGED work
  BY <1>1, <1>4, Names, Going DEF work
<1> QED BY <1>2, <1>3, <1>4 DEF PopFast

LEMMA PlacesOwn ==
    ASSUME TypeOK, PlacesOK, NEW w \in Workers, Own(w)
    PROVE  PlacesOK'
<1>1. me[w].pc = "own"
  BY DEF Own
<1>2. CASE PopPending(w, Batch)
  BY <1>1, <1>2, PendingTaken
<1>3. CASE PopQueue(w, Batch)
  BY <1>1, <1>3, HeadTaken
<1>4. CASE Goto(w, "steal") /\ UNCHANGED work
  BY <1>1, <1>4, Names, Going DEF work
<1> QED BY <1>2, <1>3, <1>4 DEF Own

LEMMA PlacesSlow ==
    ASSUME TypeOK, PlacesOK, NEW w \in Workers, Slow(w)
    PROVE  PlacesOK'
<1>1. PICK p : p = IF stop[w] THEN "exited" ELSE IF Deferring(w) THEN "arm" ELSE "own"
  OBVIOUS
<1>2. p \in PCs /\ p \notin {"return", "run"} /\ (p \in {"arm", "token"} => fair[w])
  BY <1>1, Names DEF Deferring
<1>3. me[w].pc = "slow" /\ Goto(w, p) /\ UNCHANGED work
  BY <1>1 DEF Slow
<1> QED BY <1>2, <1>3, Going DEF work

----------------------------------------------------------------------------
\* The fairness arm.
LEMMA PlacesArmToken ==
    ASSUME TypeOK, PlacesOK, NEW w \in Workers, ArmToken(w)
    PROVE  PlacesOK'
<1>1. me[w].pc = "token" /\ fair[w] /\ w \in Nodes /\ w \notin Tasks /\ ~There(w)
  BY Constants DEF ArmToken, PlacesOK, ArmOK, Arming, FlagOK
<1>2. Disjoint(queue)' /\ Elems(queue)' = Elems(queue) \cup {w}
  BY <1>1, EnqueuedPlaces DEF There, ArmToken, Token
<1>3. UNCHANGED <<pending, status>>
      /\ \A v \in Workers : fair'[v] = (v # w /\ fair[v])
  BY DEF ArmToken, FlagServed, TypeOK
<1>4. /\ \A v \in Workers \ {w} : me'[v] = me[v]
      /\ IF me[w].node = None THEN me'[w].pc = "own"
                              ELSE me'[w].pc = "return" /\ me'[w].node = me[w].node
  <2>1. me[w] \in MeSet /\ me \in [Workers -> MeSet]
    BY DEF TypeOK, MeSet
  <2>2. CASE me[w].node = None
    <3>1. me' = [me EXCEPT ![w] = At("own")]
      BY <2>2 DEF ArmToken, Goto
    <3>2. At("own").pc = "own"
      BY Names, Fields
    <3> QED BY <2>1, <2>2, <3>1, <3>2
  <2>3. CASE me[w].node # None
    <3>1. me' = [me EXCEPT ![w].pc = "return"]
      BY <2>3 DEF ArmToken
    <3>2. me'[w] = [me[w] EXCEPT !.pc = "return"] /\ \A v \in Workers \ {w} : me'[v] = me[v]
      BY <2>1, <3>1
    <3>3. me'[w].pc = "return" /\ me'[w].node = me[w].node
      BY <2>1, <3>2 DEF MeSet
    <3> QED BY <2>3, <3>2, <3>3
  <2> QED BY <2>2, <2>3
<1>5. \A n \in Nodes : n # None
  BY Constants
<1>6. \A v \in Workers : Holds(v)' => Holds(v) /\ me'[v].node = me[v].node
  BY <1>1, <1>4 DEF Holds
<1>7. \A v \in Workers : Holds(v) /\ me[v].node # None
                            => Holds(v)' /\ me'[v].node = me[v].node
  BY <1>1, <1>4 DEF Holds
<1>8. \A n \in Nodes : There(n)' <=> There(n) \/ n = w
  BY <1>2, <1>3, <1>5, <1>6, <1>7 DEF There
<1>9. SlotOK'
  <2>1. \A v \in Workers : pending[v] # w
    BY <1>1 DEF There
  <2> QED BY <1>2, <1>3, <2>1 DEF PlacesOK, SlotOK
<1>10. HandOK'
  <2>1. \A v \in Workers : Holds(v) => me[v].node # w
    BY <1>1 DEF There
  <2>2. \A v \in Workers : Holds(v)' => me'[v].node \notin Elems(queue)'
    BY <1>2, <1>6, <2>1 DEF PlacesOK, HandOK
  <2>3. \A v, x \in Workers : Holds(v)' /\ me'[v].node # None => pending'[x] # me'[v].node
    BY <1>3, <1>6 DEF PlacesOK, HandOK
  <2>4. \A v \in Workers : me'[v].pc = "return" => me'[v].node # None
    BY <1>4 DEF PlacesOK, HandOK
  <2>5. \A v, x \in Workers : Holds(v)' /\ Holds(x)' /\ me'[v].node = me'[x].node
                                /\ me'[v].node # None => v = x
    BY <1>6 DEF PlacesOK, HandOK
  <2> QED BY <2>2, <2>3, <2>4, <2>5 DEF HandOK
<1>11. StatusOK'
  BY <1>1, <1>3, <1>8, Constants DEF PlacesOK, StatusOK
<1>12. RunOK'
  BY <1>3, <1>4 DEF PlacesOK, RunOK
<1>13. FlagOK'
  BY <1>3, <1>8, Constants DEF PlacesOK, FlagOK
<1>14. ArmOK'
  BY <1>3, <1>4 DEF PlacesOK, ArmOK, Arming
<1> QED BY <1>2, <1>9, <1>10, <1>11, <1>12, <1>13, <1>14 DEF PlacesOK

LEMMA PlacesArmReturn ==
    ASSUME TypeOK, PlacesOK, NEW w \in Workers, ArmReturn(w)
    PROVE  PlacesOK'
<1> DEFINE n == me[w].node
<1>1. me[w].pc = "return" /\ Holds(w) /\ n # None /\ Take(w, n)
  BY DEF ArmReturn, PlacesOK, HandOK, Holds
<1>2. n \in Nodes
  BY <1>1 DEF TypeOK
<1>3. There(n) /\ n \notin Elems(queue)
  BY <1>1 DEF There, PlacesOK, HandOK
<1>4. Elems(queue)' = Elems(queue) /\ Disjoint(queue)'
  BY DEF ArmReturn, PlacesOK, Elems, Disjoint
<1>5. Elems(queue) \ {n} = Elems(queue)
  BY <1>3
<1>6. \A v \in Workers : pending[v] # n
  BY <1>1 DEF PlacesOK, HandOK
<1>7. \A v \in Workers \ {w} : Holds(v) => me[v].node # n
  BY <1>1 DEF PlacesOK, HandOK
<1>8. pending' = pending
  BY DEF ArmReturn
<1>9. Removed(w, n)
  BY <1>1, <1>3, <1>4, <1>5, <1>6, <1>7, <1>8 DEF Removed
<1> QED BY <1>1, <1>2, <1>9, Taking

----------------------------------------------------------------------------
\* Stealing: n has left the queues, for w's own hands if it serves fairness.
LEMMA Armed ==
    ASSUME TypeOK, PlacesOK, NEW w \in Workers, NEW n \in Elems(queue),
           NEW r \in MeSet, r.pc = "token", r.node = n,
           me[w].pc = "arm", me' = [me EXCEPT ![w] = r],
           Disjoint(queue)', Elems(queue)' = Elems(queue) \ {n},
           UNCHANGED <<pending, fair, status>>
    PROVE  PlacesOK'
<1>1. n \in Nodes /\ n # None
  BY Constants DEF Elems
<1>2. \A v \in Workers : pending[v] # n
  BY DEF PlacesOK, SlotOK
<1>3. \A v \in Workers : Holds(v) => me[v].node # n
  BY DEF PlacesOK, HandOK
<1>4. /\ \A v \in Workers \ {w} : me'[v] = me[v]
      /\ me'[w].pc = "token" /\ me'[w].node = n
  BY DEF TypeOK
<1>5. ~Holds(w) /\ Holds(w)' /\ \A v \in Workers \ {w} : Holds(v)' <=> Holds(v)
  BY <1>4 DEF Holds
<1>6. \A m \in Nodes : There(m)' <=> There(m)
  <2> TAKE m \in Nodes
  <2>1. (\E v \in Workers : Holds(v)' /\ me'[v].node = m)
          <=> m = n \/ \E v \in Workers : Holds(v) /\ me[v].node = m
    BY <1>4, <1>5
  <2>2. m \in Elems(queue)' \/ m = n <=> m \in Elems(queue)
    OBVIOUS
  <2> QED BY <2>1, <2>2 DEF There
<1>7. SlotOK'
  BY DEF PlacesOK, SlotOK
<1>8. HandOK'
  <2>1. \A v, x \in Workers : Holds(v)' /\ Holds(x)' /\ me'[v].node = me'[x].node
                                /\ me'[v].node # None => v = x
    BY <1>3, <1>4, <1>5 DEF PlacesOK, HandOK
  <2>2. \A v \in Workers : Holds(v)' => me'[v].node \notin Elems(queue)'
    BY <1>4, <1>5 DEF PlacesOK, HandOK
  <2>3. \A v, x \in Workers : Holds(v)' /\ me'[v].node # None => pending'[x] # me'[v].node
    BY <1>2, <1>4, <1>5 DEF PlacesOK, HandOK
  <2>4. \A v \in Workers : me'[v].pc = "return" => me'[v].node # None
    BY <1>4 DEF PlacesOK, HandOK
  <2> QED BY <2>1, <2>2, <2>3, <2>4 DEF HandOK
<1>9. StatusOK'
  BY <1>6, Constants DEF PlacesOK, StatusOK
<1>10. RunOK'
  BY <1>4 DEF PlacesOK, RunOK
<1>11. FlagOK'
  BY <1>6, Constants DEF PlacesOK, FlagOK
<1>12. ArmOK'
  BY <1>4 DEF PlacesOK, ArmOK, Arming
<1> QED BY <1>7, <1>8, <1>9, <1>10, <1>11, <1>12 DEF PlacesOK

LEMMA StolenFrom ==
    ASSUME TypeOK, PlacesOK, NEW w \in Workers, StealGets(w)
    PROVE  LET n == Head(queue[Victim(w)]) IN
             /\ n \in Elems(queue) /\ Disjoint(queue)' /\ Elems(queue)' = Elems(queue) \ {n}
<1> DEFINE v == Victim(w)
           n == Head(queue[v])
<1>1. queue \in Queues /\ Disjoint(queue) /\ queue[v] # <<>>
  BY DEF TypeOK, Queues, PlacesOK, StealGets
<1>2. v \in Workers
  <2>1. w \in Nat /\ me[w].at \in Nat
    BY Constants DEF TypeOK
  <2> QED BY <2>1, Mod DEF Victim
<1>3. n \in Elems(queue) /\ Disjoint(queue') /\ Elems(queue') = Elems(queue) \ {n}
  <2> HIDE DEF v
  <2>1. CASE v = w
    <3>1. queue' = [queue EXCEPT ![w] = Tail(@)]
      BY <2>1 DEF StealGets, v
    <3> QED BY <1>1, <2>1, <3>1, Popping
  <2>2. CASE v # w
    <3>1. queue' = [queue EXCEPT ![v] = <<>>, ![w] = @ \o Tail(queue[v])]
      BY <2>2 DEF StealGets, v, Loot
    <3>2. PICK r : r = [queue EXCEPT ![v] = <<>>, ![w] = @ \o Tail(queue[v])]
      OBVIOUS
    <3>3. Disjoint(r) /\ n \in Elems(queue) /\ Elems(r) = Elems(queue) \ {n}
      BY <1>1, <1>2, <2>2, <3>2, Looting
    <3>4. queue' = r
      BY <3>1, <3>2
    <3> QED BY <3>3, <3>4
  <2> QED BY <2>1, <2>2
<1> QED BY <1>3 DEF Disjoint, Elems

LEMMA PlacesStealGets ==
    ASSUME TypeOK, PlacesOK, NEW w \in Workers, StealGets(w)
    PROVE  PlacesOK'
<1>1. PICK n : n = Head(queue[Victim(w)])
  OBVIOUS
<1>2. n \in Elems(queue) /\ Disjoint(queue)' /\ Elems(queue)' = Elems(queue) \ {n}
  BY <1>1, StolenFrom
<1>3. CASE me[w].pc = "arm"
  <2>1. PICK r : r = [At("token") EXCEPT !.node = n]
    OBVIOUS
  <2>2. me' = [me EXCEPT ![w] = r] /\ UNCHANGED <<pending, fair, status>>
    BY <1>1, <1>3, <2>1 DEF StealGets
  <2>3. n \in Nodes \cup {None}
    BY <1>2 DEF Elems
  <2>4. r \in MeSet /\ r.pc = "token" /\ r.node = n
    BY <2>1, <2>3, Names, Fields
  <2> QED BY <1>2, <1>3, <2>2, <2>4, Armed
<1>4. CASE me[w].pc = "steal"
  <2>1. Take(w, n) /\ pending' = pending /\ ~Holds(w) /\ me[w].pc # "run"
    BY <1>1, <1>4 DEF StealGets, Holds
  <2> QED BY <1>2, <2>1, QueueTaken
<1> QED BY <1>3, <1>4 DEF StealGets, Stealing

LEMMA PlacesStealMisses ==
    ASSUME TypeOK, PlacesOK, NEW w \in Workers, StealMisses(w)
    PROVE  PlacesOK'
<1>1. UNCHANGED <<queue, pending, fair, status>> /\ me[w].pc \in {"arm", "steal"}
  BY DEF StealMisses, Stealing, work
<1>2. CASE me' = [me EXCEPT ![w].at = @ + 1]
  <2>1. \A v \in Workers : me'[v].pc = me[v].pc /\ me'[v].node = me[v].node
    BY <1>2 DEF TypeOK
  <2>2. \A v \in Workers : Calm(v)
    BY <2>1 DEF Calm
  <2> QED BY <1>1, <2>2, Calmly
<1>3. CASE Goto(w, IF me[w].pc = "arm" THEN "token" ELSE "snap")
  <2>1. me[w].pc = "arm" => fair[w]
    BY DEF PlacesOK, ArmOK, Arming
  <2>2. CASE me[w].pc = "arm"
    BY <1>1, <1>3, <2>1, <2>2, Names, Going
  <2>3. CASE me[w].pc # "arm"
    BY <1>1, <1>3, <2>3, Names, Going
  <2> QED BY <2>2, <2>3
<1> QED BY <1>2, <1>3 DEF StealMisses

----------------------------------------------------------------------------
\* Parking and waking.
LEMMA PlacesParking ==
    ASSUME TypeOK, PlacesOK, NEW w \in Workers,
           Snapshot(w) \/ Pause(w) \/ Scan(w) \/ Lock(w) \/ Park(w) \/ Wake(w)
    PROVE  PlacesOK'
<1>1. UNCHANGED <<queue, pending, fair, status>>
  BY DEF Snapshot, Pause, Scan, Lock, Park, Wake, work
<1>2. me[w] \in MeSet /\ me \in [Workers -> MeSet]
  BY DEF TypeOK, MeSet
<1>3. CASE Snapshot(w)
  <2>1. PICK r : r = [At("pause") EXCEPT !.snap = unpauseEpoch]
    OBVIOUS
  <2>2. r.pc = "pause"
    BY <2>1 DEF At
  <2>3. \A v \in Workers : me'[v] = IF v = w THEN r ELSE me[v]
    BY <1>2, <1>3, <2>1 DEF Snapshot
  <2>4. \A v \in Workers : Calm(v)
    BY <1>3, <2>2, <2>3 DEF Calm, Snapshot
  <2> QED BY <1>1, <2>4, Calmly
<1>4. CASE Pause(w)
  <2>1. \A v \in Workers : me'[v] = IF v = w THEN [me[w] EXCEPT !.pc = "scan"] ELSE me[v]
    BY <1>2, <1>4 DEF Pause
  <2>2. me'[w].pc = "scan"
    BY <1>2, <2>1 DEF MeSet
  <2>3. \A v \in Workers : Calm(v)
    BY <1>4, <2>1, <2>2 DEF Calm, Pause
  <2> QED BY <1>1, <2>3, Calmly
<1>5. CASE Scan(w)
  <2>1. CASE Goto(w, "slow")
    BY <1>1, <1>5, <2>1, Names, Going DEF Scan
  <2>2. CASE me' = [me EXCEPT ![w].at = @ + 1]
    <3>1. \A v \in Workers : me'[v].pc = me[v].pc /\ me'[v].node = me[v].node
      BY <2>2 DEF TypeOK
    <3>2. \A v \in Workers : Calm(v)
      BY <3>1 DEF Calm
    <3> QED BY <1>1, <3>2, Calmly
  <2>3. CASE me' = [me EXCEPT ![w].at = 0, ![w].pc = "lock"]
    <3>1. PICK z : z = [me EXCEPT ![w].at = 0]
      OBVIOUS
    <3>2. z \in [Workers -> MeSet] /\ \A v \in Workers \ {w} : z[v] = me[v]
      BY <1>2, <3>1, Constants DEF MeSet
    <3>3. me' = [z EXCEPT ![w].pc = "lock"]
      BY <2>3, <3>1
    <3>4. me'[w].pc = "lock" /\ \A v \in Workers \ {w} : me'[v] = me[v]
      BY <3>2, <3>3 DEF MeSet
    <3>5. \A v \in Workers : Calm(v)
      BY <1>5, <3>4 DEF Calm, Scan
    <3> QED BY <1>1, <3>5, Calmly
  <2> QED BY <1>5, <2>1, <2>2, <2>3 DEF Scan
<1>6. CASE Lock(w)
  BY <1>1, <1>6, Names, Going DEF Lock
<1>7. CASE Park(w)
  BY <1>1, <1>7, Names, Going DEF Park
<1>8. CASE Wake(w)
  BY <1>1, <1>8, Names, Going DEF Wake
<1> QED BY <1>3, <1>4, <1>5, <1>6, <1>7, <1>8

LEMMA PlacesDispatch ==
    ASSUME TypeOK, PlacesOK, NEW d \in Threads, Dispatch(d)
    PROVE  PlacesOK'
<1>1. UNCHANGED <<queue, pending, fair, status>>
  BY DEF Dispatch, LoadPause, LoadUnpause, Cas, Count, Ring, Dispatched, work
<1>2. CASE me' = me
  BY <1>1, <1>2, Same
<1>3. ASSUME NEW v \in Workers, Signal(v) PROVE PlacesOK'
  BY <1>1, <1>3, SignalCalm, Calmly
<1>4. disp[d].target \in Workers /\ disp[d].at \in Nat /\ disp[d].target \in Nat
  <2>1. disp[d] \in DispSet
    BY DEF TypeOK, DispSet
  <2>2. disp[d].target \in Workers /\ disp[d].at \in 0 .. N
    BY <2>1 DEF DispSet
  <2>3. N \in Nat
    BY Constants
  <2>4. disp[d].at \in Nat
    BY <2>2, <2>3
  <2>5. disp[d].target \in Nat
    BY <2>2, Constants
  <2> QED BY <2>2, <2>4, <2>5
<1>5. (disp[d].target + disp[d].at + 1) % N \in Workers
  BY <1>4, Mod
<1>6. CASE Ring(d)
  BY <1>2, <1>3, <1>5, <1>6 DEF Ring
<1>7. CASE Dispatched(d)
  BY <1>2, <1>3, <1>4, <1>7 DEF Dispatched, SignalTarget
<1> QED BY <1>2, <1>6, <1>7 DEF Dispatch, LoadPause, LoadUnpause, Cas, Count

LEMMA PlacesRequestStop ==
    ASSUME TypeOK, PlacesOK, RequestStop PROVE PlacesOK'
<1>1. UNCHANGED <<queue, pending, fair, status>>
  BY DEF RequestStop, work
<1>2. CASE me' = me
  BY <1>1, <1>2, Same
<1>3. CASE ~(stopper < N) /\ Signal(stopper - N)
  <2>1. stopper \in Nat /\ stopper < 2 * N
    BY Constants DEF TypeOK, RequestStop
  <2>2. stopper - N \in Workers
    BY <1>3, <2>1, Constants DEF Workers
  <2> QED BY <1>1, <1>3, <2>2, SignalCalm, Calmly
<1> QED BY <1>2, <1>3 DEF RequestStop

----------------------------------------------------------------------------
LEMMA PlacesComplete ==
    ASSUME TypeOK, PlacesOK, NEW w \in Workers, Complete(w)
    PROVE  PlacesOK' /\ me[w].node \in Tasks /\ status[me[w].node] = "running"
<1>1. me[w].pc = "run" /\ me[w].node \in Tasks /\ status[me[w].node] = "running"
  BY DEF Complete, PlacesOK, RunOK
<1>2. me'[w].pc = "fast" /\ \A v \in Workers \ {w} : me'[v] = me[v]
  <2>1. At("fast").pc = "fast"
    BY Names, Fields
  <2> QED BY <2>1 DEF Complete, Goto, TypeOK
<1>3. \A t \in Tasks : status'[t] = IF t = me[w].node THEN "done" ELSE status[t]
  BY <1>1 DEF Complete, Status, TypeOK
<1>4. UNCHANGED <<queue, pending, fair>>
  BY DEF Complete
<1>5. Disjoint(queue)' /\ Elems(queue)' = Elems(queue)
  BY <1>4 DEF PlacesOK, Disjoint, Elems
<1>6. \A v \in Workers : Holds(v)' <=> Holds(v)
  BY <1>1, <1>2 DEF Holds
<1>7. \A n \in Nodes : There(n)' <=> There(n)
  BY <1>1, <1>2, <1>4, <1>5, <1>6 DEF There, Holds
<1>8. SlotOK'
  BY <1>4, <1>5 DEF PlacesOK, SlotOK
<1>9. HandOK'
  BY <1>1, <1>2, <1>4, <1>5 DEF PlacesOK, HandOK, Holds
<1>10. StatusOK'
  BY <1>1, <1>3, <1>7, Constants DEF PlacesOK, StatusOK
<1>11. RunOK'
  BY <1>1, <1>2, <1>3 DEF PlacesOK, RunOK
<1>12. FlagOK'
  BY <1>4, <1>7, Constants DEF PlacesOK, FlagOK
<1>13. ArmOK'
  BY <1>2, <1>4 DEF PlacesOK, ArmOK, Arming
<1> QED BY <1>1, <1>5, <1>8, <1>9, <1>10, <1>11, <1>12, <1>13 DEF PlacesOK

LEMMA PlacesNext == ASSUME IInv, [Next]_vars PROVE PlacesOK'
<1> USE DEF IInv
<1>1. ASSUME NEW w \in Workers, Worker(w) PROVE PlacesOK'
  <2>1. CASE \E t \in Tasks : PlaceOwn(w, t)
    BY <2>1, PlacesPlaceOwn
  <2> QED BY <1>1, <2>1, PlacesPopFast, PlacesSlow, PlacesArmToken, PlacesArmReturn,
             PlacesOwn, PlacesStealGets, PlacesStealMisses, PlacesParking, PlacesComplete
          DEF Worker
<1>2. CASE UNCHANGED vars
  BY <1>2, Same DEF vars, work
<1>3. CASE Finished
  BY <1>2, <1>3 DEF Finished
<1> QED BY <1>1, <1>2, <1>3, PlacesDispatch, PlacesPlaceOut, PlacesRequestStop DEF Next

(***************************************************************************)
(* The theorems.                                                           *)
(***************************************************************************)

\* The invariant: every node is in one place at most, the behaviors that are
\* somewhere are the ready ones, and a token that is somewhere has its
\* worker's flag down (boc_sched_dispatch, the pops, boc_sched_steal).
THEOREM Scheduler_Invariance == Spec => []IInv
<1>1. Init => IInv
  BY TypeInit, PlacesInit DEF IInv
<1>2. IInv /\ [Next]_vars => IInv'
  BY TypeNext, PlacesNext DEF IInv
<1> QED BY <1>1, <1>2, PTL DEF Spec

\* Every reachable state is well typed.
THEOREM Scheduler_TypeCorrect == Spec => []TypeOK
<1>1. IInv => TypeOK
  BY DEF IInv
<1> QED BY <1>1, Scheduler_Invariance, PTL

----------------------------------------------------------------------------
QueuePlaces(n) == UNION {{<<w, i>> : i \in {j \in DOMAIN queue[w] : queue[w][j] = n}}
                           : w \in Workers}
SlotPlaces(n) == {<<w, "pending">> : w \in {v \in Workers : pending[v] = n}}
HandPlaces(n) == {<<w, "hand">> : w \in {v \in Workers : Holds(v) /\ me[v].node = n}}

LEMMA Thrice ==
    ASSUME NEW n PROVE Places(n) = QueuePlaces(n) \cup SlotPlaces(n) \cup HandPlaces(n)
BY Zenon DEF Places, QueuePlaces, SlotPlaces, HandPlaces, Holds

\* Two places of one node are the same one.
LEMMA PlaceUnique ==
    ASSUME IInv, NEW n \in Nodes, NEW p \in Places(n), NEW q \in Places(n)
    PROVE  p = q
<1>1. PlacesOK /\ queue \in Queues /\ n # None
  BY Constants DEF IInv, TypeOK, Queues
<1>2. /\ p \in QueuePlaces(n) \/ p \in SlotPlaces(n) \/ p \in HandPlaces(n)
      /\ q \in QueuePlaces(n) \/ q \in SlotPlaces(n) \/ q \in HandPlaces(n)
  BY Thrice
<1>3. \A z \in QueuePlaces(n) :
        \E w \in Workers : \E i \in 1 .. Len(queue[w]) : queue[w][i] = n /\ z = <<w, i>>
  <2> TAKE z \in QueuePlaces(n)
  <2>1. PICK w \in Workers :
          z \in {<<w, i>> : i \in {j \in DOMAIN queue[w] : queue[w][j] = n}}
    BY DEF QueuePlaces
  <2>2. DOMAIN queue[w] = 1 .. Len(queue[w])
    BY <1>1 DEF Queues
  <2> QED BY <2>1, <2>2
<1>4. \A z \in SlotPlaces(n) : \E w \in Workers : pending[w] = n /\ z = <<w, "pending">>
  BY DEF SlotPlaces
<1>5. \A z \in HandPlaces(n) : \E w \in Workers : Holds(w) /\ me[w].node = n
                                                   /\ z = <<w, "hand">>
  BY DEF HandPlaces
<1>6. QueuePlaces(n) # {} => n \in Elems(queue)
  BY <1>3 DEF Elems
<1>7. \A y, z \in QueuePlaces(n) : y = z
  <2> SUFFICES ASSUME NEW y \in QueuePlaces(n), NEW z \in QueuePlaces(n) PROVE y = z
    OBVIOUS
  <2>1. PICK v \in Workers : \E i \in 1 .. Len(queue[v]) : queue[v][i] = n /\ y = <<v, i>>
    BY <1>3
  <2>2. PICK i \in 1 .. Len(queue[v]) : queue[v][i] = n /\ y = <<v, i>>
    BY <2>1
  <2>3. PICK w \in Workers : \E j \in 1 .. Len(queue[w]) : queue[w][j] = n /\ z = <<w, j>>
    BY <1>3
  <2>4. PICK j \in 1 .. Len(queue[w]) : queue[w][j] = n /\ z = <<w, j>>
    BY <2>3
  <2>5. v = w /\ i = j
    BY <1>1, <2>2, <2>4 DEF PlacesOK, Disjoint
  <2> QED BY <2>2, <2>4, <2>5
<1>8. \A y, z \in SlotPlaces(n) : y = z
  BY <1>1, <1>4 DEF PlacesOK, SlotOK
<1>9. \A y, z \in HandPlaces(n) : y = z
  BY <1>1, <1>5 DEF PlacesOK, HandOK
<1>10. SlotPlaces(n) # {} => n \notin Elems(queue)
  BY <1>1, <1>4 DEF PlacesOK, SlotOK
<1>11. HandPlaces(n) # {} => n \notin Elems(queue)
  BY <1>1, <1>5 DEF PlacesOK, HandOK
<1>12. SlotPlaces(n) = {} \/ HandPlaces(n) = {}
  BY <1>1, <1>4, <1>5 DEF PlacesOK, HandOK
<1> QED BY <1>2, <1>6, <1>7, <1>8, <1>9, <1>10, <1>11, <1>12

LEMMA PlaceThere ==
    ASSUME IInv, NEW n \in Nodes PROVE Places(n) # {} <=> There(n)
<1>1. \A w \in Workers : DOMAIN queue[w] = 1 .. Len(queue[w])
  BY DEF IInv, TypeOK
<1>2. QueuePlaces(n) # {} <=> n \in Elems(queue)
  <2>1. ASSUME NEW z \in QueuePlaces(n) PROVE n \in Elems(queue)
    <3>1. PICK w \in Workers :
            z \in {<<w, i>> : i \in {j \in DOMAIN queue[w] : queue[w][j] = n}}
      BY <2>1 DEF QueuePlaces
    <3> QED BY <1>1, <3>1 DEF Elems
  <2>2. ASSUME n \in Elems(queue) PROVE QueuePlaces(n) # {}
    <3>1. PICK w \in Workers : \E i \in 1 .. Len(queue[w]) : queue[w][i] = n
      BY <2>2 DEF Elems
    <3>2. PICK i \in 1 .. Len(queue[w]) : queue[w][i] = n
      BY <3>1
    <3>3. <<w, i>> \in {<<w, k>> : k \in {j \in DOMAIN queue[w] : queue[w][j] = n}}
      BY <1>1, <3>2
    <3>4. <<w, i>> \in QueuePlaces(n)
      BY <3>3 DEF QueuePlaces
    <3> QED BY <3>4
  <2> QED BY <2>1, <2>2
<1>3. SlotPlaces(n) # {} <=> \E w \in Workers : pending[w] = n
  BY DEF SlotPlaces
<1>4. HandPlaces(n) # {} <=> \E w \in Workers : Holds(w) /\ me[w].node = n
  BY DEF HandPlaces
<1> QED BY <1>2, <1>3, <1>4, Thrice DEF There

LEMMA PlaceCount ==
    ASSUME IInv, NEW n \in Nodes
    PROVE  Cardinality(Places(n)) = IF There(n) THEN 1 ELSE 0
<1>1. CASE There(n)
  <2>1. PICK p : p \in Places(n)
    BY <1>1, PlaceThere
  <2>2. Places(n) = {p}
    BY <2>1, PlaceUnique
  <2> QED BY <1>1, <2>2, FS_Singleton
<1>2. CASE ~There(n)
  <2>1. Places(n) = {}
    BY <1>2, PlaceThere
  <2> QED BY <1>2, <2>1, FS_EmptySet
<1> QED BY <1>1, <1>2

\* A behavior that was dispatched and not taken yet is in exactly one queue,
\* slot or hand, and every other behavior is in none.
THEOREM Scheduler_InOnePlace == Spec => []InOnePlace
<1>1. ASSUME IInv PROVE InOnePlace
  <2> SUFFICES ASSUME NEW t \in Tasks
               PROVE  Cardinality(Places(t)) = IF status[t] = "ready" THEN 1 ELSE 0
    BY DEF InOnePlace
  <2>1. t \in Nodes
    BY Constants
  <2>2. There(t) <=> status[t] = "ready"
    BY <1>1 DEF IInv, PlacesOK, StatusOK
  <2> QED BY <1>1, <2>1, <2>2, PlaceCount
<1> QED BY <1>1, Scheduler_Invariance, PTL

\* A fairness token is linked into one queue at most, and into none as long
\* as the flag that would queue it again is up.
THEOREM Scheduler_TokenOnce == Spec => []TokenOnce
<1>1. ASSUME IInv PROVE TokenOnce
  <2> SUFFICES ASSUME NEW w \in Workers
               PROVE  Cardinality(Places(w)) + (IF fair[w] THEN 1 ELSE 0) <= 1
    BY DEF TokenOnce, Token
  <2>1. w \in Nodes /\ (fair[w] => ~There(w))
    BY <1>1, Constants DEF IInv, PlacesOK, FlagOK
  <2>2. Cardinality(Places(w)) = IF There(w) THEN 1 ELSE 0
    BY <1>1, <2>1, PlaceCount
  <2> QED BY <2>1, <2>2
<1> QED BY <1>1, Scheduler_Invariance, PTL

----------------------------------------------------------------------------
\* Steps of the pool.
LEMMA Moves ==
    ASSUME NEW t \in Tasks, NEW a, NEW b, status[t] = a, Status(t, b),
           <<a, b>> \in {<<"new", "ready">>, <<"ready", "running">>, <<"running", "done">>}
    PROVE  Pool!Next
<1>1. Pool!Move(t, a, b)
  BY DEF Pool!Move, Status
<1>2. CASE a = "new" /\ b = "ready"
  BY <1>1, <1>2 DEF Pool!Dispatch, Pool!Next
<1>3. CASE a = "ready" /\ b = "running"
  BY <1>1, <1>3 DEF Pool!Take, Pool!Next
<1>4. CASE a = "running" /\ b = "done"
  BY <1>1, <1>4 DEF Pool!Complete, Pool!Next
<1> QED BY <1>2, <1>3, <1>4

LEMMA TakeMoves ==
    ASSUME NEW w \in Workers, NEW n, Take(w, n), n \in Tasks => status[n] = "ready"
    PROVE  Pool!Next \/ UNCHANGED status
<1>1. CASE n \in Tasks
  BY <1>1, Moves DEF Take
<1>2. CASE n \notin Tasks
  BY <1>2 DEF Take
<1> QED BY <1>1, <1>2

LEMMA WorkerMoves ==
    ASSUME IInv, NEW w \in Workers, Worker(w)
    PROVE  Pool!Next \/ UNCHANGED status
<1>t. TypeOK /\ PlacesOK
  BY DEF IInv
<1>1. ASSUME NEW k, PopPending(w, k), me[w].pc \in {"fast", "own"}
      PROVE  Pool!Next \/ UNCHANGED status
  BY <1>t, <1>1, PendingTaken, TakeMoves
<1>2. ASSUME NEW k, PopQueue(w, k), me[w].pc \in {"fast", "own"}
      PROVE  Pool!Next \/ UNCHANGED status
  BY <1>t, <1>2, HeadTaken, TakeMoves
<1>3. CASE PopFast(w) \/ Own(w)
  BY <1>1, <1>2, <1>3 DEF PopFast, Own, work
<1>4. CASE ArmReturn(w)
  <2>1. me[w].node \in Tasks => There(me[w].node)
    BY <1>4 DEF ArmReturn, There, Holds
  <2>2. me[w].node \in Tasks => status[me[w].node] = "ready"
    BY <1>t, <2>1 DEF PlacesOK, StatusOK
  <2> QED BY <1>4, <2>2, TakeMoves DEF ArmReturn
<1>5. CASE StealGets(w)
  <2>1. PICK n : n = Head(queue[Victim(w)])
    OBVIOUS
  <2>2. There(n)
    BY <1>t, <1>5, <2>1, StolenFrom DEF There
  <2>3. n \in Tasks => status[n] = "ready"
    BY <1>t, <2>2 DEF PlacesOK, StatusOK
  <2>4. UNCHANGED status \/ Take(w, n)
    BY <1>5, <2>1 DEF StealGets
  <2> QED BY <2>3, <2>4, TakeMoves
<1>6. CASE Complete(w)
  BY <1>t, <1>6, PlacesComplete, Moves DEF Complete
<1>7. ASSUME NEW t \in Tasks, PlaceOwn(w, t) PROVE Pool!Next
  BY <1>7, Moves DEF PlaceOwn
<1>8. CASE UNCHANGED status
  BY <1>8
<1> QED BY <1>3, <1>4, <1>5, <1>6, <1>7, <1>8
        DEF Worker, Slow, ArmToken, StealMisses, Snapshot, Pause, Scan, Lock, Park, Wake, work

\* The scheduler is a worker pool: a behavior is dispatched once, taken once
\* by one worker, and over once, through evictions, steals and the fairness
\* arm.
THEOREM Scheduler_ImplementsPool == Spec => ImplementsPool
<1>1. Init => Pool!Init
  BY DEF Init, Pool!Init
<1>2. IInv /\ [Next]_vars => [Pool!Next]_status
  <2> SUFFICES ASSUME IInv, [Next]_vars PROVE Pool!Next \/ UNCHANGED status
    OBVIOUS
  <2>1. ASSUME NEW d \in Threads, Dispatch(d) PROVE UNCHANGED status
    BY <2>1 DEF Dispatch, LoadPause, LoadUnpause, Cas, Count, Ring, Dispatched, work
  <2>2. ASSUME NEW t \in Tasks, PlaceOut(t) PROVE Pool!Next
    BY <2>2, Moves DEF PlaceOut
  <2>3. CASE RequestStop \/ Finished \/ UNCHANGED vars
    BY <2>3 DEF RequestStop, Finished, vars, work
  <2> QED BY <2>1, <2>2, <2>3, WorkerMoves DEF Next
<1> QED BY <1>1, <1>2, Scheduler_Invariance, PTL DEF Spec, ImplementsPool, Pool!Spec
=============================================================================
