------------------------ MODULE BehaviorQueue_proofs ------------------------
(***************************************************************************)
(* boc_bq for any number of queues, nodes, enqueuing threads and workers,  *)
(* whoever steals from whom.                                               *)
(*                                                                         *)
(* Two accounts are kept.  No node has two references: it is in a link, in *)
(* the locals of one thread or spare; a node that is in nobody's queue may *)
(* keep a stale link, which counts for nothing.  And no slot that ends     *)
(* something has two threads or queues that may fill it next.  Each access *)
(* moves one reference or one end; a consumer that holds the front of a    *)
(* queue keeps the empty slot of that front to itself.                     *)
(***************************************************************************)
EXTENDS BehaviorQueue, TLAPS, WellFoundedInduction, FiniteSetTheorems, SequenceTheorems

\* n is one of the nodes t has in its hands.
Has(t, n) == /\ n # Null
             /\ \/ n = me[t].old \/ n = me[t].from
                \/ n = me[t].start \/ n = me[t].got

\* t is the one to fill slot s, or to give it to a queue.
Fills(t, s) == /\ s # Null
               /\ \/ s = me[t].slot \/ s = me[t].end
                  \/ me[t].pc \in {"clear", "swap"} /\ s = me[t].to

\* The link in s is what is left of an earlier use of the node.
Stale(s) == \/ s \in spare
            \/ \E t \in Threads : s = me[t].got
            \/ \E t \in Threads : me[t].pc = "clear" /\ s = me[t].to

Links(s) == link[s] # Null /\ ~Stale(s)

\* Which locals are in use where.
Shape(t) ==
  /\ me[t].q \in Queues \/ me[t].pc \in {"idle", "run"}
  /\ me[t].old # Null <=> me[t].pc \in {"next", "advance", "cas", "restore", "detach"}
  /\ me[t].from # Null <=> me[t].pc \in {"clear", "swap", "publish"}
  /\ me[t].to # Null <=> me[t].pc \in {"clear", "swap", "publish"}
  /\ me[t].slot # Null <=> me[t].pc = "publish"
  /\ me[t].start # Null <=> me[t].end # Null
  /\ me[t].pc \in {"take", "spread"} => me[t].start # Null
  /\ me[t].start # Null => me[t].pc \in {"take", "spread", "clear", "swap", "publish"}
  /\ me[t].got # Null => me[t].pc \in {"spread", "clear", "swap", "publish", "run"}
  /\ me[t].pc = "run" => me[t].got # Null
  /\ me[t].pc = "advance" => me[t].new = link[me[t].old] /\ me[t].new # Null

\* The locals of one thread differ.
OneHand(t) ==
  /\ me[t].from # Null => me[t].from # me[t].start /\ me[t].from # me[t].got
  /\ me[t].start # Null => me[t].start # me[t].got
  /\ me[t].slot # Null => me[t].slot # me[t].end
  /\ me[t].pc \in {"clear", "swap"} => me[t].to # me[t].end

\* What is to be filled is empty; only an end that Clear has still to write
\* may be stale, and then it is a segment of one node.
EmptyOK(t) ==
  /\ me[t].slot # Null => link[me[t].slot] = Null
  /\ me[t].end # Null => link[me[t].end] = Null
  /\ me[t].pc = "swap" => link[me[t].to] = Null
  /\ me[t].pc = "clear" => link[me[t].to] = Null \/ me[t].to = me[t].from

\* Who holds the front of a queue has its empty slot alone.
HeldOK(t) ==
  me[t].old # Null =>
    /\ link[me[t].q] = Null
    /\ \A r \in Queues : back[r] # me[t].q
    /\ \A u \in Threads : ~Fills(u, me[t].q)
    /\ \A u \in Threads : me[u].old # Null /\ me[u].q = me[t].q => t = u

ThreadOK(t) == Shape(t) /\ OneHand(t) /\ EmptyOK(t) /\ HeldOK(t)

\* One reference to each node.
HandsOK ==
  /\ \A t, u \in Threads : \A n \in Nodes : Has(t, n) /\ Has(u, n) => t = u
  /\ \A t \in Threads : \A n \in Nodes : Has(t, n) => n \notin spare

LinksOK ==
  /\ \A r, s \in Slots : Links(r) /\ Links(s) /\ link[r] = link[s] => r = s
  /\ \A s \in Slots : Links(s) => link[s] \notin spare
  /\ \A s \in Slots : \A t \in Threads : Links(s) => ~Has(t, link[s])

\* One to fill each end.
BacksOK ==
  /\ \A q, r \in Queues : back[q] = back[r] => q = r
  /\ \A q \in Queues : /\ back[q] \in Nodes \cup {q} /\ link[back[q]] = Null
                       /\ back[q] \notin spare
  /\ \A q \in Queues : \A t \in Threads : ~Fills(t, back[q]) /\ back[q] # me[t].got

FillsOK ==
  /\ \A t, u \in Threads : \A s \in Slots : Fills(t, s) /\ Fills(u, s) => t = u
  /\ \A t, u \in Threads : \A s \in Slots : Fills(u, s) => s # me[t].got
  /\ \A t \in Threads : \A s \in Slots : Fills(t, s) => s \notin spare

QInv == /\ TypeOK /\ (\A t \in Threads : ThreadOK(t))
        /\ HandsOK /\ LinksOK /\ BacksOK /\ FillsOK

-----------------------------------------------------------------------------
LEMMA QInit == Init => QInv
<1> SUFFICES ASSUME Init PROVE QInv
  OBVIOUS
<1>1. /\ \A s \in Slots : link[s] = Null
      /\ \A q \in Queues : back[q] = q
      /\ \A t \in Threads : me[t] = Fresh
      /\ spare = Nodes
  BY DEF Init
<1>2. TypeOK
  BY DEF Init, TypeOK, Fresh, PCs, Slots
<1>3. /\ \A t \in Threads : \A n \in Nodes : ~Has(t, n)
      /\ \A t \in Threads : \A s \in Slots : ~Fills(t, s)
      /\ \A s \in Slots : ~Links(s)
  BY <1>1, BQAssumption DEF Has, Fills, Links, Fresh
<1>4. \A t \in Threads : ThreadOK(t)
  BY <1>1 DEF Fresh, ThreadOK, Shape, OneHand, EmptyOK, HeldOK
<1>5. HandsOK /\ LinksOK
  BY <1>3 DEF HandsOK, LinksOK
<1>6. BacksOK /\ FillsOK
  BY <1>1, <1>3, BQAssumption DEF BacksOK, FillsOK, Slots, Fresh
<1> QED BY <1>2, <1>4, <1>5, <1>6 DEF QInv

\* The locals have the types of TypeOK.
Local == [pc : PCs, q : Queues \cup {Null}, slot : Slots \cup {Null},
          old : Nodes \cup {Null}, new : Nodes \cup {Null},
          from : Nodes \cup {Null}, to : Nodes \cup {Null},
          start : Nodes \cup {Null}, end : Nodes \cup {Null},
          got : Nodes \cup {Null}]

LEMMA TypeIs == TypeOK <=> /\ link \in [Slots -> Nodes \cup {Null}]
                           /\ back \in [Queues -> Slots]
                           /\ spare \subseteq Nodes
                           /\ me \in [Threads -> Local]
BY DEF TypeOK, Local

LEMMA Typed ==
    ASSUME TypeOK, NEW t \in Threads, NEW m \in Local,
           me' = [me EXCEPT ![t] = m],
           link' \in [Slots -> Nodes \cup {Null}],
           back' \in [Queues -> Slots], spare' \subseteq Nodes
    PROVE  /\ TypeOK' /\ me'[t] = m
           /\ \A u \in Threads : u # t => me'[u] = me[u]
<1>1. me \in [Threads -> Local]
  BY TypeIs
<1>2. me' \in [Threads -> Local]
  BY <1>1
<1>3. TypeOK'
  BY <1>2 DEF TypeOK, Local
<1> QED BY <1>1, <1>3

LEMMA Locals ==
    ASSUME TypeOK, NEW t \in Threads
    PROVE  /\ me[t] \in Local
           /\ me[t].q \in Queues \cup {Null} /\ me[t].slot \in Slots \cup {Null}
           /\ me[t].old \in Nodes \cup {Null} /\ me[t].new \in Nodes \cup {Null}
           /\ me[t].from \in Nodes \cup {Null} /\ me[t].to \in Nodes \cup {Null}
           /\ me[t].start \in Nodes \cup {Null} /\ me[t].end \in Nodes \cup {Null}
           /\ me[t].got \in Nodes \cup {Null}
<1>1. me[t] \in Local
  BY TypeIs
<1> QED BY <1>1 DEF Local

\* The assignments to the locals of one thread.
At(m, p) == [m EXCEPT !.pc = p]
LEMMA AtIs ==
    ASSUME NEW m \in Local, NEW p \in PCs
    PROVE  /\ At(m, p) \in Local
           /\ At(m, p).pc = p /\ At(m, p).q = m.q
           /\ At(m, p).old = m.old /\ At(m, p).new = m.new
           /\ At(m, p).from = m.from /\ At(m, p).to = m.to
           /\ At(m, p).slot = m.slot /\ At(m, p).start = m.start
           /\ At(m, p).end = m.end /\ At(m, p).got = m.got
<1>1. At(m, p) \in Local
  BY DEF Local, At
<1>2. /\ At(m, p).pc = p /\ At(m, p).q = m.q
      /\ At(m, p).old = m.old /\ At(m, p).new = m.new
      /\ At(m, p).from = m.from /\ At(m, p).to = m.to
  BY DEF Local, At
<1>3. /\ At(m, p).slot = m.slot /\ At(m, p).start = m.start
      /\ At(m, p).end = m.end /\ At(m, p).got = m.got
  BY DEF Local, At
<1> QED BY <1>1, <1>2, <1>3

Publishing(m, p, s) == [m EXCEPT !.pc = p, !.slot = s]
LEMMA PublishingIs ==
    ASSUME NEW m \in Local, NEW p \in PCs,
           NEW s \in Slots \cup {Null}
    PROVE  /\ Publishing(m, p, s) \in Local
           /\ Publishing(m, p, s).pc = p /\ Publishing(m, p, s).q = m.q
           /\ Publishing(m, p, s).old = m.old /\ Publishing(m, p, s).new = m.new
           /\ Publishing(m, p, s).from = m.from /\ Publishing(m, p, s).to = m.to
           /\ Publishing(m, p, s).slot = s /\ Publishing(m, p, s).start = m.start
           /\ Publishing(m, p, s).end = m.end /\ Publishing(m, p, s).got = m.got
<1>1. Publishing(m, p, s) \in Local
  BY DEF Local, Publishing
<1>2. /\ Publishing(m, p, s).pc = p /\ Publishing(m, p, s).q = m.q
      /\ Publishing(m, p, s).old = m.old /\ Publishing(m, p, s).new = m.new
      /\ Publishing(m, p, s).from = m.from /\ Publishing(m, p, s).to = m.to
  BY DEF Local, Publishing
<1>3. /\ Publishing(m, p, s).slot = s /\ Publishing(m, p, s).start = m.start
      /\ Publishing(m, p, s).end = m.end /\ Publishing(m, p, s).got = m.got
  BY DEF Local, Publishing
<1> QED BY <1>1, <1>2, <1>3

Published(m, p) == [m EXCEPT !.pc = p, !.from = Null, !.to = Null, !.slot = Null]
LEMMA PublishedIs ==
    ASSUME NEW m \in Local, NEW p \in PCs
    PROVE  /\ Published(m, p) \in Local
           /\ Published(m, p).pc = p /\ Published(m, p).q = m.q
           /\ Published(m, p).old = m.old /\ Published(m, p).new = m.new
           /\ Published(m, p).from = Null /\ Published(m, p).to = Null
           /\ Published(m, p).slot = Null /\ Published(m, p).start = m.start
           /\ Published(m, p).end = m.end /\ Published(m, p).got = m.got
<1>1. Published(m, p) \in Local
  BY DEF Local, Published
<1>2. /\ Published(m, p).pc = p /\ Published(m, p).q = m.q
      /\ Published(m, p).old = m.old /\ Published(m, p).new = m.new
      /\ Published(m, p).from = Null /\ Published(m, p).to = Null
  BY DEF Local, Published
<1>3. /\ Published(m, p).slot = Null /\ Published(m, p).start = m.start
      /\ Published(m, p).end = m.end /\ Published(m, p).got = m.got
  BY DEF Local, Published
<1> QED BY <1>1, <1>2, <1>3

Enqueuing(m, p, q, f, e, x, y) ==
  [m EXCEPT !.pc = p, !.q = q, !.from = f, !.to = e, !.start = x, !.end = y]
LEMMA EnqueuingTyped ==
    ASSUME NEW m \in Local, NEW p \in PCs,
           NEW q \in Queues \cup {Null}, NEW f \in Nodes \cup {Null},
           NEW e \in Nodes \cup {Null}, NEW x \in Nodes \cup {Null},
           NEW y \in Nodes \cup {Null}
    PROVE  Enqueuing(m, p, q, f, e, x, y) \in Local
BY ZenonT(30) DEF Local, Enqueuing
LEMMA EnqueuingIs ==
    ASSUME NEW m \in Local, NEW p \in PCs,
           NEW q \in Queues \cup {Null}, NEW f \in Nodes \cup {Null},
           NEW e \in Nodes \cup {Null}, NEW x \in Nodes \cup {Null},
           NEW y \in Nodes \cup {Null}
    PROVE  /\ Enqueuing(m, p, q, f, e, x, y) \in Local
           /\ Enqueuing(m, p, q, f, e, x, y).pc = p /\ Enqueuing(m, p, q, f, e, x, y).q = q
           /\ Enqueuing(m, p, q, f, e, x, y).old = m.old /\ Enqueuing(m, p, q, f, e, x, y).new = m.new
           /\ Enqueuing(m, p, q, f, e, x, y).from = f /\ Enqueuing(m, p, q, f, e, x, y).to = e
           /\ Enqueuing(m, p, q, f, e, x, y).slot = m.slot /\ Enqueuing(m, p, q, f, e, x, y).start = x
           /\ Enqueuing(m, p, q, f, e, x, y).end = y /\ Enqueuing(m, p, q, f, e, x, y).got = m.got
<1>1. Enqueuing(m, p, q, f, e, x, y) \in Local
  BY EnqueuingTyped
<1>2. /\ Enqueuing(m, p, q, f, e, x, y).pc = p /\ Enqueuing(m, p, q, f, e, x, y).q = q
      /\ Enqueuing(m, p, q, f, e, x, y).old = m.old /\ Enqueuing(m, p, q, f, e, x, y).new = m.new
      /\ Enqueuing(m, p, q, f, e, x, y).from = f /\ Enqueuing(m, p, q, f, e, x, y).to = e
  BY DEF Local, Enqueuing
<1>3. /\ Enqueuing(m, p, q, f, e, x, y).slot = m.slot /\ Enqueuing(m, p, q, f, e, x, y).start = x
      /\ Enqueuing(m, p, q, f, e, x, y).end = y /\ Enqueuing(m, p, q, f, e, x, y).got = m.got
  BY DEF Local, Enqueuing
<1> QED BY <1>1, <1>2, <1>3

Acquired(m, o, p) == [m EXCEPT !.old = o, !.pc = p]
LEMMA AcquiredIs ==
    ASSUME NEW m \in Local, NEW o \in Nodes \cup {Null},
           NEW p \in PCs
    PROVE  /\ Acquired(m, o, p) \in Local
           /\ Acquired(m, o, p).pc = p /\ Acquired(m, o, p).q = m.q
           /\ Acquired(m, o, p).old = o /\ Acquired(m, o, p).new = m.new
           /\ Acquired(m, o, p).from = m.from /\ Acquired(m, o, p).to = m.to
           /\ Acquired(m, o, p).slot = m.slot /\ Acquired(m, o, p).start = m.start
           /\ Acquired(m, o, p).end = m.end /\ Acquired(m, o, p).got = m.got
<1>1. Acquired(m, o, p) \in Local
  BY DEF Local, Acquired
<1>2. /\ Acquired(m, o, p).pc = p /\ Acquired(m, o, p).q = m.q
      /\ Acquired(m, o, p).old = o /\ Acquired(m, o, p).new = m.new
      /\ Acquired(m, o, p).from = m.from /\ Acquired(m, o, p).to = m.to
  BY DEF Local, Acquired
<1>3. /\ Acquired(m, o, p).slot = m.slot /\ Acquired(m, o, p).start = m.start
      /\ Acquired(m, o, p).end = m.end /\ Acquired(m, o, p).got = m.got
  BY DEF Local, Acquired
<1> QED BY <1>1, <1>2, <1>3

Reading(m, o, p) == [m EXCEPT !.new = o, !.pc = p]
LEMMA ReadingIs ==
    ASSUME NEW m \in Local, NEW o \in Nodes \cup {Null},
           NEW p \in PCs
    PROVE  /\ Reading(m, o, p) \in Local
           /\ Reading(m, o, p).pc = p /\ Reading(m, o, p).q = m.q
           /\ Reading(m, o, p).old = m.old /\ Reading(m, o, p).new = o
           /\ Reading(m, o, p).from = m.from /\ Reading(m, o, p).to = m.to
           /\ Reading(m, o, p).slot = m.slot /\ Reading(m, o, p).start = m.start
           /\ Reading(m, o, p).end = m.end /\ Reading(m, o, p).got = m.got
<1>1. Reading(m, o, p) \in Local
  BY DEF Local, Reading
<1>2. /\ Reading(m, o, p).pc = p /\ Reading(m, o, p).q = m.q
      /\ Reading(m, o, p).old = m.old /\ Reading(m, o, p).new = o
      /\ Reading(m, o, p).from = m.from /\ Reading(m, o, p).to = m.to
  BY DEF Local, Reading
<1>3. /\ Reading(m, o, p).slot = m.slot /\ Reading(m, o, p).start = m.start
      /\ Reading(m, o, p).end = m.end /\ Reading(m, o, p).got = m.got
  BY DEF Local, Reading
<1> QED BY <1>1, <1>2, <1>3

Stolen(m, p, x, y) == [m EXCEPT !.pc = p, !.start = x, !.end = y, !.old = Null]
LEMMA StolenIs ==
    ASSUME NEW m \in Local, NEW p \in PCs,
           NEW x \in Nodes \cup {Null}, NEW y \in Nodes \cup {Null}
    PROVE  /\ Stolen(m, p, x, y) \in Local
           /\ Stolen(m, p, x, y).pc = p /\ Stolen(m, p, x, y).q = m.q
           /\ Stolen(m, p, x, y).old = Null /\ Stolen(m, p, x, y).new = m.new
           /\ Stolen(m, p, x, y).from = m.from /\ Stolen(m, p, x, y).to = m.to
           /\ Stolen(m, p, x, y).slot = m.slot /\ Stolen(m, p, x, y).start = x
           /\ Stolen(m, p, x, y).end = y /\ Stolen(m, p, x, y).got = m.got
<1>1. Stolen(m, p, x, y) \in Local
  BY DEF Local, Stolen
<1>2. /\ Stolen(m, p, x, y).pc = p /\ Stolen(m, p, x, y).q = m.q
      /\ Stolen(m, p, x, y).old = Null /\ Stolen(m, p, x, y).new = m.new
      /\ Stolen(m, p, x, y).from = m.from /\ Stolen(m, p, x, y).to = m.to
  BY DEF Local, Stolen
<1>3. /\ Stolen(m, p, x, y).slot = m.slot /\ Stolen(m, p, x, y).start = x
      /\ Stolen(m, p, x, y).end = y /\ Stolen(m, p, x, y).got = m.got
  BY DEF Local, Stolen
<1> QED BY <1>1, <1>2, <1>3

Taken(m, p, g, x) == [m EXCEPT !.pc = p, !.got = g, !.start = x]
LEMMA TakenIs ==
    ASSUME NEW m \in Local, NEW p \in PCs,
           NEW g \in Nodes \cup {Null}, NEW x \in Nodes \cup {Null}
    PROVE  /\ Taken(m, p, g, x) \in Local
           /\ Taken(m, p, g, x).pc = p /\ Taken(m, p, g, x).q = m.q
           /\ Taken(m, p, g, x).old = m.old /\ Taken(m, p, g, x).new = m.new
           /\ Taken(m, p, g, x).from = m.from /\ Taken(m, p, g, x).to = m.to
           /\ Taken(m, p, g, x).slot = m.slot /\ Taken(m, p, g, x).start = x
           /\ Taken(m, p, g, x).end = m.end /\ Taken(m, p, g, x).got = g
<1>1. Taken(m, p, g, x) \in Local
  BY DEF Local, Taken
<1>2. /\ Taken(m, p, g, x).pc = p /\ Taken(m, p, g, x).q = m.q
      /\ Taken(m, p, g, x).old = m.old /\ Taken(m, p, g, x).new = m.new
      /\ Taken(m, p, g, x).from = m.from /\ Taken(m, p, g, x).to = m.to
  BY DEF Local, Taken
<1>3. /\ Taken(m, p, g, x).slot = m.slot /\ Taken(m, p, g, x).start = x
      /\ Taken(m, p, g, x).end = m.end /\ Taken(m, p, g, x).got = g
  BY DEF Local, Taken
<1> QED BY <1>1, <1>2, <1>3

Getting(m, p, g) == [m EXCEPT !.pc = p, !.got = g]
LEMMA GettingIs ==
    ASSUME NEW m \in Local, NEW p \in PCs,
           NEW g \in Nodes \cup {Null}
    PROVE  /\ Getting(m, p, g) \in Local
           /\ Getting(m, p, g).pc = p /\ Getting(m, p, g).q = m.q
           /\ Getting(m, p, g).old = m.old /\ Getting(m, p, g).new = m.new
           /\ Getting(m, p, g).from = m.from /\ Getting(m, p, g).to = m.to
           /\ Getting(m, p, g).slot = m.slot /\ Getting(m, p, g).start = m.start
           /\ Getting(m, p, g).end = m.end /\ Getting(m, p, g).got = g
<1>1. Getting(m, p, g) \in Local
  BY DEF Local, Getting
<1>2. /\ Getting(m, p, g).pc = p /\ Getting(m, p, g).q = m.q
      /\ Getting(m, p, g).old = m.old /\ Getting(m, p, g).new = m.new
      /\ Getting(m, p, g).from = m.from /\ Getting(m, p, g).to = m.to
  BY DEF Local, Getting
<1>3. /\ Getting(m, p, g).slot = m.slot /\ Getting(m, p, g).start = m.start
      /\ Getting(m, p, g).end = m.end /\ Getting(m, p, g).got = g
  BY DEF Local, Getting
<1> QED BY <1>1, <1>2, <1>3

Calling(m, p, q) == [m EXCEPT !.pc = p, !.q = q]
LEMMA CallingIs ==
    ASSUME NEW m \in Local, NEW p \in PCs,
           NEW q \in Queues \cup {Null}
    PROVE  /\ Calling(m, p, q) \in Local
           /\ Calling(m, p, q).pc = p /\ Calling(m, p, q).q = q
           /\ Calling(m, p, q).old = m.old /\ Calling(m, p, q).new = m.new
           /\ Calling(m, p, q).from = m.from /\ Calling(m, p, q).to = m.to
           /\ Calling(m, p, q).slot = m.slot /\ Calling(m, p, q).start = m.start
           /\ Calling(m, p, q).end = m.end /\ Calling(m, p, q).got = m.got
<1>1. Calling(m, p, q) \in Local
  BY DEF Local, Calling
<1>2. /\ Calling(m, p, q).pc = p /\ Calling(m, p, q).q = q
      /\ Calling(m, p, q).old = m.old /\ Calling(m, p, q).new = m.new
      /\ Calling(m, p, q).from = m.from /\ Calling(m, p, q).to = m.to
  BY DEF Local, Calling
<1>3. /\ Calling(m, p, q).slot = m.slot /\ Calling(m, p, q).start = m.start
      /\ Calling(m, p, q).end = m.end /\ Calling(m, p, q).got = m.got
  BY DEF Local, Calling
<1> QED BY <1>1, <1>2, <1>3

LEMMA FreshIs == /\ Fresh \in Local /\ Fresh.pc = "idle" /\ Fresh.q = Null
                 /\ Fresh.old = Null /\ Fresh.new = Null /\ Fresh.from = Null
                 /\ Fresh.to = Null /\ Fresh.slot = Null /\ Fresh.start = Null
                 /\ Fresh.end = Null /\ Fresh.got = Null
BY DEF Fresh, Local, PCs

\* The locals of a thread that has nothing in its hands.
Empty(m) == /\ m.old = Null /\ m.from = Null /\ m.to = Null /\ m.slot = Null
            /\ m.start = Null /\ m.end = Null

LEMMA DeliverIs ==
    ASSUME NEW t \in Threads, NEW n \in Nodes, Deliver(t, n)
    PROVE  \E m \in Local : /\ me' = [me EXCEPT ![t] = m]
                            /\ Empty(m) /\ m.pc = "run" /\ m.got = n
<1>1. "run" \in PCs /\ n \in Nodes \cup {Null}
  BY DEF PCs
<1>2. PICK m : m = Getting(Fresh, "run", n)
  OBVIOUS
<1>3. m \in Local /\ Empty(m) /\ m.pc = "run" /\ m.got = n
  BY <1>1, <1>2, FreshIs, GettingIs DEF Empty
<1>4. me' = [me EXCEPT ![t] = m]
  BY <1>2 DEF Deliver, Getting
<1> QED BY <1>3, <1>4

LEMMA MissedIs ==
    ASSUME NEW t \in Owners, Missed(t)
    PROVE  \E m \in Local : /\ me' = [me EXCEPT ![t] = m]
                            /\ Empty(m) /\ m.got = Null
                            /\ \/ m.pc = "idle"
                               \/ m.pc = "probe" /\ m.q \in Queues
<1>1. "probe" \in PCs /\ Victim[t] \in Queues \cup {Null}
  BY BQAssumption DEF PCs
<1>2. PICK m : m = Calling(Fresh, "probe", Victim[t])
  OBVIOUS
<1>3. m \in Local /\ Empty(m) /\ m.pc = "probe" /\ m.got = Null /\ m.q = Victim[t]
  BY <1>1, <1>2, FreshIs, CallingIs DEF Empty
<1>4. CASE me[t].q = Own[t] /\ Victim[t] # Null
  <2>1. me' = [me EXCEPT ![t] = m]
    BY <1>2, <1>4 DEF Missed, Calling
  <2> QED BY <1>1, <1>3, <1>4, <2>1
<1>5. CASE ~(me[t].q = Own[t] /\ Victim[t] # Null)
  <2>1. me' = [me EXCEPT ![t] = Fresh]
    BY <1>5 DEF Missed
  <2> QED BY <2>1, FreshIs DEF Empty
<1> QED BY <1>4, <1>5

-----------------------------------------------------------------------------
LEMMA SlotKinds == Queues \subseteq Slots /\ Nodes \subseteq Slots /\ Null \notin Slots
                   /\ \A q \in Queues : q \notin Nodes
BY BQAssumption DEF Slots

LEMMA LinkIsNode == ASSUME TypeOK, NEW s \in Slots, Links(s) PROVE link[s] \in Nodes
BY DEF TypeOK, Links

LEMMA HandIsNode == ASSUME TypeOK, NEW t \in Threads, NEW n, Has(t, n) PROVE n \in Nodes
BY Locals DEF Has

\* A queue's own slot is never stale.
LEMMA FrontIsNotStale == ASSUME TypeOK, NEW q \in Queues PROVE ~Stale(q)
<1>1. \A t \in Threads : me[t].got # q /\ me[t].to # q
  BY Locals, SlotKinds
<1> QED BY <1>1, SlotKinds DEF Stale, TypeOK

\* An end is empty unless its thread has still to write it.
LEMMA EndIsEmpty ==
    ASSUME QInv, NEW t \in Threads, NEW s \in Slots, Fills(t, s), link[s] # Null
    PROVE  me[t].pc = "clear" /\ s = me[t].to /\ s = me[t].from
<1>1. EmptyOK(t)
  BY DEF QInv, ThreadOK
<1>2. s # me[t].slot /\ s # me[t].end
  BY <1>1 DEF EmptyOK, Fills
<1> QED BY <1>1, <1>2 DEF EmptyOK, Fills

\* A linked node in t's hands is nobody's end, and its link is not stale.
LEMMA LinkedIsNoEnd ==
    ASSUME QInv, NEW t \in Threads, NEW n \in Nodes, Has(t, n), link[n] # Null,
           me[t].pc # "clear"
    PROVE  /\ \A u \in Threads : ~Fills(u, n)
           /\ \A q \in Queues : back[q] # n
           /\ n # me[t].got => Links(n)
<1>1. TypeOK /\ HandsOK /\ BacksOK /\ n # Null /\ n \in Slots
  BY SlotKinds DEF QInv
<1>2. ASSUME NEW u \in Threads, Fills(u, n) PROVE FALSE
  <2>1. me[u].pc = "clear" /\ n = me[u].from
    BY <1>1, <1>2, EndIsEmpty
  <2>2. Has(u, n)
    BY <1>1, <2>1 DEF Has
  <2> QED BY <1>1, <2>1, <2>2 DEF HandsOK
<1>3. \A q \in Queues : back[q] # n
  BY <1>1 DEF BacksOK
<1>4. ASSUME n # me[t].got PROVE ~Stale(n)
  <2>1. n \notin spare
    BY <1>1 DEF HandsOK
  <2>2. \A u \in Threads : n = me[u].got => Has(u, n)
    BY <1>1 DEF Has
  <2>3. \A u \in Threads : n # me[u].got
    BY <1>1, <1>4, <2>2 DEF HandsOK
  <2>4. \A u \in Threads : me[u].pc = "clear" /\ n = me[u].to => Fills(u, n)
    BY <1>1 DEF Fills
  <2> QED BY <1>2, <2>1, <2>3, <2>4 DEF Stale
<1> QED BY <1>2, <1>3, <1>4 DEF Links

\* What an access of t leaves of another thread u.
LEMMA Bystander ==
    ASSUME QInv, NEW u \in Threads, me'[u] = me[u],
           \A s \in Slots : Fills(u, s) => link'[s] = link[s] \/ link'[s] = Null,
           me[u].pc = "advance" => link'[me[u].old] = link[me[u].old]
    PROVE  Shape(u)' /\ OneHand(u)' /\ EmptyOK(u)'
<1>1. Shape(u) /\ OneHand(u) /\ EmptyOK(u) /\ TypeOK
  BY DEF QInv, ThreadOK
<1>2. Shape(u)'
  BY <1>1 DEF Shape
<1>3. OneHand(u)'
  BY <1>1 DEF OneHand
<1>4. /\ me[u].slot # Null => Fills(u, me[u].slot) /\ me[u].slot \in Slots
      /\ me[u].end # Null => Fills(u, me[u].end) /\ me[u].end \in Slots
      /\ me[u].pc \in {"clear", "swap"} => Fills(u, me[u].to) /\ me[u].to \in Slots
  BY <1>1, Locals, SlotKinds DEF Fills, Shape
<1>5. EmptyOK(u)'
  BY <1>1, <1>4 DEF EmptyOK
<1> QED BY <1>2, <1>3, <1>5

-----------------------------------------------------------------------------
LEMMA ClearStep == ASSUME QInv, NEW t \in Threads, Clear(t) PROVE QInv'
<1>1. /\ me' = [me EXCEPT ![t] = At(me[t], "swap")]
      /\ me[t].pc = "clear" /\ TypeOK
      /\ link' = [link EXCEPT ![me[t].to] = Null]
      /\ back' = back /\ spare' = spare
  BY DEF QInv, Clear, Goto, Cleared, At
<1>a. PICK m \in Local :
        /\ me' = [me EXCEPT ![t] = m]
        /\ m.pc = "swap" /\ m.q = me[t].q /\ m.old = me[t].old /\ m.new = me[t].new
        /\ m.from = me[t].from /\ m.to = me[t].to /\ m.slot = me[t].slot
        /\ m.start = me[t].start /\ m.end = me[t].end /\ m.got = me[t].got
  <2>1. me[t] \in Local /\ "swap" \in PCs
    BY <1>1, Locals DEF PCs
  <2> QED BY <1>1, <2>1, AtIs, ZenonT(30)
<1>2. TypeOK' /\ me'[t] = m /\ \A u \in Threads : u # t => me'[u] = me[u]
  <2>2. /\ link' \in [Slots -> Nodes \cup {Null}]
        /\ back' \in [Queues -> Slots] /\ spare' \subseteq Nodes
    BY <1>1 DEF TypeOK
  <2> QED BY <1>1, <1>a, <2>2, Typed, ZenonT(30)
<1>3. /\ me[t].to \in Nodes /\ me[t].from \in Nodes
      /\ \A u \in Threads : /\ me'[u].q = me[u].q /\ me'[u].old = me[u].old
                            /\ me'[u].new = me[u].new /\ me'[u].from = me[u].from
                            /\ me'[u].to = me[u].to /\ me'[u].slot = me[u].slot
                            /\ me'[u].start = me[u].start /\ me'[u].end = me[u].end
                            /\ me'[u].got = me[u].got
  BY <1>1, <1>2, <1>a, Locals DEF QInv, ThreadOK, Shape
<1>4. /\ \A u \in Threads : \A n \in Nodes : Has(u, n)' <=> Has(u, n)
      /\ \A u \in Threads : \A s \in Slots : Fills(u, s)' <=> Fills(u, s)
  BY <1>1, <1>2, <1>3, <1>a DEF Has, Fills
<1>5. \A s \in Slots : /\ link'[s] = Null \/ (link'[s] = link[s] /\ s # me[t].to)
                       /\ Links(s)' => Links(s) /\ link'[s] = link[s]
  BY <1>1, <1>2, <1>3, <1>a DEF Links, Stale, TypeOK
<1>6. \A u \in Threads : u # t => ThreadOK(u)'
  <2> SUFFICES ASSUME NEW u \in Threads, u # t PROVE ThreadOK(u)'
    OBVIOUS
  <2>1. me[u].pc = "advance" => link'[me[u].old] = link[me[u].old]
    <3> SUFFICES ASSUME me[u].pc = "advance" PROVE me[u].old # me[t].to
      BY <1>1 DEF TypeOK
    <3>1. /\ Has(u, me[u].old) /\ me[u].pc # "clear" /\ me[u].old \in Nodes
          /\ link[me[u].old] # Null
      BY <1>1, Locals DEF Has, QInv, ThreadOK, Shape
    <3> QED BY <1>1, <1>3, <3>1, LinkedIsNoEnd, SlotKinds DEF Fills
  <2>2. Shape(u)' /\ OneHand(u)' /\ EmptyOK(u)'
    BY <1>2, <1>5, <2>1, Bystander
  <2>3. HeldOK(u)'
    BY <1>1, <1>3, <1>4, <1>5, Locals, SlotKinds DEF QInv, ThreadOK, HeldOK, Shape
  <2> QED BY <2>2, <2>3 DEF ThreadOK
<1>7. ThreadOK(t)'
  <2>1. Shape(t) /\ OneHand(t) /\ EmptyOK(t) /\ me'[t].pc = "swap"
    BY <1>1, <1>2, <1>a DEF QInv, ThreadOK
  <2>2. Shape(t)' /\ OneHand(t)'
    BY <1>1, <1>3, <2>1 DEF Shape, OneHand
  <2>3. link'[me[t].to] = Null
    BY <1>1, <1>3, SlotKinds DEF TypeOK
  <2>4. EmptyOK(t)' /\ HeldOK(t)'
    BY <1>1, <1>3, <1>5, <2>1, <2>2, <2>3, Locals, SlotKinds DEF EmptyOK, HeldOK, Shape
  <2> QED BY <2>2, <2>4 DEF ThreadOK
<1>8. HandsOK'
  BY <1>1, <1>4 DEF QInv, HandsOK
<1>9. LinksOK'
  BY <1>1, <1>4, <1>5, LinkIsNode DEF QInv, LinksOK
<1>10. BacksOK'
  BY <1>1, <1>3, <1>4, <1>5, SlotKinds DEF QInv, BacksOK
<1>11. FillsOK'
  BY <1>1, <1>3, <1>4 DEF QInv, FillsOK
<1> QED BY <1>2, <1>6, <1>7, <1>8, <1>9, <1>10, <1>11 DEF QInv

LEMMA SwapStep == ASSUME QInv, NEW t \in Threads, Swap(t) PROVE QInv'
<1>1. /\ me' = [me EXCEPT ![t] = Publishing(me[t], "publish", back[me[t].q])]
      /\ me[t].pc = "swap" /\ TypeOK
      /\ back' = [back EXCEPT ![me[t].q] = me[t].to]
      /\ link' = link /\ spare' = spare
  BY DEF QInv, Swap, Publishing
<1>2. /\ me[t].q \in Queues /\ me[t].to \in Nodes /\ back[me[t].q] \in Slots
      /\ Shape(t) /\ OneHand(t) /\ EmptyOK(t) /\ me[t].old = Null
      /\ Fills(t, me[t].to) /\ me[t].to \in Slots
  <2>1. Shape(t) /\ OneHand(t) /\ EmptyOK(t)
    BY DEF QInv, ThreadOK
  <2>2. me[t].q \in Queues /\ me[t].to \in Nodes /\ me[t].old = Null
    BY <1>1, <2>1, Locals DEF Shape
  <2> QED BY <1>1, <2>1, <2>2, SlotKinds DEF TypeOK, Fills
<1>a. PICK m \in Local :
        /\ me' = [me EXCEPT ![t] = m]
        /\ m.pc = "publish" /\ m.q = me[t].q /\ m.old = me[t].old
        /\ m.new = me[t].new /\ m.from = me[t].from /\ m.to = me[t].to
        /\ m.slot = back[me[t].q] /\ m.start = me[t].start /\ m.end = me[t].end
        /\ m.got = me[t].got
  <2>1. me[t] \in Local /\ "publish" \in PCs /\ back[me[t].q] \in Slots \cup {Null}
    BY <1>1, <1>2, Locals DEF PCs
  <2>2. PICK m : m = Publishing(me[t], "publish", back[me[t].q])
    OBVIOUS
  <2>3. /\ m \in Local /\ m.pc = "publish" /\ m.q = me[t].q /\ m.old = me[t].old
        /\ m.new = me[t].new /\ m.from = me[t].from /\ m.to = me[t].to
        /\ m.slot = back[me[t].q] /\ m.start = me[t].start /\ m.end = me[t].end
        /\ m.got = me[t].got
    BY <2>1, <2>2, PublishingIs
  <2> QED BY <1>1, <2>2, <2>3
<1>3. TypeOK' /\ me'[t] = m /\ \A u \in Threads : u # t => me'[u] = me[u]
  <2>2. back' \in [Queues -> Slots]
    BY <1>1, <1>2, SlotKinds DEF TypeOK
  <2>3. link' \in [Slots -> Nodes \cup {Null}] /\ spare' \subseteq Nodes
    BY <1>1 DEF TypeOK
  <2> QED BY <1>1, <1>a, <2>2, <2>3, Typed
<1>4. /\ me'[t].pc = "publish" /\ me'[t].slot = back[me[t].q]
      /\ \A u \in Threads : /\ me'[u].q = me[u].q /\ me'[u].old = me[u].old
                            /\ me'[u].new = me[u].new /\ me'[u].from = me[u].from
                            /\ me'[u].to = me[u].to /\ me'[u].start = me[u].start
                            /\ me'[u].end = me[u].end /\ me'[u].got = me[u].got
  BY <1>a, <1>3
<1>5. /\ \A u \in Threads : \A n \in Nodes : Has(u, n)' <=> Has(u, n)
      /\ \A u \in Threads : \A s \in Slots : u # t => (Fills(u, s)' <=> Fills(u, s))
      /\ \A s \in Slots : Fills(t, s)' <=> \/ Fills(t, s) /\ s # me[t].to
                                           \/ s = back[me[t].q]
  <2>1. \A u \in Threads : \A n \in Nodes : Has(u, n)' <=> Has(u, n)
    BY <1>4 DEF Has
  <2>2. \A u \in Threads : \A s \in Slots : u # t => (Fills(u, s)' <=> Fills(u, s))
    BY <1>3 DEF Fills
  <2>3. me[t].slot = Null /\ me[t].to # me[t].end /\ back[me[t].q] # Null
    BY <1>1, <1>2, SlotKinds DEF Shape, OneHand
  <2>4. \A s \in Slots : Fills(t, s)' <=> s # Null /\ (s = back[me[t].q] \/ s = me[t].end)
    BY <1>4 DEF Fills
  <2>5. \A s \in Slots : Fills(t, s) <=> s # Null /\ (s = me[t].to \/ s = me[t].end)
    BY <1>1, <2>3 DEF Fills
  <2> QED BY <2>1, <2>2, <2>3, <2>4, <2>5
<1>6. \A s \in Slots : Links(s)' <=> Links(s)
  BY <1>1, <1>3, <1>4 DEF Links, Stale
<1>7. \A u \in Threads : HeldOK(u)'
  <2> SUFFICES ASSUME NEW u \in Threads, me[u].old # Null PROVE HeldOK(u)'
    BY <1>4 DEF HeldOK
  <2>1. HeldOK(u) /\ Shape(u) /\ me[u].q \in Queues
    BY DEF QInv, ThreadOK, Shape
  <2> QED BY <1>1, <1>2, <1>4, <1>5, <2>1, SlotKinds DEF HeldOK, TypeOK
<1>8. \A u \in Threads : u # t => ThreadOK(u)'
  BY <1>1, <1>3, <1>7, Bystander DEF ThreadOK
<1>9. BacksOK /\ FillsOK
  BY DEF QInv
<1>10. ThreadOK(t)'
  <2>1. Shape(t)'
    BY <1>1, <1>2, <1>4, SlotKinds DEF Shape
  <2>2. me[t].end # Null => Fills(t, me[t].end)
    BY DEF Fills
  <2>3. OneHand(t)'
    BY <1>1, <1>2, <1>4, <1>9, <2>2, SlotKinds DEF OneHand, BacksOK
  <2>4. EmptyOK(t)'
    BY <1>1, <1>2, <1>4, <1>9 DEF EmptyOK, BacksOK
  <2> QED BY <1>7, <2>1, <2>3, <2>4 DEF ThreadOK
<1>11. HandsOK'
  BY <1>1, <1>5 DEF QInv, HandsOK
<1>12. LinksOK'
  BY <1>1, <1>5, <1>6, LinkIsNode DEF QInv, LinksOK
<1>13. BacksOK'
  <2>1. \A q \in Queues : back'[q] = IF q = me[t].q THEN me[t].to ELSE back[q]
    BY <1>1 DEF TypeOK
  <2>2. \A q \in Queues : back[q] # me[t].to /\ back[q] \in Slots
    BY <1>1, <1>2, <1>9 DEF BacksOK, TypeOK
  <2>3. \A q, r \in Queues : back'[q] = back'[r] => q = r
    BY <1>9, <2>1, <2>2 DEF BacksOK
  <2>4. link[me[t].to] = Null /\ me[t].to \notin spare
        /\ \A u \in Threads : me[t].to # me[u].got /\ (Fills(u, me[t].to) => u = t)
    BY <1>1, <1>2, <1>9 DEF EmptyOK, FillsOK
  <2>5. \A q \in Queues : /\ back'[q] \in Nodes \cup {q} /\ link'[back'[q]] = Null
                          /\ back'[q] \notin spare'
    BY <1>1, <1>2, <1>9, <2>1, <2>4 DEF BacksOK
  <2>6. \A q \in Queues : \A u \in Threads : ~Fills(u, back[q])' /\ back'[q] # me'[u].got
    BY <1>2, <1>4, <1>5, <1>9, <2>1, <2>2, <2>4 DEF BacksOK
  <2> QED BY <2>3, <2>5, <2>6 DEF BacksOK
<1>14. FillsOK'
  BY <1>1, <1>2, <1>4, <1>5, <1>9 DEF FillsOK, BacksOK
<1> QED BY <1>3, <1>8, <1>10, <1>11, <1>12, <1>13, <1>14 DEF QInv

LEMMA PublishStep == ASSUME QInv, NEW t \in Threads, Publish(t) PROVE QInv'
<1>1. /\ me[t].pc = "publish" /\ TypeOK
      /\ link' = [link EXCEPT ![me[t].slot] = me[t].from]
      /\ back' = back /\ spare' = spare
      /\ Shape(t) /\ OneHand(t) /\ EmptyOK(t)
  BY DEF QInv, Publish, ThreadOK
<1>2. /\ me[t].q \in Queues /\ me[t].from \in Nodes /\ me[t].to \in Nodes
      /\ me[t].slot \in Slots /\ me[t].old = Null
      /\ Fills(t, me[t].slot) /\ Has(t, me[t].from)
  <2>1. /\ me[t].q \in Queues /\ me[t].from \in Nodes /\ me[t].to \in Nodes
        /\ me[t].slot \in Slots /\ me[t].old = Null
    BY <1>1, Locals DEF Shape
  <2> QED BY <1>1, <2>1, SlotKinds DEF Fills, Has
<1>3. PICK m \in Local :
        /\ me' = [me EXCEPT ![t] = m]
        /\ m.old = Null /\ m.from = Null /\ m.to = Null /\ m.slot = Null
        /\ m.start = me[t].start /\ m.end = me[t].end /\ m.got = me[t].got
        /\ \/ m.pc = "spread" /\ m.q = me[t].q /\ m.start # Null
           \/ m.pc = "run" /\ m.start = Null /\ m.got # Null
           \/ m.pc = "idle" /\ m.start = Null /\ m.got = Null
  <2>1. CASE me[t].start # Null
    <3>1. me' = [me EXCEPT ![t] = Published(me[t], "spread")]
      BY <2>1 DEF Publish, Published
    <3>2. me[t] \in Local /\ "spread" \in PCs
      BY <1>1, Locals DEF PCs
    <3>3. PICK m : m = Published(me[t], "spread")
      OBVIOUS
    <3>4. /\ m \in Local /\ m.pc = "spread" /\ m.q = me[t].q /\ m.old = me[t].old
          /\ m.from = Null /\ m.to = Null /\ m.slot = Null
          /\ m.start = me[t].start /\ m.end = me[t].end /\ m.got = me[t].got
      BY <3>2, <3>3, PublishedIs
    <3> QED BY <1>2, <2>1, <3>1, <3>3, <3>4
  <2>2. CASE me[t].start = Null /\ Found(t)
    <3>1. me[t].got \in Nodes /\ Deliver(t, me[t].got)
      BY <1>1, <2>2, Locals DEF Publish, Found
    <3>2. PICK m \in Local : /\ me' = [me EXCEPT ![t] = m]
                             /\ Empty(m) /\ m.pc = "run" /\ m.got = me[t].got
      BY <3>1, DeliverIs
    <3> QED BY <1>1, <2>2, <3>2 DEF Shape, Found, Empty
  <2>3. CASE me[t].start = Null /\ ~Found(t)
    <3>1. me' = [me EXCEPT ![t] = Fresh]
      BY <2>3 DEF Publish
    <3>2. Fresh \in Local /\ Fresh.old = Null /\ Fresh.from = Null /\ Fresh.to = Null
          /\ Fresh.slot = Null /\ Fresh.start = Null /\ Fresh.end = Null
          /\ Fresh.got = Null /\ Fresh.pc = "idle"
      BY DEF Local, PCs, Fresh
    <3> QED BY <1>1, <2>3, <3>1, <3>2 DEF Shape, Found
  <2> QED BY <2>1, <2>2, <2>3
<1>4. TypeOK' /\ me'[t] = m /\ \A u \in Threads : u # t => me'[u] = me[u]
  <2>1. /\ link' \in [Slots -> Nodes \cup {Null}]
        /\ back' \in [Queues -> Slots] /\ spare' \subseteq Nodes
    BY <1>1, <1>2 DEF TypeOK
  <2> QED BY <1>1, <1>3, <2>1, Typed
<1>5. /\ \A u \in Threads : \A n \in Nodes : u # t => (Has(u, n)' <=> Has(u, n))
      /\ \A n \in Nodes : Has(t, n)' <=> Has(t, n) /\ n # me[t].from
      /\ \A u \in Threads : \A s \in Slots : u # t => (Fills(u, s)' <=> Fills(u, s))
      /\ \A s \in Slots : Fills(t, s)' <=> Fills(t, s) /\ s # me[t].slot
  <2>1. /\ \A u \in Threads : \A n \in Nodes : u # t => (Has(u, n)' <=> Has(u, n))
        /\ \A u \in Threads : \A s \in Slots : u # t => (Fills(u, s)' <=> Fills(u, s))
    BY <1>4 DEF Fills, Has
  <2>2. \A n \in Nodes : Has(t, n)' <=> Has(t, n) /\ n # me[t].from
    BY <1>1, <1>2, <1>3, <1>4 DEF Has, OneHand
  <2>3. \A s \in Slots : Fills(t, s)' <=> Fills(t, s) /\ s # me[t].slot
    BY <1>1, <1>2, <1>3, <1>4 DEF Fills, OneHand
  <2> QED BY <2>1, <2>2, <2>3
<1>6. /\ link'[me[t].slot] = me[t].from /\ link[me[t].slot] = Null
      /\ \A s \in Slots : s # me[t].slot => link'[s] = link[s]
  BY <1>1, <1>2, SlotKinds DEF TypeOK, EmptyOK
<1>7. HandsOK /\ LinksOK /\ BacksOK /\ FillsOK
  BY DEF QInv
<1>8. /\ \A u \in Threads : me'[u].got = me[u].got
      /\ \A s \in Slots : Links(s)' => Links(s) \/ s = me[t].slot
  <2>1. \A u \in Threads : me'[u].got = me[u].got
    BY <1>3, <1>4
  <2>2. \A u \in Threads : me[u].pc = "clear" => me'[u].pc = "clear" /\ me'[u].to = me[u].to
    BY <1>1, <1>4
  <2>3. \A s \in Slots : Stale(s) => Stale(s)'
    BY <1>1, <2>1, <2>2 DEF Stale
  <2> QED BY <1>6, <2>1, <2>3 DEF Links
<1>9. \A u \in Threads : HeldOK(u)'
  <2> SUFFICES ASSUME NEW u \in Threads, me'[u].old # Null PROVE HeldOK(u)'
    BY DEF HeldOK
  <2>1. /\ u # t /\ me'[u] = me[u] /\ HeldOK(u) /\ me[u].q \in Queues
        /\ \A w \in Threads : me'[w].old = me[w].old /\ (w # t => me'[w].q = me[w].q)
    BY <1>2, <1>3, <1>4 DEF QInv, ThreadOK, Shape
  <2>2. me[u].q # me[t].slot /\ me[u].q \in Slots
    BY <1>2, <2>1, SlotKinds DEF HeldOK
  <2> QED BY <1>1, <1>2, <1>5, <1>6, <2>1, <2>2 DEF HeldOK
<1>10. \A u \in Threads : u # t => ThreadOK(u)'
  <2> SUFFICES ASSUME NEW u \in Threads, u # t PROVE ThreadOK(u)'
    OBVIOUS
  <2>1. \A s \in Slots : Fills(u, s) => link'[s] = link[s] \/ link'[s] = Null
    BY <1>2, <1>6, <1>7 DEF FillsOK
  <2>2. me[u].pc = "advance" => link'[me[u].old] = link[me[u].old]
    <3> SUFFICES ASSUME me[u].pc = "advance" PROVE link'[me[u].old] = link[me[u].old]
      OBVIOUS
    <3>1. me[u].old \in Slots /\ link[me[u].old] # Null
      BY <1>1, Locals, SlotKinds DEF QInv, ThreadOK, Shape
    <3> QED BY <1>6, <3>1
  <2> QED BY <1>4, <1>9, <2>1, <2>2, Bystander DEF ThreadOK
<1>11. ThreadOK(t)'
  <2>1. Shape(t)'
    BY <1>1, <1>2, <1>3, <1>4 DEF Shape
  <2>2. OneHand(t)'
    BY <1>1, <1>3, <1>4 DEF OneHand
  <2>3. EmptyOK(t)'
    BY <1>1, <1>3, <1>4, <1>6, Locals, SlotKinds DEF EmptyOK, OneHand
  <2> QED BY <1>9, <2>1, <2>2, <2>3 DEF ThreadOK
<1>12. HandsOK'
  BY <1>1, <1>5, <1>7 DEF HandsOK
<1>13. LinksOK'
  BY <1>1, <1>2, <1>5, <1>6, <1>7, <1>8, LinkIsNode DEF HandsOK, LinksOK
<1>14. BacksOK'
  BY <1>1, <1>2, <1>5, <1>6, <1>7, <1>8 DEF BacksOK, TypeOK
<1>15. FillsOK'
  BY <1>1, <1>2, <1>5, <1>7, <1>8 DEF FillsOK
<1> QED BY <1>4, <1>10, <1>11, <1>12, <1>13, <1>14, <1>15 DEF QInv

-----------------------------------------------------------------------------
(***************************************************************************)
(* Steps that move no reference and no end: t only learns something or     *)
(* gives them other names.                                                 *)
(***************************************************************************)
LEMMA SameStep ==
    ASSUME QInv, NEW t \in Threads, NEW m \in Local, me' = [me EXCEPT ![t] = m],
           link' = link, back' = back, spare' = spare,
           m.old = me[t].old, m.got = me[t].got, m.old # Null => m.q = me[t].q,
           \A n \in Nodes : Has(t, n)' <=> Has(t, n),
           \A s \in Slots : Fills(t, s)' <=> Fills(t, s),
           \A s \in Slots : Links(s)' => Links(s),
           Shape(t)' /\ OneHand(t)' /\ EmptyOK(t)'
    PROVE  QInv'
<1>1. TypeOK /\ HandsOK /\ LinksOK /\ BacksOK /\ FillsOK
  BY DEF QInv
<1>2. TypeOK' /\ me'[t] = m /\ \A u \in Threads : u # t => me'[u] = me[u]
  BY <1>1, Typed DEF TypeOK
<1>3. /\ \A u \in Threads : \A n \in Nodes : Has(u, n)' <=> Has(u, n)
      /\ \A u \in Threads : \A s \in Slots : Fills(u, s)' <=> Fills(u, s)
      /\ \A u \in Threads : me'[u].got = me[u].got /\ me'[u].old = me[u].old
  BY <1>2 DEF Has, Fills
<1>4. \A u \in Threads : HeldOK(u)'
  <2> SUFFICES ASSUME NEW u \in Threads, me'[u].old # Null PROVE HeldOK(u)'
    BY DEF HeldOK
  <2>1. /\ me[u].old # Null /\ me[u].q \in Queues /\ HeldOK(u) /\ me'[u].q = me[u].q
        /\ \A w \in Threads : me'[w].old # Null => me'[w].q = me[w].q
    BY <1>2, <1>3 DEF QInv, ThreadOK, Shape
  <2> QED BY <1>3, <2>1, SlotKinds DEF HeldOK
<1>5. \A u \in Threads : ThreadOK(u)'
  BY <1>2, <1>4, Bystander DEF ThreadOK
<1>6. HandsOK'
  BY <1>1, <1>3 DEF HandsOK
<1>7. LinksOK'
  BY <1>1, <1>3, LinkIsNode DEF LinksOK
<1>8. BacksOK' /\ FillsOK'
  BY <1>1, <1>3 DEF BacksOK, FillsOK, TypeOK
<1> QED BY <1>2, <1>5, <1>6, <1>7, <1>8 DEF QInv

\* ... by a thread with nothing in its hands.
LEMMA QuietStep ==
    ASSUME QInv, NEW t \in Threads, NEW m \in Local, me' = [me EXCEPT ![t] = m],
           link' = link, back' = back, spare' = spare,
           Empty(me[t]), me[t].got = Null, Empty(m), m.got = Null,
           m.pc = "idle" \/ (m.pc \in {"probe", "acquire"} /\ m.q \in Queues)
    PROVE  QInv'
<1>1. TypeOK
  BY DEF QInv
<1>2. me'[t] = m /\ \A u \in Threads : u # t => me'[u] = me[u]
  BY <1>1, Typed DEF TypeOK
<1>3. /\ \A n \in Nodes : Has(t, n)' <=> Has(t, n)
      /\ \A s \in Slots : Fills(t, s)' <=> Fills(t, s)
  BY <1>2 DEF Has, Fills, Empty
<1>4. \A s \in Slots : Links(s)' => Links(s)
  <2>1. \A u \in Threads : \A s \in Slots :
          /\ s = me[u].got => s = me'[u].got
          /\ me[u].pc = "clear" /\ s = me[u].to => me'[u].pc = "clear" /\ s = me'[u].to
    BY <1>2, SlotKinds DEF Empty
  <2>2. \A s \in Slots : Stale(s) => Stale(s)'
    BY <2>1 DEF Stale
  <2> QED BY <2>2 DEF Links
<1>5. Shape(t)' /\ OneHand(t)' /\ EmptyOK(t)'
  BY <1>2 DEF Shape, OneHand, EmptyOK, Empty
<1>6. m.old = me[t].old /\ m.got = me[t].got /\ m.old = Null
  BY DEF Empty
<1> QED BY <1>3, <1>4, <1>5, <1>6, SameStep

\* A thread that begins a call or looks at the front has nothing in its hands.
LEMMA EmptyHanded ==
    ASSUME QInv, NEW t \in Threads, me[t].pc \in {"idle", "probe", "acquire"}
    PROVE  Empty(me[t]) /\ me[t].got = Null /\ (me[t].pc # "idle" => me[t].q \in Queues)
BY DEF QInv, ThreadOK, Shape, Empty

LEMMA PopStep == ASSUME QInv, NEW t \in Owners, Pop(t) PROVE QInv'
<1>1. t \in Threads /\ Own[t] \in Queues /\ me[t].pc = "idle" /\ TypeOK
  BY BQAssumption DEF Threads, Pop, QInv
<1>2. Empty(me[t]) /\ me[t].got = Null
  BY <1>1, EmptyHanded
<1>3. "probe" \in PCs /\ Own[t] \in Queues \cup {Null} /\ me[t] \in Local
  BY <1>1, Locals DEF PCs
<1>4. PICK m : m = Calling(me[t], "probe", Own[t])
  OBVIOUS
<1>5. m \in Local /\ Empty(m) /\ m.got = Null /\ m.pc = "probe" /\ m.q = Own[t]
  BY <1>2, <1>3, <1>4, CallingIs DEF Empty
<1>6. me' = [me EXCEPT ![t] = m] /\ link' = link /\ back' = back /\ spare' = spare
  BY <1>4 DEF Pop, Call, Calling
<1> QED BY <1>1, <1>2, <1>5, <1>6, QuietStep

LEMMA ProbeStep == ASSUME QInv, NEW t \in Owners, Probe(t) PROVE QInv'
<1>1. /\ t \in Threads /\ me[t].pc = "probe" /\ TypeOK
      /\ link' = link /\ back' = back /\ spare' = spare
  BY DEF Threads, Probe, QInv
<1>2. Empty(me[t]) /\ me[t].got = Null /\ me[t].q \in Queues
  BY <1>1, EmptyHanded
<1>3. CASE link[me[t].q] = Null
  <2>1. Missed(t)
    BY <1>3 DEF Probe
  <2>2. PICK m \in Local : /\ me' = [me EXCEPT ![t] = m] /\ Empty(m) /\ m.got = Null
                           /\ \/ m.pc = "idle"
                              \/ m.pc = "probe" /\ m.q \in Queues
    BY <1>1, <2>1, MissedIs
  <2> QED BY <1>1, <1>2, <2>2, QuietStep
<1>4. CASE link[me[t].q] # Null
  <2>1. "acquire" \in PCs /\ me[t] \in Local
    BY <1>1, Locals DEF PCs
  <2>2. PICK m : m = At(me[t], "acquire")
    OBVIOUS
  <2>3. m \in Local /\ Empty(m) /\ m.got = Null /\ m.pc = "acquire" /\ m.q = me[t].q
    BY <1>2, <2>1, <2>2, AtIs DEF Empty
  <2>4. me' = [me EXCEPT ![t] = m]
    BY <1>4, <2>2 DEF Probe, Goto, At
  <2> QED BY <1>1, <1>2, <2>3, <2>4, QuietStep
<1> QED BY <1>3, <1>4

\* ... and by one that holds a front.
LEMMA HolderStep ==
    ASSUME QInv, NEW t \in Threads, NEW m \in Local, me' = [me EXCEPT ![t] = m],
           link' = link, back' = back, spare' = spare,
           me[t].old # Null, m.q = me[t].q, m.old = me[t].old, m.from = me[t].from,
           m.to = me[t].to, m.slot = me[t].slot, m.start = me[t].start,
           m.end = me[t].end, m.got = me[t].got,
           \/ m.pc \in {"cas", "restore"}
           \/ m.pc = "advance" /\ m.new = link[m.old] /\ m.new # Null
    PROVE  QInv'
<1>1. TypeOK /\ Shape(t) /\ OneHand(t) /\ EmptyOK(t)
  BY DEF QInv, ThreadOK
<1>2. me'[t] = m /\ \A u \in Threads : u # t => me'[u] = me[u]
  BY <1>1, Typed DEF TypeOK
<1>3. me[t].pc \notin {"clear", "swap", "spread", "publish", "take", "run", "idle"}
  BY <1>1 DEF Shape
<1>4. /\ \A n \in Nodes : Has(t, n)' <=> Has(t, n)
      /\ \A s \in Slots : Fills(t, s)' <=> Fills(t, s)
  BY <1>2, <1>3 DEF Has, Fills
<1>5. \A s \in Slots : Links(s)' => Links(s)
  <2>1. \A u \in Threads : \A s \in Slots :
          /\ s = me[u].got => s = me'[u].got
          /\ me[u].pc = "clear" /\ s = me[u].to => me'[u].pc = "clear" /\ s = me'[u].to
    BY <1>2, <1>3
  <2>2. \A s \in Slots : Stale(s) => Stale(s)'
    BY <2>1 DEF Stale
  <2> QED BY <2>2 DEF Links
<1>6. Shape(t)' /\ OneHand(t)' /\ EmptyOK(t)'
  BY <1>1, <1>2, <1>3 DEF Shape, OneHand, EmptyOK
<1> QED BY <1>4, <1>5, <1>6, SameStep

LEMMA ReadNextStep == ASSUME QInv, NEW t \in Threads, ReadNext(t) PROVE QInv'
<1>1. /\ me[t].pc = "next" /\ TypeOK /\ me[t] \in Local
      /\ link' = link /\ back' = back /\ spare' = spare
  BY Locals DEF ReadNext, QInv
<1>2. me[t].old # Null /\ me[t].old \in Slots
  BY <1>1, Locals, SlotKinds DEF QInv, ThreadOK, Shape
<1>3. PICK p : p = IF link[me[t].old] = Null THEN "cas" ELSE "advance"
  OBVIOUS
<1>4. p \in PCs /\ link[me[t].old] \in Nodes \cup {Null}
  BY <1>1, <1>2, <1>3 DEF PCs, TypeOK
<1>5. PICK m : m = Reading(me[t], link[me[t].old], p)
  OBVIOUS
<1>6. /\ m \in Local /\ m.pc = p /\ m.q = me[t].q /\ m.old = me[t].old
      /\ m.new = link[me[t].old] /\ m.from = me[t].from /\ m.to = me[t].to
      /\ m.slot = me[t].slot /\ m.start = me[t].start /\ m.end = me[t].end
      /\ m.got = me[t].got
  BY <1>1, <1>4, <1>5, ReadingIs
<1>7. me' = [me EXCEPT ![t] = m]
  BY <1>3, <1>5 DEF ReadNext, Reading
<1>8. \/ m.pc \in {"cas", "restore"}
      \/ m.pc = "advance" /\ m.new = link[m.old] /\ m.new # Null
  BY <1>3, <1>6
<1> QED BY <1>1, <1>2, <1>6, <1>7, <1>8, HolderStep

-----------------------------------------------------------------------------
(***************************************************************************)
(* The front of a queue: taken out, put back, moved on, given up.          *)
(***************************************************************************)
LEMMA AcquireStep == ASSUME QInv, NEW t \in Owners, Acquire(t) PROVE QInv'
<1>1. /\ t \in Threads /\ me[t].pc = "acquire" /\ TypeOK /\ me[t] \in Local
      /\ link' = [link EXCEPT ![me[t].q] = Null]
      /\ back' = back /\ spare' = spare
  BY Locals DEF Threads, Acquire, Exchanged, QInv
<1>2. /\ Empty(me[t]) /\ me[t].got = Null /\ me[t].q \in Queues /\ me[t].q \in Slots
  BY <1>1, EmptyHanded, SlotKinds
<1>3. CASE link[me[t].q] = Null
  <2>1. link' = link
    BY <1>1, <1>3 DEF TypeOK
  <2>2. Missed(t)
    BY <1>3 DEF Acquire
  <2>3. PICK m \in Local : /\ me' = [me EXCEPT ![t] = m] /\ Empty(m) /\ m.got = Null
                           /\ \/ m.pc = "idle"
                              \/ m.pc = "probe" /\ m.q \in Queues
    BY <1>1, <2>2, MissedIs
  <2> QED BY <1>1, <1>2, <2>1, <2>3, QuietStep
<1>4. CASE link[me[t].q] # Null
  <2>1. PICK q, f, p : /\ q = me[t].q /\ f = link[q]
                       /\ p = IF Stealing(t) THEN "detach" ELSE "next"
    OBVIOUS
  <2>2. p \in PCs /\ f \in Nodes /\ f \in Nodes \cup {Null} /\ f # Null
    BY <1>1, <1>2, <1>4, <2>1 DEF PCs, TypeOK
  <2>3. PICK m : m = Acquired(me[t], f, p)
    OBVIOUS
  <2>4. /\ m \in Local /\ m.pc = p /\ m.q = q /\ m.old = f /\ m.from = Null
        /\ m.to = Null /\ m.slot = Null /\ m.start = Null /\ m.end = Null
        /\ m.got = Null
    BY <1>1, <1>2, <2>1, <2>2, <2>3, AcquiredIs DEF Empty
  <2>5. me' = [me EXCEPT ![t] = m]
    BY <1>4, <2>1, <2>3 DEF Acquire, Acquired
  <2>6. /\ link'[q] = Null
        /\ \A s \in Slots : s # q => link'[s] = link[s]
        /\ link' \in [Slots -> Nodes \cup {Null}]
    BY <1>1, <1>2, <2>1 DEF TypeOK
  <2>7. TypeOK' /\ me'[t] = m /\ \A u \in Threads : u # t => me'[u] = me[u]
    BY <1>1, <2>4, <2>5, <2>6, Typed DEF TypeOK
  <2>8. HandsOK /\ LinksOK /\ BacksOK /\ FillsOK
    BY DEF QInv
  <2>9. /\ \A u \in Threads : \A n \in Nodes : Has(u, n)' <=> Has(u, n) \/ (u = t /\ n = f)
        /\ \A u \in Threads : \A s \in Slots : Fills(u, s)' <=> Fills(u, s)
        /\ \A u \in Threads : me'[u].got = me[u].got
    <3>1. \A n \in Nodes : Has(t, n)' <=> Has(t, n) \/ n = f
      BY <1>2, <2>2, <2>4, <2>7 DEF Has, Empty
    <3>2. \A s \in Slots : Fills(t, s)' <=> Fills(t, s)
      BY <1>2, <2>4, <2>7 DEF Fills, Empty
    <3> QED BY <1>2, <2>4, <2>7, <3>1, <3>2 DEF Has, Fills
  <2>10. \A s \in Slots : Links(s)' => Links(s) /\ s # q
    <3>1. \A u \in Threads : me[u].pc = "clear" => me'[u].pc = "clear" /\ me'[u].to = me[u].to
      BY <1>1, <2>7
    <3>2. \A s \in Slots : Stale(s) => Stale(s)'
      BY <1>1, <2>9, <3>1 DEF Stale
    <3> QED BY <2>6, <3>2 DEF Links
  <2>11. Links(q)
    BY <1>1, <1>2, <1>4, <2>1, FrontIsNotStale DEF Links
  <2>12. /\ \A u \in Threads : ~Has(u, f)
         /\ f \notin spare
         /\ \A s \in Slots : Links(s) /\ s # q => link[s] # f
    BY <1>2, <2>1, <2>8, <2>11 DEF LinksOK
  <2>13. \A u \in Threads : HeldOK(u)'
    <3> SUFFICES ASSUME NEW u \in Threads, me'[u].old # Null PROVE HeldOK(u)'
      BY DEF HeldOK
    <3>1. CASE u = t
      <4>1. \A r \in Queues : back'[r] # q
        BY <1>1, <1>4, <2>1, <2>8 DEF BacksOK
      <4>2. \A w \in Threads : ~Fills(w, q)
        <5> SUFFICES ASSUME NEW w \in Threads, Fills(w, q) PROVE FALSE
          OBVIOUS
        <5>1. q = me[w].to
          BY <1>2, <1>4, <2>1, EndIsEmpty
        <5> QED BY <1>1, <1>2, <2>1, <5>1, Locals, SlotKinds
      <4>3. \A w \in Threads : me[w].old # Null => me[w].q # q
        BY <1>4, <2>1 DEF QInv, ThreadOK, HeldOK
      <4> QED BY <1>2, <2>1, <2>4, <2>6, <2>7, <2>9, <3>1, <4>1, <4>2, <4>3 DEF HeldOK
    <3>2. CASE u # t
      <4>1. HeldOK(u) /\ me[u].old # Null /\ me'[u] = me[u] /\ me[u].q \in Slots
        BY <2>7, <3>2, SlotKinds DEF QInv, ThreadOK, Shape
      <4>2. me[u].q # q
        BY <1>4, <2>1, <4>1 DEF HeldOK
      <4> QED BY <1>1, <2>4, <2>6, <2>7, <2>9, <4>1, <4>2 DEF HeldOK
    <3> QED BY <3>1, <3>2
  <2>14. \A u \in Threads : u # t => ThreadOK(u)'
    <3> SUFFICES ASSUME NEW u \in Threads, u # t PROVE ThreadOK(u)'
      OBVIOUS
    <3>1. \A s \in Slots : link'[s] = link[s] \/ link'[s] = Null
      BY <2>6
    <3>2. me[u].pc = "advance" => link'[me[u].old] = link[me[u].old]
      <4> SUFFICES ASSUME me[u].pc = "advance" PROVE link'[me[u].old] = link[me[u].old]
        OBVIOUS
      <4>1. me[u].old \in Nodes
        BY <1>1, Locals DEF QInv, ThreadOK, Shape
      <4> QED BY <1>2, <2>1, <2>6, <4>1, SlotKinds
    <3> QED BY <2>7, <2>13, <3>1, <3>2, Bystander DEF ThreadOK
  <2>15. ThreadOK(t)'
    <3>1. Shape(t)' /\ OneHand(t)' /\ EmptyOK(t)'
      BY <1>2, <2>1, <2>2, <2>4, <2>7 DEF Shape, OneHand, EmptyOK
    <3> QED BY <1>1, <2>13, <3>1 DEF ThreadOK
  <2>16. HandsOK'
    BY <1>1, <2>8, <2>9, <2>12 DEF HandsOK
  <2>17. LinksOK'
    BY <1>1, <2>6, <2>8, <2>9, <2>10, <2>12, LinkIsNode DEF LinksOK
  <2>18. BacksOK' /\ FillsOK'
    BY <1>1, <2>6, <2>8, <2>9 DEF BacksOK, FillsOK, TypeOK
  <2> QED BY <1>1, <2>7, <2>14, <2>15, <2>16, <2>17, <2>18 DEF QInv
<1> QED BY <1>3, <1>4

\* What is known of t with the front of its queue in its hands.
LEMMA Holding ==
    ASSUME QInv, NEW t \in Threads, me[t].old # Null
    PROVE  /\ TypeOK /\ me[t] \in Local /\ me[t].q \in Queues /\ me[t].q \in Slots
           /\ me[t].old \in Nodes /\ me[t].old \in Slots /\ HeldOK(t)
           /\ me[t].from = Null /\ me[t].to = Null /\ me[t].slot = Null
           /\ me[t].start = Null /\ me[t].end = Null /\ me[t].got = Null
           /\ \A n \in Nodes : Has(t, n) <=> n = me[t].old
           /\ \A s \in Slots : ~Fills(t, s)
           /\ me[t].pc \in {"next", "advance", "cas", "restore", "detach"}
<1>1. TypeOK /\ Shape(t) /\ HeldOK(t)
  BY DEF QInv, ThreadOK
<1>2. /\ me[t] \in Local /\ me[t].q \in Queues /\ me[t].old \in Nodes
      /\ me[t].from = Null /\ me[t].to = Null /\ me[t].slot = Null
      /\ me[t].start = Null /\ me[t].end = Null /\ me[t].got = Null
      /\ me[t].pc \in {"next", "advance", "cas", "restore", "detach"}
  BY <1>1, Locals DEF Shape
<1>3. /\ \A n \in Nodes : Has(t, n) <=> n = me[t].old
      /\ \A s \in Slots : ~Fills(t, s)
  BY <1>2, SlotKinds DEF Has, Fills
<1> QED BY <1>1, <1>2, <1>3, SlotKinds

LEMMA AdvanceStep == ASSUME QInv, NEW t \in Threads, Advance(t) PROVE QInv'
<1>1. me[t].pc = "advance" /\ me[t].old # Null /\ Deliver(t, me[t].old)
  BY DEF Advance, QInv, ThreadOK, Shape
<1>2. PICK q, old, new : q = me[t].q /\ old = me[t].old /\ new = me[t].new
  OBVIOUS
<1>3. /\ TypeOK /\ q \in Queues /\ q \in Slots /\ old \in Nodes /\ old \in Slots
      /\ HeldOK(t) /\ me[t].got = Null
      /\ \A n \in Nodes : Has(t, n) <=> n = old
      /\ \A s \in Slots : ~Fills(t, s)
  BY <1>1, <1>2, Holding
<1>4. new = link[old] /\ new # Null /\ new \in Nodes
  BY <1>1, <1>2, <1>3, Locals DEF QInv, ThreadOK, Shape
<1>5. PICK m \in Local : /\ me' = [me EXCEPT ![t] = m]
                         /\ Empty(m) /\ m.pc = "run" /\ m.got = old
  BY <1>1, <1>2, <1>3, DeliverIs
<1>6. /\ link' = [link EXCEPT ![q] = new]
      /\ back' = back /\ spare' = spare
  BY <1>2 DEF Advance
<1>7. /\ link'[q] = new /\ link[q] = Null
      /\ \A s \in Slots : s # q => link'[s] = link[s]
      /\ link' \in [Slots -> Nodes \cup {Null}]
  BY <1>2, <1>1, <1>3, <1>4, <1>6 DEF TypeOK, HeldOK
<1>8. TypeOK' /\ me'[t] = m /\ \A u \in Threads : u # t => me'[u] = me[u]
  BY <1>3, <1>5, <1>6, <1>7, Typed DEF TypeOK
<1>9. HandsOK /\ LinksOK /\ BacksOK /\ FillsOK
  BY DEF QInv
<1>10. /\ \A u \in Threads : ~Fills(u, old)
       /\ \A r \in Queues : back[r] # old
       /\ Links(old)
  BY <1>1, <1>3, <1>4, LinkedIsNoEnd, SlotKinds
<1>11. /\ \A u \in Threads : \A n \in Nodes : Has(u, n)' <=> Has(u, n)
       /\ \A u \in Threads : \A s \in Slots : Fills(u, s)' <=> Fills(u, s)
       /\ \A u \in Threads : u # t => me'[u].got = me[u].got
       /\ me'[t].got = old
  <2>1. \A n \in Nodes : Has(t, n)' <=> Has(t, n)
    BY <1>3, <1>5, <1>8, SlotKinds DEF Has, Empty
  <2>2. \A s \in Slots : Fills(t, s)' <=> Fills(t, s)
    BY <1>3, <1>5, <1>8 DEF Fills, Empty
  <2> QED BY <1>5, <1>8, <2>1, <2>2 DEF Has, Fills
<1>12. \A s \in Slots : Links(s)' => (Links(s) /\ s # old /\ s # q) \/ s = q
  <2>1. /\ \A u \in Threads : me[u].pc = "clear" => me'[u].pc = "clear" /\ me'[u].to = me[u].to
        /\ \A u \in Threads : \A s \in Slots : s = me[u].got => s = me'[u].got
    BY <1>1, <1>3, <1>8, SlotKinds
  <2>2. \A s \in Slots : Stale(s) \/ s = old => Stale(s)'
    BY <1>6, <1>11, <2>1 DEF Stale
  <2> QED BY <1>7, <2>2 DEF Links
<1>13. /\ new \notin spare
       /\ \A u \in Threads : ~Has(u, new)
       /\ \A s \in Slots : Links(s) /\ s # old => link[s] # new
  BY <1>3, <1>4, <1>9, <1>10 DEF LinksOK
<1>14. \A u \in Threads : HeldOK(u)'
  <2> SUFFICES ASSUME NEW u \in Threads, me'[u].old # Null PROVE HeldOK(u)'
    BY DEF HeldOK
  <2>1. u # t /\ me'[u] = me[u]
    BY <1>5, <1>8 DEF Empty
  <2>2. HeldOK(u) /\ me[u].old # Null /\ me[u].q \in Slots
    BY <2>1, SlotKinds DEF QInv, ThreadOK, Shape
  <2>3. me[u].q # q
    BY <1>1, <1>2, <1>3, <2>1, <2>2 DEF HeldOK
  <2> QED BY <1>5, <1>6, <1>7, <1>8, <1>11, <2>1, <2>2, <2>3 DEF HeldOK, Empty
<1>15. \A u \in Threads : u # t => ThreadOK(u)'
  <2> SUFFICES ASSUME NEW u \in Threads, u # t PROVE ThreadOK(u)'
    OBVIOUS
  <2>1. \A s \in Slots : Fills(u, s) => link'[s] = link[s] \/ link'[s] = Null
    BY <1>1, <1>2, <1>3, <1>7 DEF HeldOK
  <2>2. me[u].pc = "advance" => link'[me[u].old] = link[me[u].old]
    <3> SUFFICES ASSUME me[u].pc = "advance" PROVE link'[me[u].old] = link[me[u].old]
      OBVIOUS
    <3>1. me[u].old \in Nodes
      BY <1>3, Locals DEF QInv, ThreadOK, Shape
    <3> QED BY <1>3, <1>7, <3>1, SlotKinds
  <2> QED BY <1>8, <1>14, <2>1, <2>2, Bystander DEF ThreadOK
<1>16. ThreadOK(t)'
  <2>1. Shape(t)' /\ OneHand(t)' /\ EmptyOK(t)'
    BY <1>3, <1>5, <1>8, SlotKinds DEF Shape, OneHand, EmptyOK, Empty
  <2> QED BY <1>14, <2>1 DEF ThreadOK
<1>17. HandsOK'
  BY <1>6, <1>9, <1>11 DEF HandsOK
<1>18. LinksOK'
  BY <1>3, <1>4, <1>6, <1>7, <1>9, <1>11, <1>12, <1>13, LinkIsNode DEF LinksOK
<1>19. BacksOK'
  <2>1. \A r \in Queues : back[r] # q /\ back[r] \in Slots
    BY <1>1, <1>2, <1>3 DEF HeldOK, TypeOK
  <2> QED BY <1>6, <1>7, <1>9, <1>10, <1>11, <2>1 DEF BacksOK
<1>20. FillsOK'
  BY <1>6, <1>9, <1>10, <1>11 DEF FillsOK
<1> QED BY <1>8, <1>15, <1>16, <1>17, <1>18, <1>19, <1>20 DEF QInv

\* The queue is closed again: its back becomes its own front.
LEMMA BackToFront ==
    ASSUME QInv, NEW t \in Threads, me[t].old # Null,
           back' = [back EXCEPT ![me[t].q] = me[t].q]
    PROVE  /\ back'[me[t].q] = me[t].q
           /\ \A r \in Queues : r # me[t].q => back'[r] = back[r]
           /\ \A r \in Queues : back'[r] = me[t].q => r = me[t].q
           /\ \A q, r \in Queues : back'[q] = back'[r] => q = r
           /\ back' \in [Queues -> Slots]
           /\ back[me[t].q] \in Nodes
           /\ \A r \in Queues : back'[r] # back[me[t].q]
<1>1. PICK q : q = me[t].q
  OBVIOUS
<1>2. /\ TypeOK /\ q \in Queues /\ q \in Slots /\ \A r \in Queues : back[r] # q
  BY <1>1, Holding DEF HeldOK
<1>3. BacksOK
  BY DEF QInv
<1>4. /\ back'[q] = q /\ \A r \in Queues : r # q => back'[r] = back[r]
      /\ back' \in [Queues -> Slots]
  BY <1>1, <1>2 DEF TypeOK
<1>5. \A r \in Queues : back'[r] = q => r = q
  BY <1>2, <1>4
<1>6. \A p, r \in Queues : back'[p] = back'[r] => p = r
  BY <1>2, <1>3, <1>4 DEF BacksOK
<1>7. back[q] \in Nodes /\ \A r \in Queues : back'[r] # back[q]
  BY <1>2, <1>3, <1>4, SlotKinds DEF BacksOK
<1> QED BY <1>1, <1>4, <1>5, <1>6, <1>7

LEMMA CasBackStep == ASSUME QInv, NEW t \in Threads, CasBack(t) PROVE QInv'
<1>1. me[t].pc = "cas" /\ me[t].old # Null /\ link' = link /\ spare' = spare
  BY DEF CasBack, QInv, ThreadOK, Shape
<1>2. PICK q, old : q = me[t].q /\ old = me[t].old
  OBVIOUS
<1>3. /\ TypeOK /\ q \in Queues /\ q \in Slots /\ old \in Nodes /\ old \in Slots
      /\ HeldOK(t) /\ me[t].got = Null /\ me[t] \in Local
      /\ \A n \in Nodes : Has(t, n) <=> n = old
      /\ \A s \in Slots : ~Fills(t, s)
  BY <1>1, <1>2, Holding
<1>4. CASE ~StillOld(t)
  <2>1. "restore" \in PCs /\ back' = back
    BY <1>4 DEF PCs, CasBack
  <2>2. PICK m : m = At(me[t], "restore")
    OBVIOUS
  <2>3. /\ m \in Local /\ m.pc = "restore" /\ m.q = me[t].q /\ m.old = me[t].old
        /\ m.new = me[t].new /\ m.from = me[t].from /\ m.to = me[t].to
        /\ m.slot = me[t].slot /\ m.start = me[t].start /\ m.end = me[t].end
        /\ m.got = me[t].got
    BY <1>3, <2>1, <2>2, AtIs
  <2>4. me' = [me EXCEPT ![t] = m]
    BY <1>4, <2>2 DEF CasBack, Goto, At
  <2> QED BY <1>1, <2>1, <2>3, <2>4, HolderStep
<1>5. CASE StillOld(t)
  <2>1. back[q] = old /\ Deliver(t, old) /\ back' = [back EXCEPT ![q] = q]
    BY <1>2, <1>5 DEF CasBack, StillOld
  <2>2. PICK m \in Local : /\ me' = [me EXCEPT ![t] = m]
                           /\ Empty(m) /\ m.pc = "run" /\ m.got = old
    BY <1>3, <2>1, DeliverIs
  <2>3. /\ back'[q] = q /\ \A r \in Queues : r # q => back'[r] = back[r]
        /\ \A r \in Queues : back'[r] = q => r = q
        /\ \A p, r \in Queues : back'[p] = back'[r] => p = r
        /\ back' \in [Queues -> Slots]
        /\ \A r \in Queues : back'[r] # old
    BY <1>1, <1>2, <2>1, BackToFront, ZenonT(30)
  <2>4. TypeOK' /\ me'[t] = m /\ \A u \in Threads : u # t => me'[u] = me[u]
    BY <1>1, <1>3, <2>2, <2>3, Typed DEF TypeOK
  <2>5. HandsOK /\ LinksOK /\ BacksOK /\ FillsOK
    BY DEF QInv
  <2>6. /\ \A u \in Threads : \A n \in Nodes : Has(u, n)' <=> Has(u, n)
        /\ \A u \in Threads : \A s \in Slots : Fills(u, s)' <=> Fills(u, s)
        /\ \A u \in Threads : u # t => me'[u].got = me[u].got
        /\ me'[t].got = old
    <3>1. \A n \in Nodes : Has(t, n)' <=> Has(t, n)
      BY <1>3, <2>2, <2>4, SlotKinds DEF Has, Empty
    <3>2. \A s \in Slots : Fills(t, s)' <=> Fills(t, s)
      BY <1>3, <2>2, <2>4 DEF Fills, Empty
    <3> QED BY <2>2, <2>4, <3>1, <3>2 DEF Has, Fills
  <2>7. \A s \in Slots : Links(s)' => Links(s)
    <3>1. /\ \A u \in Threads : me[u].pc = "clear" => me'[u].pc = "clear" /\ me'[u].to = me[u].to
          /\ \A u \in Threads : \A s \in Slots : s = me[u].got => s = me'[u].got
      BY <1>1, <1>3, <2>4, SlotKinds
    <3>2. \A s \in Slots : Stale(s) => Stale(s)'
      BY <1>1, <3>1 DEF Stale
    <3> QED BY <1>1, <3>2 DEF Links
  <2>8. \A u \in Threads : HeldOK(u)'
    <3> SUFFICES ASSUME NEW u \in Threads, me'[u].old # Null PROVE HeldOK(u)'
      BY DEF HeldOK
    <3>1. u # t /\ me'[u] = me[u]
      BY <2>2, <2>4 DEF Empty
    <3>2. HeldOK(u) /\ me[u].old # Null /\ me[u].q \in Slots
      BY <3>1, SlotKinds DEF QInv, ThreadOK, Shape
    <3>3. me[u].q # q
      BY <1>1, <1>2, <1>3, <3>1, <3>2 DEF HeldOK
    <3> QED BY <1>1, <2>2, <2>3, <2>4, <2>6, <3>1, <3>2, <3>3 DEF HeldOK, Empty
  <2>9. \A u \in Threads : u # t => ThreadOK(u)'
    BY <1>1, <2>4, <2>8, Bystander DEF ThreadOK
  <2>10. ThreadOK(t)'
    <3>1. Shape(t)' /\ OneHand(t)' /\ EmptyOK(t)'
      BY <1>3, <2>2, <2>4, SlotKinds DEF Shape, OneHand, EmptyOK, Empty
    <3> QED BY <2>8, <3>1 DEF ThreadOK
  <2>11. HandsOK' /\ LinksOK'
    BY <1>1, <1>3, <2>5, <2>6, <2>7, LinkIsNode DEF HandsOK, LinksOK
  <2>12. BacksOK'
    <3>1. q \notin spare /\ \A u \in Threads : ~Fills(u, q) /\ q # me'[u].got
      BY <1>1, <1>2, <1>3, <2>4, <2>6, Locals, SlotKinds DEF HeldOK, TypeOK
    <3>2. link[q] = Null
      BY <1>1, <1>2, <1>3 DEF HeldOK
    <3>3. \A r \in Queues : /\ back'[r] \in Nodes \cup {r} /\ link'[back'[r]] = Null
                            /\ back'[r] \notin spare'
      BY <1>1, <2>3, <2>5, <3>1, <3>2 DEF BacksOK
    <3>4. \A r \in Queues : \A u \in Threads : ~Fills(u, back[r])' /\ back'[r] # me'[u].got
      BY <2>3, <2>5, <2>6, <3>1 DEF BacksOK
    <3> QED BY <2>3, <3>3, <3>4 DEF BacksOK
  <2>13. FillsOK'
    BY <1>1, <1>3, <2>1, <2>5, <2>6 DEF FillsOK, BacksOK
  <2> QED BY <2>4, <2>9, <2>10, <2>11, <2>12, <2>13 DEF QInv
<1> QED BY <1>4, <1>5

LEMMA RestoreStep == ASSUME QInv, NEW t \in Owners, Restore(t) PROVE QInv'
<1>1. /\ t \in Threads /\ me[t].pc = "restore" /\ me[t].old # Null /\ Missed(t)
      /\ link' = [link EXCEPT ![me[t].q] = me[t].old]
      /\ back' = back /\ spare' = spare
  BY DEF Threads, Restore, Restored, QInv, ThreadOK, Shape
<1>2. PICK q, old : q = me[t].q /\ old = me[t].old
  OBVIOUS
<1>3. /\ TypeOK /\ q \in Queues /\ q \in Slots /\ old \in Nodes /\ old \in Slots
      /\ HeldOK(t) /\ me[t].got = Null
      /\ \A n \in Nodes : Has(t, n) <=> n = old
      /\ \A s \in Slots : ~Fills(t, s)
  BY <1>1, <1>2, Holding
<1>4. PICK m \in Local : /\ me' = [me EXCEPT ![t] = m] /\ Empty(m) /\ m.got = Null
                         /\ \/ m.pc = "idle"
                            \/ m.pc = "probe" /\ m.q \in Queues
  BY <1>1, MissedIs
<1>5. /\ link'[q] = old /\ link[q] = Null
      /\ \A s \in Slots : s # q => link'[s] = link[s]
      /\ link' \in [Slots -> Nodes \cup {Null}]
  BY <1>1, <1>2, <1>3 DEF TypeOK, HeldOK
<1>6. TypeOK' /\ me'[t] = m /\ \A u \in Threads : u # t => me'[u] = me[u]
  BY <1>1, <1>3, <1>4, <1>5, Typed DEF TypeOK
<1>7. HandsOK /\ LinksOK /\ BacksOK /\ FillsOK
  BY DEF QInv
<1>8. /\ \A u \in Threads : \A n \in Nodes : Has(u, n)' <=> Has(u, n) /\ u # t
      /\ \A u \in Threads : \A s \in Slots : Fills(u, s)' <=> Fills(u, s)
      /\ \A u \in Threads : me'[u].got = me[u].got
  <2>1. \A n \in Nodes : ~Has(t, n)'
    BY <1>4, <1>6 DEF Has, Empty
  <2>2. \A s \in Slots : Fills(t, s)' <=> Fills(t, s)
    BY <1>3, <1>4, <1>6 DEF Fills, Empty
  <2> QED BY <1>3, <1>4, <1>6, <2>1, <2>2 DEF Has, Fills
<1>9. \A s \in Slots : Links(s)' => Links(s) \/ s = q
  <2>1. \A u \in Threads : me[u].pc = "clear" => me'[u].pc = "clear" /\ me'[u].to = me[u].to
    BY <1>1, <1>6
  <2>2. \A s \in Slots : Stale(s) => Stale(s)'
    BY <1>1, <1>8, <2>1 DEF Stale
  <2> QED BY <1>5, <2>2 DEF Links
<1>10. /\ old \notin spare /\ \A u \in Threads : u # t => ~Has(u, old)
       /\ \A s \in Slots : Links(s) => link[s] # old
  BY <1>1, <1>3, <1>7 DEF HandsOK, LinksOK
<1>11. \A u \in Threads : HeldOK(u)'
  <2> SUFFICES ASSUME NEW u \in Threads, me'[u].old # Null PROVE HeldOK(u)'
    BY DEF HeldOK
  <2>1. u # t /\ me'[u] = me[u]
    BY <1>4, <1>6 DEF Empty
  <2>2. HeldOK(u) /\ me[u].old # Null /\ me[u].q \in Slots
    BY <2>1, SlotKinds DEF QInv, ThreadOK, Shape
  <2>3. me[u].q # q
    BY <1>1, <1>2, <1>3, <2>1, <2>2 DEF HeldOK
  <2> QED BY <1>1, <1>4, <1>5, <1>6, <1>8, <2>1, <2>2, <2>3 DEF HeldOK, Empty
<1>12. \A u \in Threads : u # t => ThreadOK(u)'
  <2> SUFFICES ASSUME NEW u \in Threads, u # t PROVE ThreadOK(u)'
    OBVIOUS
  <2>1. \A s \in Slots : Fills(u, s) => link'[s] = link[s] \/ link'[s] = Null
    BY <1>1, <1>2, <1>3, <1>5 DEF HeldOK
  <2>2. me[u].pc = "advance" => link'[me[u].old] = link[me[u].old]
    <3> SUFFICES ASSUME me[u].pc = "advance" PROVE link'[me[u].old] = link[me[u].old]
      OBVIOUS
    <3>1. me[u].old \in Nodes
      BY <1>3, Locals DEF QInv, ThreadOK, Shape
    <3> QED BY <1>3, <1>5, <3>1, SlotKinds
  <2> QED BY <1>6, <1>11, <2>1, <2>2, Bystander DEF ThreadOK
<1>13. ThreadOK(t)'
  <2>1. Shape(t)' /\ OneHand(t)' /\ EmptyOK(t)'
    BY <1>3, <1>4, <1>6 DEF Shape, OneHand, EmptyOK, Empty
  <2> QED BY <1>1, <1>11, <2>1 DEF ThreadOK
<1>14. HandsOK'
  BY <1>1, <1>7, <1>8 DEF HandsOK
<1>15. LinksOK'
  BY <1>1, <1>3, <1>5, <1>7, <1>8, <1>9, <1>10, LinkIsNode DEF LinksOK
<1>16. BacksOK'
  <2>1. \A r \in Queues : back[r] # q /\ back[r] \in Slots
    BY <1>1, <1>2, <1>3 DEF HeldOK, TypeOK
  <2> QED BY <1>1, <1>5, <1>7, <1>8, <2>1 DEF BacksOK
<1>17. FillsOK'
  BY <1>1, <1>7, <1>8 DEF FillsOK
<1> QED BY <1>1, <1>6, <1>12, <1>13, <1>14, <1>15, <1>16, <1>17 DEF QInv

LEMMA DetachStep == ASSUME QInv, NEW t \in Threads, Detach(t) PROVE QInv'
<1>1. me[t].pc = "detach" /\ me[t].old # Null /\ link' = link /\ spare' = spare
  BY DEF Detach, QInv, ThreadOK, Shape
<1>2. PICK q, old, end : q = me[t].q /\ old = me[t].old /\ end = back[me[t].q]
  OBVIOUS
<1>3. /\ TypeOK /\ q \in Queues /\ q \in Slots /\ old \in Nodes /\ old \in Slots
      /\ HeldOK(t) /\ me[t].got = Null /\ me[t] \in Local
      /\ me[t].from = Null /\ me[t].to = Null /\ me[t].slot = Null
      /\ \A n \in Nodes : Has(t, n) <=> n = old
      /\ \A s \in Slots : ~Fills(t, s)
  BY <1>1, <1>2, Holding DEF Empty, Local
<1>4. back' = [back EXCEPT ![me[t].q] = me[t].q]
  BY DEF Detach
<1>5. /\ back'[q] = q /\ \A r \in Queues : r # q => back'[r] = back[r]
      /\ \A r \in Queues : back'[r] = q => r = q
      /\ \A p, r \in Queues : back'[p] = back'[r] => p = r
      /\ back' \in [Queues -> Slots]
      /\ end \in Nodes /\ end \in Slots /\ end # Null
      /\ \A r \in Queues : back'[r] # end
  BY <1>1, <1>2, <1>4, BackToFront, SlotKinds, ZenonT(30)
<1>6. PICK m : m = Stolen(me[t], "take", old, end)
  OBVIOUS
<1>7. /\ m \in Local /\ m.pc = "take" /\ m.old = Null /\ m.from = Null /\ m.to = Null
      /\ m.slot = Null /\ m.start = old /\ m.end = end /\ m.got = Null /\ m.q = q
  <2>1. "take" \in PCs /\ old \in Nodes \cup {Null} /\ end \in Nodes \cup {Null}
    BY <1>3, <1>5 DEF PCs
  <2> QED BY <1>2, <1>3, <1>6, <2>1, StolenIs
<1>8. me' = [me EXCEPT ![t] = m]
  BY <1>2, <1>6 DEF Detach, Stolen
<1>9. TypeOK' /\ me'[t] = m /\ \A u \in Threads : u # t => me'[u] = me[u]
  BY <1>1, <1>3, <1>5, <1>7, <1>8, Typed DEF TypeOK
<1>10. HandsOK /\ LinksOK /\ BacksOK /\ FillsOK
  BY DEF QInv
<1>11. /\ \A u \in Threads : \A n \in Nodes : Has(u, n)' <=> Has(u, n)
       /\ \A u \in Threads : \A s \in Slots : Fills(u, s)' <=> Fills(u, s) \/ (u = t /\ s = end)
       /\ \A u \in Threads : me'[u].got = me[u].got
  <2>1. \A n \in Nodes : Has(t, n)' <=> Has(t, n)
    BY <1>3, <1>7, <1>9, SlotKinds DEF Has
  <2>2. \A s \in Slots : Fills(t, s)' <=> s = end
    BY <1>5, <1>7, <1>9, SlotKinds DEF Fills
  <2> QED BY <1>3, <1>7, <1>9, <2>1, <2>2 DEF Has, Fills
<1>12. \A s \in Slots : Links(s)' => Links(s)
  <2>1. \A u \in Threads : me[u].pc = "clear" => me'[u].pc = "clear" /\ me'[u].to = me[u].to
    BY <1>1, <1>9
  <2>2. \A s \in Slots : Stale(s) => Stale(s)'
    BY <1>1, <1>11, <2>1 DEF Stale
  <2> QED BY <1>1, <2>2 DEF Links
<1>13. /\ link[end] = Null /\ end \notin spare
       /\ \A u \in Threads : ~Fills(u, end) /\ end # me[u].got
  BY <1>2, <1>3, <1>10 DEF BacksOK
<1>14. \A u \in Threads : HeldOK(u)'
  <2> SUFFICES ASSUME NEW u \in Threads, me'[u].old # Null PROVE HeldOK(u)'
    BY DEF HeldOK
  <2>1. u # t /\ me'[u] = me[u]
    BY <1>7, <1>9
  <2>2. HeldOK(u) /\ me[u].old # Null /\ me[u].q \in Slots /\ me[u].q \in Queues
    BY <2>1, SlotKinds DEF QInv, ThreadOK, Shape
  <2>3. me[u].q # q /\ me[u].q # end
    BY <1>1, <1>2, <1>3, <1>5, <2>1, <2>2, SlotKinds DEF HeldOK
  <2> QED BY <1>1, <1>5, <1>7, <1>9, <1>11, <2>1, <2>2, <2>3 DEF HeldOK
<1>15. \A u \in Threads : u # t => ThreadOK(u)'
  BY <1>1, <1>9, <1>14, Bystander DEF ThreadOK
<1>16. ThreadOK(t)'
  <2>1. Shape(t)' /\ OneHand(t)' /\ EmptyOK(t)'
    BY <1>1, <1>3, <1>5, <1>7, <1>9, <1>13, SlotKinds DEF Shape, OneHand, EmptyOK
  <2> QED BY <1>14, <2>1 DEF ThreadOK
<1>17. HandsOK' /\ LinksOK'
  BY <1>1, <1>3, <1>10, <1>11, <1>12, LinkIsNode DEF HandsOK, LinksOK
<1>18. BacksOK'
  <2>1. q # end /\ q \notin spare /\ \A u \in Threads : ~Fills(u, q) /\ q # me[u].got
    BY <1>1, <1>2, <1>3, <1>5, Locals, SlotKinds DEF HeldOK, TypeOK
  <2>2. link[q] = Null
    BY <1>1, <1>2, <1>3 DEF HeldOK
  <2>3. \A r \in Queues : /\ back'[r] \in Nodes \cup {r} /\ link'[back'[r]] = Null
                          /\ back'[r] \notin spare'
    BY <1>1, <1>5, <1>10, <2>1, <2>2 DEF BacksOK
  <2>4. \A r \in Queues : \A u \in Threads : ~Fills(u, back[r])' /\ back'[r] # me'[u].got
    BY <1>5, <1>10, <1>11, <2>1 DEF BacksOK
  <2> QED BY <1>5, <2>3, <2>4 DEF BacksOK
<1>19. FillsOK'
  BY <1>1, <1>10, <1>11, <1>13 DEF FillsOK
<1> QED BY <1>9, <1>15, <1>16, <1>17, <1>18, <1>19 DEF QInv

-----------------------------------------------------------------------------
(***************************************************************************)
(* A stolen segment: one node is kept, the rest goes to the thief's queue. *)
(***************************************************************************)
LEMMA Segment ==
    ASSUME QInv, NEW t \in Threads, me[t].pc \in {"take", "spread"},
           NEW head, NEW end, head = me[t].start, end = me[t].end
    PROVE  /\ TypeOK /\ me[t] \in Local
           /\ head \in Nodes /\ end \in Nodes /\ head \in Slots /\ end \in Slots
           /\ head # Null /\ end # Null
           /\ me[t].old = Null /\ me[t].from = Null /\ me[t].to = Null
           /\ me[t].slot = Null
           /\ \A n \in Nodes : Has(t, n) <=> n = head \/ n = me[t].got
           /\ \A s \in Slots : Fills(t, s) <=> s = end
           /\ link[end] = Null /\ head # me[t].got
           /\ me[t].pc = "take" => me[t].got = Null
           /\ link[head] # Null => /\ \A u \in Threads : ~Fills(u, head)
                                   /\ \A q \in Queues : back[q] # head
                                   /\ Links(head)
<1>1. TypeOK /\ Shape(t) /\ OneHand(t) /\ EmptyOK(t)
  BY DEF QInv, ThreadOK
<1>2. /\ me[t] \in Local /\ head \in Nodes /\ end \in Nodes
      /\ me[t].old = Null /\ me[t].from = Null /\ me[t].to = Null
      /\ me[t].slot = Null /\ head # me[t].got
      /\ me[t].pc = "take" => me[t].got = Null
  BY <1>1, Locals DEF Shape, OneHand
<1>3. head \in Slots /\ end \in Slots /\ head # Null /\ end # Null /\ Null \notin Nodes
  BY <1>2, SlotKinds
<1>4. \A n \in Nodes : Has(t, n) <=> n = head \/ n = me[t].got
  BY <1>2, <1>3 DEF Has
<1>5. \A s \in Slots : Fills(t, s) <=> s = end
  BY <1>2, <1>3 DEF Fills
<1>6. link[end] = Null
  BY <1>1, <1>3 DEF EmptyOK
<1>7. ASSUME link[head] # Null
      PROVE  /\ \A u \in Threads : ~Fills(u, head)
             /\ \A q \in Queues : back[q] # head
             /\ Links(head)
  BY <1>2, <1>4, <1>7, LinkedIsNoEnd
<1> QED BY <1>1, <1>2, <1>3, <1>4, <1>5, <1>6, <1>7

\* The head is followed by a linked node: it is kept, and the rest goes on.
LEMMA TakeFirst ==
    ASSUME QInv, NEW t \in Threads, TakeOne(t), link[me[t].start] # Null PROVE QInv'
<1>1. me[t].pc = "take" /\ link' = link /\ back' = back /\ spare' = spare
  BY DEF TakeOne
<1>2. PICK head, end, rest : head = me[t].start /\ end = me[t].end /\ rest = link[head]
  OBVIOUS
<1>3. /\ TypeOK /\ me[t] \in Local
      /\ head \in Nodes /\ end \in Nodes /\ head \in Slots /\ end \in Slots
      /\ head # Null /\ end # Null
      /\ me[t].old = Null /\ me[t].from = Null /\ me[t].to = Null /\ me[t].slot = Null
      /\ \A n \in Nodes : Has(t, n) <=> n = head \/ n = me[t].got
      /\ \A s \in Slots : Fills(t, s) <=> s = end
      /\ link[end] = Null /\ me[t].got = Null
      /\ \A u \in Threads : ~Fills(u, head)
      /\ \A q \in Queues : back[q] # head
      /\ Links(head)
  BY <1>1, <1>2, Segment
<1>4. HandsOK /\ LinksOK /\ BacksOK /\ FillsOK
  BY DEF QInv
<1>5. /\ rest \in Nodes /\ rest # Null /\ rest \notin spare
      /\ \A u \in Threads : ~Has(u, rest)
      /\ \A s \in Slots : Links(s) /\ s # head => link[s] # rest
      /\ head # rest /\ head # end
  <2>1. rest \in Nodes /\ rest # Null
    BY <1>2, <1>3, LinkIsNode, SlotKinds
  <2>2. rest \notin spare /\ \A u \in Threads : ~Has(u, rest)
    BY <1>2, <1>3, <1>4 DEF LinksOK
  <2>3. \A s \in Slots : Links(s) /\ s # head => link[s] # rest
    BY <1>2, <1>3, <1>4 DEF LinksOK
  <2>4. Has(t, head)
    BY <1>3
  <2> QED BY <1>2, <1>3, <2>1, <2>2, <2>3, <2>4
<1>6. PICK m : m = Taken(me[t], "spread", head, rest)
  OBVIOUS
<1>7. /\ m \in Local /\ m.pc = "spread" /\ m.old = Null /\ m.from = Null /\ m.to = Null
      /\ m.slot = Null /\ m.start = rest /\ m.end = end /\ m.got = head
      /\ m.q = me[t].q
  <2>1. "spread" \in PCs /\ head \in Nodes \cup {Null} /\ rest \in Nodes \cup {Null}
    BY <1>3, <1>5 DEF PCs
  <2> QED BY <1>2, <1>3, <1>6, <2>1, TakenIs, SMTT(30)
<1>8. me' = [me EXCEPT ![t] = m]
  BY <1>2, <1>6 DEF TakeOne, Taken
<1>9. TypeOK' /\ me'[t] = m /\ \A u \in Threads : u # t => me'[u] = me[u]
  BY <1>1, <1>3, <1>7, <1>8, Typed DEF TypeOK
<1>10. /\ \A u \in Threads : \A n \in Nodes : Has(u, n)' <=> Has(u, n) \/ (u = t /\ n = rest)
       /\ \A u \in Threads : \A s \in Slots : Fills(u, s)' <=> Fills(u, s)
       /\ \A u \in Threads : u # t => me'[u].got = me[u].got
       /\ me'[t].got = head
  <2>1. \A n \in Nodes : Has(t, n)' <=> Has(t, n) \/ n = rest
    BY <1>3, <1>5, <1>7, <1>9, SlotKinds DEF Has
  <2>2. \A s \in Slots : Fills(t, s)' <=> Fills(t, s)
    BY <1>3, <1>7, <1>9 DEF Fills
  <2> QED BY <1>7, <1>9, <2>1, <2>2 DEF Has, Fills
<1>11. \A s \in Slots : Links(s)' => Links(s) /\ s # head
  <2>1. /\ \A u \in Threads : me[u].pc = "clear" => me'[u].pc = "clear" /\ me'[u].to = me[u].to
        /\ \A u \in Threads : \A s \in Slots : s = me[u].got => s = me'[u].got
    BY <1>1, <1>3, <1>9, SlotKinds
  <2>2. \A s \in Slots : Stale(s) \/ s = head => Stale(s)'
    BY <1>1, <1>10, <2>1 DEF Stale
  <2> QED BY <1>1, <2>2 DEF Links
<1>12. \A u \in Threads : HeldOK(u)'
  <2> SUFFICES ASSUME NEW u \in Threads, me'[u].old # Null PROVE HeldOK(u)'
    BY DEF HeldOK
  <2>1. u # t /\ me'[u] = me[u]
    BY <1>7, <1>9
  <2>2. HeldOK(u) /\ me[u].old # Null /\ me[u].q \in Slots
    BY <2>1, SlotKinds DEF QInv, ThreadOK, Shape
  <2> QED BY <1>1, <1>7, <1>9, <1>10, <2>1, <2>2 DEF HeldOK
<1>13. \A u \in Threads : u # t => ThreadOK(u)'
  BY <1>1, <1>9, <1>12, Bystander DEF ThreadOK
<1>14. ThreadOK(t)'
  <2>1. me[t].q \in Queues
    BY <1>1 DEF QInv, ThreadOK, Shape
  <2>2. Shape(t)' /\ OneHand(t)' /\ EmptyOK(t)'
    BY <1>1, <1>3, <1>5, <1>7, <1>9, <2>1 DEF Shape, OneHand, EmptyOK
  <2> QED BY <1>12, <2>2 DEF ThreadOK
<1>15. HandsOK' /\ LinksOK'
  BY <1>1, <1>3, <1>4, <1>5, <1>10, <1>11, LinkIsNode DEF HandsOK, LinksOK
<1>16. BacksOK' /\ FillsOK'
  BY <1>1, <1>3, <1>4, <1>10 DEF BacksOK, FillsOK, TypeOK
<1> QED BY <1>9, <1>13, <1>14, <1>15, <1>16 DEF QInv

\* The segment is a single node: t runs it.
LEMMA TakeSingle ==
    ASSUME QInv, NEW t \in Threads, TakeOne(t), link[me[t].start] = Null, Single(t)
    PROVE  QInv'
<1>1. /\ me[t].pc = "take" /\ link' = link /\ back' = back /\ spare' = spare
      /\ Deliver(t, me[t].start)
  BY DEF TakeOne
<1>2. PICK head : head = me[t].start /\ head = me[t].end
  BY DEF Single
<1>3. /\ TypeOK /\ head \in Nodes /\ head \in Slots /\ head # Null
      /\ \A n \in Nodes : Has(t, n) <=> n = head \/ n = me[t].got
      /\ \A s \in Slots : Fills(t, s) <=> s = head
      /\ link[head] = Null /\ me[t].got = Null
  <2>1. PICK end : end = me[t].end
    OBVIOUS
  <2>2. me[t].pc \in {"take", "spread"}
    BY <1>1
  <2>3. /\ TypeOK /\ head \in Nodes /\ head \in Slots /\ head # Null
        /\ \A n \in Nodes : Has(t, n) <=> n = head \/ n = me[t].got
        /\ \A s \in Slots : Fills(t, s) <=> s = end
        /\ link[end] = Null
        /\ me[t].pc = "take" => me[t].got = Null
    BY <1>2, <2>1, <2>2, Segment, ZenonT(60)
  <2>4. end = head
    BY <1>2, <2>1
  <2> QED BY <1>1, <2>2, <2>3, <2>4
<1>4. HandsOK /\ LinksOK /\ BacksOK /\ FillsOK
  BY DEF QInv
<1>5. PICK m \in Local : /\ me' = [me EXCEPT ![t] = m]
                         /\ Empty(m) /\ m.pc = "run" /\ m.got = head
  BY <1>1, <1>2, <1>3, DeliverIs
<1>6. TypeOK' /\ me'[t] = m /\ \A u \in Threads : u # t => me'[u] = me[u]
  BY <1>1, <1>3, <1>5, Typed DEF TypeOK
<1>7. /\ \A u \in Threads : \A n \in Nodes : Has(u, n)' <=> Has(u, n)
      /\ \A u \in Threads : \A s \in Slots : Fills(u, s)' <=> Fills(u, s) /\ u # t
      /\ \A u \in Threads : u # t => me'[u].got = me[u].got
      /\ me'[t].got = head
  <2>1. \A n \in Nodes : Has(t, n)' <=> Has(t, n)
    BY <1>3, <1>5, <1>6, SlotKinds DEF Has, Empty
  <2>2. \A s \in Slots : ~Fills(t, s)'
    BY <1>5, <1>6 DEF Fills, Empty
  <2> QED BY <1>5, <1>6, <2>1, <2>2 DEF Has, Fills
<1>8. \A s \in Slots : Links(s)' => Links(s)
  <2>1. /\ \A u \in Threads : me[u].pc = "clear" => me'[u].pc = "clear" /\ me'[u].to = me[u].to
        /\ \A u \in Threads : \A s \in Slots : s = me[u].got => s = me'[u].got
    BY <1>1, <1>3, <1>6, SlotKinds
  <2>2. \A s \in Slots : Stale(s) => Stale(s)'
    BY <1>1, <2>1 DEF Stale
  <2> QED BY <1>1, <2>2 DEF Links
<1>9. \A u \in Threads : HeldOK(u)'
  <2> SUFFICES ASSUME NEW u \in Threads, me'[u].old # Null PROVE HeldOK(u)'
    BY DEF HeldOK
  <2>1. u # t /\ me'[u] = me[u]
    BY <1>5, <1>6 DEF Empty
  <2>2. HeldOK(u) /\ me[u].old # Null /\ me[u].q \in Slots
    BY <2>1, SlotKinds DEF QInv, ThreadOK, Shape
  <2> QED BY <1>1, <1>5, <1>6, <1>7, <2>1, <2>2 DEF HeldOK, Empty
<1>10. \A u \in Threads : u # t => ThreadOK(u)'
  BY <1>1, <1>6, <1>9, Bystander DEF ThreadOK
<1>11. ThreadOK(t)'
  <2>1. Shape(t)' /\ OneHand(t)' /\ EmptyOK(t)'
    BY <1>3, <1>5, <1>6, SlotKinds DEF Shape, OneHand, EmptyOK, Empty
  <2> QED BY <1>9, <2>1 DEF ThreadOK
<1>12. HandsOK' /\ LinksOK'
  BY <1>1, <1>3, <1>4, <1>7, <1>8, LinkIsNode DEF HandsOK, LinksOK
<1>13. BacksOK' /\ FillsOK'
  BY <1>1, <1>3, <1>4, <1>7 DEF BacksOK, FillsOK, TypeOK
<1> QED BY <1>6, <1>10, <1>11, <1>12, <1>13 DEF QInv

LEMMA TakeOneStep == ASSUME QInv, NEW t \in Threads, TakeOne(t) PROVE QInv'
<1>1. CASE link[me[t].start] # Null
  BY <1>1, TakeFirst
<1>2. CASE link[me[t].start] = Null /\ Single(t)
  BY <1>2, TakeSingle
<1>3. CASE link[me[t].start] = Null /\ ~Single(t)
  <2>1. me[t].pc = "take" /\ link' = link /\ back' = back /\ spare' = spare
    BY DEF TakeOne
  <2>2. me[t] \in Local /\ "spread" \in PCs /\ me[t].got = Null
    BY <2>1, Segment DEF PCs
  <2>3. PICK m : m = At(me[t], "spread")
    OBVIOUS
  <2>4. /\ m \in Local /\ m.pc = "spread" /\ m.q = me[t].q /\ m.old = me[t].old
        /\ m.new = me[t].new /\ m.from = me[t].from /\ m.to = me[t].to
        /\ m.slot = me[t].slot /\ m.start = me[t].start /\ m.end = me[t].end
        /\ m.got = me[t].got
    BY <2>2, <2>3, AtIs
  <2>5. me' = [me EXCEPT ![t] = m]
    BY <1>3, <2>3 DEF TakeOne, Goto, At
  <2>6. me'[t] = m /\ \A u \in Threads : u # t => me'[u] = me[u]
    BY <2>4, <2>5, Typed, <2>1 DEF QInv, TypeOK
  <2>7. /\ \A n \in Nodes : Has(t, n)' <=> Has(t, n)
        /\ \A s \in Slots : Fills(t, s)' <=> Fills(t, s)
    BY <2>1, <2>4, <2>6 DEF Has, Fills
  <2>8. \A s \in Slots : Links(s)' => Links(s)
    <3>1. /\ \A u \in Threads : me[u].pc = "clear" => me'[u].pc = "clear" /\ me'[u].to = me[u].to
          /\ \A u \in Threads : me'[u].got = me[u].got
      BY <2>1, <2>4, <2>6
    <3>2. \A s \in Slots : Stale(s) => Stale(s)'
      BY <2>1, <3>1 DEF Stale
    <3> QED BY <2>1, <3>2 DEF Links
  <2>9. Shape(t) /\ OneHand(t) /\ EmptyOK(t)
    BY DEF QInv, ThreadOK
  <2>10. Shape(t)' /\ OneHand(t)' /\ EmptyOK(t)'
    BY <2>1, <2>4, <2>6, <2>9 DEF Shape, OneHand, EmptyOK
  <2> QED BY <2>1, <2>4, <2>5, <2>7, <2>8, <2>10, SameStep
<1> QED BY <1>1, <1>2, <1>3

LEMMA EnqueueIs ==
    ASSUME TypeOK, NEW t \in Threads, NEW q \in Queues, NEW f \in Nodes, NEW e \in Nodes,
           NEW x \in Nodes \cup {Null}, Enqueue(t, q, f, e, x)
    PROVE  \E m \in Local :
             /\ me' = [me EXCEPT ![t] = m]
             /\ m.pc = "clear" /\ m.q = q /\ m.from = f /\ m.to = e /\ m.start = x
             /\ m.end = IF x = Null THEN Null ELSE me[t].end
             /\ m.old = me[t].old /\ m.slot = me[t].slot /\ m.got = me[t].got
<1>1. PICK y : y = IF x = Null THEN Null ELSE me[t].end
  OBVIOUS
<1>2. /\ me[t] \in Local /\ "clear" \in PCs /\ q \in Queues \cup {Null}
      /\ f \in Nodes \cup {Null} /\ e \in Nodes \cup {Null} /\ y \in Nodes \cup {Null}
  BY <1>1, Locals DEF PCs
<1>3. PICK m : m = Enqueuing(me[t], "clear", q, f, e, x, y)
  OBVIOUS
<1>a. PICK k : k = me[t]
  OBVIOUS
<1>b. PICK p : p = "clear"
  OBVIOUS
<1>c. /\ k \in Local /\ p \in PCs /\ m = Enqueuing(k, p, q, f, e, x, y)
  BY <1>2, <1>3, <1>a, <1>b
<1>d. /\ m \in Local /\ m.pc = p /\ m.q = q /\ m.from = f /\ m.to = e
      /\ m.start = x /\ m.end = y
      /\ m.old = k.old /\ m.slot = k.slot /\ m.got = k.got
  <2>1. /\ Enqueuing(k, p, q, f, e, x, y) \in Local
        /\ Enqueuing(k, p, q, f, e, x, y).pc = p /\ Enqueuing(k, p, q, f, e, x, y).q = q
        /\ Enqueuing(k, p, q, f, e, x, y).old = k.old
        /\ Enqueuing(k, p, q, f, e, x, y).from = f /\ Enqueuing(k, p, q, f, e, x, y).to = e
        /\ Enqueuing(k, p, q, f, e, x, y).slot = k.slot
        /\ Enqueuing(k, p, q, f, e, x, y).start = x
        /\ Enqueuing(k, p, q, f, e, x, y).end = y
        /\ Enqueuing(k, p, q, f, e, x, y).got = k.got
    <3>1. x \in Nodes \cup {Null}
      OBVIOUS
    <3>2. Enqueuing(k, p, q, f, e, x, y) \in Local
      BY <1>2, <1>c, <3>1, EnqueuingTyped
    <3>3. /\ Enqueuing(k, p, q, f, e, x, y).pc = p /\ Enqueuing(k, p, q, f, e, x, y).q = q
          /\ Enqueuing(k, p, q, f, e, x, y).from = f /\ Enqueuing(k, p, q, f, e, x, y).to = e
          /\ Enqueuing(k, p, q, f, e, x, y).start = x
          /\ Enqueuing(k, p, q, f, e, x, y).end = y
      BY <1>c DEF Local, Enqueuing
    <3>4. /\ Enqueuing(k, p, q, f, e, x, y).old = k.old
          /\ Enqueuing(k, p, q, f, e, x, y).slot = k.slot
          /\ Enqueuing(k, p, q, f, e, x, y).got = k.got
      BY <1>c DEF Local, Enqueuing
    <3> QED BY <3>2, <3>3, <3>4
  <2> QED BY <1>c, <2>1
<1>4. /\ m \in Local /\ m.pc = "clear" /\ m.q = q /\ m.from = f /\ m.to = e
      /\ m.start = x /\ m.end = y
      /\ m.old = me[t].old /\ m.slot = me[t].slot /\ m.got = me[t].got
  BY <1>a, <1>b, <1>d
<1>5. me' = [me EXCEPT ![t] = m]
  BY <1>1, <1>3 DEF Enqueue, Enqueuing
<1> QED BY <1>1, <1>4, <1>5

\* The first node of the rest goes to the queue, what follows it stays.
LEMMA SpreadFirst ==
    ASSUME QInv, NEW t \in Owners, Spread(t), link[me[t].start] # Null PROVE QInv'
<1>1. /\ t \in Threads /\ me[t].pc = "spread" /\ Own[t] \in Queues
      /\ link' = link /\ back' = back /\ spare' = spare
      /\ Enqueue(t, Own[t], me[t].start, me[t].start, link[me[t].start])
  BY BQAssumption DEF Threads, Spread
<1>2. PICK head, end, rest : head = me[t].start /\ end = me[t].end /\ rest = link[head]
  OBVIOUS
<1>3. /\ TypeOK /\ me[t] \in Local
      /\ head \in Nodes /\ end \in Nodes /\ head \in Slots /\ end \in Slots
      /\ head # Null /\ end # Null
      /\ me[t].old = Null /\ me[t].from = Null /\ me[t].to = Null /\ me[t].slot = Null
      /\ \A n \in Nodes : Has(t, n) <=> n = head \/ n = me[t].got
      /\ \A s \in Slots : Fills(t, s) <=> s = end
      /\ link[end] = Null /\ head # me[t].got
      /\ \A u \in Threads : ~Fills(u, head)
      /\ \A q \in Queues : back[q] # head
      /\ Links(head)
  BY <1>1, <1>2, Segment
<1>4. HandsOK /\ LinksOK /\ BacksOK /\ FillsOK
  BY DEF QInv
<1>5. /\ rest \in Nodes /\ rest # Null /\ rest \notin spare
      /\ \A u \in Threads : ~Has(u, rest)
      /\ \A s \in Slots : Links(s) /\ s # head => link[s] # rest
      /\ head # rest /\ head # end /\ rest # me[t].got
      /\ head \notin spare /\ \A u \in Threads : head # me[u].got
  <2>1. rest \in Nodes /\ rest # Null
    BY <1>2, <1>3, LinkIsNode, SlotKinds
  <2>2. rest \notin spare /\ \A u \in Threads : ~Has(u, rest)
    BY <1>2, <1>3, <1>4 DEF LinksOK
  <2>3. \A s \in Slots : Links(s) /\ s # head => link[s] # rest
    BY <1>2, <1>3, <1>4 DEF LinksOK
  <2>4. Has(t, head) /\ (rest = me[t].got => Has(t, rest))
    BY <1>3, <2>1
  <2>5. head \notin spare /\ \A u \in Threads : head = me[u].got => Has(u, head)
    BY <1>1, <1>3, <1>4, <2>4 DEF HandsOK, Has
  <2>6. \A u \in Threads : head # me[u].got
    BY <1>1, <1>3, <1>4, <2>4, <2>5 DEF HandsOK
  <2> QED BY <1>1, <1>2, <1>3, <2>1, <2>2, <2>3, <2>4, <2>5, <2>6
<1>6. PICK m \in Local :
        /\ me' = [me EXCEPT ![t] = m]
        /\ m.pc = "clear" /\ m.q \in Queues /\ m.from = head /\ m.to = head
        /\ m.start = rest /\ m.end = end
        /\ m.old = Null /\ m.slot = Null /\ m.got = me[t].got
  <2>1. Enqueue(t, Own[t], head, head, rest) /\ rest \in Nodes \cup {Null}
    BY <1>1, <1>2, <1>5
  <2>2. PICK m \in Local :
          /\ me' = [me EXCEPT ![t] = m]
          /\ m.pc = "clear" /\ m.q = Own[t] /\ m.from = head /\ m.to = head
          /\ m.start = rest /\ m.end = IF rest = Null THEN Null ELSE me[t].end
          /\ m.old = me[t].old /\ m.slot = me[t].slot /\ m.got = me[t].got
    BY <1>1, <1>3, <2>1, EnqueueIs
  <2> QED BY <1>1, <1>2, <1>3, <1>5, <2>2
<1>7. TypeOK' /\ me'[t] = m /\ \A u \in Threads : u # t => me'[u] = me[u]
  BY <1>1, <1>3, <1>6, Typed DEF TypeOK
<1>8. /\ \A u \in Threads : \A n \in Nodes : Has(u, n)' <=> Has(u, n) \/ (u = t /\ n = rest)
      /\ \A u \in Threads : \A s \in Slots : Fills(u, s)' <=> Fills(u, s) \/ (u = t /\ s = head)
      /\ \A u \in Threads : me'[u].got = me[u].got
  <2>1. \A n \in Nodes : Has(t, n)' <=> Has(t, n) \/ n = rest
    BY <1>3, <1>5, <1>6, <1>7, SlotKinds DEF Has
  <2>2. \A s \in Slots : Fills(t, s)' <=> Fills(t, s) \/ s = head
    BY <1>3, <1>6, <1>7, SlotKinds DEF Fills
  <2> QED BY <1>6, <1>7, <2>1, <2>2 DEF Has, Fills
<1>9. \A s \in Slots : Links(s)' => Links(s) /\ s # head
  <2>1. \A u \in Threads : me[u].pc = "clear" => me'[u].pc = "clear" /\ me'[u].to = me[u].to
    BY <1>1, <1>7
  <2>2. \A s \in Slots : Stale(s) \/ s = head => Stale(s)'
    BY <1>1, <1>6, <1>7, <1>8, <2>1 DEF Stale
  <2> QED BY <1>1, <2>2 DEF Links
<1>10. \A u \in Threads : HeldOK(u)'
  <2> SUFFICES ASSUME NEW u \in Threads, me'[u].old # Null PROVE HeldOK(u)'
    BY DEF HeldOK
  <2>1. u # t /\ me'[u] = me[u]
    BY <1>6, <1>7
  <2>2. HeldOK(u) /\ me[u].old # Null /\ me[u].q \in Slots /\ me[u].q # head
    BY <1>3, <2>1, SlotKinds DEF QInv, ThreadOK, Shape
  <2> QED BY <1>1, <1>6, <1>7, <1>8, <2>1, <2>2 DEF HeldOK
<1>11. \A u \in Threads : u # t => ThreadOK(u)'
  BY <1>1, <1>7, <1>10, Bystander DEF ThreadOK
<1>12. ThreadOK(t)'
  <2>1. Shape(t)' /\ OneHand(t)' /\ EmptyOK(t)'
    BY <1>1, <1>3, <1>5, <1>6, <1>7 DEF Shape, OneHand, EmptyOK
  <2> QED BY <1>1, <1>10, <2>1 DEF ThreadOK
<1>13. HandsOK' /\ LinksOK'
  BY <1>1, <1>3, <1>4, <1>5, <1>8, <1>9, LinkIsNode DEF HandsOK, LinksOK
<1>14. BacksOK' /\ FillsOK'
  BY <1>1, <1>3, <1>4, <1>5, <1>8 DEF BacksOK, FillsOK, TypeOK
<1> QED BY <1>7, <1>11, <1>12, <1>13, <1>14 DEF QInv

\* The last round: what is left goes to the queue as one segment.
LEMMA SpreadRest ==
    ASSUME QInv, NEW t \in Owners, Spread(t), link[me[t].start] = Null PROVE QInv'
<1>1. /\ t \in Threads /\ me[t].pc = "spread" /\ Own[t] \in Queues
      /\ link' = link /\ back' = back /\ spare' = spare
      /\ Enqueue(t, Own[t], me[t].start, me[t].end, Null)
  BY BQAssumption DEF Threads, Spread
<1>2. PICK head, end : head = me[t].start /\ end = me[t].end
  OBVIOUS
<1>3. /\ TypeOK
      /\ head \in Nodes /\ end \in Nodes /\ head # Null /\ end # Null
      /\ me[t].old = Null /\ me[t].from = Null /\ me[t].to = Null /\ me[t].slot = Null
      /\ \A n \in Nodes : Has(t, n) <=> n = head \/ n = me[t].got
      /\ \A s \in Slots : Fills(t, s) <=> s = end
      /\ link[end] = Null /\ head # me[t].got
  BY <1>1, <1>2, Segment
<1>4. PICK m \in Local :
        /\ me' = [me EXCEPT ![t] = m]
        /\ m.pc = "clear" /\ m.q \in Queues /\ m.from = head /\ m.to = end
        /\ m.start = Null /\ m.end = Null
        /\ m.old = Null /\ m.slot = Null /\ m.got = me[t].got
  <2>1. PICK x \in Nodes \cup {Null} : x = Null
    OBVIOUS
  <2>2. Enqueue(t, Own[t], head, end, x)
    BY <1>1, <1>2, <2>1
  <2>3. PICK m \in Local :
          /\ me' = [me EXCEPT ![t] = m]
          /\ m.pc = "clear" /\ m.q = Own[t] /\ m.from = head /\ m.to = end
          /\ m.start = x /\ m.end = IF x = Null THEN Null ELSE me[t].end
          /\ m.old = me[t].old /\ m.slot = me[t].slot /\ m.got = me[t].got
    BY <1>1, <1>3, <2>2, EnqueueIs
  <2> QED BY <1>1, <1>3, <2>1, <2>3
<1>5. me'[t] = m /\ \A u \in Threads : u # t => me'[u] = me[u]
  BY <1>1, <1>3, <1>4, Typed DEF TypeOK
<1>6. /\ \A n \in Nodes : Has(t, n)' <=> Has(t, n)
      /\ \A s \in Slots : Fills(t, s)' <=> Fills(t, s)
  BY <1>3, <1>4, <1>5, SlotKinds DEF Has, Fills
<1>7. \A s \in Slots : Links(s)' => Links(s)
  <2>1. /\ \A u \in Threads : me[u].pc = "clear" => me'[u].pc = "clear" /\ me'[u].to = me[u].to
        /\ \A u \in Threads : me'[u].got = me[u].got
    BY <1>1, <1>4, <1>5
  <2>2. \A s \in Slots : Stale(s) => Stale(s)'
    BY <1>1, <2>1 DEF Stale
  <2> QED BY <1>1, <2>2 DEF Links
<1>8. Shape(t)' /\ OneHand(t)' /\ EmptyOK(t)'
  BY <1>1, <1>3, <1>4, <1>5 DEF Shape, OneHand, EmptyOK
<1> QED BY <1>1, <1>3, <1>4, <1>6, <1>7, <1>8, SameStep

-----------------------------------------------------------------------------
(***************************************************************************)
(* Dispatching a node, and running it.                                     *)
(***************************************************************************)
LEMMA OfferStep ==
    ASSUME QInv, NEW t \in Producers, NEW n \in Nodes, NEW q \in Queues, Offer(t, n, q)
    PROVE  QInv'
<1>1. /\ t \in Threads /\ me[t].pc = "idle" /\ n \in spare /\ TypeOK
      /\ link' = link /\ back' = back /\ spare' = spare \ {n}
      /\ n \in Slots /\ n # Null
  BY SlotKinds DEF Threads, Offer, QInv
<1>2. Empty(me[t]) /\ me[t].got = Null
  BY <1>1, EmptyHanded
<1>3. PICK m \in Local :
        /\ me' = [me EXCEPT ![t] = m]
        /\ m.pc = "clear" /\ m.q = q /\ m.from = n /\ m.to = n
        /\ m.start = Null /\ m.end = Null
        /\ m.old = Null /\ m.slot = Null /\ m.got = Null
  <2>1. PICK x \in Nodes \cup {Null} : x = Null
    OBVIOUS
  <2>2. Enqueue(t, q, n, n, x)
    BY <2>1 DEF Offer
  <2>3. PICK m \in Local :
          /\ me' = [me EXCEPT ![t] = m]
          /\ m.pc = "clear" /\ m.q = q /\ m.from = n /\ m.to = n
          /\ m.start = x /\ m.end = IF x = Null THEN Null ELSE me[t].end
          /\ m.old = me[t].old /\ m.slot = me[t].slot /\ m.got = me[t].got
    BY <1>1, <2>2, EnqueueIs
  <2> QED BY <1>2, <2>1, <2>3 DEF Empty
<1>4. TypeOK' /\ me'[t] = m /\ \A u \in Threads : u # t => me'[u] = me[u]
  BY <1>1, <1>3, Typed DEF TypeOK
<1>5. HandsOK /\ LinksOK /\ BacksOK /\ FillsOK
  BY DEF QInv
<1>6. /\ \A u \in Threads : \A x \in Nodes : Has(u, x)' <=> Has(u, x) \/ (u = t /\ x = n)
      /\ \A u \in Threads : \A s \in Slots : Fills(u, s)' <=> Fills(u, s) \/ (u = t /\ s = n)
      /\ \A u \in Threads : me'[u].got = me[u].got
  <2>1. \A x \in Nodes : Has(t, x)' <=> Has(t, x) \/ x = n
    BY <1>1, <1>2, <1>3, <1>4, SlotKinds DEF Has, Empty
  <2>2. \A s \in Slots : Fills(t, s)' <=> Fills(t, s) \/ s = n
    BY <1>1, <1>2, <1>3, <1>4, SlotKinds DEF Fills, Empty
  <2> QED BY <1>2, <1>3, <1>4, <2>1, <2>2 DEF Has, Fills
<1>7. \A s \in Slots : Links(s)' => Links(s)
  <2>1. \A u \in Threads : me[u].pc = "clear" => me'[u].pc = "clear" /\ me'[u].to = me[u].to
    BY <1>1, <1>4
  <2>2. \A s \in Slots : Stale(s) => Stale(s)'
    BY <1>1, <1>3, <1>4, <1>6, <2>1 DEF Stale
  <2> QED BY <1>1, <2>2 DEF Links
<1>8. \A u \in Threads : ~Has(u, n) /\ ~Fills(u, n) /\ n # me[u].got
  <2>1. \A u \in Threads : ~Has(u, n) /\ ~Fills(u, n)
    BY <1>1, <1>5 DEF HandsOK, FillsOK
  <2> QED BY <1>1, <2>1 DEF Has
<1>9. \A u \in Threads : HeldOK(u)'
  <2> SUFFICES ASSUME NEW u \in Threads, me'[u].old # Null PROVE HeldOK(u)'
    BY DEF HeldOK
  <2>1. u # t /\ me'[u] = me[u]
    BY <1>3, <1>4
  <2>2. HeldOK(u) /\ me[u].old # Null /\ me[u].q \in Slots /\ me[u].q # n
    BY <2>1, SlotKinds DEF QInv, ThreadOK, Shape
  <2> QED BY <1>1, <1>3, <1>4, <1>6, <2>1, <2>2 DEF HeldOK
<1>10. \A u \in Threads : u # t => ThreadOK(u)'
  BY <1>1, <1>4, <1>9, Bystander DEF ThreadOK
<1>11. ThreadOK(t)'
  <2>1. Shape(t)' /\ OneHand(t)' /\ EmptyOK(t)'
    BY <1>1, <1>3, <1>4 DEF Shape, OneHand, EmptyOK
  <2> QED BY <1>1, <1>9, <2>1 DEF ThreadOK
<1>12. HandsOK'
  BY <1>1, <1>5, <1>6, <1>8 DEF HandsOK
<1>13. LinksOK'
  <2>1. \A s \in Slots : Links(s) => link[s] # n
    BY <1>1, <1>5 DEF LinksOK
  <2> QED BY <1>1, <1>5, <1>6, <1>7, <2>1, LinkIsNode DEF LinksOK
<1>14. BacksOK'
  <2>1. \A r \in Queues : back[r] # n /\ back[r] \in Slots
    BY <1>1, <1>5 DEF BacksOK, TypeOK
  <2> QED BY <1>1, <1>5, <1>6, <2>1 DEF BacksOK
<1>15. FillsOK'
  BY <1>1, <1>5, <1>6, <1>8 DEF FillsOK
<1> QED BY <1>4, <1>10, <1>11, <1>12, <1>13, <1>14, <1>15 DEF QInv

LEMMA RunStep == ASSUME QInv, NEW t \in Threads, Run(t) PROVE QInv'
<1>1. /\ me[t].pc = "run" /\ TypeOK
      /\ me' = [me EXCEPT ![t] = Fresh] /\ Fresh \in Local
      /\ link' = link /\ back' = back /\ spare' = spare \cup {me[t].got}
  BY FreshIs DEF Run, QInv
<1>2. PICK n : n = me[t].got
  OBVIOUS
<1>3. Empty(me[t]) /\ n \in Nodes /\ n \in Slots /\ n # Null
  BY <1>1, <1>2, Locals, SlotKinds DEF QInv, ThreadOK, Shape, Empty
<1>4. TypeOK' /\ me'[t] = Fresh /\ \A u \in Threads : u # t => me'[u] = me[u]
  BY <1>1, <1>2, <1>3, Typed DEF TypeOK
<1>5. HandsOK /\ LinksOK /\ BacksOK /\ FillsOK
  BY DEF QInv
<1>6. /\ \A u \in Threads : \A x \in Nodes : Has(u, x)' <=> Has(u, x) /\ u # t
      /\ \A u \in Threads : \A s \in Slots : Fills(u, s)' <=> Fills(u, s)
      /\ \A u \in Threads : u # t => me'[u].got = me[u].got
      /\ me'[t].got = Null
  <2>1. \A x \in Nodes : ~Has(t, x)'
    BY <1>4, FreshIs DEF Has
  <2>2. \A s \in Slots : Fills(t, s)' <=> Fills(t, s)
    BY <1>1, <1>3, <1>4, FreshIs DEF Fills, Empty
  <2> QED BY <1>4, <2>1, <2>2, FreshIs DEF Has, Fills
<1>7. \A s \in Slots : Links(s)' => Links(s)
  <2>1. \A u \in Threads : me[u].pc = "clear" => me'[u].pc = "clear" /\ me'[u].to = me[u].to
    BY <1>1, <1>4
  <2>2. \A s \in Slots : Stale(s) => Stale(s)'
    BY <1>1, <1>6, <2>1 DEF Stale
  <2> QED BY <1>1, <2>2 DEF Links
<1>8. /\ Has(t, n)
      /\ \A u \in Threads : ~Fills(u, n) /\ (Has(u, n) => u = t)
      /\ \A s \in Slots : Links(s) => link[s] # n
      /\ \A r \in Queues : back[r] # n
  <2>1. Has(t, n)
    BY <1>2, <1>3 DEF Has
  <2> QED BY <1>2, <1>3, <1>5, <2>1 DEF HandsOK, LinksOK, BacksOK, FillsOK
<1>9. \A u \in Threads : HeldOK(u)'
  <2> SUFFICES ASSUME NEW u \in Threads, me'[u].old # Null PROVE HeldOK(u)'
    BY DEF HeldOK
  <2>1. u # t /\ me'[u] = me[u]
    BY <1>4, FreshIs
  <2>2. HeldOK(u) /\ me[u].old # Null /\ me[u].q \in Slots
    BY <2>1, SlotKinds DEF QInv, ThreadOK, Shape
  <2> QED BY <1>1, <1>4, <1>6, <2>1, <2>2, FreshIs DEF HeldOK
<1>10. \A u \in Threads : u # t => ThreadOK(u)'
  BY <1>1, <1>4, <1>9, Bystander DEF ThreadOK
<1>11. ThreadOK(t)'
  <2>1. Shape(t)' /\ OneHand(t)' /\ EmptyOK(t)'
    BY <1>4, FreshIs DEF Shape, OneHand, EmptyOK
  <2> QED BY <1>9, <2>1 DEF ThreadOK
<1>12. HandsOK'
  BY <1>1, <1>2, <1>5, <1>6, <1>8 DEF HandsOK
<1>13. LinksOK'
  BY <1>1, <1>2, <1>5, <1>6, <1>7, <1>8, LinkIsNode DEF LinksOK
<1>14. BacksOK'
  BY <1>1, <1>2, <1>5, <1>6, <1>8, SlotKinds DEF BacksOK, TypeOK
<1>15. FillsOK'
  BY <1>1, <1>2, <1>5, <1>6, <1>8, SlotKinds DEF FillsOK
<1> QED BY <1>4, <1>10, <1>11, <1>12, <1>13, <1>14, <1>15 DEF QInv

-----------------------------------------------------------------------------
LEMMA QNext == QInv /\ [Next]_vars => QInv'
<1> SUFFICES ASSUME QInv, [Next]_vars PROVE QInv'
  OBVIOUS
<1>1. ASSUME NEW p \in Producers, NEW n \in Nodes, NEW q \in Queues, Offer(p, n, q)
      PROVE  QInv'
  BY <1>1, OfferStep
<1>2. ASSUME NEW t \in Threads, EnqueueStep(t) PROVE QInv'
  BY <1>2, ClearStep, SwapStep, PublishStep DEF EnqueueStep
<1>3. ASSUME NEW t \in Owners, DequeueStep(t) PROVE QInv'
  <2>1. t \in Threads
    BY DEF Threads
  <2> QED BY <1>3, <2>1, ProbeStep, AcquireStep, ReadNextStep, AdvanceStep, CasBackStep,
             RestoreStep DEF DequeueStep
<1>4. ASSUME NEW t \in Owners, StealStep(t) PROVE QInv'
  <2>1. t \in Threads
    BY DEF Threads
  <2> QED BY <1>4, <2>1, DetachStep, TakeOneStep, SpreadFirst, SpreadRest DEF StealStep
<1>5. ASSUME NEW t \in Owners, Pop(t) \/ Run(t) PROVE QInv'
  <2>1. t \in Threads
    BY DEF Threads
  <2> QED BY <1>5, <2>1, PopStep, RunStep
<1>6. CASE UNCHANGED vars
  BY <1>6 DEF vars, QInv, TypeOK, ThreadOK, Shape, OneHand, EmptyOK, HeldOK, HandsOK,
              LinksOK, BacksOK, FillsOK, Has, Fills, Links, Stale
<1> QED BY <1>1, <1>2, <1>3, <1>4, <1>5, <1>6 DEF Next, WorkerStep

\* The two accounts of the queues are kept, for any number of threads, queues
\* and nodes and whoever steals from whom.
THEOREM BehaviorQueue_Invariance == Spec => []QInv
<1> QED BY QInit, QNext, PTL DEF Spec

\* The assertion of boc_bq_enqueue_segment never fails: nobody has filled the
\* slot that an enqueuer is about to link its segment to.
THEOREM BehaviorQueue_SlotIsFree == Spec => []SlotIsFree
<1>1. QInv => SlotIsFree
  BY Locals, SlotKinds DEF QInv, ThreadOK, Shape, EmptyOK, SlotIsFree
<1> QED BY <1>1, BehaviorQueue_Invariance, PTL

\* A node that a worker has taken is in nobody else's hands, not on offer, and
\* no queue links to it: pops, steals and lost CASes never double a behavior.
TakenOnce ==
  \A t \in Threads : me[t].got # Null =>
    /\ me[t].got \notin spare
    /\ \A u \in Threads : Has(u, me[t].got) => u = t
    /\ \A s \in Slots : Links(s) => link[s] # me[t].got

THEOREM BehaviorQueue_TakenOnce == Spec => []TakenOnce
<1>1. QInv => TakenOnce
  <2> SUFFICES ASSUME QInv, NEW t \in Threads, me[t].got # Null
               PROVE  /\ me[t].got \notin spare
                      /\ \A u \in Threads : Has(u, me[t].got) => u = t
                      /\ \A s \in Slots : Links(s) => link[s] # me[t].got
    BY DEF TakenOnce
  <2>1. me[t].got \in Nodes /\ Has(t, me[t].got) /\ HandsOK /\ LinksOK
    BY Locals DEF QInv, Has
  <2> QED BY <2>1 DEF HandsOK, LinksOK
<1> QED BY <1>1, BehaviorQueue_Invariance, PTL
-----------------------------------------------------------------------------
(***************************************************************************)
(* What the links will be.  The slot a consumer has emptied and the slot   *)
(* an enqueuer is about to fill are followed as if both were done.         *)
(***************************************************************************)
Holds(t, s)   == s \in Queues /\ me[t].q = s /\ me[t].old # Null
Linking(t, s) == me[t].pc = "publish" /\ me[t].slot = s

LEMMA HoldersIs ==
    ASSUME QInv, NEW s \in Slots, NEW t \in Threads, Holds(t, s)
    PROVE  Holders(s) = {t} /\ \A u \in Threads : ~Linking(u, s)
<1>1. HeldOK(t) /\ TypeOK
  BY DEF QInv, ThreadOK
<1>2. \A u \in Threads : me[u].q = s /\ me[u].old # Null => t = u
  BY <1>1 DEF HeldOK, Holds
<1>3. Holders(s) = {t}
  BY <1>2 DEF Holders, Holds
<1>4. \A u \in Threads : ~Fills(u, s)
  BY <1>1 DEF HeldOK, Holds
<1>5. \A u \in Threads : ~Linking(u, s)
  BY <1>4, SlotKinds DEF Linking, Fills
<1> QED BY <1>3, <1>5

LEMMA LinkersIs ==
    ASSUME QInv, NEW s \in Slots, NEW t \in Threads, Linking(t, s)
    PROVE  /\ Linkers(s) = {t} /\ link[s] = Null /\ \A u \in Threads : ~Holds(u, s)
           /\ Fills(t, s) /\ Has(t, me[t].from) /\ me[t].from \in Nodes
<1>1. Shape(t) /\ EmptyOK(t) /\ FillsOK /\ TypeOK
  BY DEF QInv, ThreadOK
<1>2. Fills(t, s) /\ s # Null
  BY SlotKinds DEF Linking, Fills
<1>3. \A u \in Threads : Linking(u, s) => u = t
  <2> SUFFICES ASSUME NEW u \in Threads, Linking(u, s) PROVE u = t
    OBVIOUS
  <2>1. Fills(u, s)
    BY <1>2 DEF Linking, Fills
  <2> QED BY <1>1, <1>2, <2>1 DEF FillsOK
<1>4. Linkers(s) = {t}
  BY <1>3 DEF Linkers, Linking
<1>5. link[s] = Null
  BY <1>1, <1>2 DEF Linking, EmptyOK
<1>6. \A u \in Threads : ~Holds(u, s)
  BY HoldersIs
<1>7. me[t].from # Null /\ Has(t, me[t].from)
  BY <1>1 DEF Shape, Linking, Has
<1> QED BY <1>1, <1>2, <1>4, <1>5, <1>6, <1>7, HandIsNode

LEMMA FollowIs ==
    ASSUME QInv, NEW s \in Slots
    PROVE  /\ \A t \in Threads : Holds(t, s) => Follow(s) = me[t].old
           /\ \A t \in Threads : Linking(t, s) => Follow(s) = me[t].from
           /\ (\A t \in Threads : ~Holds(t, s) /\ ~Linking(t, s)) => Follow(s) = link[s]
<1>1. ASSUME NEW t \in Threads, Holds(t, s) PROVE Follow(s) = me[t].old
  <2>1. Holders(s) = {t} /\ s \in Queues
    BY <1>1, HoldersIs DEF Holds
  <2>2. {me[u] : u \in Holders(s)} = {me[t]}
    BY <2>1
  <2>3. (CHOOSE m \in {me[u] : u \in Holders(s)} : TRUE) = me[t]
    BY <2>2
  <2> QED BY <2>1, <2>3 DEF Follow
<1>2. ASSUME NEW t \in Threads, Linking(t, s) PROVE Follow(s) = me[t].from
  <2>1. Linkers(s) = {t} /\ \A u \in Threads : ~Holds(u, s)
    BY <1>2, LinkersIs
  <2>2. s \in Queues => Holders(s) = {}
    BY <2>1 DEF Holds, Holders
  <2>3. {me[u] : u \in Linkers(s)} = {me[t]}
    BY <2>1
  <2>4. (CHOOSE m \in {me[u] : u \in Linkers(s)} : TRUE) = me[t]
    BY <2>3
  <2> QED BY <2>1, <2>2, <2>4 DEF Follow
<1>3. ASSUME \A t \in Threads : ~Holds(t, s) /\ ~Linking(t, s) PROVE Follow(s) = link[s]
  <2>1. s \in Queues => Holders(s) = {}
    BY <1>3 DEF Holds, Holders
  <2>2. Linkers(s) = {}
    BY <1>3 DEF Linking, Linkers
  <2> QED BY <2>1, <2>2 DEF Follow
<1> QED BY <1>1, <1>2, <1>3

\* ... in this state and in the next one.
FollowRule == \A s \in Slots :
    /\ \A t \in Threads : Holds(t, s) => Follow(s) = me[t].old
    /\ \A t \in Threads : Linking(t, s) => Follow(s) = me[t].from
    /\ (\A t \in Threads : ~Holds(t, s) /\ ~Linking(t, s)) => Follow(s) = link[s]

LEMMA FollowNow == QInv => FollowRule
BY FollowIs DEF FollowRule

LEMMA FollowNext == QInv' => FollowRule'
BY FollowNow, PTL

LEMMA FollowKinds ==
    ASSUME QInv, NEW s \in Slots, Follow(s) # Null
    PROVE  /\ Follow(s) \in Nodes
           /\ \/ \E t \in Threads : Holds(t, s) /\ Follow(s) = me[t].old
              \/ \E t \in Threads : Linking(t, s) /\ Follow(s) = me[t].from
              \/ Follow(s) = link[s] /\ \A t \in Threads : ~Holds(t, s) /\ ~Linking(t, s)
<1>1. TypeOK
  BY DEF QInv
<1>2. CASE \E t \in Threads : Holds(t, s)
  <2>1. PICK t \in Threads : Holds(t, s)
    BY <1>2
  <2>2. Follow(s) = me[t].old
    BY <2>1, FollowIs
  <2> QED BY <1>1, <2>1, <2>2, Locals
<1>3. CASE \E t \in Threads : Linking(t, s)
  <2>1. PICK t \in Threads : Linking(t, s)
    BY <1>3
  <2>2. Follow(s) = me[t].from
    BY <2>1, FollowIs
  <2> QED BY <1>1, <2>1, <2>2, Locals
<1>4. CASE \A t \in Threads : ~Holds(t, s) /\ ~Linking(t, s)
  <2>1. Follow(s) = link[s]
    BY <1>4, FollowIs
  <2> QED BY <1>1, <1>4, <2>1 DEF TypeOK
<1> QED BY <1>2, <1>3, <1>4

\* A node in t's hand follows no slot but the one t has emptied or will fill.
LEMMA HandFollows ==
    ASSUME QInv, NEW s \in Slots, ~Stale(s), NEW t \in Threads, NEW n, n = Follow(s),
           n # Null, Has(t, n)
    PROVE  \/ Holds(t, s) /\ n = me[t].old
           \/ Linking(t, s) /\ n = me[t].from
<1>1. HandsOK /\ LinksOK /\ n \in Nodes
  BY FollowKinds DEF QInv
<1>2. CASE \E u \in Threads : Holds(u, s) /\ Follow(s) = me[u].old
  <2>1. PICK u \in Threads : Holds(u, s) /\ Follow(s) = me[u].old
    BY <1>2
  <2>2. Has(u, n)
    BY <2>1 DEF Has
  <2> QED BY <1>1, <2>1, <2>2 DEF HandsOK
<1>3. CASE \E u \in Threads : Linking(u, s) /\ Follow(s) = me[u].from
  <2>1. PICK u \in Threads : Linking(u, s) /\ Follow(s) = me[u].from
    BY <1>3
  <2>2. Has(u, n)
    BY <2>1 DEF Has
  <2> QED BY <1>1, <2>1, <2>2 DEF HandsOK
<1>4. CASE Follow(s) = link[s]
  <2>1. Links(s) /\ link[s] = n
    BY <1>4 DEF Links
  <2> QED BY <1>1, <2>1 DEF LinksOK
<1> QED BY <1>2, <1>3, <1>4, FollowKinds

-----------------------------------------------------------------------------
(***************************************************************************)
(* Paths.  A path leads from slot s to slot e along the links as they will *)
(* be, over slots that are not stale; Behind(p, s, i) is the slot that the *)
(* i-th node of p follows.                                                 *)
(***************************************************************************)
Behind(p, s, i) == IF i = 1 THEN s ELSE p[i - 1]

Path(p, s, e) ==
  /\ p \in Seq(Nodes)
  /\ Len(p) = 0 <=> s = e
  /\ Len(p) > 0 => p[Len(p)] = e
  /\ \A i \in 1 .. Len(p) : /\ ~Stale(Behind(p, s, i))
                            /\ Follow(Behind(p, s, i)) = p[i]

\* Nothing follows the end.
Ends(s, e) == s = e \/ Follow(e) = Null

\* A set of natural numbers has a least one.
LessThan == {ss \in Nat \X Nat : ss[1] < ss[2]}

LEMMA LessThanIsWellFounded == IsWellFoundedOn(LessThan, Nat)
BY NatLessThanWellFounded DEF OpToRel, LessThan

LEMMA LeastNatural ==
    ASSUME NEW T \in SUBSET Nat, T # {}
    PROVE  \E x \in T : \A y \in T : x <= y
<1>1. PICK x \in T : \A y \in T : ~(<<y, x>> \in LessThan)
  BY WFMin, LessThanIsWellFounded
<1>2. \A y \in T : ~(y < x)
  BY <1>1 DEF LessThan
<1> QED BY <1>2

\* A path has every node once: two places with the same node would go on alike
\* to its end, which nothing follows.
LEMMA PathHasNoCycle ==
    ASSUME NEW p, NEW s \in Slots, NEW e \in Slots, Path(p, s, e), Ends(s, e),
           NEW i \in 1 .. Len(p), NEW j \in 1 .. Len(p), i < j
    PROVE  p[i] # p[j]
<1> SUFFICES ASSUME p[i] = p[j] PROVE FALSE
  OBVIOUS
<1>1. p \in Seq(Nodes) /\ Len(p) \in Nat
  BY DEF Path
<1>2. PICK L : L = Len(p)
  OBVIOUS
<1>3. L \in Nat /\ L > 0 /\ p[L] = e /\ Follow(e) = Null
  BY <1>1, <1>2 DEF Path, Ends
<1>4. \A k \in 1 .. L : k < L => Follow(p[k]) = p[k + 1]
  <2> SUFFICES ASSUME NEW k \in 1 .. L, k < L PROVE Follow(p[k]) = p[k + 1]
    OBVIOUS
  <2>1. k + 1 \in 1 .. L /\ k + 1 # 1 /\ (k + 1) - 1 = k
    BY <1>3
  <2>2. Behind(p, s, k + 1) = p[k]
    BY <2>1 DEF Behind
  <2> QED BY <1>2, <2>1, <2>2 DEF Path
<1>5. \A k \in 1 .. L : p[k] \in Nodes /\ p[k] # Null
  BY <1>1, <1>2, SlotKinds
<1> DEFINE T == {d \in 0 .. L : \E a, b \in 1 .. L : a < b /\ p[a] = p[b] /\ d = L - b}
<1>6. L - j \in T
  BY <1>2, <1>3
<1>7. PICK d \in T : \A y \in T : d <= y
  <2>1. \A x \in T : x \in Nat
    BY <1>3
  <2>2. T # {}
    BY <1>6
  <2>3. T \in SUBSET Nat
    BY <2>1
  <2> HIDE DEF T
  <2> QED BY <2>2, <2>3, LeastNatural
<1>8. PICK a \in 1 .. L, b \in 1 .. L : a < b /\ p[a] = p[b] /\ d = L - b
  BY <1>7
<1>9. a < L /\ a + 1 \in 1 .. L
  BY <1>3, <1>8
<1>10. Follow(p[a]) = p[a + 1] /\ p[a + 1] # Null
  BY <1>4, <1>5, <1>9
<1>11. b # L
  BY <1>3, <1>8, <1>10
<1>12. b < L /\ b + 1 \in 1 .. L /\ a + 1 < b + 1
  BY <1>3, <1>8, <1>11
<1>13. p[b + 1] = p[a + 1]
  BY <1>4, <1>8, <1>10, <1>12
<1>14. L - (b + 1) \in T
  <2>1. L - (b + 1) \in 0 .. L
    BY <1>3, <1>12
  <2> QED BY <1>9, <1>12, <1>13, <2>1
<1>15. L - (b + 1) < d
  BY <1>3, <1>8, <1>12
<1> HIDE DEF T
<1>16. d \in Int /\ L - (b + 1) \in Int
  BY <1>3, <1>8, <1>12
<1> QED BY <1>7, <1>14, <1>15, <1>16

LEMMA PathIsShort ==
    ASSUME NEW p, NEW s \in Slots, NEW e \in Slots, Path(p, s, e), Ends(s, e)
    PROVE  Len(p) <= Cardinality(Nodes) /\ Cardinality(Nodes) \in Nat
<1>1. p \in Seq(Nodes) /\ Len(p) \in Nat
  BY DEF Path
<1>2. IsFiniteSet(Nodes) /\ Cardinality(Nodes) \in Nat
  BY BQAssumption, FS_CardinalityType
<1>3. \A i, j \in 1 .. Len(p) : p[i] = p[j] => i = j
  <2> SUFFICES ASSUME NEW i \in 1 .. Len(p), NEW j \in 1 .. Len(p), p[i] = p[j], i # j
               PROVE  FALSE
    OBVIOUS
  <2>1. i < j \/ j < i
    BY <1>1
  <2> QED BY <2>1, PathHasNoCycle
<1>4. p \in Injection(1 .. Len(p), Nodes)
  <2>1. p \in [1 .. Len(p) -> Nodes]
    BY <1>1
  <2> QED BY <1>3, <2>1 DEF Injection, IsInjective
<1>5. IsFiniteSet(1 .. Len(p)) /\ Cardinality(1 .. Len(p)) = Len(p)
  <2>1. /\ IsFiniteSet(1 .. Len(p))
        /\ Cardinality(1 .. Len(p)) = IF 1 > Len(p) THEN 0 ELSE Len(p) - 1 + 1
    BY <1>1, FS_Interval
  <2> QED BY <1>1, <2>1
<1>6. Cardinality(1 .. Len(p)) <= Cardinality(Nodes)
  BY <1>2, <1>4, FS_Injection
<1> QED BY <1>1, <1>2, <1>5, <1>6

\* The walk that Chain takes.
Onward(f, e, w) == LET x == w[Len(w)]
                   IN  IF x = e \/ f[x] = Null THEN w ELSE Append(w, f[x])

IsWalk(v, f, s, e) ==
  v = [k \in 0 .. Cardinality(Nodes) |-> IF k = 0 THEN <<s>> ELSE Onward(f, e, v[k - 1])]

LEMMA ChainDef ==
    ASSUME NEW s, NEW e, s # e
    PROVE  \E f, w : /\ f = [x \in Slots |-> Follow(x)]
                     /\ w = CHOOSE v : IsWalk(v, f, s, e)
                     /\ Chain(s, e) = Tail(w[Cardinality(Nodes)])
BY DEF Chain, IsWalk, Onward

\* The first k slots of a path, after its start.
Upto(p, s, k) == [i \in 1 .. (1 + (IF k <= Len(p) THEN k ELSE Len(p))) |-> Behind(p, s, i)]

LEMMA UptoStarts ==
    ASSUME NEW p, NEW s \in Slots, p \in Seq(Nodes)
    PROVE  Upto(p, s, 0) = <<s>>
<1>1. Len(p) \in Nat
  OBVIOUS
<1>2. (1 + (IF 0 <= Len(p) THEN 0 ELSE Len(p))) = 1
  BY <1>1
<1>3. Upto(p, s, 0) = [i \in 1 .. 1 |-> Behind(p, s, i)]
  BY <1>2 DEF Upto
<1>4. \A i \in 1 .. 1 : Behind(p, s, i) = s
  BY DEF Behind
<1> QED BY <1>3, <1>4

LEMMA UptoGoesOn ==
    ASSUME NEW p, NEW s \in Slots, NEW e \in Slots, Path(p, s, e), Ends(s, e), s # e,
           NEW f, f = [x \in Slots |-> Follow(x)],
           NEW k \in Nat, k # 0
    PROVE  Upto(p, s, k) = Onward(f, e, Upto(p, s, k - 1))
<1>1. p \in Seq(Nodes) /\ Len(p) \in Nat /\ Len(p) > 0 /\ p[Len(p)] = e /\ Follow(e) = Null
  BY DEF Path, Ends
<1>2. PICK L : L = Len(p)
  OBVIOUS
<1>3. PICK w : w = Upto(p, s, k - 1)
  OBVIOUS
<1>4. \A i \in 1 .. L : p[i] \in Nodes /\ p[i] \in Slots /\ p[i] # Null
  BY <1>1, <1>2, SlotKinds
<1>5. \A i \in 1 .. (L + 1) : Behind(p, s, i) \in Slots
  <2> SUFFICES ASSUME NEW i \in 1 .. (L + 1), i # 1 PROVE p[i - 1] \in Slots
    BY DEF Behind
  <2>1. i - 1 \in 1 .. L
    BY <1>1, <1>2
  <2> QED BY <1>4, <2>1
<1>6. CASE k <= L
  <2>1. w = [i \in 1 .. k |-> Behind(p, s, i)]
    <3>1. 1 + (IF k - 1 <= L THEN k - 1 ELSE L) = k
      BY <1>1, <1>2, <1>6
    <3> QED BY <1>2, <1>3, <3>1 DEF Upto
  <2>2. Upto(p, s, k) = [i \in 1 .. (k + 1) |-> Behind(p, s, i)]
    <3>1. 1 + (IF k <= L THEN k ELSE L) = k + 1
      BY <1>1, <1>2, <1>6
    <3> QED BY <1>2, <3>1 DEF Upto
  <2>3. \A i \in 1 .. (k + 1) : i \in 1 .. (L + 1)
    BY <1>1, <1>2, <1>6
  <2>4. w \in Seq(Slots) /\ Len(w) = k
    BY <1>5, <2>1, <2>3
  <2>5. w[Len(w)] = Behind(p, s, k) /\ k \in 1 .. L /\ k \in 1 .. (L + 1)
    BY <1>1, <1>2, <1>6, <2>1, <2>4
  <2>6. f[Behind(p, s, k)] = p[k] /\ p[k] # Null
    BY <1>2, <1>4, <1>5, <2>5 DEF Path
  <2>7. Behind(p, s, k) # e
    BY <1>1, <1>5, <2>5, <2>6
  <2>8. Onward(f, e, w) = Append(w, p[k])
    BY <2>5, <2>6, <2>7 DEF Onward
  <2>9. Behind(p, s, k + 1) = p[k]
    <3>1. k + 1 # 1 /\ (k + 1) - 1 = k
      OBVIOUS
    <3> QED BY <3>1 DEF Behind
  <2>10. Append(w, p[k]) = [i \in 1 .. (k + 1) |-> Behind(p, s, i)]
    <3>1. Append(w, p[k]) = [i \in 1 .. (Len(w) + 1) |-> IF i <= Len(w) THEN w[i] ELSE p[k]]
      BY <1>4, <2>4, <2>5
    <3>2. \A i \in 1 .. (k + 1) : (IF i <= k THEN w[i] ELSE p[k]) = Behind(p, s, i)
      <4> SUFFICES ASSUME NEW i \in 1 .. (k + 1)
                   PROVE  (IF i <= k THEN w[i] ELSE p[k]) = Behind(p, s, i)
        OBVIOUS
      <4>1. CASE i <= k
        BY <2>1, <4>1
      <4>2. CASE i = k + 1
        BY <2>9, <4>2
      <4> QED BY <4>1, <4>2
    <3> QED BY <2>4, <3>1, <3>2
  <2> QED BY <1>3, <2>2, <2>8, <2>10
<1>7. CASE k > L
  <2>1. w = [i \in 1 .. (L + 1) |-> Behind(p, s, i)] /\ Upto(p, s, k) = w
    <3>1. /\ 1 + (IF k - 1 <= L THEN k - 1 ELSE L) = L + 1
          /\ 1 + (IF k <= L THEN k ELSE L) = L + 1
      BY <1>1, <1>2, <1>7
    <3> QED BY <1>2, <1>3, <3>1 DEF Upto
  <2>2. Len(w) = L + 1
    BY <1>1, <1>2, <1>5, <2>1
  <2>3. w[Len(w)] = e
    <3>1. L + 1 # 1 /\ (L + 1) - 1 = L /\ L + 1 \in 1 .. (L + 1)
      BY <1>1, <1>2
    <3> QED BY <1>1, <1>2, <2>1, <2>2, <3>1 DEF Behind
  <2> QED BY <1>3, <2>1, <2>3 DEF Onward
<1> QED BY <1>1, <1>2, <1>6, <1>7

\* What Chain computes is the path, whenever there is one.
LEMMA ChainIs ==
    ASSUME NEW p, NEW s \in Slots, NEW e \in Slots, Path(p, s, e), Ends(s, e)
    PROVE  Chain(s, e) = p
<1>1. p \in Seq(Nodes) /\ Len(p) \in Nat
  BY DEF Path
<1>2. CASE s = e
  <2>1. p = <<>>
    BY <1>1, <1>2 DEF Path
  <2> QED BY <1>2, <2>1 DEF Chain
<1>3. CASE s # e
  <2>1. PICK f, w : /\ f = [x \in Slots |-> Follow(x)]
                    /\ w = CHOOSE v : IsWalk(v, f, s, e)
                    /\ Chain(s, e) = Tail(w[Cardinality(Nodes)])
    BY <1>3, ChainDef
  <2>2. PICK N : N = Cardinality(Nodes)
    OBVIOUS
  <2>3. N \in Nat /\ Len(p) <= N
    BY <2>2, PathIsShort
  <2>4. \A k \in 1 .. N : Upto(p, s, k) = Onward(f, e, Upto(p, s, k - 1))
    BY <1>3, <2>1, <2>3, UptoGoesOn
  <2>5. Upto(p, s, 0) = <<s>>
    BY <1>1, UptoStarts
  <2>6. \E v : IsWalk(v, f, s, e)
    <3>1. PICK v : v = [k \in 0 .. N |-> Upto(p, s, k)]
      OBVIOUS
    <3>2. \A k \in 0 .. N : v[k] = IF k = 0 THEN <<s>> ELSE Onward(f, e, v[k - 1])
      <4> SUFFICES ASSUME NEW k \in 0 .. N
                   PROVE  v[k] = IF k = 0 THEN <<s>> ELSE Onward(f, e, v[k - 1])
        OBVIOUS
      <4>1. CASE k = 0
        BY <2>3, <2>5, <3>1, <4>1
      <4>2. CASE k # 0
        <5>1. k \in 1 .. N /\ k - 1 \in 0 .. N
          BY <2>3, <4>2
        <5>2. v[k] = Upto(p, s, k) /\ v[k - 1] = Upto(p, s, k - 1)
          BY <3>1, <5>1
        <5> QED BY <2>4, <4>2, <5>1, <5>2
      <4> QED BY <4>1, <4>2
    <3>3. v = [k \in 0 .. N |-> IF k = 0 THEN <<s>> ELSE Onward(f, e, v[k - 1])]
      BY <3>1, <3>2
    <3> QED BY <2>2, <3>3 DEF IsWalk
  <2>7. IsWalk(w, f, s, e)
    BY <2>1, <2>6
  <2>8. \A k \in 0 .. N : w[k] = IF k = 0 THEN <<s>> ELSE Onward(f, e, w[k - 1])
    BY <2>2, <2>7 DEF IsWalk
  <2>9. \A k \in 0 .. N : w[k] = Upto(p, s, k)
    <3> SUFFICES ASSUME \E k \in 0 .. N : w[k] # Upto(p, s, k) PROVE FALSE
      OBVIOUS
    <3> DEFINE T == {k \in 0 .. N : w[k] # Upto(p, s, k)}
    <3>1. \A k \in T : k \in Nat
      BY <2>3
    <3>2. T # {}
      OBVIOUS
    <3>3. T \in SUBSET Nat
      BY <3>1
    <3>4. PICK k \in T : \A j \in T : k <= j
      <4> HIDE DEF T
      <4> QED BY <3>2, <3>3, LeastNatural
    <3>5. k \in 0 .. N /\ w[k] # Upto(p, s, k)
      OBVIOUS
    <3>6. k # 0
      BY <2>5, <2>8, <3>5
    <3>7. k \in 1 .. N /\ k - 1 \in 0 .. N /\ ~(k <= k - 1)
      BY <2>3, <3>5, <3>6
    <3>8. w[k - 1] = Upto(p, s, k - 1)
      BY <3>4, <3>7
    <3> QED BY <2>4, <2>8, <3>5, <3>6, <3>7, <3>8
  <2>10. w[N] = [i \in 1 .. (Len(p) + 1) |-> Behind(p, s, i)]
    <3>1. 1 + (IF N <= Len(p) THEN N ELSE Len(p)) = Len(p) + 1 /\ N \in 0 .. N
      BY <1>1, <2>3
    <3> QED BY <2>9, <3>1 DEF Upto
  <2>11. \A i \in 1 .. (Len(p) + 1) : i # 1 => Behind(p, s, i) = p[i - 1] /\ i - 1 \in 1 .. Len(p)
    BY <1>1 DEF Behind
  <2>12. w[N] \in Seq(Slots) /\ Len(w[N]) = Len(p) + 1
    <3>1. \A i \in 1 .. (Len(p) + 1) : Behind(p, s, i) \in Slots
      BY <1>1, <2>11, SlotKinds DEF Behind
    <3> QED BY <1>1, <2>10, <3>1
  <2>13. Tail(w[N]) = p
    <3>1. w[N] # <<>>
      BY <1>1, <2>12
    <3>2. Tail(w[N]) = [i \in 1 .. (Len(w[N]) - 1) |-> w[N][i + 1]]
      BY <2>12, <3>1
    <3>3. Len(w[N]) - 1 = Len(p)
      BY <1>1, <2>12
    <3>4. \A i \in 1 .. Len(p) : w[N][i + 1] = p[i]
      <4> SUFFICES ASSUME NEW i \in 1 .. Len(p) PROVE w[N][i + 1] = p[i]
        OBVIOUS
      <4>1. i + 1 \in 1 .. (Len(p) + 1) /\ i + 1 # 1 /\ (i + 1) - 1 = i
        BY <1>1
      <4> QED BY <2>10, <2>11, <4>1
    <3>5. Tail(w[N]) = [i \in 1 .. Len(p) |-> p[i]]
      BY <3>2, <3>3, <3>4
    <3> QED BY <1>1, <3>5
  <2> QED BY <2>1, <2>2, <2>13
<1> QED BY <1>2, <1>3

\* A path without its first node, and the path made of two.
LEMMA PathTail ==
    ASSUME NEW p, NEW s \in Slots, NEW e \in Slots, Path(p, s, e), Follow(e) = Null,
           Len(p) > 0
    PROVE  /\ p[1] \in Nodes /\ Path(Tail(p), p[1], e) /\ Follow(s) = p[1] /\ ~Stale(s)
           /\ p # <<>> /\ p = <<p[1]>> \o Tail(p)
<1>1. p \in Seq(Nodes) /\ Len(p) \in Nat /\ p # <<>>
  BY DEF Path
<1>2. PICK o, n, L : o = Tail(p) /\ n = p[1] /\ L = Len(p)
  OBVIOUS
<1>3. n \in Nodes /\ Follow(s) = n /\ ~Stale(s)
  <2>1. 1 \in 1 .. Len(p)
    BY <1>1
  <2>2. Behind(p, s, 1) = s
    BY DEF Behind
  <2> QED BY <1>1, <1>2, <2>1, <2>2 DEF Path
<1>4. o \in Seq(Nodes) /\ Len(o) = L - 1 /\ \A i \in 1 .. L - 1 : o[i] = p[i + 1]
  BY <1>1, <1>2
<1>5. \A i \in 1 .. L - 1 : /\ i + 1 \in 1 .. L
                            /\ Behind(o, n, i) = Behind(p, s, i + 1)
  <2> SUFFICES ASSUME NEW i \in 1 .. L - 1
               PROVE  i + 1 \in 1 .. L /\ Behind(o, n, i) = Behind(p, s, i + 1)
    OBVIOUS
  <2>1. i + 1 \in 1 .. L /\ i + 1 # 1 /\ (i + 1) - 1 = i
    BY <1>1, <1>2
  <2>2. Behind(p, s, i + 1) = p[i]
    BY <2>1 DEF Behind
  <2>3. CASE i = 1
    BY <1>2, <2>1, <2>2, <2>3 DEF Behind
  <2>4. CASE i # 1
    <3>1. i - 1 \in 1 .. L - 1 /\ (i - 1) + 1 = i
      BY <1>1, <1>2, <2>4
    <3>2. o[i - 1] = p[i]
      BY <1>4, <3>1
    <3> QED BY <2>1, <2>2, <2>4, <3>2 DEF Behind
  <2> QED BY <2>3, <2>4
<1>6. \A i \in 1 .. L - 1 : ~Stale(Behind(o, n, i)) /\ Follow(Behind(o, n, i)) = o[i]
  BY <1>2, <1>4, <1>5 DEF Path
<1>7. Len(o) > 0 => o[Len(o)] = e
  <2> SUFFICES ASSUME Len(o) > 0 PROVE o[Len(o)] = e
    OBVIOUS
  <2>1. L - 1 \in 1 .. L - 1 /\ (L - 1) + 1 = L /\ L > 0
    BY <1>1, <1>2, <1>4
  <2> QED BY <1>2, <1>4, <2>1 DEF Path
<1>8. Len(o) = 0 <=> n = e
  <2>1. ASSUME Len(o) = 0 PROVE n = e
    <3>1. L = 1
      BY <1>1, <1>2, <1>4, <2>1
    <3> QED BY <1>2, <3>1 DEF Path
  <2>2. ASSUME Len(o) # 0, n = e PROVE FALSE
    <3>1. 1 \in 1 .. L - 1
      BY <1>1, <1>2, <1>4, <2>2
    <3>2. Follow(n) = o[1] /\ o[1] \in Nodes
      BY <1>4, <1>6, <3>1 DEF Behind
    <3> QED BY <2>2, <3>2, SlotKinds
  <2> QED BY <2>1, <2>2
<1>9. Path(o, n, e)
  BY <1>4, <1>6, <1>7, <1>8 DEF Path
<1>10. p = <<n>> \o o
  BY <1>1, <1>2
<1> QED BY <1>1, <1>2, <1>3, <1>9, <1>10

JoinRule ==
  \A p, o \in Seq(Nodes) : \A s, b, e \in Slots : \A n \in Nodes :
    Path(p, s, b) /\ ~Stale(b) /\ Follow(b) = n /\ Path(o, n, e) /\ s # e
    => Path(p \o (<<n>> \o o), s, e)

LEMMA PathsJoin == JoinRule
<1> SUFFICES ASSUME NEW p \in Seq(Nodes), NEW o \in Seq(Nodes), NEW s \in Slots,
                    NEW b \in Slots, NEW e \in Slots, NEW n \in Nodes,
                    Path(p, s, b), ~Stale(b), Follow(b) = n, Path(o, n, e), s # e
             PROVE  Path(p \o (<<n>> \o o), s, e)
  BY DEF JoinRule
<1>1. PICK z, L, M : z = p \o (<<n>> \o o) /\ L = Len(p) /\ M = Len(o)
  OBVIOUS
<1>2. L \in Nat /\ M \in Nat
  BY <1>1
<1>3. z \in Seq(Nodes) /\ Len(z) = L + 1 + M
  <2>1. <<n>> \o o \in Seq(Nodes) /\ Len(<<n>> \o o) = 1 + M
    BY <1>1
  <2> QED BY <1>1, <1>2, <2>1
<1>4. /\ \A i \in 1 .. L : z[i] = p[i]
      /\ z[L + 1] = n
      /\ \A i \in 1 .. M : z[i + (L + 1)] = o[i]
  <2>1. PICK y : y = <<n>> \o o
    OBVIOUS
  <2>2. /\ y \in Seq(Nodes) /\ Len(y) = 1 + M /\ y[1] = n
        /\ \A i \in 1 .. M : y[i + 1] = o[i]
    BY <1>1, <2>1
  <2>3. \A i \in 1 .. (L + Len(y)) : z[i] = IF i <= L THEN p[i] ELSE y[i - L]
    BY <1>1, <2>1, <2>2
  <2>4. ASSUME NEW i \in 1 .. M PROVE z[i + (L + 1)] = o[i]
    <3>1. /\ i + (L + 1) \in 1 .. (L + Len(y)) /\ ~(i + (L + 1) <= L)
          /\ (i + (L + 1)) - L = i + 1
      BY <1>2, <2>2
    <3> QED BY <2>2, <2>3, <3>1
  <2>5. z[L + 1] = n
    <3>1. L + 1 \in 1 .. (L + Len(y)) /\ ~(L + 1 <= L) /\ (L + 1) - L = 1
      BY <1>2, <2>2
    <3> QED BY <2>2, <2>3, <3>1
  <2>6. \A i \in 1 .. L : z[i] = p[i]
    BY <1>2, <2>2, <2>3
  <2> QED BY <2>4, <2>5, <2>6
<1>5. \A i \in 1 .. L : Behind(z, s, i) = Behind(p, s, i)
  <2> SUFFICES ASSUME NEW i \in 1 .. L, i # 1 PROVE z[i - 1] = p[i - 1]
    BY DEF Behind
  <2>1. i - 1 \in 1 .. L
    BY <1>2
  <2> QED BY <1>4, <2>1
<1>6. Behind(z, s, L + 1) = b
  <2>1. CASE L = 0
    BY <1>1, <2>1 DEF Behind, Path
  <2>2. CASE L # 0
    <3>1. L \in 1 .. L /\ L + 1 # 1 /\ (L + 1) - 1 = L
      BY <1>2, <2>2
    <3>2. z[L] = b
      BY <1>1, <1>2, <1>4, <2>2, <3>1 DEF Path
    <3> QED BY <3>1, <3>2 DEF Behind
  <2> QED BY <2>1, <2>2
<1>7. \A i \in 1 .. M : Behind(z, s, i + (L + 1)) = Behind(o, n, i)
  <2> SUFFICES ASSUME NEW i \in 1 .. M PROVE Behind(z, s, i + (L + 1)) = Behind(o, n, i)
    OBVIOUS
  <2>1. i + (L + 1) # 1 /\ (i + (L + 1)) - 1 = (i - 1) + (L + 1)
    BY <1>2
  <2>2. Behind(z, s, i + (L + 1)) = z[(i - 1) + (L + 1)]
    BY <2>1 DEF Behind
  <2>3. CASE i = 1
    <3>1. (i - 1) + (L + 1) = L + 1
      BY <1>2, <2>3
    <3> QED BY <1>4, <2>2, <2>3, <3>1 DEF Behind
  <2>4. CASE i # 1
    <3>1. i - 1 \in 1 .. M
      BY <1>2, <2>4
    <3>2. z[(i - 1) + (L + 1)] = o[i - 1]
      BY <1>4, <3>1
    <3> QED BY <2>2, <2>4, <3>2 DEF Behind
  <2> QED BY <2>3, <2>4
<1>8. \A i \in 1 .. Len(z) : ~Stale(Behind(z, s, i)) /\ Follow(Behind(z, s, i)) = z[i]
  <2> SUFFICES ASSUME NEW i \in 1 .. Len(z)
               PROVE  ~Stale(Behind(z, s, i)) /\ Follow(Behind(z, s, i)) = z[i]
    OBVIOUS
  <2>1. CASE i \in 1 .. L
    BY <1>1, <1>4, <1>5, <2>1 DEF Path
  <2>2. CASE i = L + 1
    BY <1>4, <1>6, <2>2
  <2>3. CASE i > L + 1
    <3>1. PICK k \in 1 .. M : i = k + (L + 1)
      <4>1. i - (L + 1) \in 1 .. M /\ i = (i - (L + 1)) + (L + 1)
        BY <1>2, <1>3, <2>3
      <4> QED BY <4>1
    <3> QED BY <1>1, <1>4, <1>7, <3>1 DEF Path
  <2> QED BY <1>2, <1>3, <2>1, <2>2, <2>3
<1>9. Len(z) # 0 /\ z[Len(z)] = e
  <2>1. CASE M = 0
    BY <1>1, <1>2, <1>3, <1>4, <2>1 DEF Path
  <2>2. CASE M # 0
    <3>1. M \in 1 .. M /\ Len(z) = M + (L + 1) /\ Len(z) # 0
      BY <1>2, <1>3, <2>2
    <3>2. o[M] = e
      BY <1>1, <1>2, <2>2 DEF Path
    <3> QED BY <1>4, <3>1, <3>2
  <2> QED BY <2>1, <2>2
<1> QED BY <1>1, <1>3, <1>8, <1>9 DEF Path

LEMMA PathsJoinNext == JoinRule'
BY PathsJoin, PTL

(***************************************************************************)
(* The paths that there are: from the front of each queue to its back, and *)
(* along each segment that a thread has in its hands.                      *)
(***************************************************************************)
Sending(t) == me[t].pc \in {"clear", "swap"}

HasPath(s, e) == \E p \in Seq(Nodes) : Path(p, s, e)

HandOK(t) ==
  /\ me[t].start # Null => HasPath(me[t].start, me[t].end)
  /\ Sending(t) => HasPath(me[t].from, me[t].to)
  /\ Sending(t) /\ me[t].start # Null => me[t].from = me[t].to

PathInv == /\ \A r \in Queues : HasPath(r, back[r])
           /\ \A t \in Threads : HandOK(t)

\* Nothing follows their ends.
EndRule ==
  /\ \A r \in Queues : back[r] \in Slots /\ Follow(back[r]) = Null /\ ~Stale(back[r])
  /\ \A t \in Threads : me[t].start # Null =>
       me[t].start \in Nodes /\ me[t].end \in Nodes /\ Follow(me[t].end) = Null
  /\ \A t \in Threads : Sending(t) =>
       me[t].from \in Nodes /\ me[t].to \in Nodes /\ Ends(me[t].from, me[t].to)

LEMMA EndsNow == QInv => EndRule
<1> SUFFICES ASSUME QInv PROVE EndRule
  OBVIOUS
<1>1. TypeOK /\ BacksOK /\ FillsOK
  BY DEF QInv
<1>2. ASSUME NEW r \in Queues
      PROVE  back[r] \in Slots /\ Follow(back[r]) = Null /\ ~Stale(back[r])
  <2>1. back[r] \in Slots /\ back[r] # Null /\ link[back[r]] = Null /\ back[r] \notin spare
    BY <1>1, SlotKinds DEF TypeOK, BacksOK
  <2>2. \A t \in Threads : ~Holds(t, back[r])
    BY DEF QInv, ThreadOK, HeldOK, Holds
  <2>3. \A t \in Threads : ~Linking(t, back[r])
    BY <1>1, <2>1 DEF BacksOK, Fills, Linking
  <2>4. Follow(back[r]) = Null
    BY <2>1, <2>2, <2>3, FollowIs
  <2>5. ~Stale(back[r])
    BY <1>1, <2>1 DEF BacksOK, Fills, Stale
  <2> QED BY <2>1, <2>4, <2>5
<1>3. ASSUME NEW t \in Threads, NEW e \in Nodes, Fills(t, e), me[t].slot # e, link[e] = Null
      PROVE  Follow(e) = Null
  <2>1. e \in Slots /\ e # Null /\ e \notin Queues
    BY SlotKinds
  <2>2. \A u \in Threads : ~Holds(u, e)
    BY <2>1 DEF Holds
  <2>3. \A u \in Threads : ~Linking(u, e)
    BY <1>1, <1>3, <2>1 DEF FillsOK, Fills, Linking
  <2> QED BY <1>3, <2>1, <2>2, <2>3, FollowIs
<1>4. ASSUME NEW t \in Threads, me[t].start # Null
      PROVE  me[t].start \in Nodes /\ me[t].end \in Nodes /\ Follow(me[t].end) = Null
  <2>1. Shape(t) /\ OneHand(t) /\ EmptyOK(t)
    BY DEF QInv, ThreadOK
  <2>2. me[t].start \in Nodes /\ me[t].end \in Nodes /\ me[t].end # Null
    BY <1>1, <1>4, <2>1, Locals, SlotKinds DEF Shape
  <2>3. Fills(t, me[t].end) /\ link[me[t].end] = Null /\ me[t].slot # me[t].end
    BY <2>1, <2>2 DEF Fills, EmptyOK, OneHand
  <2> QED BY <1>3, <2>2, <2>3
<1>5. ASSUME NEW t \in Threads, Sending(t)
      PROVE  me[t].from \in Nodes /\ me[t].to \in Nodes /\ Ends(me[t].from, me[t].to)
  <2>1. Shape(t) /\ EmptyOK(t)
    BY DEF QInv, ThreadOK
  <2>2. me[t].from \in Nodes /\ me[t].to \in Nodes /\ me[t].to # Null /\ me[t].slot = Null
    BY <1>1, <1>5, <2>1, Locals, SlotKinds DEF Shape, Sending
  <2>3. Fills(t, me[t].to)
    BY <1>5, <2>2 DEF Fills, Sending
  <2>4. link[me[t].to] = Null \/ me[t].from = me[t].to
    BY <1>5, <2>1 DEF EmptyOK, Sending
  <2> QED BY <1>3, <2>2, <2>3, <2>4 DEF Ends
<1> QED BY <1>2, <1>4, <1>5 DEF EndRule

\* What the refinement mapping makes of the paths.
MapsQueue == \A r \in Queues : \A p \in Seq(Nodes) : Path(p, r, back[r]) => contents[r] = p

MapsNothing == \A t \in Threads : ~Sending(t) /\ me[t].start = Null => hand[t] = <<>>

MapsSegment == \A t \in Threads : \A p \in Seq(Nodes) :
  ~Sending(t) /\ me[t].start # Null /\ Path(p, me[t].start, me[t].end)
  => hand[t] = <<me[t].start>> \o p

MapsSending == \A t \in Threads : \A p \in Seq(Nodes) :
  Sending(t) /\ me[t].start = Null /\ Path(p, me[t].from, me[t].to)
  => hand[t] = <<me[t].from>> \o p

MapsSpread == \A t \in Threads : \A p \in Seq(Nodes) :
  Sending(t) /\ me[t].start # Null /\ Path(p, me[t].start, me[t].end)
  => hand[t] = <<me[t].from>> \o (<<me[t].start>> \o p)

MapRule == MapsQueue /\ MapsNothing /\ MapsSegment /\ MapsSending /\ MapsSpread

LEMMA MapNow == QInv => MapRule
<1> SUFFICES ASSUME QInv PROVE MapRule
  OBVIOUS
<1>1. EndRule
  BY EndsNow
<1>2. ASSUME NEW r \in Queues, NEW p \in Seq(Nodes), Path(p, r, back[r])
      PROVE  contents[r] = p
  <2>1. r \in Slots /\ back[r] \in Slots /\ Ends(r, back[r])
    BY <1>1, SlotKinds DEF EndRule, Ends
  <2>2. Chain(r, back[r]) = p
    BY <1>2, <2>1, ChainIs
  <2> QED BY <2>2 DEF contents
<1>3. ASSUME NEW f \in Nodes, NEW e \in Nodes, NEW p \in Seq(Nodes), Path(p, f, e), Ends(f, e)
      PROVE  Whole(f, e) = <<f>> \o p
  <2>1. f \in Slots /\ e \in Slots /\ f # Null
    BY SlotKinds
  <2>2. Chain(f, e) = p
    BY <1>3, <2>1, ChainIs
  <2> QED BY <2>1, <2>2 DEF Whole
<1>4. ASSUME NEW t \in Threads, me[t].start = Null
      PROVE  Whole(me[t].start, me[t].end) = <<>>
  BY <1>4 DEF Whole
<1>5. ASSUME NEW t \in Threads, me[t].start # Null, NEW p \in Seq(Nodes),
             Path(p, me[t].start, me[t].end)
      PROVE  /\ Whole(me[t].start, me[t].end) = <<me[t].start>> \o p
             /\ <<me[t].start>> \o p \in Seq(Nodes)
  <2>1. me[t].start \in Nodes /\ me[t].end \in Nodes /\ Ends(me[t].start, me[t].end)
    BY <1>1, <1>5 DEF EndRule, Ends
  <2> QED BY <1>3, <1>5, <2>1
<1>6. ASSUME NEW t \in Threads, Sending(t), NEW p \in Seq(Nodes), Path(p, me[t].from, me[t].to)
      PROVE  /\ Whole(me[t].from, me[t].to) = <<me[t].from>> \o p
             /\ <<me[t].from>> \o p \in Seq(Nodes)
  <2>1. me[t].from \in Nodes /\ me[t].to \in Nodes /\ Ends(me[t].from, me[t].to)
    BY <1>1, <1>6 DEF EndRule
  <2> QED BY <1>3, <1>6, <2>1
<1>7. ASSUME NEW t \in Threads
      PROVE  hand[t] = (IF Sending(t)
                        THEN IF me[t].start = Null THEN Whole(me[t].from, me[t].to)
                             ELSE <<me[t].from>>
                        ELSE <<>>) \o Whole(me[t].start, me[t].end)
  BY DEF hand, Sending
<1>8. \A y \in Seq(Nodes) : y \o <<>> = y /\ <<>> \o y = y
  OBVIOUS
<1>9. ASSUME NEW t \in Threads, ~Sending(t), me[t].start = Null PROVE hand[t] = <<>>
  <2>1. hand[t] = <<>> \o <<>>
    BY <1>4, <1>7, <1>9
  <2> QED BY <2>1
<1>10. ASSUME NEW t \in Threads, NEW p \in Seq(Nodes),
              ~Sending(t), me[t].start # Null, Path(p, me[t].start, me[t].end)
       PROVE  hand[t] = <<me[t].start>> \o p
  <2>1. PICK w \in Seq(Nodes) : /\ w = <<me[t].start>> \o p
                                /\ w = Whole(me[t].start, me[t].end)
    BY <1>5, <1>10
  <2>2. hand[t] = <<>> \o w
    BY <1>7, <1>10, <2>1
  <2> QED BY <1>8, <2>1, <2>2
<1>11. ASSUME NEW t \in Threads, NEW p \in Seq(Nodes),
              Sending(t), me[t].start = Null, Path(p, me[t].from, me[t].to)
       PROVE  hand[t] = <<me[t].from>> \o p
  <2>1. PICK w \in Seq(Nodes) : /\ w = <<me[t].from>> \o p
                                /\ w = Whole(me[t].from, me[t].to)
    BY <1>6, <1>11
  <2>2. hand[t] = w \o <<>>
    BY <1>4, <1>7, <1>11, <2>1
  <2> QED BY <1>8, <2>1, <2>2
<1>12. ASSUME NEW t \in Threads, NEW p \in Seq(Nodes),
              Sending(t), me[t].start # Null, Path(p, me[t].start, me[t].end)
       PROVE  hand[t] = <<me[t].from>> \o (<<me[t].start>> \o p)
  BY <1>5, <1>7, <1>12
<1> QED BY <1>2, <1>9, <1>10, <1>11, <1>12
        DEF MapRule, MapsQueue, MapsNothing, MapsSegment, MapsSending, MapsSpread

LEMMA EndsNext == QInv' => EndRule'
BY EndsNow, PTL

LEMMA MapNext == QInv' => MapRule'
BY MapNow, PTL

(***************************************************************************)
(* What a step of t leaves alone.  Keeps(X): every slot outside X that     *)
(* leads on still leads to the same node.  Gives(t, X): the nodes of X are *)
(* in t's own hands, so that no path of another actor runs over them.      *)
(***************************************************************************)
Keeps(X) == \A x \in Slots : x \notin X /\ ~Stale(x) /\ Follow(x) # Null
                             => ~(Stale(x)') /\ Follow(x)' = Follow(x)

Gives(t, X) == \A x \in X : x \in Nodes =>
                 Has(t, x) /\ x # me[t].from /\ (x = me[t].old => me[t].q \in X)

Touches(t, x) == Holds(t, x) \/ Linking(t, x)

LEMMA Keeping ==
    ASSUME QInv, QInv', NEW t \in Threads, NEW X,
           \A u \in Threads : u # t => me'[u] = me[u],
           \A x \in Slots : x \notin X /\ ~Stale(x) /\ Follow(x) # Null =>
             /\ ~(Stale(x)')
             /\ \/ Follow(x)' = Follow(x)
                \/ link'[x] = link[x] /\ ~Touches(t, x) /\ ~(Touches(t, x)')
                \/ Holds(t, x) /\ Holds(t, x)' /\ me'[t].old = me[t].old
    PROVE  Keeps(X)
<1> SUFFICES ASSUME NEW x \in Slots, x \notin X, ~Stale(x), Follow(x) # Null
             PROVE  ~(Stale(x)') /\ Follow(x)' = Follow(x)
  BY DEF Keeps
<1>1. FollowRule /\ FollowRule'
  BY FollowNow, FollowNext
<1>2. CASE Follow(x)' = Follow(x)
  BY <1>2
<1>3. CASE Holds(t, x) /\ Holds(t, x)' /\ me'[t].old = me[t].old
  BY <1>1, <1>3 DEF FollowRule
<1>4. CASE link'[x] = link[x] /\ ~Touches(t, x) /\ ~(Touches(t, x)')
  <2>1. \A u \in Threads : u # t => /\ Holds(u, x)' <=> Holds(u, x)
                                    /\ Linking(u, x)' <=> Linking(u, x)
    BY DEF Holds, Linking
  <2>2. ASSUME NEW u \in Threads, Holds(u, x) PROVE Follow(x)' = Follow(x)
    <3>1. u # t
      BY <1>4, <2>2 DEF Touches
    <3> QED BY <1>1, <2>1, <2>2, <3>1 DEF FollowRule
  <2>3. ASSUME NEW u \in Threads, Linking(u, x) PROVE Follow(x)' = Follow(x)
    <3>1. u # t
      BY <1>4, <2>3 DEF Touches
    <3> QED BY <1>1, <2>1, <2>3, <3>1 DEF FollowRule
  <2>4. ASSUME \A u \in Threads : ~Holds(u, x) /\ ~Linking(u, x)
        PROVE  Follow(x)' = Follow(x)
    <3>1. \A u \in Threads : ~(Holds(u, x)') /\ ~(Linking(u, x)')
      BY <1>4, <2>1, <2>4 DEF Touches
    <3> QED BY <1>1, <1>4, <2>4, <3>1 DEF FollowRule
  <2> QED BY <2>2, <2>3, <2>4
<1> QED BY <1>2, <1>3, <1>4

LEMMA PathStays ==
    ASSUME QInv, NEW t \in Threads, NEW X, Gives(t, X), Keeps(X),
           NEW s \in Slots, NEW e \in Slots, s \notin X,
           NEW p \in Seq(Nodes), Path(p, s, e)
    PROVE  Path(p, s, e)'
<1>1. \A i \in 1 .. Len(p) : /\ p[i] \in Nodes /\ p[i] # Null
                             /\ Behind(p, s, i) \in Slots
                             /\ i # 1 => Behind(p, s, i) = p[i - 1] /\ i - 1 \in 1 .. Len(p)
  <2>1. Len(p) \in Nat /\ \A i \in 1 .. Len(p) : p[i] \in Nodes /\ p[i] # Null /\ p[i] \in Slots
    BY SlotKinds
  <2>2. \A i \in 1 .. Len(p) : i # 1 => i - 1 \in 1 .. Len(p)
    BY <2>1
  <2> QED BY <2>1, <2>2 DEF Behind
<1>2. ASSUME NEW i \in 1 .. Len(p) PROVE Behind(p, s, i) \notin X
  <2> SUFFICES ASSUME Behind(p, s, i) \in X PROVE FALSE
    OBVIOUS
  <2>1. i # 1
    BY DEF Behind
  <2>2. PICK j \in 1 .. Len(p) : j = i - 1
    BY <1>1, <2>1
  <2>3. PICK n, b : n = p[j] /\ b = Behind(p, s, j)
    OBVIOUS
  <2>4. /\ n \in Nodes /\ n \in X /\ n # Null /\ b \in Slots /\ ~Stale(b) /\ Follow(b) = n
        /\ Has(t, n) /\ n # me[t].from /\ (n = me[t].old => me[t].q \in X)
    BY <1>1, <2>1, <2>2, <2>3 DEF Path, Gives
  <2>5. Holds(t, b) /\ n = me[t].old
    BY <2>4, HandFollows
  <2>6. b \in Queues /\ b \in X
    BY <2>4, <2>5 DEF Holds
  <2>7. j = 1
    BY <1>1, <2>3, <2>6, SlotKinds
  <2> QED BY <2>3, <2>6, <2>7 DEF Behind
<1>3. \A i \in 1 .. Len(p) : ~(Stale(Behind(p, s, i))') /\ Follow(Behind(p, s, i))' = p[i]
  BY <1>1, <1>2 DEF Path, Keeps
<1> QED BY <1>3 DEF Path

\* A queue that t does not touch, and a hand that does not change.
LEMMA QueueStays ==
    ASSUME QInv, QInv', PathInv, NEW t \in Threads, NEW X, Gives(t, X), Keeps(X),
           NEW r \in Queues, r \notin X, back'[r] = back[r]
    PROVE  HasPath(r, back[r])' /\ contents'[r] = contents[r]
<1>1. PICK e : e = back[r]
  OBVIOUS
<1>2. r \in Slots /\ e \in Slots /\ MapRule /\ MapRule'
  BY <1>1, EndsNow, MapNow, MapNext, SlotKinds DEF EndRule
<1>3. PICK p \in Seq(Nodes) : Path(p, r, e)
  BY <1>1 DEF PathInv, HasPath
<1>4. Path(p, r, e)'
  BY <1>2, <1>3, PathStays
<1>5. contents[r] = p
  BY <1>1, <1>2, <1>3 DEF MapRule, MapsQueue
<1>6. contents'[r] = p
  BY <1>1, <1>2, <1>4 DEF MapRule, MapsQueue
<1> QED BY <1>1, <1>4, <1>5, <1>6 DEF HasPath

SameHand(u) ==
  /\ me'[u].start = me[u].start /\ me'[u].end = me[u].end
  /\ Sending(u)' <=> Sending(u)
  /\ Sending(u) => me'[u].from = me[u].from /\ me'[u].to = me[u].to

LEMMA HandStays ==
    ASSUME QInv, QInv', PathInv, NEW t \in Threads, NEW X, Gives(t, X), Keeps(X),
           NEW u \in Threads, SameHand(u), \A x \in X : x \in Nodes => ~Has(u, x)
    PROVE  HandOK(u)' /\ hand'[u] = hand[u]
<1>1. MapRule /\ MapRule' /\ EndRule
  BY MapNow, MapNext, EndsNow
<1>2. PICK f, b, s, e : /\ f = me[u].from /\ b = me[u].to
                        /\ s = me[u].start /\ e = me[u].end
  OBVIOUS
<1>3. me'[u].start = s /\ me'[u].end = e /\ (Sending(u)' <=> Sending(u))
  BY <1>2 DEF SameHand
<1>4. Sending(u) => me'[u].from = f /\ me'[u].to = b
  BY <1>2 DEF SameHand
<1>5. ASSUME s # Null
      PROVE  \E p \in Seq(Nodes) : Path(p, s, e) /\ Path(p, s, e)'
  <2>1. s \in Nodes /\ s \in Slots /\ e \in Slots /\ Has(u, s)
    BY <1>1, <1>2, <1>5, SlotKinds DEF EndRule, Has
  <2>2. PICK p \in Seq(Nodes) : Path(p, s, e)
    BY <1>2, <1>5 DEF PathInv, HandOK, HasPath
  <2> QED BY <2>1, <2>2, PathStays
<1>6. ASSUME Sending(u)
      PROVE  \E p \in Seq(Nodes) : Path(p, f, b) /\ Path(p, f, b)'
  <2>1. f \in Nodes /\ f \in Slots /\ b \in Slots /\ Has(u, f)
    BY <1>1, <1>2, <1>6, SlotKinds DEF EndRule, Has
  <2>2. PICK p \in Seq(Nodes) : Path(p, f, b)
    BY <1>2, <1>6 DEF PathInv, HandOK, HasPath
  <2> QED BY <2>1, <2>2, PathStays
<1>7. HandOK(u)'
  <2>1. s # Null => HasPath(s, e)'
    BY <1>5 DEF HasPath
  <2>2. Sending(u) => HasPath(f, b)'
    BY <1>6 DEF HasPath
  <2>3. Sending(u) /\ s # Null => f = b
    BY <1>2 DEF PathInv, HandOK
  <2> QED BY <1>3, <1>4, <2>1, <2>2, <2>3 DEF HandOK
<1>8. CASE ~Sending(u) /\ s = Null
  BY <1>1, <1>2, <1>3, <1>7, <1>8 DEF MapRule, MapsNothing
<1>9. CASE ~Sending(u) /\ s # Null
  <2>1. PICK p \in Seq(Nodes) : Path(p, s, e) /\ Path(p, s, e)'
    BY <1>5, <1>9
  <2>2. hand[u] = <<s>> \o p
    BY <1>1, <1>2, <1>9, <2>1 DEF MapRule, MapsSegment
  <2>3. hand'[u] = <<s>> \o p
    BY <1>1, <1>3, <1>9, <2>1 DEF MapRule, MapsSegment
  <2> QED BY <1>7, <2>2, <2>3
<1>10. CASE Sending(u) /\ s = Null
  <2>1. PICK p \in Seq(Nodes) : Path(p, f, b) /\ Path(p, f, b)'
    BY <1>6, <1>10
  <2>2. hand[u] = <<f>> \o p
    BY <1>1, <1>2, <1>10, <2>1 DEF MapRule, MapsSending
  <2>3. hand'[u] = <<f>> \o p
    BY <1>1, <1>3, <1>4, <1>10, <2>1 DEF MapRule, MapsSending
  <2> QED BY <1>7, <2>2, <2>3
<1>11. CASE Sending(u) /\ s # Null
  <2>1. PICK p \in Seq(Nodes) : Path(p, s, e) /\ Path(p, s, e)'
    BY <1>5, <1>11
  <2>2. hand[u] = <<f>> \o (<<s>> \o p)
    BY <1>1, <1>2, <1>11, <2>1 DEF MapRule, MapsSpread
  <2>3. hand'[u] = <<f>> \o (<<s>> \o p)
    BY <1>1, <1>3, <1>4, <1>11, <2>1 DEF MapRule, MapsSpread
  <2> QED BY <1>7, <2>2, <2>3
<1> QED BY <1>7, <1>8, <1>9, <1>10, <1>11

\* Everybody but t, at a step of t.
LEMMA OthersStay ==
    ASSUME QInv, QInv', PathInv, NEW t \in Threads, NEW X, Gives(t, X), Keeps(X),
           \A u \in Threads : u # t => me'[u] = me[u]
    PROVE  \A u \in Threads : u # t => /\ HandOK(u)' /\ hand'[u] = hand[u]
                                       /\ got'[u] = got[u]
<1> SUFFICES ASSUME NEW u \in Threads, u # t
             PROVE  HandOK(u)' /\ hand'[u] = hand[u] /\ got'[u] = got[u]
  OBVIOUS
<1>1. SameHand(u)
  BY DEF SameHand, Sending
<1>2. \A x \in X : x \in Nodes => ~Has(u, x)
  BY DEF QInv, HandsOK, Gives
<1>3. got'[u] = got[u]
  BY DEF got
<1> QED BY <1>1, <1>2, <1>3, HandStays

\* A step that no caller can see.
LEMMA Unseen ==
    ASSUME QInv, QInv', PathInv, NEW t \in Threads, Keeps({}),
           \A u \in Threads : u # t => me'[u] = me[u],
           SameHand(t), me'[t].got = me[t].got, back' = back
    PROVE  PathInv' /\ UNCHANGED <<contents, hand, got>>
<1>1. Gives(t, {})
  BY DEF Gives
<1>2. \A r \in Queues : HasPath(r, back[r])' /\ contents'[r] = contents[r]
  BY <1>1, QueueStays
<1>3. \A u \in Threads : u # t => HandOK(u)' /\ hand'[u] = hand[u] /\ got'[u] = got[u]
  BY <1>1, OthersStay
<1>4. HandOK(t)' /\ hand'[t] = hand[t] /\ got'[t] = got[t]
  <2>1. got'[t] = got[t]
    BY DEF got
  <2> QED BY <1>1, <2>1, HandStays
<1>5. PathInv'
  BY <1>2, <1>3, <1>4 DEF PathInv
<1>6. contents' = contents
  BY <1>2 DEF contents
<1>7. hand' = hand
  BY <1>3, <1>4 DEF hand
<1>8. got' = got
  BY <1>3, <1>4 DEF got
<1> QED BY <1>5, <1>6, <1>7, <1>8

-----------------------------------------------------------------------------
(***************************************************************************)
(* The steps.  First those that move no node from one owner to another.    *)
(***************************************************************************)
LEMMA GotoIs ==
    ASSUME TypeOK, NEW t \in Threads, NEW p \in PCs, Goto(t, p)
    PROVE  /\ me'[t].pc = p /\ me'[t].q = me[t].q /\ me'[t].old = me[t].old
           /\ me'[t].from = me[t].from /\ me'[t].to = me[t].to
           /\ me'[t].slot = me[t].slot /\ me'[t].start = me[t].start
           /\ me'[t].end = me[t].end /\ me'[t].got = me[t].got
           /\ \A u \in Threads : u # t => me'[u] = me[u]
<1>1. me \in [Threads -> Local] /\ me[t] \in Local
  BY TypeIs
<1>2. PICK m : m = At(me[t], p)
  OBVIOUS
<1>3. /\ m.pc = p /\ m.q = me[t].q /\ m.old = me[t].old
      /\ m.from = me[t].from /\ m.to = me[t].to /\ m.slot = me[t].slot
      /\ m.start = me[t].start /\ m.end = me[t].end /\ m.got = me[t].got
  BY <1>1, <1>2, AtIs
<1>4. me' = [me EXCEPT ![t] = m]
  BY <1>2 DEF Goto, At
<1>5. me'[t] = m /\ \A u \in Threads : u # t => me'[u] = me[u]
  BY <1>1, <1>4
<1> QED BY <1>3, <1>5

LEMMA AssignedIs ==
    ASSUME TypeOK, NEW t \in Threads, NEW m, me' = [me EXCEPT ![t] = m]
    PROVE  me'[t] = m /\ \A u \in Threads : u # t => me'[u] = me[u]
BY TypeIs

LEMMA StaleStays ==
    ASSUME NEW t \in Threads, \A u \in Threads : u # t => me'[u] = me[u],
           NEW x, ~Stale(x), x \notin spare', x # me'[t].got,
           ~(me'[t].pc = "clear" /\ x = me'[t].to)
    PROVE  ~(Stale(x)')
BY DEF Stale

LEMMA Clear_Unseen ==
    ASSUME QInv, QInv', PathInv, NEW t \in Threads, Clear(t)
    PROVE  PathInv' /\ UNCHANGED <<contents, hand, got>>
<1>1. /\ TypeOK /\ Shape(t) /\ me[t].pc = "clear" /\ Goto(t, "swap") /\ "swap" \in PCs
      /\ link' = [link EXCEPT ![me[t].to] = Null] /\ back' = back /\ spare' = spare
  BY DEF Clear, Cleared, QInv, ThreadOK, PCs
<1>2. /\ me'[t].pc = "swap" /\ me'[t].old = me[t].old /\ me[t].old = Null
      /\ me'[t].from = me[t].from /\ me'[t].to = me[t].to
      /\ me'[t].start = me[t].start /\ me'[t].end = me[t].end /\ me'[t].got = me[t].got
      /\ \A u \in Threads : u # t => me'[u] = me[u]
  BY <1>1, GotoIs DEF Shape
<1>3. Keeps({})
  <2>1. ASSUME NEW x \in Slots, ~Stale(x)
        PROVE  ~(Stale(x)') /\ link'[x] = link[x] /\ ~Touches(t, x) /\ ~(Touches(t, x)')
    <3>1. x # me[t].to /\ x \notin spare /\ x # me[t].got
      BY <1>1, <2>1 DEF Stale
    <3>2. ~(Stale(x)')
      BY <1>1, <1>2, <2>1, <3>1, StaleStays
    <3>3. link'[x] = link[x]
      BY <1>1, <3>1 DEF TypeOK
    <3>4. ~Touches(t, x) /\ ~(Touches(t, x)')
      BY <1>1, <1>2 DEF Touches, Holds, Linking
    <3> QED BY <3>2, <3>3, <3>4
  <2> QED BY <1>2, <2>1, Keeping
<1>4. SameHand(t)
  BY <1>1, <1>2 DEF SameHand, Sending
<1> QED BY <1>1, <1>2, <1>3, <1>4, Unseen

\* The locals change, but not what t holds.
LEMMA Quiet_Unseen ==
    ASSUME QInv, QInv', PathInv, NEW t \in Threads,
           \A u \in Threads : u # t => me'[u] = me[u],
           link' = link, back' = back, spare' = spare,
           me'[t].got = me[t].got, me'[t].start = me[t].start, me'[t].end = me[t].end,
           me'[t].old = me[t].old, me[t].old # Null => me'[t].q = me[t].q,
           me[t].pc \notin {"clear", "swap", "publish"},
           me'[t].pc \notin {"clear", "swap", "publish"}
    PROVE  PathInv' /\ UNCHANGED <<contents, hand, got>>
<1>1. Keeps({})
  <2>1. ASSUME NEW x \in Slots, ~Stale(x)
        PROVE  /\ ~(Stale(x)') /\ link'[x] = link[x]
               /\ \/ ~Touches(t, x) /\ ~(Touches(t, x)')
                  \/ Holds(t, x) /\ Holds(t, x)'
    <3>1. x \notin spare /\ x # me[t].got
      BY <2>1 DEF Stale
    <3>2. ~(Stale(x)')
      BY <2>1, <3>1, StaleStays
    <3>3. ~Linking(t, x) /\ ~(Linking(t, x)')
      BY DEF Linking
    <3>4. Holds(t, x)' <=> Holds(t, x)
      BY DEF Holds
    <3> QED BY <3>2, <3>3, <3>4 DEF Touches
  <2> QED BY <2>1, Keeping
<1>2. SameHand(t)
  BY DEF SameHand, Sending
<1> QED BY <1>1, <1>2, Unseen

LEMMA Missed_Unseen ==
    ASSUME QInv, QInv', PathInv, NEW t \in Owners, Missed(t),
           link' = link, back' = back, spare' = spare,
           me[t].pc \in {"probe", "acquire"}
    PROVE  PathInv' /\ UNCHANGED <<contents, hand, got>>
<1>1. t \in Threads /\ TypeOK /\ Shape(t)
  BY DEF Threads, QInv, ThreadOK
<1>2. PICK m \in Local : /\ me' = [me EXCEPT ![t] = m]
                         /\ Empty(m) /\ m.got = Null /\ m.pc \in {"idle", "probe"}
  BY MissedIs
<1>3. me'[t] = m /\ \A u \in Threads : u # t => me'[u] = me[u]
  BY <1>1, <1>2, AssignedIs
<1>4. /\ me[t].got = Null /\ me[t].start = Null /\ me[t].end = Null /\ me[t].old = Null
      /\ me[t].pc \notin {"clear", "swap", "publish"}
  BY <1>1 DEF Shape
<1>5. /\ me'[t].got = Null /\ me'[t].start = Null /\ me'[t].end = Null /\ me'[t].old = Null
      /\ me'[t].pc \notin {"clear", "swap", "publish"}
  BY <1>2, <1>3 DEF Empty
<1> QED BY <1>1, <1>3, <1>4, <1>5, Quiet_Unseen

LEMMA Probe_Unseen ==
    ASSUME QInv, QInv', PathInv, NEW t \in Owners, Probe(t)
    PROVE  PathInv' /\ UNCHANGED <<contents, hand, got>>
<1>1. t \in Threads /\ TypeOK /\ me[t].pc = "probe"
  BY DEF Threads, QInv, Probe
<1>2. link' = link /\ back' = back /\ spare' = spare
  BY DEF Probe
<1>3. CASE Missed(t)
  BY <1>1, <1>2, <1>3, Missed_Unseen
<1>4. CASE Goto(t, "acquire")
  <2>1. "acquire" \in PCs
    BY DEF PCs
  <2>2. /\ me'[t].pc = "acquire" /\ me'[t].q = me[t].q /\ me'[t].old = me[t].old
        /\ me'[t].start = me[t].start /\ me'[t].end = me[t].end /\ me'[t].got = me[t].got
        /\ \A u \in Threads : u # t => me'[u] = me[u]
    BY <1>1, <1>4, <2>1, GotoIs
  <2> QED BY <1>1, <1>2, <2>2, Quiet_Unseen
<1> QED BY <1>3, <1>4 DEF Probe

LEMMA Pop_Unseen ==
    ASSUME QInv, QInv', PathInv, NEW t \in Owners, Pop(t)
    PROVE  PathInv' /\ UNCHANGED <<contents, hand, got>>
<1>1. /\ t \in Threads /\ TypeOK /\ Shape(t) /\ me[t] \in Local /\ me[t].pc = "idle"
      /\ link' = link /\ back' = back /\ spare' = spare /\ Call(t, "probe", Own[t])
      /\ "probe" \in PCs /\ Own[t] \in Queues \cup {Null}
  BY BQAssumption, TypeIs DEF Threads, QInv, ThreadOK, Pop, PCs
<1>2. PICK m : m = Calling(me[t], "probe", Own[t])
  OBVIOUS
<1>3. /\ m.pc = "probe" /\ m.old = me[t].old /\ m.start = me[t].start /\ m.end = me[t].end
      /\ m.got = me[t].got
  BY <1>1, <1>2, CallingIs
<1>4. me' = [me EXCEPT ![t] = m]
  BY <1>1, <1>2 DEF Call, Calling
<1>5. me'[t] = m /\ \A u \in Threads : u # t => me'[u] = me[u]
  BY <1>1, <1>4, AssignedIs
<1>6. me[t].old = Null
  BY <1>1 DEF Shape
<1> QED BY <1>1, <1>3, <1>5, <1>6, Quiet_Unseen

LEMMA ReadNext_Unseen ==
    ASSUME QInv, QInv', PathInv, NEW t \in Threads, ReadNext(t)
    PROVE  PathInv' /\ UNCHANGED <<contents, hand, got>>
<1>1. /\ TypeOK /\ me[t] \in Local /\ me[t].pc = "next" /\ me[t].old # Null
      /\ link' = link /\ back' = back /\ spare' = spare
  BY TypeIs DEF QInv, ThreadOK, Shape, ReadNext
<1>2. PICK o, p : /\ o = link[me[t].old]
                  /\ p = IF link[me[t].old] = Null THEN "cas" ELSE "advance"
  OBVIOUS
<1>3. o \in Nodes \cup {Null} /\ p \in PCs /\ p \in {"cas", "advance"}
  BY <1>1, <1>2, Holding DEF TypeOK, PCs
<1>4. PICK m : m = Reading(me[t], o, p)
  OBVIOUS
<1>5. /\ m.pc = p /\ m.q = me[t].q /\ m.old = me[t].old /\ m.start = me[t].start
      /\ m.end = me[t].end /\ m.got = me[t].got
  <2>1. me[t] \in Local /\ o \in Nodes \cup {Null} /\ p \in PCs
    BY <1>1, <1>3
  <2> QED BY <1>4, <2>1, ReadingIs
<1>6. me' = [me EXCEPT ![t] = m]
  BY <1>2, <1>4 DEF ReadNext, Reading
<1>7. me'[t] = m /\ \A u \in Threads : u # t => me'[u] = me[u]
  BY <1>1, <1>6, AssignedIs
<1> QED BY <1>1, <1>3, <1>5, <1>7, Quiet_Unseen

LEMMA Acquire_Unseen ==
    ASSUME QInv, QInv', PathInv, NEW t \in Owners, Acquire(t)
    PROVE  PathInv' /\ UNCHANGED <<contents, hand, got>>
<1>1. /\ t \in Threads /\ TypeOK /\ Shape(t) /\ me[t] \in Local /\ me[t].pc = "acquire"
      /\ link' = [link EXCEPT ![me[t].q] = Null] /\ back' = back /\ spare' = spare
  BY TypeIs DEF Threads, QInv, ThreadOK, Acquire, Exchanged
<1>2. PICK q : q = me[t].q
  OBVIOUS
<1>3. q \in Queues /\ q \in Slots /\ me[t].old = Null
  BY <1>1, <1>2, SlotKinds DEF Shape
<1>4. CASE link[q] = Null
  <2>1. link' = link
    BY <1>1, <1>2, <1>3, <1>4 DEF TypeOK
  <2>2. Missed(t)
    BY <1>2, <1>4 DEF Acquire
  <2> QED BY <1>1, <2>1, <2>2, Missed_Unseen
<1>5. CASE link[q] # Null
  <2>1. PICK n, p : n = link[q] /\ p = IF Stealing(t) THEN "detach" ELSE "next"
    OBVIOUS
  <2>2. n \in Nodes /\ n \in Nodes \cup {Null} /\ p \in PCs /\ p \in {"detach", "next"}
    BY <1>1, <1>3, <1>5, <2>1 DEF TypeOK, PCs
  <2>3. PICK m : m = Acquired(me[t], n, p)
    OBVIOUS
  <2>4. /\ m.pc = p /\ m.q = q /\ m.old = n /\ m.start = me[t].start /\ m.end = me[t].end
        /\ m.got = me[t].got
    BY <1>1, <1>2, <2>2, <2>3, AcquiredIs
  <2>5. me' = [me EXCEPT ![t] = m]
    BY <1>2, <1>5, <2>1, <2>3 DEF Acquire, Acquired
  <2>6. me'[t] = m /\ \A u \in Threads : u # t => me'[u] = me[u]
    BY <1>1, <2>5, AssignedIs
  <2>7. FollowRule /\ FollowRule'
    BY FollowNow, FollowNext
  <2>8. Follow(q) = n
    <3>1. ASSUME NEW u \in Threads PROVE ~Holds(u, q) /\ ~Linking(u, q)
      <4>1. HeldOK(u)
        BY DEF QInv, ThreadOK
      <4>2. ~Holds(u, q)
        BY <1>5, <4>1 DEF HeldOK, Holds
      <4> QED BY <1>3, <1>5, <4>2, LinkersIs
    <3> QED BY <1>3, <2>1, <2>7, <3>1 DEF FollowRule
  <2>9. Follow(q)' = n
    <3>1. Holds(t, q)' /\ me'[t].old = n
      BY <1>3, <2>2, <2>4, <2>6, SlotKinds DEF Holds
    <3> QED BY <1>1, <1>3, <2>7, <3>1 DEF FollowRule
  <2>10. Keeps({})
    <3>1. ASSUME NEW x \in Slots, ~Stale(x)
          PROVE  /\ ~(Stale(x)')
                 /\ \/ Follow(x)' = Follow(x)
                    \/ link'[x] = link[x] /\ ~Touches(t, x) /\ ~(Touches(t, x)')
      <4>1. x \notin spare /\ x # me[t].got
        BY <1>1, <3>1 DEF Stale
      <4>2. ~(Stale(x)')
        BY <1>1, <2>2, <2>4, <2>6, <3>1, <4>1, StaleStays
      <4>3. CASE x = q
        BY <2>8, <2>9, <4>2, <4>3
      <4>4. CASE x # q
        <5>1. link'[x] = link[x]
          BY <1>1, <1>2, <4>4 DEF TypeOK
        <5>2. ~Touches(t, x) /\ ~(Touches(t, x)')
          BY <1>1, <1>3, <2>2, <2>4, <2>6, <4>4 DEF Touches, Holds, Linking
        <5> QED BY <4>2, <5>1, <5>2
      <4> QED BY <4>3, <4>4
    <3> QED BY <1>1, <2>6, <3>1, Keeping
  <2>11. SameHand(t)
    BY <1>1, <2>2, <2>4, <2>6 DEF SameHand, Sending
  <2> QED BY <1>1, <2>4, <2>6, <2>10, <2>11, Unseen
<1> QED BY <1>4, <1>5

\* A queue whose front t has in its hands is followed by it alone.
LEMMA FrontFollows ==
    ASSUME QInv, NEW t \in Threads, me[t].old # Null
    PROVE  /\ Follow(me[t].q) = me[t].old
           /\ \A u \in Threads : u # t => ~Touches(u, me[t].q)
           /\ \A x \in Slots : Touches(t, x) => x = me[t].q
<1>1. /\ me[t].q \in Queues /\ me[t].q \in Slots /\ HeldOK(t)
      /\ me[t].pc \in {"next", "advance", "cas", "restore", "detach"}
  BY Holding
<1>2. Holds(t, me[t].q)
  BY <1>1 DEF Holds
<1>3. Follow(me[t].q) = me[t].old
  BY <1>1, <1>2, FollowIs
<1>4. \A u \in Threads : ~Linking(u, me[t].q)
  BY <1>1, <1>2, HoldersIs
<1>5. \A u \in Threads : u # t => ~Touches(u, me[t].q)
  BY <1>1, <1>4 DEF Touches, Holds, HeldOK
<1>6. \A x \in Slots : Touches(t, x) => x = me[t].q
  BY <1>1 DEF Touches, Holds, Linking
<1> QED BY <1>3, <1>5, <1>6

\* When t has let go of it, its link is what counts.
LEMMA FrontIsLink ==
    ASSUME QInv, QInv', NEW t \in Threads, me[t].old # Null, NEW q, q = me[t].q,
           \A u \in Threads : u # t => me'[u] = me[u],
           me'[t].old = Null, me'[t].pc # "publish"
    PROVE  /\ Follow(q)' = link'[q] /\ q \in Queues /\ q \in Slots
           /\ \A x \in Slots : ~(Touches(t, x)')
<1>1. q \in Queues /\ q \in Slots
  BY Holding
<1>2. \A u \in Threads : ~(Holds(u, q)') /\ ~(Linking(u, q)')
  <2>1. \A u \in Threads : u # t => ~(Holds(u, q)') /\ ~(Linking(u, q)')
    BY FrontFollows DEF Touches, Holds, Linking
  <2>2. ~(Holds(t, q)') /\ ~(Linking(t, q)')
    BY DEF Holds, Linking
  <2> QED BY <2>1, <2>2
<1>3. FollowRule'
  BY FollowNext
<1>4. \A x \in Slots : ~(Touches(t, x)')
  BY DEF Touches, Holds, Linking
<1> QED BY <1>1, <1>2, <1>3, <1>4 DEF FollowRule

LEMMA Restore_Unseen ==
    ASSUME QInv, QInv', PathInv, NEW t \in Owners, Restore(t)
    PROVE  PathInv' /\ UNCHANGED <<contents, hand, got>>
<1>1. /\ t \in Threads /\ TypeOK /\ Shape(t) /\ me[t].pc = "restore" /\ Missed(t)
      /\ link' = [link EXCEPT ![me[t].q] = me[t].old] /\ back' = back /\ spare' = spare
  BY DEF Threads, QInv, ThreadOK, Restore, Restored
<1>2. me[t].old # Null
  BY <1>1 DEF Shape
<1>3. PICK q, n : q = me[t].q /\ n = me[t].old
  OBVIOUS
<1>4. /\ q \in Queues /\ q \in Slots /\ n \in Nodes
      /\ me[t].got = Null /\ me[t].start = Null /\ me[t].end = Null
  BY <1>1, <1>2, <1>3, Holding
<1>5. PICK m \in Local : /\ me' = [me EXCEPT ![t] = m]
                         /\ Empty(m) /\ m.got = Null /\ m.pc \in {"idle", "probe"}
  BY <1>1, MissedIs
<1>6. me'[t] = m /\ \A u \in Threads : u # t => me'[u] = me[u]
  BY <1>1, <1>5, AssignedIs
<1>7. /\ me'[t].got = Null /\ me'[t].start = Null /\ me'[t].end = Null /\ me'[t].old = Null
      /\ me'[t].pc \notin {"clear", "swap", "publish"}
  BY <1>5, <1>6 DEF Empty
<1>8. Follow(q) = n /\ Follow(q)' = n
  <2>1. link'[q] = n
    BY <1>1, <1>3, <1>4 DEF TypeOK
  <2> QED BY <1>1, <1>2, <1>3, <1>6, <1>7, <2>1, FrontFollows, FrontIsLink
<1>9. Keeps({})
  <2>1. ASSUME NEW x \in Slots, ~Stale(x)
        PROVE  /\ ~(Stale(x)')
               /\ \/ Follow(x)' = Follow(x)
                  \/ link'[x] = link[x] /\ ~Touches(t, x) /\ ~(Touches(t, x)')
    <3>1. x \notin spare /\ x # me[t].got
      BY <1>1, <2>1 DEF Stale
    <3>2. ~(Stale(x)')
      BY <1>1, <1>4, <1>6, <1>7, <2>1, <3>1, StaleStays
    <3>3. CASE x = q
      BY <1>8, <3>2, <3>3
    <3>4. CASE x # q
      <4>1. link'[x] = link[x]
        BY <1>1, <1>3, <3>4 DEF TypeOK
      <4>2. ~Touches(t, x)
        BY <1>1, <1>2, <1>3, <3>4, FrontFollows
      <4>3. ~(Touches(t, x)')
        BY <1>7 DEF Touches, Holds, Linking
      <4> QED BY <3>2, <4>1, <4>2, <4>3
    <3> QED BY <3>3, <3>4
  <2> QED BY <1>1, <1>6, <2>1, Keeping
<1>10. SameHand(t)
  BY <1>1, <1>4, <1>7 DEF SameHand, Sending
<1> QED BY <1>1, <1>4, <1>6, <1>7, <1>9, <1>10, Unseen

\* What Publish leaves in t's hands.
LEMMA PublishLeaves ==
    ASSUME QInv, NEW t \in Threads, Publish(t)
    PROVE  /\ \A u \in Threads : u # t => me'[u] = me[u]
           /\ me'[t].start = me[t].start /\ me'[t].end = me[t].end
           /\ me'[t].got = me[t].got /\ me'[t].old = Null
           /\ me'[t].pc \notin {"clear", "swap", "publish"}
<1>1. TypeOK /\ Shape(t) /\ me[t].pc = "publish" /\ me[t] \in Local /\ me[t].old = Null
  BY TypeIs DEF QInv, ThreadOK, Publish, Shape
<1>2. CASE me[t].start # Null
  <2>1. PICK m : m = Published(me[t], "spread")
    OBVIOUS
  <2>2. "spread" \in PCs
    BY DEF PCs
  <2>3. /\ m.pc = "spread" /\ m.old = me[t].old /\ m.start = me[t].start
        /\ m.end = me[t].end /\ m.got = me[t].got
    BY <1>1, <2>1, <2>2, PublishedIs
  <2>4. me' = [me EXCEPT ![t] = m]
    BY <1>2, <2>1 DEF Publish, Published
  <2>5. me'[t] = m /\ \A u \in Threads : u # t => me'[u] = me[u]
    BY <1>1, <2>4, AssignedIs
  <2> QED BY <1>1, <2>3, <2>5
<1>3. CASE me[t].start = Null /\ Found(t)
  <2>1. PICK n : n = me[t].got
    OBVIOUS
  <2>2. Deliver(t, n) /\ n \in Nodes /\ me[t].end = Null
    BY <1>1, <1>3, <2>1, Locals DEF Publish, Found, Shape
  <2>3. PICK m \in Local : /\ me' = [me EXCEPT ![t] = m]
                           /\ Empty(m) /\ m.pc = "run" /\ m.got = n
    BY <2>2, DeliverIs
  <2>4. me'[t] = m /\ \A u \in Threads : u # t => me'[u] = me[u]
    BY <1>1, <2>3, AssignedIs
  <2> QED BY <1>3, <2>1, <2>2, <2>3, <2>4 DEF Empty
<1>4. CASE me[t].start = Null /\ ~Found(t)
  <2>1. me' = [me EXCEPT ![t] = Fresh] /\ me[t].end = Null /\ me[t].got = Null
    BY <1>1, <1>4 DEF Publish, Found, Shape
  <2>2. me'[t] = Fresh /\ \A u \in Threads : u # t => me'[u] = me[u]
    BY <1>1, <2>1, AssignedIs
  <2> QED BY <1>4, <2>1, <2>2, FreshIs
<1> QED BY <1>2, <1>3, <1>4

LEMMA Publish_Unseen ==
    ASSUME QInv, QInv', PathInv, NEW t \in Threads, Publish(t)
    PROVE  PathInv' /\ UNCHANGED <<contents, hand, got>>
<1>1. /\ TypeOK /\ Shape(t) /\ me[t].pc = "publish"
      /\ link' = [link EXCEPT ![me[t].slot] = me[t].from] /\ back' = back /\ spare' = spare
  BY DEF QInv, ThreadOK, Publish
<1>2. PICK s, n : s = me[t].slot /\ n = me[t].from
  OBVIOUS
<1>3. s \in Slots /\ Linking(t, s)
  BY <1>1, <1>2, Locals DEF Shape, Linking
<1>4. /\ \A u \in Threads : u # t => me'[u] = me[u]
      /\ me'[t].start = me[t].start /\ me'[t].end = me[t].end
      /\ me'[t].got = me[t].got /\ me'[t].old = Null
      /\ me'[t].pc \notin {"clear", "swap", "publish"}
  BY PublishLeaves
<1>5. me[t].old = Null
  BY <1>1 DEF Shape
<1>6. Follow(s) = n /\ Follow(s)' = n
  <2>1. link'[s] = n
    BY <1>1, <1>2, <1>3 DEF TypeOK
  <2>2. Follow(s) = n
    BY <1>2, <1>3, FollowIs
  <2>3. Linkers(s) = {t} /\ \A u \in Threads : ~Holds(u, s)
    BY <1>3, LinkersIs
  <2>4. \A u \in Threads : u # t => ~Holds(u, s) /\ ~Linking(u, s)
    BY <2>3 DEF Linkers, Linking
  <2>5. \A u \in Threads : ~(Holds(u, s)') /\ ~(Linking(u, s)')
    BY <1>4, <2>4 DEF Holds, Linking
  <2>6. FollowRule'
    BY FollowNext
  <2> QED BY <1>3, <2>1, <2>2, <2>5, <2>6 DEF FollowRule
<1>7. Keeps({})
  <2>1. ASSUME NEW x \in Slots, ~Stale(x)
        PROVE  /\ ~(Stale(x)')
               /\ \/ Follow(x)' = Follow(x)
                  \/ link'[x] = link[x] /\ ~Touches(t, x) /\ ~(Touches(t, x)')
    <3>1. x \notin spare /\ x # me[t].got
      BY <1>1, <2>1 DEF Stale
    <3>2. ~(Stale(x)')
      BY <1>1, <1>4, <2>1, <3>1, StaleStays
    <3>3. CASE x = s
      BY <1>6, <3>2, <3>3
    <3>4. CASE x # s
      <4>1. link'[x] = link[x]
        BY <1>1, <1>2, <3>4 DEF TypeOK
      <4>2. ~Touches(t, x) /\ ~(Touches(t, x)')
        BY <1>2, <1>4, <1>5, <3>4 DEF Touches, Holds, Linking
      <4> QED BY <3>2, <4>1, <4>2
    <3> QED BY <3>3, <3>4
  <2> QED BY <1>1, <1>4, <2>1, Keeping
<1>8. SameHand(t)
  BY <1>1, <1>4 DEF SameHand, Sending
<1> QED BY <1>1, <1>4, <1>7, <1>8, Unseen

-----------------------------------------------------------------------------
(***************************************************************************)
(* Then those that do, with what they are in SegmentQueues.                *)
(***************************************************************************)
ConsRule == \A o \in Seq(Nodes) : \A s, e \in Slots : \A n \in Nodes :
              ~Stale(s) /\ Follow(s) = n /\ Path(o, n, e) /\ s # e
              => Path(<<n>> \o o, s, e)

EmptyRule == \A s : Path(<<>>, s, s)

LEMMA EmptyNow == EmptyRule
BY DEF EmptyRule, Path

LEMMA ConsNow == ConsRule
<1> SUFFICES ASSUME NEW o \in Seq(Nodes), NEW s \in Slots, NEW e \in Slots, NEW n \in Nodes,
                    ~Stale(s), Follow(s) = n, Path(o, n, e), s # e
             PROVE  Path(<<n>> \o o, s, e)
  BY DEF ConsRule
<1>1. <<>> \in Seq(Nodes) /\ Path(<<>>, s, s)
  BY EmptyNow DEF EmptyRule
<1>2. Path(<<>> \o (<<n>> \o o), s, e)
  BY <1>1, PathsJoin DEF JoinRule
<1>3. <<n>> \o o \in Seq(Nodes)
  OBVIOUS
<1>4. \A y \in Seq(Nodes) : <<>> \o y = y
  OBVIOUS
<1> QED BY <1>2, <1>3, <1>4

LEMMA RulesNext == ConsRule' /\ EmptyRule'
BY ConsNow, EmptyNow, PTL

LEMMA SequenceFacts ==
  \A n \in Nodes : \A p \in Seq(Nodes) :
    /\ <<n>> \o p \in Seq(Nodes) /\ <<n>> \o p # <<>>
    /\ Head(<<n>> \o p) = n /\ Tail(<<n>> \o p) = p
    /\ <<n>> \o <<>> = <<n>> /\ p \o (<<n>> \o <<>>) = Append(p, n)
<1> SUFFICES ASSUME NEW n \in Nodes, NEW p \in Seq(Nodes)
             PROVE  /\ <<n>> \o p \in Seq(Nodes) /\ <<n>> \o p # <<>>
                    /\ Head(<<n>> \o p) = n /\ Tail(<<n>> \o p) = p
                    /\ <<n>> \o <<>> = <<n>> /\ p \o (<<n>> \o <<>>) = Append(p, n)
  OBVIOUS
<1>1. <<n>> \o p \in Seq(Nodes) /\ <<n>> \o p # <<>> /\ Head(<<n>> \o p) = n
  OBVIOUS
<1>2. Tail(<<n>> \o p) = p
  OBVIOUS
<1>3. <<n>> \o <<>> = <<n>>
  OBVIOUS
<1>4. p \o <<n>> = Append(p, n)
  OBVIOUS
<1> QED BY <1>1, <1>2, <1>3, <1>4

LEMMA HandChanges ==
    ASSUME NEW t \in Threads, NEW h, NEW g, hand'[t] = h, got'[t] = g,
           \A u \in Threads : u # t => hand'[u] = hand[u] /\ got'[u] = got[u]
    PROVE  hand' = [hand EXCEPT ![t] = h] /\ got' = [got EXCEPT ![t] = g]
<1>1. /\ hand = [u \in Threads |-> hand[u]] /\ hand' = [u \in Threads |-> hand'[u]]
      /\ got = [u \in Threads |-> got[u]] /\ got' = [u \in Threads |-> got'[u]]
  BY DEF hand, got
<1>2. hand' = [hand EXCEPT ![t] = h]
  BY <1>1
<1>3. got' = [got EXCEPT ![t] = g]
  BY <1>1
<1> QED BY <1>2, <1>3

LEMMA HandUnchanged ==
    ASSUME \A u \in Threads : hand'[u] = hand[u]
    PROVE  hand' = hand
BY DEF hand

LEMMA GotUnchanged ==
    ASSUME \A u \in Threads : got'[u] = got[u]
    PROVE  got' = got
BY DEF got

LEMMA ContentsUnchanged ==
    ASSUME \A r \in Queues : contents'[r] = contents[r]
    PROVE  contents' = contents
BY DEF contents

LEMMA ContentsChange ==
    ASSUME NEW q \in Queues, NEW c, contents'[q] = c,
           \A r \in Queues : r # q => contents'[r] = contents[r]
    PROVE  contents' = [contents EXCEPT ![q] = c]
BY DEF contents

\* A thread with nothing in its hands.
LEMMA IdleHand ==
    ASSUME QInv, NEW t \in Threads, me[t].start = Null, ~Sending(t), me[t].got = Null
    PROVE  Promise!Idle(t) /\ hand[t] = <<>> /\ got[t] = Null
<1>1. hand[t] = <<>>
  BY MapNow DEF MapRule, MapsNothing
<1>2. got[t] = Null
  BY DEF got
<1> QED BY <1>1, <1>2 DEF Promise!Idle

LEMMA IdleHandNext ==
    ASSUME QInv', NEW t \in Threads, me'[t].start = Null, me'[t].pc \notin {"clear", "swap"}
    PROVE  HandOK(t)' /\ hand'[t] = <<>>
<1>1. ~(Sending(t)')
  BY DEF Sending
<1>2. hand'[t] = <<>>
  BY <1>1, MapNext DEF MapRule, MapsNothing
<1>3. HandOK(t)'
  BY <1>1 DEF HandOK
<1> QED BY <1>2, <1>3

LEMMA Offer_Offers ==
    ASSUME QInv, QInv', PathInv, NEW t \in Producers, NEW n \in Nodes, NEW q \in Queues,
           Offer(t, n, q)
    PROVE  PathInv' /\ Promise!Offer(t, n)
<1>1. /\ t \in Threads /\ TypeOK /\ Shape(t) /\ me[t].pc = "idle" /\ n \in spare
      /\ link' = link /\ back' = back /\ spare' = spare \ {n} /\ n \in Slots
  BY SlotKinds DEF Threads, Offer, QInv, ThreadOK
<1>2. Empty(me[t]) /\ me[t].got = Null
  BY <1>1, EmptyHanded
<1>3. PICK m \in Local :
        /\ me' = [me EXCEPT ![t] = m]
        /\ m.pc = "clear" /\ m.from = n /\ m.to = n
        /\ m.start = Null /\ m.old = Null /\ m.got = Null
  <2>1. PICK x \in Nodes \cup {Null} : x = Null
    OBVIOUS
  <2>2. Enqueue(t, q, n, n, x)
    BY <2>1 DEF Offer
  <2>3. PICK m \in Local :
          /\ me' = [me EXCEPT ![t] = m]
          /\ m.pc = "clear" /\ m.q = q /\ m.from = n /\ m.to = n
          /\ m.start = x /\ m.end = IF x = Null THEN Null ELSE me[t].end
          /\ m.old = me[t].old /\ m.slot = me[t].slot /\ m.got = me[t].got
    BY <1>1, <2>2, EnqueueIs
  <2> QED BY <1>2, <2>1, <2>3 DEF Empty
<1>4. me'[t] = m /\ \A u \in Threads : u # t => me'[u] = me[u]
  BY <1>1, <1>3, AssignedIs
<1>5. Keeps({})
  <2>1. ASSUME NEW x \in Slots, ~Stale(x)
        PROVE  ~(Stale(x)') /\ link'[x] = link[x] /\ ~Touches(t, x) /\ ~(Touches(t, x)')
    <3>1. x \notin spare /\ x # n
      BY <1>1, <2>1 DEF Stale
    <3>2. x # Null
      BY SlotKinds
    <3>3. ~(Stale(x)')
      BY <1>1, <1>3, <1>4, <2>1, <3>1, <3>2, StaleStays
    <3>4. ~Touches(t, x) /\ ~(Touches(t, x)')
      BY <1>1, <1>2, <1>3, <1>4 DEF Touches, Holds, Linking, Empty
    <3> QED BY <1>1, <3>3, <3>4
  <2> QED BY <1>1, <1>4, <2>1, Keeping
<1>6. Gives(t, {})
  BY DEF Gives
<1>7. \A r \in Queues : HasPath(r, back[r])' /\ contents'[r] = contents[r]
  BY <1>1, <1>5, <1>6, QueueStays
<1>8. \A u \in Threads : u # t => HandOK(u)' /\ hand'[u] = hand[u] /\ got'[u] = got[u]
  BY <1>1, <1>4, <1>5, <1>6, OthersStay
<1>9. /\ Sending(t)' /\ me'[t].start = Null /\ me'[t].from = n /\ me'[t].to = n
      /\ me'[t].got = Null
  BY <1>3, <1>4 DEF Sending
<1>10. <<>> \in Seq(Nodes) /\ Path(<<>>, n, n)'
  BY RulesNext DEF EmptyRule
<1>11. HandOK(t)'
  BY <1>9, <1>10 DEF HandOK, HasPath
<1>12. hand'[t] = <<n>>
  <2>1. hand'[t] = <<n>> \o <<>>
    BY <1>1, <1>9, <1>10, MapNext DEF MapRule, MapsSending
  <2> QED BY <2>1, SequenceFacts
<1>13. Promise!Idle(t) /\ got[t] = Null
  BY <1>1, <1>2, IdleHand DEF Sending, Empty
<1>14. got'[t] = Null
  BY <1>1, <1>9 DEF got
<1>15. hand' = [hand EXCEPT ![t] = <<n>>]
  BY <1>1, <1>8, <1>12, <1>14, HandChanges
<1>16. contents' = contents /\ got' = got
  BY <1>7, <1>8, <1>13, <1>14, GotUnchanged, ContentsUnchanged
<1>17. PathInv'
  BY <1>7, <1>8, <1>11 DEF PathInv
<1> QED BY <1>13, <1>15, <1>16, <1>17 DEF Promise!Offer

LEMMA Run_Runs ==
    ASSUME QInv, QInv', PathInv, NEW t \in Threads, Run(t)
    PROVE  PathInv' /\ Promise!Run(t)
<1>1. /\ me[t].pc = "run" /\ TypeOK /\ Shape(t)
      /\ me' = [me EXCEPT ![t] = Fresh]
      /\ link' = link /\ back' = back /\ spare' = spare \cup {me[t].got}
  BY DEF Run, QInv, ThreadOK
<1>2. me'[t] = Fresh /\ \A u \in Threads : u # t => me'[u] = me[u]
  BY <1>1, AssignedIs
<1>3. me[t].start = Null /\ me[t].old = Null /\ ~Sending(t)
  BY <1>1 DEF Shape, Sending
<1>4. Keeps({})
  <2>1. ASSUME NEW x \in Slots, ~Stale(x)
        PROVE  ~(Stale(x)') /\ link'[x] = link[x] /\ ~Touches(t, x) /\ ~(Touches(t, x)')
    <3>1. x \notin spare' /\ x # Null
      BY <1>1, <2>1, SlotKinds DEF Stale
    <3>2. ~(Stale(x)')
      BY <1>2, <2>1, <3>1, FreshIs, StaleStays
    <3>3. ~Touches(t, x) /\ ~(Touches(t, x)')
      BY <1>1, <1>2, <1>3, FreshIs DEF Touches, Holds, Linking
    <3> QED BY <1>1, <3>2, <3>3
  <2> QED BY <1>2, <2>1, Keeping
<1>5. Gives(t, {})
  BY DEF Gives
<1>6. \A r \in Queues : HasPath(r, back[r])' /\ contents'[r] = contents[r]
  BY <1>1, <1>4, <1>5, QueueStays
<1>7. \A u \in Threads : u # t => HandOK(u)' /\ hand'[u] = hand[u] /\ got'[u] = got[u]
  BY <1>2, <1>4, <1>5, OthersStay
<1>8. hand[t] = <<>>
  BY <1>3, MapNow DEF MapRule, MapsNothing
<1>9. HandOK(t)' /\ hand'[t] = <<>> /\ got'[t] = Null
  <2>1. me'[t].start = Null /\ me'[t].pc \notin {"clear", "swap"} /\ me'[t].got = Null
    BY <1>2, FreshIs
  <2> QED BY <2>1, IdleHandNext DEF got
<1>10. got' = [got EXCEPT ![t] = Null]
  BY <1>7, <1>9, HandChanges
<1>11. contents' = contents /\ hand' = hand
  BY <1>6, <1>7, <1>8, <1>9, HandUnchanged, ContentsUnchanged
<1>12. PathInv'
  BY <1>6, <1>7, <1>9 DEF PathInv
<1> QED BY <1>8, <1>10, <1>11, <1>12 DEF Promise!Run

LEMMA Swap_Puts ==
    ASSUME QInv, QInv', PathInv, NEW t \in Threads, Swap(t)
    PROVE  PathInv' /\ \E q \in Queues : Promise!Put(t, q) \/ Promise!PutAll(t, q)
<1>1. /\ TypeOK /\ Shape(t) /\ OneHand(t) /\ me[t] \in Local /\ me[t].pc = "swap"
      /\ link' = link /\ spare' = spare /\ back' = [back EXCEPT ![me[t].q] = me[t].to]
  BY TypeIs DEF QInv, ThreadOK, Swap
<1>2. PICK q, f, o, b, s, e : /\ q = me[t].q /\ f = me[t].from /\ o = me[t].to
                              /\ b = back[q] /\ s = me[t].start /\ e = me[t].end
  OBVIOUS
<1>3. EndRule /\ JoinRule' /\ MapRule /\ MapRule' /\ FollowRule'
  BY EndsNow, PathsJoinNext, MapNow, MapNext, FollowNext
<1>4. /\ q \in Queues /\ q \in Slots /\ f \in Nodes /\ o \in Nodes /\ o \in Slots /\ f \in Slots
      /\ b \in Slots /\ b # Null /\ Follow(b) = Null /\ ~Stale(b) /\ q # o
      /\ Sending(t) /\ me[t].old = Null /\ me[t].slot = Null
  BY <1>1, <1>2, <1>3, SlotKinds DEF EndRule, Sending, Shape
<1>5. "publish" \in PCs /\ b \in Slots \cup {Null}
  BY <1>4 DEF PCs
<1>6. PICK m : m = Publishing(me[t], "publish", b)
  OBVIOUS
<1>7. /\ m.pc = "publish" /\ m.q = q /\ m.old = Null /\ m.from = f
      /\ m.slot = b /\ m.start = s /\ m.end = e /\ m.got = me[t].got
  BY <1>1, <1>2, <1>4, <1>5, <1>6, PublishingIs
<1>8. me' = [me EXCEPT ![t] = m]
  BY <1>2, <1>6 DEF Swap, Publishing
<1>9. me'[t] = m /\ \A u \in Threads : u # t => me'[u] = me[u]
  BY <1>1, <1>8, AssignedIs
<1>10. \A x \in Slots : ~Stale(x) => ~(Stale(x)')
  <2> SUFFICES ASSUME NEW x \in Slots, ~Stale(x) PROVE ~(Stale(x)')
    OBVIOUS
  <2>1. x \notin spare /\ x # me[t].got
    BY DEF Stale
  <2> QED BY <1>1, <1>7, <1>9, <2>1, StaleStays
<1>11. Keeps({})
  <2>1. ASSUME NEW x \in Slots, ~Stale(x), Follow(x) # Null
        PROVE  ~(Stale(x)') /\ link'[x] = link[x] /\ ~Touches(t, x) /\ ~(Touches(t, x)')
    <3>1. ~Touches(t, x)
      BY <1>1, <1>4 DEF Touches, Holds, Linking
    <3>2. ~(Touches(t, x)')
      BY <1>4, <1>7, <1>9, <2>1 DEF Touches, Holds, Linking
    <3> QED BY <1>1, <1>10, <2>1, <3>1, <3>2
  <2> QED BY <1>9, <2>1, Keeping
<1>12. Gives(t, {})
  BY DEF Gives
<1>13. /\ back'[q] = o /\ \A r \in Queues : r # q => back'[r] = back[r]
  BY <1>1, <1>2, <1>4 DEF TypeOK
<1>14. \A r \in Queues : r # q => HasPath(r, back[r])' /\ contents'[r] = contents[r]
  BY <1>11, <1>12, <1>13, QueueStays
<1>15. \A u \in Threads : u # t => HandOK(u)' /\ hand'[u] = hand[u] /\ got'[u] = got[u]
  BY <1>9, <1>11, <1>12, OthersStay
<1>16. PICK p \in Seq(Nodes) : Path(p, q, b)
  BY <1>2, <1>4 DEF PathInv, HasPath
<1>17. PICK z \in Seq(Nodes) : Path(z, f, o)
  BY <1>2, <1>4 DEF PathInv, HandOK, HasPath
<1>18. Path(p, q, b)' /\ Path(z, f, o)'
  BY <1>4, <1>11, <1>12, <1>16, <1>17, PathStays
<1>19. ~(Stale(b)') /\ Follow(b)' = f
  <2>1. ~(Stale(b)')
    BY <1>4, <1>10
  <2>2. Linking(t, b)' /\ me'[t].from = f
    BY <1>7, <1>9 DEF Linking
  <2> QED BY <1>3, <1>4, <2>1, <2>2 DEF FollowRule
<1>20. PICK y : y = p \o (<<f>> \o z)
  OBVIOUS
<1>21. y \in Seq(Nodes) /\ Path(y, q, o)'
  <2>1. y \in Seq(Nodes)
    BY <1>4, <1>20, SequenceFacts
  <2>2. Path(p \o (<<f>> \o z), q, o)'
    BY <1>3, <1>4, <1>18, <1>19 DEF JoinRule
  <2> QED BY <1>20, <2>1, <2>2
<1>22. contents[q] = p /\ contents'[q] = y /\ HasPath(q, back[q])'
  <2>1. contents[q] = p
    BY <1>2, <1>3, <1>4, <1>16 DEF MapRule, MapsQueue
  <2>2. contents'[q] = y
    BY <1>3, <1>4, <1>13, <1>21 DEF MapRule, MapsQueue
  <2> QED BY <1>13, <1>21, <2>1, <2>2 DEF HasPath
<1>23. got'[t] = got[t]
  BY <1>7, <1>9 DEF got
<1>24. got' = got
  BY <1>15, <1>23, GotUnchanged
<1>25. me'[t].start = s /\ me'[t].end = e /\ ~(Sending(t)')
  BY <1>7, <1>9 DEF Sending
<1>26. contents' = [contents EXCEPT ![q] = y]
  BY <1>4, <1>14, <1>22, ContentsChange
<1>27. CASE s = Null
  <2>1. hand[t] = <<f>> \o z
    BY <1>2, <1>3, <1>4, <1>17, <1>27 DEF MapRule, MapsSending
  <2>2. hand'[t] = <<>> /\ HandOK(t)'
    BY <1>7, <1>9, <1>27, IdleHandNext
  <2>3. hand' = [hand EXCEPT ![t] = <<>>]
    BY <1>15, <1>23, <2>2, HandChanges
  <2>4. contents' = [contents EXCEPT ![q] = @ \o hand[t]]
    BY <1>20, <1>22, <1>26, <2>1
  <2>5. Promise!PutAll(t, q)
    BY <1>24, <2>3, <2>4 DEF Promise!PutAll
  <2>6. PathInv'
    BY <1>14, <1>15, <1>22, <2>2 DEF PathInv
  <2> QED BY <1>4, <2>5, <2>6
<1>28. CASE s # Null
  <2>1. s \in Nodes /\ s \in Slots /\ e \in Slots /\ f = o
    BY <1>2, <1>3, <1>4, <1>28, SlotKinds DEF EndRule, PathInv, HandOK
  <2>2. PICK w \in Seq(Nodes) : Path(w, s, e)
    BY <1>2, <1>28 DEF PathInv, HandOK, HasPath
  <2>3. Path(w, s, e)'
    BY <1>11, <1>12, <2>1, <2>2, PathStays
  <2>4. HandOK(t)'
    BY <1>25, <2>3 DEF HandOK, HasPath
  <2>5. hand[t] = <<f>> \o (<<s>> \o w)
    BY <1>2, <1>3, <1>4, <1>28, <2>2 DEF MapRule, MapsSpread
  <2>6. hand'[t] = <<s>> \o w
    BY <1>3, <1>25, <1>28, <2>3 DEF MapRule, MapsSegment
  <2>7. z = <<>>
    BY <1>17, <2>1 DEF Path
  <2>8. PICK v \in Seq(Nodes) : v = <<s>> \o w
    BY <2>1, SequenceFacts
  <2>9. /\ hand[t] # <<>> /\ Head(hand[t]) = f /\ Tail(hand[t]) = v
        /\ y = Append(p, f)
    BY <1>4, <1>20, <2>5, <2>7, <2>8, SequenceFacts
  <2>10. hand' = [hand EXCEPT ![t] = Tail(@)]
    BY <1>15, <1>23, <2>6, <2>8, <2>9, HandChanges
  <2>11. contents' = [contents EXCEPT ![q] = Append(@, Head(hand[t]))]
    BY <1>22, <1>26, <2>9
  <2>12. Promise!Put(t, q)
    BY <1>24, <2>9, <2>10, <2>11 DEF Promise!Put
  <2>13. PathInv'
    BY <1>14, <1>15, <1>22, <2>4 DEF PathInv
  <2> QED BY <1>4, <2>12, <2>13
<1> QED BY <1>27, <1>28

\* The path of a queue whose front t has in its hands.
LEMMA FrontPath ==
    ASSUME QInv, PathInv, NEW t \in Threads, me[t].old # Null,
           NEW q, NEW n, NEW b, q = me[t].q, n = me[t].old, b = back[q]
    PROVE  \E o \in Seq(Nodes) :
             /\ Path(o, n, b) /\ Path(<<n>> \o o, q, b) /\ contents[q] = <<n>> \o o
             /\ <<n>> \o o \in Seq(Nodes)
<1>1. /\ q \in Queues /\ q \in Slots /\ n \in Nodes /\ Follow(q) = n /\ q # b
      /\ b \in Slots /\ Follow(b) = Null
  <2>1. EndRule /\ HeldOK(t) /\ q \in Queues
    BY EndsNow, Holding
  <2> QED BY <2>1, Holding, FrontFollows DEF EndRule, HeldOK
<1>2. PICK p \in Seq(Nodes) : Path(p, q, b)
  BY <1>1 DEF PathInv, HasPath
<1>3. Len(p) \in Nat /\ Len(p) > 0
  BY <1>1, <1>2 DEF Path
<1>4. p[1] \in Nodes /\ Path(Tail(p), p[1], b) /\ Follow(q) = p[1] /\ p = <<p[1]>> \o Tail(p)
  BY <1>1, <1>2, <1>3, PathTail
<1>5. PICK o : o = Tail(p)
  OBVIOUS
<1>6. o \in Seq(Nodes) /\ Path(o, n, b) /\ p = <<n>> \o o
  BY <1>1, <1>4, <1>5 DEF Path
<1>7. contents[q] = p
  BY <1>1, <1>2, MapNow DEF MapRule, MapsQueue
<1> QED BY <1>2, <1>6, <1>7

\* A node taken from the front of queue q, the rest of which is o.
LEMMA HeadTaken ==
    ASSUME QInv, QInv', PathInv, NEW t \in Threads, me[t].old # Null,
           NEW q, NEW n, q = me[t].q, n = me[t].old, Keeps({q, n}),
           \A u \in Threads : u # t => me'[u] = me[u],
           me'[t].got = n, me'[t].start = Null, me'[t].pc \notin {"clear", "swap"},
           \A r \in Queues : r # q => back'[r] = back[r],
           NEW o \in Seq(Nodes), contents[q] = <<n>> \o o, Path(o, q, back[q])'
    PROVE  PathInv' /\ Promise!TakeHead(t, q)
<1>1. /\ q \in Queues /\ q \in Slots /\ n \in Nodes /\ n # Null
      /\ me[t].start = Null /\ me[t].got = Null /\ me[t].from = Null
      /\ me[t].pc \in {"next", "advance", "cas", "restore", "detach"}
  BY Holding
<1>2. Gives(t, {q, n})
  BY <1>1, SlotKinds DEF Gives, Has
<1>3. \A r \in Queues : r # q => HasPath(r, back[r])' /\ contents'[r] = contents[r]
  <2> SUFFICES ASSUME NEW r \in Queues, r # q
               PROVE  HasPath(r, back[r])' /\ contents'[r] = contents[r]
    OBVIOUS
  <2>1. r \notin {q, n}
    BY <1>1, SlotKinds
  <2> QED BY <1>2, <2>1, QueueStays
<1>4. \A u \in Threads : u # t => HandOK(u)' /\ hand'[u] = hand[u] /\ got'[u] = got[u]
  BY <1>2, OthersStay
<1>5. HasPath(q, back[q])' /\ contents'[q] = o
  BY <1>1, MapNext DEF HasPath, MapRule, MapsQueue
<1>6. HandOK(t)' /\ hand'[t] = <<>>
  BY IdleHandNext
<1>7. Promise!Idle(t) /\ hand[t] = <<>>
  BY <1>1, IdleHand DEF Sending
<1>8. got'[t] = n
  BY DEF got
<1>9. /\ contents[q] # <<>> /\ Head(contents[q]) = n /\ Tail(contents[q]) = o
  BY <1>1, SequenceFacts
<1>10. got' = [got EXCEPT ![t] = Head(contents[q])]
  BY <1>4, <1>6, <1>8, <1>9, HandChanges
<1>11. hand' = hand
  BY <1>4, <1>6, <1>7, HandUnchanged
<1>12. contents' = [contents EXCEPT ![q] = Tail(@)]
  BY <1>1, <1>3, <1>5, <1>9, ContentsChange
<1>13. PathInv'
  BY <1>3, <1>4, <1>5, <1>6 DEF PathInv
<1> QED BY <1>7, <1>9, <1>10, <1>11, <1>12, <1>13 DEF Promise!TakeHead

LEMMA Advance_Takes ==
    ASSUME QInv, QInv', PathInv, NEW t \in Threads, Advance(t)
    PROVE  PathInv' /\ \E q \in Queues : Promise!TakeHead(t, q)
<1>1. /\ TypeOK /\ Shape(t) /\ LinksOK /\ me[t].pc = "advance" /\ me[t].old # Null
      /\ link' = [link EXCEPT ![me[t].q] = me[t].new] /\ Deliver(t, me[t].old)
      /\ back' = back /\ spare' = spare
  BY DEF QInv, ThreadOK, Shape, Advance
<1>2. PICK q, n, w, b : /\ q = me[t].q /\ n = me[t].old /\ w = me[t].new
                        /\ b = back[q]
  OBVIOUS
<1>3. /\ q \in Queues /\ q \in Slots /\ n \in Nodes /\ n \in Slots /\ n # Null /\ Has(t, n)
      /\ w = link[n] /\ w # Null /\ w \in Nodes /\ w \in Slots /\ q # n
  <2>1. w = link[n] /\ w # Null
    BY <1>1, <1>2 DEF Shape
  <2>2. q \in Queues /\ q \in Slots /\ n \in Nodes /\ n \in Slots /\ n # Null /\ Has(t, n)
    BY <1>1, <1>2, Holding DEF Has
  <2> QED BY <1>1, <2>1, <2>2, SlotKinds DEF TypeOK
<1>4. PICK m \in Local : /\ me' = [me EXCEPT ![t] = m]
                         /\ Empty(m) /\ m.pc = "run" /\ m.got = n
  BY <1>1, <1>2, <1>3, DeliverIs
<1>5. me'[t] = m /\ \A u \in Threads : u # t => me'[u] = me[u]
  BY <1>1, <1>4, AssignedIs
<1>6. Follow(q)' = w /\ \A x \in Slots : ~(Touches(t, x)')
  <2>1. me'[t].old = Null /\ me'[t].pc # "publish"
    BY <1>4, <1>5 DEF Empty
  <2>2. link'[q] = w
    BY <1>1, <1>2, <1>3 DEF TypeOK
  <2> QED BY <1>1, <1>2, <1>5, <2>1, <2>2, FrontIsLink
<1>7. Follow(n) = w
  <2>1. \A u \in Threads : ~Holds(u, n) /\ ~Linking(u, n)
    BY <1>3, LinkersIs, SlotKinds DEF Holds
  <2> QED BY <1>3, <2>1, FollowIs
<1>8. PICK o \in Seq(Nodes) :
        /\ Path(o, n, b) /\ Path(<<n>> \o o, q, b) /\ contents[q] = <<n>> \o o
        /\ <<n>> \o o \in Seq(Nodes)
  BY <1>1, <1>2, FrontPath
<1>9. /\ b \in Slots /\ Follow(b) = Null /\ q # b /\ n # b
      /\ EndRule /\ MapRule' /\ ConsRule'
  <2>1. EndRule /\ HeldOK(t)
    BY EndsNow DEF QInv, ThreadOK
  <2> QED BY <1>1, <1>2, <1>3, <1>7, <2>1, MapNext, RulesNext DEF EndRule, HeldOK
<1>10. PICK z \in Seq(Nodes) : Path(z, w, b) /\ o = <<w>> \o z /\ ~Stale(n)
  <2>1. Len(o) \in Nat /\ Len(o) > 0
    BY <1>8, <1>9 DEF Path
  <2>2. Path(Tail(o), o[1], b) /\ Follow(n) = o[1] /\ o = <<o[1]>> \o Tail(o) /\ ~Stale(n)
    BY <1>3, <1>8, <1>9, <2>1, PathTail
  <2>3. Tail(o) \in Seq(Nodes)
    BY <2>2 DEF Path
  <2> QED BY <1>7, <2>2, <2>3
<1>11. w # n
  <2>1. Links(n)
    BY <1>3, <1>10 DEF Links
  <2>2. ~Has(t, w)
    BY <1>1, <1>3, <2>1 DEF LinksOK
  <2> QED BY <1>3, <2>2
<1>12. Keeps({q, n})
  <2>1. ASSUME NEW x \in Slots, ~Stale(x), x \notin {q, n}
        PROVE  ~(Stale(x)') /\ link'[x] = link[x] /\ ~Touches(t, x) /\ ~(Touches(t, x)')
    <3>1. x \notin spare
      BY <2>1 DEF Stale
    <3>2. ~(Stale(x)')
      BY <1>1, <1>4, <1>5, <2>1, <3>1, StaleStays
    <3>3. link'[x] = link[x]
      BY <1>1, <1>2, <2>1 DEF TypeOK
    <3>4. ~Touches(t, x)
      BY <1>1, <1>2, <2>1, FrontFollows
    <3> QED BY <1>6, <3>2, <3>3, <3>4
  <2> QED BY <1>5, <2>1, Keeping
<1>13. Gives(t, {q, n})
  BY <1>1, <1>2, <1>3, SlotKinds DEF Gives, Shape
<1>14. Path(z, w, b)'
  <2>1. w \notin {q, n}
    BY <1>3, <1>11, SlotKinds
  <2> QED BY <1>3, <1>9, <1>10, <1>12, <1>13, <2>1, PathStays
<1>15. ~(Stale(q)')
  <2>1. TypeOK'
    BY DEF QInv
  <2>2. q \notin spare' /\ ~Stale(q)
    BY <1>1, <1>3, FrontIsNotStale DEF Stale
  <2> QED BY <1>3, <1>4, <1>5, <2>2, StaleStays
<1>16. Path(o, q, b)'
  BY <1>3, <1>6, <1>9, <1>10, <1>14, <1>15 DEF ConsRule
<1>17. Path(o, q, back[q])'
  BY <1>1, <1>2, <1>16
<1>18. /\ me'[t].got = n /\ me'[t].start = Null /\ me'[t].pc \notin {"clear", "swap"}
  BY <1>4, <1>5 DEF Empty
<1>19. PathInv' /\ Promise!TakeHead(t, q)
  BY <1>1, <1>2, <1>5, <1>8, <1>12, <1>17, <1>18, HeadTaken
<1> QED BY <1>3, <1>19

LEMMA CasBack_Takes ==
    ASSUME QInv, QInv', PathInv, NEW t \in Threads, CasBack(t)
    PROVE  PathInv' /\ \/ UNCHANGED <<contents, hand, got>>
                       \/ \E q \in Queues : Promise!TakeHead(t, q)
<1>1. /\ TypeOK /\ Shape(t) /\ me[t].pc = "cas" /\ me[t].old # Null
      /\ link' = link /\ spare' = spare
  BY DEF QInv, ThreadOK, Shape, CasBack
<1>2. CASE ~StillOld(t)
  <2>1. Goto(t, "restore") /\ back' = back /\ "restore" \in PCs
    BY <1>2 DEF CasBack, PCs
  <2>2. /\ me'[t].pc = "restore" /\ me'[t].q = me[t].q /\ me'[t].old = me[t].old
        /\ me'[t].start = me[t].start /\ me'[t].end = me[t].end /\ me'[t].got = me[t].got
        /\ \A u \in Threads : u # t => me'[u] = me[u]
    BY <1>1, <2>1, GotoIs
  <2> QED BY <1>1, <2>1, <2>2, Quiet_Unseen
<1>3. CASE StillOld(t)
  <2>1. PICK q, n : q = me[t].q /\ n = me[t].old
    OBVIOUS
  <2>2. /\ back' = [back EXCEPT ![me[t].q] = me[t].q] /\ Deliver(t, n) /\ n = back[q]
    BY <1>3, <2>1 DEF CasBack, StillOld
  <2>3. /\ q \in Queues /\ q \in Slots /\ n \in Nodes
        /\ back'[q] = q /\ \A r \in Queues : r # q => back'[r] = back[r]
    <3>1. back'[q] = q /\ \A r \in Queues : r # q => back'[r] = back[r]
      BY <1>1, <2>1, <2>2, BackToFront
    <3> QED BY <1>1, <2>1, <3>1, Holding
  <2>4. PICK m \in Local : /\ me' = [me EXCEPT ![t] = m]
                           /\ Empty(m) /\ m.pc = "run" /\ m.got = n
    BY <2>2, <2>3, DeliverIs
  <2>5. me'[t] = m /\ \A u \in Threads : u # t => me'[u] = me[u]
    BY <1>1, <2>4, AssignedIs
  <2>6. Keeps({q, n})
    <3>1. ASSUME NEW x \in Slots, ~Stale(x), x \notin {q, n}
          PROVE  ~(Stale(x)') /\ link'[x] = link[x] /\ ~Touches(t, x) /\ ~(Touches(t, x)')
      <4>1. x \notin spare
        BY <3>1 DEF Stale
      <4>2. ~(Stale(x)')
        BY <1>1, <2>4, <2>5, <3>1, <4>1, StaleStays
      <4>3. ~Touches(t, x)
        BY <1>1, <2>1, <3>1, FrontFollows
      <4>4. ~(Touches(t, x)')
        BY <2>4, <2>5 DEF Touches, Holds, Linking, Empty
      <4> QED BY <1>1, <4>2, <4>3, <4>4
    <3> QED BY <2>5, <3>1, Keeping
  <2>7. PICK o \in Seq(Nodes) : Path(o, n, n) /\ contents[q] = <<n>> \o o
    <3>1. PICK b : b = back[q]
      OBVIOUS
    <3>2. b = n
      BY <2>2, <3>1
    <3>3. PICK o \in Seq(Nodes) :
            /\ Path(o, n, b) /\ Path(<<n>> \o o, q, b) /\ contents[q] = <<n>> \o o
            /\ <<n>> \o o \in Seq(Nodes)
      BY <1>1, <2>1, <3>1, FrontPath
    <3> QED BY <3>2, <3>3
  <2>8. o = <<>>
    BY <2>7 DEF Path
  <2>9. Path(o, q, back[q])'
    BY <2>3, <2>8, RulesNext DEF EmptyRule
  <2>10. /\ me'[t].got = n /\ me'[t].start = Null /\ me'[t].pc \notin {"clear", "swap"}
    BY <2>4, <2>5 DEF Empty
  <2>11. PathInv' /\ Promise!TakeHead(t, q)
    BY <1>1, <2>1, <2>3, <2>5, <2>6, <2>7, <2>9, <2>10, HeadTaken
  <2> QED BY <2>3, <2>11
<1> QED BY <1>2, <1>3

LEMMA Detach_TakesAll ==
    ASSUME QInv, QInv', PathInv, NEW t \in Threads, Detach(t)
    PROVE  PathInv' /\ \E q \in Queues : Promise!TakeAll(t, q)
<1>1. /\ TypeOK /\ Shape(t) /\ me[t] \in Local /\ me[t].pc = "detach" /\ me[t].old # Null
      /\ link' = link /\ spare' = spare
      /\ back' = [back EXCEPT ![me[t].q] = me[t].q]
  BY TypeIs DEF QInv, ThreadOK, Shape, Detach
<1>2. PICK q, n, b : q = me[t].q /\ n = me[t].old /\ b = back[q]
  OBVIOUS
<1>3. /\ q \in Queues /\ q \in Slots /\ n \in Nodes /\ n \in Slots /\ n # Null
      /\ me[t].start = Null /\ me[t].got = Null
      /\ b \in Nodes /\ b \in Slots
      /\ back'[q] = q /\ \A r \in Queues : r # q => back'[r] = back[r]
  <2>1. /\ b \in Nodes
        /\ back'[q] = q /\ \A r \in Queues : r # q => back'[r] = back[r]
    BY <1>1, <1>2, BackToFront
  <2>2. /\ q \in Queues /\ q \in Slots /\ n \in Nodes /\ n \in Slots
        /\ me[t].start = Null /\ me[t].got = Null
    BY <1>1, <1>2, Holding
  <2> QED BY <2>1, <2>2, SlotKinds
<1>4. PICK m : m = Stolen(me[t], "take", n, b)
  OBVIOUS
<1>5. m.pc = "take" /\ m.start = n /\ m.end = b /\ m.old = Null /\ m.got = me[t].got
  <2>1. "take" \in PCs /\ n \in Nodes \cup {Null} /\ b \in Nodes \cup {Null}
    BY <1>3 DEF PCs
  <2> QED BY <1>1, <1>4, <2>1, StolenIs
<1>6. me' = [me EXCEPT ![t] = m]
  BY <1>2, <1>4 DEF Detach, Stolen
<1>7. me'[t] = m /\ \A u \in Threads : u # t => me'[u] = me[u]
  BY <1>1, <1>6, AssignedIs
<1>8. Keeps({q})
  <2>1. ASSUME NEW x \in Slots, ~Stale(x), x \notin {q}
        PROVE  ~(Stale(x)') /\ link'[x] = link[x] /\ ~Touches(t, x) /\ ~(Touches(t, x)')
    <3>1. x \notin spare /\ x # me[t].got
      BY <1>1, <2>1 DEF Stale
    <3>2. ~(Stale(x)')
      BY <1>1, <1>5, <1>7, <2>1, <3>1, StaleStays
    <3>3. ~Touches(t, x)
      BY <1>1, <1>2, <2>1, FrontFollows
    <3>4. ~(Touches(t, x)')
      BY <1>5, <1>7 DEF Touches, Holds, Linking
    <3> QED BY <1>1, <3>2, <3>3, <3>4
  <2> QED BY <1>7, <2>1, Keeping
<1>9. Gives(t, {q})
  BY <1>3, SlotKinds DEF Gives
<1>10. \A r \in Queues : r # q => HasPath(r, back[r])' /\ contents'[r] = contents[r]
  BY <1>3, <1>8, <1>9, QueueStays
<1>11. \A u \in Threads : u # t => HandOK(u)' /\ hand'[u] = hand[u] /\ got'[u] = got[u]
  BY <1>7, <1>8, <1>9, OthersStay
<1>12. PICK o \in Seq(Nodes) :
         /\ Path(o, n, b) /\ Path(<<n>> \o o, q, b) /\ contents[q] = <<n>> \o o
         /\ <<n>> \o o \in Seq(Nodes)
  BY <1>1, <1>2, FrontPath
<1>13. Path(o, n, b)'
  <2>1. n \notin {q}
    BY <1>3, SlotKinds
  <2> QED BY <1>3, <1>8, <1>9, <1>12, <2>1, PathStays
<1>14. /\ me'[t].start = n /\ me'[t].end = b /\ ~(Sending(t)') /\ me'[t].got = me[t].got
  BY <1>5, <1>7 DEF Sending
<1>15. HandOK(t)'
  BY <1>13, <1>14 DEF HandOK, HasPath
<1>16. hand'[t] = contents[q]
  BY <1>3, <1>12, <1>13, <1>14, MapNext DEF MapRule, MapsSegment
<1>17. <<>> \in Seq(Nodes) /\ Path(<<>>, q, back[q])'
  BY <1>3, RulesNext DEF EmptyRule
<1>18. HasPath(q, back[q])' /\ contents'[q] = <<>>
  BY <1>3, <1>17, MapNext DEF HasPath, MapRule, MapsQueue
<1>19. Promise!Idle(t)
  BY <1>1, <1>3, IdleHand DEF Sending
<1>20. got'[t] = got[t]
  BY <1>14 DEF got
<1>21. got' = got
  BY <1>11, <1>20, GotUnchanged
<1>22. hand' = [hand EXCEPT ![t] = contents[q]]
  BY <1>11, <1>16, <1>20, HandChanges
<1>23. contents' = [contents EXCEPT ![q] = <<>>]
  BY <1>3, <1>10, <1>18, ContentsChange
<1>24. PathInv'
  BY <1>10, <1>11, <1>15, <1>18 DEF PathInv
<1> QED BY <1>3, <1>19, <1>21, <1>22, <1>23, <1>24 DEF Promise!TakeAll

\* The stolen segment in t's hands: who else sees it,
LEMMA SegmentAlone ==
    ASSUME QInv, PathInv, NEW t \in Threads, me[t].pc \in {"take", "spread"},
           NEW head, NEW end, head = me[t].start, end = me[t].end
    PROVE  /\ Gives(t, {head}) /\ ~Sending(t) /\ Follow(end) = Null
           /\ \A x \in Slots : ~Touches(t, x)
<1>1. /\ TypeOK /\ head \in Nodes /\ end \in Nodes /\ head \in Slots /\ end \in Slots
      /\ head # Null /\ me[t].old = Null /\ me[t].from = Null
      /\ \A n \in Nodes : Has(t, n) <=> n = head \/ n = me[t].got
      /\ link[end] = Null
  BY Segment
<1>2. ~Sending(t) /\ me[t].pc # "publish"
  BY DEF Sending
<1>3. Gives(t, {head})
  BY <1>1 DEF Gives
<1>4. \A x \in Slots : ~Touches(t, x)
  BY <1>1, <1>2 DEF Touches, Holds, Linking
<1>5. Follow(end) = Null
  BY <1>1, EndsNow DEF EndRule
<1> QED BY <1>2, <1>3, <1>4, <1>5

\* ... its path,
LEMMA SegmentPath ==
    ASSUME QInv, PathInv, NEW t \in Threads, me[t].pc \in {"take", "spread"}
    PROVE  \E p \in Seq(Nodes) : /\ Path(p, me[t].start, me[t].end)
                                 /\ hand[t] = <<me[t].start>> \o p
                                 /\ me[t].start = me[t].end => p = <<>>
<1>1. PICK head, end : head = me[t].start /\ end = me[t].end
  OBVIOUS
<1>2. head # Null /\ me[t].start # Null /\ ~Sending(t)
  BY <1>1, Segment DEF Sending
<1>3. PICK p \in Seq(Nodes) : Path(p, head, end)
  BY <1>1, <1>2 DEF PathInv, HandOK, HasPath
<1>4. hand[t] = <<head>> \o p
  BY <1>1, <1>2, <1>3, MapNow DEF MapRule, MapsSegment
<1>5. head = end => p = <<>>
  BY <1>3 DEF Path
<1> QED BY <1>1, <1>3, <1>4, <1>5

\* ... and what comes after the head, once it is linked.
LEMMA SegmentRest ==
    ASSUME QInv, PathInv, NEW t \in Threads, me[t].pc \in {"take", "spread"},
           NEW head, NEW end, head = me[t].start, end = me[t].end,
           NEW rest, rest = link[head], rest # Null
    PROVE  /\ rest \in Nodes /\ rest \in Slots /\ rest # head
           /\ \E o \in Seq(Nodes) : /\ Path(o, rest, end)
                                    /\ hand[t] = <<head>> \o (<<rest>> \o o)
<1>1. /\ TypeOK /\ head \in Nodes /\ end \in Nodes /\ head \in Slots /\ end \in Slots
      /\ \A n \in Nodes : Has(t, n) <=> n = head \/ n = me[t].got
      /\ link[end] = Null /\ Links(head)
  BY Segment
<1>2. rest \in Nodes /\ rest \in Slots
  BY <1>1, SlotKinds DEF TypeOK
<1>3. rest # head
  BY <1>1 DEF QInv, LinksOK
<1>4. \A u \in Threads : ~Holds(u, head) /\ ~Linking(u, head)
  BY <1>1, LinkersIs, SlotKinds DEF Holds
<1>5. Follow(head) = rest
  BY <1>1, <1>4, FollowIs
<1>6. Follow(end) = Null
  BY SegmentAlone
<1>7. PICK p \in Seq(Nodes) : Path(p, head, end) /\ hand[t] = <<head>> \o p
  BY SegmentPath
<1>8. Len(p) \in Nat /\ Len(p) > 0
  BY <1>1, <1>7 DEF Path
<1>9. Path(Tail(p), p[1], end) /\ Follow(head) = p[1] /\ p = <<p[1]>> \o Tail(p)
  BY <1>1, <1>6, <1>7, <1>8, PathTail
<1>10. PICK o : o = Tail(p)
  OBVIOUS
<1>11. o \in Seq(Nodes) /\ Path(o, rest, end) /\ p = <<rest>> \o o
  BY <1>5, <1>9, <1>10 DEF Path
<1> QED BY <1>2, <1>3, <1>7, <1>11

\* The head of the segment is kept, and o is left.
LEMMA HeadSplit ==
    ASSUME QInv, QInv', PathInv, NEW t \in Threads, me[t].pc = "take",
           NEW head, head = me[t].start, Keeps({head}), back' = back,
           \A u \in Threads : u # t => me'[u] = me[u], me'[t].got = head,
           NEW o \in Seq(Nodes), hand[t] = <<head>> \o o, hand'[t] = o, HandOK(t)'
    PROVE  PathInv' /\ Promise!Split(t)
<1>1. PICK end : end = me[t].end
  OBVIOUS
<1>2. head \in Nodes /\ me[t].got = Null
  BY <1>1, Segment
<1>3. Gives(t, {head})
  BY <1>1, SegmentAlone
<1>4. \A r \in Queues : HasPath(r, back[r])' /\ contents'[r] = contents[r]
  <2> SUFFICES ASSUME NEW r \in Queues
               PROVE  HasPath(r, back[r])' /\ contents'[r] = contents[r]
    OBVIOUS
  <2>1. r \notin {head}
    BY <1>2, SlotKinds
  <2> QED BY <1>3, <2>1, QueueStays
<1>5. \A u \in Threads : u # t => HandOK(u)' /\ hand'[u] = hand[u] /\ got'[u] = got[u]
  BY <1>3, OthersStay
<1>6. got[t] = Null /\ got'[t] = head
  BY <1>2 DEF got
<1>7. hand[t] # <<>> /\ Head(hand[t]) = head /\ Tail(hand[t]) = o
  BY <1>2, SequenceFacts
<1>8. got' = [got EXCEPT ![t] = Head(hand[t])]
  BY <1>5, <1>6, <1>7, HandChanges
<1>9. hand' = [hand EXCEPT ![t] = Tail(@)]
  BY <1>5, <1>6, <1>7, HandChanges
<1>10. contents' = contents
  BY <1>4, ContentsUnchanged
<1>11. PathInv'
  BY <1>4, <1>5 DEF PathInv
<1> QED BY <1>6, <1>7, <1>8, <1>9, <1>10, <1>11 DEF Promise!Split

\* A step that leaves everything in place but the head of t's segment.
LEMMA SegmentKeeps ==
    ASSUME QInv, QInv', PathInv, NEW t \in Threads, me[t].pc \in {"take", "spread"},
           NEW head, head = me[t].start, link' = link, spare' = spare,
           \A u \in Threads : u # t => me'[u] = me[u], me'[t].old = Null,
           me'[t].got \in {me[t].got, head}, me'[t].pc # "publish",
           NEW X, X = {} \/ X = {head},
           me'[t].got = head /\ head # me[t].got => head \in X,
           \A x \in Slots : me'[t].pc = "clear" /\ x = me'[t].to => x \in X \/ Follow(x) = Null
    PROVE  Keeps(X)
<1>1. ASSUME NEW x \in Slots, ~Stale(x), Follow(x) # Null, x \notin X
      PROVE  ~(Stale(x)') /\ link'[x] = link[x] /\ ~Touches(t, x) /\ ~(Touches(t, x)')
  <2>1. x \notin spare /\ x # me[t].got
    BY <1>1 DEF Stale
  <2>2. x # me'[t].got /\ ~(me'[t].pc = "clear" /\ x = me'[t].to)
    BY <1>1, <2>1
  <2>3. ~(Stale(x)')
    BY <1>1, <2>1, <2>2, StaleStays
  <2>4. ~Touches(t, x)
    <3>1. PICK end : end = me[t].end
      OBVIOUS
    <3> QED BY <3>1, SegmentAlone
  <2>5. ~(Touches(t, x)')
    BY DEF Touches, Holds, Linking
  <2> QED BY <2>3, <2>4, <2>5
<1> QED BY <1>1, Keeping

LEMMA TakeOne_Splits ==
    ASSUME QInv, QInv', PathInv, NEW t \in Threads, TakeOne(t)
    PROVE  PathInv' /\ (Promise!Split(t) \/ UNCHANGED <<contents, hand, got>>)
<1>1. /\ me[t].pc = "take" /\ link' = link /\ back' = back /\ spare' = spare
  BY DEF TakeOne
<1>2. PICK head, end : head = me[t].start /\ end = me[t].end
  OBVIOUS
<1>3. /\ TypeOK /\ me[t] \in Local /\ head \in Nodes /\ end \in Nodes
      /\ head \in Slots /\ end \in Slots /\ head # Null
      /\ me[t].old = Null /\ me[t].got = Null
  BY <1>1, <1>2, Segment
<1>4. CASE link[head] # Null
  <2>1. PICK rest : rest = link[head]
    OBVIOUS
  <2>2. PICK m : m = Taken(me[t], "spread", head, rest)
    OBVIOUS
  <2>3. /\ rest \in Nodes /\ rest \in Slots /\ rest # head /\ rest # Null
        /\ Gives(t, {head})
        /\ \E o \in Seq(Nodes) : /\ Path(o, rest, end)
                                 /\ hand[t] = <<head>> \o (<<rest>> \o o)
    <3>1. /\ rest \in Nodes /\ rest \in Slots /\ rest # head
          /\ \E o \in Seq(Nodes) : /\ Path(o, rest, end)
                                   /\ hand[t] = <<head>> \o (<<rest>> \o o)
      <4>1. rest # Null
        BY <1>4, <2>1
      <4> QED BY <1>1, <1>2, <2>1, <4>1, SegmentRest
    <3>2. Gives(t, {head})
      BY <1>1, <1>2, SegmentAlone
    <3> QED BY <1>4, <2>1, <3>1, <3>2
  <2>4. /\ m.pc = "spread" /\ m.old = Null /\ m.start = rest /\ m.end = end /\ m.got = head
    <3>1. "spread" \in PCs /\ head \in Nodes \cup {Null} /\ rest \in Nodes \cup {Null}
      BY <1>3, <2>3 DEF PCs
    <3> QED BY <1>2, <1>3, <2>2, <3>1, TakenIs, SMTT(30)
  <2>5. me' = [me EXCEPT ![t] = m]
    BY <1>2, <1>4, <2>1, <2>2 DEF TakeOne, Taken
  <2>6. me'[t] = m /\ \A u \in Threads : u # t => me'[u] = me[u]
    BY <1>3, <2>5, AssignedIs
  <2>7. Keeps({head})
    BY <1>1, <1>2, <2>4, <2>6, SegmentKeeps
  <2>8. PICK o \in Seq(Nodes) : /\ Path(o, rest, end)
                                /\ hand[t] = <<head>> \o (<<rest>> \o o)
    BY <2>3
  <2>9. Path(o, rest, end)'
    <3>1. rest \notin {head}
      BY <2>3
    <3> QED BY <1>3, <2>3, <2>7, <2>8, <3>1, PathStays
  <2>10. me'[t].start = rest /\ me'[t].end = end /\ ~(Sending(t)')
    BY <2>4, <2>6 DEF Sending
  <2>11. HandOK(t)' /\ hand'[t] = <<rest>> \o o
    <3>1. HandOK(t)'
      BY <2>9, <2>10 DEF HandOK, HasPath
    <3>2. hand'[t] = <<rest>> \o o
      BY <2>3, <2>9, <2>10, MapNext DEF MapRule, MapsSegment
    <3> QED BY <3>1, <3>2
  <2>12. PICK w \in Seq(Nodes) : w = <<rest>> \o o
    BY <2>3, SequenceFacts
  <2>13. hand[t] = <<head>> \o w /\ hand'[t] = w
    BY <2>8, <2>11, <2>12
  <2> QED BY <1>1, <1>2, <2>4, <2>6, <2>7, <2>11, <2>13, HeadSplit
<1>5. CASE link[head] = Null /\ Single(t)
  <2>1. Deliver(t, head) /\ head = end
    BY <1>2, <1>5 DEF TakeOne, Single
  <2>2. PICK m \in Local : /\ me' = [me EXCEPT ![t] = m]
                           /\ Empty(m) /\ m.pc = "run" /\ m.got = head
    BY <1>3, <2>1, DeliverIs
  <2>3. me'[t] = m /\ \A u \in Threads : u # t => me'[u] = me[u]
    BY <1>3, <2>2, AssignedIs
  <2>4. /\ me'[t].old = Null /\ me'[t].start = Null /\ me'[t].pc = "run"
        /\ me'[t].got = head
    BY <2>2, <2>3 DEF Empty
  <2>5. Keeps({head})
    BY <1>1, <1>2, <2>3, <2>4, SegmentKeeps
  <2>6. PICK o \in Seq(Nodes) : hand[t] = <<head>> \o o /\ (head = end => o = <<>>)
    BY <1>1, <1>2, SegmentPath
  <2>7. HandOK(t)' /\ hand'[t] = <<>>
    BY <2>4, IdleHandNext
  <2> QED BY <1>1, <1>2, <2>1, <2>3, <2>4, <2>5, <2>6, <2>7, HeadSplit
<1>6. CASE link[head] = Null /\ ~Single(t)
  <2>1. Goto(t, "spread") /\ "spread" \in PCs
    BY <1>2, <1>6 DEF TakeOne, PCs
  <2>2. /\ me'[t].pc = "spread" /\ me'[t].q = me[t].q /\ me'[t].old = me[t].old
        /\ me'[t].start = me[t].start /\ me'[t].end = me[t].end /\ me'[t].got = me[t].got
        /\ \A u \in Threads : u # t => me'[u] = me[u]
    BY <1>3, <2>1, GotoIs
  <2> QED BY <1>1, <2>2, Quiet_Unseen
<1> QED BY <1>4, <1>5, <1>6

\* A round of the spread names the next node to put, or the whole rest.
LEMMA Spread_Unseen ==
    ASSUME QInv, QInv', PathInv, NEW t \in Owners, Spread(t)
    PROVE  PathInv' /\ UNCHANGED <<contents, hand, got>>
<1>1. /\ t \in Threads /\ me[t].pc = "spread" /\ Own[t] \in Queues
      /\ link' = link /\ back' = back /\ spare' = spare
  BY BQAssumption DEF Threads, Spread
<1>2. PICK head, end : head = me[t].start /\ end = me[t].end
  OBVIOUS
<1>3. /\ TypeOK /\ head \in Nodes /\ end \in Nodes
      /\ head \in Slots /\ end \in Slots /\ head # Null /\ me[t].old = Null
  BY <1>1, <1>2, Segment
<1>4. /\ Gives(t, {head}) /\ ~Sending(t) /\ Follow(end) = Null
  BY <1>1, <1>2, SegmentAlone
<1>5. PICK rest \in Nodes \cup {Null} : rest = link[head]
  BY <1>3 DEF TypeOK
<1>6. PICK e \in Nodes : e = IF rest # Null THEN head ELSE end
  BY <1>3
<1>7. Enqueue(t, Own[t], head, e, rest)
  BY <1>2, <1>5, <1>6 DEF Spread
<1>8. PICK m \in Local :
        /\ me' = [me EXCEPT ![t] = m]
        /\ m.pc = "clear" /\ m.from = head /\ m.to = e
        /\ m.start = rest /\ m.end = IF rest = Null THEN Null ELSE end
        /\ m.old = me[t].old /\ m.got = me[t].got
  <2>1. PICK q \in Queues : q = Own[t]
    BY <1>1
  <2>2. PICK m \in Local :
          /\ me' = [me EXCEPT ![t] = m]
          /\ m.pc = "clear" /\ m.q = q /\ m.from = head /\ m.to = e
          /\ m.start = rest /\ m.end = IF rest = Null THEN Null ELSE me[t].end
          /\ m.old = me[t].old /\ m.slot = me[t].slot /\ m.got = me[t].got
    BY <1>1, <1>3, <1>7, <2>1, EnqueueIs
  <2> QED BY <1>2, <2>2
<1>9. me'[t] = m /\ \A u \in Threads : u # t => me'[u] = me[u]
  BY <1>1, <1>3, <1>8, AssignedIs
<1>10. /\ Sending(t)' /\ me'[t].from = head /\ me'[t].to = e /\ me'[t].start = rest
       /\ me'[t].pc = "clear" /\ me'[t].old = Null /\ me'[t].got = me[t].got
  BY <1>3, <1>8, <1>9 DEF Sending
<1>11. got'[t] = got[t]
  BY <1>1, <1>10 DEF got
<1>12. PICK X : X = IF rest # Null THEN {head} ELSE {}
  OBVIOUS
<1>13. Keeps(X) /\ Gives(t, X)
  <2>1. Gives(t, X)
    BY <1>4, <1>12 DEF Gives
  <2>2. \A x \in Slots : me'[t].pc = "clear" /\ x = me'[t].to => x \in X \/ Follow(x) = Null
    BY <1>4, <1>6, <1>10, <1>12
  <2>3. /\ me'[t].got \in {me[t].got, head} /\ me'[t].pc # "publish"
        /\ (me'[t].got = head /\ head # me[t].got => head \in X)
        /\ (X = {} \/ X = {head})
    BY <1>10, <1>12
  <2> QED BY <1>1, <1>2, <1>9, <1>10, <2>1, <2>2, <2>3, SegmentKeeps
<1>14. HandOK(t)' /\ hand'[t] = hand[t]
  <2>1. CASE rest = Null
    <3>1. e = end /\ X = {}
      BY <1>6, <1>12, <2>1
    <3>2. PICK p \in Seq(Nodes) : /\ Path(p, head, end) /\ hand[t] = <<head>> \o p
                                  /\ head = end => p = <<>>
      BY <1>1, <1>2, SegmentPath
    <3>3. Path(p, head, end)'
      BY <1>1, <1>3, <1>13, <3>1, <3>2, PathStays
    <3>4. HandOK(t)'
      BY <1>10, <2>1, <3>1, <3>3 DEF HandOK, HasPath
    <3>5. hand'[t] = <<head>> \o p
      BY <1>1, <1>10, <2>1, <3>1, <3>3, MapNext DEF MapRule, MapsSending
    <3> QED BY <3>2, <3>4, <3>5
  <2>2. CASE rest # Null
    <3>1. e = head /\ X = {head} /\ me'[t].end = end
      BY <1>6, <1>8, <1>9, <1>12, <2>2
    <3>2. /\ rest \in Nodes /\ rest \in Slots /\ rest # head
          /\ \E o \in Seq(Nodes) : /\ Path(o, rest, end)
                                   /\ hand[t] = <<head>> \o (<<rest>> \o o)
      BY <1>1, <1>2, <1>5, <2>2, SegmentRest
    <3>3. PICK o \in Seq(Nodes) : /\ Path(o, rest, end)
                                  /\ hand[t] = <<head>> \o (<<rest>> \o o)
      BY <3>2
    <3>4. Path(o, rest, end)'
      BY <1>1, <1>3, <1>13, <3>1, <3>2, <3>3, PathStays
    <3>5. <<>> \in Seq(Nodes) /\ Path(<<>>, head, head)'
      BY RulesNext DEF EmptyRule
    <3>6. HandOK(t)'
      BY <1>10, <3>1, <3>4, <3>5 DEF HandOK, HasPath
    <3>7. hand'[t] = <<head>> \o (<<rest>> \o o)
      BY <1>1, <1>10, <2>2, <3>1, <3>4, MapNext DEF MapRule, MapsSpread
    <3> QED BY <3>3, <3>6, <3>7
  <2> QED BY <2>1, <2>2
<1>15. \A r \in Queues : HasPath(r, back[r])' /\ contents'[r] = contents[r]
  <2> SUFFICES ASSUME NEW r \in Queues
               PROVE  HasPath(r, back[r])' /\ contents'[r] = contents[r]
    OBVIOUS
  <2>1. r \notin X
    BY <1>3, <1>12, SlotKinds
  <2> QED BY <1>1, <1>13, <2>1, QueueStays
<1>16. \A u \in Threads : u # t => HandOK(u)' /\ hand'[u] = hand[u] /\ got'[u] = got[u]
  BY <1>1, <1>9, <1>13, OthersStay
<1>17. contents' = contents
  BY <1>15, ContentsUnchanged
<1>18. hand' = hand /\ got' = got
  BY <1>11, <1>14, <1>16, HandUnchanged, GotUnchanged
<1>19. PathInv'
  BY <1>14, <1>15, <1>16 DEF PathInv
<1> QED BY <1>17, <1>18, <1>19

-----------------------------------------------------------------------------
LEMMA PathInit == Init => PathInv /\ Promise!Init
<1> SUFFICES ASSUME Init PROVE PathInv /\ Promise!Init
  OBVIOUS
<1>1. QInv
  BY QInit
<1>2. /\ \A r \in Queues : back[r] = r
      /\ \A t \in Threads : me[t].start = Null /\ ~Sending(t) /\ me[t].got = Null
  BY FreshIs DEF Init, Sending
<1>3. \A r \in Queues : Path(<<>>, r, back[r]) /\ <<>> \in Seq(Nodes)
  BY <1>2, EmptyNow DEF EmptyRule
<1>4. PathInv
  BY <1>2, <1>3 DEF PathInv, HasPath, HandOK
<1>5. \A r \in Queues : contents[r] = <<>>
  BY <1>1, <1>3, MapNow DEF MapRule, MapsQueue
<1>6. \A t \in Threads : hand[t] = <<>> /\ got[t] = Null
  BY <1>1, <1>2, IdleHand
<1>7. /\ contents = [q \in Queues |-> <<>>]
      /\ hand = [t \in Threads |-> <<>>]
      /\ got = [t \in Threads |-> Null]
  BY <1>5, <1>6 DEF contents, hand, got
<1> QED BY <1>4, <1>7 DEF Promise!Init

LEMMA PathStutter ==
    ASSUME QInv, QInv', PathInv, UNCHANGED vars
    PROVE  PathInv' /\ UNCHANGED <<contents, hand, got>>
<1>1. link' = link /\ back' = back /\ me' = me /\ spare' = spare
  BY DEF vars
<1>2. \A x : Stale(x)' <=> Stale(x)
  BY <1>1 DEF Stale
<1>3. \A x : Follow(x)' = Follow(x)
  BY <1>1 DEF Follow, Holders, Linkers
<1>4. Keeps({})
  BY <1>2, <1>3 DEF Keeps
<1>5. ASSUME NEW r \in Queues
      PROVE  HasPath(r, back[r])' /\ contents'[r] = contents[r]
  <2>1. PICK e : e = back[r]
    OBVIOUS
  <2>2. PICK p \in Seq(Nodes) : Path(p, r, e)
    BY <2>1 DEF PathInv, HasPath
  <2>3. Path(p, r, e)'
    BY <1>2, <1>3, <2>2 DEF Path
  <2>4. contents[r] = p
    BY <2>1, <2>2, MapNow DEF MapRule, MapsQueue
  <2>5. contents'[r] = p
    BY <1>1, <2>1, <2>3, MapNext DEF MapRule, MapsQueue
  <2> QED BY <1>1, <2>1, <2>3, <2>4, <2>5 DEF HasPath
<1>6. ASSUME NEW t \in Threads
      PROVE  HandOK(t)' /\ hand'[t] = hand[t] /\ got'[t] = got[t]
  <2>1. SameHand(t)
    BY <1>1 DEF SameHand, Sending
  <2>2. Gives(t, {})
    BY DEF Gives
  <2>3. got'[t] = got[t]
    BY <1>1 DEF got
  <2> QED BY <1>4, <2>1, <2>2, <2>3, HandStays
<1>7. contents' = contents /\ hand' = hand /\ got' = got
  BY <1>5, <1>6, ContentsUnchanged, HandUnchanged, GotUnchanged
<1>8. PathInv'
  BY <1>5, <1>6 DEF PathInv
<1> QED BY <1>7, <1>8

LEMMA PathNext ==
    QInv /\ QInv' /\ PathInv /\ [Next]_vars => PathInv' /\ [Promise!Next]_(Promise!vars)
<1> SUFFICES ASSUME QInv, QInv', PathInv, [Next]_vars
             PROVE  PathInv' /\ [Promise!Next]_(Promise!vars)
  OBVIOUS
<1> DEFINE Seen == Promise!Next \/ UNCHANGED <<contents, hand, got>>
<1>1. ASSUME NEW p \in Producers, NEW n \in Nodes, NEW q \in Queues, Offer(p, n, q)
      PROVE  PathInv' /\ Seen
  <2>1. p \in Threads
    BY DEF Threads
  <2>2. PathInv' /\ Promise!Offer(p, n)
    BY <1>1, Offer_Offers
  <2> QED BY <2>1, <2>2 DEF Promise!Next
<1>2. ASSUME NEW t \in Threads, EnqueueStep(t) PROVE PathInv' /\ Seen
  <2>1. CASE Clear(t) \/ Publish(t)
    BY <2>1, Clear_Unseen, Publish_Unseen
  <2>2. CASE Swap(t)
    BY <2>2, Swap_Puts DEF Promise!Next
  <2> QED BY <1>2, <2>1, <2>2 DEF EnqueueStep
<1>3. ASSUME NEW t \in Owners, DequeueStep(t) PROVE PathInv' /\ Seen
  <2>1. t \in Threads
    BY DEF Threads
  <2>2. CASE Probe(t) \/ Acquire(t) \/ Restore(t) \/ ReadNext(t)
    BY <2>1, <2>2, Probe_Unseen, Acquire_Unseen, Restore_Unseen, ReadNext_Unseen
  <2>3. CASE Advance(t)
    BY <2>1, <2>3, Advance_Takes DEF Promise!Next
  <2>4. CASE CasBack(t)
    BY <2>1, <2>4, CasBack_Takes DEF Promise!Next
  <2> QED BY <1>3, <2>2, <2>3, <2>4 DEF DequeueStep
<1>4. ASSUME NEW t \in Owners, StealStep(t) PROVE PathInv' /\ Seen
  <2>1. t \in Threads
    BY DEF Threads
  <2>2. CASE Detach(t)
    BY <2>1, <2>2, Detach_TakesAll DEF Promise!Next
  <2>3. CASE TakeOne(t)
    BY <2>1, <2>3, TakeOne_Splits DEF Promise!Next
  <2>4. CASE Spread(t)
    BY <2>4, Spread_Unseen
  <2> QED BY <1>4, <2>2, <2>3, <2>4 DEF StealStep
<1>5. ASSUME NEW t \in Owners, Pop(t) \/ Run(t) PROVE PathInv' /\ Seen
  <2>1. t \in Threads
    BY DEF Threads
  <2>2. CASE Pop(t)
    BY <2>2, Pop_Unseen
  <2>3. CASE Run(t)
    BY <2>1, <2>3, Run_Runs DEF Promise!Next
  <2> QED BY <1>5, <2>2, <2>3
<1>6. ASSUME UNCHANGED vars PROVE PathInv' /\ Seen
  BY <1>6, PathStutter
<1>7. PathInv' /\ Seen
  <2> HIDE DEF Seen
  <2> QED BY <1>1, <1>2, <1>3, <1>4, <1>5, <1>6 DEF Next, WorkerStep
<1> QED BY <1>7 DEF Promise!vars

\* boc_bq is a set of FIFO queues, whatever the interleaving of its accesses:
\* an enqueue takes effect at the exchange of back, a dequeue at the store of
\* front or the CAS of back, boc_bq_dequeue_all at its exchange of back; every
\* other access is invisible.
THEOREM BehaviorQueue_ImplementsQueues == Spec => ImplementsQueues
<1>1. Spec => []PathInv /\ [][Promise!Next]_(Promise!vars)
  <2>1. Spec => []QInv
    BY BehaviorQueue_Invariance
  <2> QED BY <2>1, PathInit, PathNext, PTL DEF Spec
<1>2. Init => Promise!Init
  BY PathInit
<1> QED BY <1>1, <1>2, PTL DEF Spec, ImplementsQueues, Promise!Spec
=============================================================================
