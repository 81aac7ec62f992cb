---------------------------- MODULE IndexMemProofs ----------------------------
(***************************************************************************)
(* Proofs about the index space: indexes never share memory, nothing of    *)
(* the space is lost, and both segment lists stay well linked, as long as  *)
(* indexes are dropped in sound orders.                                    *)
(***************************************************************************)
EXTENDS IndexMemInv, FiniteSetTheorems, WellFoundedInduction, TLAPS

-----------------------------------------------------------------------------
(* What an operation does to the links of the list S.                      *)

RemovedLinks(sg, sg2, S, o) ==
    \A q \in S \ {o} :
        /\ sg2[q].next = IF sg[q].next = o THEN sg[o].next ELSE sg[q].next
        /\ sg2[q].prev = IF sg[q].prev = o THEN sg[o].prev ELSE sg[q].prev

RemovedEnds(sg, o, first, last, f2, l2) ==
    /\ f2 = IF o = first THEN sg[o].next ELSE first
    /\ l2 = IF o = last THEN sg[o].prev ELSE last

AppendedLinks(sg, sg2, S, last, o) ==
    /\ \A q \in S : /\ sg2[q].prev = sg[q].prev
                    /\ sg2[q].next = IF q = last THEN o ELSE sg[q].next
    /\ sg2[o].prev = last /\ sg2[o].next = Nil

InsertedLinks(sg, sg2, S, prev, o, next) ==
    /\ \A q \in S : /\ sg2[q].prev = IF q = next THEN o ELSE sg[q].prev
                    /\ sg2[q].next = IF q = prev THEN o ELSE sg[q].next
    /\ sg2[o].prev = prev /\ sg2[o].next = next

SameLinks(sg, sg2, S) ==
    \A q \in S : sg2[q].prev = sg[q].prev /\ sg2[q].next = sg[q].next

\* The ranks r agree on S, and o comes behind it.
RankedBehind(rank, rank2, S, o) ==
    /\ \A q \in S : rank2[q] = rank[q]
    /\ \A q \in S : rank2[q] < rank2[o]

\* A list without one of its segments is a list: what TakeWhole does to the idle
\* list and Unlink to the used one.
LEMMA ListRemove ==
    ASSUME NEW sg \in Segs, NEW sg2 \in Segs, NEW S \in SUBSET Offsets,
           NEW rank \in Ranks, NEW first, NEW last, NEW o \in S,
           List(sg, S, rank, first, last), RemovedLinks(sg, sg2, S, o),
           NEW f2, NEW l2, RemovedEnds(sg, o, first, last, f2, l2)
    PROVE  List(sg2, S \ {o}, rank, f2, l2)
  <1> USE DEF RemovedEnds
  <1> DEFINE T == S \ {o}
  <1>0. /\ Nil \notin S
        /\ \A q \in S : rank[q] \in Nat
    BY SpaceAssumption DEF Offsets, Nil, Ranks
  <1>1. Ends(T, f2, l2)
    <2>1. \A q \in T : rank[q] < rank[o] \/ rank[o] < rank[q]
      BY <1>0 DEF List, Ranked
    <2>2. o = first /\ T # {} => sg[o].next \in T
      BY <1>0, <2>1 DEF List, NextRight, PrevRight, Ranked
    <2>3. o = last /\ T # {} => sg[o].prev \in T
      BY <1>0, <2>1 DEF List, NextRight, PrevRight, Ranked
    <2>4. T = {} => o = first /\ o = last
      BY <1>0 DEF List, Ends
    <2> QED
      BY <1>0, <2>2, <2>3, <2>4 DEF List, Ends, NextRight, PrevRight
  <1>2. NextRight(sg2, T, rank, l2)
    BY <1>0 DEF List, Ends, NextRight, PrevRight, RemovedLinks
  <1>3. PrevRight(sg2, T, f2)
    BY <1>0 DEF List, Ends, NextRight, PrevRight, RemovedLinks
  <1>4. Ranked(sg2, T, rank)
    <2>1. \A q \in S : /\ q # last => sg[q].next \in S
                       /\ q # first => sg[q].prev \in S
      BY DEF List, NextRight, PrevRight
    <2> SUFFICES ASSUME NEW p \in T, NEW q \in T, rank[p] < rank[q]
                 PROVE  /\ sg2[p].next # Nil /\ rank[sg2[p].next] <= rank[q]
                        /\ sg2[q].prev # Nil /\ rank[p] <= rank[sg2[q].prev]
      BY DEF List, Ranked
    <2>2. /\ sg[p].next # Nil /\ rank[sg[p].next] <= rank[q]
          /\ sg[q].prev # Nil /\ rank[p] <= rank[sg[q].prev]
      BY DEF List, Ranked
    <2>3. sg2[p].next # Nil /\ rank[sg2[p].next] <= rank[q]
      <3>1. CASE sg[p].next = o
        <4>1. rank[o] < rank[q]
          BY <1>0, <2>2, <3>1 DEF List, Ranked
        <4> QED
          BY <4>1, <3>1 DEF List, Ranked, RemovedLinks
      <3>2. CASE sg[p].next # o
        BY <2>2, <3>2 DEF RemovedLinks
      <3> QED
        BY <3>1, <3>2
    <2>4. sg2[q].prev # Nil /\ rank[p] <= rank[sg2[q].prev]
      <3>1. CASE sg[q].prev = o
        <4>1. rank[p] < rank[o]
          BY <1>0, <2>2, <3>1 DEF List, Ranked
        <4> QED
          BY <4>1, <3>1 DEF List, Ranked, RemovedLinks
      <3>2. CASE sg[q].prev # o
        BY <2>2, <3>2 DEF RemovedLinks
      <3> QED
        BY <3>1, <3>2
    <2> QED
      BY <2>3, <2>4
  <1> QED
    BY <1>1, <1>2, <1>3, <1>4 DEF List

\* A list with a segment more at its end is a list: AppendUsed, and BehindLast
\* where it does not merge.
LEMMA ListAppend ==
    ASSUME NEW sg \in Segs, NEW sg2 \in Segs, NEW S \in SUBSET Offsets,
           NEW rank \in Ranks, NEW rank2 \in Ranks,
           NEW first, NEW last, NEW o \in Offsets \ S,
           List(sg, S, rank, first, last), AppendedLinks(sg, sg2, S, last, o),
           RankedBehind(rank, rank2, S, o),
           NEW f2, f2 = IF last = Nil THEN o ELSE first
    PROVE  List(sg2, S \cup {o}, rank2, f2, o)
  <1> DEFINE T == S \cup {o}
  <1>0. /\ Nil \notin S /\ o # Nil
        /\ \A q \in T : rank[q] \in Nat /\ rank2[q] \in Nat
    BY SpaceAssumption DEF Offsets, Nil, Ranks
  <1>1. Ends(T, f2, o)
    BY <1>0 DEF List, Ends, NextRight, PrevRight, Ranked
  <1>2. NextRight(sg2, T, rank2, o)
    BY <1>0 DEF List, Ends, NextRight, PrevRight, AppendedLinks, RankedBehind
  <1>3. PrevRight(sg2, T, f2)
    BY <1>0 DEF List, Ends, NextRight, PrevRight, AppendedLinks
  <1>4. Ranked(sg2, T, rank2)
    BY <1>0 DEF List, Ends, NextRight, PrevRight, Ranked, AppendedLinks,
                RankedBehind
  <1> QED
    BY <1>1, <1>2, <1>3, <1>4 DEF List

\* A list with a segment more between two neighbours is a list.
LEMMA ListInsert ==
    ASSUME NEW sg \in Segs, NEW sg2 \in Segs, NEW S \in SUBSET Offsets,
           NEW rank \in Ranks, NEW first, NEW last, NEW o \in Offsets \ S,
           NEW prev \in S, NEW next \in S,
           List(sg, S, rank, first, last), sg[next].prev = prev,
           rank[prev] < rank[o], rank[o] < rank[next],
           InsertedLinks(sg, sg2, S, prev, o, next)
    PROVE  List(sg2, S \cup {o}, rank, first, last)
  <1> DEFINE T == S \cup {o}
  <1>0. /\ Nil \notin S /\ o # Nil
        /\ \A q \in T : rank[q] \in Nat
        /\ sg[prev].next = next /\ prev # last /\ next # first
    BY SpaceAssumption DEF Offsets, Nil, Ranks, List, PrevRight, NextRight
  <1>1. Ends(T, first, last)
    BY <1>0 DEF List, Ends
  <1>2. NextRight(sg2, T, rank, last)
    BY <1>0 DEF List, Ends, NextRight, PrevRight, InsertedLinks
  <1>3. PrevRight(sg2, T, first)
    BY <1>0 DEF List, Ends, NextRight, PrevRight, InsertedLinks
  <1>4. Ranked(sg2, T, rank)
    <2>0. \A p, q \in S : rank[p] = rank[q] => p = q
      BY DEF List, Ranked
    <2>1. \A p \in S : /\ rank[p] < rank[o] <=> rank[p] <= rank[prev]
                       /\ rank[o] < rank[p] <=> rank[next] <= rank[p]
                       /\ rank[p] # rank[o]
      BY <1>0 DEF List, Ranked
    <2>2. \A p, q \in T : rank[p] = rank[q] => p = q
      BY <2>0, <2>1
    <2> SUFFICES ASSUME NEW p \in T, NEW q \in T, rank[p] < rank[q]
                 PROVE  /\ sg2[p].next # Nil /\ rank[sg2[p].next] <= rank[q]
                        /\ sg2[q].prev # Nil /\ rank[p] <= rank[sg2[q].prev]
      BY <2>2 DEF Ranked
    <2>3. CASE p = o
      <3>1. q \in S /\ rank[next] <= rank[q] /\ sg2[p].next = next
        BY <1>0, <2>1, <2>3 DEF InsertedLinks
      <3>2. CASE q = next
        BY <1>0, <2>3, <3>1, <3>2 DEF InsertedLinks
      <3>3. CASE q # next
        <4>1. rank[next] < rank[q]
          BY <1>0, <2>0, <3>1, <3>3
        <4>2. sg[q].prev # Nil /\ rank[next] <= rank[sg[q].prev]
          BY <3>1, <4>1 DEF List, Ranked
        <4>3. sg[q].prev \in S /\ sg2[q].prev = sg[q].prev
          BY <3>1, <3>3, <4>2 DEF List, PrevRight, InsertedLinks
        <4> QED
          BY <1>0, <2>3, <3>1, <4>2, <4>3
      <3> QED
        BY <3>2, <3>3
    <2>4. CASE q = o
      <3>1. p \in S /\ rank[p] <= rank[prev] /\ sg2[q].prev = prev
        BY <1>0, <2>1, <2>4 DEF InsertedLinks
      <3>2. CASE p = prev
        BY <1>0, <2>4, <3>1, <3>2 DEF InsertedLinks
      <3>3. CASE p # prev
        <4>1. rank[p] < rank[prev]
          BY <1>0, <2>0, <3>1, <3>3
        <4>2. sg[p].next # Nil /\ rank[sg[p].next] <= rank[prev]
          BY <3>1, <4>1 DEF List, Ranked
        <4>3. sg[p].next \in S /\ sg2[p].next = sg[p].next
          BY <3>1, <3>3, <4>2 DEF List, NextRight, InsertedLinks
        <4> QED
          BY <1>0, <2>4, <3>1, <4>2, <4>3
      <3> QED
        BY <3>2, <3>3
    <2>5. CASE p # o /\ q # o
      <3>1. /\ p \in S /\ q \in S
            /\ sg[p].next # Nil /\ rank[sg[p].next] <= rank[q]
            /\ sg[q].prev # Nil /\ rank[p] <= rank[sg[q].prev]
        BY <2>5 DEF List, Ranked
      <3>2. sg2[p].next # Nil /\ rank[sg2[p].next] <= rank[q]
        BY <1>0, <2>1, <3>1 DEF InsertedLinks
      <3>3. sg2[q].prev # Nil /\ rank[p] <= rank[sg2[q].prev]
        BY <1>0, <2>1, <3>1 DEF InsertedLinks
      <3> QED
        BY <3>2, <3>3
    <2> QED
      BY <2>3, <2>4, <2>5
  <1> QED
    BY <1>1, <1>2, <1>3, <1>4 DEF List

\* A list is not disturbed by what happens to other segments.
LEMMA ListSame ==
    ASSUME NEW sg \in Segs, NEW sg2 \in Segs, NEW S \in SUBSET Offsets,
           NEW rank \in Ranks, NEW first, NEW last,
           List(sg, S, rank, first, last), SameLinks(sg, sg2, S)
    PROVE  List(sg2, S, rank, first, last)
  <1>0. Nil \notin S
    BY SpaceAssumption DEF Offsets, Nil
  <1>1. NextRight(sg2, S, rank, last)
    BY <1>0 DEF List, Ends, NextRight, PrevRight, SameLinks
  <1>2. PrevRight(sg2, S, first)
    BY <1>0 DEF List, Ends, NextRight, PrevRight, SameLinks
  <1>3. Ranked(sg2, S, rank)
    BY <1>0 DEF List, Ends, NextRight, PrevRight, Ranked, SameLinks
  <1> QED
    BY <1>1, <1>2, <1>3 DEF List

-----------------------------------------------------------------------------
(* What a loop over a list visits and finds.                               *)

LEMMA LeastRank ==
    ASSUME NEW T \in SUBSET Offsets, NEW rank \in Ranks, T # {}
    PROVE  \E p \in T : \A q \in T : rank[p] <= rank[q]
  <1> DEFINE R == {rank[p] : p \in T}
             less == {ss \in Nat \X Nat : ss[1] < ss[2]}
  <1>1. R \subseteq Nat /\ R # {}
    BY DEF Ranks
  <1>2. IsWellFoundedOn(less, Nat)
    BY NatLessThanWellFounded, Zenon DEF OpToRel
  <1>3. PICK x \in R : \A y \in R : ~(<<y, x>> \in less)
    <2> HIDE DEF R, less
    <2> QED BY <1>1, <1>2, WFMin
  <1>4. \A y \in R : x <= y
    <2> HIDE DEF R
    <2>1. ASSUME NEW y \in R PROVE ~(y < x) /\ x \in Nat /\ y \in Nat
      BY <1>1, <1>3
    <2> QED BY <2>1
  <1> QED
    BY <1>4

\* The sets that a loop cannot leave before it has found something.
Closed(C, first, wanted) ==
    /\ C \subseteq Linked(first)
    /\ first \in C \cup {Nil}
    /\ \A o \in C \ wanted : seg[o].next \in C \cup {Nil}

LEMMA WalkIsLeast ==
    ASSUME NEW first, NEW wanted
    PROVE  \A o : o \in Walk(first, wanted) <=>
               o \in Linked(first) /\ \A C : Closed(C, first, wanted) => o \in C
  BY DEF Walk, Closed

LEMMA ListIsClosed ==
    ASSUME NEW S \in SUBSET Offsets, NEW rank, NEW first, NEW last, NEW wanted,
           List(seg, S, rank, first, last)
    PROVE  Closed(S, first, wanted)
  <1>1. Nil \notin S
    BY SpaceAssumption DEF Offsets, Nil
  <1>2. ASSUME NEW o \in S PROVE o \in Linked(first)
    <2>1. CASE o = first
      BY <1>1, <2>1 DEF Linked
    <2>2. CASE o # first
      <3>1. seg[o].prev \in Offsets /\ seg[seg[o].prev].next = o
        BY <2>2 DEF List, PrevRight
      <3> QED BY <1>1, <3>1 DEF Linked
    <2> QED BY <2>1, <2>2
  <1> QED
    BY <1>2 DEF Closed, List, Ends, NextRight

\* A loop visits only segments of the list; what it finds is the first of its
\* kind, and when it finds nothing it has seen them all.
LEMMA WalkInList ==
    ASSUME NEW S \in SUBSET Offsets, NEW rank, NEW first, NEW last, NEW wanted,
           List(seg, S, rank, first, last)
    PROVE  Walk(first, wanted) \subseteq S
  BY ListIsClosed, WalkIsLeast

LEMMA FoundIsFirst ==
    ASSUME NEW S \in SUBSET Offsets, NEW rank, NEW first, NEW last,
           NEW wanted \in SUBSET Offsets,
           List(seg, S, rank, first, last), NEW o \in Search(first, wanted)
    PROVE  o \in S /\ o \in wanted /\ seg[o].prev \notin wanted
  <1>1. o \in S /\ o \in wanted /\ o \in Walk(first, wanted)
    BY WalkInList DEF Search
  <1>2. Nil \notin Offsets
    BY SpaceAssumption DEF Offsets, Nil
  <1> SUFFICES ASSUME seg[o].prev \in wanted PROVE FALSE
    BY <1>1
  <1>3. o # first
    BY <1>1, <1>2 DEF List, PrevRight
  <1>4. Closed(S \ {o}, first, wanted)
    <2>1. Closed(S, first, wanted)
      BY ListIsClosed
    <2>2. ASSUME NEW q \in S, q \notin wanted PROVE seg[q].next # o
      BY <1>1, <1>2, <2>2 DEF List, NextRight
    <2> QED BY <1>3, <2>1, <2>2 DEF Closed
  <1> QED
    BY <1>1, <1>4, WalkIsLeast

LEMMA NothingFound ==
    ASSUME NEW S \in SUBSET Offsets, NEW rank \in Ranks,
           NEW first, NEW last, NEW wanted,
           List(seg, S, rank, first, last), Search(first, wanted) = {}
    PROVE  Walk(first, wanted) = S /\ S \cap wanted = {}
  <1> DEFINE W == Walk(first, wanted)
             Missed == S \ W
  <1>1. W \subseteq S /\ W \cap wanted = {}
    BY WalkInList DEF Search
  <1>2. Nil \notin Offsets
    BY SpaceAssumption DEF Offsets, Nil
  <1>3. Missed = {}
    <2> SUFFICES ASSUME Missed # {} PROVE FALSE
      OBVIOUS
    <2>1. PICK p \in Missed : \A q \in Missed : rank[p] <= rank[q]
      BY LeastRank
    <2>2. p # first
      <3>1. first \in S => first \in Linked(first)
        BY <1>2 DEF Linked
      <3>2. first \in S => first \in W
        BY <1>2, <3>1, WalkIsLeast DEF Closed
      <3> QED BY <3>2
    <2>3. PICK q \in S : q = seg[p].prev /\ seg[q].next = p
      BY <2>2 DEF List, PrevRight
    <2>4. rank[q] < rank[p]
      BY <1>2, <2>3 DEF List, NextRight
    <2>5. rank[q] \in Nat /\ rank[p] \in Nat
      BY DEF Ranks
    <2>6. q \in W /\ q \notin wanted
      BY <1>1, <2>1, <2>4, <2>5
    <2>7. p \in Linked(first)
      BY ListIsClosed DEF Closed
    <2>8. p \in W
      BY <1>2, <2>3, <2>6, <2>7, WalkIsLeast DEF Closed
    <2> QED BY <2>8
  <1> QED
    BY <1>1, <1>3

\* Without anything to look for, a loop visits the whole list.
LEMMA WalkIsList ==
    ASSUME NEW S \in SUBSET Offsets, NEW rank \in Ranks, NEW first, NEW last,
           List(seg, S, rank, first, last)
    PROVE  Walk(first, {}) = S
  BY NothingFound DEF Search

-----------------------------------------------------------------------------
(* What an operation does to the sizes of the segments A.                  *)

SameSizes(sg, sg2, A) ==
    \A q \in A : sg2[q].off = sg[q].off /\ sg2[q].size = sg[q].size

\* at is cut off the end of o.
SplitSizes(sg, sg2, A, o, at) ==
    /\ at \in Offsets /\ o < at /\ at < o + sg[o].size
    /\ SameSizes(sg, sg2, A \ {o})
    /\ sg2[o].off = o /\ sg2[o].size = at - o
    /\ sg2[at].off = at /\ sg2[at].size = o + sg[o].size - at

\* o becomes a part of p.
MergedSizes(sg, sg2, A, p, o) ==
    /\ p + sg[p].size = o
    /\ SameSizes(sg, sg2, A \ {p, o})
    /\ sg2[p].off = p /\ sg2[p].size = sg[p].size + sg[o].size

LEMMA SegTypes ==
    ASSUME NEW sg \in Segs
    PROVE  \A o \in Offsets : /\ o \in Int /\ 0 <= o /\ o < SpaceSize /\ o # Nil
                              /\ sg[o].off \in Offsets /\ sg[o].size \in Nat
                              /\ sg[o].size <= SpaceSize
                              /\ sg[o].prev \in Link /\ sg[o].next \in Link
  <1> TAKE o \in Offsets
  <1>1. o \in Int /\ 0 <= o /\ o < SpaceSize /\ o # Nil
    BY SpaceAssumption DEF Offsets, Nil
  <1>2. sg[o] \in [off : Offsets, size : 0..SpaceSize, prev : Link, next : Link]
    BY DEF Segs
  <1>3. /\ sg[o].off \in Offsets /\ sg[o].size \in 0..SpaceSize
        /\ sg[o].prev \in Link /\ sg[o].next \in Link
    BY <1>2
  <1>4. sg[o].size \in Nat /\ sg[o].size <= SpaceSize
    BY <1>3, SpaceAssumption
  <1> QED
    BY <1>1, <1>3, <1>4

LEMMA TiledSame ==
    ASSUME NEW sg \in Segs, NEW sg2 \in Segs, NEW A \in SUBSET Offsets,
           Tiled(sg, A), SameSizes(sg, sg2, A)
    PROVE  Tiled(sg2, A)
  BY DEF Tiled, SameSizes

LEMMA TiledSplit ==
    ASSUME NEW sg \in Segs, NEW sg2 \in Segs, NEW A \in SUBSET Offsets,
           NEW o \in A, NEW at,
           Tiled(sg, A), SplitSizes(sg, sg2, A, o, at)
    PROVE  at \notin A /\ Tiled(sg2, A \cup {at})
  <1>1. /\ \A q \in A : q \in Int /\ sg[q].size \in Int
        /\ at \in Int /\ SpaceSize \in Int
        /\ \A c \in Offsets : c \in Int
    BY SegTypes, SpaceAssumption DEF SplitSizes
  <1>2. at \notin A
    BY <1>1 DEF Tiled, SplitSizes
  <1>3. \A q \in A \ {o} : sg2[q].off = q /\ sg2[q].size = sg[q].size
    BY DEF Tiled, SplitSizes, SameSizes
  <1>4. \A q \in A \cup {at} : sg2[q].off = q /\ sg2[q].size > 0
    BY <1>1, <1>3 DEF Tiled, SplitSizes
  <1>5. \A q \in A \cup {at} : q + sg2[q].size <= SpaceSize
    BY <1>1, <1>3 DEF Tiled, SplitSizes
  <1>6. \A p, q \in A \cup {at} : p < q => p + sg2[p].size <= q
    BY <1>1, <1>3 DEF Tiled, SplitSizes
  <1>7. ASSUME NEW c \in Offsets
        PROVE  \E q \in A \cup {at} : q <= c /\ c < q + sg2[q].size
    <2>1. PICK q \in A : q <= c /\ c < q + sg[q].size
      BY DEF Tiled
    <2>2. c \in Int /\ q \in Int /\ sg[q].size \in Int
      BY <1>1
    <2>3. CASE q # o
      BY <1>3, <2>1, <2>3
    <2>4. CASE q = o /\ c < at
      BY <1>1, <2>1, <2>2, <2>4 DEF SplitSizes
    <2>5. CASE q = o /\ ~(c < at)
      BY <1>1, <2>1, <2>2, <2>5 DEF SplitSizes
    <2> QED BY <2>3, <2>4, <2>5
  <1> QED
    BY <1>2, <1>4, <1>5, <1>6, <1>7 DEF Tiled

LEMMA TiledMerge ==
    ASSUME NEW sg \in Segs, NEW sg2 \in Segs, NEW A \in SUBSET Offsets,
           NEW p \in A, NEW o \in A,
           Tiled(sg, A), MergedSizes(sg, sg2, A, p, o)
    PROVE  Tiled(sg2, A \ {o})
  <1>1. /\ \A q \in A : q \in Int /\ sg[q].size \in Int
        /\ SpaceSize \in Int
        /\ \A c \in Offsets : c \in Int
    BY SegTypes, SpaceAssumption
  <1>2. p < o
    BY <1>1 DEF Tiled, MergedSizes
  <1>3. \A q \in A \ {p, o} : sg2[q].off = q /\ sg2[q].size = sg[q].size
    BY DEF Tiled, MergedSizes, SameSizes
  <1>4. \A q \in A \ {o} : sg2[q].off = q /\ sg2[q].size > 0
    BY <1>1, <1>3 DEF Tiled, MergedSizes
  <1>5. \A q \in A \ {o} : q + sg2[q].size <= SpaceSize
    BY <1>1, <1>3 DEF Tiled, MergedSizes
  <1>6. \A x, q \in A \ {o} : x < q => x + sg2[x].size <= q
    BY <1>1, <1>2, <1>3 DEF Tiled, MergedSizes
  <1>7. ASSUME NEW c \in Offsets
        PROVE  \E q \in A \ {o} : q <= c /\ c < q + sg2[q].size
    <2>1. PICK q \in A : q <= c /\ c < q + sg[q].size
      BY DEF Tiled
    <2> QED BY <1>1, <1>2, <1>3, <2>1, SMTT(30) DEF Tiled, MergedSizes
  <1> QED
    BY <1>4, <1>5, <1>6, <1>7 DEF Tiled

LEMMA ApartSame ==
    ASSUME NEW sg, NEW sg2, NEW I, NEW J \in SUBSET I,
           Apart(sg, I), SameSizes(sg, sg2, J)
    PROVE  Apart(sg2, J)
  BY DEF Apart, SameSizes

LEMMA OwnedSame ==
    ASSUME NEW sg, NEW sg2, NEW U, NEW hd,
           Owned(sg, U, hd), SameSizes(sg, sg2, U)
    PROVE  Owned(sg2, U, hd)
  BY DEF Owned, SameSizes

\* An index more has the segment o.
LEMMA OwnedMore ==
    ASSUME NEW sg, NEW sg2, NEW U \in SUBSET Offsets, NEW hd \in Headers,
           NEW n \in Names, NEW o \in Offsets \ U,
           Owned(sg, U, hd), SameSizes(sg, sg2, U),
           sg2[o].size >= needSize(n), hd[n] = Nil
    PROVE  Owned(sg2, U \cup {o}, [hd EXCEPT ![n] = o])
  <1> DEFINE hd2 == [hd EXCEPT ![n] = o]
  <1>1. /\ hd2[n] = o
        /\ \A k \in Names : k # n => hd2[k] = hd[k]
    BY DEF Headers
  <1>2. Nil \notin Offsets
    BY SpaceAssumption DEF Offsets, Nil
  <1>3. \A k \in Names : hd2[k] # Nil =>
            hd2[k] \in U \cup {o} /\ sg2[hd2[k]].size >= needSize(k)
    BY <1>1 DEF Owned, SameSizes
  <1>4. \A j, k \in Names : hd2[j] # Nil /\ hd2[j] = hd2[k] => j = k
    BY <1>1 DEF Owned
  <1>5. \A q \in U \cup {o} : \E k \in Names : hd2[k] = q
    BY <1>1, <1>2 DEF Owned
  <1> QED
    BY <1>3, <1>4, <1>5 DEF Owned

\* An index less leaves its segment.
LEMMA OwnedLess ==
    ASSUME NEW sg, NEW sg2, NEW U \in SUBSET Offsets, NEW hd \in Headers,
           NEW n \in Names, hd[n] # Nil,
           Owned(sg, U, hd), SameSizes(sg, sg2, U \ {hd[n]})
    PROVE  Owned(sg2, U \ {hd[n]}, [hd EXCEPT ![n] = Nil])
  <1> DEFINE hd2 == [hd EXCEPT ![n] = Nil]
  <1>1. /\ hd2[n] = Nil
        /\ \A k \in Names : k # n => hd2[k] = hd[k]
    BY DEF Headers, Link
  <1>2. \A k \in Names : hd2[k] # Nil =>
            hd2[k] \in U \ {hd[n]} /\ sg2[hd2[k]].size >= needSize(k)
    BY <1>1 DEF Owned, SameSizes
  <1>3. \A j, k \in Names : hd2[j] # Nil /\ hd2[j] = hd2[k] => j = k
    BY <1>1 DEF Owned
  <1>4. \A q \in U \ {hd[n]} : \E k \in Names : hd2[k] = q
    BY <1>1 DEF Owned
  <1> QED
    BY <1>2, <1>3, <1>4 DEF Owned

-----------------------------------------------------------------------------
(* The parts of an operation: what each does to both lists.                *)

Mems == [seg : Segs, info : Infos]

Lists(m, I, U, rank) ==
    /\ m \in Mems
    /\ I \subseteq Offsets /\ U \subseteq Offsets /\ I \cap U = {}
    /\ List(m.seg, I, Address, m.info.fIdle, m.info.lIdle)
    /\ List(m.seg, U, rank, m.info.fUsed, m.info.lUsed)

Mem == [seg |-> seg, info |-> info]

LEMMA MemTypes ==
    ASSUME NEW m \in Mems
    PROVE  /\ m.seg \in Segs /\ m.info \in Infos
           /\ m.info.fIdle \in Link /\ m.info.lIdle \in Link
           /\ m.info.fUsed \in Link /\ m.info.lUsed \in Link
  BY DEF Mems, Infos

LEMMA AddressRank == Address \in Ranks
  BY SpaceAssumption DEF Address, Ranks, Offsets

LEMMA OffsetTypes ==
    /\ Nil \notin Offsets /\ Nil \in Link
    /\ \A o \in Offsets : o \in Link /\ o \in Int /\ Address[o] = o
  BY SpaceAssumption DEF Nil, Offsets, Link, Address

\* The fields of a segment one by one.
Fields(s, off, size, prev, next) ==
    s.off = off /\ s.size = size /\ s.prev = prev /\ s.next = next

LEMMA AppendUsedFields ==
    ASSUME NEW m \in Mems, NEW o \in Offsets, m.info.lUsed # o
    PROVE  LET k == AppendUsed(m, o)
               last == m.info.lUsed
           IN  /\ k \in Mems
               /\ \A q \in Offsets : Fields(k.seg[q], m.seg[q].off, m.seg[q].size,
                      IF q = o THEN last ELSE m.seg[q].prev,
                      IF q = o THEN Nil ELSE IF q = last THEN o
                                             ELSE m.seg[q].next)
               /\ k.info.fIdle = m.info.fIdle /\ k.info.lIdle = m.info.lIdle
               /\ k.info.lUsed = o
               /\ k.info.fUsed = IF last = Nil THEN o ELSE m.info.fUsed
  <1> DEFINE k == AppendUsed(m, o)
             last == m.info.lUsed
             sg == m.seg
             own == [sg EXCEPT ![o].prev = last, ![o].next = Nil]
  <1>1. /\ sg \in Segs /\ m.info \in Infos /\ last \in Link
    BY MemTypes
  <1>2. own \in Segs
    BY <1>1, OffsetTypes DEF Segs
  <1>3. \A q \in Offsets : Fields(own[q], sg[q].off, sg[q].size,
            IF q = o THEN last ELSE sg[q].prev,
            IF q = o THEN Nil ELSE sg[q].next)
    BY <1>1 DEF Segs, Fields
  <1>4. k.seg = IF last = Nil THEN own ELSE [own EXCEPT ![last].next = o]
    BY DEF AppendUsed
  <1>5. k.info = [m.info EXCEPT !.lUsed = o,
                                !.fUsed = IF last = Nil THEN o ELSE @]
    BY DEF AppendUsed
  <1>6. /\ k.seg \in Segs
        /\ \A q \in Offsets : Fields(k.seg[q], sg[q].off, sg[q].size,
               IF q = o THEN last ELSE sg[q].prev,
               IF q = o THEN Nil ELSE IF q = last THEN o ELSE sg[q].next)
    <2> HIDE DEF k, own
    <2>1. CASE last = Nil
      BY <1>2, <1>3, <1>4, <2>1, OffsetTypes
    <2>2. CASE last # Nil
      <3>1. last \in Offsets
        BY <1>1, <2>2 DEF Link
      <3>2. k.seg = [own EXCEPT ![last].next = o]
        BY <1>4, <2>2
      <3>3. k.seg \in Segs
        BY <1>2, <3>1, <3>2, OffsetTypes DEF Segs
      <3>4. \A q \in Offsets : Fields(k.seg[q], own[q].off, own[q].size,
                own[q].prev, IF q = last THEN o ELSE own[q].next)
        BY <1>2, <3>1, <3>2 DEF Segs, Fields
      <3> QED BY <1>3, <3>3, <3>4 DEF Fields
    <2> QED BY <2>1, <2>2
  <1>7. /\ k.info \in Infos
        /\ k.info.fIdle = m.info.fIdle /\ k.info.lIdle = m.info.lIdle
        /\ k.info.lUsed = o
        /\ k.info.fUsed = IF last = Nil THEN o ELSE m.info.fUsed
    BY <1>1, <1>5, OffsetTypes DEF Infos
  <1>8. k = [seg |-> k.seg, info |-> k.info]
    BY DEF AppendUsed
  <1> QED
    BY <1>6, <1>7, <1>8 DEF Mems

\* AppendUsed appends to the used list.
LEMMA AppendUsedLists ==
    ASSUME NEW m, NEW I, NEW U, NEW rank \in Ranks, NEW o \in Offsets,
           Lists(m, I, U, rank), o \notin I, o \notin U
    PROVE  /\ \E rank2 \in Ranks :
                  Lists(AppendUsed(m, o), I, U \cup {o}, rank2)
           /\ SameSizes(m.seg, AppendUsed(m, o).seg, Offsets)
  <1> DEFINE k == AppendUsed(m, o)
             last == m.info.lUsed
  <1>1. /\ m \in Mems /\ m.seg \in Segs /\ last \in U \cup {Nil}
        /\ I \in SUBSET Offsets /\ U \in SUBSET Offsets
        /\ List(m.seg, I, Address, m.info.fIdle, m.info.lIdle)
        /\ List(m.seg, U, rank, m.info.fUsed, m.info.lUsed)
    BY MemTypes DEF Lists, List, Ends
  <1>2. last # o
    BY <1>1, OffsetTypes
  <1>3. /\ k \in Mems
        /\ \A q \in Offsets : Fields(k.seg[q], m.seg[q].off, m.seg[q].size,
               IF q = o THEN last ELSE m.seg[q].prev,
               IF q = o THEN Nil ELSE IF q = last THEN o ELSE m.seg[q].next)
        /\ k.info.fIdle = m.info.fIdle /\ k.info.lIdle = m.info.lIdle
        /\ k.info.lUsed = o
        /\ k.info.fUsed = IF last = Nil THEN o ELSE m.info.fUsed
    BY <1>1, <1>2, AppendUsedFields
  <1> HIDE DEF k
  <1>4. k.seg \in Segs
    BY <1>3, MemTypes
  <1>5. SameLinks(m.seg, k.seg, I)
    BY <1>1, <1>3, OffsetTypes DEF SameLinks, Fields, Lists
  <1>6. AppendedLinks(m.seg, k.seg, U, last, o)
    BY <1>1, <1>3 DEF AppendedLinks, Fields
  <1>7. SameSizes(m.seg, k.seg, Offsets)
    BY <1>3 DEF SameSizes, Fields
  <1>8. PICK rank2 \in Ranks : RankedBehind(rank, rank2, U, o)
    <2> DEFINE top == IF U = {} THEN 0 ELSE rank[last] + 1
               new == [rank EXCEPT ![o] = top]
    <2>1. \A q \in Offsets : rank[q] \in Nat
      BY DEF Ranks
    <2>2. \A q \in U : last \in U /\ rank[q] <= rank[last]
      BY <1>1, <2>1, OffsetTypes DEF List, Ends, NextRight, Ranked
    <2>3. top \in Nat /\ \A q \in U : rank[q] < top
      BY <1>1, <2>1, <2>2
    <2>4. new \in Ranks
      BY <2>3 DEF Ranks
    <2>5. RankedBehind(rank, new, U, o)
      BY <1>1, <2>3 DEF RankedBehind, Ranks
    <2> QED BY <2>4, <2>5
  <1>9. List(k.seg, I, Address, k.info.fIdle, k.info.lIdle)
    BY <1>1, <1>3, <1>4, <1>5, ListSame, AddressRank
  <1>10. List(k.seg, U \cup {o}, rank2, k.info.fUsed, k.info.lUsed)
    <2>1. List(k.seg, U \cup {o}, rank2, k.info.fUsed, o)
      BY <1>1, <1>3, <1>4, <1>6, <1>8, ListAppend, ZenonT(30)
    <2> QED BY <1>3, <2>1
  <1>11. Lists(k, I, U \cup {o}, rank2)
    BY <1>1, <1>3, <1>9, <1>10 DEF Lists
  <1> QED
    BY <1>7, <1>11 DEF k

\* Unlinking o by way of its neighbours.
UnlinkedFields(sg, sg2, o) ==
    \A q \in Offsets :
        Fields(sg2[q], sg[q].off, sg[q].size,
               IF q # sg[o].prev /\ q = sg[o].next THEN sg[o].prev
                                                   ELSE sg[q].prev,
               IF q = sg[o].prev THEN sg[o].next ELSE sg[q].next)

LEMMA UnlinkedRemoves ==
    ASSUME NEW sg \in Segs, NEW sg2 \in Segs, NEW S \in SUBSET Offsets,
           NEW rank \in Ranks, NEW first, NEW last, NEW o \in S,
           List(sg, S, rank, first, last), UnlinkedFields(sg, sg2, o)
    PROVE  /\ RemovedLinks(sg, sg2, S, o)
           /\ \A T \in SUBSET Offsets : T \cap S = {} => SameLinks(sg, sg2, T)
           /\ SameSizes(sg, sg2, Offsets)
           /\ sg2[o].prev = sg[o].prev /\ sg2[o].next = sg[o].next
  <1> DEFINE prev == sg[o].prev
             next == sg[o].next
  <1>1. /\ \A q \in S : rank[q] \in Nat
        /\ Nil \notin S
    BY OffsetTypes DEF Ranks
  <1>2. /\ prev \in S \cup {Nil} /\ next \in S \cup {Nil}
        /\ prev # o /\ next # o
        /\ \A q \in S : (sg[q].next = o <=> q = prev)
                        /\ (sg[q].prev = o <=> q = next)
    BY <1>1 DEF List, Ends, NextRight, PrevRight
  <1>3. prev \in S => prev # next
    BY <1>1, <1>2 DEF List, NextRight, PrevRight
  <1>4. RemovedLinks(sg, sg2, S, o)
    BY <1>1, <1>2, <1>3 DEF RemovedLinks, UnlinkedFields, Fields
  <1>5. \A T \in SUBSET Offsets : T \cap S = {} => SameLinks(sg, sg2, T)
    BY <1>2, OffsetTypes DEF SameLinks, UnlinkedFields, Fields
  <1>6. SameSizes(sg, sg2, Offsets)
    BY DEF SameSizes, UnlinkedFields, Fields
  <1> QED
    BY <1>2, <1>4, <1>5, <1>6 DEF UnlinkedFields, Fields

LEMMA TakeWholeFields ==
    ASSUME Mem \in Mems, NEW o \in Offsets
    PROVE  LET k == TakeWhole(o)
           IN  /\ k \in Mems
               /\ UnlinkedFields(seg, k.seg, o)
               /\ k.info.fUsed = info.fUsed /\ k.info.lUsed = info.lUsed
               /\ k.info.fIdle = IF seg[o].prev = Nil THEN seg[o].next
                                                      ELSE info.fIdle
               /\ k.info.lIdle = IF seg[o].next = Nil THEN seg[o].prev
                                                      ELSE info.lIdle
  <1> DEFINE k == TakeWhole(o)
             prev == seg[o].prev
             next == seg[o].next
  <1>1. seg \in Segs /\ info \in Infos
    BY DEF Mem, Mems
  <1>2. prev \in Link /\ next \in Link
    BY <1>1, SegTypes
  <1>3. k.seg = [q \in Offsets |->
                     IF q = prev THEN [seg[q] EXCEPT !.next = next]
                     ELSE IF q = next THEN [seg[q] EXCEPT !.prev = prev]
                     ELSE seg[q]]
    BY DEF TakeWhole
  <1>4. k.info = [info EXCEPT !.fIdle = IF prev = Nil THEN next ELSE @,
                              !.lIdle = IF next = Nil THEN prev ELSE @]
    BY DEF TakeWhole
  <1>5. k = [seg |-> k.seg, info |-> k.info]
    BY DEF TakeWhole
  <1> HIDE DEF k
  <1>6. k.seg \in Segs
    BY <1>1, <1>2, <1>3 DEF Segs
  <1>7. UnlinkedFields(seg, k.seg, o)
    BY <1>1, <1>3 DEF UnlinkedFields, Fields, Segs
  <1>8. /\ k.info \in Infos
        /\ k.info.fUsed = info.fUsed /\ k.info.lUsed = info.lUsed
        /\ k.info.fIdle = IF prev = Nil THEN next ELSE info.fIdle
        /\ k.info.lIdle = IF next = Nil THEN prev ELSE info.lIdle
    BY <1>1, <1>2, <1>4 DEF Infos
  <1> QED
    BY <1>5, <1>6, <1>7, <1>8 DEF Mems, k

\* TakeWhole takes a segment out of the idle list.
LEMMA TakeWholeLists ==
    ASSUME NEW I, NEW U, NEW rank \in Ranks, NEW o \in I,
           Lists(Mem, I, U, rank)
    PROVE  /\ Lists(TakeWhole(o), I \ {o}, U, rank)
           /\ SameSizes(seg, TakeWhole(o).seg, Offsets)
  <1> DEFINE k == TakeWhole(o)
  <1>1. /\ Mem \in Mems /\ seg \in Segs /\ o \in Offsets
        /\ I \in SUBSET Offsets /\ U \in SUBSET Offsets /\ U \cap I = {}
        /\ List(seg, I, Address, info.fIdle, info.lIdle)
        /\ List(seg, U, rank, info.fUsed, info.lUsed)
    BY DEF Lists, Mem, Mems
  <1>2. /\ k \in Mems
        /\ UnlinkedFields(seg, k.seg, o)
        /\ k.info.fUsed = info.fUsed /\ k.info.lUsed = info.lUsed
        /\ k.info.fIdle = IF seg[o].prev = Nil THEN seg[o].next ELSE info.fIdle
        /\ k.info.lIdle = IF seg[o].next = Nil THEN seg[o].prev ELSE info.lIdle
    BY <1>1, TakeWholeFields
  <1> HIDE DEF k
  <1>3. k.seg \in Segs
    BY <1>2, MemTypes
  <1>4. /\ RemovedLinks(seg, k.seg, I, o) /\ SameLinks(seg, k.seg, U)
        /\ SameSizes(seg, k.seg, Offsets)
    BY <1>1, <1>2, <1>3, UnlinkedRemoves, AddressRank
  <1>5. RemovedEnds(seg, o, info.fIdle, info.lIdle, k.info.fIdle, k.info.lIdle)
    BY <1>1, <1>2 DEF List, NextRight, PrevRight, RemovedEnds
  <1>6. List(k.seg, I \ {o}, Address, k.info.fIdle, k.info.lIdle)
    BY <1>1, <1>3, <1>4, <1>5, ListRemove, AddressRank
  <1>7. List(k.seg, U, rank, k.info.fUsed, k.info.lUsed)
    BY <1>1, <1>2, <1>3, <1>4, ListSame
  <1> QED
    BY <1>1, <1>2, <1>4, <1>6, <1>7 DEF Lists, k

LEMMA UnlinkFields ==
    ASSUME Mem \in Mems, NEW o \in Offsets,
           o = info.fUsed <=> seg[o].prev = Nil,
           o = info.lUsed <=> seg[o].next = Nil
    PROVE  LET k == Unlink(o)
           IN  /\ k \in Mems
               /\ UnlinkedFields(seg, k.seg, o)
               /\ k.info.fIdle = info.fIdle /\ k.info.lIdle = info.lIdle
               /\ k.info.fUsed = IF o = info.fUsed THEN seg[o].next
                                                   ELSE info.fUsed
               /\ k.info.lUsed = IF o = info.lUsed THEN seg[o].prev
                                                   ELSE info.lUsed
  <1> DEFINE k == Unlink(o)
             prev == seg[o].prev
             next == seg[o].next
  <1>1. seg \in Segs /\ info \in Infos
    BY DEF Mem, Mems
  <1>2. prev \in Link /\ next \in Link
    BY <1>1, SegTypes
  <1>3. k.seg = [q \in Offsets |->
                     IF o # info.fUsed /\ q = prev
                     THEN [seg[q] EXCEPT !.next = next]
                     ELSE IF o # info.lUsed /\ q = next
                     THEN [seg[q] EXCEPT !.prev = prev]
                     ELSE seg[q]]
    BY DEF Unlink
  <1>4. k.info = [info EXCEPT !.fUsed = IF o = info.fUsed THEN next ELSE @,
                              !.lUsed = IF o = info.lUsed THEN prev ELSE @]
    BY DEF Unlink
  <1>5. k = [seg |-> k.seg, info |-> k.info]
    BY DEF Unlink
  <1> HIDE DEF k
  <1>6. k.seg \in Segs
    BY <1>1, <1>2, <1>3 DEF Segs
  <1>7. UnlinkedFields(seg, k.seg, o)
    BY <1>1, <1>3, OffsetTypes DEF UnlinkedFields, Fields, Segs
  <1>8. /\ k.info \in Infos
        /\ k.info.fIdle = info.fIdle /\ k.info.lIdle = info.lIdle
        /\ k.info.fUsed = IF o = info.fUsed THEN next ELSE info.fUsed
        /\ k.info.lUsed = IF o = info.lUsed THEN prev ELSE info.lUsed
    BY <1>1, <1>2, <1>4 DEF Infos
  <1> QED
    BY <1>5, <1>6, <1>7, <1>8 DEF Mems, k

\* Unlink takes a segment out of the used list, whose own header stays.
LEMMA UnlinkLists ==
    ASSUME NEW I, NEW U, NEW rank \in Ranks, NEW o \in U,
           Lists(Mem, I, U, rank)
    PROVE  /\ Lists(Unlink(o), I, U \ {o}, rank)
           /\ SameSizes(seg, Unlink(o).seg, Offsets)
           /\ SameLinks(seg, Unlink(o).seg, I)
           /\ Unlink(o).seg[o].next = seg[o].next
           /\ Unlink(o).info.fIdle = info.fIdle
           /\ Unlink(o).info.lIdle = info.lIdle
  <1> DEFINE k == Unlink(o)
  <1>1. /\ Mem \in Mems /\ seg \in Segs /\ o \in Offsets
        /\ I \in SUBSET Offsets /\ U \in SUBSET Offsets /\ I \cap U = {}
        /\ List(seg, I, Address, info.fIdle, info.lIdle)
        /\ List(seg, U, rank, info.fUsed, info.lUsed)
    BY DEF Lists, Mem, Mems
  <1>2. /\ o = info.fUsed <=> seg[o].prev = Nil
        /\ o = info.lUsed <=> seg[o].next = Nil
    BY <1>1 DEF List, NextRight, PrevRight
  <1>3. /\ k \in Mems
        /\ UnlinkedFields(seg, k.seg, o)
        /\ k.info.fIdle = info.fIdle /\ k.info.lIdle = info.lIdle
        /\ k.info.fUsed = IF o = info.fUsed THEN seg[o].next ELSE info.fUsed
        /\ k.info.lUsed = IF o = info.lUsed THEN seg[o].prev ELSE info.lUsed
    BY <1>1, <1>2, UnlinkFields
  <1> HIDE DEF k
  <1>4. k.seg \in Segs
    BY <1>3, MemTypes
  <1>5. /\ RemovedLinks(seg, k.seg, U, o) /\ SameLinks(seg, k.seg, I)
        /\ SameSizes(seg, k.seg, Offsets) /\ k.seg[o].next = seg[o].next
    BY <1>1, <1>3, <1>4, UnlinkedRemoves
  <1>6. List(k.seg, U \ {o}, rank, k.info.fUsed, k.info.lUsed)
    <2>1. RemovedEnds(seg, o, info.fUsed, info.lUsed,
                      k.info.fUsed, k.info.lUsed)
      BY <1>3 DEF RemovedEnds
    <2> QED BY <1>1, <1>4, <1>5, <2>1, ListRemove
  <1>7. List(k.seg, I, Address, k.info.fIdle, k.info.lIdle)
    BY <1>1, <1>3, <1>4, <1>5, ListSame, AddressRank
  <1> QED
    BY <1>1, <1>3, <1>5, <1>6, <1>7 DEF Lists, k

\* The last n cells of o, from at on, and not all of it.
CutAt(o, n, at) ==
    n \in Nat /\ 0 < n /\ n < seg[o].size /\ at = o + seg[o].size - n

LEMMA SplitLists ==
    ASSUME NEW I, NEW U, NEW rank \in Ranks, NEW o \in I, NEW n, NEW at,
           Lists(Mem, I, U, rank), Tiled(seg, I \cup U), CutAt(o, n, at)
    PROVE  /\ Lists(Split(o, n), I, U, rank)
           /\ SplitSizes(seg, Split(o, n).seg, I \cup U, o, at)
           /\ End(o) - n = at
  <1> USE DEF CutAt
  <1> DEFINE k == Split(o, n)
             left == seg[o].size - n
             cut == [seg EXCEPT ![o].size = left]
  <1>1. /\ Mem \in Mems /\ seg \in Segs /\ info \in Infos /\ o \in Offsets
        /\ I \in SUBSET Offsets /\ U \in SUBSET Offsets /\ U \cap I = {}
        /\ List(seg, I, Address, info.fIdle, info.lIdle)
        /\ List(seg, U, rank, info.fUsed, info.lUsed)
    BY DEF Lists, Mem, Mems
  <1>2. /\ o \in Int /\ 0 <= o /\ seg[o].size \in Nat
        /\ seg[o].size <= SpaceSize /\ SpaceSize \in Nat
    BY <1>1, SegTypes, SpaceAssumption
  <1>3. seg[o].off = o /\ o + seg[o].size <= SpaceSize
    BY DEF Tiled
  <1>4. /\ at \in Offsets /\ o < at /\ at < o + seg[o].size
        /\ at = o + left /\ left = at - o
        /\ left \in 0..SpaceSize /\ n \in 0..SpaceSize
        /\ n = o + seg[o].size - at
    BY <1>2, <1>3 DEF Offsets
  <1>5. End(o) - n = at
    BY <1>2, <1>3 DEF End
  <1>6. k.seg = [cut EXCEPT ![at] = [@ EXCEPT !.off = at, !.size = n]]
    BY <1>3, <1>4 DEF Split
  <1>7. k = [seg |-> k.seg, info |-> info]
    BY DEF Split
  <1> HIDE DEF k, left
  <1>8. cut \in Segs /\ \A q \in Offsets : Fields(cut[q], seg[q].off,
            IF q = o THEN left ELSE seg[q].size, seg[q].prev, seg[q].next)
    BY <1>1, <1>4 DEF Segs, Fields
  <1> HIDE DEF cut
  <1>9. k.seg \in Segs /\ \A q \in Offsets : Fields(k.seg[q],
            IF q = at THEN at ELSE cut[q].off,
            IF q = at THEN n ELSE cut[q].size, cut[q].prev, cut[q].next)
    <2> DEFINE Rec == [off : Offsets, size : 0..SpaceSize,
                       prev : Link, next : Link]
               cell == [cut[at] EXCEPT !.off = at, !.size = n]
    <2>1. cut \in [Offsets -> Rec] /\ cut[at] \in Rec
      BY <1>4, <1>8 DEF Segs
    <2>2. cell \in Rec
      BY <1>4, <2>1
    <2>3. Fields(cell, at, n, cut[at].prev, cut[at].next)
      BY <2>1 DEF Fields
    <2>4. k.seg = [cut EXCEPT ![at] = cell]
      BY <1>6
    <2> HIDE DEF cell, Rec
    <2>5. k.seg \in [Offsets -> Rec]
      BY <1>4, <2>1, <2>2, <2>4
    <2>6. \A q \in Offsets : k.seg[q] = IF q = at THEN cell ELSE cut[q]
      BY <1>4, <2>1, <2>4
    <2> QED BY <2>3, <2>5, <2>6 DEF Segs, Fields, Rec
  <1>10. SameLinks(seg, k.seg, I) /\ SameLinks(seg, k.seg, U)
    BY <1>1, <1>8, <1>9 DEF SameLinks, Fields
  <1>11. k.info = info /\ k \in Mems
    BY <1>1, <1>7, <1>9 DEF Mems
  <1>12. /\ List(k.seg, I, Address, k.info.fIdle, k.info.lIdle)
         /\ List(k.seg, U, rank, k.info.fUsed, k.info.lUsed)
    BY <1>1, <1>9, <1>10, <1>11, ListSame, AddressRank
  <1>13. Lists(k, I, U, rank)
    BY <1>1, <1>11, <1>12 DEF Lists
  <1>14. SplitSizes(seg, k.seg, I \cup U, o, at)
    <2>1. at \notin I \cup U
      <3>1. at \in Int /\ \A q \in I \cup U : q \in Int
        BY <1>1, <1>4, OffsetTypes
      <3> QED BY <1>2, <1>4, <3>1 DEF Tiled
    <2>2. SameSizes(seg, k.seg, (I \cup U) \ {o})
      BY <1>1, <1>8, <1>9, <2>1 DEF SameSizes, Fields
    <2>3. /\ k.seg[o].off = o /\ k.seg[o].size = left
          /\ k.seg[at].off = at /\ k.seg[at].size = n
      BY <1>1, <1>3, <1>4, <1>8, <1>9, <2>1 DEF Fields
    <2> QED BY <1>4, <2>2, <2>3 DEF SplitSizes
  <1> QED
    BY <1>5, <1>13, <1>14 DEF k

\* The array of an index lies inside its segment, and no segment begins there.
LEMMA ArrayInside ==
    ASSUME NEW sg \in Segs, NEW A \in SUBSET Offsets, NEW o \in A,
           NEW n \in Names, Tiled(sg, A), sg[o].size >= needSize(n)
    PROVE  A \cap (o + 1)..(o + HashSize[n]) = {}
  <1>1. \A q \in A : q \in Int /\ sg[q].size \in Int
    BY SegTypes
  <1>2. HashSize[n] \in Nat
    BY SpaceAssumption
  <1>3. ASSUME NEW q \in A, q \in (o + 1)..(o + HashSize[n]) PROVE FALSE
    <2>1. o < q /\ q <= o + HashSize[n]
      BY <1>1, <1>2, <1>3
    <2> QED BY <1>1, <1>2, <2>1 DEF Tiled, needSize
  <1> QED
    BY <1>3

\* Clearing an array disturbs neither list.
LEMMA ClearedLists ==
    ASSUME NEW m, NEW I, NEW U, NEW rank \in Ranks, NEW o, NEW n \in Names,
           Lists(m, I, U, rank),
           (I \cup U) \cap (o + 1)..(o + HashSize[n]) = {}
    PROVE  /\ Lists(initHash(m, o, n), I, U, rank)
           /\ SameSizes(m.seg, initHash(m, o, n).seg, I \cup U)
  <1> DEFINE k == initHash(m, o, n)
             C == (o + 1)..(o + HashSize[n])
  <1>1. /\ m \in Mems /\ m.seg \in Segs
        /\ I \in SUBSET Offsets /\ U \in SUBSET Offsets
        /\ List(m.seg, I, Address, m.info.fIdle, m.info.lIdle)
        /\ List(m.seg, U, rank, m.info.fUsed, m.info.lUsed)
    BY MemTypes DEF Lists
  <1>2. 0 \in Offsets /\ 0 \in 0..SpaceSize /\ 0 \in Link
    BY SpaceAssumption DEF Offsets, Link
  <1>3. /\ k.seg = [q \in Offsets |-> IF q \in C THEN Cleared ELSE m.seg[q]]
        /\ k.info = m.info
        /\ k \in Mems
    <2>1. [q \in Offsets |-> IF q \in C THEN Cleared ELSE m.seg[q]] \in Segs
      BY <1>1, <1>2 DEF Segs, Cleared
    <2> HIDE DEF C
    <2>2. k = [m EXCEPT !.seg =
                 [q \in Offsets |-> IF q \in C THEN Cleared ELSE m.seg[q]]]
      BY DEF initHash, C
    <2> HIDE DEF k
    <2> QED BY <1>1, <2>1, <2>2 DEF Mems
  <1> HIDE DEF k
  <1>4. \A q \in I \cup U : k.seg[q] = m.seg[q]
    BY <1>1, <1>3
  <1>5. SameLinks(m.seg, k.seg, I) /\ SameLinks(m.seg, k.seg, U)
    BY <1>4 DEF SameLinks
  <1>6. k.seg \in Segs
    BY <1>3, MemTypes
  <1>7. /\ List(k.seg, I, Address, k.info.fIdle, k.info.lIdle)
        /\ List(k.seg, U, rank, k.info.fUsed, k.info.lUsed)
    BY <1>1, <1>3, <1>5, <1>6, ListSame, AddressRank
  <1>8. SameSizes(m.seg, k.seg, I \cup U)
    BY <1>4 DEF SameSizes
  <1> QED
    BY <1>3, <1>7, <1>8 DEF Lists, k

-----------------------------------------------------------------------------
(* createHashIndex, initHashSeg                                            *)

LEMMA InvParts ==
    ASSUME NEW I, NEW U, NEW rank, Inv(seg, info, header, I, U, rank)
    PROVE  /\ Lists(Mem, I, U, rank) /\ seg \in Segs /\ info \in Infos
           /\ header \in Headers
           /\ I \in SUBSET Offsets /\ U \in SUBSET Offsets /\ I \cap U = {}
           /\ Tiled(seg, I \cup U) /\ Apart(seg, I) /\ Owned(seg, U, header)
           /\ List(seg, I, Address, info.fIdle, info.lIdle)
           /\ List(seg, U, rank, info.fUsed, info.lUsed)
  BY DEF Inv, Lists, Mem, Mems

LEMMA InvIntro ==
    ASSUME NEW m, NEW hd \in Headers, NEW I, NEW U, NEW rank,
           Lists(m, I, U, rank), Tiled(m.seg, I \cup U), Apart(m.seg, I),
           Owned(m.seg, U, hd)
    PROVE  Inv(m.seg, m.info, hd, I, U, rank)
  BY MemTypes DEF Inv, Lists

\* The end of createHashIndex, once the segment o is out of the idle list.
LEMMA CreateFinish ==
    ASSUME NEW m, NEW I, NEW U, NEW rank \in Ranks, NEW hd \in Headers,
           NEW n \in Names, NEW o \in Offsets,
           Lists(m, I, U, rank), o \notin I, o \notin U,
           Tiled(m.seg, I \cup U \cup {o}), Apart(m.seg, I),
           Owned(m.seg, U, hd), hd[n] = Nil, m.seg[o].size >= needSize(n)
    PROVE  \E rank2 \in Ranks :
               Inv(initHash(AppendUsed(m, o), o, n).seg,
                   initHash(AppendUsed(m, o), o, n).info,
                   [hd EXCEPT ![n] = o], I, U \cup {o}, rank2)
  <1> DEFINE k == AppendUsed(m, o)
             z == initHash(k, o, n)
             A == I \cup (U \cup {o})
             hd2 == [hd EXCEPT ![n] = o]
  <1>1. PICK rank2 \in Ranks : Lists(k, I, U \cup {o}, rank2)
    BY AppendUsedLists
  <1>2. SameSizes(m.seg, k.seg, Offsets)
    BY AppendUsedLists
  <1> HIDE DEF k
  <1>3. /\ m.seg \in Segs /\ k.seg \in Segs
        /\ I \in SUBSET Offsets /\ U \in SUBSET Offsets /\ A \in SUBSET Offsets
    BY <1>1, MemTypes DEF Lists
  <1>4. Tiled(m.seg, A)
    <2>1. I \cup U \cup {o} = A
      OBVIOUS
    <2> QED BY <2>1
  <1> HIDE DEF A
  <1>5. SameSizes(m.seg, k.seg, A)
    BY <1>2, <1>3 DEF SameSizes
  <1>6. Tiled(k.seg, A)
    BY <1>3, <1>4, <1>5, TiledSame
  <1>7. o \in A /\ k.seg[o].size >= needSize(n)
    BY <1>5 DEF SameSizes, A
  <1>8. A \cap (o + 1)..(o + HashSize[n]) = {}
    BY <1>3, <1>6, <1>7, ArrayInside
  <1>9. Lists(z, I, U \cup {o}, rank2) /\ SameSizes(k.seg, z.seg, A)
    BY <1>1, <1>8, ClearedLists DEF A
  <1> HIDE DEF z
  <1>10. z.seg \in Segs
    BY <1>9, MemTypes DEF Lists
  <1>11. Tiled(z.seg, A)
    BY <1>3, <1>6, <1>9, <1>10, TiledSame
  <1>12. /\ SameSizes(m.seg, z.seg, I) /\ SameSizes(m.seg, z.seg, U)
         /\ z.seg[o].size >= needSize(n)
    BY <1>5, <1>7, <1>9 DEF SameSizes, A
  <1>13. Apart(z.seg, I)
    BY <1>12, ApartSame
  <1>14. Owned(z.seg, U \cup {o}, hd2)
    BY <1>3, <1>12, OwnedMore
  <1>15. hd2 \in Headers
    BY OffsetTypes DEF Headers
  <1>16. Inv(z.seg, z.info, hd2, I, U \cup {o}, rank2)
    BY <1>9, <1>11, <1>13, <1>14, <1>15, InvIntro DEF A
  <1> QED
    BY <1>16 DEF z, k

\* What createHashIndex finds is an idle segment that is large enough.
LEMMA FitFound ==
    ASSUME NEW I, NEW U, NEW rank, Inv(seg, info, header, I, U, rank),
           NEW n, NEW o \in Fit(n)
    PROVE  o \in I /\ seg[o].size >= needSize(n)
  <1> DEFINE wanted == {q \in Offsets : seg[q].size >= needSize(n)}
  <1>1. o \in Search(info.fIdle, wanted)
    BY DEF Fit
  <1>2. wanted \in SUBSET Offsets
    OBVIOUS
  <1>3. o \in I /\ o \in wanted
    <2> HIDE DEF wanted
    <2>1. /\ I \in SUBSET Offsets
          /\ List(seg, I, Address, info.fIdle, info.lIdle)
      BY InvParts
    <2> QED BY <1>1, <1>2, <2>1, FoundIsFirst
  <1> QED
    BY <1>3

LEMMA CreateKeepsInv ==
    ASSUME NEW I, NEW U, NEW rank \in Ranks,
           Inv(seg, info, header, I, U, rank),
           NEW n \in Names, createHashIndex(n)
    PROVE  IInv'
  <1>1. PICK o \in Fit(n) :
            LET whole == seg[o].size < needSize(n) + 2
                at == IF whole THEN o ELSE End(o) - needSize(n)
                m == initHash(AppendUsed(IF whole THEN TakeWhole(o)
                                                  ELSE Split(o, needSize(n)), at),
                              at, n)
            IN  /\ header[n] = Nil
                /\ seg' = m.seg /\ info' = m.info
                /\ header' = [header EXCEPT ![n] = at]
    BY DEF createHashIndex
  <1>2. o \in I /\ seg[o].size >= needSize(n)
    BY FitFound
  <1>3. /\ Lists(Mem, I, U, rank) /\ seg \in Segs /\ header \in Headers
        /\ I \in SUBSET Offsets /\ U \in SUBSET Offsets /\ I \cap U = {}
        /\ Tiled(seg, I \cup U) /\ Apart(seg, I) /\ Owned(seg, U, header)
        /\ o \in Offsets
    BY <1>2, InvParts
  <1>4. /\ needSize(n) \in Nat /\ 0 < needSize(n)
        /\ seg[o].size \in Nat /\ o \in Int
    BY <1>3, SpaceAssumption, SegTypes DEF needSize
  <1>5. CASE seg[o].size < needSize(n) + 2
    <2> DEFINE m == TakeWhole(o)
               z == initHash(AppendUsed(m, o), o, n)
    <2>1. /\ header[n] = Nil /\ seg' = z.seg /\ info' = z.info
          /\ header' = [header EXCEPT ![n] = o]
      BY <1>1, <1>5
    <2>2. Lists(m, I \ {o}, U, rank) /\ SameSizes(seg, m.seg, Offsets)
      BY <1>2, <1>3, TakeWholeLists
    <2> HIDE DEF m
    <2>3. m.seg \in Segs
      BY <2>2, MemTypes DEF Lists
    <2>4. /\ SameSizes(seg, m.seg, I \cup U) /\ SameSizes(seg, m.seg, I \ {o})
          /\ SameSizes(seg, m.seg, U) /\ m.seg[o].size = seg[o].size
      BY <1>3, <2>2 DEF SameSizes
    <2>5. Tiled(m.seg, I \cup U)
      BY <1>3, <2>3, <2>4, TiledSame
    <2>6. (I \ {o}) \cup U \cup {o} = I \cup U
      BY <1>2
    <2>7. Tiled(m.seg, (I \ {o}) \cup U \cup {o})
      BY <2>5, <2>6
    <2>8. I \ {o} \in SUBSET I
      OBVIOUS
    <2>9. Apart(m.seg, I \ {o})
      BY <1>3, <2>4, <2>8, ApartSame
    <2>10. Owned(m.seg, U, header)
      BY <1>3, <2>4, OwnedSame
    <2>11. o \notin I \ {o} /\ o \notin U /\ m.seg[o].size >= needSize(n)
      BY <1>2, <1>3, <2>4
    <2>12. \E rank2 \in Ranks :
               Inv(z.seg, z.info, [header EXCEPT ![n] = o],
                   I \ {o}, U \cup {o}, rank2)
      BY <1>3, <2>1, <2>2, <2>7, <2>9, <2>10, <2>11, CreateFinish
    <2> HIDE DEF z
    <2>13. I \ {o} \in SUBSET Offsets /\ U \cup {o} \in SUBSET Offsets
      BY <1>3
    <2> QED
      BY <2>1, <2>12, <2>13 DEF IInv
  <1>6. CASE ~(seg[o].size < needSize(n) + 2)
    <2> DEFINE at == o + seg[o].size - needSize(n)
               m == Split(o, needSize(n))
               z == initHash(AppendUsed(m, at), at, n)
    <2>1. CutAt(o, needSize(n), at)
      BY <1>4, <1>6 DEF CutAt
    <2> HIDE DEF at
    <2>2. /\ Lists(m, I, U, rank) /\ SplitSizes(seg, m.seg, I \cup U, o, at)
          /\ End(o) - needSize(n) = at
      BY <1>2, <1>3, <1>4, <2>1, SplitLists
    <2>3. /\ header[n] = Nil /\ seg' = z.seg /\ info' = z.info
          /\ header' = [header EXCEPT ![n] = at]
      BY <1>1, <1>6, <2>2
    <2>4. needSize(n) = o + seg[o].size - at
      BY <1>4, <2>1 DEF CutAt
    <2> HIDE DEF m
    <2>5. m.seg \in Segs /\ I \cup U \in SUBSET Offsets /\ o \in I \cup U
      BY <1>2, <1>3, <2>2, MemTypes DEF Lists
    <2>6. at \notin I \cup U /\ Tiled(m.seg, I \cup U \cup {at})
      BY <1>3, <2>2, <2>5, TiledSplit
    <2>7. /\ at \in Offsets /\ o < at /\ m.seg[o].size = at - o
          /\ m.seg[at].size = needSize(n)
          /\ \A q \in (I \cup U) \ {o} : /\ m.seg[q].size = seg[q].size
                                        /\ m.seg[q].off = seg[q].off
      BY <2>2, <2>4 DEF SplitSizes, SameSizes
    <2>8. Apart(m.seg, I)
      <3>1. at \in Int
        BY <2>7, OffsetTypes
      <3>2. o + m.seg[o].size = at
        BY <1>4, <2>7, <3>1
      <3> QED BY <1>3, <2>6, <2>7, <3>2 DEF Apart
    <2>9. SameSizes(seg, m.seg, U)
      BY <1>2, <1>3, <2>7 DEF SameSizes
    <2>10. Owned(m.seg, U, header)
      BY <1>3, <2>9, OwnedSame
    <2>11. m.seg[at].size >= needSize(n) /\ at \notin I /\ at \notin U
      BY <1>4, <2>6, <2>7
    <2>12. \E rank2 \in Ranks :
               Inv(z.seg, z.info, [header EXCEPT ![n] = at],
                   I, U \cup {at}, rank2)
      BY <1>3, <2>2, <2>3, <2>6, <2>7, <2>8, <2>10, <2>11, CreateFinish
    <2> HIDE DEF z
    <2>13. I \in SUBSET Offsets /\ U \cup {at} \in SUBSET Offsets
      BY <1>3, <2>7
    <2> QED
      BY <2>3, <2>12, <2>13 DEF IInv
  <1> QED
    BY <1>5, <1>6

LEMMA ClearKeepsInv ==
    ASSUME NEW I, NEW U, NEW rank \in Ranks,
           Inv(seg, info, header, I, U, rank),
           NEW n \in Names, initHashSeg(n)
    PROVE  IInv'
  <1> DEFINE o == header[n]
             z == initHash(Mem, o, n)
  <1>1. /\ Lists(Mem, I, U, rank) /\ seg \in Segs /\ header \in Headers
        /\ I \in SUBSET Offsets /\ U \in SUBSET Offsets
        /\ Tiled(seg, I \cup U) /\ Apart(seg, I) /\ Owned(seg, U, header)
    BY InvParts
  <1>2. o \in I \cup U /\ seg[o].size >= needSize(n)
    BY <1>1 DEF Owned, initHashSeg
  <1>3. (I \cup U) \cap (o + 1)..(o + HashSize[n]) = {}
    BY <1>1, <1>2, ArrayInside
  <1>4. Lists(z, I, U, rank) /\ SameSizes(Mem.seg, z.seg, I \cup U)
    BY <1>1, <1>3, ClearedLists
  <1>5. seg' = z.seg /\ info' = z.info /\ header' = header
    BY <1>1 DEF initHashSeg, initHash, Mem
  <1> HIDE DEF z
  <1>6. z.seg \in Segs /\ SameSizes(seg, z.seg, I \cup U)
    BY <1>4, MemTypes DEF Lists, Mem
  <1>7. Tiled(z.seg, I \cup U)
    BY <1>1, <1>6, TiledSame
  <1>8. SameSizes(seg, z.seg, I) /\ SameSizes(seg, z.seg, U)
    BY <1>6 DEF SameSizes
  <1>9. Apart(z.seg, I) /\ Owned(z.seg, U, header)
    BY <1>1, <1>8, ApartSame, OwnedSame
  <1>10. Inv(z.seg, z.info, header, I, U, rank)
    BY <1>1, <1>4, <1>7, <1>9, InvIntro
  <1> QED
    BY <1>1, <1>5, <1>10 DEF IInv

-----------------------------------------------------------------------------
(* dropHashIdex: the segment o, out of the used list, becomes idle.        *)

Dropping(m, I, U, rank, o) ==
    /\ Lists(m, I, U, rank)
    /\ o \in Offsets /\ o \notin I /\ o \notin U
    /\ Tiled(m.seg, I \cup U \cup {o})
    /\ Apart(m.seg, I)

Dropped(m, k, I, U, rank) ==
    /\ Lists(k, I, U, rank)
    /\ Tiled(k.seg, I \cup U)
    /\ Apart(k.seg, I)
    /\ SameSizes(m.seg, k.seg, U)

LEMMA DroppingTypes ==
    ASSUME NEW m, NEW I, NEW U, NEW rank, NEW o, Dropping(m, I, U, rank, o)
    PROVE  /\ m \in Mems /\ m.seg \in Segs /\ m.info \in Infos
           /\ I \in SUBSET Offsets /\ U \in SUBSET Offsets /\ o \in Offsets
           /\ I \cap U = {} /\ o \notin I /\ o \notin U
           /\ I \cup U \cup {o} \in SUBSET Offsets
           /\ List(m.seg, I, Address, m.info.fIdle, m.info.lIdle)
           /\ List(m.seg, U, rank, m.info.fUsed, m.info.lUsed)
           /\ SpaceSize \in Int
           /\ \A q \in I \cup U \cup {o} :
                  /\ q \in Int /\ m.seg[q].size \in Int /\ Address[q] = q
                  /\ 0 <= q /\ m.seg[q].off = q /\ m.seg[q].size > 0
                  /\ q + m.seg[q].size <= SpaceSize
           /\ \A p, q \in I \cup U \cup {o} : p < q => p + m.seg[p].size <= q
  <1>1. /\ m \in Mems /\ m.seg \in Segs /\ m.info \in Infos
        /\ I \in SUBSET Offsets /\ U \in SUBSET Offsets /\ o \in Offsets
        /\ I \cap U = {} /\ o \notin I /\ o \notin U
        /\ List(m.seg, I, Address, m.info.fIdle, m.info.lIdle)
        /\ List(m.seg, U, rank, m.info.fUsed, m.info.lUsed)
    BY MemTypes DEF Dropping, Lists
  <1>2. \A q \in Offsets : /\ q \in Int /\ m.seg[q].size \in Int
                           /\ Address[q] = q /\ 0 <= q
    BY <1>1, SegTypes, OffsetTypes
  <1>3. I \cup U \cup {o} \in SUBSET Offsets /\ SpaceSize \in Int
    BY <1>1, SpaceAssumption
  <1> QED
    BY <1>1, <1>2, <1>3 DEF Dropping, Tiled

\* The idle list ends at its highest segment.
LEMMA IdleOrder ==
    ASSUME NEW sg \in Segs, NEW I \in SUBSET Offsets, NEW first, NEW last,
           List(sg, I, Address, first, last)
    PROVE  \A q \in I : last \in I /\ q <= last
  <1>1. \A q \in I : q \in Int /\ Address[q] = q /\ q # Nil
    BY OffsetTypes
  <1> QED
    BY <1>1 DEF List, Ends, NextRight, Ranked

\* Between neighbours there is no other idle segment.
LEMMA IdleNeighbours ==
    ASSUME NEW sg \in Segs, NEW I \in SUBSET Offsets, NEW first, NEW last,
           List(sg, I, Address, first, last),
           NEW prev \in I, NEW next \in I, sg[next].prev = prev
    PROVE  /\ prev < next /\ sg[prev].next = next
           /\ \A q \in I : q <= prev \/ next <= q
  <1>1. \A q \in I : q \in Int /\ Address[q] = q /\ q # Nil
    BY OffsetTypes
  <1>2. next # first /\ sg[prev].next = next
    BY <1>1 DEF List, PrevRight
  <1>3. prev # last /\ prev < next
    BY <1>1, <1>2 DEF List, NextRight
  <1>4. \A q \in I : prev < q => next <= q
    BY <1>1, <1>2 DEF List, Ranked
  <1> QED
    BY <1>1, <1>2, <1>3, <1>4

\* A segment o put behind last.
AppendedFields(sg, sg2, o, last) ==
    \A q \in Offsets : Fields(sg2[q], sg[q].off, sg[q].size,
        IF q = o THEN last ELSE sg[q].prev,
        IF q = o THEN Nil ELSE IF q = last THEN o ELSE sg[q].next)

IdleEnds(m, k, first, last) ==
    /\ k.info.fIdle = first /\ k.info.lIdle = last
    /\ k.info.fUsed = m.info.fUsed /\ k.info.lUsed = m.info.lUsed

\* A segment above all idle ones, and not touching the last of them, becomes the
\* last.
LEMMA AppendIdle ==
    ASSUME NEW m, NEW I, NEW U, NEW rank \in Ranks, NEW o,
           Dropping(m, I, U, rank, o), NEW k \in Mems, NEW last,
           last = m.info.lIdle,
           AppendedFields(m.seg, k.seg, o, last),
           NEW first, first = IF last = Nil THEN o ELSE m.info.fIdle,
           IdleEnds(m, k, first, o),
           \A q \in I : q < o /\ last + m.seg[last].size # o
    PROVE  Dropped(m, k, I \cup {o}, U, rank)
  <1>1. /\ m \in Mems /\ m.seg \in Segs /\ k.seg \in Segs
        /\ I \in SUBSET Offsets /\ U \in SUBSET Offsets /\ o \in Offsets
        /\ I \cap U = {} /\ o \notin I /\ o \notin U
        /\ I \cup U \cup {o} \in SUBSET Offsets
        /\ List(m.seg, I, Address, m.info.fIdle, m.info.lIdle)
        /\ List(m.seg, U, rank, m.info.fUsed, m.info.lUsed)
    BY DroppingTypes, MemTypes
  <1>2. /\ \A q \in I \cup U \cup {o} :
               q \in Int /\ m.seg[q].size \in Int /\ Address[q] = q
               /\ m.seg[q].size > 0
        /\ \A p, q \in I \cup U \cup {o} : p < q => p + m.seg[p].size <= q
    BY DroppingTypes
  <1>3. SameSizes(m.seg, k.seg, Offsets)
    BY DEF SameSizes, AppendedFields, Fields
  <1>4. last \in I \cup {Nil} /\ \A q \in I : last \in I /\ q <= last
    BY <1>1, IdleOrder DEF List, Ends
  <1>5. AppendedLinks(m.seg, k.seg, I, last, o) /\ SameLinks(m.seg, k.seg, U)
    BY <1>1, <1>4, OffsetTypes
       DEF AppendedLinks, SameLinks, AppendedFields, Fields
  <1>6. RankedBehind(Address, Address, I, o)
    BY <1>1, <1>2 DEF RankedBehind
  <1>7. List(k.seg, I \cup {o}, Address, k.info.fIdle, k.info.lIdle)
    <2>1. List(m.seg, I, Address, m.info.fIdle, last)
      BY <1>1
    <2>2. List(k.seg, I \cup {o}, Address, first, o)
      BY <1>1, <1>5, <1>6, <2>1, ListAppend, AddressRank
    <2> QED BY <2>2 DEF IdleEnds
  <1>8. List(k.seg, U, rank, k.info.fUsed, k.info.lUsed)
    BY <1>1, <1>5, ListSame DEF IdleEnds
  <1>9. Lists(k, I \cup {o}, U, rank)
    BY <1>1, <1>7, <1>8 DEF Lists
  <1>10. Tiled(k.seg, (I \cup {o}) \cup U)
    <2>1. (I \cup {o}) \cup U = I \cup U \cup {o}
      OBVIOUS
    <2>2. SameSizes(m.seg, k.seg, I \cup U \cup {o})
      BY <1>1, <1>3 DEF SameSizes
    <2>3. Tiled(k.seg, I \cup U \cup {o})
      BY <1>1, <2>2, TiledSame DEF Dropping
    <2> QED BY <2>1, <2>3
  <1>11. Apart(k.seg, I \cup {o})
    <2>1. \A q \in I \cup {o} : k.seg[q].size = m.seg[q].size
      BY <1>1, <1>3 DEF SameSizes
    <2>2. \A p, q \in I : p + m.seg[p].size # q
      BY DEF Dropping, Apart
    <2>3. \A p \in I : p + m.seg[p].size # o
      BY <1>2, <1>4
    <2>4. \A q \in I \cup {o} : o + m.seg[o].size # q
      BY <1>2
    <2> QED BY <2>1, <2>2, <2>3, <2>4 DEF Apart
  <1> QED
    BY <1>1, <1>3, <1>9, <1>10, <1>11 DEF Dropped, SameSizes

LEMMA OnlyIdleKeeps ==
    ASSUME NEW m, NEW I, NEW U, NEW rank \in Ranks, NEW o,
           Dropping(m, I, U, rank, o), m.info.fIdle = Nil
    PROVE  Dropped(m, OnlyIdle(m, o), I \cup {o}, U, rank)
  <1> DEFINE k == OnlyIdle(m, o)
  <1>1. /\ m \in Mems /\ m.seg \in Segs /\ m.info \in Infos /\ o \in Offsets
        /\ I \in SUBSET Offsets
        /\ List(m.seg, I, Address, m.info.fIdle, m.info.lIdle)
    BY DroppingTypes
  <1>2. I = {} /\ m.info.lIdle = Nil
    BY <1>1 DEF List, Ends
  <1>3. /\ k.seg = [m.seg EXCEPT ![o].prev = Nil, ![o].next = Nil]
        /\ k.info = [m.info EXCEPT !.fIdle = o, !.lIdle = o]
        /\ k = [seg |-> k.seg, info |-> k.info]
    BY DEF OnlyIdle
  <1> HIDE DEF k
  <1>4. k.seg \in Segs
    BY <1>1, <1>3, OffsetTypes DEF Segs
  <1>5. AppendedFields(m.seg, k.seg, o, Nil)
    BY <1>1, <1>3, OffsetTypes DEF Segs, AppendedFields, Fields
  <1>6. k.info \in Infos /\ IdleEnds(m, k, o, o)
    BY <1>1, <1>3, OffsetTypes DEF Infos, IdleEnds
  <1>7. k \in Mems
    BY <1>3, <1>4, <1>6 DEF Mems
  <1>8. Dropped(m, k, I \cup {o}, U, rank)
    BY <1>2, <1>5, <1>6, <1>7, AppendIdle
  <1> QED
    BY <1>8 DEF k

\* p takes over the cells of o, and what is behind it in its list.
MergedFields(sg, sg2, p, o) ==
    \A q \in Offsets : Fields(sg2[q], sg[q].off,
        IF q = p THEN sg[p].size + sg[o].size ELSE sg[q].size,
        sg[q].prev, IF q = p THEN sg[o].next ELSE sg[q].next)

LEMMA MergeFields ==
    ASSUME NEW m \in Mems, NEW p \in Offsets, NEW o \in Offsets,
           m.seg[p].size + m.seg[o].size <= SpaceSize
    PROVE  /\ Merge(m, p, o) \in Mems /\ Merge(m, p, o).info = m.info
           /\ MergedFields(m.seg, Merge(m, p, o).seg, p, o)
  <1> DEFINE k == Merge(m, p, o)
             sg == m.seg
             size == sg[p].size + sg[o].size
             next == sg[o].next
             sg2 == [sg EXCEPT ![p].size = size, ![p].next = next]
  <1>1. sg \in Segs /\ m.info \in Infos /\ m = [seg |-> sg, info |-> m.info]
    BY MemTypes DEF Mems
  <1>2. size \in 0..SpaceSize /\ next \in Link
    BY <1>1, SegTypes, SpaceAssumption
  <1>3. k = [m EXCEPT !.seg[p].size = size, !.seg[p].next = next]
    BY DEF Merge
  <1>4. k = [seg |-> sg2, info |-> m.info]
    BY <1>1, <1>3
  <1> HIDE DEF k, size, next
  <1>5. sg2 \in Segs
    BY <1>1, <1>2 DEF Segs
  <1>6. \A q \in Offsets : Fields(sg2[q], sg[q].off,
            IF q = p THEN size ELSE sg[q].size,
            sg[q].prev, IF q = p THEN next ELSE sg[q].next)
    BY <1>1 DEF Segs, Fields
  <1> HIDE DEF sg2
  <1>7. k.seg = sg2 /\ k.info = m.info /\ k \in Mems
    BY <1>1, <1>4, <1>5 DEF Mems
  <1>8. MergedFields(sg, k.seg, p, o)
    BY <1>6, <1>7 DEF MergedFields, size, next
  <1> QED
    BY <1>7, <1>8 DEF k

LEMMA BehindLastAppends ==
    ASSUME NEW m, NEW I, NEW U, NEW rank \in Ranks, NEW o,
           Dropping(m, I, U, rank, o), m.info.fIdle # Nil, \A q \in I : q < o,
           m.seg[m.info.lIdle].off + m.seg[m.info.lIdle].size # o
    PROVE  Dropped(m, BehindLast(m, o), I \cup {o}, U, rank)
  <1> DEFINE k == BehindLast(m, o)
             last == m.info.lIdle
  <1>1. /\ m \in Mems /\ m.seg \in Segs /\ m.info \in Infos /\ o \in Offsets
        /\ I \in SUBSET Offsets /\ o \notin I
        /\ List(m.seg, I, Address, m.info.fIdle, last)
    BY DroppingTypes
  <1>2. last \in I /\ last \in Offsets /\ last # o /\ last # Nil
    BY <1>1, OffsetTypes DEF List, Ends
  <1>3. last + m.seg[last].size # o
    <2>1. m.seg[last].off = last
      BY <1>2, DroppingTypes
    <2> QED BY <2>1
  <1>4. /\ k.seg = [m.seg EXCEPT ![o].prev = last, ![o].next = Nil,
                                 ![last].next = o]
        /\ k.info = [m.info EXCEPT !.lIdle = o]
        /\ k = [seg |-> k.seg, info |-> k.info]
    BY DEF BehindLast
  <1> HIDE DEF k, last
  <1>5. k.seg \in Segs
    BY <1>1, <1>2, <1>4, OffsetTypes DEF Segs, Link
  <1>6. AppendedFields(m.seg, k.seg, o, last)
    BY <1>1, <1>2, <1>4, OffsetTypes DEF Segs, AppendedFields, Fields
  <1>7. k.info \in Infos /\ IdleEnds(m, k, m.info.fIdle, o)
    BY <1>1, <1>4, OffsetTypes DEF Infos, IdleEnds
  <1>8. k \in Mems
    BY <1>4, <1>5, <1>7 DEF Mems
  <1>9. Dropped(m, k, I \cup {o}, U, rank)
    <2>1. last = m.info.lIdle
      BY DEF last
    <2>2. m.info.fIdle = IF last = Nil THEN o ELSE m.info.fIdle
      BY <1>2
    <2> QED BY <1>3, <1>6, <1>7, <1>8, <2>1, <2>2, AppendIdle
  <1> QED
    BY <1>9 DEF k

\* o begins where p ends.
Touches(sg, p, o) == p + sg[p].size = o

Merged(m, k, A, p, o) ==
    /\ MergedFields(m.seg, k.seg, p, o)
    /\ Tiled(k.seg, A \ {o})
    /\ \A q \in A \ {p, o} : k.seg[q].size = m.seg[q].size
    /\ p + k.seg[p].size = o + m.seg[o].size

\* The sizes after a merge of neighbours in memory.
LEMMA MergeTiles ==
    ASSUME NEW m \in Mems, NEW A \in SUBSET Offsets, NEW p \in A, NEW o \in A,
           Tiled(m.seg, A), Touches(m.seg, p, o)
    PROVE  /\ Merge(m, p, o) \in Mems /\ Merge(m, p, o).info = m.info
           /\ Merged(m, Merge(m, p, o), A, p, o)
  <1> DEFINE k == Merge(m, p, o)
  <1>1. /\ m.seg \in Segs /\ p \in Offsets /\ o \in Offsets
        /\ p \in Int /\ 0 <= p /\ o \in Int /\ SpaceSize \in Int
        /\ m.seg[p].size \in Nat /\ m.seg[o].size \in Nat
    BY MemTypes, SegTypes, SpaceAssumption
  <1>2. o + m.seg[o].size <= SpaceSize
    BY DEF Tiled
  <1>3. m.seg[p].size + m.seg[o].size <= SpaceSize
    BY <1>1, <1>2 DEF Touches
  <1>4. k \in Mems /\ k.info = m.info /\ MergedFields(m.seg, k.seg, p, o)
    BY <1>1, <1>3, MergeFields
  <1> HIDE DEF k
  <1>5. /\ k.seg[p].size = m.seg[p].size + m.seg[o].size
        /\ k.seg[p].off = m.seg[p].off
        /\ SameSizes(m.seg, k.seg, A \ {p, o})
    BY <1>1, <1>4 DEF MergedFields, Fields, SameSizes
  <1>6. MergedSizes(m.seg, k.seg, A, p, o)
    BY <1>5 DEF MergedSizes, Tiled, Touches
  <1>7. k.seg \in Segs
    BY <1>4, MemTypes
  <1>8. Tiled(k.seg, A \ {o})
    BY <1>1, <1>6, <1>7, TiledMerge
  <1>9. p + k.seg[p].size = o + m.seg[o].size
    BY <1>1, <1>5 DEF Touches
  <1> QED
    BY <1>4, <1>5, <1>8, <1>9 DEF Merged, SameSizes, k

LEMMA BehindLastMerges ==
    ASSUME NEW m, NEW I, NEW U, NEW rank \in Ranks, NEW o,
           Dropping(m, I, U, rank, o), m.info.fIdle # Nil, \A q \in I : q < o,
           m.seg[m.info.lIdle].off + m.seg[m.info.lIdle].size = o,
           m.seg[o].next = Nil
    PROVE  Dropped(m, BehindLast(m, o), I, U, rank)
  <1> DEFINE last == m.info.lIdle
             k == Merge(m, last, o)
             A == I \cup U \cup {o}
  <1>1. /\ m \in Mems /\ m.seg \in Segs /\ m.info \in Infos /\ o \in Offsets
        /\ I \in SUBSET Offsets /\ U \in SUBSET Offsets /\ A \in SUBSET Offsets
        /\ o \notin I /\ o \notin U /\ I \cap U = {}
        /\ List(m.seg, I, Address, m.info.fIdle, last)
        /\ List(m.seg, U, rank, m.info.fUsed, m.info.lUsed)
        /\ Tiled(m.seg, A) /\ Apart(m.seg, I)
    <2>1. Tiled(m.seg, A) /\ Apart(m.seg, I)
      BY DEF Dropping
    <2> QED BY <2>1, DroppingTypes
  <1>2. /\ \A q \in A : q \in Int /\ m.seg[q].size \in Int
               /\ m.seg[q].size > 0 /\ m.seg[q].off = q
    BY DroppingTypes
  <1>3. last \in I /\ \A q \in I : q <= last
    BY <1>1, IdleOrder DEF List, Ends
  <1>4. BehindLast(m, o) = k
    BY DEF BehindLast, Merge
  <1>5. Touches(m.seg, last, o) /\ o \in A /\ last \in A
    BY <1>2, <1>3 DEF Touches
  <1> HIDE DEF A
  <1>6. k \in Mems /\ k.info = m.info /\ Merged(m, k, A, last, o)
    BY <1>1, <1>5, MergeTiles
  <1>7. /\ k \in Mems /\ k.info = m.info
        /\ MergedFields(m.seg, k.seg, last, o)
        /\ Tiled(k.seg, A \ {o})
        /\ \A q \in A \ {last, o} : k.seg[q].size = m.seg[q].size
        /\ last + k.seg[last].size = o + m.seg[o].size
    BY <1>6 DEF Merged
  <1> HIDE DEF k, last
  <1>8. k.seg \in Segs
    BY <1>7, MemTypes
  <1>9. m.seg[last].next = Nil
    BY <1>1, <1>3 DEF List, NextRight
  <1>10. SameLinks(m.seg, k.seg, I) /\ SameLinks(m.seg, k.seg, U)
    BY <1>1, <1>7, <1>9 DEF SameLinks, MergedFields, Fields
  <1>11. List(k.seg, I, Address, m.info.fIdle, last)
    BY <1>1, <1>8, <1>10, ListSame, AddressRank
  <1>12. List(k.seg, U, rank, m.info.fUsed, m.info.lUsed)
    BY <1>1, <1>8, <1>10, ListSame
  <1>13. Lists(k, I, U, rank)
    BY <1>1, <1>7, <1>11, <1>12 DEF Lists, last
  <1>14. A \ {o} = I \cup U
    BY <1>1 DEF A
  <1>15. Apart(k.seg, I)
    <2> SUFFICES ASSUME NEW p \in I, NEW q \in I PROVE p + k.seg[p].size # q
      BY DEF Apart
    <2>0. p \in A /\ q \in A /\ last \in Int /\ o \in Int /\ m.seg[o].size \in Int
      BY <1>2, <1>3 DEF A
    <2>1. CASE p = last
      BY <1>2, <1>3, <1>5, <1>7, <2>0, <2>1 DEF Touches
    <2>2. CASE p # last
      <3>1. k.seg[p].size = m.seg[p].size
        BY <1>1, <1>7, <2>0, <2>2
      <3> QED BY <1>1, <3>1 DEF Apart
    <2> QED BY <2>1, <2>2
  <1>16. SameSizes(m.seg, k.seg, U)
    <2>1. last \notin U
      BY <1>1, <1>3
    <2> QED BY <1>1, <1>7, <2>1 DEF SameSizes, MergedFields, Fields
  <1> QED
    BY <1>4, <1>7, <1>13, <1>14, <1>15, <1>16 DEF Dropped

\* The first half of Between: o is linked between two neighbours.
LinkBetween(m, prev, o, next) ==
    [m EXCEPT !.seg = [@ EXCEPT
        ![prev].next = o, ![o].prev = m.seg[prev].off,
        ![o].next = m.seg[next].off, ![next].prev = o]]

InsertedFields(sg, sg2, prev, o, next) ==
    \A q \in Offsets : Fields(sg2[q], sg[q].off, sg[q].size,
        IF q = o THEN prev ELSE IF q = next THEN o ELSE sg[q].prev,
        IF q = o THEN next ELSE IF q = prev THEN o ELSE sg[q].next)

\* o belongs between the idle segments prev and next.
BetweenIdle(m, I, prev, o, next) ==
    /\ prev \in I /\ next \in I /\ m.seg[next].prev = prev
    /\ prev < o /\ o < next

LEMMA LinkBetweenFields ==
    ASSUME NEW m \in Mems, NEW prev \in Offsets, NEW o \in Offsets,
           NEW next \in Offsets, prev # o, o # next, prev # next,
           m.seg[prev].off = prev, m.seg[next].off = next
    PROVE  LET k == LinkBetween(m, prev, o, next)
           IN  /\ k \in Mems /\ k.info = m.info
               /\ InsertedFields(m.seg, k.seg, prev, o, next)
  <1> DEFINE k == LinkBetween(m, prev, o, next)
             sg == m.seg
             a == [sg EXCEPT ![prev].next = o]
             b == [a EXCEPT ![o].prev = prev]
             c == [b EXCEPT ![o].next = next]
             d == [c EXCEPT ![next].prev = o]
  <1>1. sg \in Segs /\ m.info \in Infos /\ m = [seg |-> sg, info |-> m.info]
    BY MemTypes DEF Mems
  <1>2. k = [m EXCEPT !.seg = d]
    BY DEF LinkBetween
  <1>3. a \in Segs /\ \A q \in Offsets : Fields(a[q], sg[q].off, sg[q].size,
            sg[q].prev, IF q = prev THEN o ELSE sg[q].next)
    BY <1>1, OffsetTypes DEF Segs, Fields
  <1> HIDE DEF k, a
  <1>4. b \in Segs /\ \A q \in Offsets : Fields(b[q], a[q].off, a[q].size,
            IF q = o THEN prev ELSE a[q].prev, a[q].next)
    BY <1>3, OffsetTypes DEF Segs, Fields
  <1> HIDE DEF b
  <1>5. c \in Segs /\ \A q \in Offsets : Fields(c[q], b[q].off, b[q].size,
            b[q].prev, IF q = o THEN next ELSE b[q].next)
    BY <1>4, OffsetTypes DEF Segs, Fields
  <1> HIDE DEF c
  <1>6. d \in Segs /\ \A q \in Offsets : Fields(d[q], c[q].off, c[q].size,
            IF q = next THEN o ELSE c[q].prev, c[q].next)
    BY <1>5, OffsetTypes DEF Segs, Fields
  <1> HIDE DEF d
  <1>7. InsertedFields(sg, d, prev, o, next)
    BY <1>3, <1>4, <1>5, <1>6 DEF InsertedFields, Fields
  <1>8. k.seg = d /\ k.info = m.info /\ k \in Mems
    BY <1>1, <1>2, <1>6 DEF Mems
  <1> QED
    BY <1>7, <1>8 DEF k

\* Linked between its neighbours, o is a segment of the idle list.
LEMMA LinkBetweenLists ==
    ASSUME NEW m, NEW I, NEW U, NEW rank \in Ranks, NEW o,
           Dropping(m, I, U, rank, o), NEW prev, NEW next,
           BetweenIdle(m, I, prev, o, next)
    PROVE  LET k == LinkBetween(m, prev, o, next)
           IN  /\ Lists(k, I \cup {o}, U, rank) /\ k.info = m.info
               /\ Tiled(k.seg, I \cup U \cup {o})
               /\ SameSizes(m.seg, k.seg, Offsets)
               /\ InsertedFields(m.seg, k.seg, prev, o, next)
  <1> DEFINE k == LinkBetween(m, prev, o, next)
             A == I \cup U \cup {o}
  <1>1. /\ m \in Mems /\ m.seg \in Segs /\ o \in Offsets
        /\ I \in SUBSET Offsets /\ U \in SUBSET Offsets /\ A \in SUBSET Offsets
        /\ o \notin I /\ o \notin U /\ I \cap U = {}
        /\ List(m.seg, I, Address, m.info.fIdle, m.info.lIdle)
        /\ List(m.seg, U, rank, m.info.fUsed, m.info.lUsed)
    BY DroppingTypes
  <1>2. Tiled(m.seg, A)
    BY DEF Dropping
  <1>3. /\ prev \in I /\ next \in I /\ m.seg[next].prev = prev
        /\ prev < o /\ o < next /\ o \in Int /\ prev \in Int /\ next \in Int
        /\ m.seg[prev].off = prev /\ m.seg[next].off = next
        /\ Address[prev] = prev /\ Address[next] = next /\ Address[o] = o
    BY DroppingTypes DEF BetweenIdle
  <1>4. prev \in Offsets /\ next \in Offsets
        /\ prev # o /\ o # next /\ prev # next
    BY <1>1, <1>3
  <1>5. /\ k \in Mems /\ k.info = m.info
        /\ InsertedFields(m.seg, k.seg, prev, o, next)
    BY <1>1, <1>3, <1>4, LinkBetweenFields
  <1> HIDE DEF k
  <1>6. k.seg \in Segs
    BY <1>5, MemTypes
  <1>7. InsertedLinks(m.seg, k.seg, I, prev, o, next)
    BY <1>1, <1>4, <1>5 DEF InsertedLinks, InsertedFields, Fields
  <1>8. SameLinks(m.seg, k.seg, U)
    BY <1>1, <1>3, <1>5 DEF SameLinks, InsertedFields, Fields
  <1>9. SameSizes(m.seg, k.seg, Offsets)
    BY <1>5 DEF SameSizes, InsertedFields, Fields
  <1>10. Address[prev] < Address[o] /\ Address[o] < Address[next]
    BY <1>3
  <1>11. List(k.seg, I \cup {o}, Address, m.info.fIdle, m.info.lIdle)
    BY <1>1, <1>3, <1>6, <1>7, <1>10, ListInsert, AddressRank
  <1>12. List(k.seg, U, rank, m.info.fUsed, m.info.lUsed)
    BY <1>1, <1>6, <1>8, ListSame
  <1>13. Lists(k, I \cup {o}, U, rank)
    BY <1>1, <1>5, <1>11, <1>12 DEF Lists
  <1>14. SameSizes(m.seg, k.seg, A)
    BY <1>1, <1>9 DEF SameSizes
  <1>15. Tiled(k.seg, A)
    BY <1>1, <1>2, <1>6, <1>14, TiledSame
  <1> QED
    BY <1>5, <1>9, <1>13, <1>15 DEF k

\* Neither neighbour touches o.
LEMMA BetweenLinks ==
    ASSUME NEW m, NEW I, NEW U, NEW rank \in Ranks, NEW o,
           Dropping(m, I, U, rank, o), NEW prev, NEW next,
           BetweenIdle(m, I, prev, o, next),
           ~Touches(m.seg, prev, o), ~Touches(m.seg, o, next)
    PROVE  Dropped(m, Between(m, prev, o, next), I \cup {o}, U, rank)
  <1> DEFINE k == LinkBetween(m, prev, o, next)
  <1>1. /\ Lists(k, I \cup {o}, U, rank)
        /\ Tiled(k.seg, I \cup U \cup {o})
        /\ SameSizes(m.seg, k.seg, Offsets)
    BY LinkBetweenLists
  <1>2. /\ m \in Mems /\ m.seg \in Segs /\ o \in Offsets
        /\ I \in SUBSET Offsets /\ U \in SUBSET Offsets
        /\ o \notin I /\ List(m.seg, I, Address, m.info.fIdle, m.info.lIdle)
        /\ \A q \in I \cup U \cup {o} :
               /\ q \in Int /\ m.seg[q].size \in Int
               /\ m.seg[q].off = q /\ m.seg[q].size > 0
        /\ \A p, q \in I \cup U \cup {o} : p < q => p + m.seg[p].size <= q
    BY DroppingTypes
  <1>3. /\ prev \in I /\ next \in I /\ m.seg[next].prev = prev
        /\ prev < o /\ o < next
    BY DEF BetweenIdle
  <1>4. \A q \in I : q <= prev \/ next <= q
    BY <1>2, <1>3, IdleNeighbours
  <1>5. Between(m, prev, o, next) = k
    <2>1. /\ k.seg[prev].off = prev /\ k.seg[prev].size = m.seg[prev].size
          /\ k.seg[o].off = o /\ k.seg[o].size = m.seg[o].size
          /\ k.seg[next].off = next
      BY <1>1, <1>2, <1>3 DEF SameSizes
    <2>2. k = [m EXCEPT !.seg = [@ EXCEPT
                 ![prev].next = o, ![o].prev = m.seg[prev].off,
                 ![o].next = m.seg[next].off, ![next].prev = o]]
      BY DEF LinkBetween
    <2> HIDE DEF k
    <2> QED BY <2>1, <2>2 DEF Between, Touches
  <1> HIDE DEF k
  <1>6. Apart(k.seg, I \cup {o})
    <2>1. \A q \in I \cup {o} : k.seg[q].size = m.seg[q].size
      BY <1>1, <1>2 DEF SameSizes
    <2>2. \A p, q \in I : p + m.seg[p].size # q
      BY DEF Dropping, Apart
    <2>3. \A p \in I : p + m.seg[p].size # o
      BY <1>2, <1>3, <1>4 DEF Touches
    <2>4. \A q \in I \cup {o} : o + m.seg[o].size # q
      BY <1>2, <1>3, <1>4 DEF Touches
    <2> QED BY <2>1, <2>2, <2>3, <2>4 DEF Apart
  <1>7. (I \cup {o}) \cup U = I \cup U \cup {o}
    OBVIOUS
  <1>8. Tiled(k.seg, (I \cup {o}) \cup U) /\ SameSizes(m.seg, k.seg, U)
    BY <1>1, <1>2, <1>7 DEF SameSizes
  <1> QED
    BY <1>1, <1>5, <1>6, <1>8 DEF Dropped

\* A merge with the last idle segment.
LEMMA MergeNextTiles ==
    ASSUME NEW m \in Mems, NEW A \in SUBSET Offsets, NEW p \in A, NEW o \in A,
           Tiled(m.seg, A), Touches(m.seg, p, o), m.seg[o].next = Nil
    PROVE  /\ MergeNext(m, p, o) \in Mems
           /\ IdleEnds(m, MergeNext(m, p, o), m.info.fIdle, p)
           /\ Merged(m, MergeNext(m, p, o), A, p, o)
  <1> DEFINE k == MergeNext(m, p, o)
             g == Merge(m, p, o)
  <1>1. g \in Mems /\ g.info = m.info /\ Merged(m, g, A, p, o)
    BY MergeTiles
  <1>2. g.seg[p].next = Nil /\ m.seg[p].off = p
    BY <1>1 DEF Merged, MergedFields, Fields, Tiled
  <1>3. k = [g EXCEPT !.info.lIdle = p]
    BY <1>2 DEF MergeNext
  <1> HIDE DEF k, g
  <1>4. g.seg \in Segs /\ g.info \in Infos /\ p \in Link
    BY <1>1, MemTypes, OffsetTypes
  <1>5. k.seg = g.seg /\ k.info = [g.info EXCEPT !.lIdle = p]
        /\ k \in Mems
    BY <1>1, <1>3, <1>4 DEF Mems, Infos
  <1>6. IdleEnds(m, k, m.info.fIdle, p)
    BY <1>1, <1>4, <1>5 DEF IdleEnds, Infos
  <1> QED
    BY <1>1, <1>5, <1>6 DEF k, Merged

\* o touches the next segment, the last one, but not the previous one.
LEMMA BetweenMergesNext ==
    ASSUME NEW m, NEW I, NEW U, NEW rank \in Ranks, NEW o,
           Dropping(m, I, U, rank, o), NEW prev, NEW next,
           BetweenIdle(m, I, prev, o, next),
           ~Touches(m.seg, prev, o), Touches(m.seg, o, next),
           m.seg[next].next = Nil
    PROVE  Dropped(m, Between(m, prev, o, next),
                   (I \cup {o}) \ {next}, U, rank)
  <1> DEFINE L == LinkBetween(m, prev, o, next)
             k == MergeNext(L, o, next)
             J == I \cup {o}
             A == I \cup U \cup {o}
  <1>1. /\ Lists(L, J, U, rank) /\ L.info = m.info
        /\ Tiled(L.seg, A)
        /\ SameSizes(m.seg, L.seg, Offsets)
        /\ InsertedFields(m.seg, L.seg, prev, o, next)
    BY LinkBetweenLists
  <1>2. /\ m \in Mems /\ m.seg \in Segs /\ o \in Offsets
        /\ I \in SUBSET Offsets /\ U \in SUBSET Offsets /\ A \in SUBSET Offsets
        /\ o \notin I /\ o \notin U /\ I \cap U = {}
        /\ List(m.seg, I, Address, m.info.fIdle, m.info.lIdle)
        /\ \A q \in A : /\ q \in Int /\ m.seg[q].size \in Int
                        /\ m.seg[q].off = q /\ m.seg[q].size > 0
        /\ \A p, q \in A : p < q => p + m.seg[p].size <= q
    BY DroppingTypes
  <1>3. /\ prev \in I /\ next \in I /\ m.seg[next].prev = prev
        /\ prev < o /\ o < next
    BY DEF BetweenIdle
  <1>4. /\ \A q \in I : q <= prev \/ next <= q
        /\ \A q \in I : q <= next
    <2>1. next = m.info.lIdle
      BY <1>2, <1>3 DEF List, NextRight
    <2>2. \A q \in I : q <= next
      BY <1>2, <2>1, IdleOrder
    <2> QED BY <1>2, <1>3, <2>2, IdleNeighbours
  <1>5. /\ L.seg[prev].off = prev /\ L.seg[prev].size = m.seg[prev].size
        /\ L.seg[o].off = o /\ L.seg[o].size = m.seg[o].size
        /\ L.seg[next].off = next /\ L.seg[next].size = m.seg[next].size
    BY <1>1, <1>2, <1>3 DEF SameSizes
  <1>6. Between(m, prev, o, next) = k
    <2>1. L = [m EXCEPT !.seg = [@ EXCEPT
                 ![prev].next = o, ![o].prev = m.seg[prev].off,
                 ![o].next = m.seg[next].off, ![next].prev = o]]
      BY DEF LinkBetween
    <2> HIDE DEF L
    <2> QED BY <1>5, <2>1 DEF Between, Touches
  <1> HIDE DEF L
  <1>7. /\ L \in Mems /\ L.seg \in Segs
        /\ List(L.seg, J, Address, m.info.fIdle, m.info.lIdle)
        /\ List(L.seg, U, rank, m.info.fUsed, m.info.lUsed)
    BY <1>1, MemTypes DEF Lists
  <1>8. /\ o # prev /\ o # next /\ next # prev /\ next \in Offsets
        /\ L.seg[next].next = Nil /\ L.seg[next].prev = o
        /\ o \in A /\ next \in A
    BY <1>1, <1>2, <1>3 DEF InsertedFields, Fields
  <1>9. Touches(L.seg, o, next)
    BY <1>5 DEF Touches
  <1> HIDE DEF A
  <1>10. /\ k \in Mems /\ IdleEnds(L, k, L.info.fIdle, o)
        /\ MergedFields(L.seg, k.seg, o, next)
        /\ Tiled(k.seg, A \ {next})
        /\ \A q \in A \ {o, next} : k.seg[q].size = L.seg[q].size
        /\ o + k.seg[o].size = next + L.seg[next].size
    <2>1. /\ k \in Mems /\ IdleEnds(L, k, L.info.fIdle, o)
          /\ Merged(L, k, A, o, next)
      BY <1>1, <1>2, <1>7, <1>8, <1>9, MergeNextTiles
    <2> QED BY <2>1 DEF Merged
  <1> HIDE DEF k
  <1>11. k.seg \in Segs
    BY <1>10, MemTypes
  <1>12. next \in J /\ J \in SUBSET Offsets /\ Nil \notin J
    BY <1>2, <1>3, OffsetTypes
  <1>13. RemovedLinks(L.seg, k.seg, J, next)
    <2>1. \A q \in J : L.seg[q].next = next => q = o
      BY <1>7, <1>8, <1>12 DEF List, NextRight
    <2>2. \A q \in J : L.seg[q].prev # next
      BY <1>7, <1>8, <1>12 DEF List, PrevRight
    <2>3. L.seg[o].next = next
      BY <1>1, <1>2 DEF InsertedFields, Fields
    <2> QED BY <1>8, <1>10, <1>12, <2>1, <2>2, <2>3
            DEF RemovedLinks, MergedFields, Fields
  <1>14. RemovedEnds(L.seg, next, m.info.fIdle, m.info.lIdle, m.info.fIdle, o)
    <2>1. next = m.info.lIdle /\ next # m.info.fIdle
      BY <1>7, <1>8, <1>12 DEF List, NextRight, PrevRight
    <2> QED BY <1>8, <2>1 DEF RemovedEnds
  <1>15. List(k.seg, J \ {next}, Address, m.info.fIdle, o)
    BY <1>7, <1>11, <1>12, <1>13, <1>14, ListRemove, AddressRank
  <1>16. SameLinks(L.seg, k.seg, U)
    BY <1>2, <1>10 DEF SameLinks, MergedFields, Fields
  <1>17. List(k.seg, U, rank, m.info.fUsed, m.info.lUsed)
    BY <1>2, <1>7, <1>11, <1>16, ListSame
  <1>18. Lists(k, J \ {next}, U, rank)
    <2>1. /\ k.info.fIdle = m.info.fIdle /\ k.info.lIdle = o
          /\ k.info.fUsed = m.info.fUsed /\ k.info.lUsed = m.info.lUsed
      BY <1>1, <1>10 DEF IdleEnds
    <2> QED BY <1>2, <1>10, <1>15, <1>17, <2>1 DEF Lists
  <1>19. Tiled(k.seg, (J \ {next}) \cup U)
    <2>1. A \ {next} = (J \ {next}) \cup U
      BY <1>2, <1>3 DEF A
    <2> QED BY <1>10, <2>1
  <1>20. \A q \in (I \cup U) \ {next} : k.seg[q].size = m.seg[q].size
                                       /\ k.seg[q].off = m.seg[q].off
    BY <1>1, <1>2, <1>10 DEF SameSizes, MergedFields, Fields, A
  <1>21. Apart(k.seg, J \ {next})
    <2>1. \A p, q \in I : p + m.seg[p].size # q
      BY DEF Dropping, Apart
    <2>2. \A p \in I \ {next} : p + m.seg[p].size # o
      BY <1>2, <1>3, <1>4 DEF A, Touches
    <2>3. \A q \in J : o + k.seg[o].size # q
      BY <1>2, <1>3, <1>4, <1>5, <1>10 DEF A
    <2> QED BY <1>2, <1>20, <2>1, <2>2, <2>3 DEF Apart
  <1>22. SameSizes(m.seg, k.seg, U)
    BY <1>2, <1>3, <1>20 DEF SameSizes
  <1> QED
    BY <1>6, <1>18, <1>19, <1>21, <1>22 DEF Dropped

\* o fills the gap between the previous segment and the next, the last one.
LEMMA BetweenMergesBoth ==
    ASSUME NEW m, NEW I, NEW U, NEW rank \in Ranks, NEW o,
           Dropping(m, I, U, rank, o), NEW prev, NEW next,
           BetweenIdle(m, I, prev, o, next),
           Touches(m.seg, prev, o), Touches(m.seg, o, next),
           m.seg[next].next = Nil
    PROVE  Dropped(m, Between(m, prev, o, next), I \ {next}, U, rank)
  <1> DEFINE L == LinkBetween(m, prev, o, next)
             g == Merge(L, prev, o)
             k == MergeNext(g, prev, next)
             A == I \cup U \cup {o}
  <1>1. /\ Lists(L, I \cup {o}, U, rank) /\ L.info = m.info
        /\ Tiled(L.seg, A)
        /\ SameSizes(m.seg, L.seg, Offsets)
        /\ InsertedFields(m.seg, L.seg, prev, o, next)
    BY LinkBetweenLists
  <1>2. /\ m \in Mems /\ m.seg \in Segs /\ o \in Offsets
        /\ I \in SUBSET Offsets /\ U \in SUBSET Offsets /\ A \in SUBSET Offsets
        /\ o \notin I /\ o \notin U /\ I \cap U = {}
        /\ List(m.seg, I, Address, m.info.fIdle, m.info.lIdle)
        /\ List(m.seg, U, rank, m.info.fUsed, m.info.lUsed)
        /\ \A q \in A : /\ q \in Int /\ m.seg[q].size \in Int
                        /\ m.seg[q].off = q /\ m.seg[q].size > 0
    BY DroppingTypes
  <1>3. /\ prev \in I /\ next \in I /\ m.seg[next].prev = prev
        /\ prev < o /\ o < next
    BY DEF BetweenIdle
  <1>4. /\ next = m.info.lIdle /\ next # m.info.fIdle
        /\ m.seg[prev].next = next
        /\ \A q \in I : q <= next
    <2>1. next = m.info.lIdle /\ next # m.info.fIdle
      BY <1>2, <1>3, OffsetTypes DEF List, NextRight, PrevRight
    <2>2. \A q \in I : q <= next
      BY <1>2, <2>1, IdleOrder
    <2> QED BY <1>2, <1>3, <2>1, <2>2, IdleNeighbours
  <1>5. /\ L.seg[prev].off = prev /\ L.seg[prev].size = m.seg[prev].size
        /\ L.seg[o].off = o /\ L.seg[o].size = m.seg[o].size
        /\ L.seg[next].off = next /\ L.seg[next].size = m.seg[next].size
    BY <1>1, <1>2, <1>3 DEF SameSizes
  <1>6. L = [m EXCEPT !.seg = [@ EXCEPT
               ![prev].next = o, ![o].prev = m.seg[prev].off,
               ![o].next = m.seg[next].off, ![next].prev = o]]
    BY DEF LinkBetween
  <1> HIDE DEF L
  <1>7. L \in Mems /\ Touches(L.seg, prev, o)
    BY <1>1, <1>5 DEF Lists, Touches
  <1>8. /\ o # prev /\ o # next /\ next # prev
        /\ prev \in Offsets /\ next \in Offsets
        /\ o \in A /\ next \in A /\ prev \in A
        /\ next \in A \ {o} /\ prev \in A \ {o} /\ A \ {o} \in SUBSET Offsets
    BY <1>2, <1>3
  <1> HIDE DEF A
  <1>9. g \in Mems /\ g.info = L.info /\ Merged(L, g, A, prev, o)
    BY <1>1, <1>2, <1>7, <1>8, MergeTiles
  <1> HIDE DEF g
  <1>10. /\ g.seg[prev].off = prev /\ g.seg[next].off = next
         /\ g.seg[next].next = Nil
         /\ Tiled(g.seg, A \ {o}) /\ Touches(g.seg, prev, next)
         /\ g.seg[next].size = m.seg[next].size
    BY <1>1, <1>5, <1>8, <1>9
       DEF Merged, MergedFields, InsertedFields, Fields, Touches
  <1>11. Between(m, prev, o, next) = k
    BY <1>5, <1>6, <1>7, <1>10 DEF Between, Touches, g
  <1>12. /\ k \in Mems /\ IdleEnds(g, k, g.info.fIdle, prev)
         /\ Merged(g, k, A \ {o}, prev, next)
    BY <1>8, <1>9, <1>10, MergeNextTiles
  <1> HIDE DEF k
  <1>13. k.seg \in Segs
    BY <1>12, MemTypes
  <1>14. \A q \in Offsets : q # o /\ q # next =>
             /\ k.seg[q].off = m.seg[q].off
             /\ q # prev => k.seg[q].size = m.seg[q].size
             /\ k.seg[q].prev = m.seg[q].prev
             /\ k.seg[q].next = IF q = prev THEN Nil ELSE m.seg[q].next
    BY <1>1, <1>8, <1>9, <1>10, <1>12
       DEF Merged, MergedFields, InsertedFields, Fields
  <1>15. RemovedLinks(m.seg, k.seg, I, next)
    <2>1. \A q \in I : m.seg[q].next = next => q = prev
      BY <1>2, <1>3, OffsetTypes DEF List, NextRight
    <2>2. \A q \in I : m.seg[q].prev # next
      BY <1>2, <1>3, OffsetTypes DEF List, PrevRight
    <2> QED BY <1>2, <1>4, <1>14, <2>1, <2>2 DEF RemovedLinks
  <1>16. RemovedEnds(m.seg, next, m.info.fIdle, m.info.lIdle,
                     m.info.fIdle, prev)
    BY <1>3, <1>4 DEF RemovedEnds
  <1>17. List(k.seg, I \ {next}, Address, m.info.fIdle, prev)
    BY <1>2, <1>3, <1>13, <1>15, <1>16, ListRemove, AddressRank
  <1>18. SameLinks(m.seg, k.seg, U) /\ SameSizes(m.seg, k.seg, U)
    BY <1>2, <1>3, <1>14 DEF SameLinks, SameSizes
  <1>19. List(k.seg, U, rank, m.info.fUsed, m.info.lUsed)
    BY <1>2, <1>13, <1>18, ListSame
  <1>20. Lists(k, I \ {next}, U, rank)
    <2>1. /\ k.info.fIdle = m.info.fIdle /\ k.info.lIdle = prev
          /\ k.info.fUsed = m.info.fUsed /\ k.info.lUsed = m.info.lUsed
      BY <1>1, <1>9, <1>12 DEF IdleEnds
    <2> QED BY <1>2, <1>12, <1>17, <1>19, <2>1 DEF Lists
  <1>21. Tiled(k.seg, (I \ {next}) \cup U)
    <2>1. (A \ {o}) \ {next} = (I \ {next}) \cup U
      BY <1>2, <1>3 DEF A
    <2> QED BY <1>12, <2>1 DEF Merged
  <1>22. Apart(k.seg, I \ {next})
    <2>1. \A p, q \in I : p + m.seg[p].size # q
      BY DEF Dropping, Apart
    <2>2. prev + k.seg[prev].size = next + m.seg[next].size
      BY <1>10, <1>12 DEF Merged
    <2>3. \A q \in I : prev + k.seg[prev].size # q
      BY <1>2, <1>3, <1>4, <2>2 DEF A
    <2>4. \A q \in I \ {next} : q # prev => k.seg[q].size = m.seg[q].size
      BY <1>2, <1>14
    <2> QED BY <2>1, <2>3, <2>4 DEF Apart
  <1> QED
    BY <1>11, <1>18, <1>20, <1>21, <1>22 DEF Dropped

-----------------------------------------------------------------------------

\* The end of dropHashIdex: the header of the index is gone.
LEMMA DropFinish ==
    ASSUME NEW I, NEW U, NEW rank \in Ranks,
           Inv(seg, info, header, I, U, rank),
           NEW n \in Names, header[n] # Nil,
           NEW m, SameSizes(seg, m.seg, Offsets),
           NEW k, NEW J, Dropped(m, k, J, U \ {header[n]}, rank), Drop(n, k)
    PROVE  IInv'
  <1> DEFINE o == header[n]
             hd == [header EXCEPT ![n] = Nil]
  <1>1. header \in Headers /\ U \in SUBSET Offsets /\ Owned(seg, U, header)
    BY InvParts
  <1>2. SameSizes(seg, k.seg, U \ {o})
    BY <1>1 DEF SameSizes, Dropped
  <1>3. Owned(k.seg, U \ {o}, hd)
    BY <1>1, <1>2, OwnedLess
  <1>4. hd \in Headers
    BY <1>1, OffsetTypes DEF Headers
  <1>5. Inv(k.seg, k.info, hd, J, U \ {o}, rank)
    BY <1>3, <1>4, InvIntro DEF Dropped
  <1>6. J \in SUBSET Offsets /\ U \ {o} \in SUBSET Offsets
    BY <1>1 DEF Dropped, Lists
  <1>7. seg' = k.seg /\ info' = k.info /\ header' = hd
    BY DEF Drop
  <1> HIDE DEF hd, o
  <1> QED
    BY <1>5, <1>6, <1>7 DEF IInv

\* What dropHashIdex looks for: the first idle segment above o.
LEMMA HigherFound ==
    ASSUME NEW I, NEW U, NEW rank, Inv(seg, info, header, I, U, rank),
           NEW o \in U, NEW next \in Higher(o), seg[next].prev # Nil
    PROVE  next \in I /\ seg[next].prev \in I
           /\ seg[next].prev < o /\ o < next
  <1> DEFINE wanted == {q \in Offsets : o < seg[q].off}
             prev == seg[next].prev
  <1>1. /\ I \in SUBSET Offsets /\ U \in SUBSET Offsets /\ I \cap U = {}
        /\ List(seg, I, Address, info.fIdle, info.lIdle)
        /\ Tiled(seg, I \cup U)
    BY InvParts
  <1>2. wanted \in SUBSET Offsets /\ next \in Search(info.fIdle, wanted)
    BY DEF Higher
  <1>3. next \in I /\ next \in wanted /\ prev \notin wanted
    <2> HIDE DEF wanted
    <2> QED BY <1>1, <1>2, FoundIsFirst
  <1>4. prev \in I
    BY <1>1, <1>3 DEF List, PrevRight
  <1>5. /\ seg[next].off = next /\ seg[prev].off = prev
        /\ o \in Int /\ prev \in Int /\ next \in Int /\ prev # o
    BY <1>1, <1>3, <1>4, OffsetTypes DEF Tiled
  <1> QED
    BY <1>1, <1>3, <1>4, <1>5

LEMMA NoneHigher ==
    ASSUME NEW I, NEW U, NEW rank, Inv(seg, info, header, I, U, rank),
           NEW o \in U, Higher(o) = {}
    PROVE  \A q \in I : q < o
  <1> DEFINE wanted == {q \in Offsets : o < seg[q].off}
  <1>1. /\ I \in SUBSET Offsets /\ U \in SUBSET Offsets /\ I \cap U = {}
        /\ List(seg, I, Address, info.fIdle, info.lIdle)
        /\ Tiled(seg, I \cup U)
    BY InvParts
  <1>2. I \cap wanted = {}
    <2>1. Search(info.fIdle, wanted) = {}
      BY DEF Higher
    <2> HIDE DEF wanted
    <2> QED BY <1>1, <2>1, NothingFound, AddressRank
  <1>3. \A q \in I : seg[q].off = q /\ q \in Int /\ o \in Int /\ q # o
    BY <1>1, OffsetTypes DEF Tiled
  <1> QED
    BY <1>1, <1>2, <1>3

\* Unlink leaves the segment to be put among the idle ones.
LEMMA UnlinkDrops ==
    ASSUME NEW I, NEW U, NEW rank \in Ranks, NEW o \in U,
           Inv(seg, info, header, I, U, rank)
    PROVE  /\ Dropping(Unlink(o), I, U \ {o}, rank, o)
           /\ SameSizes(seg, Unlink(o).seg, Offsets)
           /\ SameLinks(seg, Unlink(o).seg, I)
           /\ Unlink(o).seg[o].next = seg[o].next
           /\ Unlink(o).info.fIdle = info.fIdle
           /\ Unlink(o).info.lIdle = info.lIdle
  <1> DEFINE m == Unlink(o)
  <1>1. /\ Lists(Mem, I, U, rank) /\ seg \in Segs
        /\ I \in SUBSET Offsets /\ U \in SUBSET Offsets /\ I \cap U = {}
        /\ Tiled(seg, I \cup U) /\ Apart(seg, I)
    BY InvParts, ZenonT(30)
  <1>2. /\ Lists(m, I, U \ {o}, rank) /\ SameSizes(seg, m.seg, Offsets)
        /\ SameLinks(seg, m.seg, I) /\ m.seg[o].next = seg[o].next
        /\ m.info.fIdle = info.fIdle /\ m.info.lIdle = info.lIdle
    BY <1>1, UnlinkLists
  <1> HIDE DEF m
  <1>3. m.seg \in Segs
    BY <1>2, MemTypes DEF Lists
  <1>4. SameSizes(seg, m.seg, I \cup U) /\ SameSizes(seg, m.seg, I)
    BY <1>1, <1>2 DEF SameSizes
  <1>5. Tiled(m.seg, I \cup U)
    BY <1>1, <1>3, <1>4, TiledSame
  <1>6. I \cup (U \ {o}) \cup {o} = I \cup U
    OBVIOUS
  <1>7. Tiled(m.seg, I \cup (U \ {o}) \cup {o})
    BY <1>5, <1>6
  <1>8. Apart(m.seg, I)
    BY <1>1, <1>4, ApartSame
  <1> QED
    BY <1>1, <1>2, <1>7, <1>8 DEF Dropping, m

LEMMA DropKeepsInv ==
    ASSUME NEW I, NEW U, NEW rank \in Ranks,
           Inv(seg, info, header, I, U, rank),
           NEW n \in Names, header[n] # Nil, Sound(n), dropHashIdex(n)
    PROVE  IInv'
  <1> DEFINE o == header[n]
             m == Unlink(o)
             V == U \ {o}
  <1>1. /\ seg \in Segs
        /\ I \in SUBSET Offsets /\ U \in SUBSET Offsets /\ I \cap U = {}
        /\ Tiled(seg, I \cup U)
        /\ List(seg, I, Address, info.fIdle, info.lIdle)
    BY InvParts
  <1>2. o \in U
    BY InvParts DEF Owned
  <1>3. /\ Dropping(m, I, V, rank, o)
        /\ SameSizes(seg, m.seg, Offsets) /\ SameLinks(seg, m.seg, I)
        /\ m.seg[o].next = seg[o].next
        /\ m.info.fIdle = info.fIdle /\ m.info.lIdle = info.lIdle
    BY <1>2, UnlinkDrops
  <1>4. \A q \in Offsets : m.seg[q].off = seg[q].off /\ m.seg[q].size = seg[q].size
    BY <1>3 DEF SameSizes
  <1>5. \/ info.fIdle = Nil /\ Drop(n, OnlyIdle(m, o))
        \/ info.fIdle # Nil /\ Higher(o) = {} /\ Drop(n, BehindLast(m, o))
        \/ \E next \in Higher(o) :
               /\ seg[next].prev # Nil
               /\ Drop(n, Between(m, seg[next].prev, o, next))
    BY DEF dropHashIdex
  <1>6. /\ info.fIdle # Nil /\ Higher(o) = {} /\ End(info.lIdle) = o
               => seg[o].next = Nil
        /\ \A next \in Higher(o) :
               /\ seg[next].prev # Nil
               /\ IF End(o) = next THEN seg[next].next = Nil
                                   ELSE End(seg[next].prev) # o
    BY DEF Sound
  <1> HIDE DEF m
  <1>7. ASSUME NEW k, NEW J, Dropped(m, k, J, V, rank), Drop(n, k)
        PROVE  IInv'
    BY <1>3, <1>7, DropFinish
  <1> HIDE DEF o, V
  <1>8. CASE info.fIdle = Nil /\ Drop(n, OnlyIdle(m, o))
    BY <1>3, <1>7, <1>8, OnlyIdleKeeps
  <1>9. CASE info.fIdle # Nil /\ Higher(o) = {} /\ Drop(n, BehindLast(m, o))
    <2>1. \A q \in I : q < o
      BY <1>2, <1>9, NoneHigher
    <2>2. info.lIdle \in Offsets
      BY <1>1, <1>9 DEF List, Ends
    <2>3. m.seg[m.info.lIdle].off + m.seg[m.info.lIdle].size = End(info.lIdle)
      BY <1>3, <1>4, <2>2 DEF End
    <2>4. CASE End(info.lIdle) = o
      <3>1. m.seg[o].next = Nil
        BY <1>3, <1>6, <1>9, <2>4
      <3>2. Dropped(m, BehindLast(m, o), I, V, rank)
        BY <1>3, <1>9, <2>1, <2>3, <2>4, <3>1, BehindLastMerges
      <3> QED BY <1>7, <1>9, <3>2
    <2>5. CASE End(info.lIdle) # o
      <3>1. Dropped(m, BehindLast(m, o), I \cup {o}, V, rank)
        BY <1>3, <1>9, <2>1, <2>3, <2>5, BehindLastAppends
      <3> QED BY <1>7, <1>9, <3>1
    <2> QED BY <2>4, <2>5
  <1>10. ASSUME NEW next \in Higher(o), seg[next].prev # Nil,
                Drop(n, Between(m, seg[next].prev, o, next))
         PROVE  IInv'
    <2>1. PICK prev : prev = seg[next].prev
      OBVIOUS
    <2>2. /\ next \in I /\ prev \in I /\ prev < o /\ o < next
      BY <1>2, <1>10, <2>1, HigherFound
    <2>3. m.seg[next].prev = prev /\ m.seg[next].next = seg[next].next
      BY <1>3, <2>1, <2>2 DEF SameLinks
    <2>4. BetweenIdle(m, I, prev, o, next)
      BY <2>2, <2>3 DEF BetweenIdle
    <2>5. /\ Touches(m.seg, prev, o) <=> End(prev) = o
          /\ Touches(m.seg, o, next) <=> End(o) = next
      <3>1. seg[prev].off = prev /\ seg[o].off = o
        BY <1>1, <1>2, <2>2 DEF Tiled
      <3>2. m.seg[prev].size = seg[prev].size /\ m.seg[o].size = seg[o].size
        BY <1>1, <1>2, <1>4, <2>2
      <3> QED BY <3>1, <3>2 DEF Touches, End
    <2>6. /\ Touches(m.seg, o, next) => m.seg[next].next = Nil
          /\ ~Touches(m.seg, o, next) => ~Touches(m.seg, prev, o)
      BY <1>6, <2>1, <2>3, <2>5
    <2>7. Drop(n, Between(m, prev, o, next))
      BY <1>10, <2>1
    <2>8. CASE Touches(m.seg, o, next) /\ Touches(m.seg, prev, o)
      <3>1. Dropped(m, Between(m, prev, o, next), I \ {next}, V, rank)
        BY <1>3, <2>4, <2>6, <2>8, BetweenMergesBoth
      <3> QED BY <1>7, <2>7, <3>1
    <2>9. CASE Touches(m.seg, o, next) /\ ~Touches(m.seg, prev, o)
      <3>1. Dropped(m, Between(m, prev, o, next),
                    (I \cup {o}) \ {next}, V, rank)
        BY <1>3, <2>4, <2>6, <2>9, BetweenMergesNext
      <3> QED BY <1>7, <2>7, <3>1
    <2>10. CASE ~Touches(m.seg, o, next)
      <3>1. Dropped(m, Between(m, prev, o, next), I \cup {o}, V, rank)
        BY <1>3, <2>4, <2>6, <2>10, BetweenLinks
      <3> QED BY <1>7, <2>7, <3>1
    <2> QED BY <2>8, <2>9, <2>10
  <1> QED
    BY <1>5, <1>8, <1>9, <1>10

-----------------------------------------------------------------------------
(* The invariant holds                                                     *)

LEMMA InitInv == Init => IInv
  <1> SUFFICES ASSUME Init PROVE IInv
    OBVIOUS
  <1> DEFINE I == {0}
             U == {}
             rank == Address
  <1>1. 0 \in Offsets /\ 0 # Nil /\ Nil \in Link /\ Offsets \subseteq Link
        /\ SpaceSize \in Nat /\ SpaceSize > 0 /\ 0 \in Link
    BY SpaceAssumption DEF Offsets, Nil, Link
  <1>2. /\ info.fIdle = 0 /\ info.lIdle = 0
        /\ info.fUsed = Nil /\ info.lUsed = Nil
        /\ seg[0].off = 0 /\ seg[0].size = SpaceSize
        /\ seg[0].prev = Nil /\ seg[0].next = Nil
        /\ \A n \in Names : header[n] = Nil
    BY <1>1 DEF Init
  <1>3. seg \in Segs
    BY <1>1 DEF Init, Segs, Cleared
  <1>4. info \in Infos /\ header \in Headers
    BY <1>1 DEF Init, Infos, Headers
  <1>5. List(seg, I, Address, 0, 0)
    BY <1>1, <1>2, OffsetTypes DEF List, Ends, NextRight, PrevRight, Ranked
  <1>6. List(seg, U, rank, Nil, Nil)
    BY DEF List, Ends, NextRight, PrevRight, Ranked
  <1>7. Tiled(seg, I \cup U)
    BY <1>1, <1>2, OffsetTypes DEF Tiled, Offsets
  <1>8. Apart(seg, I)
    BY <1>1, <1>2 DEF Apart
  <1>9. Owned(seg, U, header)
    BY <1>2 DEF Owned
  <1>10. Inv(seg, info, header, I, U, rank)
    BY <1>1, <1>2, <1>3, <1>4, <1>5, <1>6, <1>7, <1>8, <1>9 DEF Inv
  <1>11. I \in SUBSET Offsets /\ U \in SUBSET Offsets /\ rank \in Ranks
    BY <1>1, AddressRank
  <1> QED
    BY <1>10, <1>11 DEF IInv

LEMMA NextInv == IInv /\ [Next]_vars => IInv'
  <1> SUFFICES ASSUME IInv, [Next]_vars PROVE IInv'
    OBVIOUS
  <1>1. PICK I, U \in SUBSET Offsets, rank \in Ranks :
            Inv(seg, info, header, I, U, rank)
    BY DEF IInv
  <1>2. CASE UNCHANGED vars
    BY <1>1, <1>2 DEF IInv, vars
  <1>3. ASSUME NEW n \in Names, createHashIndex(n) PROVE IInv'
    BY <1>1, <1>3, CreateKeepsInv
  <1>4. ASSUME NEW n \in Names, createHashIndex_throw(n) PROVE IInv'
    BY <1>2, <1>4 DEF createHashIndex_throw
  <1>5. ASSUME NEW n \in Names, initHashSeg(n) PROVE IInv'
    BY <1>1, <1>5, ClearKeepsInv
  <1>6. ASSUME NEW n \in Names, header[n] # Nil, Sound(n), dropHashIdex(n)
        PROVE  IInv'
    BY <1>1, <1>6, DropKeepsInv
  <1> QED
    BY <1>2, <1>3, <1>4, <1>5, <1>6 DEF Next, Create

\* The inductive invariant holds in every reachable state of the index space.
THEOREM Invariance == Spec => []IInv
  BY InitInv, NextInv, PTL DEF Spec

-----------------------------------------------------------------------------
(* What follows from it                                                    *)

LEMMA InvTypes == IInv => TypeOK
  BY DEF IInv, Inv, TypeOK, Segs, Infos, Headers

\* Idle and Used, found along the links, are the segments of the invariant.
LEMMA InvLists ==
    ASSUME NEW I \in SUBSET Offsets, NEW U \in SUBSET Offsets,
           NEW rank \in Ranks, Inv(seg, info, header, I, U, rank)
    PROVE  Idle = I /\ Used = U
  <1>1. /\ List(seg, I, Address, info.fIdle, info.lIdle)
        /\ List(seg, U, rank, info.fUsed, info.lUsed)
    BY InvParts
  <1>2. Idle = I
    BY <1>1, WalkIsList, AddressRank DEF Idle
  <1>3. Used = U
    BY <1>1, WalkIsList DEF Used
  <1> QED
    BY <1>2, <1>3

LEMMA InvDisjoint == IInv => IndexesDisjoint
  <1> SUFFICES ASSUME IInv, NEW n \in Live, NEW k \in Live, n # k,
                      NEW c \in Cells(n), c \in Cells(k)
               PROVE  FALSE
    BY DEF IndexesDisjoint
  <1>1. PICK I, U \in SUBSET Offsets, rank \in Ranks :
            Inv(seg, info, header, I, U, rank)
    BY DEF IInv
  <1>2. /\ seg \in Segs /\ Tiled(seg, I \cup U) /\ Owned(seg, U, header)
    BY <1>1, InvParts
  <1>3. /\ n \in Names /\ header[n] # Nil /\ k \in Names /\ header[k] # Nil
    BY DEF Live
  <1>4. PICK a \in U, b \in U : a = header[n] /\ b = header[k]
    BY <1>2, <1>3 DEF Owned
  <1>5. a # b /\ seg[a].size >= needSize(n) /\ seg[b].size >= needSize(k)
    BY <1>2, <1>3, <1>4 DEF Owned
  <1>6. /\ a \in Int /\ b \in Int /\ seg[a].size \in Int /\ seg[b].size \in Int
        /\ HashSize[n] \in Nat /\ HashSize[k] \in Nat
    BY <1>2, <1>3, SegTypes, SpaceAssumption
  <1>7. /\ c \in Int /\ a <= c /\ c <= a + HashSize[n]
        /\ b <= c /\ c <= b + HashSize[k]
    BY <1>4, <1>6 DEF Cells
  <1>8. c < a + seg[a].size /\ c < b + seg[b].size
    BY <1>5, <1>6, <1>7 DEF needSize
  <1>9. /\ a < b => a + seg[a].size <= b
        /\ b < a => b + seg[b].size <= a
    BY <1>2, <1>4 DEF Tiled
  <1> QED
    BY <1>5, <1>6, <1>7, <1>8, <1>9

LEMMA InvCovered == IInv => SpaceCovered
  <1> SUFFICES ASSUME IInv PROVE SpaceCovered
    OBVIOUS
  <1>1. PICK I, U \in SUBSET Offsets, rank \in Ranks :
            Inv(seg, info, header, I, U, rank)
    BY DEF IInv
  <1>2. Idle = I /\ Used = U
    BY <1>1, InvLists
  <1>3. /\ seg \in Segs /\ Tiled(seg, I \cup U) /\ Owned(seg, U, header)
        /\ I \cap U = {}
    BY <1>1, InvParts
  <1>4. ASSUME NEW c \in Offsets
        PROVE  Cardinality({o \in I \cup U : c \in seg[o].off..(End(o) - 1)}) = 1
    <2> DEFINE C == {o \in I \cup U : c \in seg[o].off..(End(o) - 1)}
    <2>1. /\ c \in Int
          /\ \A o \in I \cup U : /\ o \in Int /\ seg[o].size \in Int
                                 /\ seg[o].off = o /\ End(o) = o + seg[o].size
      BY <1>3, SegTypes, OffsetTypes DEF Tiled, End
    <2>2. \A o \in I \cup U : o \in C <=> o <= c /\ c < o + seg[o].size
      BY <2>1
    <2>3. PICK o \in I \cup U : o <= c /\ c < o + seg[o].size
      BY <1>3 DEF Tiled
    <2>4. ASSUME NEW q \in C PROVE q = o
      <3>1. q \in I \cup U /\ q <= c /\ c < q + seg[q].size
        BY <2>2
      <3>2. /\ q < o => q + seg[q].size <= o
            /\ o < q => o + seg[o].size <= q
        BY <1>3, <3>1 DEF Tiled
      <3> QED BY <2>1, <2>3, <3>1, <3>2
    <2>5. C = {o}
      BY <2>2, <2>3, <2>4
    <2> HIDE DEF C
    <2>6. Cardinality(C) = 1
      BY <2>5, FS_Singleton
    <2> QED BY <2>6 DEF C
  <1>5. U = {header[n] : n \in Live}
    <2>1. \A o \in U : o # Nil
      BY OffsetTypes
    <2> QED BY <1>3, <2>1 DEF Owned, Live
  <1> QED
    BY <1>2, <1>3, <1>4, <1>5 DEF SpaceCovered

LEMMA InvCoalesced == IInv => Coalesced
  <1> SUFFICES ASSUME IInv PROVE Coalesced
    OBVIOUS
  <1>1. PICK I, U \in SUBSET Offsets, rank \in Ranks :
            Inv(seg, info, header, I, U, rank)
    BY DEF IInv
  <1>2. Idle = I
    BY <1>1, InvLists
  <1>3. Tiled(seg, I \cup U) /\ Apart(seg, I)
    BY <1>1, InvParts
  <1> QED
    BY <1>2, <1>3 DEF Coalesced, Apart, Tiled, End

\* The theorems are about Spec, in which every drop is Sound: an index is not
\* dropped in front of all idle segments, is merged with the last of them only
\* from the end of the used list (IndexMemMgr.cpp:322), and is not merged when
\* there is an idle segment behind the one merged away (lines 344, 352).

\* Offsets, sizes and links of all headers stay inside the index space.
THEOREM TypeCorrect == Spec => []TypeOK
  BY Invariance, InvTypes, PTL

\* createHashIndex never lays an index over the header or the array of another,
\* whatever the sizes of the indexes and of the space, after any sound drops.
THEOREM IndexesAreDisjoint == Spec => []IndexesDisjoint
  BY Invariance, InvDisjoint, PTL

\* Every cell of the space belongs to exactly one segment of the two lists, and
\* the used segments are those of the indexes: splits and sound merges lose none.
THEOREM SpaceIsCovered == Spec => []SpaceCovered
  BY Invariance, InvCovered, PTL

\* A sound dropHashIdex leaves no two idle segments that touch.
THEOREM IdleIsCoalesced == Spec => []Coalesced
  BY Invariance, InvCoalesced, PTL
===============================================================================
