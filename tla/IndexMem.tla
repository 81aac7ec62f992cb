------------------------------- MODULE IndexMem -------------------------------
(***************************************************************************)
(* The index space (mdb/memMgr/IndexMemMgr.cpp): segments for the arrays   *)
(* of hash indexes, cut from the idle segments and merged again when an    *)
(* index is dropped.  createHashIndex and dropHashIdex hold the lock of    *)
(* the space; initHashSeg takes none, and writes the array of its index.   *)
(*                                                                         *)
(* Offsets and sizes count cells, in which a header takes one; the header  *)
(* of a segment is memory like any other, and keeps its old contents when  *)
(* the segment is merged, until a new array is laid over it.               *)
(***************************************************************************)
EXTENDS Integers, FiniteSets

CONSTANTS
    Names,       \* indexes
    HashSize,    \* by index, the cells of its array
    SpaceSize    \* cells of the space

ASSUME SpaceAssumption ==
    /\ IsFiniteSet(Names) /\ SpaceSize \in Nat \ {0}
    /\ HashSize \in [Names -> Nat \ {0}]

Nil == -1
Offsets == 0..(SpaceSize - 1)
Link == Offsets \cup {Nil}
needSize(n) == 1 + HashSize[n]

VARIABLES
    seg,       \* HashIndexSeg by offset: m_sOffSet, m_segSize, m_prev, m_next
    info,      \* IndexSegInfo: the ends of the idle and of the used list
    header     \* by index, where its segment is (IndexDesc::m_header)

vars == <<seg, info, header>>

-----------------------------------------------------------------------------

\* The segments that a loop visits: from first along m_next to the end of the
\* list, or to one that it looks for.  They are the least set that has first,
\* and the next one of every other member.
Linked(first) == ({first} \cup {seg[o].next : o \in Offsets}) \ {Nil}
Walk(first, wanted) ==
    LET closed == {S \in SUBSET Linked(first) :
                      /\ first \in S \cup {Nil}
                      /\ \A o \in S \ wanted : seg[o].next \in S \cup {Nil}}
    IN  {o \in Linked(first) : \A S \in closed : o \in S}
\* What it finds, if anything.
Search(first, wanted) == Walk(first, wanted) \cap wanted

Idle == Walk(info.fIdle, {})
Used == Walk(info.fUsed, {})
End(o) == seg[o].off + seg[o].size

-----------------------------------------------------------------------------
(* createHashIndex.  A state of headers and list ends is [seg, info].      *)

Fit(n) == Search(info.fIdle, {o \in Offsets : seg[o].size >= needSize(n)})

\* Seeded fault: the header behind a segment taken whole keeps its m_prev.
Fault_TakeWhole(o) ==
    LET prev == seg[o].prev
        next == seg[o].next
    IN  [seg |-> IF prev = Nil THEN seg ELSE [seg EXCEPT ![prev].next = next],
         info |-> [info EXCEPT !.fIdle = IF prev = Nil THEN next ELSE @,
                               !.lIdle = IF next = Nil THEN prev ELSE @]]

\* A segment with less than two headers to spare is taken whole.
TakeWhole(o) ==
    LET prev == seg[o].prev
        next == seg[o].next
    IN  [seg |-> [q \in Offsets |->
                     IF q = prev THEN [seg[q] EXCEPT !.next = next]
                     ELSE IF q = next THEN [seg[q] EXCEPT !.prev = prev]
                     ELSE seg[q]],
         info |-> [info EXCEPT !.fIdle = IF prev = Nil THEN next ELSE @,
                               !.lIdle = IF next = Nil THEN prev ELSE @]]

\* Seeded fault: the idle segment keeps its size.
Fault_Split(o, size) ==
    LET at == End(o) - size
    IN  [seg |-> [seg EXCEPT ![at] = [@ EXCEPT !.off = at, !.size = size]],
         info |-> info]

\* From a larger one the end is cut off.
Split(o, size) ==
    LET left == seg[o].size - size
        cut == [seg EXCEPT ![o].size = left]
    IN  [seg |-> [cut EXCEPT ![seg[o].off + left] =
                     [@ EXCEPT !.off = seg[o].off + left, !.size = size]],
         info |-> info]

\* The segment goes to the end of the used list.
AppendUsed(m, o) ==
    LET last == m.info.lUsed
        own == [m.seg EXCEPT ![o].prev = last, ![o].next = Nil]
    IN  [seg |-> IF last = Nil THEN own ELSE [own EXCEPT ![last].next = o],
         info |-> [m.info EXCEPT !.lUsed = o,
                                 !.fUsed = IF last = Nil THEN o ELSE @]]

\* initHash clears the array.
Cleared == [off |-> 0, size |-> 0, prev |-> 0, next |-> 0]
initHash(m, o, n) ==
    [m EXCEPT !.seg = [q \in Offsets |->
        IF q \in (o + 1)..(o + HashSize[n]) THEN Cleared ELSE @[q]]]

createHashIndex(n) ==
    \E o \in Fit(n) :
        LET whole == seg[o].size < needSize(n) + 2
            at == IF whole THEN o ELSE End(o) - needSize(n)
            m == initHash(AppendUsed(IF whole THEN TakeWhole(o)
                                              ELSE Split(o, needSize(n)), at),
                          at, n)
        IN  /\ header[n] = Nil
            /\ seg' = m.seg /\ info' = m.info
            /\ header' = [header EXCEPT ![n] = at]

\* No idle segment is large enough: nothing is done, and createIndex takes the
\* descriptor away again.
createHashIndex_throw(n) ==
    /\ header[n] = Nil /\ Fit(n) = {}
    /\ UNCHANGED vars

\* truncateIndex clears the array in place.
initHashSeg(n) ==
    /\ header[n] # Nil
    /\ seg' = initHash([seg |-> seg], header[n], n).seg
    /\ UNCHANGED <<info, header>>

-----------------------------------------------------------------------------
(* dropHashIdex                                                            *)

\* Step 3: out of the used list.
Unlink(o) ==
    LET prev == seg[o].prev
        next == seg[o].next
    IN  [seg |-> [q \in Offsets |->
                     IF o # info.fUsed /\ q = prev
                     THEN [seg[q] EXCEPT !.next = next]
                     ELSE IF o # info.lUsed /\ q = next
                     THEN [seg[q] EXCEPT !.prev = prev]
                     ELSE seg[q]],
         info |-> [info EXCEPT !.fUsed = IF o = info.fUsed THEN next ELSE @,
                               !.lUsed = IF o = info.lUsed THEN prev ELSE @]]

\* Step 4, on an empty idle list.
OnlyIdle(m, o) ==
    [seg |-> [m.seg EXCEPT ![o].prev = Nil, ![o].next = Nil],
     info |-> [m.info EXCEPT !.fIdle = o, !.lIdle = o]]

\* Seeded fault: the merged segment keeps the size of its first part.
Fault_BehindLast(m, o) ==
    LET last == m.info.lIdle
        l == m.seg[last]
    IN  IF l.off + l.size = o
        THEN [m EXCEPT !.seg[last].next = m.seg[o].next]
        ELSE [seg |-> [m.seg EXCEPT ![o].prev = last, ![o].next = Nil,
                                    ![last].next = o],
              info |-> [m.info EXCEPT !.lIdle = o]]

\* Step 4, behind the last idle segment: merged with it or appended.
BehindLast(m, o) ==
    LET last == m.info.lIdle
        l == m.seg[last]
    IN  IF l.off + l.size = o
        THEN [m EXCEPT !.seg[last].size = @ + m.seg[o].size,
                       !.seg[last].next = m.seg[o].next]
        ELSE [seg |-> [m.seg EXCEPT ![o].prev = last, ![o].next = Nil,
                                    ![last].next = o],
              info |-> [m.info EXCEPT !.lIdle = o]]

\* Seeded fault: the end of the second part is taken for its size.
Fault_Merge(m, prev, o) ==
    [m EXCEPT !.seg[prev].size = @ + m.seg[o].off + m.seg[o].size,
              !.seg[prev].next = m.seg[o].next]

\* Step 5.1: prev and o become one segment, at prev.
Merge(m, prev, o) ==
    [m EXCEPT !.seg[prev].size = @ + m.seg[o].size,
              !.seg[prev].next = m.seg[o].next]

\* Seeded fault: no merge with the following segment.
Fault_MergeNext(m, o, next) == m

\* Step 5.2: as 5.1, and the last idle segment may be another one.
MergeNext(m, o, next) ==
    LET merged == Merge(m, o, next)
    IN  IF merged.seg[o].next = Nil
        THEN [merged EXCEPT !.info.lIdle = m.seg[o].off] ELSE merged

\* Steps 4 and 5 between two idle segments.
Between(m, prev, o, next) ==
    LET linked == [m EXCEPT !.seg = [@ EXCEPT
                      ![prev].next = o, ![o].prev = m.seg[prev].off,
                      ![o].next = m.seg[next].off, ![next].prev = o]]
        p == linked.seg[prev]
        joins == p.off + p.size = o
        one == IF joins THEN Merge(linked, prev, o) ELSE linked
        at == IF joins THEN prev ELSE o
        a == one.seg[at]
    IN  IF a.off + a.size = one.seg[next].off THEN MergeNext(one, at, next)
                                              ELSE one

\* The first idle segment at a higher address.
Higher(o) == Search(info.fIdle, {q \in Offsets : o < seg[q].off})

Drop(n, m) ==
    /\ seg' = m.seg /\ info' = m.info
    /\ header' = [header EXCEPT ![n] = Nil]

\* In front of the first idle segment there is no header at m_prev = -1: the
\* code goes on with the bytes in front of the shared memory, and what it does
\* is not modelled.
dropHashIdex(n) ==
    LET o == header[n]
        m == Unlink(o)
    IN  /\ o # Nil /\ o \in Used
        /\ \/ info.fIdle = Nil /\ Drop(n, OnlyIdle(m, o))
           \/ /\ info.fIdle # Nil /\ Higher(o) = {}
              /\ Drop(n, BehindLast(m, o))
           \/ \E next \in Higher(o) :
                  /\ seg[next].prev # Nil
                  /\ Drop(n, Between(m, seg[next].prev, o, next))

\* The segment is not in the used list: only the descriptor is deleted.
dropHashIdex_throw(n) ==
    /\ header[n] # Nil /\ header[n] \notin Used
    /\ header' = [header EXCEPT ![n] = Nil]
    /\ UNCHANGED <<seg, info>>

-----------------------------------------------------------------------------

Init ==
    /\ seg = [o \in Offsets |-> IF o = 0 THEN [off |-> 0, size |-> SpaceSize,
                                               prev |-> Nil, next |-> Nil]
                                ELSE Cleared]
    /\ info = [fIdle |-> 0, lIdle |-> 0, fUsed |-> Nil, lUsed |-> Nil]
    /\ header = [n \in Names |-> Nil]

\* The drops after which the links are right: not in front of all idle
\* segments; merged with the last one only at the end of the used list; and no
\* idle segment behind one that is merged away, since its m_prev stays.
Sound(n) ==
    LET o == header[n]
    IN  /\ info.fIdle # Nil /\ Higher(o) = {} /\ End(info.lIdle) = o
              => seg[o].next = Nil
        /\ \A next \in Higher(o) :
               /\ seg[next].prev # Nil
               /\ IF End(o) = next THEN seg[next].next = Nil
                                   ELSE End(seg[next].prev) # o

Create(n) ==
    createHashIndex(n) \/ createHashIndex_throw(n) \/ initHashSeg(n)

\* Indexes are dropped in sound orders only,
Next ==
    \E n \in Names :
        Create(n) \/ (header[n] # Nil /\ Sound(n) /\ dropHashIdex(n))
Spec == Init /\ [][Next]_vars

\* or in any order.
AnyNext ==
    \E n \in Names : Create(n) \/ dropHashIdex(n) \/ dropHashIdex_throw(n)
AnySpec == Init /\ [][AnyNext]_vars

-----------------------------------------------------------------------------

\* Offsets and sizes stay inside the space.
TypeOK ==
    /\ seg \in [Offsets -> [off : Offsets, size : 0..SpaceSize,
                            prev : Link, next : Link]]
    /\ info \in [fIdle : Link, lIdle : Link, fUsed : Link, lUsed : Link]
    /\ header \in [Names -> Link]

Cells(n) == header[n]..(header[n] + HashSize[n])
Live == {n \in Names : header[n] # Nil}

\* The memory of an index is its own: no other index is laid over its header
\* or its array.
IndexesDisjoint ==
    \A n, k \in Live : n # k => Cells(n) \cap Cells(k) = {}

\* Idle and used segments cover the space without gap or overlap, and the used
\* ones are those of the indexes: nothing is lost.
SpaceCovered ==
    /\ Idle \cap Used = {}
    /\ \A c \in Offsets :
           Cardinality({o \in Idle \cup Used :
                           c \in seg[o].off..(End(o) - 1)}) = 1
    /\ Used = {header[n] : n \in Live}

\* Idle segments that touch are merged, so that a request is refused only if
\* no stretch of idle memory is long enough.
Coalesced == \A o, q \in Idle : End(o) # q

\* Both lists read the same backwards, and end where they are said to end.
ReadsBothWays(S, first, last) ==
    /\ last \in S \cup {Nil} /\ (last = Nil <=> S = {})
    /\ \A o \in S :
           /\ seg[o].prev = Nil <=> o = first
           /\ seg[o].next = Nil <=> o = last
           /\ o # last => seg[seg[o].next].prev = o
LinkedBothWays ==
    /\ ReadsBothWays(Idle, info.fIdle, info.lIdle)
    /\ ReadsBothWays(Used, info.fUsed, info.lUsed)
===============================================================================
