----------------------------- MODULE IndexMemInv ------------------------------
(***************************************************************************)
(* The inductive invariant of the index space.  The segments of a list are *)
(* given as a set and a rank: the links follow the rank, which for the     *)
(* idle list is the address.                                               *)
(***************************************************************************)
EXTENDS IndexMem

Segs == [Offsets -> [off : Offsets, size : 0..SpaceSize,
                     prev : Link, next : Link]]
Infos == [fIdle : Link, lIdle : Link, fUsed : Link, lUsed : Link]
Headers == [Names -> Link]
Ranks == [Offsets -> Nat]

-----------------------------------------------------------------------------

\* The ends of a list are its own, and are there unless it is empty.
Ends(S, first, last) ==
    /\ first \in S \cup {Nil} /\ (first = Nil <=> S = {})
    /\ last \in S \cup {Nil} /\ (last = Nil <=> S = {})

\* The links in front of and behind a segment.
NextRight(sg, S, rank, last) ==
    \A o \in S :
        /\ o = last <=> sg[o].next = Nil
        /\ o # last => /\ sg[o].next \in S
                       /\ rank[o] < rank[sg[o].next]
                       /\ sg[sg[o].next].prev = o
PrevRight(sg, S, first) ==
    \A o \in S :
        /\ o = first <=> sg[o].prev = Nil
        /\ o # first => sg[o].prev \in S /\ sg[sg[o].prev].next = o

\* Neighbours in the list are neighbours by rank.
Ranked(sg, S, rank) ==
    /\ \A o, q \in S : rank[o] = rank[q] => o = q
    /\ \A o, q \in S : rank[o] < rank[q] =>
           /\ sg[o].next # Nil /\ rank[sg[o].next] <= rank[q]
           /\ sg[q].prev # Nil /\ rank[o] <= rank[sg[q].prev]

List(sg, S, rank, first, last) ==
    /\ Ends(S, first, last)
    /\ NextRight(sg, S, rank, last)
    /\ PrevRight(sg, S, first)
    /\ Ranked(sg, S, rank)

Address == [o \in Offsets |-> o]

-----------------------------------------------------------------------------

\* The segments A lie one behind the other, from one end of the space to the
\* other.
Tiled(sg, A) ==
    /\ \A o \in A : sg[o].off = o /\ sg[o].size > 0
    /\ \A o \in A : o + sg[o].size <= SpaceSize
    /\ \A o, q \in A : o < q => o + sg[o].size <= q
    /\ \A c \in Offsets : \E o \in A : o <= c /\ c < o + sg[o].size

Apart(sg, I) == \A o, q \in I : o + sg[o].size # q

\* Every used segment is that of one index, and long enough for it.
Owned(sg, U, hd) ==
    /\ \A n \in Names : hd[n] # Nil =>
           hd[n] \in U /\ sg[hd[n]].size >= needSize(n)
    /\ \A n, k \in Names : hd[n] # Nil /\ hd[n] = hd[k] => n = k
    /\ \A o \in U : \E n \in Names : hd[n] = o

Inv(sg, ends, hd, I, U, rank) ==
    /\ sg \in Segs /\ ends \in Infos /\ hd \in Headers
    /\ I \subseteq Offsets /\ U \subseteq Offsets /\ I \cap U = {}
    /\ List(sg, I, Address, ends.fIdle, ends.lIdle)
    /\ List(sg, U, rank, ends.fUsed, ends.lUsed)
    /\ Tiled(sg, I \cup U)
    /\ Apart(sg, I)
    /\ Owned(sg, U, hd)

\* The idle and the used segments with a rank for the used ones.
IInv ==
    \E I, U \in SUBSET Offsets, rank \in Ranks :
        Inv(seg, info, header, I, U, rank)
===============================================================================
