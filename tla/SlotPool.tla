------------------------------- MODULE SlotPool -------------------------------
(***************************************************************************)
(* What the memory of tables and indexes promises (mdb/memMgr): a slot is  *)
(* given to one caller at a time, and no page serves two descriptors.      *)
(* PageMem implements it.                                                  *)
(***************************************************************************)
EXTENDS Naturals, FiniteSets

CONSTANTS
    Descs,       \* descriptors, of tables and of indexes
    Page,        \* the pages of all spaces
    MaxRequest   \* bound on the slots of one request

VARIABLE used    \* by descriptor, the slots <<page, number>> its callers have

PagesOf(S) == {slot[1] : slot \in S}
Elsewhere(d) == UNION {PagesOf(used[e]) : e \in Descs \ {d}}

Init == used = [d \in Descs |-> {}]

\* The caller gets new slots of pages that nobody else uses.
Allocate(d) ==
    /\ used[d] \subseteq used'[d]
    /\ Cardinality(used'[d] \ used[d]) \in 1..MaxRequest
    /\ PagesOf(used'[d]) \subseteq Page \ Elsewhere(d)

Free(d) == \E slot \in used[d] : used'[d] = used[d] \ {slot}

Truncate(d) == used'[d] = {}

Next ==
    \E d \in Descs :
        /\ Allocate(d) \/ Free(d) \/ Truncate(d)
        /\ \A e \in Descs \ {d} : used'[e] = used[e]

Spec == Init /\ [][Next]_used
===============================================================================
