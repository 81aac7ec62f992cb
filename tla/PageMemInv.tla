----------------------------- MODULE PageMemInv ------------------------------
(***************************************************************************)
(* The inductive invariant of PageMem.                                     *)
(*                                                                         *)
(* Whether a page is lost or in two places is a matter of links, and a     *)
(* link says nothing of the pages it does not lead to.  The invariant      *)
(* therefore gives every page a place, and says of every list that it is   *)
(* made of exactly the pages of one place.                                 *)
(***************************************************************************)
EXTENDS PageMem

\* Idle in a space, in the list of a descriptor, or with a request on it.
Place == ({"idle"} \X Spaces) \cup ({"list", "new"} \X Descs)
PagesAt(place, x) == {p \in Page : place[p] = x}

Distinct(q) == \A i, j \in 1..Len(q) : q[i] = q[j] => i = j

\* The links from first to last pass through the pages of q, in this order.
IsList(q, first, last, link) ==
    /\ q \in Seq(Page) /\ Distinct(q)
    /\ first = IF Len(q) = 0 THEN NullPos ELSE q[1]
    /\ last = IF Len(q) = 0 THEN NullPos ELSE q[Len(q)]
    /\ \A i \in 1..Len(q) :
           link[q[i]] = IF i = Len(q) THEN NullPos ELSE q[i + 1]

PageHeader == [next : Link, nextNotFull : Link, idleNum : Nat, idle : Seq(Nat)]

SpaceHeader == [first : Link, last : Link, idleNum : Nat]
DescHeader ==
    [first : Link, last : Link, firstNotFull : Link, lastNotFull : Link]

Shape ==
    /\ space \in [Spaces -> SpaceHeader]
    /\ page \in [Page -> PageHeader]
    /\ \A p \in Page : page[p].idleNum = Len(page[p].idle)
    /\ desc \in [Descs -> DescHeader]
    /\ used \in [Descs -> SUBSET (Page \X Nat)]
    /\ pc \in [Descs -> PCs]
    /\ need \in [Descs -> Nat]
    /\ old \in [Descs -> Seq(Page \X Nat)]
    /\ new \in [Descs -> Seq(Page \X Nat)]
    /\ newPages \in [Descs -> Seq(Page)]
    /\ nth \in [Descs -> Nat \ {0}]
    /\ walk \in [Descs -> Link]

\* All that the request on a descriptor works with.
Request(d) ==
    [desc |-> desc[d], used |-> used[d], pc |-> pc[d], need |-> need[d],
     old |-> old[d], new |-> new[d], newPages |-> newPages[d], walk |-> walk[d]]

\* What follows is said of a state of the pages, pg, of a space, sp, and of a
\* request, r, so that it can be said of a state and of the next one alike.
NextIn(pg) == [p \in Page |-> pg[p].next]
NextNotFullIn(pg) == [p \in Page |-> pg[p].nextNotFull]

\* The list of idle pages of a space has its own pages, as many as m_idleNum.
IdleInv(place, pg, s, sp) ==
    /\ \E q \in Seq(Page) :
           /\ IsList(q, sp.first, sp.last, NextIn(pg))
           /\ Range(q) = PagesAt(place, <<"idle", s>>)
           /\ Len(q) = sp.idleNum
    /\ PagesAt(place, <<"idle", s>>) \subseteq Range(PageList[s])

\* The list of a descriptor; while it is truncated, what is left of it.
ListInv(place, pg, d, r) ==
    \E q \in Seq(Page), last \in Link :
        /\ IsList(q, IF r.pc = "truncate" THEN r.walk ELSE r.desc.first,
                  last, NextIn(pg))
        /\ r.pc # "truncate" => last = r.desc.last
        /\ Range(q) = PagesAt(place, <<"list", d>>)

\* The pages of the list that have idle slots; the others have no link, as
\* freeMem relies on.
QueueInv(place, pg, d, r) ==
    r.pc # "truncate" =>
        /\ \E q \in Seq(Page) :
               /\ IsList(q, r.desc.firstNotFull, r.desc.lastNotFull,
                         NextNotFullIn(pg))
               /\ Range(q) = {p \in PagesAt(place, <<"list", d>>) :
                                  pg[p].idleNum > 0}
        /\ \A p \in PagesAt(place, <<"list", d>>) :
               pg[p].idleNum > 0 \/ pg[p].nextNotFull = NullPos

NewInv(place, d, r) ==
    /\ Distinct(r.newPages)
    /\ Range(r.newPages) = PagesAt(place, <<"new", d>>)

SlotsAt(place, x, d) == PagesAt(place, x) \X (1..SlotNum[d])
Given(r) == r.used \cup Range(r.old) \cup Range(r.new)

\* A slot is given once: to the caller, or to the request from an old page or
\* from a new one.
GivenInv(place, d, r) ==
    /\ r.used \subseteq SlotsAt(place, <<"list", d>>, d)
    /\ Range(r.old) \subseteq SlotsAt(place, <<"list", d>>, d)
    /\ Range(r.new) \subseteq SlotsAt(place, <<"list", d>>, d)
                              \cup SlotsAt(place, <<"new", d>>, d)
    /\ r.need > 0 => Range(r.new) \subseteq SlotsAt(place, <<"new", d>>, d)
    /\ Distinct(r.old) /\ Distinct(r.new)
    /\ r.used \cap Range(r.old) = {}
    /\ r.used \cap Range(r.new) = {}
    /\ Range(r.old) \cap Range(r.new) = {}

\* The pages whose idle slots mean something, and their slots that are not
\* given.
Live(place, d, r, p) ==
    \/ place[p] = <<"list", d>> /\ r.pc # "truncate"
    \/ place[p] = <<"new", d>> /\ r.pc = "new"
Ungiven(d, r, p) == {i \in 1..SlotNum[d] : <<p, i>> \notin Given(r)}

SlotInv(place, pg, d, r) ==
    \A p \in Page : Live(place, d, r, p) =>
        /\ Distinct(pg[p].idle)
        /\ Range(pg[p].idle) = Ungiven(d, r, p)

\* What a request has in hand at each of its control points.
RequestInv(r) ==
    /\ r.pc \in {"idle", "truncate"} => r.old = <<>> /\ r.newPages = <<>>
    /\ r.pc # "new" => r.new = <<>>
    /\ r.pc = "truncate" => r.used = {}
    /\ r.pc = "old" => /\ r.newPages = <<>> /\ r.need > 0
                       /\ r.desc.firstNotFull # NullPos
    /\ r.pc \in {"old", "new"} =>
           r.need + Len(r.old) + Len(r.new) \in 1..MaxRequest
    /\ r.pc \notin {"old", "new"} => r.need = 0

DescInv(place, pg, d, r) ==
    /\ ListInv(place, pg, d, r) /\ QueueInv(place, pg, d, r)
    /\ NewInv(place, d, r) /\ GivenInv(place, d, r)
    /\ SlotInv(place, pg, d, r) /\ RequestInv(r)

PlacesInv(place) ==
    /\ \A s \in Spaces : IdleInv(place, page, s, space[s])
    /\ \A d \in Descs : DescInv(place, page, d, Request(d))

IInv == Shape /\ \E place \in [Page -> Place] : PlacesInv(place)
==============================================================================
