------------------------------- MODULE PageMem -------------------------------
(***************************************************************************)
(* The memory of tables and indexes (mdb/memMgr): pages of equal slots,    *)
(* linked from spaces and from descriptors (PageInfo.cpp, PageMemMgr.cpp,  *)
(* TableSpaceMgr.cpp, TableMemMgr.cpp), and the requests of MemManager     *)
(* (MemManager_table.cpp) on them.                                         *)
(*                                                                         *)
(* A descriptor is used under its table's write lock, by one caller at a   *)
(* time.  A space is shared: its own lock is taken for one page at a time, *)
(* so requests for different tables interleave page by page.               *)
(***************************************************************************)
EXTENDS Naturals, Sequences, FiniteSets, Functions

CONSTANTS
    Descs,       \* descriptors (DescPageInfo), of tables and of indexes
    Spaces,      \* table spaces
    PageList,    \* by space, its pages in the order of their addresses
    SpaceList,   \* by descriptor, the spaces it may take pages from, in order
    SlotNum,     \* by descriptor, how many of its slots fit in a page
    MaxRequest,  \* bound on the slots asked for at once
    NullPos      \* NULL_SHMPOS

Page == UNION {Range(PageList[s]) : s \in Spaces}
SpaceOf(p) == CHOOSE s \in Spaces : p \in Range(PageList[s])

ASSUME PagesAssumption ==
    /\ IsFiniteSet(Spaces) /\ PageList \in [Spaces -> Seq(Page)]
    /\ \A s, t \in Spaces : s # t => Range(PageList[s]) \cap Range(PageList[t]) = {}
    /\ \A s \in Spaces : \A i, j \in 1..Len(PageList[s]) :
           PageList[s][i] = PageList[s][j] => i = j
    /\ NullPos \notin Page
ASSUME DescsAssumption ==
    /\ IsFiniteSet(Descs) /\ SpaceList \in [Descs -> Seq(Spaces)]
    /\ SlotNum \in [Descs -> Nat \ {0}] /\ MaxRequest \in Nat

VARIABLES
    space,     \* PageListInfo of each space: first and last idle page, number
    page,      \* PageInfo: links to the next page of its list and of its
               \*   not-full queue, number of idle slots, the idle slots
    desc,      \* DescPageInfo: ends of the page list and the not-full queue
    used,      \* the slots that callers have and have not freed
    pc,        \* control point of the request on each descriptor
    need,      \* t_needNum
    old,       \* r_slotAddrList: the slots got from old pages, then
    new,       \*   from new ones
    newPages,  \* t_pageList
    nth,       \* the space of SpaceList that is asked
    walk       \* t_pagePos of truncateTable and truncateIndex

requestVars == <<pc, need, old, new, newPages, nth>>
vars == <<space, page, desc, used, requestVars, walk>>

PCs == {"idle", "old", "new", "undo", "truncate"}
Slots(p, from) == [i \in 1..Len(from) |-> <<p, from[i]>>]
Goto(d, l) == pc' = [pc EXCEPT ![d] = l]

-----------------------------------------------------------------------------
(* PageInfo: idle slots are taken in front and freed at the end.           *)

initSlotList(d) == [i \in 1..SlotNum[d] |-> i]
Taken(idle, n) == SubSeq(idle, 1, IF n < Len(idle) THEN n ELSE Len(idle))
allocateNode(pg, n) ==
    LET k == Len(Taken(pg.idle, n))
    IN  [pg EXCEPT !.idle = SubSeq(@, k + 1, Len(@)), !.idleNum = @ - k]
\* Seeded fault: the idle slots are not counted.
Fault_freeNode(pg, i) == [pg EXCEPT !.idle = Append(@, i)]
freeNode(pg, i) == [pg EXCEPT !.idle = Append(@, i), !.idleNum = @ + 1]

-----------------------------------------------------------------------------
(* PageMemMgr: idle pages are taken in front and freed at the end.  The    *)
(* link m_next is the idle list's or the descriptor's.  The slots of an    *)
(* idle page mean nothing until initSlotList makes them anew.              *)

Unused(pg) == [pg EXCEPT !.next = NullPos, !.idle = <<>>, !.idleNum = 0]

freePage(s, p) ==
    /\ space' = [space EXCEPT ![s] =
                    [first |-> IF @.last = NullPos THEN p ELSE @.first,
                     last |-> p, idleNum |-> @.idleNum + 1]]
    /\ page' = IF space[s].last = NullPos
               THEN [page EXCEPT ![p] = Unused(@)]
               ELSE [page EXCEPT ![space[s].last].next = p, ![p] = Unused(@)]

\* Seeded fault: the page stays in front of the idle list.
Fault_takePage(s) == space' = [space EXCEPT ![s].idleNum = @ - 1]
takePage(s) ==
    LET rest == page[space[s].first].next
    IN  space' = [space EXCEPT ![s] =
                     [first |-> rest,
                      last |-> IF rest = NullPos THEN NullPos ELSE @.last,
                      idleNum |-> @.idleNum - 1]]

-----------------------------------------------------------------------------
(* MemManager::allocateMem                                                 *)

\* Nothing has to be remembered of a request that is over.
Forget(d) ==
    /\ need' = [need EXCEPT ![d] = 0]
    /\ old' = [old EXCEPT ![d] = <<>>]
    /\ new' = [new EXCEPT ![d] = <<>>]
    /\ nth' = [nth EXCEPT ![d] = 1]

allocateMem(d, n) ==
    /\ pc[d] = "idle"
    /\ need' = [need EXCEPT ![d] = n]
    /\ Goto(d, IF desc[d].firstNotFull = NullPos THEN "new" ELSE "old")
    /\ UNCHANGED <<space, page, desc, used, old, new, newPages, nth, walk>>

\* The first page of the not-full queue gives what it has; when that is all,
\* it leaves the queue.
allocateMem_old(d) ==
    LET p == desc[d].firstNotFull
        taken == Taken(page[p].idle, need[d])
        full == Len(taken) = page[p].idleNum
        rest == page[p].nextNotFull
        left == need[d] - Len(taken)
        got == old[d] \o Slots(p, taken)
    IN  /\ pc[d] = "old"
        /\ page' = [page EXCEPT ![p] =
                       [allocateNode(@, need[d]) EXCEPT
                           !.nextNotFull = IF full THEN NullPos ELSE rest]]
        /\ desc' = IF full
                   THEN [desc EXCEPT ![d].firstNotFull = rest,
                                     ![d].lastNotFull =
                                         IF rest = NullPos THEN rest ELSE @]
                   ELSE desc
        /\ IF left = 0
           THEN /\ Goto(d, "idle") /\ Forget(d)
                /\ used' = [used EXCEPT ![d] = @ \cup Range(got)]
           ELSE /\ Goto(d, IF full /\ rest = NullPos THEN "new" ELSE "old")
                /\ need' = [need EXCEPT ![d] = left]
                /\ old' = [old EXCEPT ![d] = got]
                /\ UNCHANGED <<used, new, nth>>
        /\ UNCHANGED <<space, newPages, walk>>

\* The page of a space, under the space's lock.
allocatePage(d) ==
    LET s == SpaceList[d][nth[d]]
        p == space[s].first
        fresh == [page[p] EXCEPT !.idle = initSlotList(d),
                                 !.idleNum = SlotNum[d]]
        taken == Taken(fresh.idle, need[d])
    IN  /\ pc[d] = "new" /\ need[d] > 0 /\ nth[d] <= Len(SpaceList[d])
        /\ space[s].idleNum > 0
        /\ takePage(s)
        /\ page' = [page EXCEPT ![p] = allocateNode(fresh, need[d])]
        /\ newPages' = [newPages EXCEPT ![d] = Append(@, p)]
        /\ new' = [new EXCEPT ![d] = @ \o Slots(p, taken)]
        /\ need' = [need EXCEPT ![d] = @ - Len(taken)]
        /\ UNCHANGED <<desc, used, pc, old, nth, walk>>

\* Seeded fault: the full space is asked again and again.
Fault_allocatePage_full(d) == FALSE /\ UNCHANGED vars

\* The space is full: the next one is asked.
allocatePage_full(d) ==
    /\ pc[d] = "new" /\ need[d] > 0 /\ nth[d] <= Len(SpaceList[d])
    /\ space[SpaceList[d][nth[d]]].idleNum = 0
    /\ nth' = [nth EXCEPT ![d] = @ + 1]
    /\ UNCHANGED <<space, page, desc, used, pc, need, old, new, newPages, walk>>

\* A new page goes to the end of the page list and, unless it is full, to the
\* end of the not-full queue.  A state of page and descriptor is [page, desc].
Enlist(m, d, p) ==
    LET last == m.desc[d].last
        linked == [q \in Page |->
                      IF q = p THEN [m.page[q] EXCEPT !.next = NullPos,
                                                      !.nextNotFull = NullPos]
                      ELSE IF q = last THEN [m.page[q] EXCEPT !.next = p]
                      ELSE m.page[q]]
    IN  [page |-> linked,
         desc |-> [m.desc EXCEPT ![d].last = p,
                      ![d].first = IF last = NullPos THEN p ELSE @]]

Enqueue(m, d, p) ==
    LET last == m.desc[d].lastNotFull
    IN  [page |-> IF last = NullPos THEN m.page
                  ELSE [m.page EXCEPT ![last].nextNotFull = p],
         desc |-> [m.desc EXCEPT ![d].lastNotFull = p,
                      ![d].firstNotFull = IF last = NullPos THEN p ELSE @]]

addNewPageToDesc(m, d, p) ==
    LET listed == Enlist(m, d, p)
    IN  IF m.page[p].idleNum = 0 THEN listed ELSE Enqueue(listed, d, p)

\* The new pages are linked one by one, and the caller has its slots.
allocateMem_new(d) ==
    LET m == addNewPageToDesc([page |-> page, desc |-> desc], d,
                              Head(newPages[d]))
    IN  /\ pc[d] = "new" /\ need[d] = 0
        /\ IF newPages[d] # <<>>
           THEN /\ page' = m.page /\ desc' = m.desc
                /\ newPages' = [newPages EXCEPT ![d] = Tail(@)]
                /\ UNCHANGED <<used, pc, need, old, new, nth>>
           ELSE /\ used' = [used EXCEPT ![d] =
                               @ \cup Range(old[d]) \cup Range(new[d])]
                /\ Goto(d, "idle") /\ Forget(d)
                /\ UNCHANGED <<page, desc, newPages>>
        /\ UNCHANGED <<space, walk>>

\* Seeded fault: whether the page was full is tested after the slot is freed.
Fault_Freed(m, d, slot) ==
    [m EXCEPT !.page[slot[1]] = freeNode(@, slot[2])]

\* A slot goes back to its page; a page that was full joins the queue again.
Freed(m, d, slot) ==
    LET p == slot[1]
        given == [m EXCEPT !.page[p] = freeNode(@, slot[2])]
    IN  IF m.page[p].idleNum > 0 THEN given ELSE Enqueue(given, d, p)

\* Seeded fault: only the new pages are given back.
Fault_allocateMem_throw(d) ==
    /\ pc[d] = "new" /\ need[d] > 0 /\ nth[d] > Len(SpaceList[d])
    /\ Goto(d, "undo") /\ Forget(d)
    /\ UNCHANGED <<space, page, desc, used, newPages, walk>>

\* Not enough memory: what was taken is given back, and allocateMem throws.
allocateMem_throw(d) ==
    /\ pc[d] = "new" /\ need[d] > 0 /\ nth[d] > Len(SpaceList[d])
    /\ Goto(d, "undo")
    /\ need' = [need EXCEPT ![d] = 0]
    /\ new' = [new EXCEPT ![d] = <<>>]
    /\ nth' = [nth EXCEPT ![d] = 1]
    /\ UNCHANGED <<space, page, desc, used, old, newPages, walk>>

\* The slots of old pages go back one by one, then the new pages.
allocateMem_undo(d) ==
    LET m == Freed([page |-> page, desc |-> desc], d, Head(old[d]))
    IN  /\ pc[d] = "undo"
        /\ IF old[d] # <<>>
           THEN /\ page' = m.page /\ desc' = m.desc
                /\ old' = [old EXCEPT ![d] = Tail(@)]
                /\ UNCHANGED <<space, newPages, pc>>
           ELSE IF newPages[d] # <<>>
           THEN /\ freePage(SpaceOf(Head(newPages[d])), Head(newPages[d]))
                /\ newPages' = [newPages EXCEPT ![d] = Tail(@)]
                /\ UNCHANGED <<desc, pc, old>>
           ELSE /\ Goto(d, "idle")
                /\ UNCHANGED <<space, page, desc, newPages, old>>
        /\ UNCHANGED <<used, need, new, nth, walk>>

-----------------------------------------------------------------------------
(* freeMem, truncateTable and truncateIndex                                *)

freeMem(d, slot) ==
    LET m == Freed([page |-> page, desc |-> desc], d, slot)
    IN  /\ pc[d] = "idle"
        /\ page' = m.page /\ desc' = m.desc
        /\ used' = [used EXCEPT ![d] = @ \ {slot}]
        /\ UNCHANGED <<space, requestVars, walk>>

truncate(d) ==
    /\ pc[d] = "idle"
    /\ Goto(d, "truncate")
    /\ walk' = [walk EXCEPT ![d] = desc[d].first]
    /\ used' = [used EXCEPT ![d] = {}]
    /\ UNCHANGED <<space, page, desc, need, old, new, newPages, nth>>

NoPages == [first |-> NullPos, last |-> NullPos,
            firstNotFull |-> NullPos, lastNotFull |-> NullPos]

\* Seeded fault: the link is read from the page that has been freed.
Fault_truncate_page(d) ==
    /\ pc[d] = "truncate"
    /\ IF walk[d] = NullPos
       THEN /\ desc' = [desc EXCEPT ![d] = NoPages]
            /\ Goto(d, "idle")
            /\ UNCHANGED <<space, page, walk>>
       ELSE /\ freePage(SpaceOf(walk[d]), walk[d])
            /\ walk' = [walk EXCEPT ![d] = page'[walk[d]].next]
            /\ UNCHANGED <<desc, pc>>
    /\ UNCHANGED <<used, need, old, new, newPages, nth>>

\* The link is read before the page is freed.
truncate_page(d) ==
    /\ pc[d] = "truncate"
    /\ IF walk[d] = NullPos
       THEN /\ desc' = [desc EXCEPT ![d] = NoPages]
            /\ Goto(d, "idle")
            /\ UNCHANGED <<space, page, walk>>
       ELSE /\ freePage(SpaceOf(walk[d]), walk[d])
            /\ walk' = [walk EXCEPT ![d] = page[walk[d]].next]
            /\ UNCHANGED <<desc, pc>>
    /\ UNCHANGED <<used, need, old, new, newPages, nth>>

-----------------------------------------------------------------------------

\* f_init chains the pages of a space in the order of their addresses.
Following(p) ==
    LET l == PageList[SpaceOf(p)]
        i == CHOOSE i \in DOMAIN l : l[i] = p
    IN  IF i = Len(l) THEN NullPos ELSE l[i + 1]

Init ==
    /\ space = [s \in Spaces |->
                   LET l == PageList[s]
                   IN  [first |-> IF l = <<>> THEN NullPos ELSE l[1],
                        last |-> IF l = <<>> THEN NullPos ELSE l[Len(l)],
                        idleNum |-> Len(l)]]
    /\ page = [p \in Page |-> [next |-> Following(p), nextNotFull |-> NullPos,
                               idleNum |-> 0, idle |-> <<>>]]
    /\ desc = [d \in Descs |-> NoPages]
    /\ used = [d \in Descs |-> {}]
    /\ pc = [d \in Descs |-> "idle"]
    /\ need = [d \in Descs |-> 0]
    /\ old = [d \in Descs |-> <<>>]
    /\ new = [d \in Descs |-> <<>>]
    /\ newPages = [d \in Descs |-> <<>>]
    /\ nth = [d \in Descs |-> 1]
    /\ walk = [d \in Descs |-> NullPos]

\* The steps of a call under way.
Proceed(d) ==
    \/ allocateMem_old(d)
    \/ allocatePage(d)
    \/ allocatePage_full(d)
    \/ allocateMem_new(d)
    \/ allocateMem_throw(d)
    \/ allocateMem_undo(d)
    \/ truncate_page(d)

Next ==
    \E d \in Descs :
        \/ \E n \in 1..MaxRequest : allocateMem(d, n)
        \/ \E slot \in used[d] : freeMem(d, slot)
        \/ truncate(d)
        \/ Proceed(d)

Spec == Init /\ [][Next]_vars

\* A call proceeds: the lock of a space is held for one page only.
FairSpec == Spec /\ \A d \in Descs : WF_vars(Proceed(d))

-----------------------------------------------------------------------------

Link == Page \cup {NullPos}

\* Links lead to pages, and m_idleNum counts the idle slots of a page.
TypeOK ==
    /\ space \in [Spaces -> [first : Link, last : Link, idleNum : Nat]]
    /\ \A p \in Page :
           /\ page[p].next \in Link /\ page[p].nextNotFull \in Link
           /\ page[p].idleNum = Len(page[p].idle)
    /\ desc \in [Descs -> [first : Link, last : Link,
                           firstNotFull : Link, lastNotFull : Link]]
    /\ \A d \in Descs : used[d] \subseteq Page \X (1..SlotNum[d])
    /\ pc \in [Descs -> PCs]
    /\ need \in [Descs -> 0..MaxRequest]
    /\ walk \in [Descs -> Link]

\* The pages that a list of links leads to: they are in every set that holds
\* the first and, with a page, the next.
Chain(first, link) ==
    {p \in Page : \A S \in SUBSET Page :
        (/\ first \in S \cup {NullPos}
         /\ \A q \in S : link[q] \in S \cup {NullPos}) => p \in S}
NextPage == [p \in Page |-> page[p].next]
NextNotFull == [p \in Page |-> page[p].nextNotFull]

IdlePages(s) == Chain(space[s].first, NextPage)
\* What truncate has not reached yet, or the whole list.
PagesOf(d) == Chain(IF pc[d] = "truncate" THEN walk[d] ELSE desc[d].first,
                    NextPage)
Queue(d) == Chain(desc[d].firstNotFull, NextNotFull)

\* Every page is in one place only: idle in its space, in the list of one
\* descriptor, or in the hands of one request; and the space counts its idle
\* pages rightly.  No order of requests, failures and truncates over the shared
\* link m_next loses a page or gives it to two tables.
PagesAccounted ==
    /\ \A s \in Spaces :
           /\ Cardinality(IdlePages(s)) = space[s].idleNum
           /\ \A p \in IdlePages(s) : SpaceOf(p) = s
    /\ \A p \in Page :
           Cardinality({s \in Spaces : p \in IdlePages(s)})
           + Cardinality({d \in Descs : p \in PagesOf(d)})
           + Cardinality({d \in Descs : p \in Range(newPages[d])}) = 1

\* A slot of a table's page is idle or used, never both and never neither: a
\* request that fails half way gives back all that it took.
SlotsAccounted ==
    \A d \in Descs : pc[d] = "idle" =>
        \A p \in PagesOf(d), i \in 1..SlotNum[d] :
            i \notin Range(page[p].idle) <=> <<p, i>> \in used[d]

\* The not-full queue leads to exactly the pages that have idle slots: none is
\* forgotten, which no later request would find, and none is asked in vain.
QueueExact ==
    \A d \in Descs : pc[d] = "idle" =>
        /\ Queue(d) = {p \in PagesOf(d) : page[p].idleNum > 0}
        /\ desc[d].lastNotFull \in Queue(d) \cup {NullPos}
        /\ desc[d].lastNotFull = NullPos <=> Queue(d) = {}
        /\ desc[d].lastNotFull # NullPos =>
               page[desc[d].lastNotFull].nextNotFull = NullPos

\* What callers see is the abstract pool.
Pool == INSTANCE SlotPool
ImplementsSlotPool == Pool!Spec

\* Every call returns, whatever the requests for other tables do meanwhile.
CallEnds == \A d \in Descs : pc[d] # "idle" ~> pc[d] = "idle"
=============================================================================
