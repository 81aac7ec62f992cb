-------------------------------- MODULE BTree --------------------------------
(***************************************************************************)
(* The B-tree indexes (mdb/BTree): nodes of up to MaxNum elements, linked  *)
(* up, down and, between leaves, to the right.  An operation has the write *)
(* lock of the table and is one action.  Every process keeps its own       *)
(* pointer to the root.  Indexes are unique: the lists of equal keys are   *)
(* left out.                                                               *)
(***************************************************************************)
EXTENDS Naturals, SequencesExt

CONSTANTS
    Procs,       \* processes that have the index open
    Keys,        \* keys that are inserted and deleted
    Loads,       \* sequences of keys an index may have been filled with before
    MaxNum,      \* NODE_ELEM_NUM
    MaxNodes     \* nodes there is memory for

ASSUME BTreeAssumption ==
    /\ Keys \subseteq Nat \ {0} /\ Loads \subseteq Seq(Nat \ {0})
    /\ MaxNum \in Nat \ {0, 1} /\ MaxNodes \in Nat \ {0}

VARIABLES
    node,        \* by address, Node: brother, parent, its elements, and what
                 \*   lies in the first place when there are none
    header,      \* m_indexDesc->m_header
    root,        \* by process, m_pRootNode
    entries      \* the keys that the operations that returned have left

vars == <<node, header, root, entries>>

Nil == 0                  \* NULL_SHMPOS
LastLeaf == MaxNodes + 1  \* ShmPosition(-1,-1)
Addrs == 1..MaxNodes
NoKey == [key |-> Nil, ptr |-> Nil]

-----------------------------------------------------------------------------
(* Nodes.  t is a state of the memory; a step on it has ended well or with *)
(* an exception, and may have made a new root.                             *)

Done(t, new) == [ok |-> TRUE, t |-> t, root |-> new]
Thrown(t) == [ok |-> FALSE, t |-> t, root |-> Nil]

initial == [brother |-> Nil, parent |-> Nil, elem |-> <<>>, left |-> NoKey]
isLeafNode(t, n) == t[n].brother # Nil
Num(t, n) == Len(t[n].elem)
FirstKey(t, n) == t[n].elem[1].key
Free(t) == Addrs \ DOMAIN t
freeMem(t, n) == [m \in DOMAIN t \ {n} |-> t[m]]
Adopt(t, n, elems) ==
    [m \in DOMAIN t |-> IF \E i \in DOMAIN elems : elems[i].ptr = m
                        THEN [t[m] EXCEPT !.parent = n] ELSE t[m]]
\* The place of a child, found by going through the elements.
PosiOf(t, n, child) == CHOOSE i \in DOMAIN t[n].elem : t[n].elem[i].ptr = child

-----------------------------------------------------------------------------
(* Node::search                                                            *)

RECURSIVE Bisect(_, _, _, _)
Bisect(elems, key, first, last) ==
    IF last <= first + 1 THEN <<first, last>>
    ELSE LET mid == first + (last - first) \div 2
         IN  IF key >= elems[mid].key THEN Bisect(elems, key, mid, last)
                                      ELSE Bisect(elems, key, first, mid)

\* In a leaf, the place of the key, or 0; in a node without elements, what was
\* there before is compared.
InLeaf(t, n, key) ==
    LET at == IF Num(t, n) = 0 THEN <<>> ELSE Bisect(t[n].elem, key, 1, Num(t, n))
        found == {i \in Range(at) : t[n].elem[i].key = key}
    IN  IF Num(t, n) = 0 THEN IF t[n].left.key = key THEN 1 ELSE 0
        ELSE IF found = {} THEN 0 ELSE Min(found)
\* A key equal to a registered one looked for to its left.
Fault_InNode(t, n, key) ==
    LET at == Bisect(t[n].elem, key, 1, Num(t, n))
    IN  IF key > t[n].elem[at[2]].key THEN at[2] ELSE at[1]
InNode(t, n, key) ==
    LET at == Bisect(t[n].elem, key, 1, Num(t, n))
    IN  IF key >= t[n].elem[at[2]].key THEN at[2] ELSE at[1]

\* path is elemPosiInNodes: by node, the place that was followed.
RECURSIVE search(_, _, _, _)
search(t, n, key, path) ==
    IF isLeafNode(t, n)
    THEN [leaf |-> n, posi |-> InLeaf(t, n, key), path |-> path]
    ELSE LET i == InNode(t, n, key)
         IN  search(t, t[n].elem[i].ptr, key, path @@ (n :> i))

-----------------------------------------------------------------------------
(* Node::insert and Node::splitNode                                        *)

\* A node with room.  A new first key is registered in the parent, at the
\* place the search went through.
InsertIn(t, n, key, ptr, path) ==
    LET lower == {j \in DOMAIN t[n].elem : t[n].elem[j].key <= key}
        i == Max(lower \cup {0}) + 1
        s == [t EXCEPT ![n].elem = InsertAt(@, i, [key |-> key, ptr |-> ptr]),
                       ![n].left = NoKey]
        q == t[n].parent
    IN  IF i > 1 \/ q = Nil THEN Done(s, Nil)
        ELSE IF q \notin DOMAIN path THEN Thrown(s)
        ELSE Done([s EXCEPT ![q].elem[path[q]].key = key], Nil)

\* Steps 1 and 2 of splitNode: the upper half moves to the new node.
Halved(t, n, new) ==
    LET half == MaxNum \div 2
    IN  [t EXCEPT ![n].elem = SubSeq(@, 1, half)]
            @@ (new :> [initial EXCEPT !.elem = SubSeq(t[n].elem, half + 1, MaxNum)])
InsertInHalf(t, n, new, key, ptr, path) ==
    InsertIn(t, IF key > Last(t[n].elem).key THEN new ELSE n, key, ptr, path)

\* Step 3: a leaf is linked to the right of the old one, the children of an
\* inner node are told their new parent.
Linked(t, n, new) ==
    IF isLeafNode(t, n)
    THEN [t EXCEPT ![new].brother = t[n].brother, ![n].brother = new]
    ELSE Adopt(t, new, t[new].elem)

\* Step 4, when the root is split: a root above it.
NewRoot(t, n, top) ==
    [t EXCEPT ![n].parent = top]
        @@ (top :> [initial EXCEPT !.elem = <<[key |-> FirstKey(t, n), ptr |-> n]>>])

RECURSIVE insertElem(_, _, _, _, _), splitNode(_, _, _, _, _, _)

\* Step 4: the new node is registered in the parent.
Registered(t, n, new, top, path) ==
    LET r == insertElem([t EXCEPT ![new].parent = t[n].parent],
                        t[n].parent, FirstKey(t, new), new, path)
    IN  [r EXCEPT !.root = IF r.ok /\ @ = Nil THEN top ELSE @]
Raised(t, n, new, path) ==
    IF t[n].parent # Nil THEN Registered(t, n, new, Nil, path)
    ELSE IF Free(t) = {} THEN Thrown(t)
    ELSE LET top == Min(Free(t))
         IN  Registered(NewRoot(t, n, top), n, new, top, path)
AfterHalf(r, n, new, path) ==
    IF r.ok THEN Raised(Linked(r.t, n, new), n, new, path) ELSE r
splitNode(t, n, new, key, ptr, path) ==
    AfterHalf(InsertInHalf(Halved(t, n, new), n, new, key, ptr, path),
              n, new, path)

\* One element too many in a full node.
Fault_insertElem(t, n, key, ptr, path) ==
    IF Num(t, n) <= MaxNum THEN InsertIn(t, n, key, ptr, path)
    ELSE IF Free(t) = {} THEN Thrown(t)
    ELSE splitNode(t, n, Min(Free(t)), key, ptr, path)

insertElem(t, n, key, ptr, path) ==
    IF Num(t, n) < MaxNum THEN InsertIn(t, n, key, ptr, path)
    ELSE IF Free(t) = {} THEN Thrown(t)
    ELSE splitNode(t, n, Min(Free(t)), key, ptr, path)

-----------------------------------------------------------------------------
(* Node::deleteElem                                                        *)

\* A node's first key is registered in its parent, and further up as long as
\* it is the first there too.
RECURSIVE Rekey(_, _)
Rekey(t, n) ==
    LET q == t[n].parent
        i == PosiOf(t, q, n)
        s == [t EXCEPT ![q].elem[i].key = FirstKey(t, n)]
    IN  IF q = Nil THEN t ELSE IF i = 1 THEN Rekey(s, q) ELSE s

\* The node to the right on the same level, with its parent and its place
\* there: in the next node one level up, if this one has no more.
NoBrother == [node |-> Nil, parent |-> Nil, posi |-> 0]
RECURSIVE getNextBrotherNode(_, _, _)
FirstOf(t, uncle) ==
    IF uncle.node = Nil THEN NoBrother
    ELSE [node |-> t[uncle.node].elem[1].ptr, parent |-> uncle.node, posi |-> 1]
\* Without the nodes of another parent.
Fault_getNextBrotherNode(t, n, child) ==
    LET i == PosiOf(t, n, child) + 1
    IN  IF i <= Num(t, n)
        THEN [node |-> t[n].elem[i].ptr, parent |-> n, posi |-> i]
        ELSE NoBrother
getNextBrotherNode(t, n, child) ==
    LET i == PosiOf(t, n, child) + 1
    IN  IF i <= Num(t, n)
        THEN [node |-> t[n].elem[i].ptr, parent |-> n, posi |-> i]
        ELSE IF t[n].parent = Nil THEN NoBrother
        ELSE FirstOf(t, getNextBrotherNode(t, t[n].parent, n))

\* The child that moves over keeps its parent.
Fault_Borrowed(t, n, b) ==
    Rekey([t EXCEPT ![n].elem = Append(@, t[b].elem[1]), ![b].elem = Tail(@)], b)
\* One element moves over from the brother.
Borrowed(t, n, b) ==
    LET e == t[b].elem[1]
        s == IF isLeafNode(t, n) THEN t ELSE Adopt(t, n, <<e>>)
    IN  Rekey([s EXCEPT ![n].elem = Append(@, e), ![b].elem = Tail(@)], b)

\* The leaf stays linked to the one that is freed.
Fault_Joined(t, n, b) ==
    LET s == IF isLeafNode(t, n) THEN t ELSE Adopt(t, n, t[b].elem)
    IN  [s EXCEPT ![n].elem = @ \o t[b].elem]

\* All elements of the brother move over.
Joined(t, n, b) ==
    LET s == IF isLeafNode(t, n)
             THEN [t EXCEPT ![n].brother = t[b].brother]
             ELSE Adopt(t, n, t[b].elem)
    IN  [s EXCEPT ![n].elem = @ \o t[b].elem]

FreedAfter(r, n) == IF r.ok THEN Done(freeMem(r.t, n), Nil) ELSE r

RECURSIVE deleteElem(_, _, _, _)

\* The last element of a node is gone: a root becomes an empty leaf, another
\* node is taken out of its parent, at the place the search went through.
Emptied(t, n, gone, path) ==
    LET q == t[n].parent
    IN  IF q = Nil
        THEN Done([t EXCEPT ![n].brother = LastLeaf, ![n].left = gone], Nil)
        ELSE IF q \notin DOMAIN path THEN Thrown(t)
        ELSE FreedAfter(deleteElem(t, q, path[q], path), n)

\* A node less than half full is filled up from the one to its right.
FilledFrom(t, n, b, path) ==
    IF b.node = Nil THEN Done(t, Nil)
    ELSE IF Num(t, b.node) + Num(t, n) > MaxNum
    THEN Done(Borrowed(t, n, b.node), Nil)
    ELSE FreedAfter(deleteElem(Joined(t, n, b.node), b.parent, b.posi, path),
                    b.node)
Refilled(t, n, path) ==
    IF t[n].parent = Nil \/ Num(t, n) >= MaxNum \div 2 THEN Done(t, Nil)
    ELSE FilledFrom(t, n, getNextBrotherNode(t, t[n].parent, n), path)

deleteElem(t, n, posi, path) ==
    LET s == [t EXCEPT ![n].elem = RemoveAt(@, posi)]
    IN  IF posi > Num(t, n) THEN Thrown(t)
        ELSE IF Num(t, n) = 1 THEN Emptied(s, n, t[n].elem[1], path)
        ELSE Refilled(IF posi = 1 THEN Rekey(s, n) ELSE s, n, path)

-----------------------------------------------------------------------------
(* selectRange without an upper end                                        *)

\* In a leaf the place of the key; in one that does not have it, the upper of
\* the two places that are left.
RECURSIVE lower_bound(_, _, _)
lower_bound(t, n, key) ==
    LET at == Bisect(t[n].elem, key, 1, Num(t, n))
    IN  IF ~isLeafNode(t, n) THEN lower_bound(t, t[n].elem[InNode(t, n, key)].ptr, key)
        ELSE [leaf |-> n, posi |-> IF t[n].elem[at[1]].key = key THEN at[1] ELSE at[2]]

RECURSIVE getLastLeafNode(_, _)
getLastLeafNode(t, n) ==
    IF isLeafNode(t, n) THEN n ELSE getLastLeafNode(t, Last(t[n].elem).ptr)

getElemsInNode(t, n, first) ==
    [i \in 1..(Num(t, n) + 1 - first) |-> t[n].elem[first + i - 1].key]

\* Along m_pBrotherNode; steps only ends a walk that would not end.
RECURSIVE WalkTo(_, _, _, _, _)
WalkTo(t, n, first, last, steps) ==
    IF n \notin DOMAIN t \/ steps = 0 THEN <<>>
    ELSE getElemsInNode(t, n, first)
             \o (IF n = last THEN <<>> ELSE WalkTo(t, t[n].brother, 1, last, steps - 1))

selectRange(t, top, key) ==
    LET gt == lower_bound(t, top, key)
    IN  WalkTo(t, gt.leaf, gt.posi, getLastLeafNode(t, top), MaxNodes)

-----------------------------------------------------------------------------
(* IndexBTree                                                              *)

Found(p, key) == search(node, root[p], key, <<>>)

insert(p, key) ==
    \E f \in {Found(p, key)} :
        /\ f.posi = 0
        /\ \E r \in {insertElem(node, f.leaf, key, Nil, f.path)} :
               /\ node' = r.t
               /\ root' = IF r.root = Nil THEN root
                          ELSE [root EXCEPT ![p] = r.root]
               /\ header' = IF r.root = Nil THEN header ELSE r.root
               /\ entries' = IF r.ok THEN entries \cup {key} ELSE entries

\* The key is there already.
insert_throw(p, key) == Found(p, key).posi # 0 /\ UNCHANGED vars

\* An entry that is not found is not deleted, and nobody is told.
deleteIdx(p, key) ==
    \E f \in {Found(p, key)} :
        \E r \in {IF f.posi = 0 THEN Done(node, Nil)
                  ELSE deleteElem(node, f.leaf, f.posi, f.path)} :
            /\ node' = r.t
            /\ entries' = IF r.ok THEN entries \ {key} ELSE entries
            /\ UNCHANGED <<header, root>>

\* The index is opened, which is when the root is looked up.
initialization(p) ==
    /\ root' = [root EXCEPT ![p] = header]
    /\ UNCHANGED <<node, header, entries>>

\* create, and what was inserted before the processes opened the index.
create == [t |-> 1 :> [initial EXCEPT !.brother = LastLeaf], root |-> 1]
Loaded(index, key) ==
    LET f == search(index.t, index.root, key, <<>>)
        r == insertElem(index.t, f.leaf, key, Nil, f.path)
    IN  [t |-> r.t, root |-> IF r.root = Nil THEN index.root ELSE r.root]

Init ==
    \E load \in Loads : \E index \in {FoldLeft(Loaded, create, load)} :
        /\ node = index.t
        /\ header = index.root
        /\ root = [p \in Procs |-> index.root]
        /\ entries = Range(load)

-----------------------------------------------------------------------------
(* What the tree is checked for leaves out five things that break it: a    *)
(* process that goes on with a root that has been split, a minimum that is *)
(* new to a tree of three levels, the last key deleted, a merge that takes *)
(* the only child of an inner node, and memory that ends inside a split.   *)

Current(p) == root[p] = header
Inner == {n \in DOMAIN node : ~isLeafNode(node, n)}
Deep == \E n \in Inner : node[n].parent # Nil
SoundInsert(p, key) ==
    /\ Current(p)
    /\ Deep => \E k \in entries : k < key
SoundDelete(p, key) ==
    /\ Current(p)
    /\ key \in entries /\ entries # {key}
    /\ \A n \in Inner \ {header} : Num(node, n) > 1
CleanEnd(key) == key \notin entries' => node' = node

Next ==
    \E p \in Procs :
        \/ initialization(p)
        \/ \E key \in Keys :
               \/ SoundInsert(p, key) /\ insert(p, key) /\ CleanEnd(key)
               \/ Current(p) /\ insert_throw(p, key)
               \/ SoundDelete(p, key) /\ deleteIdx(p, key)

Spec == Init /\ [][Next]_vars

\* Whatever the code lets happen.
AnyNext ==
    \E p \in Procs :
        \/ initialization(p)
        \/ \E key \in Keys :
               \/ insert(p, key)
               \/ insert_throw(p, key)
               \/ key \in entries /\ deleteIdx(p, key)

AnySpec == Init /\ [][AnyNext]_vars

-----------------------------------------------------------------------------

AllKeys == Keys \cup UNION {Range(load) : load \in Loads}

TypeOK ==
    /\ DOMAIN node \subseteq Addrs
    /\ \A n \in DOMAIN node :
           /\ node[n].brother \in 0..LastLeaf /\ node[n].parent \in 0..MaxNodes
           /\ node[n].elem \in Seq([key : AllKeys, ptr : 0..MaxNodes])
           /\ Num(node, n) <= MaxNum
    /\ header \in DOMAIN node
    /\ root \in [Procs -> Addrs]
    /\ entries \subseteq AllKeys

Finds(p) == \A key \in AllKeys : Found(p, key).posi # 0 <=> key \in entries

\* Whatever was split, borrowed or joined on the way, a search from the root
\* finds the keys that were inserted and not deleted, and no other.
SearchExact == \A p \in Procs : Current(p) => Finds(p)

\* A range that begins at a key has that key and all above it, in ascending
\* order: the leaves stay linked through splits, merges and memory used again.
RangeExact ==
    \A low \in entries : \E result \in {selectRange(node, header, low)} :
        /\ Range(result) = {key \in entries : key >= low}
        /\ \A i \in 1..(Len(result) - 1) : result[i] < result[i + 1]

Children(n) == {e.ptr : e \in Range(node[n].elem)}

\* Every node but the root is the child of its parent and of no other node, and
\* none is lost: a node that moves is told its parent, and one that is freed is
\* taken out of its own (Node.cpp:160).
ParentsExact ==
    /\ header \in DOMAIN node /\ node[header].parent = Nil
    /\ \A n \in DOMAIN node \ {header} :
           {q \in Inner : n \in Children(q)} = {node[n].parent}

RECURSIVE RightEdge(_)
RightEdge(n) ==
    {n} \cup IF isLeafNode(node, n) THEN {} ELSE RightEdge(Last(node[n].elem).ptr)

\* Only the last node of a level is less than half full after any insertions
\* and deletions, also where the next one has another parent.
HalfFull ==
    \A n \in DOMAIN node \ RightEdge(header) : Num(node, n) >= MaxNum \div 2

\* Every process finds the keys that are there, also after another has split
\* the root.
EveryProcessFinds ==
    \A p \in Procs, key \in entries : Found(p, key).posi # 0

\* The last leaf says that it is the last (Node.h:140).
LastLeafMarked == node[getLastLeafNode(node, header)].brother = LastLeaf
===============================================================================
