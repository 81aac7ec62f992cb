------------------------------ MODULE BaseTable ------------------------------
(***************************************************************************)
(* The records of a table and its hash indexes (mdb/BaseTable.cpp,         *)
(* mdb/IndexHash.cpp) and the commit that changes them (mdb/Table.cpp).    *)
(* A commit has the write lock of the table from end to end, so it is one  *)
(* action; what is modelled is what it does inside: record by record,      *)
(* index by index, with the undo of each part that fails.                  *)
(*                                                                         *)
(* An index holds addresses and no keys: the key of an entry is read from  *)
(* the record it points to, as it is at that moment.                       *)
(*                                                                         *)
(* Slots come from SlotPool, which promises any free ones.                 *)
(***************************************************************************)
EXTENDS Integers, SequencesExt

CONSTANTS
    SlotNum,     \* records the table has memory for
    IndexNum,    \* m_indexNum; indexes are numbered in the table's order
    Unique,      \* the indexes with m_isUnique
    Keys,
    hash,        \* by key, its place in m_hashTable
    NodeNum,     \* by index, the nodes it has memory for
    Rows,        \* the records that are written: by index, the key
    Overlaid,    \* the indexes whose column lies under the link of a free slot
    Link,        \* what such a column reads then
    MaxChanges   \* changes in a commit

Slots == 1..SlotNum
Indexes == 1..IndexNum

ASSUME TableAssumption ==
    /\ SlotNum \in Nat /\ IndexNum \in Nat /\ MaxChanges \in Nat
    /\ Unique \subseteq Indexes /\ Overlaid \subseteq Indexes
    /\ hash \in [Keys -> Nat] /\ NodeNum \in [Indexes -> Nat]
    /\ Rows \subseteq [Indexes -> Keys] /\ Link \notin Keys

VARIABLES
    db,      \* rec: by slot, the columns; used: slots with a record;
             \* table: by index and place, m_hashTable, a list along m_diffNext
             \* of lists along m_sameNext; node: nodes left; num: m_recordNum
    acked    \* by record, how many the commits that returned have left

vars == <<db, acked>>

-----------------------------------------------------------------------------
(* IndexHash                                                               *)

Done(d) == [ok |-> TRUE, d |-> d]
Thrown(d) == [ok |-> FALSE, d |-> d]

Place(d, i, k) == d.table[i][hash[k]]

\* The lists whose first record has the key.
Lists(d, i, k) ==
    {g \in DOMAIN Place(d, i, k) : d.rec[Head(Place(d, i, k)[g])][i] = k}

select(d, i, k) ==
    IF Lists(d, i, k) = {} THEN <<>> ELSE Place(d, i, k)[Min(Lists(d, i, k))]

\* All entries, by the place, the list and the position where they are read.
Entries(d, i) ==
    UNION {UNION {{<<b, g, p>> : p \in DOMAIN d.table[i][b][g]}
                      : g \in DOMAIN d.table[i][b]} : b \in DOMAIN d.table[i]}
selectALL(d, i) ==
    [at \in Entries(d, i) |-> d.table[i][at[1]][at[2]][at[3]]]

\* Seeded fault: always a new list.
Fault_Placed(s, place, lists) == <<<<s>>>> \o place

\* Behind the first of its key, or as a new list in front of the others.
Placed(s, place, lists) ==
    IF lists = {} THEN <<<<s>>>> \o place
    ELSE [place EXCEPT ![Min(lists)] = <<Head(@), s>> \o Tail(@)]

\* Seeded fault: no test of m_isUnique.
Fault_insertIdx(d, i, k, s) ==
    IF d.node[i] = 0 THEN Thrown(d)
    ELSE Done([d EXCEPT !.node[i] = @ - 1,
                        !.table[i][hash[k]] = Placed(s, @, Lists(d, i, k))])

insertIdx(d, i, k, s) ==
    LET lists == Lists(d, i, k)
    IN  IF (lists # {} /\ i \in Unique) \/ d.node[i] = 0 THEN Thrown(d)
        ELSE Done([d EXCEPT !.node[i] = @ - 1,
                            !.table[i][hash[k]] = Placed(s, @, lists)])

\* Seeded fault: the others of a list go with its first.
Fault_deleteIdx(d, i, k, s) ==
    LET place == Place(d, i, k)
        found == {g \in Lists(d, i, k) : s \in Range(place[g])}
        g == Min(found)
        rest == RemoveFirst(place[g], s)
    IN  IF found = {} THEN d
        ELSE [d EXCEPT !.node[i] = @ + 1,
                       !.table[i][hash[k]] =
                           IF s = Head(place[g]) THEN RemoveAt(@, g)
                                                 ELSE [@ EXCEPT ![g] = rest]]

\* An entry that is not found is not deleted, and nobody is told.
deleteIdx(d, i, k, s) ==
    LET place == Place(d, i, k)
        found == {g \in Lists(d, i, k) : s \in Range(place[g])}
        g == Min(found)
        rest == RemoveFirst(place[g], s)
    IN  IF found = {} THEN d
        ELSE [d EXCEPT !.node[i] = @ + 1,
                       !.table[i][hash[k]] =
                           IF rest = <<>> THEN RemoveAt(@, g)
                                          ELSE [@ EXCEPT ![g] = rest]]

-----------------------------------------------------------------------------
(* Index changes of one record, with their log.  A change is [op, i, key]. *)

Delete(i, key) == [op |-> "delete", i |-> i, key |-> key]
Insert(i, key) == [op |-> "insert", i |-> i, key |-> key]
Keep(i, key) == [op |-> "keep", i |-> i, key |-> key]
Reversed(log) ==
    [log EXCEPT !.op = CASE @ = "delete" -> "insert" [] @ = "insert" -> "delete"
                         [] OTHER -> @]

Change(d, s, log) ==
    CASE log.op = "delete" -> Done(deleteIdx(d, log.i, log.key, s))
      [] log.op = "insert" -> insertIdx(d, log.i, log.key, s)
      [] OTHER -> Done(d)

\* One after the other until one throws; n of them have been done.
Start(d) == [ok |-> TRUE, d |-> d, n |-> 0]
Then(before, this) ==
    IF ~before.ok THEN before
    ELSE [ok |-> this.ok, d |-> this.d,
          n |-> IF this.ok THEN before.n + 1 ELSE before.n]

ChangeAll(d, s, logs) ==
    LET r[j \in 0..Len(logs)] ==
            IF j = 0 THEN Start(d)
            ELSE LET before == r[j - 1]
                 IN  Then(before, Change(before.d, s, logs[j]))
    IN  r[Len(logs)]

\* The logged changes are taken back from the last to the first; one that
\* cannot be taken back ends it.
undoIndexChange(d, s, logs) ==
    ChangeAll(d, s, [j \in DOMAIN logs |-> Reversed(logs[Len(logs) + 1 - j])]).d

\* A call of one of the three is [addr, logs], with the changes that it makes.
deleteAllIndex(s, row) ==
    [addr |-> s, logs |-> [i \in Indexes |-> Delete(i, row[i])]]
insertAllIndex(s, row) ==
    [addr |-> s, logs |-> [i \in Indexes |-> Insert(i, row[i])]]

\* Keys that stay are skipped, others deleted and inserted.
updateAllIndex(s, from, to) ==
    [addr |-> s,
     logs |-> [j \in 1..(2 * IndexNum) |->
                  LET i == (j + 1) \div 2
                  IN  IF from[i] = to[i] THEN Keep(i, to[i])
                      ELSE IF j % 2 = 1 THEN Delete(i, from[i])
                                        ELSE Insert(i, to[i])]]

OrUndone(r, call) ==
    IF r.ok THEN Done(r.d)
    ELSE Thrown(undoIndexChange(r.d, call.addr, SubSeq(call.logs, 1, r.n)))
AllIndexes(d, call) == OrUndone(ChangeAll(d, call.addr, call.logs), call)

\* The calls for the records of a batch.
CallAll(d, calls) ==
    LET r[j \in 0..Len(calls)] ==
            IF j = 0 THEN Start(d)
            ELSE LET before == r[j - 1]
                 IN  Then(before, AllIndexes(before.d, calls[j]))
    IN  r[Len(calls)]

-----------------------------------------------------------------------------
(* Batches.  A change is [addr, from, to]: m_addr, m_oldRecordValue,       *)
(* m_newRecordValue.                                                       *)

freeTableMem(d, addrs) ==
    [d EXCEPT !.used = @ \ addrs,
              !.rec = [s \in Slots |-> [i \in Indexes |->
                  IF s \in addrs /\ i \in Overlaid THEN Link ELSE @[s][i]]]]
Addrs(ts) == {ts[j].addr : j \in DOMAIN ts}

DeleteCalls(ts) ==
    [j \in DOMAIN ts |-> deleteAllIndex(ts[j].addr, ts[j].from)]

\* Seeded fault: m_recordNum is not lowered.
Fault_deleteRec(d, ts) ==
    freeTableMem(CallAll(d, DeleteCalls(ts)).d, Addrs(ts))

\* Nothing here throws while the records are those of the table.
deleteRec(d, ts) ==
    [freeTableMem(CallAll(d, DeleteCalls(ts)).d, Addrs(ts))
        EXCEPT !.num = @ - Len(ts)]

\* The new contents of the records of a batch.
write(d, ts) ==
    LET At(s) == CHOOSE j \in DOMAIN ts : ts[j].addr = s
    IN  [d EXCEPT !.rec = [s \in Slots |->
            IF s \in Addrs(ts) THEN ts[At(s)].to ELSE @[s]]]

\* Any free slots.
allocateTableMem(d, ts) ==
    LET addrs == CHOOSE f \in [DOMAIN ts -> Slots \ d.used] : IsInjective(f)
    IN  [j \in DOMAIN ts |-> [ts[j] EXCEPT !.addr = addrs[j]]]

InsertCalls(ts) ==
    [j \in DOMAIN ts |-> insertAllIndex(ts[j].addr, ts[j].to)]
\* The entries of the first n records, from the last to the first.
UninsertCalls(ts, n) ==
    [j \in 1..n |-> deleteAllIndex(ts[n + 1 - j].addr, ts[n + 1 - j].to)]

\* When an index refuses a record, the slots are freed first and the entries
\* taken back afterwards.
Inserted(r, ts) ==
    IF r.ok
    THEN [ok |-> TRUE, d |-> [r.d EXCEPT !.num = @ + Len(ts)], ts |-> ts]
    ELSE Thrown(CallAll(freeTableMem(r.d, Addrs(ts)), UninsertCalls(ts, r.n)).d)
Indexed(d, ts) ==
    CallAll(write([d EXCEPT !.used = @ \cup Addrs(ts)], ts), InsertCalls(ts))
insertAt(d, ts) == Inserted(Indexed(d, ts), ts)
insert(d, ts) ==
    IF Cardinality(Slots \ d.used) < Len(ts) THEN Thrown(d)
    ELSE insertAt(d, allocateTableMem(d, ts))

UpdateCalls(ts) ==
    [j \in DOMAIN ts |-> updateAllIndex(ts[j].addr, ts[j].from, ts[j].to)]
UnupdateCalls(ts, n) ==
    [j \in 1..n |-> LET t == ts[n + 1 - j]
                    IN  updateAllIndex(t.addr, t.to, t.from)]

\* All indexes first, then all records.
Updated(r, ts) ==
    IF r.ok THEN Done(write(r.d, ts))
    ELSE Thrown(CallAll(r.d, UnupdateCalls(ts, r.n)).d)
update(d, ts) == Updated(CallAll(d, UpdateCalls(ts)), ts)

-----------------------------------------------------------------------------
(* Table::commit                                                           *)

Swapped(ts) ==
    [j \in DOMAIN ts |->
        [addr |-> ts[j].addr, from |-> ts[j].to, to |-> ts[j].from]]

\* Seeded fault: the deleted records are not inserted again.
Fault_Undone(d, del, inserted) == deleteRec(d, inserted)

\* The undo: the deleted records are inserted again, and then the inserted
\* ones deleted, unless the first of these throws.
Reinserted(again, inserted) ==
    IF again.ok THEN deleteRec(again.d, inserted) ELSE again.d
Undone(d, del, inserted) == Reinserted(insert(d, Swapped(del)), inserted)

\* What the commit has come to: whether and where the inserts and the updates
\* were refused, and the records inserted.
Applied(inserted, upd) ==
    [inserted |-> IF inserted.ok THEN Swapped(inserted.ts) ELSE <<>>,
     insertOk |-> inserted.ok,
     updated |-> IF inserted.ok THEN update(inserted.d, upd) ELSE inserted]
Changes(del, ins, upd) == Applied(insert(deleteRec(db, del), ins), upd)
Outcome(c, del) ==
    IF c.updated.ok THEN c.updated
    ELSE Thrown(Undone(c.updated.d, del, c.inserted))
Committed(del, ins, upd) == Outcome(Changes(del, ins, upd), del)

\* The abstract effect of a commit.
Count(rows) ==
    [r \in Rows |-> Cardinality({j \in DOMAIN rows : rows[j] = r})]
From(ts) == [j \in DOMAIN ts |-> ts[j].from]
To(ts) == [j \in DOMAIN ts |-> ts[j].to]
Net(del, ins, upd) ==
    [r \in Rows |-> acked[r] + Count(To(ins))[r] + Count(To(upd))[r]
                        - Count(From(del))[r] - Count(From(upd))[r]]

commit(del, ins, upd) ==
    \E r \in {Committed(del, ins, upd)} :
        /\ db' = r.d
        /\ acked' = IF r.ok THEN Net(del, ins, upd) ELSE acked

Places == {hash[k] : k \in Keys}
Empty(rec) ==
    [rec |-> rec, used |-> {}, num |-> 0, node |-> NodeNum,
     table |-> [i \in Indexes |-> [b \in Places |-> <<>>]]]

truncate ==
    /\ db' = Empty(freeTableMem(db, db.used).rec)
    /\ acked' = [r \in Rows |-> 0]

Init ==
    /\ db = Empty([s \in Slots |-> [i \in Indexes |-> Link]])
    /\ acked = [r \in Rows |-> 0]

\* A session changes a record once in a transaction: the records of the
\* deletes and updates are different ones, and are as they were read.
Deletes(addrs) ==
    [j \in DOMAIN addrs |->
        [addr |-> addrs[j], from |-> db.rec[addrs[j]], to |-> Link]]
Inserts(rows) ==
    [j \in DOMAIN rows |-> [addr |-> 0, from |-> Link, to |-> rows[j]]]
Updates(addrs, rows) ==
    [j \in DOMAIN rows |->
        [addr |-> addrs[j], from |-> db.rec[addrs[j]], to |-> rows[j]]]

\* What a commit must keep to, for the code to be right:
\*  - a batch of inserts that is refused frees its slots before it looks for
\*    their entries, so the link must not lie over an indexed column;
\*  - an update that is refused cannot find the entries it has moved, and the
\*    undo of the commit inserts before it deletes, so a refused update is the
\*    only one, is refused by the first index it changes, and there are not
\*    both deletes and inserts with it;
\*  - entries are moved before any record is written, so no update moves to a
\*    key that another one comes from or goes to.
Sound(del, ins, upd) ==
    LET Changed(t) == {i \in Indexes : t.from[i] # t.to[i]}
        First(t) == Changed(t) # {} /\ Changed(t) \cap Unique = {Min(Changed(t))}
        changes == {Changes(del, ins, upd)}
    IN  /\ \A a, b \in DOMAIN upd : a # b =>
               \A i \in Changed(upd[a]) :
                   upd[a].to[i] \notin {upd[b].from[i], upd[b].to[i]}
        /\ Len(ins) > 1 /\ Overlaid # {} =>
               \A c \in changes : c.insertOk
        /\ ~(Len(upd) = 1 /\ First(upd[1]) /\ (del = <<>> \/ ins = <<>>)) =>
               \A c \in changes : c.insertOk => c.updated.ok

\* Commits of up to MaxChanges changes, that are sound or of any kind.
Commit(Allowed(_, _, _)) ==
    \E n, m, p \in 0..MaxChanges :
        /\ n + m + p \in 1..MaxChanges
        /\ \E addrs \in [1..(n + p) -> db.used], rows \in [1..(m + p) -> Rows] :
               LET del == Deletes(SubSeq(addrs, 1, n))
                   ins == Inserts(SubSeq(rows, 1, m))
                   upd == Updates(SubSeq(addrs, n + 1, n + p),
                                  SubSeq(rows, m + 1, m + p))
               IN  /\ IsInjective(addrs)
                   /\ Allowed(del, ins, upd)
                   /\ commit(del, ins, upd)

Next == Commit(Sound) \/ truncate
Spec == Init /\ [][Next]_vars

AnyNext == LET AnyKind(del, ins, upd) == TRUE IN Commit(AnyKind) \/ truncate
AnySpec == Init /\ [][AnyNext]_vars

-----------------------------------------------------------------------------

\* Records have their columns, lists are not empty, and m_recordNum is the
\* number of the records.
TypeOK ==
    /\ db.rec \in [Slots -> [Indexes -> Keys \cup {Link}]]
    /\ db.used \subseteq Slots
    /\ db.num = Cardinality(db.used)
    /\ \A i \in Indexes : db.node[i] \in 0..NodeNum[i]
    /\ \A i \in Indexes, b \in Places :
           \A g \in DOMAIN db.table[i][b] :
               db.table[i][b][g] \in Seq(Slots) \ {<<>>}
    /\ acked \in [Rows -> 0..SlotNum]

\* Every record is found through every index, once, and by its key alone.
SelectExact ==
    \A i \in Indexes, k \in Keys :
        LET found == select(db, i, k)
        IN  /\ IsInjective(found)
            /\ Range(found) = {s \in db.used : db.rec[s][i] = k}

\* An index has one entry for each record, and none that is left over from a
\* change that was taken back; its other nodes are free.
EntriesExact ==
    \A i \in Indexes :
        /\ IsInjective(selectALL(db, i)) /\ Range(selectALL(db, i)) = db.used
        /\ db.node[i] + Cardinality(db.used) = NodeNum[i]

\* No two records have the same key in a unique index.
UniqueKeys ==
    \A i \in Unique, s, t \in db.used :
        s # t => db.rec[s][i] # db.rec[t][i]

\* The table holds what the commits that returned have left: one that throws
\* has changed nothing, and one that returns all it was asked to.
AsAcknowledged ==
    \A r \in Rows : Cardinality({s \in db.used : db.rec[s] = r}) = acked[r]
===============================================================================
