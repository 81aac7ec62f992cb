-------------------------------- MODULE Table --------------------------------
(***************************************************************************)
(* Transactions on one table of the memory database: the sessions          *)
(* (mdb/MdbSession.cpp, TransDataMgr.cpp), the table (mdb/Table.cpp) and   *)
(* its row locks (LockManager).  A transaction locks either the rows it    *)
(* selects (m_lockType 1) or the whole table (m_lockType 0).               *)
(*                                                                         *)
(* The table's DoubleLock is what RWLock promises; only its exclusive side *)
(* matters here, since a select outside a transaction changes nothing.     *)
(***************************************************************************)
EXTENDS LockManager

CONSTANTS
    Modes,        \* the lock types that begin is called with: 0 table, 1 row
    Opers,        \* what is done to selected rows
    Absent,       \* value of a row that is not in the table
    Inserted,     \* the rows that are ever inserted
    Places,       \* the slots of memory a row may be put in
    MaxVersion,   \* bound on the updates of a row
    MaxTries      \* polls of a waiting session before it gives up (60000)

ASSUME TableAssumption ==
    /\ Modes \subseteq {0, 1} /\ Opers \subseteq {"select", "update", "delete"}
    /\ Inserted \subseteq Rows
    /\ MaxVersion \in Nat /\ MaxTries \in Nat
    /\ Absent \notin [addr : Places, ver : 0..MaxVersion]

VARIABLES
    writer,       \* the session that holds the table's write lock
    rec,          \* what a lookup finds: slot and version number, or Absent
    damaged,      \* a stale copy has been written, or its slot freed
    pc,           \* control point of each session
    m_lockType,   \* the transaction's lock type
    query,        \* rows the session's select asks for, and what for
    found,        \* what the select has copied, by row
    todo,         \* rows the select still has to lock
    cur,          \* the row it waits for
    ii,           \* the polls of a waiting session
    pool,         \* TransDataMgr: by selected row, the copy and what to do
    added         \* TransDataMgr: the rows to insert

queryVars == <<query, found, todo, cur, ii>>
poolVars == <<pool, added>>
recVars == <<rec, damaged>>
vars == <<lockVars, writer, recVars, pc, m_lockType, queryVars, poolVars>>

PCs == {"idle", "poll", "wantTable", "trans", "wantSel", "sel", "again",
        "failed", "unlocked"}
Records == [addr : Places, ver : 0..MaxVersion]
Nothing == [old |-> Absent, oper |-> "none"]
NoRows == [r \in Rows |-> Nothing]

\* clearTransData.
ClearPool(s) ==
    /\ pool' = [pool EXCEPT ![s] = NoRows]
    /\ added' = [added EXCEPT ![s] = {}]

Goto(s, l) == pc' = [pc EXCEPT ![s] = l]
getWriteLock(s) == writer = NoSession /\ writer' = s
releaseWriteLock == writer' = NoSession
\* A step that takes the write lock and gives it back.
WithWriteLock == writer = NoSession /\ UNCHANGED writer

-----------------------------------------------------------------------------
(* Seeded faults, each a plausible slip in the definition it is named      *)
(* after.  Nothing uses them.                                              *)

\* The session goes on polling for ever.
Fault_GivesUp(s) == FALSE

-----------------------------------------------------------------------------
(* begin                                                                   *)

\* For row locks beginTrans only notes the type; for the table it looks at
\* the lock table, holding no lock, and then asks for the write lock.
begin(s, type) ==
    /\ pc[s] = "idle"
    /\ m_lockType' = [m_lockType EXCEPT ![s] = type]
    /\ ClearPool(s)
    /\ Goto(s, IF type = 1 THEN "trans"
               ELSE IF isEmpty THEN "wantTable" ELSE "poll")
    /\ UNCHANGED <<lockVars, writer, recVars, queryVars>>

beginTrans_poll(s) ==
    /\ pc[s] = "poll" /\ isEmpty
    /\ Goto(s, "wantTable")
    /\ UNCHANGED <<lockVars, writer, recVars, m_lockType, queryVars, poolVars>>

beginTrans_lock(s) ==
    /\ pc[s] = "wantTable" /\ getWriteLock(s)
    /\ Goto(s, "trans")
    /\ UNCHANGED <<lockVars, recVars, m_lockType, queryVars, poolVars>>

-----------------------------------------------------------------------------
(* select, update, deleteRec and insert                                    *)

\* A row that the transaction has cached keeps its copy; one that it deletes
\* is not selected again.
Cache(s, copies, oper) ==
    /\ UNCHANGED added
    /\ pool' = [pool EXCEPT ![s] = [r \in Rows |->
                   IF copies[r] = Absent \/ pool[s][r].oper = "delete"
                   THEN pool[s][r]
                   ELSE IF pool[s][r] = Nothing
                        THEN [old |-> copies[r], oper |-> oper]
                        ELSE [pool[s][r] EXCEPT !.oper =
                                 IF oper = "select" THEN @ ELSE oper]]]

NoQuery == [rows |-> {}, oper |-> "select"]

\* The select returns: its local variables are gone.
Forget(s) ==
    /\ query' = [query EXCEPT ![s] = NoQuery]
    /\ found' = [found EXCEPT ![s] = [r \in Rows |-> Absent]]
    /\ todo' = [todo EXCEPT ![s] = {}]
    /\ ii' = [ii EXCEPT ![s] = 0]
    /\ UNCHANGED cur

Copies(rows) == [r \in Rows |-> IF r \in rows THEN rec[r] ELSE Absent]

\* Under a table lock the rows are read at once.
selectWithTrans_table(s, rows, oper) ==
    /\ pc[s] = "trans" /\ m_lockType[s] = 0
    /\ Cache(s, Copies(rows), oper)
    /\ UNCHANGED <<lockVars, writer, recVars, pc, m_lockType, queryVars>>

selectWithTrans_call(s, rows, oper) ==
    /\ pc[s] = "trans" /\ m_lockType[s] = 1
    /\ query' = [query EXCEPT ![s] = [rows |-> rows, oper |-> oper]]
    /\ Goto(s, "wantSel")
    /\ UNCHANGED <<lockVars, writer, recVars, m_lockType, found, todo, cur, ii,
                   poolVars>>

\* The rows are copied first and locked afterwards, one after the other.
selectWithTrans_select(s) ==
    /\ pc[s] = "wantSel" /\ getWriteLock(s)
    /\ found' = [found EXCEPT ![s] = Copies(query[s].rows)]
    /\ todo' = [todo EXCEPT ![s] = {r \in query[s].rows : rec[r] # Absent}]
    /\ Goto(s, "sel")
    /\ UNCHANGED <<lockVars, recVars, m_lockType, query, cur, ii, poolVars>>

\* Seeded fault: the victim of a deadlock goes on as if it had to wait.
Fault_selectWithTrans_judge(s, r) ==
    /\ pc[s] = "sel" /\ r \in todo[s]
    /\ \E v \in 0..4 :
           /\ judgeAndAddLock(s, r, v)
           /\ \/ /\ v \in {0, 1}
                 /\ todo' = [todo EXCEPT ![s] = @ \ {r}]
                 /\ UNCHANGED <<writer, pc, query, found, cur, ii>>
              \/ /\ v \in {2, 3, 4}
                 /\ releaseWriteLock /\ Goto(s, "again")
                 /\ cur' = [cur EXCEPT ![s] = r] /\ ii' = [ii EXCEPT ![s] = 0]
                 /\ UNCHANGED <<query, found, todo>>
    /\ UNCHANGED <<recVars, m_lockType, poolVars>>

selectWithTrans_judge(s, r) ==
    /\ pc[s] = "sel" /\ r \in todo[s]
    /\ \E v \in 0..4 :
           /\ judgeAndAddLock(s, r, v)
           /\ \/ /\ v \in {0, 1}
                 /\ todo' = [todo EXCEPT ![s] = @ \ {r}]
                 /\ UNCHANGED <<writer, pc, query, found, cur, ii>>
              \/ /\ v \in {2, 3}
                 /\ releaseWriteLock /\ Goto(s, "again")
                 /\ cur' = [cur EXCEPT ![s] = r] /\ ii' = [ii EXCEPT ![s] = 0]
                 /\ UNCHANGED <<query, found, todo>>
              \/ /\ v = 4
                 /\ releaseWriteLock /\ Goto(s, "failed") /\ Forget(s)
    /\ UNCHANGED <<recVars, m_lockType, poolVars>>

GivesUp(s) == ii[s] = MaxTries

\* Seeded fault: the polls are not counted.
Fault_selectWithTrans_again(s) ==
    /\ pc[s] = "again"
    /\ \/ /\ \E v \in {0, 1} : judgeAndAddLock(s, cur[s], v)
          /\ getWriteLock(s) /\ Goto(s, "sel")
          /\ todo' = [todo EXCEPT ![s] = @ \ {cur[s]}]
          /\ UNCHANGED <<query, found, cur, ii>>
       \/ /\ \E v \in {2, 3, 4} : judgeAndAddLock(s, cur[s], v)
          /\ WithWriteLock
          /\ UNCHANGED <<pc, queryVars>>
    /\ UNCHANGED <<recVars, m_lockType, poolVars>>

\* A millisecond later the session has been given the row, or it waits on, or
\* it gives up and releases all it has.
selectWithTrans_again(s) ==
    /\ pc[s] = "again"
    /\ \/ /\ \E v \in {0, 1} : judgeAndAddLock(s, cur[s], v)
          /\ getWriteLock(s) /\ Goto(s, "sel")
          /\ todo' = [todo EXCEPT ![s] = @ \ {cur[s]}]
          /\ UNCHANGED <<query, found, cur, ii>>
       \/ /\ \E v \in {2, 3, 4} : judgeAndAddLock(s, cur[s], v)
          /\ ~GivesUp(s) /\ WithWriteLock
          /\ ii' = [ii EXCEPT ![s] = @ + 1]
          /\ UNCHANGED <<pc, query, found, todo, cur>>
       \/ /\ lockType[s][cur[s]] = "wait"
          /\ GivesUp(s) /\ WithWriteLock
          /\ releaseLock(s) /\ Goto(s, "failed") /\ Forget(s)
    /\ UNCHANGED <<recVars, m_lockType, poolVars>>

selectWithTrans_end(s) ==
    /\ pc[s] = "sel" /\ todo[s] = {}
    /\ Cache(s, found[s], query[s].oper)
    /\ releaseWriteLock /\ Goto(s, "trans") /\ Forget(s)
    /\ UNCHANGED <<lockVars, recVars, m_lockType>>

\* An inserted row is only cached, under no address; it is not locked, and a
\* select of the same transaction does not find it.
insert(s, r) ==
    /\ pc[s] = "trans" /\ r \notin added[s]
    /\ added' = [added EXCEPT ![s] = @ \cup {r}]
    /\ UNCHANGED <<lockVars, writer, recVars, pc, m_lockType, queryVars, pool>>

-----------------------------------------------------------------------------
(* commit and rollBack                                                     *)

\* Deletes come first, then inserts, then updates, each in the slot that was
\* copied.  A copy is stale when its row has left that slot: no index has an
\* entry to delete, but the slot is freed all the same, and an update writes the
\* whole record into it, over what lies there by now.
InPlace(s, r) == rec[r] # Absent /\ rec[r].addr = pool[s][r].old.addr
Stale(s, oper) == {r \in Rows : pool[s][r].oper = oper /\ ~InPlace(s, r)}

AfterDelete(s, r) ==
    IF pool[s][r].oper = "delete" /\ InPlace(s, r) THEN Absent ELSE rec[r]

\* Where the rows ns can be put: the slots of an intact list of idle slots.
Placements(s, ns) ==
    LET Taken == {rec[q].addr : q \in {x \in Rows : AfterDelete(s, x) # Absent}}
    IN  {place \in [Rows -> Places] : \A n \in ns :
            /\ place[n] \notin Taken
            /\ \A x \in ns : place[x] = place[n] => x = n}

AfterInsert(s, r, place) ==
    IF r \in added[s] THEN [addr |-> place[r], ver |-> 0] ELSE AfterDelete(s, r)

\* Of several copies of one slot the last to be written stays.
Writers(s, a) ==
    {u \in Rows : pool[s][u].oper = "update" /\ pool[s][u].old.addr = a}
Orders(s) ==
    {last \in [Places -> Rows] :
        \A a \in Places : Writers(s, a) # {} => last[a] \in Writers(s, a)}

\* An update writes the record as it was when it was copied plus the change.  A
\* row whose slot holds the record of another is not found any more.
Applied(s, r, place, last) ==
    LET was == AfterInsert(s, r, place)
    IN  IF was = Absent \/ Writers(s, was.addr) = {} THEN was
        ELSE IF last[was.addr] # r THEN Absent
        ELSE [was EXCEPT !.ver = pool[s][r].old.ver + 1]

\* What is left when the inserts fail: the deleted rows are inserted again from
\* their copies, all of them or, if one of them is still there, none.
Deleted(s) == {r \in Rows : pool[s][r].oper = "delete"}
Undone(s, r, place) ==
    IF r \in Deleted(s) /\ \A d \in Deleted(s) : AfterDelete(s, d) = Absent
    THEN [addr |-> place[r], ver |-> pool[s][r].old.ver]
    ELSE AfterDelete(s, r)

\* A slot that is freed twice, or written while it is idle, breaks the list of
\* idle slots, whose links are kept in the slots, and an index entry that leads
\* to another row's record is never deleted.  From then on what a commit writes
\* may land anywhere.
Writes(s) ==
    added[s] # {} \/ \E r \in Rows : pool[s][r].oper \in {"update", "delete"}
LandsAnywhere(s) ==
    \/ damaged /\ Writes(s)
    \/ Stale(s, "delete") # {} /\ added[s] # {}
Anything == [Rows -> Records \cup {Absent}]

Bounded(s) ==
    \A r \in Rows :
        pool[s][r].oper = "update" => pool[s][r].old.ver < MaxVersion

\* commit gives the row locks back first, but under the write lock; a table
\* lock is held already.
EndsLocked(s) ==
    IF m_lockType[s] = 1 THEN WithWriteLock /\ releaseLock(s)
                         ELSE releaseWriteLock /\ UNCHANGED lockVars

commit(s) ==
    /\ pc[s] = "trans" /\ Bounded(s)
    /\ \A r \in added[s] : AfterDelete(s, r) = Absent
    /\ EndsLocked(s)
    /\ IF LandsAnywhere(s)
       THEN rec' \in Anything
       ELSE \E place \in Placements(s, added[s]), last \in Orders(s) :
                rec' = [r \in Rows |-> Applied(s, r, place, last)]
    /\ damaged' = (damaged \/ Stale(s, "delete") \cup Stale(s, "update") # {})
    /\ ClearPool(s)
    /\ Goto(s, "idle")
    /\ UNCHANGED <<m_lockType, queryVars>>

\* An insert that fails, for a duplicate key or for want of memory, leaves
\* nothing behind; commit undoes the deletes and throws, all locks released.
commit_throw(s) ==
    /\ pc[s] = "trans" /\ added[s] # {}
    /\ EndsLocked(s)
    /\ IF LandsAnywhere(s)
       THEN rec' \in Anything
       ELSE \E place \in Placements(s, Deleted(s)) :
                rec' = [r \in Rows |-> Undone(s, r, place)]
    /\ damaged' = (damaged \/ Stale(s, "delete") # {})
    /\ Goto(s, IF m_lockType[s] = 0 THEN "unlocked" ELSE "failed")
    /\ UNCHANGED <<m_lockType, queryVars, poolVars>>

\* Seeded fault: the table lock is released after every exception.
Fault_rollBack(s) ==
    /\ pc[s] \in {"trans", "failed", "unlocked"}
    /\ EndsLocked(s)
    /\ ClearPool(s)
    /\ Goto(s, "idle")
    /\ UNCHANGED <<recVars, m_lockType, queryVars>>

\* After an exception the caller rolls back; a table lock that commit has
\* released is not released again.
rollBack(s) ==
    /\ pc[s] \in {"trans", "failed", "unlocked"}
    /\ IF pc[s] = "unlocked" THEN UNCHANGED <<writer, lockVars>>
                             ELSE EndsLocked(s)
    /\ ClearPool(s)
    /\ Goto(s, "idle")
    /\ UNCHANGED <<recVars, m_lockType, queryVars>>

\* Seeded fault: truncate does not look at the row locks.
Fault_truncate(s) ==
    /\ pc[s] = "idle" /\ WithWriteLock
    /\ rec' = [r \in Rows |-> Absent]
    /\ UNCHANGED <<lockVars, damaged, pc, m_lockType, queryVars, poolVars>>

\* truncate is refused while there are row locks.
truncate(s) ==
    /\ pc[s] = "idle" /\ WithWriteLock /\ isEmpty
    /\ rec' = [r \in Rows |-> Absent]
    /\ UNCHANGED <<lockVars, damaged, pc, m_lockType, queryVars, poolVars>>

-----------------------------------------------------------------------------

Init ==
    /\ lockType = [s \in Sessions |-> [r \in Rows |-> "none"]]
    /\ chain = [r \in Rows |-> <<>>]
    /\ writer = NoSession
    /\ rec \in [Rows -> [addr : Places, ver : {0}]]
    /\ \A q, r \in Rows : rec[q].addr = rec[r].addr => q = r
    /\ damaged = FALSE
    /\ pc = [s \in Sessions |-> "idle"]
    /\ m_lockType = [s \in Sessions |-> 0]
    /\ query = [s \in Sessions |-> NoQuery]
    /\ found = [s \in Sessions |-> [r \in Rows |-> Absent]]
    /\ todo = [s \in Sessions |-> {}]
    /\ cur \in [Sessions -> Rows]
    /\ ii = [s \in Sessions |-> 0]
    /\ pool = [s \in Sessions |-> NoRows]
    /\ added = [s \in Sessions |-> {}]

Transaction(s) ==
    \/ \E type \in Modes : begin(s, type)
    \/ \E rows \in (SUBSET Rows) \ {{}}, oper \in Opers :
           \/ selectWithTrans_table(s, rows, oper)
           \/ selectWithTrans_call(s, rows, oper)
    \/ \E r \in Inserted : insert(s, r)
    \/ commit(s)
    \/ commit_throw(s)
    \/ rollBack(s)

\* The steps of a call under way.
Proceed(s) ==
    \/ beginTrans_poll(s)
    \/ beginTrans_lock(s)
    \/ selectWithTrans_select(s)
    \/ \E r \in Rows : selectWithTrans_judge(s, r)
    \/ selectWithTrans_again(s)
    \/ selectWithTrans_end(s)

Next == \E s \in Sessions : Transaction(s) \/ Proceed(s) \/ truncate(s)

Spec == Init /\ [][Next]_vars

\* A call under way takes its next step if nothing but that is to happen.  The
\* lock's writers may keep one of them out for ever, and what the caller does
\* between two calls may take for ever.
FairSpec == Spec /\ \A s \in Sessions : WF_vars(Proceed(s))

-----------------------------------------------------------------------------

TypeOK ==
    /\ lockType \in [Sessions -> [Rows -> LockTypes]]
    /\ chain \in [Rows -> Seq(Sessions)]
    /\ writer \in Sessions \cup {NoSession}
    /\ rec \in [Rows -> Records \cup {Absent}] /\ damaged \in BOOLEAN
    /\ pc \in [Sessions -> PCs]
    /\ m_lockType \in [Sessions -> {0, 1}]
    /\ query \in [Sessions ->
                     [rows : SUBSET Rows, oper : Opers \cup {"select"}]]
    /\ found \in [Sessions -> [Rows -> Records \cup {Absent}]]
    /\ todo \in [Sessions -> SUBSET Rows]
    /\ cur \in [Sessions -> Rows]
    /\ ii \in [Sessions -> 0..MaxTries]
    /\ pool \in [Sessions -> [Rows -> [old : Records \cup {Absent},
                     oper : {"none", "select", "update", "delete"}]]]
    /\ added \in [Sessions -> SUBSET Rows]

\* A row has one owner at most, and a session waits only for a row that has
\* one: releaseLock hands every row it frees to a waiting session, and no
\* session is left waiting for nobody.
RowsHandedOver ==
    \A r \in Rows :
        /\ \A s, u \in Owners(r) : s = u
        /\ Waiting(r) # {} => Owners(r) # {}

\* No session waits, through others, for itself: detectDeadLock finds every
\* cycle before it is closed, and its walk, which has no other end, ends.
NoWaitCycle ==
    \A ring \in (SUBSET Sessions) \ {{}} :
        \E s \in ring : \A r \in WaitsFor(s) : Owners(r) \cap ring = {}

\* What a row-locking transaction is going to change it owns; a transaction
\* that has lost its locks is not going to commit.
ChangesAreLocked ==
    \A s \in Sessions, r \in Rows :
        /\ m_lockType[s] = 1 /\ pc[s] \in {"trans", "wantSel", "sel", "again"}
        /\ pool[s][r].oper # "none"
        => s \in Owners(r)

\* A row in the table that some session owns changes only in the step in which
\* that session gives it up.
OwnedRowsStable ==
    [][\A r \in Rows, s \in Sessions :
          /\ s \in Owners(r) /\ rec[r] # Absent
          /\ rec'[r] # rec[r]
          => lockType'[s][r] = "none"]_vars

\* While a session has the table lock nobody else changes a row; releasing the
\* lock twice (MdbSession.cpp:69-71) would let others in.
TableLockHolds ==
    [][\A s \in Sessions :
          /\ m_lockType[s] = 0 /\ pc[s] = "trans"
          /\ rec' # rec
          => pc'[s] # "trans"]_vars

\* A session that waits for a row gets it or gives up, whatever the owner of
\* the row does.  It waits for ever only if another one stays in the table lock
\* for ever, or if the table's lock, free again and again, never lets it in.
KeptOut(s) == ~SF_vars(selectWithTrans_again(s))
WaitEnds ==
    \A s \in Sessions :
        <>[](pc[s] = "again")
        => \/ KeptOut(s)
           \/ \E u \in Sessions : <>[](pc[u] = "trans" /\ m_lockType[u] = 0)

\* There are no row locks in a table that is locked (Table.cpp:33-44).
TableLockExcludesRowLocks ==
    \A s \in Sessions :
        pc[s] = "trans" /\ m_lockType[s] = 0 => isEmpty

\* A transaction changes the rows that it has read: no update of another
\* session is overwritten unseen.
NoLostUpdate ==
    [][\A s \in Sessions, r \in Rows :
          commit(s) /\ pool[s][r].oper = "update"
          => pool[s][r].old = rec[r]]_vars

\* A commit writes over no row but the ones it has copied (BaseTable.cpp:483).
NoStrayUpdate ==
    [][\A s \in Sessions, r, q \in Rows :
          /\ commit(s) /\ pool[s][r].oper = "update" /\ ~damaged
          /\ rec[q] # Absent /\ rec[q].addr = pool[s][r].old.addr
          => q = r]_vars
=============================================================================
