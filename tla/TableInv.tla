------------------------------ MODULE TableInv -------------------------------
(***************************************************************************)
(* The inductive invariant of Table: what holds of each session by itself, *)
(* and what the lock table says of all of them.                            *)
(***************************************************************************)
EXTENDS Table

\* Transactions lock rows only.
RowLocksOnly == 0 \notin Modes

\* The lock type a control point belongs to.
ModeOfPC(s) ==
    /\ pc[s] # "idle" => m_lockType[s] \in Modes
    /\ pc[s] \in {"poll", "wantTable", "unlocked"} => m_lockType[s] = 0
    /\ pc[s] \in {"wantSel", "sel", "again", "failed"} => m_lockType[s] = 1

\* The write lock is held exactly in a select, and in a transaction that has
\* locked the table.
WriterOfPC(s) ==
    writer = s <=> \/ pc[s] = "sel"
                   \/ pc[s] = "trans" /\ m_lockType[s] = 0

\* Row locks belong to a row-locking transaction under way.
LocksOfPC(s) ==
    pc[s] \in {"idle", "failed"} \/ m_lockType[s] = 0
    => \A r \in Rows : lockType[s][r] = "none"

\* A session waits for one row, and only in the loop of selectWithTrans.
WaitsOnce(s) ==
    /\ \A r \in Rows : lockType[s][r] = "wait" => pc[s] = "again" /\ cur[s] = r
    /\ pc[s] = "again" => lockType[s][cur[s]] # "none"

\* A cached row has been copied from the table.
PoolSound(s) ==
    \A r \in Rows :
        \/ pool[s][r] = Nothing
        \/ /\ pool[s][r].old \in Records
           /\ pool[s][r].oper \in {"select", "update", "delete"}

\* Of the rows it has copied, a select owns those it has done with.
SelectedOwned(s) ==
    pc[s] \in {"sel", "again"} =>
        \A r \in Rows : found[s][r] # Absent /\ r \notin todo[s]
                        => lockType[s][r] = "own"

\* A row-locking transaction owns what it has cached.
CachedOwned(s) ==
    m_lockType[s] = 1 /\ pc[s] \in {"trans", "wantSel", "sel", "again"} =>
        \A r \in Rows : pool[s][r].oper # "none" => lockType[s][r] = "own"

ControlInv(s) == ModeOfPC(s) /\ WriterOfPC(s) /\ LocksOfPC(s) /\ WaitsOnce(s)
CacheInv(s) == PoolSound(s) /\ SelectedOwned(s) /\ CachedOwned(s)

\* Every waiting session is in the index chain of its row, where releaseLock
\* looks for it.
WaitersListed ==
    \A r \in Rows : \A s \in Waiting(r) : Lists(chain[r], s)

IInv ==
    /\ TypeOK
    /\ \A s \in Sessions : ControlInv(s) /\ CacheInv(s)
    /\ WaitersListed /\ RowsHandedOver

-----------------------------------------------------------------------------
(* Rows that stay where they are                                           *)

\* No transaction deletes rows.
NoDeletes == "delete" \notin Opers

NothingDeleted(s) == \A r \in Rows : pool[s][r].oper # "delete"

\* The row is still in the slot that it was copied from.
SameSlot(r, copy) ==
    copy # Absent => rec[r] # Absent /\ rec[r].addr = copy.addr

\* No copy that may yet be committed is stale.
CopiesInPlace(s) ==
    /\ pc[s] \in {"sel", "again"} =>
           \A r \in Rows : SameSlot(r, found[s][r])
    /\ pc[s] \in {"trans", "wantSel", "sel", "again"} =>
           \A r \in Rows : SameSlot(r, pool[s][r].old)

OneRowPerSlot ==
    \A q, r \in Rows :
        rec[q] # Absent /\ rec[r] # Absent /\ rec[q].addr = rec[r].addr
        => q = r

StayInv ==
    /\ ~damaged /\ OneRowPerSlot
    /\ \A s \in Sessions : NothingDeleted(s) /\ CopiesInPlace(s)
=============================================================================
