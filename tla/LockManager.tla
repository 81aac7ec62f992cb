----------------------------- MODULE LockManager -----------------------------
(***************************************************************************)
(* The row locks of one table (mdb/LockManager.cpp).  The lock table holds *)
(* one record per session and row, of LOCK_TYPE '1' (owns the row) or '0'  *)
(* (waits for it), and is read through a hash index on the row.  All of    *)
(* its operations but isEmpty run under the write lock of the table.       *)
(***************************************************************************)
EXTENDS Integers, Sequences, FiniteSets

CONSTANTS
    Sessions,   \* session ids
    Rows,       \* lockable resources: primary keys of the table
    NoSession

ASSUME SessionsAssumption ==
    IsFiniteSet(Sessions) /\ IsFiniteSet(Rows) /\ NoSession \notin Sessions

VARIABLES
    lockType,   \* LOCK_TYPE of each session's record for each row
    chain       \* per row, the order in which the index returns its sessions

lockVars == <<lockType, chain>>

LockTypes == {"none", "wait", "own"}

Owners(r) == {s \in Sessions : lockType[s][r] = "own"}
Waiting(r) == {s \in Sessions : lockType[s][r] = "wait"}

\* m_recordNum = 0.
isEmpty == \A s \in Sessions, r \in Rows : lockType[s][r] = "none"

\* A new entry goes behind the first of its key, which stays at the head.
Enchain(q, s) == IF q = <<>> THEN <<s>> ELSE <<Head(q), s>> \o Tail(q)
Lists(q, s) == \E i \in 1..Len(q) : q[i] = s
Unchain(q, s) ==
    IF ~Lists(q, s) THEN q
    ELSE LET i == CHOOSE k \in 1..Len(q) : q[k] = s
         IN  [j \in 1..(Len(q) - 1) |-> IF j < i THEN q[j] ELSE q[j + 1]]

insertLock(s, r, type) ==
    /\ lockType' = [lockType EXCEPT ![s][r] = type]
    /\ chain' = [chain EXCEPT ![r] = Enchain(@, s)]

findOwnSessionByResource(r) ==
    IF Owners(r) = {} THEN NoSession
    ELSE CHOOSE s \in Sessions : s \in Owners(r)

WaitsFor(s) == {r \in Rows : lockType[s][r] = "wait"}

\* findWaitResourceBySession, and the owner of what it found.
Blocker(s) ==
    IF s = NoSession \/ WaitsFor(s) = {} THEN NoSession
    ELSE findOwnSessionByResource(CHOOSE r \in Rows : r \in WaitsFor(s))

\* Seeded fault: only the owner of the row itself is looked at.
Fault_detectDeadLock(r, s) == findOwnSessionByResource(r) = s

\* The walk from row r, to its owner, to the owner of what that one waits for
\* and so on, meets s: s is in every set that the walk cannot leave.
detectDeadLock(r, s) ==
    \A met \in SUBSET (Sessions \cup {NoSession}) :
        findOwnSessionByResource(r) \in met
        /\ (\A x \in met : Blocker(x) \in met)
        => s \in met

\* s is the session whose record signalFirstWaitSessionByResource meets first.
FirstWaiting(s, r) ==
    /\ s \in Waiting(r)
    /\ \E i \in 1..Len(chain[r]) :
           /\ chain[r][i] = s
           /\ \A j \in 1..(i - 1) : chain[r][j] \notin Waiting(r)

\* Seeded fault: the records are deleted and nobody is signalled.
Fault_releaseLock(s) ==
    /\ lockType' = [lockType EXCEPT ![s] = [r \in Rows |-> "none"]]
    /\ chain' = [r \in Rows |-> Unchain(chain[r], s)]

\* Every row the session owns goes to one that waits for it; then all records
\* of the session are deleted.  With no other session's record in the table
\* there is nobody to signal.
releaseLock(s) ==
    \E next \in [Rows -> Sessions \cup {NoSession}] :
        /\ \A r \in Rows :
               IF s \in Owners(r) /\ \E x \in Sessions : FirstWaiting(x, r)
               THEN FirstWaiting(next[r], r)
               ELSE next[r] = NoSession
        /\ lockType' = [x \in Sessions |-> [r \in Rows |->
                           IF x = s THEN "none"
                           ELSE IF x = next[r] THEN "own"
                           ELSE lockType[x][r]]]
        /\ chain' = [r \in Rows |-> Unchain(chain[r], s)]

\* The result is 0: row was free, 1: owned already, 2: waits already, 3: has to
\* wait, 4: would deadlock, and everything the session had is released.
judgeAndAddLock(s, r, result) ==
    \/ /\ result = 0 /\ Owners(r) \cup Waiting(r) = {}
       /\ insertLock(s, r, "own")
    \/ /\ result = 1 /\ s \in Owners(r)
       /\ UNCHANGED lockVars
    \/ /\ result = 2 /\ s \in Waiting(r)
       /\ UNCHANGED lockVars
    \/ /\ result = 3 /\ lockType[s][r] = "none"
       /\ Owners(r) \cup Waiting(r) # {} /\ ~detectDeadLock(r, s)
       /\ insertLock(s, r, "wait")
    \/ /\ result = 4 /\ lockType[s][r] = "none"
       /\ Owners(r) \cup Waiting(r) # {} /\ detectDeadLock(r, s)
       /\ releaseLock(s)
==============================================================================
