----------------------------- MODULE TableProofs -----------------------------
(***************************************************************************)
(* Proofs about Table, for any sets of sessions and rows.                  *)
(***************************************************************************)
EXTENDS TableInv, WellFoundedInduction, TLAPS

-----------------------------------------------------------------------------
(* The index chain of a row                                                *)

LEMMA EnchainLists ==
    ASSUME NEW S, NEW q \in Seq(S), NEW s \in S
    PROVE  /\ Enchain(q, s) \in Seq(S)
           /\ Lists(Enchain(q, s), s)
           /\ \A x \in S : Lists(q, x) => Lists(Enchain(q, s), x)
  <1>1. CASE q = <<>>
    BY <1>1 DEF Enchain, Lists
  <1>2. CASE q # <<>>
    <2> DEFINE e == <<Head(q), s>> \o Tail(q)
    <2>1. /\ e \in Seq(S) /\ Len(e) = Len(q) + 1
          /\ e[1] = q[1] /\ e[2] = s
          /\ \A j \in 2..Len(q) : e[j + 1] = q[j]
      BY <1>2
    <2>2. e = Enchain(q, s)
      BY <1>2 DEF Enchain
    <2> HIDE DEF e
    <2>3. Len(q) >= 1 /\ Len(q) \in Nat
      BY <1>2
    <2>4. Lists(e, s)
      BY <2>1, <2>3 DEF Lists
    <2>5. ASSUME NEW x \in S, Lists(q, x)
          PROVE  Lists(e, x)
      <3>1. PICK i \in 1..Len(q) : q[i] = x
        BY <2>5 DEF Lists
      <3>2. CASE i = 1
        BY <3>1, <3>2, <2>1, <2>3 DEF Lists
      <3>3. CASE i # 1
        <4>1. i + 1 \in 1..Len(e) /\ e[i + 1] = x
          BY <3>1, <3>3, <2>1, <2>3
        <4> QED BY <4>1 DEF Lists
      <3> QED BY <3>2, <3>3
    <2> QED BY <2>1, <2>2, <2>4, <2>5
  <1> QED BY <1>1, <1>2

LEMMA UnchainLists ==
    ASSUME NEW S, NEW q \in Seq(S), NEW s \in S
    PROVE  /\ Unchain(q, s) \in Seq(S)
           /\ \A x \in S : x # s /\ Lists(q, x) => Lists(Unchain(q, s), x)
  <1>1. CASE ~Lists(q, s)
    BY <1>1 DEF Unchain
  <1>2. CASE Lists(q, s)
    <2> DEFINE i == CHOOSE k \in 1..Len(q) : q[k] = s
               u == [j \in 1..(Len(q) - 1) |-> IF j < i THEN q[j] ELSE q[j + 1]]
    <2>1. i \in 1..Len(q) /\ q[i] = s
      BY <1>2 DEF Lists
    <2>2. u = Unchain(q, s)
      BY <1>2 DEF Unchain
    <2> HIDE DEF i
    <2>3. Len(q) \in Nat /\ Len(q) - 1 \in Nat
      BY <2>1
    <2>4. \A j \in 1..(Len(q) - 1) : u[j] \in S
      BY <2>1, <2>3
    <2>5. u \in Seq(S) /\ Len(u) = Len(q) - 1
      BY <2>3, <2>4
    <2>6. ASSUME NEW x \in S, x # s, Lists(q, x)
          PROVE  Lists(u, x)
      <3>1. PICK k \in 1..Len(q) : q[k] = x
        BY <2>6 DEF Lists
      <3>2. k # i
        BY <3>1, <2>1, <2>6
      <3>3. CASE k < i
        <4>1. k \in 1..Len(u) /\ u[k] = x
          BY <3>1, <3>3, <2>1, <2>5
        <4> QED BY <4>1 DEF Lists
      <3>4. CASE k > i
        <4>1. k - 1 \in 1..Len(u) /\ u[k - 1] = x
          BY <3>1, <3>4, <2>1, <2>5
        <4> QED BY <4>1 DEF Lists
      <3> QED BY <3>2, <3>3, <3>4, <2>1
    <2> QED BY <2>2, <2>5, <2>6
  <1> QED BY <1>1, <1>2

\* If somebody waits for a row, releaseLock finds a first one.
LEMMA SomebodyFirst ==
    ASSUME NEW r \in Rows, chain[r] \in Seq(Sessions), Waiting(r) # {},
           \A s \in Waiting(r) : Lists(chain[r], s)
    PROVE  \E s \in Sessions : FirstWaiting(s, r)
  <1> DEFINE T == {i \in 1..Len(chain[r]) : chain[r][i] \in Waiting(r)}
  <1>1. T \subseteq Nat
    OBVIOUS
  <1>2. T # {}
    BY DEF Lists
  <1>3. PICK i \in T : \A j \in T : ~(j < i)
    <2> DEFINE less == {ss \in Nat \X Nat : ss[1] < ss[2]}
    <2>1. IsWellFoundedOn(less, Nat)
      BY NatLessThanWellFounded, Zenon DEF OpToRel
    <2> HIDE DEF T, less
    <2>2. \E i \in T : \A j \in T : ~(<<j, i>> \in less)
      BY <1>1, <1>2, <2>1, WFMin
    <2> USE DEF less
    <2> QED BY <1>1, <2>2
  <1>5. i \in 1..Len(chain[r]) /\ chain[r][i] \in Waiting(r)
    OBVIOUS
  <1>6. \A j \in 1..(i - 1) : chain[r][j] \notin Waiting(r)
    <2> TAKE j \in 1..(i - 1)
    <2>1. j \in 1..Len(chain[r]) /\ j < i
      BY <1>5
    <2> QED BY <2>1, <1>3
  <1>7. chain[r][i] \in Sessions
    BY <1>5
  <1>8. FirstWaiting(chain[r][i], r)
    BY <1>5, <1>6 DEF FirstWaiting
  <1> QED BY <1>7, <1>8

-----------------------------------------------------------------------------
(* The operations of the lock table                                        *)

LocksTyped ==
    /\ lockType \in [Sessions -> [Rows -> LockTypes]]
    /\ chain \in [Rows -> Seq(Sessions)]

LocksSound == LocksTyped /\ WaitersListed /\ RowsHandedOver

\* An operation of s takes nothing from another session: at most it is given
\* a row it waits for.
KeepsLocks(s) ==
    \A x \in Sessions \ {s}, r \in Rows :
        \/ lockType'[x][r] = lockType[x][r]
        \/ lockType[x][r] = "wait" /\ lockType'[x][r] = "own"

LEMMA InsertSound ==
    ASSUME LocksSound, NEW s \in Sessions, NEW r \in Rows,
           NEW type \in {"own", "wait"}, lockType[s][r] = "none",
           type = "own" => Owners(r) \cup Waiting(r) = {},
           type = "wait" => Owners(r) # {},
           insertLock(s, r, type)
    PROVE  /\ LocksSound' /\ KeepsLocks(s)
           /\ lockType'[s] = [lockType[s] EXCEPT ![r] = type]
  <1>1. LocksTyped
    BY DEF LocksSound
  <1>2. /\ lockType' = [lockType EXCEPT ![s][r] = type]
        /\ chain' = [chain EXCEPT ![r] = Enchain(@, s)]
    BY DEF insertLock
  <1>3. /\ Enchain(chain[r], s) \in Seq(Sessions)
        /\ Lists(Enchain(chain[r], s), s)
        /\ \A x \in Sessions :
               Lists(chain[r], x) => Lists(Enchain(chain[r], s), x)
    <2>1. chain[r] \in Seq(Sessions)
      BY <1>1 DEF LocksTyped
    <2> QED BY <2>1, EnchainLists
  <1>4. /\ \A x \in Sessions, q \in Rows :
               lockType'[x][q] = IF x = s /\ q = r THEN type
                                 ELSE lockType[x][q]
        /\ lockType'[s] = [lockType[s] EXCEPT ![r] = type]
    BY <1>1, <1>2 DEF LocksTyped
  <1>5. LocksTyped'
    BY <1>1, <1>2, <1>3 DEF LocksTyped, LockTypes
  <1>6. WaitersListed'
    <2> SUFFICES ASSUME NEW q \in Rows, NEW x \in Sessions,
                        lockType'[x][q] = "wait"
                 PROVE  Lists(chain'[q], x)
      BY DEF WaitersListed, Waiting
    <2>1. CASE q = r
      <3>1. chain'[q] = Enchain(chain[r], s)
        BY <2>1, <1>1, <1>2 DEF LocksTyped
      <3>2. CASE x = s
        BY <3>1, <3>2, <1>3
      <3>3. CASE x # s
        <4>1. lockType[x][r] = "wait"
          BY <3>3, <2>1, <1>4
        <4>2. Lists(chain[r], x)
          BY <4>1 DEF LocksSound, WaitersListed, Waiting
        <4> QED BY <4>2, <3>1, <1>3
      <3> QED BY <3>2, <3>3
    <2>2. CASE q # r
      <3>1. chain'[q] = chain[q] /\ lockType[x][q] = "wait"
        BY <2>2, <1>1, <1>2, <1>4 DEF LocksTyped
      <3> QED BY <3>1 DEF LocksSound, WaitersListed, Waiting
    <2> QED BY <2>1, <2>2
  <1>7. RowsHandedOver'
    <2> SUFFICES ASSUME NEW q \in Rows
                 PROVE  /\ \A x, y \in Sessions :
                               lockType'[x][q] = "own" /\ lockType'[y][q] = "own"
                               => x = y
                        /\ \A x \in Sessions : lockType'[x][q] = "wait" =>
                               \E y \in Sessions : lockType'[y][q] = "own"
      BY DEF RowsHandedOver, Owners, Waiting
    <2>1. /\ \A x, y \in Sessions :
                 lockType[x][q] = "own" /\ lockType[y][q] = "own" => x = y
          /\ \A x \in Sessions : lockType[x][q] = "wait" =>
                 \E y \in Sessions : lockType[y][q] = "own"
      BY DEF LocksSound, RowsHandedOver, Owners, Waiting
    <2>2. /\ type = "own" => \A x \in Sessions :
                                lockType[x][r] # "own" /\ lockType[x][r] # "wait"
          /\ type = "wait" => \E y \in Sessions : lockType[y][r] = "own"
      BY DEF Owners, Waiting
    <2> QED BY <1>4, <2>1, <2>2
  <1> QED BY <1>4, <1>5, <1>6, <1>7 DEF LocksSound, KeepsLocks

LEMMA ReleaseSound ==
    ASSUME LocksSound, NEW s \in Sessions, releaseLock(s)
    PROVE  /\ LocksSound' /\ KeepsLocks(s)
           /\ lockType'[s] = [r \in Rows |-> "none"]
  <1>1. LocksTyped
    BY DEF LocksSound
  <1>2. PICK next \in [Rows -> Sessions \cup {NoSession}] :
            /\ \A r \in Rows :
                   IF s \in Owners(r) /\ \E x \in Sessions : FirstWaiting(x, r)
                   THEN FirstWaiting(next[r], r)
                   ELSE next[r] = NoSession
            /\ lockType' = [x \in Sessions |-> [r \in Rows |->
                               IF x = s THEN "none"
                               ELSE IF x = next[r] THEN "own"
                               ELSE lockType[x][r]]]
            /\ chain' = [r \in Rows |-> Unchain(chain[r], s)]
    BY DEF releaseLock
  <1>3. \A x \in Sessions, r \in Rows :
            lockType'[x][r] = IF x = s THEN "none"
                              ELSE IF x = next[r] THEN "own"
                              ELSE lockType[x][r]
    BY <1>2
  <1>4. \A r \in Rows : chain[r] \in Seq(Sessions)
    BY <1>1 DEF LocksTyped
  \* Who is given a row waited for it, and s owned it.
  <1>5. \A r \in Rows : next[r] # NoSession =>
            /\ next[r] \in Sessions /\ lockType[next[r]][r] = "wait"
            /\ lockType[s][r] = "own"
    BY <1>2 DEF FirstWaiting, Waiting, Owners
  <1>6. \A r \in Rows : next[r] = NoSession /\ lockType[s][r] = "own" =>
            \A x \in Sessions : lockType[x][r] # "wait"
    <2> SUFFICES ASSUME NEW r \in Rows, next[r] = NoSession,
                        lockType[s][r] = "own", Waiting(r) # {}
                 PROVE  FALSE
      BY DEF Waiting
    <2>1. \E x \in Sessions : FirstWaiting(x, r)
      BY <1>4, SomebodyFirst DEF LocksSound, WaitersListed
    <2>2. FirstWaiting(next[r], r)
      BY <1>2, <2>1 DEF Owners
    <2>3. NoSession \in Sessions
      BY <2>2 DEF FirstWaiting, Waiting
    <2> QED BY <2>3, SessionsAssumption
  <1>7. LocksTyped'
    <2>1. lockType' \in [Sessions -> [Rows -> LockTypes]]
      BY <1>1, <1>2 DEF LocksTyped, LockTypes
    <2>2. \A r \in Rows : Unchain(chain[r], s) \in Seq(Sessions)
      BY <1>4, UnchainLists
    <2> QED BY <1>2, <2>1, <2>2 DEF LocksTyped
  <1>8. KeepsLocks(s)
    BY <1>3, <1>5, SessionsAssumption DEF KeepsLocks
  <1>9. WaitersListed'
    <2> SUFFICES ASSUME NEW r \in Rows, NEW x \in Sessions,
                        lockType'[x][r] = "wait"
                 PROVE  Lists(chain'[r], x)
      BY DEF WaitersListed, Waiting
    <2>1. x # s /\ lockType[x][r] = "wait"
      BY <1>3
    <2>2. Lists(chain[r], x)
      BY <2>1 DEF LocksSound, WaitersListed, Waiting
    <2>3. Lists(Unchain(chain[r], s), x)
      BY <2>1, <2>2, <1>4, UnchainLists
    <2> QED BY <2>3, <1>2
  <1>10. RowsHandedOver'
    <2> SUFFICES ASSUME NEW q \in Rows
                 PROVE  /\ \A x, y \in Sessions :
                               lockType'[x][q] = "own" /\ lockType'[y][q] = "own"
                               => x = y
                        /\ \A x \in Sessions : lockType'[x][q] = "wait" =>
                               \E y \in Sessions : lockType'[y][q] = "own"
      BY DEF RowsHandedOver, Owners, Waiting
    <2>1. /\ \A x, y \in Sessions :
                 lockType[x][q] = "own" /\ lockType[y][q] = "own" => x = y
          /\ \A x \in Sessions : lockType[x][q] = "wait" =>
                 \E y \in Sessions : lockType[y][q] = "own"
      BY DEF LocksSound, RowsHandedOver, Owners, Waiting
    <2>2. CASE next[q] = NoSession
      BY <1>3, <1>6, <2>1, <2>2, SessionsAssumption
    <2>3. CASE next[q] # NoSession
      BY <1>3, <1>5, <2>1, <2>3
    <2> QED BY <2>2, <2>3
  <1> QED BY <1>2, <1>7, <1>8, <1>9, <1>10 DEF LocksSound

\* What the results of judgeAndAddLock say of the session's own locks.
Judged(s, r, v) ==
    /\ v \in {0, 1} => lockType'[s] = [lockType[s] EXCEPT ![r] = "own"]
    /\ v = 2 => lockType[s][r] = "wait" /\ lockType' = lockType
    /\ v = 3 => /\ lockType[s][r] = "none"
                /\ lockType'[s] = [lockType[s] EXCEPT ![r] = "wait"]
    /\ v = 4 => /\ lockType[s][r] = "none"
                /\ lockType'[s] = [q \in Rows |-> "none"]

LEMMA JudgeSound ==
    ASSUME LocksSound, NEW s \in Sessions, NEW r \in Rows, NEW v \in 0..4,
           judgeAndAddLock(s, r, v)
    PROVE  LocksSound' /\ KeepsLocks(s) /\ Judged(s, r, v)
  <1>1. lockType[s] \in [Rows -> LockTypes]
    BY DEF LocksSound, LocksTyped
  <1>2. CASE v = 0
    <2>1. Owners(r) \cup Waiting(r) = {} /\ insertLock(s, r, "own")
      BY <1>2 DEF judgeAndAddLock
    <2>2. lockType[s][r] = "none"
      BY <1>1, <2>1 DEF Owners, Waiting, LockTypes
    <2>3. /\ LocksSound' /\ KeepsLocks(s)
          /\ lockType'[s] = [lockType[s] EXCEPT ![r] = "own"]
      BY <2>1, <2>2, InsertSound, Zenon
    <2> QED BY <1>2, <2>3 DEF Judged
  <1>3. CASE v \in {1, 2}
    <2>1. UNCHANGED lockVars
      BY <1>3 DEF judgeAndAddLock
    <2>2. LocksSound'
      BY <2>1 DEF LocksSound, LocksTyped, WaitersListed, RowsHandedOver,
         Owners, Waiting, lockVars
    <2>3. v = 1 => lockType[s][r] = "own"
      BY <1>3 DEF judgeAndAddLock, Owners
    <2>4. v = 2 => lockType[s][r] = "wait"
      BY <1>3 DEF judgeAndAddLock, Waiting
    <2>5. v = 1 => lockType'[s] = [lockType[s] EXCEPT ![r] = "own"]
      BY <1>1, <2>1, <2>3 DEF lockVars
    <2> QED BY <1>3, <2>1, <2>2, <2>4, <2>5 DEF Judged, KeepsLocks, lockVars
  <1>4. CASE v = 3
    <2>1. /\ lockType[s][r] = "none" /\ Owners(r) \cup Waiting(r) # {}
          /\ insertLock(s, r, "wait")
      BY <1>4 DEF judgeAndAddLock
    <2>2. Owners(r) # {}
      BY <2>1 DEF LocksSound, RowsHandedOver
    <2>3. /\ LocksSound' /\ KeepsLocks(s)
          /\ lockType'[s] = [lockType[s] EXCEPT ![r] = "wait"]
      BY <2>1, <2>2, InsertSound, Zenon
    <2> QED BY <1>4, <2>1, <2>3 DEF Judged
  <1>5. CASE v = 4
    <2>1. lockType[s][r] = "none" /\ releaseLock(s)
      BY <1>5 DEF judgeAndAddLock
    <2> QED BY <1>5, <2>1, ReleaseSound DEF Judged
  <1> QED BY <1>2, <1>3, <1>4, <1>5

-----------------------------------------------------------------------------
(* The steps of a session                                                  *)

LEMMA LocksUnchanged ==
    ASSUME LocksSound, UNCHANGED lockVars
    PROVE  LocksSound' /\ \A s \in Sessions : KeepsLocks(s)
  BY DEF LocksSound, LocksTyped, WaitersListed, RowsHandedOver, Owners,
     Waiting, KeepsLocks, lockVars

\* A step of s changes nothing of another session but its locks.
Frame(s) ==
    \A x \in Sessions \ {s} :
        /\ pc'[x] = pc[x] /\ m_lockType'[x] = m_lockType[x]
        /\ found'[x] = found[x] /\ todo'[x] = todo[x] /\ cur'[x] = cur[x]
        /\ pool'[x] = pool[x]
        /\ writer' = x <=> writer = x

LEMMA OthersKept ==
    ASSUME IInv, NEW s \in Sessions, Frame(s), KeepsLocks(s),
           NEW x \in Sessions, x # s
    PROVE  ControlInv(x)' /\ CacheInv(x)'
  <1>1. /\ pc'[x] = pc[x] /\ m_lockType'[x] = m_lockType[x]
        /\ found'[x] = found[x] /\ todo'[x] = todo[x] /\ cur'[x] = cur[x]
        /\ pool'[x] = pool[x]
        /\ writer' = x <=> writer = x
    BY DEF Frame
  <1>2. \A r \in Rows :
            \/ lockType'[x][r] = lockType[x][r]
            \/ lockType[x][r] = "wait" /\ lockType'[x][r] = "own"
    BY DEF KeepsLocks
  <1>3. ControlInv(x) /\ CacheInv(x) /\ cur[x] \in Rows
    BY DEF IInv, TypeOK
  <1>4. ModeOfPC(x)' /\ WriterOfPC(x)' /\ PoolSound(x)'
    BY <1>1, <1>3 DEF ControlInv, CacheInv, ModeOfPC, WriterOfPC, PoolSound,
       Nothing
  <1>5. LocksOfPC(x)' /\ WaitsOnce(x)'
    BY <1>1, <1>2, <1>3 DEF ControlInv, LocksOfPC, WaitsOnce
  <1>6. SelectedOwned(x)' /\ CachedOwned(x)'
    BY <1>1, <1>2, <1>3 DEF CacheInv, SelectedOwned, CachedOwned
  <1> QED BY <1>4, <1>5, <1>6 DEF ControlInv, CacheInv

\* What is to be shown of a step of s.
Preserves(s) ==
    /\ TypeOK' /\ LocksSound'
    /\ Frame(s) /\ KeepsLocks(s)
    /\ ControlInv(s)' /\ CacheInv(s)'

LEMMA BeginSteps ==
    ASSUME IInv, NEW s \in Sessions,
           \/ \E type \in Modes : begin(s, type)
           \/ beginTrans_poll(s)
           \/ beginTrans_lock(s)
    PROVE  Preserves(s)
  <1>1. TypeOK /\ ControlInv(s) /\ CacheInv(s) /\ LocksSound
    BY DEF IInv, LocksSound, LocksTyped, TypeOK
  <1> USE SessionsAssumption, TableAssumption
  <1>2. UNCHANGED lockVars
    BY DEF begin, beginTrans_poll, beginTrans_lock
  <1>3. LocksSound' /\ KeepsLocks(s)
    BY <1>1, <1>2, LocksUnchanged
  <1>4. CASE \E type \in Modes : begin(s, type)
    <2>1. PICK type \in Modes : begin(s, type)
      BY <1>4
    <2>2. type \in {0, 1}
      OBVIOUS
    <2>3. TypeOK'
      BY <1>1, <1>2, <2>1, <2>2 DEF begin, TypeOK, recVars, ClearPool, Goto, PCs, NoRows, Nothing,
         lockVars, queryVars
    <2>4. Frame(s)
      BY <1>1, <2>1 DEF begin, TypeOK, ClearPool, Goto, Frame, queryVars
    <2>5. ControlInv(s)'
      BY <1>1, <1>2, <2>1, <2>2 DEF begin, TypeOK, ClearPool, Goto, lockVars,
         queryVars, ControlInv, ModeOfPC, WriterOfPC, LocksOfPC, WaitsOnce
    <2>6. CacheInv(s)'
      BY <1>1, <1>2, <2>1, <2>2 DEF begin, TypeOK, ClearPool, Goto, lockVars,
         queryVars, NoRows, Nothing, CacheInv, PoolSound, SelectedOwned,
         CachedOwned
    <2> QED BY <1>3, <2>3, <2>4, <2>5, <2>6 DEF Preserves
  <1>5. CASE beginTrans_poll(s)
    <2>3. TypeOK'
      BY <1>1, <1>2, <1>5 DEF beginTrans_poll, TypeOK, recVars, Goto, PCs, lockVars,
         queryVars, poolVars
    <2>4. Frame(s)
      BY <1>1, <1>5 DEF beginTrans_poll, TypeOK, Goto, Frame, queryVars,
         poolVars
    <2>5. ControlInv(s)'
      BY <1>1, <1>2, <1>5 DEF beginTrans_poll, TypeOK, Goto, lockVars,
         queryVars, ControlInv, ModeOfPC, WriterOfPC, LocksOfPC, WaitsOnce
    <2>6. CacheInv(s)'
      BY <1>1, <1>2, <1>5 DEF beginTrans_poll, TypeOK, Goto, lockVars,
         queryVars, poolVars, ControlInv, ModeOfPC, CacheInv, PoolSound, SelectedOwned,
         CachedOwned, Nothing
    <2> QED BY <1>3, <2>3, <2>4, <2>5, <2>6 DEF Preserves
  <1>6. CASE beginTrans_lock(s)
    <2>3. TypeOK'
      BY <1>1, <1>2, <1>6 DEF beginTrans_lock, getWriteLock, TypeOK, recVars, Goto, PCs,
         lockVars, queryVars, poolVars
    <2>4. Frame(s)
      BY <1>1, <1>6 DEF beginTrans_lock, getWriteLock, TypeOK, Goto, Frame,
         queryVars, poolVars
    <2>5. ControlInv(s)'
      BY <1>1, <1>2, <1>6 DEF beginTrans_lock, getWriteLock, TypeOK, Goto,
         lockVars, queryVars, ControlInv, ModeOfPC, WriterOfPC, LocksOfPC,
         WaitsOnce
    <2>6. CacheInv(s)'
      BY <1>1, <1>2, <1>6 DEF beginTrans_lock, TypeOK, Goto, lockVars,
         queryVars, poolVars, ControlInv, ModeOfPC, CacheInv, PoolSound, SelectedOwned,
         CachedOwned, Nothing
    <2> QED BY <1>3, <2>3, <2>4, <2>5, <2>6 DEF Preserves
  <1> QED BY <1>4, <1>5, <1>6

\* Caching copies of rows leaves the pool sound and the rows of the copies, and
\* only those, newly cached.
LEMMA CacheSound ==
    ASSUME IInv, NEW s \in Sessions, NEW copies \in [Rows -> Records \cup {Absent}],
           NEW oper \in {"select", "update", "delete"},
           Cache(s, copies, oper)
    PROVE  /\ pool' \in [Sessions -> [Rows -> [old : Records \cup {Absent},
                            oper : {"none", "select", "update", "delete"}]]]
           /\ \A x \in Sessions \ {s} : pool'[x] = pool[x]
           /\ PoolSound(s)'
           /\ \A r \in Rows : pool'[s][r].oper # "none" =>
                  pool[s][r].oper # "none" \/ copies[r] # Absent
  <1> DEFINE Entry == [old : Records \cup {Absent},
                       oper : {"none", "select", "update", "delete"}]
             new(r) == IF copies[r] = Absent \/ pool[s][r].oper = "delete"
                       THEN pool[s][r]
                       ELSE IF pool[s][r] = Nothing
                            THEN [old |-> copies[r], oper |-> oper]
                            ELSE [pool[s][r] EXCEPT !.oper =
                                     IF oper = "select" THEN @ ELSE oper]
  <1>1. pool \in [Sessions -> [Rows -> Entry]] /\ PoolSound(s)
    BY DEF IInv, TypeOK, CacheInv
  <1>2. pool' = [pool EXCEPT ![s] = [r \in Rows |-> new(r)]]
    BY DEF Cache
  <1>3. ASSUME NEW r \in Rows
        PROVE  /\ new(r) \in Entry
               /\ \/ new(r) = Nothing
                  \/ /\ new(r).old \in Records
                     /\ new(r).oper \in {"select", "update", "delete"}
               /\ new(r).oper # "none" =>
                      pool[s][r].oper # "none" \/ copies[r] # Absent
    <2>1. pool[s][r] \in Entry /\ copies[r] \in Records \cup {Absent}
      BY <1>1
    <2>2. \/ pool[s][r] = Nothing
          \/ /\ pool[s][r].old \in Records
             /\ pool[s][r].oper \in {"select", "update", "delete"}
      BY <1>1 DEF PoolSound
    <2> HIDE DEF new
    <2>3. CASE copies[r] = Absent \/ pool[s][r].oper = "delete"
      <3>1. new(r) = pool[s][r]
        BY <2>3 DEF new
      <3> QED BY <2>1, <2>2, <3>1
    <2>4. CASE ~(copies[r] = Absent \/ pool[s][r].oper = "delete")
               /\ pool[s][r] = Nothing
      <3>1. new(r) = [old |-> copies[r], oper |-> oper]
        BY <2>4 DEF new
      <3> QED BY <2>1, <2>4, <3>1
    <2>5. CASE ~(copies[r] = Absent \/ pool[s][r].oper = "delete")
               /\ pool[s][r] # Nothing
      <3>1. new(r) = [pool[s][r] EXCEPT !.oper =
                          IF oper = "select" THEN @ ELSE oper]
        BY <2>5 DEF new
      <3> QED BY <2>1, <2>2, <2>5, <3>1
    <2> QED BY <2>3, <2>4, <2>5
  <1> HIDE DEF new
  <1>4. \A r \in Rows : pool'[s][r] = new(r)
    BY <1>1, <1>2
  <1>5. pool' \in [Sessions -> [Rows -> Entry]]
    BY <1>1, <1>2, <1>3
  <1>6. PoolSound(s)'
    BY <1>3, <1>4 DEF PoolSound, Nothing
  <1> QED BY <1>1, <1>2, <1>3, <1>4, <1>5, <1>6

LEMMA ForgetTyped ==
    ASSUME TypeOK, NEW s \in Sessions, Forget(s)
    PROVE  /\ query' \in [Sessions ->
                          [rows : SUBSET Rows, oper : Opers \cup {"select"}]]
           /\ found' \in [Sessions -> [Rows -> Records \cup {Absent}]]
           /\ todo' \in [Sessions -> SUBSET Rows]
           /\ cur' \in [Sessions -> Rows]
           /\ ii' \in [Sessions -> 0..MaxTries]
  BY TableAssumption DEF TypeOK, Forget, NoQuery

LEMMA SelectSteps ==
    ASSUME IInv, NEW s \in Sessions, NEW rows \in SUBSET Rows, NEW oper \in Opers,
           \/ selectWithTrans_table(s, rows, oper)
           \/ selectWithTrans_call(s, rows, oper)
    PROVE  Preserves(s)
  <1>1. TypeOK /\ ControlInv(s) /\ CacheInv(s) /\ LocksSound
    BY DEF IInv, LocksSound, LocksTyped, TypeOK
  <1> USE SessionsAssumption, TableAssumption
  <1>2. UNCHANGED lockVars
    BY DEF selectWithTrans_table, selectWithTrans_call
  <1>3. LocksSound' /\ KeepsLocks(s)
    BY <1>1, <1>2, LocksUnchanged
  <1>5. CASE selectWithTrans_table(s, rows, oper)
    <2> DEFINE copies == Copies(rows)
    <2>1. Cache(s, copies, oper) /\ oper \in {"select", "update", "delete"}
      BY <1>5 DEF selectWithTrans_table
    <2>2. copies \in [Rows -> Records \cup {Absent}]
      BY <1>1 DEF Copies, TypeOK
    <2> HIDE DEF copies
    <2>3. /\ pool' \in [Sessions -> [Rows -> [old : Records \cup {Absent},
                            oper : {"none", "select", "update", "delete"}]]]
          /\ \A x \in Sessions \ {s} : pool'[x] = pool[x]
          /\ PoolSound(s)'
      BY <2>1, <2>2, CacheSound
    <2>4. TypeOK'
      BY <1>1, <1>2, <1>5, <2>3 DEF selectWithTrans_table, Cache, TypeOK, recVars,
         lockVars, queryVars
    <2>5. Frame(s)
      BY <1>5, <2>3 DEF selectWithTrans_table, Frame, queryVars
    <2>6. ControlInv(s)'
      BY <1>1, <1>2, <1>5 DEF selectWithTrans_table, lockVars, queryVars,
         ControlInv, ModeOfPC, WriterOfPC, LocksOfPC, WaitsOnce
    <2>7. CacheInv(s)'
      BY <1>1, <1>5, <2>3 DEF selectWithTrans_table, CacheInv, SelectedOwned,
         CachedOwned
    <2> QED BY <1>3, <2>4, <2>5, <2>6, <2>7 DEF Preserves
  <1>6. CASE selectWithTrans_call(s, rows, oper)
    <2>4. TypeOK'
      BY <1>1, <1>2, <1>6 DEF selectWithTrans_call, TypeOK, recVars, Goto, PCs, lockVars, poolVars
    <2>5. Frame(s)
      BY <1>1, <1>6 DEF selectWithTrans_call, TypeOK, Goto, Frame, poolVars
    <2>6. ControlInv(s)'
      BY <1>1, <1>2, <1>6 DEF selectWithTrans_call, TypeOK, Goto, lockVars,
         ControlInv, ModeOfPC, WriterOfPC, LocksOfPC, WaitsOnce
    <2>7. CacheInv(s)'
      BY <1>1, <1>2, <1>6 DEF selectWithTrans_call, TypeOK, Goto, lockVars,
         poolVars, CacheInv, PoolSound, Nothing, SelectedOwned, CachedOwned
    <2> QED BY <1>3, <2>4, <2>5, <2>6, <2>7 DEF Preserves
  <1> QED BY <1>5, <1>6

LEMMA SelectStep ==
    ASSUME IInv, NEW s \in Sessions, selectWithTrans_select(s)
    PROVE  Preserves(s)
  <1>1. TypeOK /\ ControlInv(s) /\ CacheInv(s) /\ LocksSound
    BY DEF IInv, LocksSound, LocksTyped, TypeOK
  <1> USE SessionsAssumption, TableAssumption
  <1>2. UNCHANGED lockVars
    BY DEF selectWithTrans_select
  <1>3. LocksSound' /\ KeepsLocks(s)
    BY <1>1, <1>2, LocksUnchanged
  <1>4. query[s].rows \in SUBSET Rows
    BY <1>1 DEF TypeOK
  <1>5. Copies(query[s].rows) \in [Rows -> Records \cup {Absent}]
    BY <1>1 DEF Copies, TypeOK
  <1>6. {r \in query[s].rows : rec[r] # Absent} \in SUBSET Rows
    BY <1>4
  <1>7. TypeOK'
    BY <1>1, <1>2, <1>5, <1>6 DEF selectWithTrans_select, getWriteLock, TypeOK, recVars,
       Goto, PCs, lockVars, poolVars
  <1>8. Frame(s)
    BY <1>1 DEF selectWithTrans_select, getWriteLock, TypeOK, Goto,
       Frame, poolVars
  <1>9. ControlInv(s)'
    BY <1>1, <1>2 DEF selectWithTrans_select, getWriteLock, TypeOK,
       Goto, lockVars, ControlInv, ModeOfPC, WriterOfPC, LocksOfPC, WaitsOnce
  <1>10. PoolSound(s)' /\ CachedOwned(s)'
    BY <1>1, <1>2 DEF selectWithTrans_select, TypeOK, Goto, lockVars,
       poolVars, CacheInv, PoolSound, Nothing, CachedOwned
  <1>11. SelectedOwned(s)'
    <2>1. /\ found'[s] = Copies(query[s].rows)
          /\ todo'[s] = {r \in query[s].rows : rec[r] # Absent}
      BY <1>1 DEF selectWithTrans_select, TypeOK
    <2> QED BY <2>1 DEF SelectedOwned, Copies
  <1> QED BY <1>3, <1>7, <1>8, <1>9, <1>10, <1>11 DEF Preserves, CacheInv

LEMMA InsertStep ==
    ASSUME IInv, NEW s \in Sessions, \E r \in Inserted : insert(s, r)
    PROVE  Preserves(s)
  <1>1. TypeOK /\ ControlInv(s) /\ CacheInv(s) /\ LocksSound
    BY DEF IInv, LocksSound, LocksTyped, TypeOK
  <1> USE SessionsAssumption, TableAssumption
  <1>2. UNCHANGED lockVars
    BY DEF insert
  <1>3. LocksSound' /\ KeepsLocks(s)
    BY <1>1, <1>2, LocksUnchanged
  <1>4. PICK r \in Inserted : insert(s, r)
    OBVIOUS
  <1>5. r \in Rows
    OBVIOUS
  <1>7. TypeOK'
    BY <1>1, <1>2, <1>4, <1>5 DEF insert, TypeOK, recVars, lockVars, queryVars
  <1>8. Frame(s)
    BY <1>4 DEF insert, Frame, queryVars
  <1>9. ControlInv(s)' /\ CacheInv(s)'
    BY <1>1, <1>2, <1>4 DEF insert, lockVars, queryVars, ControlInv,
       ModeOfPC, WriterOfPC, LocksOfPC, WaitsOnce, CacheInv, PoolSound,
       Nothing, SelectedOwned, CachedOwned
  <1> QED BY <1>3, <1>7, <1>8, <1>9 DEF Preserves

LEMMA JudgeStep ==
    ASSUME IInv, NEW s \in Sessions, NEW r \in Rows, selectWithTrans_judge(s, r)
    PROVE  Preserves(s)
  <1>1. TypeOK /\ ControlInv(s) /\ CacheInv(s) /\ LocksSound
    BY DEF IInv, LocksSound, LocksTyped, TypeOK
  <1> USE SessionsAssumption, TableAssumption
  <1>2. PICK v \in 0..4 :
            /\ judgeAndAddLock(s, r, v)
            /\ \/ /\ v \in {0, 1}
                  /\ todo' = [todo EXCEPT ![s] = @ \ {r}]
                  /\ UNCHANGED <<writer, pc, query, found, cur, ii>>
               \/ /\ v \in {2, 3}
                  /\ releaseWriteLock /\ Goto(s, "again")
                  /\ cur' = [cur EXCEPT ![s] = r] /\ ii' = [ii EXCEPT ![s] = 0]
                  /\ UNCHANGED <<query, found, todo>>
               \/ /\ v = 4
                  /\ releaseWriteLock /\ Goto(s, "failed") /\ Forget(s)
    BY DEF selectWithTrans_judge
  <1>3. /\ pc[s] = "sel" /\ r \in todo[s]
        /\ UNCHANGED <<rec, damaged, m_lockType, pool, added>>
    BY DEF selectWithTrans_judge, poolVars, recVars
  <1>4. LocksSound' /\ KeepsLocks(s) /\ Judged(s, r, v)
    BY <1>1, <1>2, JudgeSound
  <1>5. /\ lockType' \in [Sessions -> [Rows -> LockTypes]]
        /\ chain' \in [Rows -> Seq(Sessions)]
    BY <1>4 DEF LocksSound, LocksTyped
  <1>6. lockType[s] \in [Rows -> LockTypes]
    BY <1>1 DEF TypeOK
  <1>7. writer = s /\ m_lockType[s] = 1 /\ m_lockType[s] \in Modes
    BY <1>1, <1>3 DEF ControlInv, WriterOfPC, ModeOfPC
  <1>8. \A q \in Rows : lockType[s][q] # "wait"
    BY <1>1, <1>3 DEF ControlInv, WaitsOnce
  <1>9. PoolSound(s)'
    BY <1>1, <1>3 DEF CacheInv, PoolSound, Nothing
  <1>10. CASE v \in {0, 1}
    <2>1. /\ todo' = [todo EXCEPT ![s] = @ \ {r}]
          /\ UNCHANGED <<writer, pc, query, found, cur, ii>>
          /\ lockType'[s] = [lockType[s] EXCEPT ![r] = "own"]
      BY <1>2, <1>4, <1>10 DEF Judged
    <2>2. TypeOK'
      BY <1>1, <1>3, <1>5, <2>1 DEF TypeOK
    <2>3. Frame(s)
      BY <1>1, <1>3, <2>1 DEF Frame, TypeOK
    <2>4. ControlInv(s)'
      BY <1>1, <1>3, <1>6, <1>7, <1>8, <2>1 DEF TypeOK, ControlInv, ModeOfPC,
         WriterOfPC, LocksOfPC, WaitsOnce
    <2>5. CacheInv(s)'
      BY <1>1, <1>3, <1>6, <1>9, <2>1 DEF TypeOK, CacheInv, SelectedOwned,
         CachedOwned
    <2> QED BY <1>4, <2>2, <2>3, <2>4, <2>5 DEF Preserves
  <1>11. CASE v \in {2, 3}
    <2>1. /\ releaseWriteLock /\ Goto(s, "again")
          /\ cur' = [cur EXCEPT ![s] = r] /\ ii' = [ii EXCEPT ![s] = 0]
          /\ UNCHANGED <<query, found, todo>>
          /\ lockType'[s] = [lockType[s] EXCEPT ![r] = "wait"]
          /\ lockType[s][r] = "none"
      BY <1>2, <1>4, <1>8, <1>11 DEF Judged
    <2>2. TypeOK'
      BY <1>1, <1>3, <1>5, <2>1 DEF TypeOK, releaseWriteLock, Goto, PCs
    <2>3. Frame(s)
      BY <1>1, <1>3, <1>7, <2>1 DEF Frame, TypeOK, releaseWriteLock, Goto
    <2>4. ControlInv(s)'
      BY <1>1, <1>3, <1>6, <1>7, <1>8, <2>1 DEF TypeOK, releaseWriteLock, Goto,
         ControlInv, ModeOfPC, WriterOfPC, LocksOfPC, WaitsOnce
    <2>5. CacheInv(s)'
      BY <1>1, <1>3, <1>6, <1>9, <2>1 DEF TypeOK, Goto, CacheInv,
         SelectedOwned, CachedOwned
    <2> QED BY <1>4, <2>2, <2>3, <2>4, <2>5 DEF Preserves
  <1>12. CASE v = 4
    <2>1. /\ releaseWriteLock /\ Goto(s, "failed") /\ Forget(s)
          /\ lockType'[s] = [q \in Rows |-> "none"]
      BY <1>2, <1>4, <1>12 DEF Judged
    <2>2. TypeOK'
      BY <1>1, <1>3, <1>5, <2>1 DEF TypeOK, releaseWriteLock, Goto, PCs,
         Forget, NoQuery
    <2>3. Frame(s)
      BY <1>1, <1>3, <1>7, <2>1 DEF Frame, TypeOK, releaseWriteLock, Goto,
         Forget
    <2>4. ControlInv(s)'
      BY <1>1, <1>3, <1>7, <2>1 DEF TypeOK, releaseWriteLock, Goto, Forget,
         ControlInv, ModeOfPC, WriterOfPC, LocksOfPC, WaitsOnce
    <2>5. CacheInv(s)'
      BY <1>1, <1>3, <1>9, <2>1 DEF TypeOK, Goto, CacheInv, SelectedOwned,
         CachedOwned
    <2> QED BY <1>4, <2>2, <2>3, <2>4, <2>5 DEF Preserves
  <1> QED BY <1>10, <1>11, <1>12

LEMMA AgainStep ==
    ASSUME IInv, NEW s \in Sessions, selectWithTrans_again(s)
    PROVE  Preserves(s)
  <1>1. TypeOK /\ ControlInv(s) /\ CacheInv(s) /\ LocksSound
    BY DEF IInv, LocksSound, LocksTyped, TypeOK
  <1> USE SessionsAssumption, TableAssumption
  <1>2. /\ pc[s] = "again" /\ cur[s] \in Rows
        /\ UNCHANGED <<rec, damaged, m_lockType, pool, added>>
    BY <1>1 DEF selectWithTrans_again, poolVars, recVars, TypeOK
  <1>3. lockType[s] \in [Rows -> LockTypes]
    BY <1>1 DEF TypeOK
  <1>4. /\ writer # s /\ m_lockType[s] = 1 /\ m_lockType[s] \in Modes
        /\ lockType[s][cur[s]] # "none"
    BY <1>1, <1>2 DEF ControlInv, WriterOfPC, ModeOfPC, WaitsOnce
  <1>5. PoolSound(s)'
    BY <1>1, <1>2 DEF CacheInv, PoolSound, Nothing
  <1>6. CASE /\ \E v \in {0, 1} : judgeAndAddLock(s, cur[s], v)
             /\ getWriteLock(s) /\ Goto(s, "sel")
             /\ todo' = [todo EXCEPT ![s] = @ \ {cur[s]}]
             /\ UNCHANGED <<query, found, cur, ii>>
    <2>1. PICK v \in {0, 1} : judgeAndAddLock(s, cur[s], v)
      BY <1>6
    <2>2. LocksSound' /\ KeepsLocks(s) /\ Judged(s, cur[s], v)
      BY <1>1, <1>2, <2>1, JudgeSound
    <2>3. /\ lockType' \in [Sessions -> [Rows -> LockTypes]]
          /\ chain' \in [Rows -> Seq(Sessions)]
          /\ lockType'[s] = [lockType[s] EXCEPT ![cur[s]] = "own"]
      BY <2>2 DEF LocksSound, LocksTyped, Judged
    <2>4. TypeOK'
      BY <1>1, <1>2, <1>6, <2>3 DEF TypeOK, getWriteLock, Goto, PCs
    <2>5. Frame(s)
      BY <1>1, <1>2, <1>6 DEF Frame, TypeOK, getWriteLock, Goto
    <2>6. ControlInv(s)'
      BY <1>1, <1>2, <1>3, <1>4, <1>6, <2>3 DEF TypeOK, getWriteLock, Goto,
         ControlInv, ModeOfPC, WriterOfPC, LocksOfPC, WaitsOnce
    <2>7. CacheInv(s)'
      BY <1>1, <1>2, <1>3, <1>4, <1>5, <1>6, <2>3 DEF TypeOK, Goto, CacheInv,
         SelectedOwned, CachedOwned
    <2> QED BY <2>2, <2>4, <2>5, <2>6, <2>7 DEF Preserves
  <1>7. CASE /\ \E v \in {2, 3, 4} : judgeAndAddLock(s, cur[s], v)
             /\ ~GivesUp(s) /\ WithWriteLock
             /\ ii' = [ii EXCEPT ![s] = @ + 1]
             /\ UNCHANGED <<pc, query, found, todo, cur>>
    <2>1. UNCHANGED lockVars
      BY <1>4, <1>7 DEF judgeAndAddLock
    <2>2. LocksSound' /\ KeepsLocks(s)
      BY <1>1, <2>1, LocksUnchanged
    <2>3. ii[s] + 1 \in 0..MaxTries
      BY <1>1, <1>7 DEF TypeOK, GivesUp
    <2>4. TypeOK'
      BY <1>1, <1>2, <1>7, <2>1, <2>3 DEF TypeOK, WithWriteLock, lockVars
    <2>5. Frame(s)
      BY <1>2, <1>7 DEF Frame, WithWriteLock
    <2>6. ControlInv(s)' /\ CacheInv(s)'
      BY <1>1, <1>2, <1>5, <1>7, <2>1 DEF WithWriteLock, lockVars, ControlInv,
         ModeOfPC, WriterOfPC, LocksOfPC, WaitsOnce, CacheInv, SelectedOwned,
         CachedOwned
    <2> QED BY <2>2, <2>4, <2>5, <2>6 DEF Preserves
  <1>8. CASE /\ lockType[s][cur[s]] = "wait"
             /\ GivesUp(s) /\ WithWriteLock
             /\ releaseLock(s) /\ Goto(s, "failed") /\ Forget(s)
    <2>2. /\ LocksSound' /\ KeepsLocks(s)
          /\ lockType'[s] = [r \in Rows |-> "none"]
      BY <1>1, <1>8, ReleaseSound
    <2>3. /\ lockType' \in [Sessions -> [Rows -> LockTypes]]
          /\ chain' \in [Rows -> Seq(Sessions)]
      BY <2>2 DEF LocksSound, LocksTyped
    <2>4. TypeOK'
      BY <1>1, <1>2, <1>8, <2>3, ForgetTyped DEF TypeOK, WithWriteLock, Goto,
         PCs
    <2>5. Frame(s)
      BY <1>1, <1>2, <1>8 DEF Frame, TypeOK, WithWriteLock, Goto, Forget
    <2>6. ControlInv(s)'
      BY <1>1, <1>2, <1>4, <1>8, <2>2 DEF TypeOK, WithWriteLock, Goto, Forget,
         ControlInv, ModeOfPC, WriterOfPC, LocksOfPC, WaitsOnce
    <2>7. CacheInv(s)'
      BY <1>1, <1>2, <1>5, <1>8 DEF TypeOK, Goto, CacheInv, SelectedOwned,
         CachedOwned
    <2> QED BY <2>2, <2>4, <2>5, <2>6, <2>7 DEF Preserves
  <1> QED BY <1>6, <1>7, <1>8 DEF selectWithTrans_again

LEMMA EndStep ==
    ASSUME IInv, NEW s \in Sessions, selectWithTrans_end(s)
    PROVE  Preserves(s)
  <1>1. TypeOK /\ ControlInv(s) /\ CacheInv(s) /\ LocksSound
    BY DEF IInv, LocksSound, LocksTyped, TypeOK
  <1> USE SessionsAssumption, TableAssumption
  <1>2. /\ pc[s] = "sel" /\ todo[s] = {}
        /\ Cache(s, found[s], query[s].oper)
        /\ releaseWriteLock /\ Goto(s, "trans") /\ Forget(s)
        /\ UNCHANGED <<lockVars, recVars, m_lockType>>
    BY DEF selectWithTrans_end
  <1>3. LocksSound' /\ KeepsLocks(s)
    BY <1>1, <1>2, LocksUnchanged
  <1>4. /\ found[s] \in [Rows -> Records \cup {Absent}]
        /\ query[s].oper \in {"select", "update", "delete"}
    BY <1>1 DEF TypeOK
  <1>5. /\ pool' \in [Sessions -> [Rows -> [old : Records \cup {Absent},
                          oper : {"none", "select", "update", "delete"}]]]
        /\ \A x \in Sessions \ {s} : pool'[x] = pool[x]
        /\ PoolSound(s)'
        /\ \A r \in Rows : pool'[s][r].oper # "none" =>
               pool[s][r].oper # "none" \/ found[s][r] # Absent
    BY <1>2, <1>4, CacheSound
  <1>6. writer = s /\ m_lockType[s] = 1 /\ m_lockType[s] \in Modes
    BY <1>1, <1>2 DEF ControlInv, WriterOfPC, ModeOfPC
  <1>7. \A r \in Rows : lockType[s][r] # "wait"
    BY <1>1, <1>2 DEF ControlInv, WaitsOnce
  <1>8. TypeOK'
    <2>1. added' = added
      BY <1>2 DEF Cache
    <2> QED BY <1>1, <1>2, <1>5, <2>1, ForgetTyped DEF TypeOK, lockVars, recVars,
            releaseWriteLock, Goto, PCs
  <1>9. Frame(s)
    BY <1>1, <1>2, <1>5, <1>6 DEF Frame, TypeOK, releaseWriteLock, Goto,
       Forget
  <1>10. ControlInv(s)'
    BY <1>1, <1>2, <1>6, <1>7 DEF TypeOK, lockVars, releaseWriteLock, Goto,
       Forget, ControlInv, ModeOfPC, WriterOfPC, LocksOfPC, WaitsOnce
  <1>11. SelectedOwned(s)'
    BY <1>1, <1>2 DEF TypeOK, Goto, SelectedOwned
  <1>12. CachedOwned(s)'
    <2> SUFFICES ASSUME NEW r \in Rows, pool'[s][r].oper # "none"
                 PROVE  lockType'[s][r] = "own"
      BY DEF CachedOwned
    <2>1. pool[s][r].oper # "none" => lockType[s][r] = "own"
      BY <1>1, <1>2, <1>6 DEF CacheInv, CachedOwned
    <2>2. found[s][r] # Absent => lockType[s][r] = "own"
      BY <1>1, <1>2 DEF CacheInv, SelectedOwned
    <2> QED BY <1>2, <1>5, <2>1, <2>2 DEF lockVars
  <1> QED BY <1>3, <1>5, <1>8, <1>9, <1>10, <1>11, <1>12 DEF Preserves,
          CacheInv

LEMMA EndsLockedSound ==
    ASSUME IInv, NEW s \in Sessions, pc[s] \in {"trans", "failed"},
           EndsLocked(s)
    PROVE  /\ LocksSound' /\ KeepsLocks(s)
           /\ lockType'[s] = [r \in Rows |-> "none"]
           /\ writer' = NoSession /\ writer \in {NoSession, s}
  <1>1. TypeOK /\ ControlInv(s) /\ CacheInv(s) /\ LocksSound
    BY DEF IInv, LocksSound, LocksTyped, TypeOK
  <1> USE SessionsAssumption, TableAssumption
  <1>2. CASE m_lockType[s] = 1
    <2>1. releaseLock(s) /\ WithWriteLock
      BY <1>2 DEF EndsLocked
    <2> QED BY <1>1, <2>1, ReleaseSound DEF WithWriteLock
  <1>3. CASE m_lockType[s] = 0
    <2>1. UNCHANGED lockVars /\ writer' = NoSession
      BY <1>3 DEF EndsLocked, releaseWriteLock
    <2>2. writer = s
      BY <1>1, <1>3 DEF ControlInv, ModeOfPC, WriterOfPC
    <2>3. lockType[s] \in [Rows -> LockTypes]
      BY <1>1 DEF TypeOK
    <2>4. lockType'[s] = [r \in Rows |-> "none"]
      BY <1>1, <1>3, <2>1, <2>3 DEF ControlInv, LocksOfPC, lockVars
    <2> QED BY <1>1, <2>1, <2>2, <2>4, LocksUnchanged
  <1> QED BY <1>1, <1>2, <1>3 DEF TypeOK

LEMMA RecordsTyped ==
    ASSUME IInv, NEW s \in Sessions, NEW r \in Rows,
           NEW place \in [Rows -> Places]
    PROVE  /\ \A last \in Orders(s) :
                  Bounded(s) => Applied(s, r, place, last) \in Records \cup {Absent}
           /\ Undone(s, r, place) \in Records \cup {Absent}
  <1>1. TypeOK /\ ControlInv(s) /\ CacheInv(s) /\ LocksSound
    BY DEF IInv, LocksSound, LocksTyped, TypeOK
  <1> USE SessionsAssumption, TableAssumption
  <1>2. /\ rec[r] \in Records \cup {Absent} /\ place[r] \in Places
        /\ \/ pool[s][r] = Nothing
           \/ /\ pool[s][r].old \in Records
              /\ pool[s][r].oper \in {"select", "update", "delete"}
    BY <1>1 DEF TypeOK, CacheInv, PoolSound
  <1>3. pool[s][r].oper \in {"update", "delete"} => pool[s][r].old \in Records
    BY <1>2 DEF Nothing
  <1>4. AfterDelete(s, r) \in Records \cup {Absent}
    BY <1>2 DEF AfterDelete
  <1>5. ASSUME NEW last \in Orders(s), Bounded(s)
        PROVE  Applied(s, r, place, last) \in Records \cup {Absent}
    <2> DEFINE was == AfterInsert(s, r, place)
    <2>1. was \in Records \cup {Absent}
      <3>1. CASE r \in added[s]
        <4>1. was = [addr |-> place[r], ver |-> 0] /\ 0 \in 0..MaxVersion
          BY <3>1 DEF AfterInsert
        <4> QED BY <1>2, <4>1 DEF Records
      <3>2. CASE r \notin added[s]
        BY <1>4, <3>2 DEF AfterInsert
      <3> QED BY <3>1, <3>2
    <2>2. Applied(s, r, place, last) =
              IF was = Absent \/ Writers(s, was.addr) = {} THEN was
              ELSE IF last[was.addr] # r THEN Absent
              ELSE [was EXCEPT !.ver = pool[s][r].old.ver + 1]
      BY DEF Applied
    <2> HIDE DEF was
    <2>3. CASE /\ was # Absent /\ Writers(s, was.addr) # {}
               /\ last[was.addr] = r
      <3>1. was \in Records /\ was.addr \in Places
        BY <2>1, <2>3 DEF Records
      <3>2. r \in Writers(s, was.addr)
        BY <2>3, <3>1 DEF Orders
      <3>3. pool[s][r].oper = "update"
        BY <3>2 DEF Writers
      <3>4. pool[s][r].old.ver + 1 \in 0..MaxVersion
        BY <1>3, <1>5, <3>3 DEF Bounded, Records
      <3> QED BY <2>2, <2>3, <3>1, <3>4 DEF Records
    <2> QED BY <2>1, <2>2, <2>3
  <1>6. Undone(s, r, place) \in Records \cup {Absent}
    <2>1. r \in Deleted(s) => pool[s][r].old.ver \in 0..MaxVersion
      BY <1>3 DEF Deleted, Records
    <2> QED BY <1>2, <1>4, <2>1 DEF Undone, Records
  <1> QED BY <1>5, <1>6

LEMMA RowsTyped ==
    ASSUME IInv, NEW s \in Sessions, commit(s) \/ commit_throw(s)
    PROVE  /\ rec' \in [Rows -> Records \cup {Absent}]
           /\ damaged' \in BOOLEAN
  <1>1. damaged' \in BOOLEAN
    BY DEF commit, commit_throw
  <1>2. CASE rec' \in Anything
    BY <1>1, <1>2 DEF Anything
  <1>3. CASE commit(s) /\ rec' \notin Anything
    <2>1. PICK place \in Placements(s, added[s]), last \in Orders(s) :
              rec' = [r \in Rows |-> Applied(s, r, place, last)]
      BY <1>3 DEF commit
    <2>2. place \in [Rows -> Places] /\ Bounded(s)
      BY <1>3 DEF commit, Placements
    <2>3. \A r \in Rows : Applied(s, r, place, last) \in Records \cup {Absent}
      BY <2>2, RecordsTyped
    <2> QED BY <1>1, <2>1, <2>3
  <1>4. CASE commit_throw(s) /\ rec' \notin Anything
    <2>1. PICK place \in Placements(s, Deleted(s)) :
              rec' = [r \in Rows |-> Undone(s, r, place)]
      BY <1>4 DEF commit_throw
    <2>2. place \in [Rows -> Places]
      BY DEF Placements
    <2>3. \A r \in Rows : Undone(s, r, place) \in Records \cup {Absent}
      BY <2>2, RecordsTyped
    <2> QED BY <1>1, <2>1, <2>3
  <1> QED BY <1>2, <1>3, <1>4

LEMMA EndingSteps ==
    ASSUME IInv, NEW s \in Sessions,
           commit(s) \/ commit_throw(s) \/ rollBack(s) \/ truncate(s)
    PROVE  Preserves(s)
  <1>1. TypeOK /\ ControlInv(s) /\ CacheInv(s) /\ LocksSound
    BY DEF IInv, LocksSound, LocksTyped, TypeOK
  <1> USE SessionsAssumption, TableAssumption
  <1>2. CASE commit(s)
    <2>1. /\ LocksSound' /\ KeepsLocks(s)
          /\ lockType'[s] = [r \in Rows |-> "none"]
          /\ writer' = NoSession /\ writer \in {NoSession, s}
      BY <1>2, EndsLockedSound DEF commit
    <2>2. rec' \in [Rows -> Records \cup {Absent}] /\ damaged' \in BOOLEAN
      BY <1>2, RowsTyped
    <2>3. TypeOK'
      BY <1>1, <1>2, <2>1, <2>2 DEF commit, TypeOK, LocksSound, LocksTyped,
         ClearPool, Goto, PCs, NoRows, Nothing, queryVars
    <2>4. Frame(s)
      BY <1>1, <1>2, <2>1 DEF commit, TypeOK, ClearPool, Goto, Frame, queryVars
    <2>5. ControlInv(s)'
      BY <1>1, <1>2, <2>1 DEF commit, TypeOK, Goto, queryVars, ControlInv,
         ModeOfPC, WriterOfPC, LocksOfPC, WaitsOnce
    <2>6. CacheInv(s)'
      BY <1>1, <1>2 DEF commit, TypeOK, ClearPool, Goto, NoRows, Nothing,
         CacheInv, PoolSound, SelectedOwned, CachedOwned
    <2> QED BY <2>1, <2>3, <2>4, <2>5, <2>6 DEF Preserves
  <1>3. CASE commit_throw(s)
    <2>1. /\ LocksSound' /\ KeepsLocks(s)
          /\ lockType'[s] = [r \in Rows |-> "none"]
          /\ writer' = NoSession /\ writer \in {NoSession, s}
      BY <1>3, EndsLockedSound DEF commit_throw
    <2>2. rec' \in [Rows -> Records \cup {Absent}] /\ damaged' \in BOOLEAN
      BY <1>3, RowsTyped
    <2>3. TypeOK'
      BY <1>1, <1>3, <2>1, <2>2 DEF commit_throw, TypeOK, LocksSound,
         LocksTyped, Goto, PCs, queryVars, poolVars
    <2>4. Frame(s)
      BY <1>1, <1>3, <2>1 DEF commit_throw, TypeOK, Goto, Frame, queryVars,
         poolVars
    <2>5. ControlInv(s)'
      BY <1>1, <1>3, <2>1 DEF commit_throw, TypeOK, Goto, queryVars, ControlInv,
         ModeOfPC, WriterOfPC, LocksOfPC, WaitsOnce
    <2>6. CacheInv(s)'
      BY <1>1, <1>3 DEF commit_throw, TypeOK, Goto, poolVars, Nothing,
         CacheInv, PoolSound, SelectedOwned, CachedOwned
    <2> QED BY <2>1, <2>3, <2>4, <2>5, <2>6 DEF Preserves
  <1>4. CASE rollBack(s)
    <2>1. /\ LocksSound' /\ KeepsLocks(s)
          /\ lockType'[s] = [r \in Rows |-> "none"]
          /\ writer' # s /\ writer' \in Sessions \cup {NoSession}
          /\ \A x \in Sessions \ {s} : writer' = x <=> writer = x
      <3>1. CASE pc[s] = "unlocked"
        <4>1. UNCHANGED lockVars /\ writer' = writer
          BY <1>4, <3>1 DEF rollBack
        <4>2. writer # s /\ m_lockType[s] = 0
          BY <1>1, <3>1 DEF ControlInv, ModeOfPC, WriterOfPC
        <4>3. lockType[s] \in [Rows -> LockTypes]
          BY <1>1 DEF TypeOK
        <4>4. lockType'[s] = [r \in Rows |-> "none"]
          BY <1>1, <4>1, <4>2, <4>3 DEF ControlInv, LocksOfPC, lockVars
        <4> QED BY <1>1, <4>1, <4>2, <4>4, LocksUnchanged DEF TypeOK
      <3>2. CASE pc[s] # "unlocked"
        <4>1. pc[s] \in {"trans", "failed"} /\ EndsLocked(s)
          BY <1>4, <3>2 DEF rollBack
        <4>2. /\ LocksSound' /\ KeepsLocks(s)
              /\ lockType'[s] = [r \in Rows |-> "none"]
              /\ writer' = NoSession /\ writer \in {NoSession, s}
          BY <4>1, EndsLockedSound
        <4> QED BY <4>2
      <3> QED BY <3>1, <3>2
    <2>3. TypeOK'
      BY <1>1, <1>4, <2>1 DEF rollBack, TypeOK, recVars, LocksSound, LocksTyped,
         ClearPool, Goto, PCs, NoRows, Nothing, queryVars
    <2>4. Frame(s)
      BY <1>1, <1>4, <2>1 DEF rollBack, TypeOK, ClearPool, Goto, Frame,
         queryVars
    <2>5. ControlInv(s)'
      BY <1>1, <1>4, <2>1 DEF rollBack, TypeOK, Goto, queryVars, ControlInv,
         ModeOfPC, WriterOfPC, LocksOfPC, WaitsOnce
    <2>6. CacheInv(s)'
      BY <1>1, <1>4 DEF rollBack, TypeOK, ClearPool, Goto, NoRows, Nothing,
         CacheInv, PoolSound, SelectedOwned, CachedOwned
    <2> QED BY <2>1, <2>3, <2>4, <2>5, <2>6 DEF Preserves
  <1>5. CASE truncate(s)
    <2>1. UNCHANGED lockVars
      BY <1>5 DEF truncate
    <2>2. LocksSound' /\ KeepsLocks(s)
      BY <1>1, <2>1, LocksUnchanged
    <2>3. TypeOK'
      BY <1>1, <1>5, <2>1 DEF truncate, TypeOK, WithWriteLock, lockVars,
         queryVars, poolVars
    <2>4. Frame(s)
      BY <1>5 DEF truncate, WithWriteLock, Frame, queryVars, poolVars
    <2>5. ControlInv(s)' /\ CacheInv(s)'
      BY <1>1, <1>5, <2>1 DEF truncate, WithWriteLock, lockVars, queryVars,
         poolVars, ControlInv, ModeOfPC, WriterOfPC, LocksOfPC, WaitsOnce,
         CacheInv, PoolSound, Nothing, SelectedOwned, CachedOwned
    <2> QED BY <2>2, <2>3, <2>4, <2>5 DEF Preserves
  <1> QED BY <1>2, <1>3, <1>4, <1>5

-----------------------------------------------------------------------------
(* The inductive invariant                                                 *)

LEMMA IInvInit == Init => IInv
  <1> SUFFICES ASSUME Init PROVE IInv
    OBVIOUS
  <1> USE SessionsAssumption, TableAssumption
  <1>1. TypeOK
    <2>1. rec \in [Rows -> Records \cup {Absent}]
      BY DEF Init, Records
    <2>2. damaged \in BOOLEAN
      BY DEF Init
    <2> QED BY <2>1, <2>2 DEF Init, TypeOK, LockTypes, PCs, NoQuery, NoRows,
            Nothing
  <1>2. \A s \in Sessions : ControlInv(s) /\ CacheInv(s)
    BY DEF Init, ControlInv, ModeOfPC, WriterOfPC, LocksOfPC, WaitsOnce,
       CacheInv, PoolSound, NoRows, Nothing, SelectedOwned, CachedOwned
  <1>3. WaitersListed /\ RowsHandedOver
    BY DEF Init, WaitersListed, RowsHandedOver, Owners, Waiting
  <1> QED BY <1>1, <1>2, <1>3 DEF IInv

\* Every step is one of these.
LEMMA NextCases ==
    ASSUME IInv, NEW s \in Sessions, Transaction(s) \/ Proceed(s) \/ truncate(s)
    PROVE  Preserves(s)
  <1>1. CASE Transaction(s)
    <2>1. CASE \E type \in Modes : begin(s, type)
      BY <2>1, BeginSteps
    <2>2. CASE \E rows \in (SUBSET Rows) \ {{}}, oper \in Opers :
                   \/ selectWithTrans_table(s, rows, oper)
                   \/ selectWithTrans_call(s, rows, oper)
      <3>1. PICK rows \in SUBSET Rows, oper \in Opers :
                     \/ selectWithTrans_table(s, rows, oper)
                     \/ selectWithTrans_call(s, rows, oper)
        BY <2>2
      <3> QED BY <3>1, SelectSteps
    <2>3. CASE \E r \in Inserted : insert(s, r)
      BY <2>3, InsertStep
    <2>4. CASE commit(s) \/ commit_throw(s) \/ rollBack(s)
      BY <2>4, EndingSteps
    <2> QED BY <1>1, <2>1, <2>2, <2>3, <2>4 DEF Transaction
  <1>2. CASE Proceed(s)
    <2>1. CASE beginTrans_poll(s) \/ beginTrans_lock(s)
      BY <2>1, BeginSteps
    <2>2. CASE selectWithTrans_select(s)
      BY <2>2, SelectStep
    <2>3. CASE \E r \in Rows : selectWithTrans_judge(s, r)
      BY <2>3, JudgeStep
    <2>4. CASE selectWithTrans_again(s)
      BY <2>4, AgainStep
    <2>5. CASE selectWithTrans_end(s)
      BY <2>5, EndStep
    <2> QED BY <1>2, <2>1, <2>2, <2>3, <2>4, <2>5 DEF Proceed
  <1>3. CASE truncate(s)
    BY <1>3, EndingSteps
  <1> QED BY <1>1, <1>2, <1>3

LEMMA IInvStep ==
    ASSUME IInv, [Next]_vars
    PROVE  IInv'
  <1>1. CASE Next
    <2>1. PICK s \in Sessions : Transaction(s) \/ Proceed(s) \/ truncate(s)
      BY <1>1 DEF Next
    <2>2. Preserves(s)
      BY <2>1, NextCases
    <2>3. ASSUME NEW x \in Sessions
          PROVE  ControlInv(x)' /\ CacheInv(x)'
      BY <2>2, OthersKept DEF Preserves
    <2> QED BY <2>2, <2>3 DEF Preserves, LocksSound, IInv
  <1>2. CASE UNCHANGED vars
    <2> USE <1>2 DEF vars, lockVars, queryVars, poolVars
    <2>1. TypeOK'
      BY DEF IInv, TypeOK, recVars
    <2>2. WaitersListed' /\ RowsHandedOver'
      BY DEF IInv, WaitersListed, RowsHandedOver, Owners, Waiting
    <2>3. ASSUME NEW s \in Sessions
          PROVE  ControlInv(s)' /\ CacheInv(s)'
      BY DEF IInv, ControlInv, ModeOfPC, WriterOfPC, LocksOfPC, WaitsOnce,
         CacheInv, PoolSound, Nothing, SelectedOwned, CachedOwned
    <2> QED BY <2>1, <2>2, <2>3 DEF IInv
  <1> QED BY <1>1, <1>2

LEMMA IInvHolds == Spec => []IInv
  <1>1. IInv /\ [Next]_vars => IInv'
    BY IInvStep
  <1> QED BY IInvInit, <1>1, PTL DEF Spec

-----------------------------------------------------------------------------
(* The theorems                                                            *)

\* The variables of Table keep their types; in particular no version of a row
\* exceeds the bound, since what is cached was copied from the table.
THEOREM TypeCorrect == Spec => []TypeOK
  <1>1. IInv => TypeOK
    BY DEF IInv
  <1> QED BY IInvHolds, <1>1, PTL

\* releaseLock hands a row to exactly one of the sessions that wait for it, and
\* finds one whenever there is one: a row has one owner at most, and nobody
\* waits for a row without an owner.
THEOREM RowsAreHandedOver == Spec => []RowsHandedOver
  <1>1. IInv => RowsHandedOver
    BY DEF IInv
  <1> QED BY IInvHolds, <1>1, PTL

\* What a row-locking transaction has cached to change at commit it owns,
\* although selectWithTrans gives up the write lock while it waits for a row.
THEOREM ChangesStayLocked == Spec => []ChangesAreLocked
  <1>1. IInv => ChangesAreLocked
    BY DEF IInv, CacheInv, CachedOwned, ChangesAreLocked, Owners
  <1> QED BY IInvHolds, <1>1, PTL

-----------------------------------------------------------------------------
(* Waiting in a circle                                                     *)

\* Every member waits for a row that a member owns.
Ring(ring) ==
    \A x \in ring : \E r \in Rows, y \in ring :
        lockType[x][r] = "wait" /\ lockType[y][r] = "own"

LEMMA NoRing ==
    ASSUME NEW ring \in SUBSET Sessions, ring # {}, NoWaitCycle
    PROVE  ~Ring(ring)
  BY ZenonT(30) DEF NoWaitCycle, Ring, WaitsFor, Owners

LEMMA NoRingAfter ==
    ASSUME \A ring \in SUBSET Sessions : ring # {} => ~Ring(ring)'
    PROVE  NoWaitCycle'
  <1> SUFFICES ASSUME NEW ring \in SUBSET Sessions, ring # {}
               PROVE  \E s \in ring : \A r \in WaitsFor(s)' :
                          Owners(r)' \cap ring = {}
    BY DEF NoWaitCycle
  <1>1. PICK s \in ring : ~\E r \in Rows, y \in ring :
                              lockType'[s][r] = "wait" /\ lockType'[y][r] = "own"
    BY DEF Ring
  <1>2. \A r \in WaitsFor(s)' : Owners(r)' \cap ring = {}
    BY <1>1 DEF WaitsFor, Owners
  <1> QED BY <1>2

\* The owner of a row, and who keeps a waiting session waiting.
LEMMA OwnerFound ==
    ASSUME IInv, NEW r \in Rows, NEW y \in Sessions, lockType[y][r] = "own"
    PROVE  findOwnSessionByResource(r) = y
  <1>1. \A x \in Owners(r) : x = y
    BY DEF IInv, RowsHandedOver, Owners
  <1>2. y \in Owners(r) /\ y \in Sessions
    BY DEF Owners
  <1>3. (CHOOSE x \in Sessions : x \in Owners(r)) = y
    BY <1>1, <1>2
  <1> QED BY <1>2, <1>3 DEF findOwnSessionByResource

LEMMA BlockerFound ==
    ASSUME IInv, NEW x \in Sessions, NEW r \in Rows, NEW y \in Sessions,
           lockType[x][r] = "wait", lockType[y][r] = "own"
    PROVE  Blocker(x) = y
  <1>1. x # NoSession
    BY SessionsAssumption
  <1>2. r \in WaitsFor(x) /\ \A q \in WaitsFor(x) : q = r
    BY DEF WaitsFor, IInv, ControlInv, WaitsOnce
  <1>3. (CHOOSE q \in Rows : q \in WaitsFor(x)) = r
    BY <1>2
  <1>4. findOwnSessionByResource(r) = y
    BY OwnerFound
  <1> QED BY <1>1, <1>2, <1>3, <1>4 DEF Blocker

\* A session that detectDeadLock lets wait closes no ring: the walk from the row
\* stays within a set that the session is not in, and what the ring has in that
\* set would have been a ring before.
LEMMA WaitClosesNoRing ==
    ASSUME IInv, NoWaitCycle, NEW s \in Sessions, NEW r \in Rows,
           \A q \in Rows : lockType[s][q] # "wait",
           ~detectDeadLock(r, s),
           lockType' = [lockType EXCEPT ![s][r] = "wait"],
           lockType[s][r] = "none"
    PROVE  NoWaitCycle'
  <1>1. lockType \in [Sessions -> [Rows -> LockTypes]]
    BY DEF IInv, TypeOK
  <1>2. \A x \in Sessions, q \in Rows :
            lockType'[x][q] = IF x = s /\ q = r THEN "wait" ELSE lockType[x][q]
    BY <1>1
  <1>3. PICK met \in SUBSET (Sessions \cup {NoSession}) :
            /\ findOwnSessionByResource(r) \in met
            /\ \A x \in met : Blocker(x) \in met
            /\ s \notin met
    BY DEF detectDeadLock
  <1>4. ASSUME NEW ring \in SUBSET Sessions, ring # {}, Ring(ring)'
        PROVE  FALSE
    <2>1. \A x \in ring : \E q \in Rows, y \in ring :
              lockType'[x][q] = "wait" /\ lockType[y][q] = "own"
      BY <1>2, <1>4 DEF Ring
    <2>2. CASE s \notin ring
      <3>1. Ring(ring)
        BY <1>2, <2>1, <2>2 DEF Ring
      <3> QED BY <1>4, <3>1, NoRing
    <2>3. CASE s \in ring
      <3>1. PICK y \in ring : lockType[y][r] = "own"
        BY <1>2, <2>1, <2>3
      <3>2. y \in met
        BY <1>3, <3>1, OwnerFound
      <3>3. ASSUME NEW x \in ring \cap met
            PROVE  \E q \in Rows, z \in ring \cap met :
                       lockType[x][q] = "wait" /\ lockType[z][q] = "own"
        <4>1. PICK q \in Rows, z \in ring :
                  lockType'[x][q] = "wait" /\ lockType[z][q] = "own"
          BY <2>1
        <4>2. x # s /\ lockType[x][q] = "wait"
          BY <1>2, <1>3, <4>1
        <4>3. z = Blocker(x)
          BY <4>1, <4>2, BlockerFound
        <4> QED BY <1>3, <4>1, <4>2, <4>3
      <3>4. Ring(ring \cap met)
        BY <3>3 DEF Ring
      <3> QED BY <3>1, <3>2, <3>4, NoRing
    <2> QED BY <2>2, <2>3
  <1> QED BY <1>4, NoRingAfter

\* Giving rows back closes no ring: who is given a row waited for that one only.
LEMMA ReleaseClosesNoRing ==
    ASSUME IInv, NoWaitCycle, NEW s \in Sessions, releaseLock(s)
    PROVE  NoWaitCycle'
  <1>1. LocksSound
    BY DEF IInv, TypeOK, LocksSound, LocksTyped
  <1>2. KeepsLocks(s) /\ \A r \in Rows : lockType'[s][r] = "none"
    BY <1>1, ReleaseSound
  <1>3. ASSUME NEW ring \in SUBSET Sessions, ring # {}, Ring(ring)'
        PROVE  FALSE
    <2>1. \A x \in ring : \E q \in Rows, y \in ring :
              lockType'[x][q] = "wait" /\ lockType'[y][q] = "own"
      BY <1>3 DEF Ring
    <2>2. s \notin ring
      BY <1>2, <2>1
    <2>3. ASSUME NEW x \in ring, NEW q \in Rows, lockType'[x][q] = "wait"
          PROVE  lockType[x][q] = "wait"
      BY <1>2, <2>2, <2>3 DEF KeepsLocks
    <2>4. ASSUME NEW y \in ring, NEW q \in Rows, lockType'[y][q] = "own"
          PROVE  lockType[y][q] = "own"
      <3>1. PICK p \in Rows : lockType'[y][p] = "wait"
        BY <2>1
      <3>2. lockType[y][p] = "wait" /\ p # q
        BY <2>3, <2>4, <3>1
      <3>3. lockType[y][q] # "wait"
        BY <3>2 DEF IInv, ControlInv, WaitsOnce
      <3> QED BY <1>2, <2>2, <2>4, <3>3 DEF KeepsLocks
    <2>5. Ring(ring)
      BY <2>1, <2>3, <2>4 DEF Ring
    <2> QED BY <1>3, <2>5, NoRing
  <1> QED BY <1>3, NoRingAfter

\* Nobody waits for a row that was free.
LEMMA OwnClosesNoRing ==
    ASSUME IInv, NoWaitCycle, NEW s \in Sessions, NEW r \in Rows,
           Waiting(r) = {},
           lockType' = [lockType EXCEPT ![s][r] = "own"]
    PROVE  NoWaitCycle'
  <1>1. lockType \in [Sessions -> [Rows -> LockTypes]]
    BY DEF IInv, TypeOK
  <1>2. \A x \in Sessions, q \in Rows :
            lockType'[x][q] = IF x = s /\ q = r THEN "own" ELSE lockType[x][q]
    BY <1>1
  <1>3. \A x \in Sessions : lockType[x][r] # "wait"
    BY DEF Waiting
  <1>4. ASSUME NEW ring \in SUBSET Sessions, ring # {}, Ring(ring)'
        PROVE  FALSE
    <2>1. Ring(ring)
      BY <1>2, <1>3, <1>4 DEF Ring
    <2> QED BY <1>4, <2>1, NoRing
  <1> QED BY <1>4, NoRingAfter

LEMMA SameLocksNoRing ==
    ASSUME NoWaitCycle, lockType' = lockType
    PROVE  NoWaitCycle'
  <1>1. ASSUME NEW ring \in SUBSET Sessions, ring # {}
        PROVE  ~Ring(ring)'
    <2>1. ~Ring(ring)
      BY <1>1, NoRing
    <2> QED BY <2>1 DEF Ring
  <1> QED BY <1>1, NoRingAfter

LEMMA JudgeClosesNoRing ==
    ASSUME IInv, NoWaitCycle, NEW s \in Sessions, NEW r \in Rows, NEW v \in 0..4,
           judgeAndAddLock(s, r, v),
           pc[s] = "sel" \/ lockType[s][r] # "none"
    PROVE  NoWaitCycle'
  <1>1. CASE v = 0
    <2>1. Waiting(r) = {} /\ lockType' = [lockType EXCEPT ![s][r] = "own"]
      BY <1>1 DEF judgeAndAddLock, insertLock
    <2> QED BY <2>1, OwnClosesNoRing
  <1>2. CASE v \in {1, 2}
    <2>1. lockType' = lockType
      BY <1>2 DEF judgeAndAddLock, lockVars
    <2> QED BY <2>1, SameLocksNoRing
  <1>3. CASE v = 3
    <2>1. /\ lockType[s][r] = "none" /\ ~detectDeadLock(r, s)
          /\ lockType' = [lockType EXCEPT ![s][r] = "wait"]
      BY <1>3 DEF judgeAndAddLock, insertLock
    <2>2. \A q \in Rows : lockType[s][q] # "wait"
      BY <2>1 DEF IInv, ControlInv, WaitsOnce
    <2> QED BY <2>1, <2>2, WaitClosesNoRing
  <1>4. CASE v = 4
    <2>1. releaseLock(s)
      BY <1>4 DEF judgeAndAddLock
    <2> QED BY <2>1, ReleaseClosesNoRing
  <1> QED BY <1>1, <1>2, <1>3, <1>4

LEMMA NoWaitCycleStep ==
    ASSUME IInv, NoWaitCycle, [Next]_vars
    PROVE  NoWaitCycle'
  <1>1. ASSUME UNCHANGED lockVars PROVE NoWaitCycle'
    BY <1>1, SameLocksNoRing DEF lockVars
  <1>2. CASE Next
    <2>1. PICK s \in Sessions : Transaction(s) \/ Proceed(s) \/ truncate(s)
      BY <1>2 DEF Next
    <2>2. CASE \/ \E type \in Modes : begin(s, type)
               \/ \E rows \in (SUBSET Rows) \ {{}}, oper \in Opers :
                      \/ selectWithTrans_table(s, rows, oper)
                      \/ selectWithTrans_call(s, rows, oper)
               \/ \E r \in Inserted : insert(s, r)
               \/ beginTrans_poll(s) \/ beginTrans_lock(s)
               \/ selectWithTrans_select(s) \/ selectWithTrans_end(s)
               \/ truncate(s)
      <3>1. UNCHANGED lockVars
        BY <2>2 DEF begin, selectWithTrans_table, selectWithTrans_call, insert,
           beginTrans_poll, beginTrans_lock, selectWithTrans_select,
           selectWithTrans_end, truncate
      <3> QED BY <1>1, <3>1
    <2>3. CASE commit(s) \/ commit_throw(s) \/ rollBack(s)
      <3>1. releaseLock(s) \/ UNCHANGED lockVars
        BY <2>3 DEF commit, commit_throw, rollBack, EndsLocked
      <3> QED BY <1>1, <3>1, ReleaseClosesNoRing
    <2>4. CASE \E r \in Rows : selectWithTrans_judge(s, r)
      BY <2>4, JudgeClosesNoRing DEF selectWithTrans_judge
    <2>5. CASE selectWithTrans_again(s)
      <3>1. \/ \E v \in 0..4 : judgeAndAddLock(s, cur[s], v)
            \/ releaseLock(s)
        BY <2>5 DEF selectWithTrans_again
      <3>2. cur[s] \in Rows /\ lockType[s][cur[s]] # "none"
        BY <2>5 DEF selectWithTrans_again, IInv, TypeOK, ControlInv, WaitsOnce
      <3> QED BY <3>1, <3>2, JudgeClosesNoRing, ReleaseClosesNoRing
    <2> QED BY <2>1, <2>2, <2>3, <2>4, <2>5 DEF Transaction, Proceed
  <1>3. CASE UNCHANGED vars
    BY <1>1, <1>3 DEF vars
  <1> QED BY <1>2, <1>3

\* No session waits, through others, for itself: detectDeadLock, which walks
\* from the row a session asks for to its owner, to the row that one waits for
\* and so on, meets every cycle before it is closed; and since there is none,
\* its walk, which has no other end, ends.
THEOREM DeadlockIsDetected == Spec => []NoWaitCycle
  <1>1. Init => NoWaitCycle
    <2> SUFFICES ASSUME Init, NEW ring \in SUBSET Sessions, ring # {}
                 PROVE  \E s \in ring : WaitsFor(s) = {}
      BY DEF NoWaitCycle
    <2> QED BY DEF Init, WaitsFor
  <1>2. IInv /\ NoWaitCycle /\ [Next]_vars => NoWaitCycle'
    BY NoWaitCycleStep
  <1> QED BY IInvHolds, <1>1, <1>2, PTL DEF Spec

-----------------------------------------------------------------------------
(* Who changes rows                                                        *)

\* While a transaction holds the table lock, nobody else changes a row: the
\* write lock has one holder, and rollBack does not release it a second time
\* after commit has thrown.
THEOREM TableLockKept == Spec => TableLockHolds
  <1> DEFINE Held ==
          \A s \in Sessions :
              /\ m_lockType[s] = 0 /\ pc[s] = "trans"
              /\ rec' # rec
              => pc'[s] # "trans"
  <1>1. IInv /\ [Next]_vars => [Held]_vars
    <2> SUFFICES ASSUME IInv, [Next]_vars, NEW s \in Sessions,
                        m_lockType[s] = 0, pc[s] = "trans", rec' # rec
                 PROVE  pc'[s] # "trans"
      OBVIOUS
    <2>1. PICK u \in Sessions : Transaction(u) \/ Proceed(u) \/ truncate(u)
      BY DEF recVars, Next, vars
    <2>2. commit(u) \/ commit_throw(u) \/ truncate(u)
      BY <2>1 DEF recVars, Transaction, Proceed, begin, selectWithTrans_table,
         selectWithTrans_call, insert, rollBack, beginTrans_poll,
         beginTrans_lock, selectWithTrans_select, selectWithTrans_judge,
         selectWithTrans_again, selectWithTrans_end
    <2>3. writer = s /\ s # NoSession
      BY SessionsAssumption DEF IInv, ControlInv, WriterOfPC
    <2>4. m_lockType[u] \in {0, 1} /\ pc \in [Sessions -> PCs]
      BY DEF IInv, TypeOK
    <2>5. u = s /\ (commit(u) \/ commit_throw(u))
      <3>1. CASE truncate(u)
        BY <2>3, <3>1 DEF truncate, WithWriteLock
      <3>2. CASE commit(u) \/ commit_throw(u)
        <4>1. EndsLocked(u) /\ pc[u] = "trans"
          BY <3>2 DEF commit, commit_throw
        <4>2. m_lockType[u] = 0
          BY <2>3, <2>4, <4>1 DEF EndsLocked, WithWriteLock
        <4>3. writer = u
          BY <4>1, <4>2 DEF IInv, ControlInv, WriterOfPC
        <4> QED BY <2>3, <3>2, <4>3
      <3> QED BY <2>2, <3>1, <3>2
    <2> QED BY <2>4, <2>5 DEF commit, commit_throw, Goto
  <1> QED BY IInvHolds, <1>1, PTL DEF Spec, TableLockHolds

-----------------------------------------------------------------------------
(* Rows that stay where they are                                           *)

\* Without deletes no copy is stale, so a commit changes what it has copied and
\* leaves every row in its slot.
LEMMA CommitInPlace ==
    ASSUME IInv, StayInv, NEW s \in Sessions, commit(s)
    PROVE  /\ ~damaged' /\ OneRowPerSlot'
           /\ \A r \in Rows : rec[r] # Absent =>
                  /\ rec'[r] # Absent /\ rec'[r].addr = rec[r].addr
                  /\ rec'[r] # rec[r] => pool[s][r].oper = "update"
  <1> USE SessionsAssumption, TableAssumption
  <1>1. /\ \A r \in Rows : rec[r] \in Records \cup {Absent}
        /\ Absent \notin Records /\ pc[s] = "trans"
    BY DEF IInv, TypeOK, Records, commit
  <1>2. \A r \in Rows : pool[s][r].oper # "delete"
    BY DEF StayInv, NothingDeleted
  <1>3. \A r \in Rows : pool[s][r].oper = "update" => InPlace(s, r)
    <2> SUFFICES ASSUME NEW r \in Rows, pool[s][r].oper = "update"
                 PROVE  InPlace(s, r)
      OBVIOUS
    <2>1. pool[s][r].old \in Records
      BY DEF IInv, CacheInv, PoolSound, Nothing
    <2>2. SameSlot(r, pool[s][r].old)
      BY <1>1 DEF StayInv, CopiesInPlace
    <2> QED BY <1>1, <2>1, <2>2 DEF SameSlot, InPlace
  <1>4. Stale(s, "delete") = {} /\ Stale(s, "update") = {}
    BY <1>2, <1>3 DEF Stale
  <1>5. ~damaged /\ ~damaged' /\ ~LandsAnywhere(s)
    BY <1>4 DEF StayInv, LandsAnywhere, commit
  <1>6. PICK place \in Placements(s, added[s]), last \in Orders(s) :
            rec' = [r \in Rows |-> Applied(s, r, place, last)]
    BY <1>5 DEF commit
  <1>7. \A r \in Rows : AfterDelete(s, r) = rec[r]
    BY <1>2 DEF AfterDelete
  <1>8. /\ place \in [Rows -> Places]
        /\ \A n \in added[s] :
               /\ rec[n] = Absent
               /\ \A q \in Rows : rec[q] # Absent => place[n] # rec[q].addr
               /\ \A x \in added[s] : place[x] = place[n] => x = n
    <2>1. added[s] \subseteq Rows
      BY DEF IInv, TypeOK
    <2> QED BY <1>7, <2>1 DEF Placements, commit
  \* Who writes into a slot is the row that lies there.
  <1>9. \A a \in Places : \A u \in Writers(s, a) :
            u \in Rows /\ pool[s][u].oper = "update"
            /\ rec[u] # Absent /\ rec[u].addr = a
    BY <1>3 DEF Writers, InPlace
  <1>10. ASSUME NEW r \in Rows
         PROVE  LET was == AfterInsert(s, r, place)
                IN  IF was = Absent THEN rec'[r] = Absent
                    ELSE /\ rec'[r] # Absent /\ rec'[r].addr = was.addr
                         /\ rec'[r] # was => pool[s][r].oper = "update"
    <2> DEFINE was == AfterInsert(s, r, place)
    <2>1. rec'[r] = IF was = Absent \/ Writers(s, was.addr) = {} THEN was
                    ELSE IF last[was.addr] # r THEN Absent
                    ELSE [was EXCEPT !.ver = pool[s][r].old.ver + 1]
      BY <1>6 DEF Applied
    <2>2. CASE r \in added[s]
      <3>1. was = [addr |-> place[r], ver |-> 0] /\ was.addr \in Places
        BY <1>8, <2>2 DEF AfterInsert
      <3>2. Writers(s, was.addr) = {}
        BY <1>8, <1>9, <2>2, <3>1
      <3>3. was \in Records
        BY <3>1 DEF Records
      <3> QED BY <1>1, <2>1, <3>2, <3>3
    <2>3. CASE r \notin added[s]
      <3>1. was = rec[r]
        BY <1>7, <2>3 DEF AfterInsert
      <3>2. CASE rec[r] # Absent /\ Writers(s, rec[r].addr) # {}
        <4>1. rec[r] \in Records /\ rec[r].addr \in Places
          BY <1>1, <3>2 DEF Records
        <4>2. last[rec[r].addr] \in Writers(s, rec[r].addr)
          BY <3>2, <4>1 DEF Orders
        <4>3. last[rec[r].addr] = r /\ pool[s][r].oper = "update"
          BY <1>9, <3>2, <4>1, <4>2 DEF StayInv, OneRowPerSlot
        <4>4. rec'[r] = [rec[r] EXCEPT !.ver = pool[s][r].old.ver + 1]
          BY <2>1, <3>1, <3>2, <4>3
        <4>5. rec'[r] # Absent
          <5>1. pool[s][r].old \in Records /\ Bounded(s)
            BY <4>3 DEF IInv, CacheInv, PoolSound, Nothing, commit
          <5>2. pool[s][r].old.ver + 1 \in 0..MaxVersion
            BY <4>3, <5>1 DEF Bounded, Records
          <5>3. rec'[r] \in Records
            BY <4>1, <4>4, <5>2 DEF Records
          <5> QED BY <1>1, <5>3
        <4>6. rec'[r].addr = rec[r].addr
          BY <4>1, <4>4 DEF Records
        <4> QED BY <3>1, <3>2, <4>3, <4>5, <4>6
      <3>3. CASE rec[r] = Absent \/ Writers(s, rec[r].addr) = {}
        BY <2>1, <3>1, <3>3
      <3> QED BY <3>2, <3>3
    <2> QED BY <2>2, <2>3
  <1>11. \A r \in Rows :
             /\ r \in added[s] => rec'[r] # Absent /\ rec'[r].addr = place[r]
             /\ r \notin added[s] =>
                    IF rec[r] = Absent THEN rec'[r] = Absent
                    ELSE /\ rec'[r] # Absent /\ rec'[r].addr = rec[r].addr
                         /\ rec'[r] # rec[r] => pool[s][r].oper = "update"
    <2> SUFFICES ASSUME NEW r \in Rows
                 PROVE  /\ r \in added[s] =>
                               rec'[r] # Absent /\ rec'[r].addr = place[r]
                        /\ r \notin added[s] =>
                               IF rec[r] = Absent THEN rec'[r] = Absent
                               ELSE /\ rec'[r] # Absent
                                    /\ rec'[r].addr = rec[r].addr
                                    /\ rec'[r] # rec[r] =>
                                           pool[s][r].oper = "update"
      OBVIOUS
    <2>1. CASE r \in added[s]
      <3>1. /\ AfterInsert(s, r, place) = [addr |-> place[r], ver |-> 0]
            /\ [addr |-> place[r], ver |-> 0] \in Records
        BY <1>8, <2>1 DEF AfterInsert, Records
      <3> QED BY <1>1, <1>10, <2>1, <3>1
    <2>2. CASE r \notin added[s]
      BY <1>7, <1>10, <2>2 DEF AfterInsert
    <2> QED BY <2>1, <2>2
  <1>12. OneRowPerSlot'
    <2> SUFFICES ASSUME NEW q \in Rows, NEW r \in Rows, rec'[q] # Absent,
                        rec'[r] # Absent, rec'[q].addr = rec'[r].addr
                 PROVE  q = r
      BY DEF OneRowPerSlot
    <2> QED BY <1>8, <1>11 DEF StayInv, OneRowPerSlot
  <1> QED BY <1>5, <1>8, <1>11, <1>12

LEMMA ThrowInPlace ==
    ASSUME IInv, StayInv, NEW s \in Sessions, commit_throw(s)
    PROVE  ~damaged' /\ rec' = rec
  <1>1. \A r \in Rows : pool[s][r].oper # "delete"
    BY DEF StayInv, NothingDeleted
  <1>2. Stale(s, "delete") = {} /\ Deleted(s) = {}
    BY <1>1 DEF Stale, Deleted
  <1>3. ~damaged' /\ ~LandsAnywhere(s)
    BY <1>2 DEF StayInv, LandsAnywhere, commit_throw
  <1>4. PICK place \in Placements(s, Deleted(s)) :
            rec' = [r \in Rows |-> Undone(s, r, place)]
    BY <1>3 DEF commit_throw
  <1>5. \A r \in Rows : Undone(s, r, place) = rec[r]
    BY <1>1, <1>2 DEF Undone, AfterDelete
  <1>6. rec = [r \in Rows |-> rec[r]]
    BY DEF IInv, TypeOK
  <1> QED BY <1>3, <1>4, <1>5, <1>6

\* A step that leaves the rows alone makes no copy of a row but where it is.
LEMMA CopiesKept ==
    ASSUME RowLocksOnly, NoDeletes, IInv, StayInv, NEW s \in Sessions,
           Transaction(s) \/ Proceed(s), rec' = rec
    PROVE  NothingDeleted(s)' /\ CopiesInPlace(s)'
  <1> USE SessionsAssumption, TableAssumption
  <1>1. TypeOK /\ ControlInv(s) /\ NothingDeleted(s) /\ CopiesInPlace(s)
    BY DEF IInv, StayInv
  <1>2. m_lockType[s] = 0 => pc[s] = "idle"
    BY <1>1 DEF ControlInv, ModeOfPC, RowLocksOnly
  <1>3. CASE \/ \E type \in Modes : begin(s, type)
             \/ commit(s) \/ rollBack(s)
    <2>1. /\ pool'[s] = NoRows
          /\ pc'[s] \notin {"sel", "again"}
      BY <1>1, <1>3 DEF begin, commit, rollBack, ClearPool, Goto, TypeOK
    <2> QED BY <2>1 DEF NothingDeleted, CopiesInPlace, SameSlot, NoRows, Nothing
  <1>4. CASE commit_throw(s)
    <2>1. pool' = pool /\ pc'[s] \in {"unlocked", "failed"}
      BY <1>1, <1>4 DEF commit_throw, poolVars, Goto, TypeOK
    <2> QED BY <1>1, <2>1 DEF NothingDeleted, CopiesInPlace
  <1>5. CASE \/ \E rows \in (SUBSET Rows) \ {{}}, oper \in Opers :
                    selectWithTrans_call(s, rows, oper)
             \/ \E r \in Inserted : insert(s, r)
    <2>1. pool' = pool /\ pc[s] = "trans" /\ pc'[s] \in {"trans", "wantSel"}
      BY <1>1, <1>5 DEF selectWithTrans_call, insert, poolVars, Goto, TypeOK
    <2> QED BY <1>1, <2>1 DEF NothingDeleted, CopiesInPlace, SameSlot
  <1>6. CASE selectWithTrans_select(s)
    <2>1. /\ pool' = pool /\ pc[s] = "wantSel"
          /\ found'[s] = Copies(query[s].rows)
      BY <1>1, <1>6 DEF selectWithTrans_select, poolVars, TypeOK
    <2> QED BY <1>1, <2>1 DEF NothingDeleted, CopiesInPlace, SameSlot, Copies
  <1>7. CASE \/ \E r \in Rows : selectWithTrans_judge(s, r)
             \/ selectWithTrans_again(s)
    <2>1. pool' = pool /\ pc[s] \in {"sel", "again"}
      BY <1>7 DEF selectWithTrans_judge, selectWithTrans_again, poolVars
    <2>2. \/ pc'[s] \in {"sel", "again"} /\ found' = found
          \/ pc'[s] = "failed"
      BY <1>1, <1>7 DEF selectWithTrans_judge, selectWithTrans_again, Goto,
         TypeOK
    <2> QED BY <1>1, <2>1, <2>2 DEF NothingDeleted, CopiesInPlace, SameSlot
  <1>8. CASE selectWithTrans_end(s)
    <2>1. /\ pc[s] = "sel" /\ Cache(s, found[s], query[s].oper)
          /\ pc'[s] = "trans" /\ query[s].oper # "delete"
      BY <1>1, <1>8 DEF selectWithTrans_end, Goto, TypeOK, NoDeletes
    <2>2. pool'[s] = [r \in Rows |->
              IF found[s][r] = Absent \/ pool[s][r].oper = "delete"
              THEN pool[s][r]
              ELSE IF pool[s][r] = Nothing
                   THEN [old |-> found[s][r], oper |-> query[s].oper]
                   ELSE [pool[s][r] EXCEPT !.oper =
                            IF query[s].oper = "select" THEN @
                            ELSE query[s].oper]]
      BY <1>1, <2>1 DEF Cache, TypeOK
    <2>3. ASSUME NEW r \in Rows
          PROVE  /\ pool'[s][r].oper # "delete"
                 /\ pool'[s][r].old \in {pool[s][r].old, found[s][r]}
      <3>1. pool[s][r] \in [old : Records \cup {Absent},
                            oper : {"none", "select", "update", "delete"}]
        BY <1>1 DEF TypeOK
      <3>2. pool[s][r].oper # "delete"
        BY <1>1 DEF NothingDeleted
      <3> QED BY <2>1, <2>2, <3>1, <3>2
    <2>4. \A r \in Rows : SameSlot(r, pool[s][r].old) /\ SameSlot(r, found[s][r])
      BY <1>1, <2>1 DEF CopiesInPlace
    <2>5. \A r \in Rows : SameSlot(r, pool'[s][r].old)
      BY <2>3, <2>4
    <2> QED BY <2>1, <2>3, <2>5 DEF NothingDeleted, CopiesInPlace, SameSlot
  \* The steps of a transaction that locks the table.
  <1>9. CASE \/ beginTrans_poll(s) \/ beginTrans_lock(s)
             \/ \E rows \in (SUBSET Rows) \ {{}}, oper \in Opers :
                    selectWithTrans_table(s, rows, oper)
    <2>1. pc[s] # "idle" /\ m_lockType[s] = 0
      BY <1>1, <1>9 DEF beginTrans_poll, beginTrans_lock, selectWithTrans_table,
         ControlInv, ModeOfPC
    <2> QED BY <1>2, <2>1
  <1> QED BY <1>3, <1>4, <1>5, <1>6, <1>7, <1>8, <1>9 DEF Transaction, Proceed

\* There are no copies when truncate finds the lock table empty.
LEMMA TruncateInPlace ==
    ASSUME RowLocksOnly, IInv, StayInv, NEW u \in Sessions, truncate(u),
           NEW s \in Sessions
    PROVE  NothingDeleted(s)' /\ CopiesInPlace(s)'
  <1>1. /\ writer = NoSession /\ \A r \in Rows : lockType[s][r] = "none"
        /\ UNCHANGED <<pc, pool, found>>
    BY DEF truncate, WithWriteLock, isEmpty, poolVars, queryVars
  <1>2. TypeOK /\ ControlInv(s) /\ CacheInv(s) /\ NothingDeleted(s)
    BY DEF IInv, StayInv
  <1>3. pc[s] \notin {"sel", "again"}
    BY <1>1, <1>2, SessionsAssumption DEF ControlInv, WriterOfPC, WaitsOnce,
       TypeOK
  <1>4. pc[s] \in {"trans", "wantSel"} => \A r \in Rows : pool[s][r] = Nothing
    <2>1. m_lockType[s] \in {0, 1} /\ 0 \notin Modes
      BY <1>2 DEF TypeOK, RowLocksOnly
    <2>2. pc[s] # "idle" => m_lockType[s] = 1
      BY <1>2, <2>1 DEF ControlInv, ModeOfPC
    <2> QED BY <1>1, <1>2, <2>2 DEF CacheInv, CachedOwned, PoolSound
  <1> QED BY <1>1, <1>2, <1>3, <1>4 DEF NothingDeleted, CopiesInPlace, SameSlot,
          Nothing

LEMMA StayInvStep ==
    ASSUME RowLocksOnly, NoDeletes, IInv, StayInv, [Next]_vars
    PROVE  StayInv'
  <1>1. CASE UNCHANGED vars
    BY <1>1 DEF vars, recVars, queryVars, poolVars, StayInv, OneRowPerSlot,
       NothingDeleted, CopiesInPlace, SameSlot
  <1>2. CASE Next
    <2>1. PICK s \in Sessions : Transaction(s) \/ Proceed(s) \/ truncate(s)
      BY <1>2 DEF Next
    <2>2. Frame(s)
      BY <2>1, NextCases DEF Preserves
    <2>3. CASE truncate(s)
      <3>1. ~damaged' /\ OneRowPerSlot'
        BY <2>3 DEF truncate, StayInv, OneRowPerSlot
      <3> QED BY <2>3, <3>1, TruncateInPlace DEF StayInv
    <2>4. CASE commit(s)
      <3>1. /\ ~damaged' /\ OneRowPerSlot'
            /\ \A r \in Rows : rec[r] # Absent =>
                   rec'[r] # Absent /\ rec'[r].addr = rec[r].addr
        BY <2>4, CommitInPlace
      <3>2. pool'[s] = NoRows /\ pc'[s] = "idle"
        BY <2>4 DEF commit, ClearPool, Goto, IInv, TypeOK
      <3>3. ASSUME NEW x \in Sessions
            PROVE  NothingDeleted(x)' /\ CopiesInPlace(x)'
        <4>1. CASE x = s
          BY <3>2, <4>1 DEF NothingDeleted, CopiesInPlace, NoRows, Nothing
        <4>2. CASE x # s
          <5>1. pc'[x] = pc[x] /\ found'[x] = found[x] /\ pool'[x] = pool[x]
            BY <2>2, <4>2 DEF Frame
          <5>2. NothingDeleted(x) /\ CopiesInPlace(x)
            BY DEF StayInv
          <5> QED BY <3>1, <5>1, <5>2 DEF NothingDeleted, CopiesInPlace,
                  SameSlot
        <4> QED BY <4>1, <4>2
      <3> QED BY <3>1, <3>3 DEF StayInv
    <2>5. CASE (Transaction(s) \/ Proceed(s)) /\ ~commit(s)
      <3>1. ~damaged' /\ rec' = rec
        <4>1. CASE commit_throw(s)
          BY <4>1, ThrowInPlace
        <4>2. CASE ~commit_throw(s)
          BY <2>5, <4>2 DEF Transaction, Proceed, begin, selectWithTrans_table,
             selectWithTrans_call, insert, rollBack, beginTrans_poll,
             beginTrans_lock, selectWithTrans_select, selectWithTrans_judge,
             selectWithTrans_again, selectWithTrans_end, recVars, StayInv
        <4> QED BY <4>1, <4>2
      <3>2. NothingDeleted(s)' /\ CopiesInPlace(s)'
        BY <2>5, <3>1, CopiesKept
      <3>3. ASSUME NEW x \in Sessions \ {s}
            PROVE  NothingDeleted(x)' /\ CopiesInPlace(x)'
        <4>1. pc'[x] = pc[x] /\ found'[x] = found[x] /\ pool'[x] = pool[x]
          BY <2>2 DEF Frame
        <4>2. NothingDeleted(x) /\ CopiesInPlace(x)
          BY DEF StayInv
        <4> QED BY <3>1, <4>1, <4>2 DEF NothingDeleted, CopiesInPlace, SameSlot
      <3> QED BY <3>1, <3>2, <3>3 DEF StayInv, OneRowPerSlot
    <2> QED BY <2>1, <2>3, <2>4, <2>5
  <1> QED BY <1>1, <1>2

\* If transactions lock rows only and delete none, no copy is stale: a row is in
\* the slot it was copied from as long as the copy may be committed, although
\* selectWithTrans copies it before it has its lock.
THEOREM RowsStay ==
    ASSUME RowLocksOnly, NoDeletes
    PROVE  Spec => []StayInv
  <1>1. Init => StayInv
    BY DEF Init, StayInv, OneRowPerSlot, NothingDeleted, CopiesInPlace, NoRows,
       Nothing
  <1>2. IInv /\ StayInv /\ [Next]_vars => StayInv'
    BY StayInvStep
  <1> QED BY IInvHolds, <1>1, <1>2, PTL DEF Spec

\* If transactions lock rows only and delete none, a row that a session owns
\* changes only in the step in which that session gives its locks back: commit
\* writes rows of its own, in the slots they are in, and truncate is refused
\* while there are row locks.
THEOREM OwnedRowsKept ==
    ASSUME RowLocksOnly, NoDeletes
    PROVE  Spec => OwnedRowsStable
  <1> DEFINE Stable ==
          \A r \in Rows, s \in Sessions :
              /\ s \in Owners(r) /\ rec[r] # Absent
              /\ rec'[r] # rec[r]
              => lockType'[s][r] = "none"
  <1>1. IInv /\ StayInv /\ [Next]_vars => [Stable]_vars
    <2> SUFFICES ASSUME IInv, StayInv, [Next]_vars, NEW r \in Rows,
                        NEW s \in Sessions,
                        lockType[s][r] = "own", rec[r] # Absent,
                        rec'[r] # rec[r]
                 PROVE  lockType'[s][r] = "none"
      BY DEF Owners
    <2>1. PICK u \in Sessions : Transaction(u) \/ Proceed(u) \/ truncate(u)
      BY DEF Next, vars, recVars
    <2>2. commit(u) \/ commit_throw(u) \/ truncate(u)
      BY <2>1 DEF Transaction, Proceed, begin, selectWithTrans_table,
         selectWithTrans_call, insert, rollBack, beginTrans_poll,
         beginTrans_lock, selectWithTrans_select, selectWithTrans_judge,
         selectWithTrans_again, selectWithTrans_end, recVars
    <2>3. commit(u)
      BY <2>2, ThrowInPlace DEF truncate, isEmpty
    <2>4. pc[u] = "trans" /\ m_lockType[u] = 1
      <3>1. pc[u] = "trans"
        BY <2>3 DEF commit
      <3>2. m_lockType[u] \in Modes
        BY <3>1 DEF IInv, ControlInv, ModeOfPC
      <3> QED BY <3>1, <3>2, TableAssumption DEF RowLocksOnly
    <2>5. pool[u][r].oper = "update"
      BY <2>3, CommitInPlace
    <2>6. lockType[u][r] = "own"
      BY <2>4, <2>5 DEF IInv, CacheInv, CachedOwned
    <2>7. u = s
      BY <2>6 DEF IInv, RowsHandedOver, Owners
    <2>8. releaseLock(s)
      BY <2>3, <2>4, <2>7 DEF commit, EndsLocked
    <2>9. LocksSound
      BY DEF IInv, TypeOK, LocksSound, LocksTyped
    <2> QED BY <2>8, <2>9, ReleaseSound
  <1> QED BY IInvHolds, RowsStay, <1>1, PTL DEF Spec, OwnedRowsStable
==============================================================================
