------------------------ MODULE MutexDoubleLockProofs ------------------------
(***************************************************************************)
(* The variables keep their shape and a thread under a mutex owns it, for  *)
(* any set of threads and of locks.                                        *)
(***************************************************************************)
EXTENDS MutexDoubleLockInv, FiniteSetTheorems, TLAPS

\* Tables of counts stay tables of counts.
LEMMA TableUpdate ==
    ASSUME NEW f \in [Threads -> [Sids -> Int]], NEW t \in Threads,
           NEW s \in Sids, NEW n \in Int
    PROVE  /\ [f EXCEPT ![t][s] = @ + n] \in [Threads -> [Sids -> Int]]
           /\ [f EXCEPT ![t][s] = 0] \in [Threads -> [Sids -> Int]]
           /\ [f EXCEPT ![t] = [x \in Sids |-> 0]] \in [Threads -> [Sids -> Int]]
  <1>1. f[t] \in [Sids -> Int] /\ f[t][s] \in Int
    OBVIOUS
  <1>2. f[t][s] + n \in Int
    BY <1>1
  <1> QED BY <1>1, <1>2

LEMMA ShapeInit == Init => Shape
  BY DEF Init, Shape, Modes, PCs

\* The operations on a slot keep its shape.
LEMMA BookShape ==
    ASSUME Shape, NEW t \in Threads, NEW s \in Sids,
           \/ lockRdSrc(t, s) \/ lockWdSrc(t, s) \/ lockWWaitSrc(t, s)
           \/ unlockRdSrc(t, s) \/ unlockWdSrc(t, s) \/ unlockWWaitSrc(t, s)
    PROVE  /\ rcount' \in [Threads -> [Sids -> Int]]
           /\ wcount' \in [Threads -> [Sids -> Int]]
           /\ wwait' \in [Threads -> [Sids -> Int]]
  <1> DEFINE Table == [Threads -> [Sids -> Int]]
  <1>1. rcount \in Table /\ wcount \in Table /\ wwait \in Table
    BY DEF Shape
  <1>2. ASSUME NEW f \in Table
        PROVE  /\ [f EXCEPT ![t][s] = @ + 1] \in Table
               /\ [f EXCEPT ![t][s] = @ + (-1)] \in Table
               /\ [f EXCEPT ![t][s] = 0] \in Table
    BY TableUpdate
  <1> HIDE DEF Table
  <1>3. rcount' \in Table /\ wcount' \in Table /\ wwait' \in Table
    BY <1>1, <1>2 DEF lockRdSrc, lockWdSrc, lockWWaitSrc, unlockRdSrc,
       unlockWdSrc, unlockWWaitSrc, Leave, Add, Wipe
  <1> QED BY <1>3 DEF Table

LEMMA WakeupShape ==
    ASSUME Shape, NEW s \in Sids, Wakeup(s)
    PROVE  /\ waiters' \in [Sids -> SUBSET Threads]
           /\ orphans' \in [Sids -> SUBSET Threads]
  <1>1. CASE cond_init(s)
    BY <1>1 DEF cond_init, Shape
  <1>2. CASE cond_broadcast(s)
    <2>1. PICK o \in SUBSET orphans[s] : orphans' = [orphans EXCEPT ![s] = o]
      BY <1>2 DEF cond_broadcast
    <2>2. o \in SUBSET Threads
      BY DEF Shape
    <2> QED BY <1>2, <2>1, <2>2 DEF cond_broadcast, Shape
  <1> QED BY <1>1, <1>2 DEF Wakeup

LEMMA ShapeStep ==
    ASSUME Shape, [Next]_vars
    PROVE  Shape'
  <1>1. CASE \E t \in Threads : Request(t) \/ Release(t)
    <2> SUFFICES ASSUME NEW t \in Threads, NEW s \in Sids,
                        \/ getReadLock_call(t, s)
                        \/ getWriteLock_call(t, s)
                        \/ getReadLockNoWait_call(t, s)
                        \/ getWriteLockNoWait_call(t, s)
                        \/ releaseReadLock_call(t, s)
                        \/ releaseWriteLock_call(t, s)
                 PROVE  Shape'
      BY <1>1 DEF Request, Release
    <2>1. CASE getReadLock_call(t, s)
      <3>1. cur[t] \in Sids /\ lockRdSrc(t, s)
        BY <2>1 DEF getReadLock_call, Call, Shape
      <3>2. /\ rcount' \in [Threads -> [Sids -> Int]]
            /\ wcount' \in [Threads -> [Sids -> Int]]
            /\ wwait' \in [Threads -> [Sids -> Int]]
        BY <3>1, BookShape
      <3> QED
        BY <2>1, <3>2 DEF getReadLock_call, Call, At, Goto, Shape, PCs,
           ReadPCs, WritePCs, TryPCs, ReleasePCs, Modes, nodeVars, procVars,
           mgrVars
    <2>2. CASE getWriteLock_call(t, s)
      BY <2>2 DEF getWriteLock_call, Call, At, Goto, Shape, PCs, ReadPCs,
         WritePCs, TryPCs, ReleasePCs, Modes, nodeVars, srcVars, threadVars,
         procVars, mgrVars
    <2>3. CASE getReadLockNoWait_call(t, s)
      BY <2>3 DEF getReadLockNoWait_call, Call, At, Goto, mutex_lock, Shape,
         PCs, ReadPCs, WritePCs, TryPCs, ReleasePCs, Modes, nodeVars, srcVars,
         threadVars, procVars, mgrVars
    <2>4. CASE getWriteLockNoWait_call(t, s)
      BY <2>4 DEF getWriteLockNoWait_call, Call, At, Goto, mutex_lock, Shape,
         PCs, ReadPCs, WritePCs, TryPCs, ReleasePCs, Modes, nodeVars, srcVars,
         threadVars, procVars, mgrVars
    <2>5. CASE releaseReadLock_call(t, s)
      BY <2>5 DEF releaseReadLock_call, Call, At, Goto, Shape, PCs, ReadPCs,
         WritePCs, TryPCs, ReleasePCs, Modes, nodeVars, srcVars, threadVars,
         procVars, mgrVars
    <2>6. CASE releaseWriteLock_call(t, s)
      BY <2>6 DEF releaseWriteLock_call, Call, At, Goto, Shape, PCs, ReadPCs,
         WritePCs, TryPCs, ReleasePCs, Modes, nodeVars, srcVars, threadVars,
         procVars, mgrVars
    <2> QED BY <2>1, <2>2, <2>3, <2>4, <2>5, <2>6
  <1>2. CASE \E t \in Threads : Acquire(t)
    <2> PICK t \in Threads : Acquire(t)
      BY <1>2
    <2>1. CASE getReadLock_lock(t)
      BY <2>1 DEF getReadLock_lock, TakeMutex, mutex_lock, At, Goto, Shape,
         PCs, ReadPCs, WritePCs, TryPCs, ReleasePCs, Modes, nodeVars, srcVars,
         threadVars, procVars, mgrVars
    <2>2. CASE getReadLock_wake(t)
      BY <2>2 DEF getReadLock_wake, Rewaken, TakeMutex, mutex_lock, At, Goto,
         Shape, PCs, ReadPCs, WritePCs, TryPCs, ReleasePCs, Modes, nodeVars,
         srcVars, threadVars, procVars, mgrVars
    <2>3. CASE getWriteLock_lock(t)
      BY <2>3 DEF getWriteLock_lock, TakeMutex, mutex_lock, At, Goto, Shape,
         PCs, ReadPCs, WritePCs, TryPCs, ReleasePCs, Modes, nodeVars, srcVars,
         threadVars, procVars, mgrVars
    <2>4. CASE getWriteLock_wake(t)
      BY <2>4 DEF getWriteLock_wake, Rewaken, TakeMutex, mutex_lock, At, Goto,
         Shape, PCs, ReadPCs, WritePCs, TryPCs, ReleasePCs, Modes, nodeVars,
         srcVars, threadVars, procVars, mgrVars
    <2>5. CASE releaseReadLock_lock(t)
      BY <2>5 DEF releaseReadLock_lock, TakeMutex, mutex_lock, At, Goto,
         Shape, PCs, ReadPCs, WritePCs, TryPCs, ReleasePCs, Modes, nodeVars,
         srcVars, threadVars, procVars, mgrVars
    <2>6. CASE releaseWriteLock_lock(t)
      BY <2>6 DEF releaseWriteLock_lock, TakeMutex, mutex_lock, At, Goto,
         Shape, PCs, ReadPCs, WritePCs, TryPCs, ReleasePCs, Modes, nodeVars,
         srcVars, threadVars, procVars, mgrVars
    <2> QED
      BY <2>1, <2>2, <2>3, <2>4, <2>5, <2>6 DEF Acquire
  <1>3. CASE \E t \in Threads : Proceed(t)
    <2> PICK t \in Threads : Proceed(t)
      BY <1>3
    <2>1. CASE getReadLock_wait(t)
      BY <2>1 DEF getReadLock_wait, Sleep, cond_wait, mutex_unlock, At, Goto,
         Shape, PCs, ReadPCs, WritePCs, TryPCs, ReleasePCs, Modes, nodeVars,
         srcVars, threadVars, procVars, mgrVars
    <2>2. CASE getReadLock_enter(t)
      BY <2>2 DEF getReadLock_enter, CountRead, At, Goto, Shape, PCs, ReadPCs,
         WritePCs, TryPCs, ReleasePCs, Modes, nodeVars, srcVars, threadVars,
         procVars, mgrVars
    <2>3. CASE getWriteLock_incWait(t)
      BY <2>3 DEF getWriteLock_incWait, CountWait, At, Goto, Shape, PCs,
         ReadPCs, WritePCs, TryPCs, ReleasePCs, Modes, nodeVars, srcVars,
         threadVars, procVars, mgrVars
    <2>4. CASE getWriteLock_regWait(t)
      <3>1. cur[t] \in Sids /\ lockWWaitSrc(t, cur[t])
        BY <2>4 DEF getWriteLock_regWait, Book, Shape
      <3>2. /\ rcount' \in [Threads -> [Sids -> Int]]
            /\ wcount' \in [Threads -> [Sids -> Int]]
            /\ wwait' \in [Threads -> [Sids -> Int]]
        BY <3>1, BookShape
      <3> QED
        BY <2>4, <3>2 DEF getWriteLock_regWait, Book, At, Goto, Shape, PCs,
           ReadPCs, WritePCs, TryPCs, ReleasePCs, Modes, nodeVars, procVars,
           mgrVars
    <2>5. CASE getWriteLock_wait(t)
      BY <2>5 DEF getWriteLock_wait, Sleep, cond_wait, mutex_unlock, At, Goto,
         Shape, PCs, ReadPCs, WritePCs, TryPCs, ReleasePCs, Modes, nodeVars,
         srcVars, threadVars, procVars, mgrVars
    <2>6. CASE getWriteLock_enter(t)
      BY <2>6 DEF getWriteLock_enter, CountWrite, At, Goto, Shape, PCs,
         ReadPCs, WritePCs, TryPCs, ReleasePCs, Modes, nodeVars, srcVars,
         threadVars, procVars, mgrVars
    <2>7. CASE getWriteLock_decWait(t)
      BY <2>7 DEF getWriteLock_decWait, CountWait, At, Goto, Shape, PCs,
         ReadPCs, WritePCs, TryPCs, ReleasePCs, Modes, nodeVars, srcVars,
         threadVars, procVars, mgrVars
    <2>8. CASE getWriteLock_unregWait(t)
      <3>1. cur[t] \in Sids /\ unlockWWaitSrc(t, cur[t])
        BY <2>8 DEF getWriteLock_unregWait, Book, Shape
      <3>2. /\ rcount' \in [Threads -> [Sids -> Int]]
            /\ wcount' \in [Threads -> [Sids -> Int]]
            /\ wwait' \in [Threads -> [Sids -> Int]]
        BY <3>1, BookShape
      <3> QED
        BY <2>8, <3>2 DEF getWriteLock_unregWait, Book, At, Goto, Shape, PCs,
           ReadPCs, WritePCs, TryPCs, ReleasePCs, Modes, nodeVars, procVars,
           mgrVars
    <2>9. CASE getWriteLock_reg(t)
      <3>1. cur[t] \in Sids /\ lockWdSrc(t, cur[t])
        BY <2>9 DEF getWriteLock_reg, Book, Shape
      <3>2. /\ rcount' \in [Threads -> [Sids -> Int]]
            /\ wcount' \in [Threads -> [Sids -> Int]]
            /\ wwait' \in [Threads -> [Sids -> Int]]
        BY <3>1, BookShape
      <3> QED
        BY <2>9, <3>2 DEF getWriteLock_reg, Book, At, Goto, Shape, PCs,
           ReadPCs, WritePCs, TryPCs, ReleasePCs, Modes, nodeVars, procVars,
           mgrVars
    <2>10. CASE getReadLockNoWait_refuse(t)
      BY <2>10 DEF getReadLockNoWait_refuse, DropMutex, mutex_unlock, At,
         Goto, Shape, PCs, ReadPCs, WritePCs, TryPCs, ReleasePCs, Modes,
         nodeVars, srcVars, threadVars, procVars, mgrVars
    <2>11. CASE getReadLockNoWait_enter(t)
      BY <2>11 DEF getReadLockNoWait_enter, CountRead, At, Goto, Shape, PCs,
         ReadPCs, WritePCs, TryPCs, ReleasePCs, Modes, nodeVars, srcVars,
         threadVars, procVars, mgrVars
    <2>12. CASE getReadLockNoWait_reg(t)
      <3>1. cur[t] \in Sids /\ lockRdSrc(t, cur[t])
        BY <2>12 DEF getReadLockNoWait_reg, Book, Shape
      <3>2. /\ rcount' \in [Threads -> [Sids -> Int]]
            /\ wcount' \in [Threads -> [Sids -> Int]]
            /\ wwait' \in [Threads -> [Sids -> Int]]
        BY <3>1, BookShape
      <3> QED
        BY <2>12, <3>2 DEF getReadLockNoWait_reg, Book, At, Goto, Shape, PCs,
           ReadPCs, WritePCs, TryPCs, ReleasePCs, Modes, nodeVars, procVars,
           mgrVars
    <2>13. CASE getWriteLockNoWait_refuse(t)
      BY <2>13 DEF getWriteLockNoWait_refuse, DropMutex, mutex_unlock, At,
         Goto, Shape, PCs, ReadPCs, WritePCs, TryPCs, ReleasePCs, Modes,
         nodeVars, srcVars, threadVars, procVars, mgrVars
    <2>14. CASE getWriteLockNoWait_enter(t)
      BY <2>14 DEF getWriteLockNoWait_enter, CountWrite, At, Goto, Shape, PCs,
         ReadPCs, WritePCs, TryPCs, ReleasePCs, Modes, nodeVars, srcVars,
         threadVars, procVars, mgrVars
    <2>15. CASE getWriteLockNoWait_reg(t)
      <3>1. cur[t] \in Sids /\ lockWdSrc(t, cur[t])
        BY <2>15 DEF getWriteLockNoWait_reg, Book, Shape
      <3>2. /\ rcount' \in [Threads -> [Sids -> Int]]
            /\ wcount' \in [Threads -> [Sids -> Int]]
            /\ wwait' \in [Threads -> [Sids -> Int]]
        BY <3>1, BookShape
      <3> QED
        BY <2>15, <3>2 DEF getWriteLockNoWait_reg, Book, At, Goto, Shape, PCs,
           ReadPCs, WritePCs, TryPCs, ReleasePCs, Modes, nodeVars, procVars,
           mgrVars
    <2>16. CASE releaseReadLock_dec(t)
      BY <2>16 DEF releaseReadLock_dec, CountRead, At, Goto, Shape, PCs,
         ReadPCs, WritePCs, TryPCs, ReleasePCs, Modes, nodeVars, srcVars,
         threadVars, procVars, mgrVars
    <2>17. CASE releaseReadLock_reset(t)
      BY <2>17 DEF releaseReadLock_reset, CountRead, At, Goto, Shape, PCs,
         ReadPCs, WritePCs, TryPCs, ReleasePCs, Modes, nodeVars, srcVars,
         threadVars, procVars, mgrVars
    <2>18. CASE releaseReadLock_throw(t)
      <3>1. cur[t] \in Sids /\ unlockRdSrc(t, cur[t])
        BY <2>18 DEF releaseReadLock_throw, Book, Shape
      <3>2. /\ rcount' \in [Threads -> [Sids -> Int]]
            /\ wcount' \in [Threads -> [Sids -> Int]]
            /\ wwait' \in [Threads -> [Sids -> Int]]
        BY <3>1, BookShape
      <3> QED
        BY <2>18, <3>2 DEF releaseReadLock_throw, Book, At, Goto, Shape, PCs,
           ReadPCs, WritePCs, TryPCs, ReleasePCs, Modes, nodeVars, procVars,
           mgrVars
    <2>19. CASE releaseReadLock_last(t)
      BY <2>19 DEF releaseReadLock_last, Broadcast, cond_broadcast, At, Goto,
         Shape, PCs, ReadPCs, WritePCs, TryPCs, ReleasePCs, Modes, nodeVars,
         srcVars, threadVars, procVars, mgrVars
    <2>20. CASE releaseReadLock_more(t)
      BY <2>20 DEF releaseReadLock_more, DropMutex, mutex_unlock, At, Goto,
         Shape, PCs, ReadPCs, WritePCs, TryPCs, ReleasePCs, Modes, nodeVars,
         srcVars, threadVars, procVars, mgrVars
    <2>21. CASE releaseReadLock_unlock(t)
      BY <2>21 DEF releaseReadLock_unlock, DropMutex, mutex_unlock, At, Goto,
         Shape, PCs, ReadPCs, WritePCs, TryPCs, ReleasePCs, Modes, nodeVars,
         srcVars, threadVars, procVars, mgrVars
    <2>22. CASE releaseReadLock_unreg(t)
      <3>1. cur[t] \in Sids /\ unlockRdSrc(t, cur[t])
        BY <2>22 DEF releaseReadLock_unreg, Book, Shape
      <3>2. /\ rcount' \in [Threads -> [Sids -> Int]]
            /\ wcount' \in [Threads -> [Sids -> Int]]
            /\ wwait' \in [Threads -> [Sids -> Int]]
        BY <3>1, BookShape
      <3> QED
        BY <2>22, <3>2 DEF releaseReadLock_unreg, Book, At, Goto, Shape, PCs,
           ReadPCs, WritePCs, TryPCs, ReleasePCs, Modes, nodeVars, procVars,
           mgrVars
    <2>23. CASE releaseWriteLock_dec(t)
      BY <2>23 DEF releaseWriteLock_dec, CountWrite, At, Goto, Shape, PCs,
         ReadPCs, WritePCs, TryPCs, ReleasePCs, Modes, nodeVars, srcVars,
         threadVars, procVars, mgrVars
    <2>24. CASE releaseWriteLock_reset(t)
      BY <2>24 DEF releaseWriteLock_reset, CountWrite, At, Goto, Shape, PCs,
         ReadPCs, WritePCs, TryPCs, ReleasePCs, Modes, nodeVars, srcVars,
         threadVars, procVars, mgrVars
    <2>25. CASE releaseWriteLock_last(t)
      BY <2>25 DEF releaseWriteLock_last, Broadcast, cond_broadcast, At, Goto,
         Shape, PCs, ReadPCs, WritePCs, TryPCs, ReleasePCs, Modes, nodeVars,
         srcVars, threadVars, procVars, mgrVars
    <2>26. CASE releaseWriteLock_unreg(t)
      <3>1. cur[t] \in Sids /\ unlockWdSrc(t, cur[t])
        BY <2>26 DEF releaseWriteLock_unreg, Book, Shape
      <3>2. /\ rcount' \in [Threads -> [Sids -> Int]]
            /\ wcount' \in [Threads -> [Sids -> Int]]
            /\ wwait' \in [Threads -> [Sids -> Int]]
        BY <3>1, BookShape
      <3>3. pc' \in [Threads -> PCs]
        BY <2>26 DEF releaseWriteLock_unreg, Book, Goto, Shape, PCs
      <3>4. UNCHANGED <<nodeVars, cur, mode, procVars, mgrVars>>
        BY <2>26 DEF releaseWriteLock_unreg, Book
      <3> QED BY <3>2, <3>3, <3>4 DEF Shape, nodeVars, procVars, mgrVars
    <2>27. CASE unlock_return(t)
      BY <2>27 DEF unlock_return, DropMutex, mutex_unlock, At, Goto, Shape,
         PCs, ReadPCs, WritePCs, TryPCs, ReleasePCs, Modes, nodeVars, srcVars,
         threadVars, procVars, mgrVars
    <2> QED
      BY <2>1, <2>2, <2>3, <2>4, <2>5, <2>6, <2>7, <2>8, <2>9, <2>10, <2>11,
         <2>12, <2>13, <2>14, <2>15, <2>16, <2>17, <2>18, <2>19, <2>20, <2>21,
         <2>22, <2>23, <2>24, <2>25, <2>26, <2>27 DEF Proceed
  <1>4. CASE \E t \in Threads : SpuriousWake(t) \/ Kill(t) \/ FindSlot(t)
    <2> PICK t \in Threads : SpuriousWake(t) \/ Kill(t) \/ FindSlot(t)
      BY <1>4
    <2>1. CASE SpuriousWake(t)
      BY <2>1 DEF SpuriousWake, Shape, PCs, ReadPCs, WritePCs, TryPCs,
         ReleasePCs, Modes, nodeVars, srcVars, threadVars, procVars, mgrVars
    <2>2. CASE Kill(t)
      BY <2>2 DEF Kill, Shape, PCs, ReadPCs, WritePCs, TryPCs, ReleasePCs,
         Modes, nodeVars, srcVars, threadVars, procVars, mgrVars
    <2>3. CASE setThreadSrcPos_lock(t)
      BY <2>3, TableUpdate DEF setThreadSrcPos_lock, Node0Free, Goto, Shape,
         PCs, StartPCs, ReadPCs, WritePCs, TryPCs, ReleasePCs, Modes,
         nodeVars, srcVars, threadVars, procVars, mgrVars
    <2>4. CASE setThreadSrcPos_take(t)
      BY <2>4, TableUpdate DEF setThreadSrcPos_take, ClearSlot, At, Goto,
         Shape, PCs, StartPCs, ReadPCs, WritePCs, TryPCs, ReleasePCs, Modes,
         nodeVars, srcVars, threadVars, procVars, mgrVars
    <2>5. CASE getThreadSrcPos_lock(t)
      BY <2>5, TableUpdate DEF getThreadSrcPos_lock, Node0Free, At, Goto,
         Shape, PCs, StartPCs, ReadPCs, WritePCs, TryPCs, ReleasePCs, Modes,
         nodeVars, srcVars, threadVars, procVars, mgrVars
    <2>6. CASE threadSrcPos_unlock(t)
      BY <2>6, TableUpdate DEF threadSrcPos_unlock, At, Goto, Shape, PCs,
         StartPCs, ReadPCs, WritePCs, TryPCs, ReleasePCs, Modes, nodeVars,
         srcVars, threadVars, procVars, mgrVars
    <2> QED BY <2>1, <2>2, <2>3, <2>4, <2>5, <2>6 DEF FindSlot
  <1>5. CASE \E s \in Sids : rollbackSrc(s)
    <2> PICK s \in Sids : rollbackSrc(s)
      BY <1>5
    <2>1. CASE rollbackSrc_read(s)
      <3>1. victim \in Threads /\ rcount' = [rcount EXCEPT ![victim][s] = @ + (-1)]
        BY <2>1 DEF rollbackSrc_read, Add, Shape
      <3>2. rcount' \in [Threads -> [Sids -> Int]]
        BY <3>1, TableUpdate DEF Shape
      <3>3. rdCount' \in [Sids -> Int]
        BY <2>1 DEF rollbackSrc_read, GiveBack, Shape
      <3>4. waiters' \in [Sids -> SUBSET Threads] /\ orphans' \in [Sids -> SUBSET Threads]
        BY <2>1, WakeupShape DEF rollbackSrc_read, Shape
      <3> QED
        BY <2>1, <3>2, <3>3, <3>4 DEF rollbackSrc_read, Shape, threadVars,
           procVars
    <2>2. CASE rollbackSrc_write(s)
      <3>1. victim \in Threads /\ wcount' = [wcount EXCEPT ![victim][s] = @ + (-1)]
        BY <2>2 DEF rollbackSrc_write, Add, Shape
      <3>2. wcount' \in [Threads -> [Sids -> Int]]
        BY <3>1, TableUpdate DEF Shape
      <3>3. wtCount' \in [Sids -> Int]
        BY <2>2 DEF rollbackSrc_write, GiveBack, Shape
      <3>4. waiters' \in [Sids -> SUBSET Threads] /\ orphans' \in [Sids -> SUBSET Threads]
        BY <2>2, WakeupShape DEF rollbackSrc_write, Shape
      <3> QED
        BY <2>2, <3>2, <3>3, <3>4 DEF rollbackSrc_write, Shape, threadVars,
           procVars
    <2>3. CASE rollbackSrc_wait(s)
      <3>1. victim \in Threads /\ wwait' = [wwait EXCEPT ![victim][s] = @ + (-1)]
        BY <2>3 DEF rollbackSrc_wait, Add, Shape
      <3>2. wwait' \in [Threads -> [Sids -> Int]]
        BY <3>1, TableUpdate DEF Shape
      <3>3. wtWait' \in [Sids -> Int]
        BY <2>3 DEF rollbackSrc_wait, GiveBack, Shape
      <3>4. waiters' \in [Sids -> SUBSET Threads] /\ orphans' \in [Sids -> SUBSET Threads]
        BY <2>3, WakeupShape DEF rollbackSrc_wait, Shape
      <3> QED
        BY <2>3, <3>2, <3>3, <3>4 DEF rollbackSrc_wait, Shape, threadVars,
           procVars
    <2>4. CASE rollbackSrc_force(s)
      BY <2>4 DEF rollbackSrc_force, mutex_unlock, InUse, Shape, PCs, ReadPCs,
         WritePCs, TryPCs, ReleasePCs, Modes, nodeVars, srcVars, threadVars,
         procVars, mgrVars
    <2>5. CASE rollbackSrc_retry(s)
      BY <2>5 DEF rollbackSrc_retry, InUse, Shape, PCs, ReadPCs, WritePCs,
         TryPCs, ReleasePCs, Modes, nodeVars, srcVars, threadVars, procVars,
         mgrVars
    <2> QED BY <2>1, <2>2, <2>3, <2>4, <2>5 DEF rollbackSrc
  <1>6. CASE getExitProcessInfo
    BY <1>6 DEF getExitProcessInfo, Shape, PCs, ReadPCs, WritePCs, TryPCs,
       ReleasePCs, Modes, nodeVars, srcVars, threadVars, procVars, mgrVars
  <1>7. CASE rollbackSrc_begin
    BY <1>7 DEF rollbackSrc_begin, Node0Free, Shape, PCs, ReadPCs, WritePCs, TryPCs,
       ReleasePCs, Modes, nodeVars, srcVars, threadVars, procVars, mgrVars
  <1>8. CASE rollbackSrc_end
    BY <1>8, TableUpdate DEF rollbackSrc_end, ClearSlot, InUse, Shape, PCs,
       ReadPCs, WritePCs, TryPCs, ReleasePCs, Modes, nodeVars, srcVars,
       threadVars, procVars, mgrVars
  <1>9. CASE UNCHANGED vars
    BY <1>9 DEF vars, Shape, PCs, ReadPCs, WritePCs, TryPCs, ReleasePCs,
       Modes, nodeVars, srcVars, threadVars, procVars, mgrVars
  <1>10. CASE rollbackSrc_force0
    BY <1>10 DEF rollbackSrc_force0, Shape, PCs, ReadPCs, WritePCs, TryPCs,
       ReleasePCs, Modes, nodeVars, srcVars, threadVars, procVars, mgrVars
  <1> QED
    BY <1>1, <1>2, <1>3, <1>4, <1>5, <1>6, <1>7, <1>8, <1>9, <1>10
    DEF Next, Manager

LEMMA OwnershipStep ==
    ASSUME Shape, Ownership, Timely, [Next]_vars
    PROVE  Ownership'
  <1>1. CASE \E t \in Threads : Request(t) \/ Release(t)
    <2> SUFFICES ASSUME NEW t \in Threads, NEW s \in Sids,
                        \/ getReadLock_call(t, s)
                        \/ getWriteLock_call(t, s)
                        \/ getReadLockNoWait_call(t, s)
                        \/ getWriteLockNoWait_call(t, s)
                        \/ releaseReadLock_call(t, s)
                        \/ releaseWriteLock_call(t, s)
                 PROVE  Ownership'
      BY <1>1 DEF Request, Release
    <2>1. CASE getReadLock_call(t, s)
      BY <2>1 DEF getReadLock_call, Call, At, Goto, lockRdSrc, Add, Shape,
         Ownership, LockedPCs, nodeVars, srcVars, threadVars, procVars,
         mgrVars
    <2>2. CASE getWriteLock_call(t, s)
      BY <2>2 DEF getWriteLock_call, Call, At, Goto, Shape, Ownership,
         LockedPCs, nodeVars, srcVars, threadVars, procVars, mgrVars
    <2>3. CASE getReadLockNoWait_call(t, s)
      BY <2>3, ThreadsAssumption DEF getReadLockNoWait_call, Call, At, Goto,
         mutex_lock, Shape, Ownership, LockedPCs, nodeVars, srcVars,
         threadVars, procVars, mgrVars
    <2>4. CASE getWriteLockNoWait_call(t, s)
      BY <2>4, ThreadsAssumption DEF getWriteLockNoWait_call, Call, At, Goto,
         mutex_lock, Shape, Ownership, LockedPCs, nodeVars, srcVars,
         threadVars, procVars, mgrVars
    <2>5. CASE releaseReadLock_call(t, s)
      BY <2>5 DEF releaseReadLock_call, Call, At, Goto, Shape, Ownership,
         LockedPCs, nodeVars, srcVars, threadVars, procVars, mgrVars
    <2>6. CASE releaseWriteLock_call(t, s)
      BY <2>6 DEF releaseWriteLock_call, Call, At, Goto, Shape, Ownership,
         LockedPCs, nodeVars, srcVars, threadVars, procVars, mgrVars
    <2> QED BY <2>1, <2>2, <2>3, <2>4, <2>5, <2>6
  <1>2. CASE \E t \in Threads : Acquire(t)
    <2> PICK t \in Threads : Acquire(t)
      BY <1>2
    <2>1. CASE getReadLock_lock(t)
      BY <2>1, ThreadsAssumption DEF getReadLock_lock, TakeMutex, mutex_lock,
         At, Goto, Shape, Ownership, LockedPCs, nodeVars, srcVars, threadVars,
         procVars, mgrVars
    <2>2. CASE getReadLock_wake(t)
      BY <2>2, ThreadsAssumption DEF getReadLock_wake, Rewaken, TakeMutex,
         mutex_lock, At, Goto, Shape, Ownership, LockedPCs, nodeVars, srcVars,
         threadVars, procVars, mgrVars
    <2>3. CASE getWriteLock_lock(t)
      BY <2>3, ThreadsAssumption DEF getWriteLock_lock, TakeMutex, mutex_lock,
         At, Goto, Shape, Ownership, LockedPCs, nodeVars, srcVars, threadVars,
         procVars, mgrVars
    <2>4. CASE getWriteLock_wake(t)
      BY <2>4, ThreadsAssumption DEF getWriteLock_wake, Rewaken, TakeMutex,
         mutex_lock, At, Goto, Shape, Ownership, LockedPCs, nodeVars, srcVars,
         threadVars, procVars, mgrVars
    <2>5. CASE releaseReadLock_lock(t)
      BY <2>5, ThreadsAssumption DEF releaseReadLock_lock, TakeMutex,
         mutex_lock, At, Goto, Shape, Ownership, LockedPCs, nodeVars, srcVars,
         threadVars, procVars, mgrVars
    <2>6. CASE releaseWriteLock_lock(t)
      BY <2>6, ThreadsAssumption DEF releaseWriteLock_lock, TakeMutex,
         mutex_lock, At, Goto, Shape, Ownership, LockedPCs, nodeVars, srcVars,
         threadVars, procVars, mgrVars
    <2> QED
      BY <2>1, <2>2, <2>3, <2>4, <2>5, <2>6 DEF Acquire
  <1>3. CASE \E t \in Threads : Proceed(t)
    <2> PICK t \in Threads : Proceed(t)
      BY <1>3
    <2>1. CASE getReadLock_wait(t)
      BY <2>1 DEF getReadLock_wait, Sleep, cond_wait, mutex_unlock, At, Goto,
         Shape, Ownership, LockedPCs, nodeVars, srcVars, threadVars, procVars,
         mgrVars
    <2>2. CASE getReadLock_enter(t)
      BY <2>2 DEF getReadLock_enter, CountRead, At, Goto, Shape, Ownership,
         LockedPCs, nodeVars, srcVars, threadVars, procVars, mgrVars
    <2>3. CASE getWriteLock_incWait(t)
      BY <2>3 DEF getWriteLock_incWait, CountWait, At, Goto, Shape, Ownership,
         LockedPCs, nodeVars, srcVars, threadVars, procVars, mgrVars
    <2>4. CASE getWriteLock_regWait(t)
      BY <2>4 DEF getWriteLock_regWait, Book, At, Goto, lockWWaitSrc, Add,
         Shape, Ownership, LockedPCs, nodeVars, srcVars, threadVars, procVars,
         mgrVars
    <2>5. CASE getWriteLock_wait(t)
      BY <2>5 DEF getWriteLock_wait, Sleep, cond_wait, mutex_unlock, At, Goto,
         Shape, Ownership, LockedPCs, nodeVars, srcVars, threadVars, procVars,
         mgrVars
    <2>6. CASE getWriteLock_enter(t)
      BY <2>6 DEF getWriteLock_enter, CountWrite, At, Goto, Shape, Ownership,
         LockedPCs, nodeVars, srcVars, threadVars, procVars, mgrVars
    <2>7. CASE getWriteLock_decWait(t)
      BY <2>7 DEF getWriteLock_decWait, CountWait, At, Goto, Shape, Ownership,
         LockedPCs, nodeVars, srcVars, threadVars, procVars, mgrVars
    <2>8. CASE getWriteLock_unregWait(t)
      BY <2>8 DEF getWriteLock_unregWait, Book, At, Goto, unlockWWaitSrc,
         Leave, Add, Wipe, Shape, Ownership, LockedPCs, nodeVars, srcVars,
         threadVars, procVars, mgrVars
    <2>9. CASE getWriteLock_reg(t)
      BY <2>9 DEF getWriteLock_reg, Book, At, Goto, lockWdSrc, Add, Shape,
         Ownership, LockedPCs, nodeVars, srcVars, threadVars, procVars,
         mgrVars
    <2>10. CASE getReadLockNoWait_refuse(t)
      BY <2>10 DEF getReadLockNoWait_refuse, DropMutex, mutex_unlock, At,
         Goto, Shape, Ownership, LockedPCs, nodeVars, srcVars, threadVars,
         procVars, mgrVars
    <2>11. CASE getReadLockNoWait_enter(t)
      BY <2>11 DEF getReadLockNoWait_enter, CountRead, At, Goto, Shape,
         Ownership, LockedPCs, nodeVars, srcVars, threadVars, procVars,
         mgrVars
    <2>12. CASE getReadLockNoWait_reg(t)
      BY <2>12 DEF getReadLockNoWait_reg, Book, At, Goto, lockRdSrc, Add,
         Shape, Ownership, LockedPCs, nodeVars, srcVars, threadVars, procVars,
         mgrVars
    <2>13. CASE getWriteLockNoWait_refuse(t)
      BY <2>13 DEF getWriteLockNoWait_refuse, DropMutex, mutex_unlock, At,
         Goto, Shape, Ownership, LockedPCs, nodeVars, srcVars, threadVars,
         procVars, mgrVars
    <2>14. CASE getWriteLockNoWait_enter(t)
      BY <2>14 DEF getWriteLockNoWait_enter, CountWrite, At, Goto, Shape,
         Ownership, LockedPCs, nodeVars, srcVars, threadVars, procVars,
         mgrVars
    <2>15. CASE getWriteLockNoWait_reg(t)
      BY <2>15 DEF getWriteLockNoWait_reg, Book, At, Goto, lockWdSrc, Add,
         Shape, Ownership, LockedPCs, nodeVars, srcVars, threadVars, procVars,
         mgrVars
    <2>16. CASE releaseReadLock_dec(t)
      BY <2>16 DEF releaseReadLock_dec, CountRead, At, Goto, Shape, Ownership,
         LockedPCs, nodeVars, srcVars, threadVars, procVars, mgrVars
    <2>17. CASE releaseReadLock_reset(t)
      BY <2>17 DEF releaseReadLock_reset, CountRead, At, Goto, Shape,
         Ownership, LockedPCs, nodeVars, srcVars, threadVars, procVars,
         mgrVars
    <2>18. CASE releaseReadLock_throw(t)
      BY <2>18 DEF releaseReadLock_throw, Book, At, Goto, unlockRdSrc, Leave,
         Add, Wipe, Shape, Ownership, LockedPCs, nodeVars, srcVars,
         threadVars, procVars, mgrVars
    <2>19. CASE releaseReadLock_last(t)
      BY <2>19 DEF releaseReadLock_last, Broadcast, cond_broadcast, At, Goto,
         Shape, Ownership, LockedPCs, nodeVars, srcVars, threadVars, procVars,
         mgrVars
    <2>20. CASE releaseReadLock_more(t)
      BY <2>20 DEF releaseReadLock_more, DropMutex, mutex_unlock, At, Goto,
         Shape, Ownership, LockedPCs, nodeVars, srcVars, threadVars, procVars,
         mgrVars
    <2>21. CASE releaseReadLock_unlock(t)
      BY <2>21 DEF releaseReadLock_unlock, DropMutex, mutex_unlock, At, Goto,
         Shape, Ownership, LockedPCs, nodeVars, srcVars, threadVars, procVars,
         mgrVars
    <2>22. CASE releaseReadLock_unreg(t)
      BY <2>22 DEF releaseReadLock_unreg, Book, At, Goto, unlockRdSrc, Leave,
         Add, Wipe, Shape, Ownership, LockedPCs, nodeVars, srcVars,
         threadVars, procVars, mgrVars
    <2>23. CASE releaseWriteLock_dec(t)
      BY <2>23 DEF releaseWriteLock_dec, CountWrite, At, Goto, Shape,
         Ownership, LockedPCs, nodeVars, srcVars, threadVars, procVars,
         mgrVars
    <2>24. CASE releaseWriteLock_reset(t)
      BY <2>24 DEF releaseWriteLock_reset, CountWrite, At, Goto, Shape,
         Ownership, LockedPCs, nodeVars, srcVars, threadVars, procVars,
         mgrVars
    <2>25. CASE releaseWriteLock_last(t)
      BY <2>25 DEF releaseWriteLock_last, Broadcast, cond_broadcast, At, Goto,
         Shape, Ownership, LockedPCs, nodeVars, srcVars, threadVars, procVars,
         mgrVars
    <2>26. CASE releaseWriteLock_unreg(t)
      BY <2>26 DEF releaseWriteLock_unreg, Book, At, Goto, unlockWdSrc, Leave,
         Add, Wipe, Shape, Ownership, LockedPCs, nodeVars, srcVars,
         threadVars, procVars, mgrVars
    <2>27. CASE unlock_return(t)
      BY <2>27 DEF unlock_return, DropMutex, mutex_unlock, At, Goto, Shape,
         Ownership, LockedPCs, nodeVars, srcVars, threadVars, procVars,
         mgrVars
    <2> QED
      BY <2>1, <2>2, <2>3, <2>4, <2>5, <2>6, <2>7, <2>8, <2>9, <2>10, <2>11,
         <2>12, <2>13, <2>14, <2>15, <2>16, <2>17, <2>18, <2>19, <2>20, <2>21,
         <2>22, <2>23, <2>24, <2>25, <2>26, <2>27 DEF Proceed
  <1>4. CASE \E t \in Threads : SpuriousWake(t) \/ Kill(t) \/ FindSlot(t)
    <2> PICK t \in Threads : SpuriousWake(t) \/ Kill(t) \/ FindSlot(t)
      BY <1>4
    <2>1. CASE SpuriousWake(t)
      BY <2>1 DEF SpuriousWake, Shape, Ownership, LockedPCs, nodeVars,
         srcVars, threadVars, procVars, mgrVars
    <2>2. CASE Kill(t)
      BY <2>2 DEF Kill, Shape, Ownership, LockedPCs, nodeVars, srcVars,
         threadVars, procVars, mgrVars
    <2>3. CASE setThreadSrcPos_lock(t)
      BY <2>3 DEF setThreadSrcPos_lock, Node0Free, Goto, Shape, Ownership,
         LockedPCs, nodeVars, srcVars, threadVars, procVars, mgrVars
    <2>4. CASE setThreadSrcPos_take(t)
      BY <2>4 DEF setThreadSrcPos_take, ClearSlot, At, Goto, Shape, Ownership,
         LockedPCs, nodeVars, srcVars, threadVars, procVars, mgrVars
    <2>5. CASE getThreadSrcPos_lock(t)
      BY <2>5 DEF getThreadSrcPos_lock, Node0Free, At, Goto, Shape, Ownership,
         LockedPCs, nodeVars, srcVars, threadVars, procVars, mgrVars
    <2>6. CASE threadSrcPos_unlock(t)
      BY <2>6 DEF threadSrcPos_unlock, At, Goto, Shape, Ownership, LockedPCs,
         nodeVars, srcVars, threadVars, procVars, mgrVars
    <2> QED BY <2>1, <2>2, <2>3, <2>4, <2>5, <2>6 DEF FindSlot
  <1>5. CASE \E s \in Sids : rollbackSrc(s)
    <2> PICK s \in Sids : rollbackSrc(s)
      BY <1>5
    <2>1. CASE rollbackSrc_read(s)
      BY <2>1 DEF rollbackSrc_read, GiveBack, Wakeup, cond_init,
         cond_broadcast, Add, Shape, Ownership, LockedPCs, nodeVars, srcVars,
         threadVars, procVars, mgrVars
    <2>2. CASE rollbackSrc_write(s)
      BY <2>2 DEF rollbackSrc_write, GiveBack, Wakeup, cond_init,
         cond_broadcast, Add, Shape, Ownership, LockedPCs, nodeVars, srcVars,
         threadVars, procVars, mgrVars
    <2>3. CASE rollbackSrc_wait(s)
      BY <2>3 DEF rollbackSrc_wait, GiveBack, Wakeup, cond_init,
         cond_broadcast, Add, Shape, Ownership, LockedPCs, nodeVars, srcVars,
         threadVars, procVars, mgrVars
    <2>4. CASE rollbackSrc_force(s)
      BY <2>4 DEF rollbackSrc_force, Unchanging, Timely, mutex_unlock, InUse,
         Shape, Ownership,
         LockedPCs, nodeVars, srcVars, threadVars, procVars, mgrVars
    <2>5. CASE rollbackSrc_retry(s)
      BY <2>5 DEF rollbackSrc_retry, InUse, Shape, Ownership, LockedPCs,
         nodeVars, srcVars, threadVars, procVars, mgrVars
    <2> QED BY <2>1, <2>2, <2>3, <2>4, <2>5 DEF rollbackSrc
  <1>6. CASE getExitProcessInfo
    BY <1>6 DEF getExitProcessInfo, Shape, Ownership, LockedPCs, nodeVars,
       srcVars, threadVars, procVars, mgrVars
  <1>7. CASE rollbackSrc_begin
    BY <1>7 DEF rollbackSrc_begin, Node0Free, Shape, Ownership, LockedPCs, nodeVars,
       srcVars, threadVars, procVars, mgrVars
  <1>8. CASE rollbackSrc_end
    BY <1>8 DEF rollbackSrc_end, ClearSlot, InUse, Shape, Ownership,
       LockedPCs, nodeVars, srcVars, threadVars, procVars, mgrVars
  <1>9. CASE UNCHANGED vars
    BY <1>9 DEF vars, Shape, Ownership, LockedPCs, nodeVars, srcVars,
       threadVars, procVars, mgrVars
  <1>10. CASE rollbackSrc_force0
    BY <1>10 DEF rollbackSrc_force0, Shape, Ownership, LockedPCs, nodeVars,
       srcVars, threadVars, procVars, mgrVars
  <1> QED
    BY <1>1, <1>2, <1>3, <1>4, <1>5, <1>6, <1>7, <1>8, <1>9, <1>10
    DEF Next, Manager
==============================================================================
