------------------------ MODULE MutexDoubleLockSafety ------------------------
(***************************************************************************)
(* The safety of MutexDoubleLock, for any set of threads and of locks,     *)
(* when processes are killed at CleanPCs only and a slot has room for      *)
(* every source.                                                           *)
(***************************************************************************)
EXTENDS MutexDoubleLockProofs

-----------------------------------------------------------------------------
(* The control part of the invariant.                                      *)

\* Without orphans a broadcast creates none.
LEMMA BroadcastUnforced ==
    ASSUME Unforced, NEW s \in Sids, cond_broadcast(s)
    PROVE  orphans' = [x \in Sids |-> {}]
  <1>1. PICK o \in SUBSET orphans[s] : orphans' = [orphans EXCEPT ![s] = o]
    BY DEF cond_broadcast
  <1>2. o = {}
    BY <1>1 DEF Unforced
  <1> QED BY <1>1, <1>2 DEF Unforced

LEMMA UnforcedStep ==
    ASSUME Shape, Ownership, Unforced, Lifecycle, CleanKills, Timely,
           [Next]_vars
    PROVE  Unforced'
  <1>1. CASE \E t \in Threads : Request(t) \/ Release(t)
    <2> SUFFICES ASSUME NEW t \in Threads, NEW s \in Sids,
                        \/ getReadLock_call(t, s)
                        \/ getWriteLock_call(t, s)
                        \/ getReadLockNoWait_call(t, s)
                        \/ getWriteLockNoWait_call(t, s)
                        \/ releaseReadLock_call(t, s)
                        \/ releaseWriteLock_call(t, s)
                 PROVE  Unforced'
      BY <1>1 DEF Request, Release
    <2>1. CASE getReadLock_call(t, s)
      BY <2>1, ThreadsAssumption DEF getReadLock_call, Call, At, Goto,
         lockRdSrc, Add, Shape, Ownership, Unforced, LockedPCs, nodeVars,
         srcVars, threadVars, procVars, mgrVars
    <2>2. CASE getWriteLock_call(t, s)
      BY <2>2, ThreadsAssumption DEF getWriteLock_call, Call, At, Goto, Shape,
         Ownership, Unforced, LockedPCs, nodeVars, srcVars, threadVars,
         procVars, mgrVars
    <2>3. CASE getReadLockNoWait_call(t, s)
      BY <2>3, ThreadsAssumption DEF getReadLockNoWait_call, Call, At, Goto,
         mutex_lock, Shape, Ownership, Unforced, LockedPCs, nodeVars, srcVars,
         threadVars, procVars, mgrVars
    <2>4. CASE getWriteLockNoWait_call(t, s)
      BY <2>4, ThreadsAssumption DEF getWriteLockNoWait_call, Call, At, Goto,
         mutex_lock, Shape, Ownership, Unforced, LockedPCs, nodeVars, srcVars,
         threadVars, procVars, mgrVars
    <2>5. CASE releaseReadLock_call(t, s)
      BY <2>5, ThreadsAssumption DEF releaseReadLock_call, Call, At, Goto,
         Shape, Ownership, Unforced, LockedPCs, nodeVars, srcVars, threadVars,
         procVars, mgrVars
    <2>6. CASE releaseWriteLock_call(t, s)
      BY <2>6, ThreadsAssumption DEF releaseWriteLock_call, Call, At, Goto,
         Shape, Ownership, Unforced, LockedPCs, nodeVars, srcVars, threadVars,
         procVars, mgrVars
    <2> QED BY <2>1, <2>2, <2>3, <2>4, <2>5, <2>6
  <1>2. CASE \E t \in Threads : Acquire(t)
    <2> PICK t \in Threads : Acquire(t)
      BY <1>2
    <2>1. CASE getReadLock_lock(t)
      BY <2>1, ThreadsAssumption DEF getReadLock_lock, TakeMutex, mutex_lock,
         At, Goto, Shape, Ownership, Unforced, LockedPCs, nodeVars, srcVars,
         threadVars, procVars, mgrVars
    <2>2. CASE getReadLock_wake(t)
      BY <2>2, ThreadsAssumption DEF getReadLock_wake, Rewaken, TakeMutex,
         mutex_lock, At, Goto, Shape, Ownership, Unforced, LockedPCs,
         nodeVars, srcVars, threadVars, procVars, mgrVars
    <2>3. CASE getWriteLock_lock(t)
      BY <2>3, ThreadsAssumption DEF getWriteLock_lock, TakeMutex, mutex_lock,
         At, Goto, Shape, Ownership, Unforced, LockedPCs, nodeVars, srcVars,
         threadVars, procVars, mgrVars
    <2>4. CASE getWriteLock_wake(t)
      BY <2>4, ThreadsAssumption DEF getWriteLock_wake, Rewaken, TakeMutex,
         mutex_lock, At, Goto, Shape, Ownership, Unforced, LockedPCs,
         nodeVars, srcVars, threadVars, procVars, mgrVars
    <2>5. CASE releaseReadLock_lock(t)
      BY <2>5, ThreadsAssumption DEF releaseReadLock_lock, TakeMutex,
         mutex_lock, At, Goto, Shape, Ownership, Unforced, LockedPCs,
         nodeVars, srcVars, threadVars, procVars, mgrVars
    <2>6. CASE releaseWriteLock_lock(t)
      BY <2>6, ThreadsAssumption DEF releaseWriteLock_lock, TakeMutex,
         mutex_lock, At, Goto, Shape, Ownership, Unforced, LockedPCs,
         nodeVars, srcVars, threadVars, procVars, mgrVars
    <2> QED
      BY <2>1, <2>2, <2>3, <2>4, <2>5, <2>6 DEF Acquire
  <1>3. CASE \E t \in Threads : Proceed(t)
    <2> PICK t \in Threads : Proceed(t)
      BY <1>3
    <2>1. CASE getReadLock_wait(t)
      BY <2>1, ThreadsAssumption DEF getReadLock_wait, Sleep, cond_wait,
         mutex_unlock, At, Goto, Shape, Ownership, Unforced, LockedPCs,
         nodeVars, srcVars, threadVars, procVars, mgrVars
    <2>2. CASE getReadLock_enter(t)
      BY <2>2, ThreadsAssumption DEF getReadLock_enter, CountRead, At, Goto,
         Shape, Ownership, Unforced, LockedPCs, nodeVars, srcVars, threadVars,
         procVars, mgrVars
    <2>3. CASE getWriteLock_incWait(t)
      BY <2>3, ThreadsAssumption DEF getWriteLock_incWait, CountWait, At,
         Goto, Shape, Ownership, Unforced, LockedPCs, nodeVars, srcVars,
         threadVars, procVars, mgrVars
    <2>4. CASE getWriteLock_regWait(t)
      BY <2>4, ThreadsAssumption DEF getWriteLock_regWait, Book, At, Goto,
         lockWWaitSrc, Add, Shape, Ownership, Unforced, LockedPCs, nodeVars,
         srcVars, threadVars, procVars, mgrVars
    <2>5. CASE getWriteLock_wait(t)
      BY <2>5, ThreadsAssumption DEF getWriteLock_wait, Sleep, cond_wait,
         mutex_unlock, At, Goto, Shape, Ownership, Unforced, LockedPCs,
         nodeVars, srcVars, threadVars, procVars, mgrVars
    <2>6. CASE getWriteLock_enter(t)
      BY <2>6, ThreadsAssumption DEF getWriteLock_enter, CountWrite, At, Goto,
         Shape, Ownership, Unforced, LockedPCs, nodeVars, srcVars, threadVars,
         procVars, mgrVars
    <2>7. CASE getWriteLock_decWait(t)
      BY <2>7, ThreadsAssumption DEF getWriteLock_decWait, CountWait, At,
         Goto, Shape, Ownership, Unforced, LockedPCs, nodeVars, srcVars,
         threadVars, procVars, mgrVars
    <2>8. CASE getWriteLock_unregWait(t)
      BY <2>8, ThreadsAssumption DEF getWriteLock_unregWait, Book, At, Goto,
         unlockWWaitSrc, Leave, Add, Wipe, Shape, Ownership, Unforced,
         LockedPCs, nodeVars, srcVars, threadVars, procVars, mgrVars
    <2>9. CASE getWriteLock_reg(t)
      BY <2>9, ThreadsAssumption DEF getWriteLock_reg, Book, At, Goto,
         lockWdSrc, Add, Shape, Ownership, Unforced, LockedPCs, nodeVars,
         srcVars, threadVars, procVars, mgrVars
    <2>10. CASE getReadLockNoWait_refuse(t)
      BY <2>10, ThreadsAssumption DEF getReadLockNoWait_refuse, DropMutex,
         mutex_unlock, At, Goto, Shape, Ownership, Unforced, LockedPCs,
         nodeVars, srcVars, threadVars, procVars, mgrVars
    <2>11. CASE getReadLockNoWait_enter(t)
      BY <2>11, ThreadsAssumption DEF getReadLockNoWait_enter, CountRead, At,
         Goto, Shape, Ownership, Unforced, LockedPCs, nodeVars, srcVars,
         threadVars, procVars, mgrVars
    <2>12. CASE getReadLockNoWait_reg(t)
      BY <2>12, ThreadsAssumption DEF getReadLockNoWait_reg, Book, At, Goto,
         lockRdSrc, Add, Shape, Ownership, Unforced, LockedPCs, nodeVars,
         srcVars, threadVars, procVars, mgrVars
    <2>13. CASE getWriteLockNoWait_refuse(t)
      BY <2>13, ThreadsAssumption DEF getWriteLockNoWait_refuse, DropMutex,
         mutex_unlock, At, Goto, Shape, Ownership, Unforced, LockedPCs,
         nodeVars, srcVars, threadVars, procVars, mgrVars
    <2>14. CASE getWriteLockNoWait_enter(t)
      BY <2>14, ThreadsAssumption DEF getWriteLockNoWait_enter, CountWrite,
         At, Goto, Shape, Ownership, Unforced, LockedPCs, nodeVars, srcVars,
         threadVars, procVars, mgrVars
    <2>15. CASE getWriteLockNoWait_reg(t)
      BY <2>15, ThreadsAssumption DEF getWriteLockNoWait_reg, Book, At, Goto,
         lockWdSrc, Add, Shape, Ownership, Unforced, LockedPCs, nodeVars,
         srcVars, threadVars, procVars, mgrVars
    <2>16. CASE releaseReadLock_dec(t)
      BY <2>16, ThreadsAssumption DEF releaseReadLock_dec, CountRead, At,
         Goto, Shape, Ownership, Unforced, LockedPCs, nodeVars, srcVars,
         threadVars, procVars, mgrVars
    <2>17. CASE releaseReadLock_reset(t)
      BY <2>17, ThreadsAssumption DEF releaseReadLock_reset, CountRead, At,
         Goto, Shape, Ownership, Unforced, LockedPCs, nodeVars, srcVars,
         threadVars, procVars, mgrVars
    <2>18. CASE releaseReadLock_throw(t)
      BY <2>18, ThreadsAssumption DEF releaseReadLock_throw, Book, At, Goto,
         unlockRdSrc, Leave, Add, Wipe, Shape, Ownership, Unforced, LockedPCs,
         nodeVars, srcVars, threadVars, procVars, mgrVars
    <2>19. CASE releaseReadLock_last(t)
      <3>1. cond_broadcast(cur[t]) /\ cur[t] \in Sids
        BY <2>19 DEF releaseReadLock_last, Broadcast, Shape
      <3>2. orphans' = [x \in Sids |-> {}]
        BY <3>1, BroadcastUnforced
      <3> QED
        BY <2>19, <3>2, ThreadsAssumption DEF releaseReadLock_last, Broadcast,
           At, Goto, Shape, Unforced, LockedPCs, nodeVars, srcVars,
           threadVars, procVars, mgrVars
    <2>20. CASE releaseReadLock_more(t)
      BY <2>20, ThreadsAssumption DEF releaseReadLock_more, DropMutex,
         mutex_unlock, At, Goto, Shape, Ownership, Unforced, LockedPCs,
         nodeVars, srcVars, threadVars, procVars, mgrVars
    <2>21. CASE releaseReadLock_unlock(t)
      BY <2>21, ThreadsAssumption DEF releaseReadLock_unlock, DropMutex,
         mutex_unlock, At, Goto, Shape, Ownership, Unforced, LockedPCs,
         nodeVars, srcVars, threadVars, procVars, mgrVars
    <2>22. CASE releaseReadLock_unreg(t)
      BY <2>22, ThreadsAssumption DEF releaseReadLock_unreg, Book, At, Goto,
         unlockRdSrc, Leave, Add, Wipe, Shape, Ownership, Unforced, LockedPCs,
         nodeVars, srcVars, threadVars, procVars, mgrVars
    <2>23. CASE releaseWriteLock_dec(t)
      BY <2>23, ThreadsAssumption DEF releaseWriteLock_dec, CountWrite, At,
         Goto, Shape, Ownership, Unforced, LockedPCs, nodeVars, srcVars,
         threadVars, procVars, mgrVars
    <2>24. CASE releaseWriteLock_reset(t)
      BY <2>24, ThreadsAssumption DEF releaseWriteLock_reset, CountWrite, At,
         Goto, Shape, Ownership, Unforced, LockedPCs, nodeVars, srcVars,
         threadVars, procVars, mgrVars
    <2>25. CASE releaseWriteLock_last(t)
      <3>1. cond_broadcast(cur[t]) /\ cur[t] \in Sids
        BY <2>25 DEF releaseWriteLock_last, Broadcast, Shape
      <3>2. orphans' = [x \in Sids |-> {}]
        BY <3>1, BroadcastUnforced
      <3> QED
        BY <2>25, <3>2, ThreadsAssumption DEF releaseWriteLock_last, Broadcast,
           At, Goto, Shape, Unforced, LockedPCs, nodeVars, srcVars,
           threadVars, procVars, mgrVars
    <2>26. CASE releaseWriteLock_unreg(t)
      BY <2>26, ThreadsAssumption DEF releaseWriteLock_unreg, Book, At, Goto,
         unlockWdSrc, Leave, Add, Wipe, Shape, Ownership, Unforced, LockedPCs,
         nodeVars, srcVars, threadVars, procVars, mgrVars
    <2>27. CASE unlock_return(t)
      BY <2>27, ThreadsAssumption DEF unlock_return, DropMutex, mutex_unlock,
         At, Goto, Shape, Ownership, Unforced, LockedPCs, nodeVars, srcVars,
         threadVars, procVars, mgrVars
    <2> QED
      BY <2>1, <2>2, <2>3, <2>4, <2>5, <2>6, <2>7, <2>8, <2>9, <2>10, <2>11,
         <2>12, <2>13, <2>14, <2>15, <2>16, <2>17, <2>18, <2>19, <2>20, <2>21,
         <2>22, <2>23, <2>24, <2>25, <2>26, <2>27 DEF Proceed
  <1>4. CASE \E t \in Threads : SpuriousWake(t) \/ Kill(t) \/ FindSlot(t)
    <2> PICK t \in Threads : SpuriousWake(t) \/ Kill(t) \/ FindSlot(t)
      BY <1>4
    <2>1. CASE SpuriousWake(t)
      BY <2>1, ThreadsAssumption DEF SpuriousWake, Shape, Ownership, Unforced,
         LockedPCs, nodeVars, srcVars, threadVars, procVars, mgrVars
    <2>2. CASE Kill(t)
      BY <2>2, ThreadsAssumption, CleanKills DEF Kill, Shape, Ownership,
         Unforced, LockedPCs, CleanKills, CleanPCs, nodeVars, srcVars,
         threadVars, procVars, mgrVars
    <2>3. CASE setThreadSrcPos_lock(t)
      BY <2>3, ThreadsAssumption DEF setThreadSrcPos_lock, Node0Free, Goto,
         Shape, Ownership, Unforced, LockedPCs, Lifecycle, nodeVars, srcVars,
         threadVars, procVars, mgrVars
    <2>4. CASE setThreadSrcPos_take(t)
      BY <2>4, ThreadsAssumption DEF setThreadSrcPos_take, ClearSlot, At,
         Goto, Shape, Ownership, Unforced, LockedPCs, Lifecycle, nodeVars,
         srcVars, threadVars, procVars, mgrVars
    <2>5. CASE getThreadSrcPos_lock(t)
      BY <2>5, ThreadsAssumption DEF getThreadSrcPos_lock, Node0Free, At,
         Goto, Shape, Ownership, Unforced, LockedPCs, Lifecycle, nodeVars,
         srcVars, threadVars, procVars, mgrVars
    <2>6. CASE threadSrcPos_unlock(t)
      BY <2>6, ThreadsAssumption DEF threadSrcPos_unlock, At, Goto, Shape,
         Ownership, Unforced, LockedPCs, Lifecycle, nodeVars, srcVars,
         threadVars, procVars, mgrVars
    <2> QED BY <2>1, <2>2, <2>3, <2>4, <2>5, <2>6 DEF FindSlot
  <1>5. CASE \E s \in Sids : rollbackSrc(s)
    <2> PICK s \in Sids : rollbackSrc(s)
      BY <1>5
    <2>1. CASE rollbackSrc_read(s)
      <3>1. orphans' = [x \in Sids |-> {}]
        BY <2>1, BroadcastUnforced DEF rollbackSrc_read, Wakeup, Unforced
      <3> QED
        BY <2>1, <3>1 DEF rollbackSrc_read, Unforced, nodeVars, srcVars,
           threadVars, procVars, mgrVars
    <2>2. CASE rollbackSrc_write(s)
      <3>1. orphans' = [x \in Sids |-> {}]
        BY <2>2, BroadcastUnforced DEF rollbackSrc_write, Wakeup, Unforced
      <3> QED
        BY <2>2, <3>1 DEF rollbackSrc_write, Unforced, nodeVars, srcVars,
           threadVars, procVars, mgrVars
    <2>3. CASE rollbackSrc_wait(s)
      <3>1. orphans' = [x \in Sids |-> {}]
        BY <2>3, BroadcastUnforced DEF rollbackSrc_wait, Wakeup, Unforced
      <3> QED
        BY <2>3, <3>1 DEF rollbackSrc_wait, Unforced, nodeVars, srcVars,
           threadVars, procVars, mgrVars
    <2>4. CASE rollbackSrc_force(s)
      BY <2>4, ThreadsAssumption DEF rollbackSrc_force, Unchanging, Timely,
         mutex_unlock, InUse, Shape, Ownership, Unforced, LockedPCs, nodeVars, srcVars, threadVars,
         procVars, mgrVars
    <2>5. CASE rollbackSrc_retry(s)
      BY <2>5, ThreadsAssumption DEF rollbackSrc_retry, InUse, Shape,
         Ownership, Unforced, LockedPCs, nodeVars, srcVars, threadVars,
         procVars, mgrVars
    <2> QED BY <2>1, <2>2, <2>3, <2>4, <2>5 DEF rollbackSrc
  <1>6. CASE getExitProcessInfo
    BY <1>6, ThreadsAssumption DEF getExitProcessInfo, Shape, Ownership,
       Unforced, LockedPCs, nodeVars, srcVars, threadVars, procVars, mgrVars
  <1>7. CASE rollbackSrc_begin
    BY <1>7, ThreadsAssumption DEF rollbackSrc_begin, Node0Free, Shape, Ownership,
       Unforced, LockedPCs, nodeVars, srcVars, threadVars, procVars, mgrVars
  <1>8. CASE rollbackSrc_end
    BY <1>8, ThreadsAssumption DEF rollbackSrc_end, ClearSlot, InUse, Shape,
       Ownership, Unforced, LockedPCs, nodeVars, srcVars, threadVars,
       procVars, mgrVars
  <1>9. CASE UNCHANGED vars
    BY <1>9, ThreadsAssumption DEF vars, Shape, Ownership, Unforced,
       LockedPCs, nodeVars, srcVars, threadVars, procVars, mgrVars
  <1>10. CASE rollbackSrc_force0
    BY <1>10, ThreadsAssumption DEF rollbackSrc_force0, Shape, Ownership,
       Unforced, LockedPCs, nodeVars, srcVars, threadVars, procVars, mgrVars
  <1> QED
    BY <1>1, <1>2, <1>3, <1>4, <1>5, <1>6, <1>7, <1>8, <1>9, <1>10
    DEF Next, Manager

LEMMA LifecycleStep ==
    ASSUME Shape, Lifecycle, [Next]_vars
    PROVE  Lifecycle'
  <1>1. CASE \E t \in Threads : Request(t) \/ Release(t)
    <2> SUFFICES ASSUME NEW t \in Threads, NEW s \in Sids,
                        \/ getReadLock_call(t, s)
                        \/ getWriteLock_call(t, s)
                        \/ getReadLockNoWait_call(t, s)
                        \/ getWriteLockNoWait_call(t, s)
                        \/ releaseReadLock_call(t, s)
                        \/ releaseWriteLock_call(t, s)
                 PROVE  Lifecycle'
      BY <1>1 DEF Request, Release
    <2>1. CASE getReadLock_call(t, s)
      BY <2>1, ThreadsAssumption DEF getReadLock_call, Call, At, Goto,
         lockRdSrc, Add, Shape, Lifecycle, nodeVars, srcVars, threadVars,
         procVars, mgrVars
    <2>2. CASE getWriteLock_call(t, s)
      BY <2>2, ThreadsAssumption DEF getWriteLock_call, Call, At, Goto, Shape,
         Lifecycle, nodeVars, srcVars, threadVars, procVars, mgrVars
    <2>3. CASE getReadLockNoWait_call(t, s)
      BY <2>3, ThreadsAssumption DEF getReadLockNoWait_call, Call, At, Goto,
         mutex_lock, Shape, Lifecycle, nodeVars, srcVars, threadVars,
         procVars, mgrVars
    <2>4. CASE getWriteLockNoWait_call(t, s)
      BY <2>4, ThreadsAssumption DEF getWriteLockNoWait_call, Call, At, Goto,
         mutex_lock, Shape, Lifecycle, nodeVars, srcVars, threadVars,
         procVars, mgrVars
    <2>5. CASE releaseReadLock_call(t, s)
      BY <2>5, ThreadsAssumption DEF releaseReadLock_call, Call, At, Goto,
         Shape, Lifecycle, nodeVars, srcVars, threadVars, procVars, mgrVars
    <2>6. CASE releaseWriteLock_call(t, s)
      BY <2>6, ThreadsAssumption DEF releaseWriteLock_call, Call, At, Goto,
         Shape, Lifecycle, nodeVars, srcVars, threadVars, procVars, mgrVars
    <2> QED BY <2>1, <2>2, <2>3, <2>4, <2>5, <2>6
  <1>2. CASE \E t \in Threads : Acquire(t)
    <2> PICK t \in Threads : Acquire(t)
      BY <1>2
    <2>1. CASE getReadLock_lock(t)
      BY <2>1, ThreadsAssumption DEF getReadLock_lock, TakeMutex, mutex_lock,
         At, Goto, Shape, Lifecycle, nodeVars, srcVars, threadVars, procVars,
         mgrVars
    <2>2. CASE getReadLock_wake(t)
      BY <2>2, ThreadsAssumption DEF getReadLock_wake, Rewaken, TakeMutex,
         mutex_lock, At, Goto, Shape, Lifecycle, nodeVars, srcVars,
         threadVars, procVars, mgrVars
    <2>3. CASE getWriteLock_lock(t)
      BY <2>3, ThreadsAssumption DEF getWriteLock_lock, TakeMutex, mutex_lock,
         At, Goto, Shape, Lifecycle, nodeVars, srcVars, threadVars, procVars,
         mgrVars
    <2>4. CASE getWriteLock_wake(t)
      BY <2>4, ThreadsAssumption DEF getWriteLock_wake, Rewaken, TakeMutex,
         mutex_lock, At, Goto, Shape, Lifecycle, nodeVars, srcVars,
         threadVars, procVars, mgrVars
    <2>5. CASE releaseReadLock_lock(t)
      BY <2>5, ThreadsAssumption DEF releaseReadLock_lock, TakeMutex,
         mutex_lock, At, Goto, Shape, Lifecycle, nodeVars, srcVars,
         threadVars, procVars, mgrVars
    <2>6. CASE releaseWriteLock_lock(t)
      BY <2>6, ThreadsAssumption DEF releaseWriteLock_lock, TakeMutex,
         mutex_lock, At, Goto, Shape, Lifecycle, nodeVars, srcVars,
         threadVars, procVars, mgrVars
    <2> QED
      BY <2>1, <2>2, <2>3, <2>4, <2>5, <2>6 DEF Acquire
  <1>3. CASE \E t \in Threads : Proceed(t)
    <2> PICK t \in Threads : Proceed(t)
      BY <1>3
    <2>1. CASE getReadLock_wait(t)
      BY <2>1, ThreadsAssumption DEF getReadLock_wait, Sleep, cond_wait,
         mutex_unlock, At, Goto, Shape, Lifecycle, nodeVars, srcVars,
         threadVars, procVars, mgrVars
    <2>2. CASE getReadLock_enter(t)
      BY <2>2, ThreadsAssumption DEF getReadLock_enter, CountRead, At, Goto,
         Shape, Lifecycle, nodeVars, srcVars, threadVars, procVars, mgrVars
    <2>3. CASE getWriteLock_incWait(t)
      BY <2>3, ThreadsAssumption DEF getWriteLock_incWait, CountWait, At,
         Goto, Shape, Lifecycle, nodeVars, srcVars, threadVars, procVars,
         mgrVars
    <2>4. CASE getWriteLock_regWait(t)
      BY <2>4, ThreadsAssumption DEF getWriteLock_regWait, Book, At, Goto,
         lockWWaitSrc, Add, Shape, Lifecycle, nodeVars, srcVars, threadVars,
         procVars, mgrVars
    <2>5. CASE getWriteLock_wait(t)
      BY <2>5, ThreadsAssumption DEF getWriteLock_wait, Sleep, cond_wait,
         mutex_unlock, At, Goto, Shape, Lifecycle, nodeVars, srcVars,
         threadVars, procVars, mgrVars
    <2>6. CASE getWriteLock_enter(t)
      BY <2>6, ThreadsAssumption DEF getWriteLock_enter, CountWrite, At, Goto,
         Shape, Lifecycle, nodeVars, srcVars, threadVars, procVars, mgrVars
    <2>7. CASE getWriteLock_decWait(t)
      BY <2>7, ThreadsAssumption DEF getWriteLock_decWait, CountWait, At,
         Goto, Shape, Lifecycle, nodeVars, srcVars, threadVars, procVars,
         mgrVars
    <2>8. CASE getWriteLock_unregWait(t)
      BY <2>8, ThreadsAssumption DEF getWriteLock_unregWait, Book, At, Goto,
         unlockWWaitSrc, Leave, Add, Wipe, Shape, Lifecycle, nodeVars,
         srcVars, threadVars, procVars, mgrVars
    <2>9. CASE getWriteLock_reg(t)
      BY <2>9, ThreadsAssumption DEF getWriteLock_reg, Book, At, Goto,
         lockWdSrc, Add, Shape, Lifecycle, nodeVars, srcVars, threadVars,
         procVars, mgrVars
    <2>10. CASE getReadLockNoWait_refuse(t)
      BY <2>10, ThreadsAssumption DEF getReadLockNoWait_refuse, DropMutex,
         mutex_unlock, At, Goto, Shape, Lifecycle, nodeVars, srcVars,
         threadVars, procVars, mgrVars
    <2>11. CASE getReadLockNoWait_enter(t)
      BY <2>11, ThreadsAssumption DEF getReadLockNoWait_enter, CountRead, At,
         Goto, Shape, Lifecycle, nodeVars, srcVars, threadVars, procVars,
         mgrVars
    <2>12. CASE getReadLockNoWait_reg(t)
      BY <2>12, ThreadsAssumption DEF getReadLockNoWait_reg, Book, At, Goto,
         lockRdSrc, Add, Shape, Lifecycle, nodeVars, srcVars, threadVars,
         procVars, mgrVars
    <2>13. CASE getWriteLockNoWait_refuse(t)
      BY <2>13, ThreadsAssumption DEF getWriteLockNoWait_refuse, DropMutex,
         mutex_unlock, At, Goto, Shape, Lifecycle, nodeVars, srcVars,
         threadVars, procVars, mgrVars
    <2>14. CASE getWriteLockNoWait_enter(t)
      BY <2>14, ThreadsAssumption DEF getWriteLockNoWait_enter, CountWrite,
         At, Goto, Shape, Lifecycle, nodeVars, srcVars, threadVars, procVars,
         mgrVars
    <2>15. CASE getWriteLockNoWait_reg(t)
      BY <2>15, ThreadsAssumption DEF getWriteLockNoWait_reg, Book, At, Goto,
         lockWdSrc, Add, Shape, Lifecycle, nodeVars, srcVars, threadVars,
         procVars, mgrVars
    <2>16. CASE releaseReadLock_dec(t)
      BY <2>16, ThreadsAssumption DEF releaseReadLock_dec, CountRead, At,
         Goto, Shape, Lifecycle, nodeVars, srcVars, threadVars, procVars,
         mgrVars
    <2>17. CASE releaseReadLock_reset(t)
      BY <2>17, ThreadsAssumption DEF releaseReadLock_reset, CountRead, At,
         Goto, Shape, Lifecycle, nodeVars, srcVars, threadVars, procVars,
         mgrVars
    <2>18. CASE releaseReadLock_throw(t)
      BY <2>18, ThreadsAssumption DEF releaseReadLock_throw, Book, At, Goto,
         unlockRdSrc, Leave, Add, Wipe, Shape, Lifecycle, nodeVars, srcVars,
         threadVars, procVars, mgrVars
    <2>19. CASE releaseReadLock_last(t)
      BY <2>19, ThreadsAssumption DEF releaseReadLock_last, Broadcast,
         cond_broadcast, At, Goto, Shape, Lifecycle, nodeVars, srcVars,
         threadVars, procVars, mgrVars
    <2>20. CASE releaseReadLock_more(t)
      BY <2>20, ThreadsAssumption DEF releaseReadLock_more, DropMutex,
         mutex_unlock, At, Goto, Shape, Lifecycle, nodeVars, srcVars,
         threadVars, procVars, mgrVars
    <2>21. CASE releaseReadLock_unlock(t)
      BY <2>21, ThreadsAssumption DEF releaseReadLock_unlock, DropMutex,
         mutex_unlock, At, Goto, Shape, Lifecycle, nodeVars, srcVars,
         threadVars, procVars, mgrVars
    <2>22. CASE releaseReadLock_unreg(t)
      BY <2>22, ThreadsAssumption DEF releaseReadLock_unreg, Book, At, Goto,
         unlockRdSrc, Leave, Add, Wipe, Shape, Lifecycle, nodeVars, srcVars,
         threadVars, procVars, mgrVars
    <2>23. CASE releaseWriteLock_dec(t)
      BY <2>23, ThreadsAssumption DEF releaseWriteLock_dec, CountWrite, At,
         Goto, Shape, Lifecycle, nodeVars, srcVars, threadVars, procVars,
         mgrVars
    <2>24. CASE releaseWriteLock_reset(t)
      BY <2>24, ThreadsAssumption DEF releaseWriteLock_reset, CountWrite, At,
         Goto, Shape, Lifecycle, nodeVars, srcVars, threadVars, procVars,
         mgrVars
    <2>25. CASE releaseWriteLock_last(t)
      BY <2>25, ThreadsAssumption DEF releaseWriteLock_last, Broadcast,
         cond_broadcast, At, Goto, Shape, Lifecycle, nodeVars, srcVars,
         threadVars, procVars, mgrVars
    <2>26. CASE releaseWriteLock_unreg(t)
      BY <2>26, ThreadsAssumption DEF releaseWriteLock_unreg, Book, At, Goto,
         unlockWdSrc, Leave, Add, Wipe, Shape, Lifecycle, nodeVars, srcVars,
         threadVars, procVars, mgrVars
    <2>27. CASE unlock_return(t)
      BY <2>27, ThreadsAssumption DEF unlock_return, DropMutex, mutex_unlock,
         At, Goto, Shape, Lifecycle, nodeVars, srcVars, threadVars, procVars,
         mgrVars
    <2> QED
      BY <2>1, <2>2, <2>3, <2>4, <2>5, <2>6, <2>7, <2>8, <2>9, <2>10, <2>11,
         <2>12, <2>13, <2>14, <2>15, <2>16, <2>17, <2>18, <2>19, <2>20, <2>21,
         <2>22, <2>23, <2>24, <2>25, <2>26, <2>27 DEF Proceed
  <1>4. CASE \E t \in Threads : SpuriousWake(t) \/ Kill(t) \/ FindSlot(t)
    <2> PICK t \in Threads : SpuriousWake(t) \/ Kill(t) \/ FindSlot(t)
      BY <1>4
    <2>1. CASE SpuriousWake(t)
      BY <2>1, ThreadsAssumption DEF SpuriousWake, Shape, Lifecycle, nodeVars,
         srcVars, threadVars, procVars, mgrVars
    <2>2. CASE Kill(t)
      BY <2>2, ThreadsAssumption DEF Kill, Shape, Lifecycle, nodeVars,
         srcVars, threadVars, procVars, mgrVars
    <2>3. CASE setThreadSrcPos_lock(t)
      BY <2>3, ThreadsAssumption DEF setThreadSrcPos_lock, Node0Free, Goto,
         Shape, Lifecycle, nodeVars, srcVars, threadVars, procVars, mgrVars
    <2>4. CASE setThreadSrcPos_take(t)
      BY <2>4, ThreadsAssumption DEF setThreadSrcPos_take, ClearSlot, At,
         Goto, Shape, Lifecycle, nodeVars, srcVars, threadVars, procVars,
         mgrVars
    <2>5. CASE getThreadSrcPos_lock(t)
      BY <2>5, ThreadsAssumption DEF getThreadSrcPos_lock, Node0Free, At,
         Goto, Shape, Lifecycle, nodeVars, srcVars, threadVars, procVars,
         mgrVars
    <2>6. CASE threadSrcPos_unlock(t)
      BY <2>6, ThreadsAssumption DEF threadSrcPos_unlock, At, Goto, Shape,
         Lifecycle, nodeVars, srcVars, threadVars, procVars, mgrVars
    <2> QED BY <2>1, <2>2, <2>3, <2>4, <2>5, <2>6 DEF FindSlot
  <1>5. CASE \E s \in Sids : rollbackSrc(s)
    <2> PICK s \in Sids : rollbackSrc(s)
      BY <1>5
    <2>1. CASE rollbackSrc_read(s)
      BY <2>1, ThreadsAssumption DEF rollbackSrc_read, GiveBack, Wakeup,
         cond_init, cond_broadcast, Add, Shape, Lifecycle, nodeVars, srcVars,
         threadVars, procVars, mgrVars
    <2>2. CASE rollbackSrc_write(s)
      BY <2>2, ThreadsAssumption DEF rollbackSrc_write, GiveBack, Wakeup,
         cond_init, cond_broadcast, Add, Shape, Lifecycle, nodeVars, srcVars,
         threadVars, procVars, mgrVars
    <2>3. CASE rollbackSrc_wait(s)
      BY <2>3, ThreadsAssumption DEF rollbackSrc_wait, GiveBack, Wakeup,
         cond_init, cond_broadcast, Add, Shape, Lifecycle, nodeVars, srcVars,
         threadVars, procVars, mgrVars
    <2>4. CASE rollbackSrc_force(s)
      BY <2>4, ThreadsAssumption DEF rollbackSrc_force, mutex_unlock, InUse,
         Shape, Lifecycle, nodeVars, srcVars, threadVars, procVars, mgrVars
    <2>5. CASE rollbackSrc_retry(s)
      BY <2>5, ThreadsAssumption DEF rollbackSrc_retry, InUse, Shape,
         Lifecycle, nodeVars, srcVars, threadVars, procVars, mgrVars
    <2> QED BY <2>1, <2>2, <2>3, <2>4, <2>5 DEF rollbackSrc
  <1>6. CASE getExitProcessInfo
    BY <1>6, ThreadsAssumption DEF getExitProcessInfo, Shape, Lifecycle,
       nodeVars, srcVars, threadVars, procVars, mgrVars
  <1>7. CASE rollbackSrc_begin
    BY <1>7, ThreadsAssumption DEF rollbackSrc_begin, Node0Free, Shape, Lifecycle,
       nodeVars, srcVars, threadVars, procVars, mgrVars
  <1>8. CASE rollbackSrc_end
    BY <1>8, ThreadsAssumption DEF rollbackSrc_end, ClearSlot, InUse, Shape,
       Lifecycle, nodeVars, srcVars, threadVars, procVars, mgrVars
  <1>9. CASE UNCHANGED vars
    BY <1>9, ThreadsAssumption DEF vars, Shape, Lifecycle, nodeVars, srcVars,
       threadVars, procVars, mgrVars
  <1>10. CASE rollbackSrc_force0
    BY <1>10, ThreadsAssumption DEF rollbackSrc_force0, Shape, Lifecycle,
       nodeVars, srcVars, threadVars, procVars, mgrVars
  <1> QED
    BY <1>1, <1>2, <1>3, <1>4, <1>5, <1>6, <1>7, <1>8, <1>9, <1>10
    DEF Next, Manager

LEMMA ModeOfPCStep ==
    ASSUME Shape, Lifecycle, ModeOfPC, [Next]_vars
    PROVE  ModeOfPC'
  <1>1. CASE \E t \in Threads : Request(t) \/ Release(t)
    <2> SUFFICES ASSUME NEW t \in Threads, NEW s \in Sids,
                        \/ getReadLock_call(t, s)
                        \/ getWriteLock_call(t, s)
                        \/ getReadLockNoWait_call(t, s)
                        \/ getWriteLockNoWait_call(t, s)
                        \/ releaseReadLock_call(t, s)
                        \/ releaseWriteLock_call(t, s)
                 PROVE  ModeOfPC'
      BY <1>1 DEF Request, Release
    <2>1. CASE getReadLock_call(t, s)
      BY <2>1 DEF getReadLock_call, Call, At, Goto, lockRdSrc, Add, Shape,
         Lifecycle, ModeOfPC, UncountedPCs, Modes, nodeVars, srcVars,
         threadVars, procVars, mgrVars
    <2>2. CASE getWriteLock_call(t, s)
      BY <2>2 DEF getWriteLock_call, Call, At, Goto, Shape, Lifecycle,
         ModeOfPC, UncountedPCs, Modes, nodeVars, srcVars, threadVars,
         procVars, mgrVars
    <2>3. CASE getReadLockNoWait_call(t, s)
      BY <2>3 DEF getReadLockNoWait_call, Call, At, Goto, mutex_lock, Shape,
         Lifecycle, ModeOfPC, UncountedPCs, Modes, nodeVars, srcVars,
         threadVars, procVars, mgrVars
    <2>4. CASE getWriteLockNoWait_call(t, s)
      BY <2>4 DEF getWriteLockNoWait_call, Call, At, Goto, mutex_lock, Shape,
         Lifecycle, ModeOfPC, UncountedPCs, Modes, nodeVars, srcVars,
         threadVars, procVars, mgrVars
    <2>5. CASE releaseReadLock_call(t, s)
      BY <2>5 DEF releaseReadLock_call, Call, At, Goto, Shape, Lifecycle,
         ModeOfPC, UncountedPCs, Modes, nodeVars, srcVars, threadVars,
         procVars, mgrVars
    <2>6. CASE releaseWriteLock_call(t, s)
      BY <2>6 DEF releaseWriteLock_call, Call, At, Goto, Shape, Lifecycle,
         ModeOfPC, UncountedPCs, Modes, nodeVars, srcVars, threadVars,
         procVars, mgrVars
    <2> QED BY <2>1, <2>2, <2>3, <2>4, <2>5, <2>6
  <1>2. CASE \E t \in Threads : Acquire(t)
    <2> PICK t \in Threads : Acquire(t)
      BY <1>2
    <2>1. CASE getReadLock_lock(t)
      BY <2>1 DEF getReadLock_lock, TakeMutex, mutex_lock, At, Goto, Shape,
         Lifecycle, ModeOfPC, UncountedPCs, Modes, nodeVars, srcVars,
         threadVars, procVars, mgrVars
    <2>2. CASE getReadLock_wake(t)
      BY <2>2 DEF getReadLock_wake, Rewaken, TakeMutex, mutex_lock, At, Goto,
         Shape, Lifecycle, ModeOfPC, UncountedPCs, Modes, nodeVars, srcVars,
         threadVars, procVars, mgrVars
    <2>3. CASE getWriteLock_lock(t)
      BY <2>3 DEF getWriteLock_lock, TakeMutex, mutex_lock, At, Goto, Shape,
         Lifecycle, ModeOfPC, UncountedPCs, Modes, nodeVars, srcVars,
         threadVars, procVars, mgrVars
    <2>4. CASE getWriteLock_wake(t)
      BY <2>4 DEF getWriteLock_wake, Rewaken, TakeMutex, mutex_lock, At, Goto,
         Shape, Lifecycle, ModeOfPC, UncountedPCs, Modes, nodeVars, srcVars,
         threadVars, procVars, mgrVars
    <2>5. CASE releaseReadLock_lock(t)
      BY <2>5 DEF releaseReadLock_lock, TakeMutex, mutex_lock, At, Goto,
         Shape, Lifecycle, ModeOfPC, UncountedPCs, Modes, nodeVars, srcVars,
         threadVars, procVars, mgrVars
    <2>6. CASE releaseWriteLock_lock(t)
      BY <2>6 DEF releaseWriteLock_lock, TakeMutex, mutex_lock, At, Goto,
         Shape, Lifecycle, ModeOfPC, UncountedPCs, Modes, nodeVars, srcVars,
         threadVars, procVars, mgrVars
    <2> QED
      BY <2>1, <2>2, <2>3, <2>4, <2>5, <2>6 DEF Acquire
  <1>3. CASE \E t \in Threads : Proceed(t)
    <2> PICK t \in Threads : Proceed(t)
      BY <1>3
    <2>1. CASE getReadLock_wait(t)
      BY <2>1 DEF getReadLock_wait, Sleep, cond_wait, mutex_unlock, At, Goto,
         Shape, Lifecycle, ModeOfPC, UncountedPCs, Modes, nodeVars, srcVars,
         threadVars, procVars, mgrVars
    <2>2. CASE getReadLock_enter(t)
      BY <2>2 DEF getReadLock_enter, CountRead, At, Goto, Shape, Lifecycle,
         ModeOfPC, UncountedPCs, Modes, nodeVars, srcVars, threadVars,
         procVars, mgrVars
    <2>3. CASE getWriteLock_incWait(t)
      BY <2>3 DEF getWriteLock_incWait, CountWait, At, Goto, Shape, Lifecycle,
         ModeOfPC, UncountedPCs, Modes, nodeVars, srcVars, threadVars,
         procVars, mgrVars
    <2>4. CASE getWriteLock_regWait(t)
      BY <2>4 DEF getWriteLock_regWait, Book, At, Goto, lockWWaitSrc, Add,
         Shape, Lifecycle, ModeOfPC, UncountedPCs, Modes, nodeVars, srcVars,
         threadVars, procVars, mgrVars
    <2>5. CASE getWriteLock_wait(t)
      BY <2>5 DEF getWriteLock_wait, Sleep, cond_wait, mutex_unlock, At, Goto,
         Shape, Lifecycle, ModeOfPC, UncountedPCs, Modes, nodeVars, srcVars,
         threadVars, procVars, mgrVars
    <2>6. CASE getWriteLock_enter(t)
      BY <2>6 DEF getWriteLock_enter, CountWrite, At, Goto, Shape, Lifecycle,
         ModeOfPC, UncountedPCs, Modes, nodeVars, srcVars, threadVars,
         procVars, mgrVars
    <2>7. CASE getWriteLock_decWait(t)
      BY <2>7 DEF getWriteLock_decWait, CountWait, At, Goto, Shape, Lifecycle,
         ModeOfPC, UncountedPCs, Modes, nodeVars, srcVars, threadVars,
         procVars, mgrVars
    <2>8. CASE getWriteLock_unregWait(t)
      BY <2>8 DEF getWriteLock_unregWait, Book, At, Goto, unlockWWaitSrc,
         Leave, Add, Wipe, Shape, Lifecycle, ModeOfPC, UncountedPCs, Modes,
         nodeVars, srcVars, threadVars, procVars, mgrVars
    <2>9. CASE getWriteLock_reg(t)
      BY <2>9 DEF getWriteLock_reg, Book, At, Goto, lockWdSrc, Add, Shape,
         Lifecycle, ModeOfPC, UncountedPCs, Modes, nodeVars, srcVars,
         threadVars, procVars, mgrVars
    <2>10. CASE getReadLockNoWait_refuse(t)
      BY <2>10 DEF getReadLockNoWait_refuse, DropMutex, mutex_unlock, At,
         Goto, Shape, Lifecycle, ModeOfPC, UncountedPCs, Modes, nodeVars,
         srcVars, threadVars, procVars, mgrVars
    <2>11. CASE getReadLockNoWait_enter(t)
      BY <2>11 DEF getReadLockNoWait_enter, CountRead, At, Goto, Shape,
         Lifecycle, ModeOfPC, UncountedPCs, Modes, nodeVars, srcVars,
         threadVars, procVars, mgrVars
    <2>12. CASE getReadLockNoWait_reg(t)
      BY <2>12 DEF getReadLockNoWait_reg, Book, At, Goto, lockRdSrc, Add,
         Shape, Lifecycle, ModeOfPC, UncountedPCs, Modes, nodeVars, srcVars,
         threadVars, procVars, mgrVars
    <2>13. CASE getWriteLockNoWait_refuse(t)
      BY <2>13 DEF getWriteLockNoWait_refuse, DropMutex, mutex_unlock, At,
         Goto, Shape, Lifecycle, ModeOfPC, UncountedPCs, Modes, nodeVars,
         srcVars, threadVars, procVars, mgrVars
    <2>14. CASE getWriteLockNoWait_enter(t)
      BY <2>14 DEF getWriteLockNoWait_enter, CountWrite, At, Goto, Shape,
         Lifecycle, ModeOfPC, UncountedPCs, Modes, nodeVars, srcVars,
         threadVars, procVars, mgrVars
    <2>15. CASE getWriteLockNoWait_reg(t)
      BY <2>15 DEF getWriteLockNoWait_reg, Book, At, Goto, lockWdSrc, Add,
         Shape, Lifecycle, ModeOfPC, UncountedPCs, Modes, nodeVars, srcVars,
         threadVars, procVars, mgrVars
    <2>16. CASE releaseReadLock_dec(t)
      BY <2>16 DEF releaseReadLock_dec, CountRead, At, Goto, Shape, Lifecycle,
         ModeOfPC, UncountedPCs, Modes, nodeVars, srcVars, threadVars,
         procVars, mgrVars
    <2>17. CASE releaseReadLock_reset(t)
      BY <2>17 DEF releaseReadLock_reset, CountRead, At, Goto, Shape,
         Lifecycle, ModeOfPC, UncountedPCs, Modes, nodeVars, srcVars,
         threadVars, procVars, mgrVars
    <2>18. CASE releaseReadLock_throw(t)
      BY <2>18 DEF releaseReadLock_throw, Book, At, Goto, unlockRdSrc, Leave,
         Add, Wipe, Shape, Lifecycle, ModeOfPC, UncountedPCs, Modes, nodeVars,
         srcVars, threadVars, procVars, mgrVars
    <2>19. CASE releaseReadLock_last(t)
      BY <2>19 DEF releaseReadLock_last, Broadcast, cond_broadcast, At, Goto,
         Shape, Lifecycle, ModeOfPC, UncountedPCs, Modes, nodeVars, srcVars,
         threadVars, procVars, mgrVars
    <2>20. CASE releaseReadLock_more(t)
      BY <2>20 DEF releaseReadLock_more, DropMutex, mutex_unlock, At, Goto,
         Shape, Lifecycle, ModeOfPC, UncountedPCs, Modes, nodeVars, srcVars,
         threadVars, procVars, mgrVars
    <2>21. CASE releaseReadLock_unlock(t)
      BY <2>21 DEF releaseReadLock_unlock, DropMutex, mutex_unlock, At, Goto,
         Shape, Lifecycle, ModeOfPC, UncountedPCs, Modes, nodeVars, srcVars,
         threadVars, procVars, mgrVars
    <2>22. CASE releaseReadLock_unreg(t)
      BY <2>22 DEF releaseReadLock_unreg, Book, At, Goto, unlockRdSrc, Leave,
         Add, Wipe, Shape, Lifecycle, ModeOfPC, UncountedPCs, Modes, nodeVars,
         srcVars, threadVars, procVars, mgrVars
    <2>23. CASE releaseWriteLock_dec(t)
      BY <2>23 DEF releaseWriteLock_dec, CountWrite, At, Goto, Shape,
         Lifecycle, ModeOfPC, UncountedPCs, Modes, nodeVars, srcVars,
         threadVars, procVars, mgrVars
    <2>24. CASE releaseWriteLock_reset(t)
      BY <2>24 DEF releaseWriteLock_reset, CountWrite, At, Goto, Shape,
         Lifecycle, ModeOfPC, UncountedPCs, Modes, nodeVars, srcVars,
         threadVars, procVars, mgrVars
    <2>25. CASE releaseWriteLock_last(t)
      BY <2>25 DEF releaseWriteLock_last, Broadcast, cond_broadcast, At, Goto,
         Shape, Lifecycle, ModeOfPC, UncountedPCs, Modes, nodeVars, srcVars,
         threadVars, procVars, mgrVars
    <2>26. CASE releaseWriteLock_unreg(t)
      BY <2>26 DEF releaseWriteLock_unreg, Book, At, Goto, unlockWdSrc, Leave,
         Add, Wipe, Shape, Lifecycle, ModeOfPC, UncountedPCs, Modes, nodeVars,
         srcVars, threadVars, procVars, mgrVars
    <2>27. CASE unlock_return(t)
      BY <2>27 DEF unlock_return, DropMutex, mutex_unlock, At, Goto, Shape,
         Lifecycle, ModeOfPC, UncountedPCs, Modes, nodeVars, srcVars,
         threadVars, procVars, mgrVars
    <2> QED
      BY <2>1, <2>2, <2>3, <2>4, <2>5, <2>6, <2>7, <2>8, <2>9, <2>10, <2>11,
         <2>12, <2>13, <2>14, <2>15, <2>16, <2>17, <2>18, <2>19, <2>20, <2>21,
         <2>22, <2>23, <2>24, <2>25, <2>26, <2>27 DEF Proceed
  <1>4. CASE \E t \in Threads : SpuriousWake(t) \/ Kill(t) \/ FindSlot(t)
    <2> PICK t \in Threads : SpuriousWake(t) \/ Kill(t) \/ FindSlot(t)
      BY <1>4
    <2>1. CASE SpuriousWake(t)
      BY <2>1 DEF SpuriousWake, Shape, Lifecycle, ModeOfPC, UncountedPCs,
         Modes, nodeVars, srcVars, threadVars, procVars, mgrVars
    <2>2. CASE Kill(t)
      BY <2>2 DEF Kill, Shape, Lifecycle, ModeOfPC, UncountedPCs, Modes,
         nodeVars, srcVars, threadVars, procVars, mgrVars
    <2>3. CASE setThreadSrcPos_lock(t)
      BY <2>3 DEF setThreadSrcPos_lock, Node0Free, Goto, Shape, Lifecycle,
         ModeOfPC, UncountedPCs, Modes, nodeVars, srcVars, threadVars,
         procVars, mgrVars
    <2>4. CASE setThreadSrcPos_take(t)
      BY <2>4 DEF setThreadSrcPos_take, ClearSlot, At, Goto, Shape, Lifecycle,
         ModeOfPC, UncountedPCs, Modes, nodeVars, srcVars, threadVars,
         procVars, mgrVars
    <2>5. CASE getThreadSrcPos_lock(t)
      BY <2>5 DEF getThreadSrcPos_lock, Node0Free, At, Goto, Shape, Lifecycle,
         ModeOfPC, UncountedPCs, Modes, nodeVars, srcVars, threadVars,
         procVars, mgrVars
    <2>6. CASE threadSrcPos_unlock(t)
      BY <2>6 DEF threadSrcPos_unlock, At, Goto, Shape, Lifecycle, ModeOfPC,
         UncountedPCs, Modes, nodeVars, srcVars, threadVars, procVars, mgrVars
    <2> QED BY <2>1, <2>2, <2>3, <2>4, <2>5, <2>6 DEF FindSlot
  <1>5. CASE \E s \in Sids : rollbackSrc(s)
    <2> PICK s \in Sids : rollbackSrc(s)
      BY <1>5
    <2>1. CASE rollbackSrc_read(s)
      BY <2>1 DEF rollbackSrc_read, GiveBack, Wakeup, cond_init,
         cond_broadcast, Add, Shape, Lifecycle, ModeOfPC, UncountedPCs, Modes,
         nodeVars, srcVars, threadVars, procVars, mgrVars
    <2>2. CASE rollbackSrc_write(s)
      BY <2>2 DEF rollbackSrc_write, GiveBack, Wakeup, cond_init,
         cond_broadcast, Add, Shape, Lifecycle, ModeOfPC, UncountedPCs, Modes,
         nodeVars, srcVars, threadVars, procVars, mgrVars
    <2>3. CASE rollbackSrc_wait(s)
      BY <2>3 DEF rollbackSrc_wait, GiveBack, Wakeup, cond_init,
         cond_broadcast, Add, Shape, Lifecycle, ModeOfPC, UncountedPCs, Modes,
         nodeVars, srcVars, threadVars, procVars, mgrVars
    <2>4. CASE rollbackSrc_force(s)
      BY <2>4 DEF rollbackSrc_force, mutex_unlock, InUse, Shape, Lifecycle,
         ModeOfPC, UncountedPCs, Modes, nodeVars, srcVars, threadVars,
         procVars, mgrVars
    <2>5. CASE rollbackSrc_retry(s)
      BY <2>5 DEF rollbackSrc_retry, InUse, Shape, Lifecycle, ModeOfPC,
         UncountedPCs, Modes, nodeVars, srcVars, threadVars, procVars, mgrVars
    <2> QED BY <2>1, <2>2, <2>3, <2>4, <2>5 DEF rollbackSrc
  <1>6. CASE getExitProcessInfo
    BY <1>6 DEF getExitProcessInfo, Shape, Lifecycle, ModeOfPC, UncountedPCs,
       Modes, nodeVars, srcVars, threadVars, procVars, mgrVars
  <1>7. CASE rollbackSrc_begin
    BY <1>7 DEF rollbackSrc_begin, Node0Free, Shape, Lifecycle, ModeOfPC, UncountedPCs,
       Modes, nodeVars, srcVars, threadVars, procVars, mgrVars
  <1>8. CASE rollbackSrc_end
    BY <1>8 DEF rollbackSrc_end, ClearSlot, InUse, Shape, Lifecycle, ModeOfPC,
       UncountedPCs, Modes, nodeVars, srcVars, threadVars, procVars, mgrVars
  <1>9. CASE UNCHANGED vars
    BY <1>9 DEF vars, Shape, Lifecycle, ModeOfPC, UncountedPCs, Modes,
       nodeVars, srcVars, threadVars, procVars, mgrVars
  <1>10. CASE rollbackSrc_force0
    BY <1>10 DEF rollbackSrc_force0, Shape, Lifecycle, ModeOfPC, UncountedPCs,
       Modes, nodeVars, srcVars, threadVars, procVars, mgrVars
  <1> QED
    BY <1>1, <1>2, <1>3, <1>4, <1>5, <1>6, <1>7, <1>8, <1>9, <1>10
    DEF Next, Manager

LEMMA SleepersStep ==
    ASSUME Shape, Lifecycle, Unforced, Sleepers, [Next]_vars
    PROVE  Sleepers'
  <1>1. CASE \E t \in Threads : Request(t) \/ Release(t)
    <2> SUFFICES ASSUME NEW t \in Threads, NEW s \in Sids,
                        \/ getReadLock_call(t, s)
                        \/ getWriteLock_call(t, s)
                        \/ getReadLockNoWait_call(t, s)
                        \/ getWriteLockNoWait_call(t, s)
                        \/ releaseReadLock_call(t, s)
                        \/ releaseWriteLock_call(t, s)
                 PROVE  Sleepers'
      BY <1>1 DEF Request, Release
    <2>1. CASE getReadLock_call(t, s)
      BY <2>1 DEF getReadLock_call, Call, At, Goto, lockRdSrc, Add, Shape,
         Sleepers, nodeVars, srcVars, threadVars, procVars, mgrVars
    <2>2. CASE getWriteLock_call(t, s)
      BY <2>2 DEF getWriteLock_call, Call, At, Goto, Shape, Sleepers,
         nodeVars, srcVars, threadVars, procVars, mgrVars
    <2>3. CASE getReadLockNoWait_call(t, s)
      BY <2>3 DEF getReadLockNoWait_call, Call, At, Goto, mutex_lock, Shape,
         Sleepers, nodeVars, srcVars, threadVars, procVars, mgrVars
    <2>4. CASE getWriteLockNoWait_call(t, s)
      BY <2>4 DEF getWriteLockNoWait_call, Call, At, Goto, mutex_lock, Shape,
         Sleepers, nodeVars, srcVars, threadVars, procVars, mgrVars
    <2>5. CASE releaseReadLock_call(t, s)
      BY <2>5 DEF releaseReadLock_call, Call, At, Goto, Shape, Sleepers,
         nodeVars, srcVars, threadVars, procVars, mgrVars
    <2>6. CASE releaseWriteLock_call(t, s)
      BY <2>6 DEF releaseWriteLock_call, Call, At, Goto, Shape, Sleepers,
         nodeVars, srcVars, threadVars, procVars, mgrVars
    <2> QED BY <2>1, <2>2, <2>3, <2>4, <2>5, <2>6
  <1>2. CASE \E t \in Threads : Acquire(t)
    <2> PICK t \in Threads : Acquire(t)
      BY <1>2
    <2>1. CASE getReadLock_lock(t)
      BY <2>1 DEF getReadLock_lock, TakeMutex, mutex_lock, At, Goto, Shape,
         Sleepers, nodeVars, srcVars, threadVars, procVars, mgrVars
    <2>2. CASE getReadLock_wake(t)
      BY <2>2 DEF getReadLock_wake, Rewaken, TakeMutex, mutex_lock, At, Goto,
         Shape, Sleepers, Asleep, nodeVars, srcVars, threadVars, procVars,
         mgrVars
    <2>3. CASE getWriteLock_lock(t)
      BY <2>3 DEF getWriteLock_lock, TakeMutex, mutex_lock, At, Goto, Shape,
         Sleepers, nodeVars, srcVars, threadVars, procVars, mgrVars
    <2>4. CASE getWriteLock_wake(t)
      BY <2>4 DEF getWriteLock_wake, Rewaken, TakeMutex, mutex_lock, At, Goto,
         Shape, Sleepers, Asleep, nodeVars, srcVars, threadVars, procVars,
         mgrVars
    <2>5. CASE releaseReadLock_lock(t)
      BY <2>5 DEF releaseReadLock_lock, TakeMutex, mutex_lock, At, Goto,
         Shape, Sleepers, nodeVars, srcVars, threadVars, procVars, mgrVars
    <2>6. CASE releaseWriteLock_lock(t)
      BY <2>6 DEF releaseWriteLock_lock, TakeMutex, mutex_lock, At, Goto,
         Shape, Sleepers, nodeVars, srcVars, threadVars, procVars, mgrVars
    <2> QED
      BY <2>1, <2>2, <2>3, <2>4, <2>5, <2>6 DEF Acquire
  <1>3. CASE \E t \in Threads : Proceed(t)
    <2> PICK t \in Threads : Proceed(t)
      BY <1>3
    <2>1. CASE getReadLock_wait(t)
      BY <2>1 DEF getReadLock_wait, Sleep, cond_wait, mutex_unlock, At, Goto,
         Shape, Sleepers, nodeVars, srcVars, threadVars, procVars, mgrVars
    <2>2. CASE getReadLock_enter(t)
      BY <2>2 DEF getReadLock_enter, CountRead, At, Goto, Shape, Sleepers,
         nodeVars, srcVars, threadVars, procVars, mgrVars
    <2>3. CASE getWriteLock_incWait(t)
      BY <2>3 DEF getWriteLock_incWait, CountWait, At, Goto, Shape, Sleepers,
         nodeVars, srcVars, threadVars, procVars, mgrVars
    <2>4. CASE getWriteLock_regWait(t)
      BY <2>4 DEF getWriteLock_regWait, Book, At, Goto, lockWWaitSrc, Add,
         Shape, Sleepers, nodeVars, srcVars, threadVars, procVars, mgrVars
    <2>5. CASE getWriteLock_wait(t)
      BY <2>5 DEF getWriteLock_wait, Sleep, cond_wait, mutex_unlock, At, Goto,
         Shape, Sleepers, nodeVars, srcVars, threadVars, procVars, mgrVars
    <2>6. CASE getWriteLock_enter(t)
      BY <2>6 DEF getWriteLock_enter, CountWrite, At, Goto, Shape, Sleepers,
         nodeVars, srcVars, threadVars, procVars, mgrVars
    <2>7. CASE getWriteLock_decWait(t)
      BY <2>7 DEF getWriteLock_decWait, CountWait, At, Goto, Shape, Sleepers,
         nodeVars, srcVars, threadVars, procVars, mgrVars
    <2>8. CASE getWriteLock_unregWait(t)
      BY <2>8 DEF getWriteLock_unregWait, Book, At, Goto, unlockWWaitSrc,
         Leave, Add, Wipe, Shape, Sleepers, nodeVars, srcVars, threadVars,
         procVars, mgrVars
    <2>9. CASE getWriteLock_reg(t)
      BY <2>9 DEF getWriteLock_reg, Book, At, Goto, lockWdSrc, Add, Shape,
         Sleepers, nodeVars, srcVars, threadVars, procVars, mgrVars
    <2>10. CASE getReadLockNoWait_refuse(t)
      BY <2>10 DEF getReadLockNoWait_refuse, DropMutex, mutex_unlock, At,
         Goto, Shape, Sleepers, nodeVars, srcVars, threadVars, procVars,
         mgrVars
    <2>11. CASE getReadLockNoWait_enter(t)
      BY <2>11 DEF getReadLockNoWait_enter, CountRead, At, Goto, Shape,
         Sleepers, nodeVars, srcVars, threadVars, procVars, mgrVars
    <2>12. CASE getReadLockNoWait_reg(t)
      BY <2>12 DEF getReadLockNoWait_reg, Book, At, Goto, lockRdSrc, Add,
         Shape, Sleepers, nodeVars, srcVars, threadVars, procVars, mgrVars
    <2>13. CASE getWriteLockNoWait_refuse(t)
      BY <2>13 DEF getWriteLockNoWait_refuse, DropMutex, mutex_unlock, At,
         Goto, Shape, Sleepers, nodeVars, srcVars, threadVars, procVars,
         mgrVars
    <2>14. CASE getWriteLockNoWait_enter(t)
      BY <2>14 DEF getWriteLockNoWait_enter, CountWrite, At, Goto, Shape,
         Sleepers, nodeVars, srcVars, threadVars, procVars, mgrVars
    <2>15. CASE getWriteLockNoWait_reg(t)
      BY <2>15 DEF getWriteLockNoWait_reg, Book, At, Goto, lockWdSrc, Add,
         Shape, Sleepers, nodeVars, srcVars, threadVars, procVars, mgrVars
    <2>16. CASE releaseReadLock_dec(t)
      BY <2>16 DEF releaseReadLock_dec, CountRead, At, Goto, Shape, Sleepers,
         nodeVars, srcVars, threadVars, procVars, mgrVars
    <2>17. CASE releaseReadLock_reset(t)
      BY <2>17 DEF releaseReadLock_reset, CountRead, At, Goto, Shape,
         Sleepers, nodeVars, srcVars, threadVars, procVars, mgrVars
    <2>18. CASE releaseReadLock_throw(t)
      BY <2>18 DEF releaseReadLock_throw, Book, At, Goto, unlockRdSrc, Leave,
         Add, Wipe, Shape, Sleepers, nodeVars, srcVars, threadVars, procVars,
         mgrVars
    <2>19. CASE releaseReadLock_last(t)
      BY <2>19 DEF releaseReadLock_last, Broadcast, cond_broadcast, At, Goto,
         Shape, Sleepers, nodeVars, srcVars, threadVars, procVars, mgrVars
    <2>20. CASE releaseReadLock_more(t)
      BY <2>20 DEF releaseReadLock_more, DropMutex, mutex_unlock, At, Goto,
         Shape, Sleepers, nodeVars, srcVars, threadVars, procVars, mgrVars
    <2>21. CASE releaseReadLock_unlock(t)
      BY <2>21 DEF releaseReadLock_unlock, DropMutex, mutex_unlock, At, Goto,
         Shape, Sleepers, nodeVars, srcVars, threadVars, procVars, mgrVars
    <2>22. CASE releaseReadLock_unreg(t)
      BY <2>22 DEF releaseReadLock_unreg, Book, At, Goto, unlockRdSrc, Leave,
         Add, Wipe, Shape, Sleepers, nodeVars, srcVars, threadVars, procVars,
         mgrVars
    <2>23. CASE releaseWriteLock_dec(t)
      BY <2>23 DEF releaseWriteLock_dec, CountWrite, At, Goto, Shape,
         Sleepers, nodeVars, srcVars, threadVars, procVars, mgrVars
    <2>24. CASE releaseWriteLock_reset(t)
      BY <2>24 DEF releaseWriteLock_reset, CountWrite, At, Goto, Shape,
         Sleepers, nodeVars, srcVars, threadVars, procVars, mgrVars
    <2>25. CASE releaseWriteLock_last(t)
      BY <2>25 DEF releaseWriteLock_last, Broadcast, cond_broadcast, At, Goto,
         Shape, Sleepers, nodeVars, srcVars, threadVars, procVars, mgrVars
    <2>26. CASE releaseWriteLock_unreg(t)
      BY <2>26 DEF releaseWriteLock_unreg, Book, At, Goto, unlockWdSrc, Leave,
         Add, Wipe, Shape, Sleepers, nodeVars, srcVars, threadVars, procVars,
         mgrVars
    <2>27. CASE unlock_return(t)
      BY <2>27 DEF unlock_return, DropMutex, mutex_unlock, At, Goto, Shape,
         Sleepers, nodeVars, srcVars, threadVars, procVars, mgrVars
    <2> QED
      BY <2>1, <2>2, <2>3, <2>4, <2>5, <2>6, <2>7, <2>8, <2>9, <2>10, <2>11,
         <2>12, <2>13, <2>14, <2>15, <2>16, <2>17, <2>18, <2>19, <2>20, <2>21,
         <2>22, <2>23, <2>24, <2>25, <2>26, <2>27 DEF Proceed
  <1>4. CASE \E t \in Threads : SpuriousWake(t) \/ Kill(t) \/ FindSlot(t)
    <2> PICK t \in Threads : SpuriousWake(t) \/ Kill(t) \/ FindSlot(t)
      BY <1>4
    <2>1. CASE SpuriousWake(t)
      BY <2>1 DEF SpuriousWake, Shape, Sleepers, nodeVars, srcVars,
         threadVars, procVars, mgrVars
    <2>2. CASE Kill(t)
      BY <2>2 DEF Kill, Shape, Sleepers, Lifecycle, nodeVars, srcVars,
         threadVars, procVars, mgrVars
    <2>3. CASE setThreadSrcPos_lock(t)
      BY <2>3 DEF setThreadSrcPos_lock, Node0Free, Goto, Shape, Sleepers,
         Lifecycle, nodeVars, srcVars, threadVars, procVars, mgrVars
    <2>4. CASE setThreadSrcPos_take(t)
      BY <2>4 DEF setThreadSrcPos_take, ClearSlot, At, Goto, Shape, Sleepers,
         Lifecycle, nodeVars, srcVars, threadVars, procVars, mgrVars
    <2>5. CASE getThreadSrcPos_lock(t)
      BY <2>5 DEF getThreadSrcPos_lock, Node0Free, At, Goto, Shape, Sleepers,
         Lifecycle, nodeVars, srcVars, threadVars, procVars, mgrVars
    <2>6. CASE threadSrcPos_unlock(t)
      BY <2>6 DEF threadSrcPos_unlock, At, Goto, Shape, Sleepers, Lifecycle,
         nodeVars, srcVars, threadVars, procVars, mgrVars
    <2> QED BY <2>1, <2>2, <2>3, <2>4, <2>5, <2>6 DEF FindSlot
  <1>5. CASE \E s \in Sids : rollbackSrc(s)
    <2> PICK s \in Sids : rollbackSrc(s)
      BY <1>5
    <2>1. CASE rollbackSrc_read(s)
      <3>1. waiters' \in {waiters, [waiters EXCEPT ![s] = {}]}
        BY <2>1 DEF rollbackSrc_read, Wakeup, cond_init, cond_broadcast
      <3>2. UNCHANGED <<alive, cur, pc>>
        BY <2>1 DEF rollbackSrc_read, threadVars, procVars
      <3>3. \A x \in Sids : waiters'[x] \subseteq waiters[x]
        BY <3>1 DEF Shape
      <3> QED BY <3>2, <3>3 DEF Sleepers
    <2>2. CASE rollbackSrc_write(s)
      <3>1. waiters' \in {waiters, [waiters EXCEPT ![s] = {}]}
        BY <2>2 DEF rollbackSrc_write, Wakeup, cond_init, cond_broadcast
      <3>2. UNCHANGED <<alive, cur, pc>>
        BY <2>2 DEF rollbackSrc_write, threadVars, procVars
      <3>3. \A x \in Sids : waiters'[x] \subseteq waiters[x]
        BY <3>1 DEF Shape
      <3> QED BY <3>2, <3>3 DEF Sleepers
    <2>3. CASE rollbackSrc_wait(s)
      <3>1. waiters' \in {waiters, [waiters EXCEPT ![s] = {}]}
        BY <2>3 DEF rollbackSrc_wait, Wakeup, cond_init, cond_broadcast
      <3>2. UNCHANGED <<alive, cur, pc>>
        BY <2>3 DEF rollbackSrc_wait, threadVars, procVars
      <3>3. \A x \in Sids : waiters'[x] \subseteq waiters[x]
        BY <3>1 DEF Shape
      <3> QED BY <3>2, <3>3 DEF Sleepers
    <2>4. CASE rollbackSrc_force(s)
      BY <2>4 DEF rollbackSrc_force, mutex_unlock, InUse, Shape, Sleepers,
         nodeVars, srcVars, threadVars, procVars, mgrVars
    <2>5. CASE rollbackSrc_retry(s)
      BY <2>5 DEF rollbackSrc_retry, InUse, Shape, Sleepers, nodeVars,
         srcVars, threadVars, procVars, mgrVars
    <2> QED BY <2>1, <2>2, <2>3, <2>4, <2>5 DEF rollbackSrc
  <1>6. CASE getExitProcessInfo
    BY <1>6 DEF getExitProcessInfo, Shape, Sleepers, nodeVars, srcVars,
       threadVars, procVars, mgrVars
  <1>7. CASE rollbackSrc_begin
    BY <1>7 DEF rollbackSrc_begin, Node0Free, Shape, Sleepers, nodeVars, srcVars,
       threadVars, procVars, mgrVars
  <1>8. CASE rollbackSrc_end
    BY <1>8 DEF rollbackSrc_end, ClearSlot, InUse, Shape, Sleepers, nodeVars,
       srcVars, threadVars, procVars, mgrVars
  <1>9. CASE UNCHANGED vars
    BY <1>9 DEF vars, Shape, Sleepers, nodeVars, srcVars, threadVars,
       procVars, mgrVars
  <1>10. CASE rollbackSrc_force0
    BY <1>10 DEF rollbackSrc_force0, Shape, Sleepers, nodeVars, srcVars,
       threadVars, procVars, mgrVars
  <1> QED
    BY <1>1, <1>2, <1>3, <1>4, <1>5, <1>6, <1>7, <1>8, <1>9, <1>10
    DEF Next, Manager

-----------------------------------------------------------------------------
(* The registration slots.                                                 *)

\* A slot with room for every source has room for this one.
LEMMA Room ==
    ASSUME RoomForAll, NEW t \in Threads, NEW s \in Sids
    PROVE  HasRoom(t, s)
  <1> SUFFICES ASSUME s \notin Registered(t)
               PROVE  Cardinality(Registered(t)) < MaxPSrcNum
    BY DEF HasRoom
  <1>1. IsFiniteSet(Sids \ {s}) /\ Cardinality(Sids \ {s}) = Cardinality(Sids) - 1
    BY FS_RemoveElement, SidsAssumption
  <1>2. Registered(t) \in SUBSET (Sids \ {s})
    BY DEF Registered
  <1>3. /\ Cardinality(Registered(t)) <= Cardinality(Sids \ {s})
        /\ IsFiniteSet(Registered(t))
    BY <1>1, <1>2, FS_Subset
  <1>4. Cardinality(Registered(t)) \in Nat /\ Cardinality(Sids) \in Nat
    BY <1>3, FS_CardinalityType, SidsAssumption
  <1> QED BY <1>1, <1>3, <1>4, BoundsAssumption DEF RoomForAll

\* With room in the slot, registering a source adds one to one count.
LEMMA BookIn ==
    ASSUME Shape, RoomForAll, NEW t \in Threads, NEW s \in Sids
    PROVE  /\ lockRdSrc(t, s) =>
                  /\ \A u \in Threads, x \in Sids : rcount'[u][x] =
                         IF u = t /\ x = s THEN rcount[u][x] + 1 ELSE rcount[u][x]
                  /\ UNCHANGED <<wcount, wwait>>
           /\ lockWdSrc(t, s) =>
                  /\ \A u \in Threads, x \in Sids : wcount'[u][x] =
                         IF u = t /\ x = s THEN wcount[u][x] + 1 ELSE wcount[u][x]
                  /\ UNCHANGED <<rcount, wwait>>
           /\ lockWWaitSrc(t, s) =>
                  /\ \A u \in Threads, x \in Sids : wwait'[u][x] =
                         IF u = t /\ x = s THEN wwait[u][x] + 1 ELSE wwait[u][x]
                  /\ UNCHANGED <<rcount, wcount>>
  <1>1. HasRoom(t, s)
    BY Room
  <1> QED BY <1>1 DEF lockRdSrc, lockWdSrc, lockWWaitSrc, Add, Shape

\* Removing the last count of an entry clears the entry.
LEMMA BookOut ==
    ASSUME Shape, NEW t \in Threads, NEW s \in Sids,
           rcount[t][s] + wcount[t][s] + wwait[t][s] = 1,
           \/ unlockRdSrc(t, s) \/ unlockWdSrc(t, s) \/ unlockWWaitSrc(t, s)
    PROVE  \A u \in Threads, x \in Sids :
               /\ rcount'[u][x] = IF u = t /\ x = s THEN 0 ELSE rcount[u][x]
               /\ wcount'[u][x] = IF u = t /\ x = s THEN 0 ELSE wcount[u][x]
               /\ wwait'[u][x] = IF u = t /\ x = s THEN 0 ELSE wwait[u][x]
  <1>1. /\ rcount[t][s] \in Int /\ wcount[t][s] \in Int /\ wwait[t][s] \in Int
        /\ s \in Registered(t)
    BY DEF Shape, Registered
  <1>2. /\ rcount' = [rcount EXCEPT ![t][s] = 0]
        /\ wcount' = [wcount EXCEPT ![t][s] = 0]
        /\ wwait' = [wwait EXCEPT ![t][s] = 0]
    BY <1>1 DEF unlockRdSrc, unlockWdSrc, unlockWWaitSrc, Leave, Wipe
  <1> QED BY <1>2 DEF Shape

LEMMA BooksStep ==
    ASSUME Shape, Lifecycle, ModeOfPC, RoomForAll, BooksInv, [Next]_vars
    PROVE  BooksInv'
  <1>1. CASE \E t \in Threads : Request(t) \/ Release(t)
    <2> SUFFICES ASSUME NEW t \in Threads, NEW s \in Sids,
                        \/ getReadLock_call(t, s)
                        \/ getWriteLock_call(t, s)
                        \/ getReadLockNoWait_call(t, s)
                        \/ getWriteLockNoWait_call(t, s)
                        \/ releaseReadLock_call(t, s)
                        \/ releaseWriteLock_call(t, s)
                 PROVE  BooksInv'
      BY <1>1 DEF Request, Release
    <2>1. CASE getReadLock_call(t, s)
      <3>1. /\ cur[t] \in Sids /\ alive[t] /\ lockRdSrc(t, s)
            /\ pc[t] = "run" /\ mode[t][s] = "none"
        BY <2>1 DEF getReadLock_call, Call, At, Shape, ModeOfPC, UncountedPCs
      <3>2. /\ pc' = [pc EXCEPT ![t] = "rLock"] /\ UNCHANGED <<mode, alive, slot>>
            /\ cur' = [cur EXCEPT ![t] = s]
        BY <2>1 DEF getReadLock_call, Call, Goto, procVars
      <3>3. /\ \A u \in Threads, x \in Sids : rcount'[u][x] =
                   IF u = t /\ x = s THEN rcount[u][x] + 1 ELSE rcount[u][x]
            /\ UNCHANGED <<wcount, wwait>>
        BY <3>1, BookIn
      <3>8. BooksOfLiving'
        BY <3>1, <3>2, <3>3 DEF Shape, BooksInv, BooksOfLiving, BooksOfDead,
           RdBooked, WtBooked, WaitBooked
      <3>7. \A u \in Threads, x \in Sids : ~alive[u] =>
                /\ rcount'[u][x] = rcount[u][x]
                /\ wcount'[u][x] = wcount[u][x]
                /\ wwait'[u][x] = wwait[u][x]
        BY <3>1, <3>3
      <3>9. BooksOfDead'
        BY <3>1, <3>2, <3>7 DEF Shape, BooksInv, BooksOfDead
      <3> QED BY <3>8, <3>9 DEF BooksInv
    <2>2. CASE getWriteLock_call(t, s)
      BY <2>2 DEF getWriteLock_call, Call, At, Goto, Shape, ModeOfPC,
         UncountedPCs, BooksInv, BooksOfLiving, BooksOfDead, RdBooked,
         WtBooked, WaitBooked, nodeVars, srcVars, threadVars, procVars,
         mgrVars
    <2>3. CASE getReadLockNoWait_call(t, s)
      BY <2>3 DEF getReadLockNoWait_call, Call, At, Goto, mutex_lock, Shape,
         ModeOfPC, UncountedPCs, BooksInv, BooksOfLiving, BooksOfDead,
         RdBooked, WtBooked, WaitBooked, nodeVars, srcVars, threadVars,
         procVars, mgrVars
    <2>4. CASE getWriteLockNoWait_call(t, s)
      BY <2>4 DEF getWriteLockNoWait_call, Call, At, Goto, mutex_lock, Shape,
         ModeOfPC, UncountedPCs, BooksInv, BooksOfLiving, BooksOfDead,
         RdBooked, WtBooked, WaitBooked, nodeVars, srcVars, threadVars,
         procVars, mgrVars
    <2>5. CASE releaseReadLock_call(t, s)
      BY <2>5 DEF releaseReadLock_call, Call, At, Goto, Shape, ModeOfPC,
         UncountedPCs, BooksInv, BooksOfLiving, BooksOfDead, RdBooked,
         WtBooked, WaitBooked, nodeVars, srcVars, threadVars, procVars,
         mgrVars
    <2>6. CASE releaseWriteLock_call(t, s)
      BY <2>6 DEF releaseWriteLock_call, Call, At, Goto, Shape, ModeOfPC,
         UncountedPCs, BooksInv, BooksOfLiving, BooksOfDead, RdBooked,
         WtBooked, WaitBooked, nodeVars, srcVars, threadVars, procVars,
         mgrVars
    <2> QED BY <2>1, <2>2, <2>3, <2>4, <2>5, <2>6
  <1>2. CASE \E t \in Threads : Acquire(t)
    <2> PICK t \in Threads : Acquire(t)
      BY <1>2
    <2>1. CASE getReadLock_lock(t)
      BY <2>1 DEF getReadLock_lock, TakeMutex, mutex_lock, At, Goto, Shape,
         ModeOfPC, UncountedPCs, BooksInv, BooksOfLiving, BooksOfDead,
         RdBooked, WtBooked, WaitBooked, nodeVars, srcVars, threadVars,
         procVars, mgrVars
    <2>2. CASE getReadLock_wake(t)
      BY <2>2 DEF getReadLock_wake, Rewaken, TakeMutex, mutex_lock, At, Goto,
         Shape, ModeOfPC, UncountedPCs, BooksInv, BooksOfLiving, BooksOfDead,
         RdBooked, WtBooked, WaitBooked, nodeVars, srcVars, threadVars,
         procVars, mgrVars
    <2>3. CASE getWriteLock_lock(t)
      BY <2>3 DEF getWriteLock_lock, TakeMutex, mutex_lock, At, Goto, Shape,
         ModeOfPC, UncountedPCs, BooksInv, BooksOfLiving, BooksOfDead,
         RdBooked, WtBooked, WaitBooked, nodeVars, srcVars, threadVars,
         procVars, mgrVars
    <2>4. CASE getWriteLock_wake(t)
      BY <2>4 DEF getWriteLock_wake, Rewaken, TakeMutex, mutex_lock, At, Goto,
         Shape, ModeOfPC, UncountedPCs, BooksInv, BooksOfLiving, BooksOfDead,
         RdBooked, WtBooked, WaitBooked, nodeVars, srcVars, threadVars,
         procVars, mgrVars
    <2>5. CASE releaseReadLock_lock(t)
      BY <2>5 DEF releaseReadLock_lock, TakeMutex, mutex_lock, At, Goto,
         Shape, ModeOfPC, UncountedPCs, BooksInv, BooksOfLiving, BooksOfDead,
         RdBooked, WtBooked, WaitBooked, nodeVars, srcVars, threadVars,
         procVars, mgrVars
    <2>6. CASE releaseWriteLock_lock(t)
      <3>1. /\ cur[t] \in Sids /\ alive[t] /\ pc[t] = "wrLock"
            /\ pc' = [pc EXCEPT ![t] = "wrDec"]
            /\ UNCHANGED <<mode, cur, alive, slot, rcount, wcount, wwait>>
        BY <2>6 DEF releaseWriteLock_lock, TakeMutex, At, Goto, Shape,
           procVars, srcVars
      <3> QED
        BY <3>1 DEF Shape, BooksInv, BooksOfLiving, BooksOfDead, RdBooked,
           WtBooked, WaitBooked
    <2> QED
      BY <2>1, <2>2, <2>3, <2>4, <2>5, <2>6 DEF Acquire
  <1>3. CASE \E t \in Threads : Proceed(t)
    <2> PICK t \in Threads : Proceed(t)
      BY <1>3
    <2>1. CASE getReadLock_wait(t)
      BY <2>1 DEF getReadLock_wait, Sleep, cond_wait, mutex_unlock, At, Goto,
         Shape, ModeOfPC, UncountedPCs, BooksInv, BooksOfLiving, BooksOfDead,
         RdBooked, WtBooked, WaitBooked, nodeVars, srcVars, threadVars,
         procVars, mgrVars
    <2>2. CASE getReadLock_enter(t)
      BY <2>2 DEF getReadLock_enter, CountRead, At, Goto, Shape, ModeOfPC,
         UncountedPCs, BooksInv, BooksOfLiving, BooksOfDead, RdBooked,
         WtBooked, WaitBooked, nodeVars, srcVars, threadVars, procVars,
         mgrVars
    <2>3. CASE getWriteLock_incWait(t)
      BY <2>3 DEF getWriteLock_incWait, CountWait, At, Goto, Shape, ModeOfPC,
         UncountedPCs, BooksInv, BooksOfLiving, BooksOfDead, RdBooked,
         WtBooked, WaitBooked, nodeVars, srcVars, threadVars, procVars,
         mgrVars
    <2>4. CASE getWriteLock_regWait(t)
      <3>1. /\ cur[t] \in Sids /\ alive[t] /\ lockWWaitSrc(t, cur[t])
            /\ pc[t] = "wReg" /\ mode[t][cur[t]] = "none"
        BY <2>4 DEF getWriteLock_regWait, Book, At, Shape, ModeOfPC,
           UncountedPCs
      <3>2. /\ pc' = [pc EXCEPT ![t] = "wTest"] /\ UNCHANGED <<mode, alive, slot>>
            /\ cur' = cur
        BY <2>4 DEF getWriteLock_regWait, Book, Goto, procVars
      <3>3. /\ \A u \in Threads, x \in Sids : wwait'[u][x] =
                   IF u = t /\ x = cur[t] THEN wwait[u][x] + 1 ELSE wwait[u][x]
            /\ UNCHANGED <<rcount, wcount>>
        BY <3>1, BookIn
      <3>8. BooksOfLiving'
        BY <3>1, <3>2, <3>3 DEF Shape, BooksInv, BooksOfLiving, BooksOfDead,
           RdBooked, WtBooked, WaitBooked
      <3>7. \A u \in Threads, x \in Sids : ~alive[u] =>
                /\ rcount'[u][x] = rcount[u][x]
                /\ wcount'[u][x] = wcount[u][x]
                /\ wwait'[u][x] = wwait[u][x]
        BY <3>1, <3>3
      <3>9. BooksOfDead'
        BY <3>1, <3>2, <3>7 DEF Shape, BooksInv, BooksOfDead
      <3> QED BY <3>8, <3>9 DEF BooksInv
    <2>5. CASE getWriteLock_wait(t)
      BY <2>5 DEF getWriteLock_wait, Sleep, cond_wait, mutex_unlock, At, Goto,
         Shape, ModeOfPC, UncountedPCs, BooksInv, BooksOfLiving, BooksOfDead,
         RdBooked, WtBooked, WaitBooked, nodeVars, srcVars, threadVars,
         procVars, mgrVars
    <2>6. CASE getWriteLock_enter(t)
      BY <2>6 DEF getWriteLock_enter, CountWrite, At, Goto, Shape, ModeOfPC,
         UncountedPCs, BooksInv, BooksOfLiving, BooksOfDead, RdBooked,
         WtBooked, WaitBooked, nodeVars, srcVars, threadVars, procVars,
         mgrVars
    <2>7. CASE getWriteLock_decWait(t)
      BY <2>7 DEF getWriteLock_decWait, CountWait, At, Goto, Shape, ModeOfPC,
         UncountedPCs, BooksInv, BooksOfLiving, BooksOfDead, RdBooked,
         WtBooked, WaitBooked, nodeVars, srcVars, threadVars, procVars,
         mgrVars
    <2>8. CASE getWriteLock_unregWait(t)
      <3>1. /\ cur[t] \in Sids /\ alive[t] /\ unlockWWaitSrc(t, cur[t])
            /\ pc[t] = "wUnregW" /\ mode[t][cur[t]] = "write"
        BY <2>8 DEF getWriteLock_unregWait, Book, At, Shape, ModeOfPC,
           UncountedPCs
      <3>2. /\ pc' = [pc EXCEPT ![t] = "wRegD"] /\ UNCHANGED <<mode, alive, slot>>
            /\ cur' = cur
        BY <2>8 DEF getWriteLock_unregWait, Book, Goto, procVars
      <3>3. wwait[t][cur[t]] = 1 /\ rcount[t][cur[t]] = 0 /\ wcount[t][cur[t]] = 0
        BY <3>1 DEF BooksInv, BooksOfLiving, BooksOfDead, RdBooked, WtBooked,
           WaitBooked
      <3>4. rcount[t][cur[t]] + wcount[t][cur[t]] + wwait[t][cur[t]] = 1
        BY <3>3
      <3>5. \A u \in Threads, x \in Sids :
                /\ rcount'[u][x] = IF u = t /\ x = cur[t] THEN 0 ELSE rcount[u][x]
                /\ wcount'[u][x] = IF u = t /\ x = cur[t] THEN 0 ELSE wcount[u][x]
                /\ wwait'[u][x] = IF u = t /\ x = cur[t] THEN 0 ELSE wwait[u][x]
        BY <3>1, <3>4, BookOut
      <3>8. BooksOfLiving'
        BY <3>1, <3>2, <3>5 DEF Shape, BooksInv, BooksOfLiving, BooksOfDead,
           RdBooked, WtBooked, WaitBooked
      <3>9. BooksOfDead'
        BY <3>1, <3>2, <3>5 DEF Shape, BooksInv, BooksOfDead
      <3> QED BY <3>8, <3>9 DEF BooksInv
    <2>9. CASE getWriteLock_reg(t)
      <3>1. /\ cur[t] \in Sids /\ alive[t] /\ lockWdSrc(t, cur[t])
            /\ pc[t] = "wRegD" /\ mode[t][cur[t]] = "write"
        BY <2>9 DEF getWriteLock_reg, Book, At, Shape, ModeOfPC, UncountedPCs
      <3>2. /\ pc' = [pc EXCEPT ![t] = "unlk"] /\ UNCHANGED <<mode, alive, slot>>
            /\ cur' = cur
        BY <2>9 DEF getWriteLock_reg, Book, Goto, procVars
      <3>3. /\ \A u \in Threads, x \in Sids : wcount'[u][x] =
                   IF u = t /\ x = cur[t] THEN wcount[u][x] + 1 ELSE wcount[u][x]
            /\ UNCHANGED <<rcount, wwait>>
        BY <3>1, BookIn
      <3>8. BooksOfLiving'
        BY <3>1, <3>2, <3>3 DEF Shape, BooksInv, BooksOfLiving, BooksOfDead,
           RdBooked, WtBooked, WaitBooked
      <3>7. \A u \in Threads, x \in Sids : ~alive[u] =>
                /\ rcount'[u][x] = rcount[u][x]
                /\ wcount'[u][x] = wcount[u][x]
                /\ wwait'[u][x] = wwait[u][x]
        BY <3>1, <3>3
      <3>9. BooksOfDead'
        BY <3>1, <3>2, <3>7 DEF Shape, BooksInv, BooksOfDead
      <3> QED BY <3>8, <3>9 DEF BooksInv
    <2>10. CASE getReadLockNoWait_refuse(t)
      BY <2>10 DEF getReadLockNoWait_refuse, DropMutex, mutex_unlock, At,
         Goto, Shape, ModeOfPC, UncountedPCs, BooksInv, BooksOfLiving,
         BooksOfDead, RdBooked, WtBooked, WaitBooked, nodeVars, srcVars,
         threadVars, procVars, mgrVars
    <2>11. CASE getReadLockNoWait_enter(t)
      BY <2>11 DEF getReadLockNoWait_enter, CountRead, At, Goto, Shape,
         ModeOfPC, UncountedPCs, BooksInv, BooksOfLiving, BooksOfDead,
         RdBooked, WtBooked, WaitBooked, nodeVars, srcVars, threadVars,
         procVars, mgrVars
    <2>12. CASE getReadLockNoWait_reg(t)
      <3>1. /\ cur[t] \in Sids /\ alive[t] /\ lockRdSrc(t, cur[t])
            /\ pc[t] = "trReg" /\ mode[t][cur[t]] = "read"
        BY <2>12 DEF getReadLockNoWait_reg, Book, At, Shape, ModeOfPC,
           UncountedPCs
      <3>2. /\ pc' = [pc EXCEPT ![t] = "unlk"] /\ UNCHANGED <<mode, alive, slot>>
            /\ cur' = cur
        BY <2>12 DEF getReadLockNoWait_reg, Book, Goto, procVars
      <3>3. /\ \A u \in Threads, x \in Sids : rcount'[u][x] =
                   IF u = t /\ x = cur[t] THEN rcount[u][x] + 1 ELSE rcount[u][x]
            /\ UNCHANGED <<wcount, wwait>>
        BY <3>1, BookIn
      <3>8. BooksOfLiving'
        BY <3>1, <3>2, <3>3 DEF Shape, BooksInv, BooksOfLiving, BooksOfDead,
           RdBooked, WtBooked, WaitBooked
      <3>7. \A u \in Threads, x \in Sids : ~alive[u] =>
                /\ rcount'[u][x] = rcount[u][x]
                /\ wcount'[u][x] = wcount[u][x]
                /\ wwait'[u][x] = wwait[u][x]
        BY <3>1, <3>3
      <3>9. BooksOfDead'
        BY <3>1, <3>2, <3>7 DEF Shape, BooksInv, BooksOfDead
      <3> QED BY <3>8, <3>9 DEF BooksInv
    <2>13. CASE getWriteLockNoWait_refuse(t)
      BY <2>13 DEF getWriteLockNoWait_refuse, DropMutex, mutex_unlock, At,
         Goto, Shape, ModeOfPC, UncountedPCs, BooksInv, BooksOfLiving,
         BooksOfDead, RdBooked, WtBooked, WaitBooked, nodeVars, srcVars,
         threadVars, procVars, mgrVars
    <2>14. CASE getWriteLockNoWait_enter(t)
      BY <2>14 DEF getWriteLockNoWait_enter, CountWrite, At, Goto, Shape,
         ModeOfPC, UncountedPCs, BooksInv, BooksOfLiving, BooksOfDead,
         RdBooked, WtBooked, WaitBooked, nodeVars, srcVars, threadVars,
         procVars, mgrVars
    <2>15. CASE getWriteLockNoWait_reg(t)
      <3>1. /\ cur[t] \in Sids /\ alive[t] /\ lockWdSrc(t, cur[t])
            /\ pc[t] = "twReg" /\ mode[t][cur[t]] = "write"
        BY <2>15 DEF getWriteLockNoWait_reg, Book, At, Shape, ModeOfPC,
           UncountedPCs
      <3>2. /\ pc' = [pc EXCEPT ![t] = "unlk"] /\ UNCHANGED <<mode, alive, slot>>
            /\ cur' = cur
        BY <2>15 DEF getWriteLockNoWait_reg, Book, Goto, procVars
      <3>3. /\ \A u \in Threads, x \in Sids : wcount'[u][x] =
                   IF u = t /\ x = cur[t] THEN wcount[u][x] + 1 ELSE wcount[u][x]
            /\ UNCHANGED <<rcount, wwait>>
        BY <3>1, BookIn
      <3>8. BooksOfLiving'
        BY <3>1, <3>2, <3>3 DEF Shape, BooksInv, BooksOfLiving, BooksOfDead,
           RdBooked, WtBooked, WaitBooked
      <3>7. \A u \in Threads, x \in Sids : ~alive[u] =>
                /\ rcount'[u][x] = rcount[u][x]
                /\ wcount'[u][x] = wcount[u][x]
                /\ wwait'[u][x] = wwait[u][x]
        BY <3>1, <3>3
      <3>9. BooksOfDead'
        BY <3>1, <3>2, <3>7 DEF Shape, BooksInv, BooksOfDead
      <3> QED BY <3>8, <3>9 DEF BooksInv
    <2>16. CASE releaseReadLock_dec(t)
      BY <2>16 DEF releaseReadLock_dec, CountRead, At, Goto, Shape, ModeOfPC,
         UncountedPCs, BooksInv, BooksOfLiving, BooksOfDead, RdBooked,
         WtBooked, WaitBooked, nodeVars, srcVars, threadVars, procVars,
         mgrVars
    <2>17. CASE releaseReadLock_reset(t)
      <3>1. /\ cur[t] \in Sids /\ alive[t] /\ pc[t] = "rrTest"
            /\ mode[t][cur[t]] = "none"
        BY <2>17 DEF releaseReadLock_reset, CountRead, CountWrite, At, Shape,
           ModeOfPC, UncountedPCs
      <3>2. /\ pc' = [pc EXCEPT ![t] = "rrNeg"] /\ mode' = mode
            /\ UNCHANGED <<cur, alive, slot, rcount, wcount, wwait>>
        BY <2>17, <3>1 DEF releaseReadLock_reset, CountRead, CountWrite, Goto,
           procVars, srcVars, Shape
      <3> QED
        BY <3>1, <3>2 DEF Shape, BooksInv, BooksOfLiving, BooksOfDead,
           RdBooked, WtBooked, WaitBooked
    <2>18. CASE releaseReadLock_throw(t)
      <3>1. /\ cur[t] \in Sids /\ alive[t] /\ unlockRdSrc(t, cur[t])
            /\ pc[t] = "rrNeg" /\ mode[t][cur[t]] = "none"
        BY <2>18 DEF releaseReadLock_throw, Book, At, Shape, ModeOfPC,
           UncountedPCs
      <3>2. /\ pc' = [pc EXCEPT ![t] = "unlk"] /\ UNCHANGED <<mode, alive, slot>>
            /\ cur' = cur
        BY <2>18 DEF releaseReadLock_throw, Book, Goto, procVars
      <3>3. rcount[t][cur[t]] = 1 /\ wcount[t][cur[t]] = 0 /\ wwait[t][cur[t]] = 0
        BY <3>1 DEF BooksInv, BooksOfLiving, BooksOfDead, RdBooked, WtBooked,
           WaitBooked
      <3>4. rcount[t][cur[t]] + wcount[t][cur[t]] + wwait[t][cur[t]] = 1
        BY <3>3
      <3>5. \A u \in Threads, x \in Sids :
                /\ rcount'[u][x] = IF u = t /\ x = cur[t] THEN 0 ELSE rcount[u][x]
                /\ wcount'[u][x] = IF u = t /\ x = cur[t] THEN 0 ELSE wcount[u][x]
                /\ wwait'[u][x] = IF u = t /\ x = cur[t] THEN 0 ELSE wwait[u][x]
        BY <3>1, <3>4, BookOut
      <3>8. BooksOfLiving'
        BY <3>1, <3>2, <3>5 DEF Shape, BooksInv, BooksOfLiving, BooksOfDead,
           RdBooked, WtBooked, WaitBooked
      <3>9. BooksOfDead'
        BY <3>1, <3>2, <3>5 DEF Shape, BooksInv, BooksOfDead
      <3> QED BY <3>8, <3>9 DEF BooksInv
    <2>19. CASE releaseReadLock_last(t)
      BY <2>19 DEF releaseReadLock_last, Broadcast, cond_broadcast, At, Goto,
         Shape, ModeOfPC, UncountedPCs, BooksInv, BooksOfLiving, BooksOfDead,
         RdBooked, WtBooked, WaitBooked, nodeVars, srcVars, threadVars,
         procVars, mgrVars
    <2>20. CASE releaseReadLock_more(t)
      BY <2>20 DEF releaseReadLock_more, DropMutex, mutex_unlock, At, Goto,
         Shape, ModeOfPC, UncountedPCs, BooksInv, BooksOfLiving, BooksOfDead,
         RdBooked, WtBooked, WaitBooked, nodeVars, srcVars, threadVars,
         procVars, mgrVars
    <2>21. CASE releaseReadLock_unlock(t)
      BY <2>21 DEF releaseReadLock_unlock, DropMutex, mutex_unlock, At, Goto,
         Shape, ModeOfPC, UncountedPCs, BooksInv, BooksOfLiving, BooksOfDead,
         RdBooked, WtBooked, WaitBooked, nodeVars, srcVars, threadVars,
         procVars, mgrVars
    <2>22. CASE releaseReadLock_unreg(t)
      <3>1. /\ cur[t] \in Sids /\ alive[t] /\ unlockRdSrc(t, cur[t])
            /\ pc[t] = "rrUnreg" /\ mode[t][cur[t]] = "none"
        BY <2>22 DEF releaseReadLock_unreg, Book, At, Shape, ModeOfPC,
           UncountedPCs
      <3>2. /\ pc' = [pc EXCEPT ![t] = "run"] /\ UNCHANGED <<mode, alive, slot>>
            /\ cur' = cur
        BY <2>22 DEF releaseReadLock_unreg, Book, Goto, procVars
      <3>3. rcount[t][cur[t]] = 1 /\ wcount[t][cur[t]] = 0 /\ wwait[t][cur[t]] = 0
        BY <3>1 DEF BooksInv, BooksOfLiving, BooksOfDead, RdBooked, WtBooked,
           WaitBooked
      <3>4. rcount[t][cur[t]] + wcount[t][cur[t]] + wwait[t][cur[t]] = 1
        BY <3>3
      <3>5. \A u \in Threads, x \in Sids :
                /\ rcount'[u][x] = IF u = t /\ x = cur[t] THEN 0 ELSE rcount[u][x]
                /\ wcount'[u][x] = IF u = t /\ x = cur[t] THEN 0 ELSE wcount[u][x]
                /\ wwait'[u][x] = IF u = t /\ x = cur[t] THEN 0 ELSE wwait[u][x]
        BY <3>1, <3>4, BookOut
      <3>8. BooksOfLiving'
        BY <3>1, <3>2, <3>5 DEF Shape, BooksInv, BooksOfLiving, BooksOfDead,
           RdBooked, WtBooked, WaitBooked
      <3>9. BooksOfDead'
        BY <3>1, <3>2, <3>5 DEF Shape, BooksInv, BooksOfDead
      <3> QED BY <3>8, <3>9 DEF BooksInv
    <2>23. CASE releaseWriteLock_dec(t)
      BY <2>23 DEF releaseWriteLock_dec, CountWrite, At, Goto, Shape,
         ModeOfPC, UncountedPCs, BooksInv, BooksOfLiving, BooksOfDead,
         RdBooked, WtBooked, WaitBooked, nodeVars, srcVars, threadVars,
         procVars, mgrVars
    <2>24. CASE releaseWriteLock_reset(t)
      <3>1. /\ cur[t] \in Sids /\ alive[t] /\ pc[t] = "wrTest"
            /\ mode[t][cur[t]] = "none"
        BY <2>24 DEF releaseWriteLock_reset, CountRead, CountWrite, At, Shape,
           ModeOfPC, UncountedPCs
      <3>2. /\ pc' = [pc EXCEPT ![t] = "wrUnreg"] /\ mode' = mode
            /\ UNCHANGED <<cur, alive, slot, rcount, wcount, wwait>>
        BY <2>24, <3>1 DEF releaseWriteLock_reset, CountRead, CountWrite, Goto,
           procVars, srcVars, Shape
      <3> QED
        BY <3>1, <3>2 DEF Shape, BooksInv, BooksOfLiving, BooksOfDead,
           RdBooked, WtBooked, WaitBooked
    <2>25. CASE releaseWriteLock_last(t)
      BY <2>25 DEF releaseWriteLock_last, Broadcast, cond_broadcast, At, Goto,
         Shape, ModeOfPC, UncountedPCs, BooksInv, BooksOfLiving, BooksOfDead,
         RdBooked, WtBooked, WaitBooked, nodeVars, srcVars, threadVars,
         procVars, mgrVars
    <2>26. CASE releaseWriteLock_unreg(t)
      <3>1. /\ cur[t] \in Sids /\ alive[t] /\ unlockWdSrc(t, cur[t])
            /\ pc[t] \in {"wrTest", "wrUnreg"} /\ mode[t][cur[t]] = "none"
        BY <2>26 DEF releaseWriteLock_unreg, Book, At, Shape, ModeOfPC,
           UncountedPCs
      <3>2. /\ pc' = [pc EXCEPT ![t] = "unlk"] /\ UNCHANGED <<mode, alive, slot>>
            /\ cur' = cur
        BY <2>26 DEF releaseWriteLock_unreg, Book, Goto, procVars
      <3>3. wcount[t][cur[t]] = 1 /\ rcount[t][cur[t]] = 0 /\ wwait[t][cur[t]] = 0
        BY <3>1 DEF BooksInv, BooksOfLiving, BooksOfDead, RdBooked, WtBooked,
           WaitBooked
      <3>4. rcount[t][cur[t]] + wcount[t][cur[t]] + wwait[t][cur[t]] = 1
        BY <3>3
      <3>5. \A u \in Threads, x \in Sids :
                /\ rcount'[u][x] = IF u = t /\ x = cur[t] THEN 0 ELSE rcount[u][x]
                /\ wcount'[u][x] = IF u = t /\ x = cur[t] THEN 0 ELSE wcount[u][x]
                /\ wwait'[u][x] = IF u = t /\ x = cur[t] THEN 0 ELSE wwait[u][x]
        BY <3>1, <3>4, BookOut
      <3>8. BooksOfLiving'
        BY <3>1, <3>2, <3>5 DEF Shape, BooksInv, BooksOfLiving, BooksOfDead,
           RdBooked, WtBooked, WaitBooked
      <3>9. BooksOfDead'
        BY <3>1, <3>2, <3>5 DEF Shape, BooksInv, BooksOfDead
      <3> QED BY <3>8, <3>9 DEF BooksInv
    <2>27. CASE unlock_return(t)
      BY <2>27 DEF unlock_return, DropMutex, mutex_unlock, At, Goto, Shape,
         ModeOfPC, UncountedPCs, BooksInv, BooksOfLiving, BooksOfDead,
         RdBooked, WtBooked, WaitBooked, nodeVars, srcVars, threadVars,
         procVars, mgrVars
    <2> QED
      BY <2>1, <2>2, <2>3, <2>4, <2>5, <2>6, <2>7, <2>8, <2>9, <2>10, <2>11,
         <2>12, <2>13, <2>14, <2>15, <2>16, <2>17, <2>18, <2>19, <2>20, <2>21,
         <2>22, <2>23, <2>24, <2>25, <2>26, <2>27 DEF Proceed
  <1>4. CASE \E t \in Threads : SpuriousWake(t) \/ Kill(t) \/ FindSlot(t)
    <2> PICK t \in Threads : SpuriousWake(t) \/ Kill(t) \/ FindSlot(t)
      BY <1>4
    <2>1. CASE SpuriousWake(t)
      BY <2>1 DEF SpuriousWake, Shape, ModeOfPC, UncountedPCs, BooksInv,
         BooksOfLiving, BooksOfDead, RdBooked, WtBooked, WaitBooked, nodeVars,
         srcVars, threadVars, procVars, mgrVars
    <2>2. CASE Kill(t)
      <3>1. /\ alive[t] /\ alive' = [alive EXCEPT ![t] = FALSE]
            /\ UNCHANGED <<rcount, wcount, wwait, slot, pc, cur, mode>>
        BY <2>2 DEF Kill, srcVars, threadVars
      <3>2. BooksOfLiving'
        BY <3>1 DEF Shape, BooksInv, BooksOfLiving, RdBooked, WtBooked,
           WaitBooked
      <3>3. ASSUME NEW s \in Sids
            PROVE  /\ rcount[t][s] \in {0, 1}
                   /\ wcount[t][s] \in {0, 1}
                   /\ wwait[t][s] \in {0, 1}
        BY <3>1 DEF BooksInv, BooksOfLiving
      <3>4. ASSUME NEW s \in Sids, ~slot[t]
            PROVE  rcount[t][s] = 0 /\ wcount[t][s] = 0 /\ wwait[t][s] = 0
        <4>1. pc[t] = "sTake" /\ mode[t][s] = "none"
          BY <3>1, <3>4 DEF Lifecycle, ModeOfPC
        <4> QED
          BY <3>1, <4>1 DEF BooksInv, BooksOfLiving, RdBooked, WtBooked,
             WaitBooked
      <3>5. BooksOfDead'
        BY <3>1, <3>3, <3>4 DEF Shape, BooksInv, BooksOfDead
      <3> QED BY <3>2, <3>5 DEF BooksInv
    <2>3. CASE setThreadSrcPos_lock(t)
      BY <2>3 DEF setThreadSrcPos_lock, Node0Free, Goto, Shape, ModeOfPC,
         UncountedPCs, BooksInv, BooksOfLiving, BooksOfDead, RdBooked,
         WtBooked, WaitBooked, Lifecycle, nodeVars, srcVars, threadVars,
         procVars, mgrVars
    <2>4. CASE setThreadSrcPos_take(t)
      BY <2>4 DEF setThreadSrcPos_take, ClearSlot, At, Goto, Shape, ModeOfPC,
         UncountedPCs, BooksInv, BooksOfLiving, BooksOfDead, RdBooked,
         WtBooked, WaitBooked, Lifecycle, nodeVars, srcVars, threadVars,
         procVars, mgrVars
    <2>5. CASE getThreadSrcPos_lock(t)
      BY <2>5 DEF getThreadSrcPos_lock, Node0Free, At, Goto, Shape, ModeOfPC,
         UncountedPCs, BooksInv, BooksOfLiving, BooksOfDead, RdBooked,
         WtBooked, WaitBooked, Lifecycle, nodeVars, srcVars, threadVars,
         procVars, mgrVars
    <2>6. CASE threadSrcPos_unlock(t)
      BY <2>6 DEF threadSrcPos_unlock, At, Goto, Shape, ModeOfPC,
         UncountedPCs, BooksInv, BooksOfLiving, BooksOfDead, RdBooked,
         WtBooked, WaitBooked, Lifecycle, nodeVars, srcVars, threadVars,
         procVars, mgrVars
    <2> QED BY <2>1, <2>2, <2>3, <2>4, <2>5, <2>6 DEF FindSlot
  <1>5. CASE \E s \in Sids : rollbackSrc(s)
    <2> PICK s \in Sids : rollbackSrc(s)
      BY <1>5
    <2>1. CASE rollbackSrc_read(s)
      BY <2>1 DEF rollbackSrc_read, GiveBack, Wakeup, cond_init,
         cond_broadcast, Add, Shape, ModeOfPC, UncountedPCs, BooksInv,
         BooksOfLiving, BooksOfDead, RdBooked, WtBooked, WaitBooked,
         Lifecycle, nodeVars, srcVars, threadVars, procVars, mgrVars
    <2>2. CASE rollbackSrc_write(s)
      BY <2>2 DEF rollbackSrc_write, GiveBack, Wakeup, cond_init,
         cond_broadcast, Add, Shape, ModeOfPC, UncountedPCs, BooksInv,
         BooksOfLiving, BooksOfDead, RdBooked, WtBooked, WaitBooked,
         Lifecycle, nodeVars, srcVars, threadVars, procVars, mgrVars
    <2>3. CASE rollbackSrc_wait(s)
      BY <2>3 DEF rollbackSrc_wait, GiveBack, Wakeup, cond_init,
         cond_broadcast, Add, Shape, ModeOfPC, UncountedPCs, BooksInv,
         BooksOfLiving, BooksOfDead, RdBooked, WtBooked, WaitBooked,
         Lifecycle, nodeVars, srcVars, threadVars, procVars, mgrVars
    <2>4. CASE rollbackSrc_force(s)
      BY <2>4 DEF rollbackSrc_force, mutex_unlock, InUse, Shape, ModeOfPC,
         UncountedPCs, BooksInv, BooksOfLiving, BooksOfDead, RdBooked,
         WtBooked, WaitBooked, nodeVars, srcVars, threadVars, procVars,
         mgrVars
    <2>5. CASE rollbackSrc_retry(s)
      BY <2>5 DEF rollbackSrc_retry, InUse, Shape, ModeOfPC, UncountedPCs,
         BooksInv, BooksOfLiving, BooksOfDead, RdBooked, WtBooked, WaitBooked,
         nodeVars, srcVars, threadVars, procVars, mgrVars
    <2> QED BY <2>1, <2>2, <2>3, <2>4, <2>5 DEF rollbackSrc
  <1>6. CASE getExitProcessInfo
    BY <1>6 DEF getExitProcessInfo, Shape, ModeOfPC, UncountedPCs, BooksInv,
       BooksOfLiving, BooksOfDead, RdBooked, WtBooked, WaitBooked, nodeVars,
       srcVars, threadVars, procVars, mgrVars
  <1>7. CASE rollbackSrc_begin
    BY <1>7 DEF rollbackSrc_begin, Node0Free, Shape, ModeOfPC, UncountedPCs, BooksInv,
       BooksOfLiving, BooksOfDead, RdBooked, WtBooked, WaitBooked, nodeVars,
       srcVars, threadVars, procVars, mgrVars
  <1>8. CASE rollbackSrc_end
    BY <1>8 DEF rollbackSrc_end, ClearSlot, InUse, Shape, ModeOfPC,
       UncountedPCs, BooksInv, BooksOfLiving, BooksOfDead, RdBooked, WtBooked,
       WaitBooked, Lifecycle, nodeVars, srcVars, threadVars, procVars, mgrVars
  <1>9. CASE UNCHANGED vars
    BY <1>9 DEF vars, Shape, ModeOfPC, UncountedPCs, BooksInv, BooksOfLiving,
       BooksOfDead, RdBooked, WtBooked, WaitBooked, nodeVars, srcVars,
       threadVars, procVars, mgrVars
  <1>10. CASE rollbackSrc_force0
    BY <1>10 DEF rollbackSrc_force0, Shape, ModeOfPC, UncountedPCs, BooksInv,
       BooksOfLiving, BooksOfDead, RdBooked, WtBooked, WaitBooked, nodeVars,
       srcVars, threadVars, procVars, mgrVars
  <1> QED
    BY <1>1, <1>2, <1>3, <1>4, <1>5, <1>6, <1>7, <1>8, <1>9, <1>10
    DEF Next, Manager

-----------------------------------------------------------------------------
(* The counters.  Seen from the counters a step lets one thread in, lets   *)
(* one thread out, or does nothing.                                        *)

ReadersStay ==
    /\ rdCount' = rdCount
    /\ \A u \in Threads, x \in Sids : Reads(u, x)' <=> Reads(u, x)
ReaderIn(t, s) ==
    /\ ~Reads(t, s) /\ wtCount[s] = 0 /\ wtWait[s] = 0
    /\ rdCount' = [rdCount EXCEPT ![s] = @ + 1]
    /\ \A u \in Threads, x \in Sids :
           Reads(u, x)' <=> Reads(u, x) \/ (u = t /\ x = s)
ReaderOut(t, s) ==
    /\ Reads(t, s)
    /\ rdCount' = [rdCount EXCEPT ![s] = @ - 1]
    /\ \A u \in Threads, x \in Sids :
           Reads(u, x)' <=> Reads(u, x) /\ ~(u = t /\ x = s)
ReaderMove ==
    \/ ReadersStay
    \/ \E t \in Threads, s \in Sids : ReaderIn(t, s) \/ ReaderOut(t, s)

WritersStay ==
    /\ wtCount' = wtCount
    /\ \A u \in Threads, x \in Sids : Writes(u, x)' <=> Writes(u, x)
WriterIn(t, s) ==
    /\ alive[t] /\ ~Writes(t, s) /\ rdCount[s] = 0 /\ wtCount[s] = 0
    /\ wtCount' = [wtCount EXCEPT ![s] = @ + 1]
    /\ \A u \in Threads, x \in Sids :
           Writes(u, x)' <=> Writes(u, x) \/ (u = t /\ x = s)
WriterOut(t, s) ==
    /\ Writes(t, s) /\ (alive[t] => ~Waits(t, s))
    /\ wtCount' = [wtCount EXCEPT ![s] = @ - 1]
    /\ \A u \in Threads, x \in Sids :
           Writes(u, x)' <=> Writes(u, x) /\ ~(u = t /\ x = s)
WriterMove ==
    \/ WritersStay
    \/ \E t \in Threads, s \in Sids : WriterIn(t, s) \/ WriterOut(t, s)

WaitersStay ==
    /\ wtWait' = wtWait
    /\ \A u \in Threads, x \in Sids : Waits(u, x)' <=> Waits(u, x)
WaiterIn(t, s) ==
    /\ alive[t] /\ ~Waits(t, s) /\ ~Reads(t, s) /\ ~Writes(t, s)
    /\ wtWait' = [wtWait EXCEPT ![s] = @ + 1]
    /\ \A u \in Threads, x \in Sids :
           Waits(u, x)' <=> Waits(u, x) \/ (u = t /\ x = s)
WaiterOut(t, s) ==
    /\ Waits(t, s)
    /\ wtWait' = [wtWait EXCEPT ![s] = @ - 1]
    /\ \A u \in Threads, x \in Sids :
           Waits(u, x)' <=> Waits(u, x) /\ ~(u = t /\ x = s)
WaiterMove ==
    \/ WaitersStay
    \/ \E t \in Threads, s \in Sids : WaiterIn(t, s) \/ WaiterOut(t, s)

Moves ==
    \/ ReaderMove /\ WritersStay /\ WaitersStay
    \/ ReadersStay /\ WriterMove /\ WaitersStay
    \/ ReadersStay /\ WritersStay /\ WaiterMove

\* A counter is a natural number, and it is zero when it counts nobody.
LEMMA CountersCount ==
    ASSUME CountersExact, NEW s \in Sids
    PROVE  /\ rdCount[s] \in Nat /\ (rdCount[s] = 0 <=> \A t \in Threads : ~Reads(t, s))
           /\ wtCount[s] \in Nat /\ (wtCount[s] = 0 <=> \A t \in Threads : ~Writes(t, s))
           /\ wtWait[s] \in Nat /\ (wtWait[s] = 0 <=> \A t \in Threads : ~Waits(t, s))
  <1>1. rdCount[s] \in Nat /\ (rdCount[s] = 0 <=> \A t \in Threads : ~Reads(t, s))
    <2>1. {u \in Threads : Reads(u, s)} \in SUBSET Threads
      OBVIOUS
    <2>2. IsFiniteSet({u \in Threads : Reads(u, s)})
      BY <2>1, FS_Subset, ThreadsAssumption
    <2> QED BY <2>2, FS_CardinalityType, FS_EmptySet DEF CountersExact
  <1>2. wtCount[s] \in Nat /\ (wtCount[s] = 0 <=> \A t \in Threads : ~Writes(t, s))
    <2>1. {u \in Threads : Writes(u, s)} \in SUBSET Threads
      OBVIOUS
    <2>2. IsFiniteSet({u \in Threads : Writes(u, s)})
      BY <2>1, FS_Subset, ThreadsAssumption
    <2> QED BY <2>2, FS_CardinalityType, FS_EmptySet DEF CountersExact
  <1>3. wtWait[s] \in Nat /\ (wtWait[s] = 0 <=> \A t \in Threads : ~Waits(t, s))
    <2>1. {u \in Threads : Waits(u, s)} \in SUBSET Threads
      OBVIOUS
    <2>2. IsFiniteSet({u \in Threads : Waits(u, s)})
      BY <2>1, FS_Subset, ThreadsAssumption
    <2> QED BY <2>2, FS_CardinalityType, FS_EmptySet DEF CountersExact
  <1> QED BY <1>1, <1>2, <1>3

\* One element more or less in a set of threads.
LEMMA OneMoreOneLess ==
    ASSUME NEW S \in SUBSET Threads, NEW T \in SUBSET Threads, NEW t \in Threads
    PROVE  /\ Cardinality(S) \in Nat
           /\ t \notin S /\ T = S \cup {t} => Cardinality(T) = Cardinality(S) + 1
           /\ t \in S /\ T = S \ {t} => Cardinality(T) = Cardinality(S) - 1
  <1>1. IsFiniteSet(S)
    BY FS_Subset, ThreadsAssumption
  <1> QED BY <1>1, FS_AddElement, FS_RemoveElement, FS_CardinalityType

\* Exact counters stay exact when the step is such a move.
LEMMA MovesCount ==
    ASSUME Shape, CountersExact, Moves
    PROVE  CountersExact'
  <1>1. ASSUME NEW x \in Sids
        PROVE  rdCount'[x] = Cardinality({u \in Threads : Reads(u, x)'})
    <2> DEFINE Old == {u \in Threads : Reads(u, x)}
               New == {u \in Threads : Reads(u, x)'}
    <2>1. rdCount[x] = Cardinality(Old) /\ Old \in SUBSET Threads /\ New \in SUBSET Threads
      BY DEF CountersExact
    <2>2. CASE ReadersStay
      <3>1. New = Old
        BY <2>2 DEF ReadersStay
      <3> QED BY <2>1, <2>2, <3>1 DEF ReadersStay
    <2>3. ASSUME NEW t \in Threads, NEW s \in Sids, ReaderIn(t, s) \/ ReaderOut(t, s), s # x
          PROVE  rdCount'[x] = Cardinality(New)
      <3>1. New = Old
        BY <2>3 DEF ReaderIn, ReaderOut
      <3> QED BY <2>1, <2>3, <3>1 DEF ReaderIn, ReaderOut, Shape
    <2>4. ASSUME NEW t \in Threads, ReaderIn(t, x)
          PROVE  rdCount'[x] = Cardinality(New)
      <3>1. t \notin Old /\ New = Old \cup {t}
        BY <2>4 DEF ReaderIn
      <3>2. Cardinality(New) = Cardinality(Old) + 1
        BY <2>1, <3>1, OneMoreOneLess
      <3> QED BY <2>1, <2>4, <3>2 DEF ReaderIn, Shape
    <2>5. ASSUME NEW t \in Threads, ReaderOut(t, x)
          PROVE  rdCount'[x] = Cardinality(New)
      <3>1. t \in Old /\ New = Old \ {t}
        BY <2>5 DEF ReaderOut
      <3>2. Cardinality(New) = Cardinality(Old) - 1
        BY <2>1, <3>1, OneMoreOneLess
      <3> QED BY <2>1, <2>5, <3>2 DEF ReaderOut, Shape
    <2> QED BY <2>2, <2>3, <2>4, <2>5 DEF Moves, ReaderMove
  <1>2. ASSUME NEW x \in Sids
        PROVE  wtCount'[x] = Cardinality({u \in Threads : Writes(u, x)'})
    <2> DEFINE Old == {u \in Threads : Writes(u, x)}
               New == {u \in Threads : Writes(u, x)'}
    <2>1. wtCount[x] = Cardinality(Old) /\ Old \in SUBSET Threads /\ New \in SUBSET Threads
      BY DEF CountersExact
    <2>2. CASE WritersStay
      <3>1. New = Old
        BY <2>2 DEF WritersStay
      <3> QED BY <2>1, <2>2, <3>1 DEF WritersStay
    <2>3. ASSUME NEW t \in Threads, NEW s \in Sids, WriterIn(t, s) \/ WriterOut(t, s), s # x
          PROVE  wtCount'[x] = Cardinality(New)
      <3>1. New = Old
        BY <2>3 DEF WriterIn, WriterOut
      <3> QED BY <2>1, <2>3, <3>1 DEF WriterIn, WriterOut, Shape
    <2>4. ASSUME NEW t \in Threads, WriterIn(t, x)
          PROVE  wtCount'[x] = Cardinality(New)
      <3>1. t \notin Old /\ New = Old \cup {t}
        BY <2>4 DEF WriterIn
      <3>2. Cardinality(New) = Cardinality(Old) + 1
        BY <2>1, <3>1, OneMoreOneLess
      <3> QED BY <2>1, <2>4, <3>2 DEF WriterIn, Shape
    <2>5. ASSUME NEW t \in Threads, WriterOut(t, x)
          PROVE  wtCount'[x] = Cardinality(New)
      <3>1. t \in Old /\ New = Old \ {t}
        BY <2>5 DEF WriterOut
      <3>2. Cardinality(New) = Cardinality(Old) - 1
        BY <2>1, <3>1, OneMoreOneLess
      <3> QED BY <2>1, <2>5, <3>2 DEF WriterOut, Shape
    <2> QED BY <2>2, <2>3, <2>4, <2>5 DEF Moves, WriterMove
  <1>3. ASSUME NEW x \in Sids
        PROVE  wtWait'[x] = Cardinality({u \in Threads : Waits(u, x)'})
    <2> DEFINE Old == {u \in Threads : Waits(u, x)}
               New == {u \in Threads : Waits(u, x)'}
    <2>1. wtWait[x] = Cardinality(Old) /\ Old \in SUBSET Threads /\ New \in SUBSET Threads
      BY DEF CountersExact
    <2>2. CASE WaitersStay
      <3>1. New = Old
        BY <2>2 DEF WaitersStay
      <3> QED BY <2>1, <2>2, <3>1 DEF WaitersStay
    <2>3. ASSUME NEW t \in Threads, NEW s \in Sids, WaiterIn(t, s) \/ WaiterOut(t, s), s # x
          PROVE  wtWait'[x] = Cardinality(New)
      <3>1. New = Old
        BY <2>3 DEF WaiterIn, WaiterOut
      <3> QED BY <2>1, <2>3, <3>1 DEF WaiterIn, WaiterOut, Shape
    <2>4. ASSUME NEW t \in Threads, WaiterIn(t, x)
          PROVE  wtWait'[x] = Cardinality(New)
      <3>1. t \notin Old /\ New = Old \cup {t}
        BY <2>4 DEF WaiterIn
      <3>2. Cardinality(New) = Cardinality(Old) + 1
        BY <2>1, <3>1, OneMoreOneLess
      <3> QED BY <2>1, <2>4, <3>2 DEF WaiterIn, Shape
    <2>5. ASSUME NEW t \in Threads, WaiterOut(t, x)
          PROVE  wtWait'[x] = Cardinality(New)
      <3>1. t \in Old /\ New = Old \ {t}
        BY <2>5 DEF WaiterOut
      <3>2. Cardinality(New) = Cardinality(Old) - 1
        BY <2>1, <3>1, OneMoreOneLess
      <3> QED BY <2>1, <2>5, <3>2 DEF WaiterOut, Shape
    <2> QED BY <2>2, <2>3, <2>4, <2>5 DEF Moves, WaiterMove
  <1> QED BY <1>1, <1>2, <1>3 DEF CountersExact

\* A lock is only given when its counters are zero, so the step excludes.
LEMMA MovesExclude ==
    ASSUME CountersExact, StrongExclusion, Moves
    PROVE  StrongExclusion'
  <1> SUFFICES ASSUME NEW x \in Sids, NEW t \in Threads, NEW u \in Threads,
                      t # u, Writes(t, x)'
               PROVE  ~Reads(u, x)' /\ ~Writes(u, x)'
    BY DEF StrongExclusion
  <1>1. CASE Writes(t, x)
    <2>1. ~Reads(u, x) /\ ~Writes(u, x)
      BY <1>1 DEF StrongExclusion
    <2>2. wtCount[x] # 0
      BY <1>1, CountersCount
    <2> QED BY <2>1, <2>2 DEF Moves, ReaderMove, ReadersStay, ReaderIn,
                              ReaderOut, WriterMove, WritersStay, WriterIn,
                              WriterOut
  <1>2. CASE ~Writes(t, x)
    <2>1. WriterIn(t, x) /\ ReadersStay
      BY <1>2 DEF Moves, WriterMove, WritersStay, WriterIn, WriterOut
    <2>2. ~Reads(u, x) /\ ~Writes(u, x)
      BY <2>1, CountersCount DEF WriterIn
    <2> QED BY <2>1, <2>2 DEF ReadersStay, WriterIn
  <1> QED BY <1>1, <1>2

\* Registering or deregistering leaves the slots of other threads alone.
LEMMA BookOthers ==
    ASSUME Shape, NEW t \in Threads, NEW s \in Sids,
           \/ lockRdSrc(t, s) \/ lockWdSrc(t, s) \/ lockWWaitSrc(t, s)
           \/ unlockRdSrc(t, s) \/ unlockWdSrc(t, s) \/ unlockWWaitSrc(t, s)
    PROVE  \A u \in Threads : u # t =>
               /\ rcount'[u] = rcount[u]
               /\ wcount'[u] = wcount[u]
               /\ wwait'[u] = wwait[u]
  BY DEF lockRdSrc, lockWdSrc, lockWWaitSrc, unlockRdSrc, unlockWdSrc,
         unlockWWaitSrc, Leave, Add, Wipe, Shape

LEMMA MovesStep ==
    ASSUME Shape, Lifecycle, ModeOfPC, BooksInv, CountersExact, CleanKills,
           [Next]_vars
    PROVE  Moves
  <1>1. CASE \E t \in Threads : Request(t) \/ Release(t)
    <2> SUFFICES ASSUME NEW t \in Threads, NEW s \in Sids,
                        \/ getReadLock_call(t, s)
                        \/ getWriteLock_call(t, s)
                        \/ getReadLockNoWait_call(t, s)
                        \/ getWriteLockNoWait_call(t, s)
                        \/ releaseReadLock_call(t, s)
                        \/ releaseWriteLock_call(t, s)
                 PROVE  Moves
      BY <1>1 DEF Request, Release
    <2>1. CASE getReadLock_call(t, s)
      <3>1. lockRdSrc(t, s) /\ cur[t] \in Sids /\ alive[t]
        BY <2>1 DEF getReadLock_call, Call, At, Shape
      <3>2. \A u \in Threads : ~alive[u] =>
                /\ rcount'[u] = rcount[u]
                /\ wcount'[u] = wcount[u]
                /\ wwait'[u] = wwait[u]
        BY <3>1, BookOthers
      <3>3. ReadersStay /\ WritersStay /\ WaitersStay
        BY <2>1, <3>2 DEF getReadLock_call, Call, At, Goto, Shape, Reads,
           Writes, Waits, ReadersStay, WritersStay, WaitersStay, nodeVars,
           srcVars, threadVars, procVars, mgrVars
      <3> QED BY <3>3 DEF Moves, ReaderMove
    <2>2. CASE getWriteLock_call(t, s)
      <3>1. ReadersStay /\ WritersStay /\ WaitersStay
        BY <2>2 DEF getWriteLock_call, Call, At, Goto, Shape, Reads, Writes,
           Waits, ReadersStay, WritersStay, WaitersStay, nodeVars, srcVars,
           threadVars, procVars, mgrVars
      <3> QED BY <3>1 DEF Moves, ReaderMove
    <2>3. CASE getReadLockNoWait_call(t, s)
      <3>1. ReadersStay /\ WritersStay /\ WaitersStay
        BY <2>3 DEF getReadLockNoWait_call, Call, At, Goto, mutex_lock, Shape,
           Reads, Writes, Waits, ReadersStay, WritersStay, WaitersStay,
           nodeVars, srcVars, threadVars, procVars, mgrVars
      <3> QED BY <3>1 DEF Moves, ReaderMove
    <2>4. CASE getWriteLockNoWait_call(t, s)
      <3>1. ReadersStay /\ WritersStay /\ WaitersStay
        BY <2>4 DEF getWriteLockNoWait_call, Call, At, Goto, mutex_lock, Shape,
           Reads, Writes, Waits, ReadersStay, WritersStay, WaitersStay,
           nodeVars, srcVars, threadVars, procVars, mgrVars
      <3> QED BY <3>1 DEF Moves, ReaderMove
    <2>5. CASE releaseReadLock_call(t, s)
      <3>1. ReadersStay /\ WritersStay /\ WaitersStay
        BY <2>5 DEF releaseReadLock_call, Call, At, Goto, Shape, Reads, Writes,
           Waits, ReadersStay, WritersStay, WaitersStay, nodeVars, srcVars,
           threadVars, procVars, mgrVars
      <3> QED BY <3>1 DEF Moves, ReaderMove
    <2>6. CASE releaseWriteLock_call(t, s)
      <3>1. ReadersStay /\ WritersStay /\ WaitersStay
        BY <2>6 DEF releaseWriteLock_call, Call, At, Goto, Shape, Reads,
           Writes, Waits, ReadersStay, WritersStay, WaitersStay, nodeVars,
           srcVars, threadVars, procVars, mgrVars
      <3> QED BY <3>1 DEF Moves, ReaderMove
    <2> QED BY <2>1, <2>2, <2>3, <2>4, <2>5, <2>6
  <1>2. CASE \E t \in Threads : Acquire(t)
    <2> PICK t \in Threads : Acquire(t)
      BY <1>2
    <2>1. CASE getReadLock_lock(t)
      <3>1. ReadersStay /\ WritersStay /\ WaitersStay
        BY <2>1 DEF getReadLock_lock, TakeMutex, mutex_lock, At, Goto, Shape,
           Reads, Writes, Waits, ReadersStay, WritersStay, WaitersStay,
           nodeVars, srcVars, threadVars, procVars, mgrVars
      <3> QED BY <3>1 DEF Moves, ReaderMove
    <2>2. CASE getReadLock_wake(t)
      <3>1. ReadersStay /\ WritersStay /\ WaitersStay
        BY <2>2 DEF getReadLock_wake, Rewaken, TakeMutex, mutex_lock, At, Goto,
           Shape, Reads, Writes, Waits, ReadersStay, WritersStay, WaitersStay,
           nodeVars, srcVars, threadVars, procVars, mgrVars
      <3> QED BY <3>1 DEF Moves, ReaderMove
    <2>3. CASE getWriteLock_lock(t)
      <3>1. ReadersStay /\ WritersStay /\ WaitersStay
        BY <2>3 DEF getWriteLock_lock, TakeMutex, mutex_lock, At, Goto, Shape,
           Reads, Writes, Waits, ReadersStay, WritersStay, WaitersStay,
           nodeVars, srcVars, threadVars, procVars, mgrVars
      <3> QED BY <3>1 DEF Moves, ReaderMove
    <2>4. CASE getWriteLock_wake(t)
      <3>1. ReadersStay /\ WritersStay /\ WaitersStay
        BY <2>4 DEF getWriteLock_wake, Rewaken, TakeMutex, mutex_lock, At,
           Goto, Shape, Reads, Writes, Waits, ReadersStay, WritersStay,
           WaitersStay, nodeVars, srcVars, threadVars, procVars, mgrVars
      <3> QED BY <3>1 DEF Moves, ReaderMove
    <2>5. CASE releaseReadLock_lock(t)
      <3>1. ReadersStay /\ WritersStay /\ WaitersStay
        BY <2>5 DEF releaseReadLock_lock, TakeMutex, mutex_lock, At, Goto,
           Shape, Reads, Writes, Waits, ReadersStay, WritersStay, WaitersStay,
           nodeVars, srcVars, threadVars, procVars, mgrVars
      <3> QED BY <3>1 DEF Moves, ReaderMove
    <2>6. CASE releaseWriteLock_lock(t)
      <3>1. ReadersStay /\ WritersStay /\ WaitersStay
        BY <2>6 DEF releaseWriteLock_lock, TakeMutex, mutex_lock, At, Goto,
           Shape, Reads, Writes, Waits, ReadersStay, WritersStay, WaitersStay,
           nodeVars, srcVars, threadVars, procVars, mgrVars
      <3> QED BY <3>1 DEF Moves, ReaderMove
    <2> QED
      BY <2>1, <2>2, <2>3, <2>4, <2>5, <2>6 DEF Acquire
  <1>3. CASE \E t \in Threads : Proceed(t)
    <2> PICK t \in Threads : Proceed(t)
      BY <1>3
    <2>1. CASE getReadLock_wait(t)
      <3>1. ReadersStay /\ WritersStay /\ WaitersStay
        BY <2>1 DEF getReadLock_wait, Sleep, cond_wait, mutex_unlock, At, Goto,
           Shape, Reads, Writes, Waits, ReadersStay, WritersStay, WaitersStay,
           nodeVars, srcVars, threadVars, procVars, mgrVars
      <3> QED BY <3>1 DEF Moves, ReaderMove
    <2>2. CASE getReadLock_enter(t)
      <3>0. cur[t] \in Sids /\ alive[t]
        BY <2>2 DEF getReadLock_enter, CountRead, At, Shape
      <3>1. /\ cur[t] \in Sids /\ alive[t]
            /\ wtCount[cur[t]] = 0 /\ wtWait[cur[t]] = 0
        BY <2>2, <3>0, CountersCount DEF getReadLock_enter, WriterPresent
      <3>8. ReaderIn(t, cur[t])
        BY <2>2, <3>1 DEF getReadLock_enter, CountRead, At, Goto, ModeOfPC,
           UncountedPCs, Shape, ReaderIn, Reads, nodeVars, srcVars,
           threadVars, procVars, mgrVars
      <3>9. WritersStay /\ WaitersStay
        BY <2>2, <3>1 DEF getReadLock_enter, CountRead, At, Goto, ModeOfPC,
           UncountedPCs, Shape, WritersStay, WaitersStay, Writes, Waits,
           nodeVars, srcVars, threadVars, procVars, mgrVars
      <3> QED BY <3>8, <3>9, <3>1 DEF Moves, ReaderMove, Shape
    <2>3. CASE getWriteLock_incWait(t)
      <3>1. cur[t] \in Sids /\ alive[t]
        BY <2>3 DEF getWriteLock_incWait, CountWait, At, Shape
      <3>8. WaiterIn(t, cur[t])
        BY <2>3, <3>1 DEF getWriteLock_incWait, CountWait, At, Goto, Shape,
           ModeOfPC, UncountedPCs, WaiterIn, Reads, Writes, Waits, nodeVars, srcVars, threadVars, procVars, mgrVars
      <3>9. ReadersStay /\ WritersStay
        BY <2>3, <3>1 DEF getWriteLock_incWait, CountWait, At, Goto, Shape,
           ReadersStay, WritersStay, Reads, Writes, nodeVars, srcVars,
           threadVars, procVars, mgrVars
      <3> QED BY <3>8, <3>9, <3>1 DEF Moves, WaiterMove, Shape
    <2>4. CASE getWriteLock_regWait(t)
      <3>1. lockWWaitSrc(t, cur[t]) /\ cur[t] \in Sids /\ alive[t]
        BY <2>4 DEF getWriteLock_regWait, Book, At, Shape
      <3>2. \A u \in Threads : ~alive[u] =>
                /\ rcount'[u] = rcount[u]
                /\ wcount'[u] = wcount[u]
                /\ wwait'[u] = wwait[u]
        BY <3>1, BookOthers
      <3>3. ReadersStay /\ WritersStay /\ WaitersStay
        BY <2>4, <3>2 DEF getWriteLock_regWait, Book, At, Goto, Shape, Reads,
           Writes, Waits, ReadersStay, WritersStay, WaitersStay, nodeVars,
           srcVars, threadVars, procVars, mgrVars
      <3> QED BY <3>3 DEF Moves, ReaderMove
    <2>5. CASE getWriteLock_wait(t)
      <3>1. ReadersStay /\ WritersStay /\ WaitersStay
        BY <2>5 DEF getWriteLock_wait, Sleep, cond_wait, mutex_unlock, At,
           Goto, Shape, Reads, Writes, Waits, ReadersStay, WritersStay,
           WaitersStay, nodeVars, srcVars, threadVars, procVars, mgrVars
      <3> QED BY <3>1 DEF Moves, ReaderMove
    <2>6. CASE getWriteLock_enter(t)
      <3>0. cur[t] \in Sids /\ alive[t]
        BY <2>6 DEF getWriteLock_enter, CountWrite, At, Shape
      <3>1. /\ cur[t] \in Sids /\ alive[t]
            /\ wtCount[cur[t]] = 0 /\ rdCount[cur[t]] = 0
        BY <2>6, <3>0, CountersCount DEF getWriteLock_enter, Occupied
      <3>8. WriterIn(t, cur[t])
        BY <2>6, <3>1 DEF getWriteLock_enter, CountWrite, At, Goto, ModeOfPC,
           UncountedPCs, Shape, WriterIn, Writes, nodeVars, srcVars,
           threadVars, procVars, mgrVars
      <3>9. ReadersStay /\ WaitersStay
        BY <2>6, <3>1 DEF getWriteLock_enter, CountWrite, At, Goto, ModeOfPC,
           UncountedPCs, Shape, ReadersStay, WaitersStay, Reads, Waits,
           nodeVars, srcVars, threadVars, procVars, mgrVars
      <3> QED BY <3>8, <3>9, <3>1 DEF Moves, WriterMove, Shape
    <2>7. CASE getWriteLock_decWait(t)
      <3>1. cur[t] \in Sids /\ alive[t]
        BY <2>7 DEF getWriteLock_decWait, CountWait, At, Shape
      <3>8. WaiterOut(t, cur[t])
        BY <2>7, <3>1 DEF getWriteLock_decWait, CountWait, At, Goto, Shape,
           WaiterOut, Waits, nodeVars, srcVars, threadVars, procVars, mgrVars
      <3>9. ReadersStay /\ WritersStay
        BY <2>7, <3>1 DEF getWriteLock_decWait, CountWait, At, Goto, Shape,
           ReadersStay, WritersStay, Reads, Writes, nodeVars, srcVars,
           threadVars, procVars, mgrVars
      <3> QED BY <3>8, <3>9, <3>1 DEF Moves, WaiterMove, Shape
    <2>8. CASE getWriteLock_unregWait(t)
      <3>1. unlockWWaitSrc(t, cur[t]) /\ cur[t] \in Sids /\ alive[t]
        BY <2>8 DEF getWriteLock_unregWait, Book, At, Shape
      <3>2. \A u \in Threads : ~alive[u] =>
                /\ rcount'[u] = rcount[u]
                /\ wcount'[u] = wcount[u]
                /\ wwait'[u] = wwait[u]
        BY <3>1, BookOthers
      <3>3. ReadersStay /\ WritersStay /\ WaitersStay
        BY <2>8, <3>2 DEF getWriteLock_unregWait, Book, At, Goto, Shape, Reads,
           Writes, Waits, ReadersStay, WritersStay, WaitersStay, nodeVars,
           srcVars, threadVars, procVars, mgrVars
      <3> QED BY <3>3 DEF Moves, ReaderMove
    <2>9. CASE getWriteLock_reg(t)
      <3>1. lockWdSrc(t, cur[t]) /\ cur[t] \in Sids /\ alive[t]
        BY <2>9 DEF getWriteLock_reg, Book, At, Shape
      <3>2. \A u \in Threads : ~alive[u] =>
                /\ rcount'[u] = rcount[u]
                /\ wcount'[u] = wcount[u]
                /\ wwait'[u] = wwait[u]
        BY <3>1, BookOthers
      <3>3. ReadersStay /\ WritersStay /\ WaitersStay
        BY <2>9, <3>2 DEF getWriteLock_reg, Book, At, Goto, Shape, Reads,
           Writes, Waits, ReadersStay, WritersStay, WaitersStay, nodeVars,
           srcVars, threadVars, procVars, mgrVars
      <3> QED BY <3>3 DEF Moves, ReaderMove
    <2>10. CASE getReadLockNoWait_refuse(t)
      <3>1. ReadersStay /\ WritersStay /\ WaitersStay
        BY <2>10 DEF getReadLockNoWait_refuse, DropMutex, mutex_unlock, At,
           Goto, Shape, Reads, Writes, Waits, ReadersStay, WritersStay,
           WaitersStay, nodeVars, srcVars, threadVars, procVars, mgrVars
      <3> QED BY <3>1 DEF Moves, ReaderMove
    <2>11. CASE getReadLockNoWait_enter(t)
      <3>0. cur[t] \in Sids /\ alive[t]
        BY <2>11 DEF getReadLockNoWait_enter, CountRead, At, Shape
      <3>1. /\ cur[t] \in Sids /\ alive[t]
            /\ wtCount[cur[t]] = 0 /\ wtWait[cur[t]] = 0
        BY <2>11, <3>0, CountersCount DEF getReadLockNoWait_enter, WriterPresent
      <3>8. ReaderIn(t, cur[t])
        BY <2>11, <3>1 DEF getReadLockNoWait_enter, CountRead, At, Goto,
           ModeOfPC, UncountedPCs, Shape, ReaderIn, Reads, nodeVars, srcVars,
           threadVars, procVars, mgrVars
      <3>9. WritersStay /\ WaitersStay
        BY <2>11, <3>1 DEF getReadLockNoWait_enter, CountRead, At, Goto,
           ModeOfPC, UncountedPCs, Shape, WritersStay, WaitersStay, Writes,
           Waits, nodeVars, srcVars, threadVars, procVars, mgrVars
      <3> QED BY <3>8, <3>9, <3>1 DEF Moves, ReaderMove, Shape
    <2>12. CASE getReadLockNoWait_reg(t)
      <3>1. lockRdSrc(t, cur[t]) /\ cur[t] \in Sids /\ alive[t]
        BY <2>12 DEF getReadLockNoWait_reg, Book, At, Shape
      <3>2. \A u \in Threads : ~alive[u] =>
                /\ rcount'[u] = rcount[u]
                /\ wcount'[u] = wcount[u]
                /\ wwait'[u] = wwait[u]
        BY <3>1, BookOthers
      <3>3. ReadersStay /\ WritersStay /\ WaitersStay
        BY <2>12, <3>2 DEF getReadLockNoWait_reg, Book, At, Goto, Shape, Reads,
           Writes, Waits, ReadersStay, WritersStay, WaitersStay, nodeVars,
           srcVars, threadVars, procVars, mgrVars
      <3> QED BY <3>3 DEF Moves, ReaderMove
    <2>13. CASE getWriteLockNoWait_refuse(t)
      <3>1. ReadersStay /\ WritersStay /\ WaitersStay
        BY <2>13 DEF getWriteLockNoWait_refuse, DropMutex, mutex_unlock, At,
           Goto, Shape, Reads, Writes, Waits, ReadersStay, WritersStay,
           WaitersStay, nodeVars, srcVars, threadVars, procVars, mgrVars
      <3> QED BY <3>1 DEF Moves, ReaderMove
    <2>14. CASE getWriteLockNoWait_enter(t)
      <3>0. cur[t] \in Sids /\ alive[t]
        BY <2>14 DEF getWriteLockNoWait_enter, CountWrite, At, Shape
      <3>1. /\ cur[t] \in Sids /\ alive[t]
            /\ wtCount[cur[t]] = 0 /\ rdCount[cur[t]] = 0
        BY <2>14, <3>0, CountersCount DEF getWriteLockNoWait_enter, Occupied
      <3>8. WriterIn(t, cur[t])
        BY <2>14, <3>1 DEF getWriteLockNoWait_enter, CountWrite, At, Goto,
           ModeOfPC, UncountedPCs, Shape, WriterIn, Writes, nodeVars, srcVars,
           threadVars, procVars, mgrVars
      <3>9. ReadersStay /\ WaitersStay
        BY <2>14, <3>1 DEF getWriteLockNoWait_enter, CountWrite, At, Goto,
           ModeOfPC, UncountedPCs, Shape, ReadersStay, WaitersStay, Reads,
           Waits, nodeVars, srcVars, threadVars, procVars, mgrVars
      <3> QED BY <3>8, <3>9, <3>1 DEF Moves, WriterMove, Shape
    <2>15. CASE getWriteLockNoWait_reg(t)
      <3>1. lockWdSrc(t, cur[t]) /\ cur[t] \in Sids /\ alive[t]
        BY <2>15 DEF getWriteLockNoWait_reg, Book, At, Shape
      <3>2. \A u \in Threads : ~alive[u] =>
                /\ rcount'[u] = rcount[u]
                /\ wcount'[u] = wcount[u]
                /\ wwait'[u] = wwait[u]
        BY <3>1, BookOthers
      <3>3. ReadersStay /\ WritersStay /\ WaitersStay
        BY <2>15, <3>2 DEF getWriteLockNoWait_reg, Book, At, Goto, Shape, Reads,
           Writes, Waits, ReadersStay, WritersStay, WaitersStay, nodeVars,
           srcVars, threadVars, procVars, mgrVars
      <3> QED BY <3>3 DEF Moves, ReaderMove
    <2>16. CASE releaseReadLock_dec(t)
      <3>1. cur[t] \in Sids /\ alive[t]
        BY <2>16 DEF releaseReadLock_dec, CountRead, At, Shape
      <3>8. ReaderOut(t, cur[t])
        BY <2>16, <3>1 DEF releaseReadLock_dec, CountRead, At, Goto, ModeOfPC,
           Shape, ReaderOut, Reads, nodeVars, srcVars, threadVars, procVars,
           mgrVars
      <3>9. WritersStay /\ WaitersStay
        BY <2>16, <3>1 DEF releaseReadLock_dec, CountRead, At, Goto, ModeOfPC,
           Shape, WritersStay, WaitersStay, Writes, Waits, nodeVars, srcVars,
           threadVars, procVars, mgrVars
      <3> QED BY <3>8, <3>9, <3>1 DEF Moves, ReaderMove, Shape
    <2>17. CASE releaseReadLock_reset(t)
      <3>1. cur[t] \in Sids /\ rdCount[cur[t]] < 0
        BY <2>17 DEF releaseReadLock_reset, Shape
      <3> QED BY <3>1, CountersCount
    <2>18. CASE releaseReadLock_throw(t)
      <3>1. unlockRdSrc(t, cur[t]) /\ cur[t] \in Sids /\ alive[t]
        BY <2>18 DEF releaseReadLock_throw, Book, At, Shape
      <3>2. \A u \in Threads : ~alive[u] =>
                /\ rcount'[u] = rcount[u]
                /\ wcount'[u] = wcount[u]
                /\ wwait'[u] = wwait[u]
        BY <3>1, BookOthers
      <3>3. ReadersStay /\ WritersStay /\ WaitersStay
        BY <2>18, <3>2 DEF releaseReadLock_throw, Book, At, Goto, Shape, Reads,
           Writes, Waits, ReadersStay, WritersStay, WaitersStay, nodeVars,
           srcVars, threadVars, procVars, mgrVars
      <3> QED BY <3>3 DEF Moves, ReaderMove
    <2>19. CASE releaseReadLock_last(t)
      <3>1. ReadersStay /\ WritersStay /\ WaitersStay
        BY <2>19 DEF releaseReadLock_last, Broadcast, cond_broadcast, At, Goto,
           Shape, Reads, Writes, Waits, ReadersStay, WritersStay, WaitersStay,
           nodeVars, srcVars, threadVars, procVars, mgrVars
      <3> QED BY <3>1 DEF Moves, ReaderMove
    <2>20. CASE releaseReadLock_more(t)
      <3>1. ReadersStay /\ WritersStay /\ WaitersStay
        BY <2>20 DEF releaseReadLock_more, DropMutex, mutex_unlock, At, Goto,
           Shape, Reads, Writes, Waits, ReadersStay, WritersStay, WaitersStay,
           nodeVars, srcVars, threadVars, procVars, mgrVars
      <3> QED BY <3>1 DEF Moves, ReaderMove
    <2>21. CASE releaseReadLock_unlock(t)
      <3>1. ReadersStay /\ WritersStay /\ WaitersStay
        BY <2>21 DEF releaseReadLock_unlock, DropMutex, mutex_unlock, At, Goto,
           Shape, Reads, Writes, Waits, ReadersStay, WritersStay, WaitersStay,
           nodeVars, srcVars, threadVars, procVars, mgrVars
      <3> QED BY <3>1 DEF Moves, ReaderMove
    <2>22. CASE releaseReadLock_unreg(t)
      <3>1. unlockRdSrc(t, cur[t]) /\ cur[t] \in Sids /\ alive[t]
        BY <2>22 DEF releaseReadLock_unreg, Book, At, Shape
      <3>2. \A u \in Threads : ~alive[u] =>
                /\ rcount'[u] = rcount[u]
                /\ wcount'[u] = wcount[u]
                /\ wwait'[u] = wwait[u]
        BY <3>1, BookOthers
      <3>3. ReadersStay /\ WritersStay /\ WaitersStay
        BY <2>22, <3>2 DEF releaseReadLock_unreg, Book, At, Goto, Shape, Reads,
           Writes, Waits, ReadersStay, WritersStay, WaitersStay, nodeVars,
           srcVars, threadVars, procVars, mgrVars
      <3> QED BY <3>3 DEF Moves, ReaderMove
    <2>23. CASE releaseWriteLock_dec(t)
      <3>1. cur[t] \in Sids /\ alive[t]
        BY <2>23 DEF releaseWriteLock_dec, CountWrite, At, Shape
      <3>8. WriterOut(t, cur[t])
        BY <2>23, <3>1 DEF releaseWriteLock_dec, CountWrite, At, Goto, ModeOfPC,
           Shape, WriterOut, Writes, Waits, nodeVars, srcVars, threadVars,
           procVars, mgrVars
      <3>9. ReadersStay /\ WaitersStay
        BY <2>23, <3>1 DEF releaseWriteLock_dec, CountWrite, At, Goto, ModeOfPC,
           Shape, ReadersStay, WaitersStay, Reads, Waits, nodeVars, srcVars,
           threadVars, procVars, mgrVars
      <3> QED BY <3>8, <3>9, <3>1 DEF Moves, WriterMove, Shape
    <2>24. CASE releaseWriteLock_reset(t)
      <3>1. cur[t] \in Sids /\ wtCount[cur[t]] < 0
        BY <2>24 DEF releaseWriteLock_reset, Shape
      <3> QED BY <3>1, CountersCount
    <2>25. CASE releaseWriteLock_last(t)
      <3>1. ReadersStay /\ WritersStay /\ WaitersStay
        BY <2>25 DEF releaseWriteLock_last, Broadcast, cond_broadcast, At, Goto,
           Shape, Reads, Writes, Waits, ReadersStay, WritersStay, WaitersStay,
           nodeVars, srcVars, threadVars, procVars, mgrVars
      <3> QED BY <3>1 DEF Moves, ReaderMove
    <2>26. CASE releaseWriteLock_unreg(t)
      <3>1. unlockWdSrc(t, cur[t]) /\ cur[t] \in Sids /\ alive[t]
        BY <2>26 DEF releaseWriteLock_unreg, Book, At, Shape
      <3>2. \A u \in Threads : ~alive[u] =>
                /\ rcount'[u] = rcount[u]
                /\ wcount'[u] = wcount[u]
                /\ wwait'[u] = wwait[u]
        BY <3>1, BookOthers
      <3>3. ReadersStay /\ WritersStay /\ WaitersStay
        BY <2>26, <3>2 DEF releaseWriteLock_unreg, Book, At, Goto, Shape, Reads,
           Writes, Waits, ReadersStay, WritersStay, WaitersStay, nodeVars,
           srcVars, threadVars, procVars, mgrVars
      <3> QED BY <3>3 DEF Moves, ReaderMove
    <2>27. CASE unlock_return(t)
      <3>1. ReadersStay /\ WritersStay /\ WaitersStay
        BY <2>27 DEF unlock_return, DropMutex, mutex_unlock, At, Goto, Shape,
           Reads, Writes, Waits, ReadersStay, WritersStay, WaitersStay,
           nodeVars, srcVars, threadVars, procVars, mgrVars
      <3> QED BY <3>1 DEF Moves, ReaderMove
    <2> QED
      BY <2>1, <2>2, <2>3, <2>4, <2>5, <2>6, <2>7, <2>8, <2>9, <2>10, <2>11,
         <2>12, <2>13, <2>14, <2>15, <2>16, <2>17, <2>18, <2>19, <2>20, <2>21,
         <2>22, <2>23, <2>24, <2>25, <2>26, <2>27 DEF Proceed
  <1>4. CASE \E t \in Threads : SpuriousWake(t) \/ Kill(t) \/ FindSlot(t)
    <2> PICK t \in Threads : SpuriousWake(t) \/ Kill(t) \/ FindSlot(t)
      BY <1>4
    <2>1. CASE SpuriousWake(t)
      <3>1. ReadersStay /\ WritersStay /\ WaitersStay
        BY <2>1 DEF SpuriousWake, Shape, Reads, Writes, Waits, ReadersStay,
           WritersStay, WaitersStay, nodeVars, srcVars, threadVars, procVars,
           mgrVars
      <3> QED BY <3>1 DEF Moves, ReaderMove
    <2>2. CASE Kill(t)
      <3>1. ReadersStay /\ WritersStay /\ WaitersStay
        BY <2>2 DEF Kill, CleanKills, CleanPCs, ModeOfPC, UncountedPCs,
           BooksInv, BooksOfLiving, RdBooked, WtBooked, WaitBooked, Shape,
           Reads, Writes, Waits, ReadersStay, WritersStay, WaitersStay,
           nodeVars, srcVars, threadVars, procVars, mgrVars
      <3> QED BY <3>1 DEF Moves, ReaderMove
    <2>3. CASE setThreadSrcPos_lock(t)
      <3>1. ReadersStay /\ WritersStay /\ WaitersStay
        BY <2>3 DEF setThreadSrcPos_lock, Node0Free, Goto, Lifecycle,
           BooksInv, BooksOfDead, Shape, Reads, Writes, Waits, ReadersStay,
           WritersStay, WaitersStay, nodeVars, srcVars, threadVars, procVars,
           mgrVars
      <3> QED BY <3>1 DEF Moves, ReaderMove
    <2>4. CASE setThreadSrcPos_take(t)
      <3>1. ReadersStay /\ WritersStay /\ WaitersStay
        BY <2>4 DEF setThreadSrcPos_take, ClearSlot, At, Goto, Lifecycle,
           BooksInv, BooksOfDead, Shape, Reads, Writes, Waits, ReadersStay,
           WritersStay, WaitersStay, nodeVars, srcVars, threadVars, procVars,
           mgrVars
      <3> QED BY <3>1 DEF Moves, ReaderMove
    <2>5. CASE getThreadSrcPos_lock(t)
      <3>1. ReadersStay /\ WritersStay /\ WaitersStay
        BY <2>5 DEF getThreadSrcPos_lock, Node0Free, At, Goto, Lifecycle,
           BooksInv, BooksOfDead, Shape, Reads, Writes, Waits, ReadersStay,
           WritersStay, WaitersStay, nodeVars, srcVars, threadVars, procVars,
           mgrVars
      <3> QED BY <3>1 DEF Moves, ReaderMove
    <2>6. CASE threadSrcPos_unlock(t)
      <3>1. ReadersStay /\ WritersStay /\ WaitersStay
        BY <2>6 DEF threadSrcPos_unlock, At, Goto, Lifecycle, BooksInv,
           BooksOfDead, Shape, Reads, Writes, Waits, ReadersStay, WritersStay,
           WaitersStay, nodeVars, srcVars, threadVars, procVars, mgrVars
      <3> QED BY <3>1 DEF Moves, ReaderMove
    <2> QED BY <2>1, <2>2, <2>3, <2>4, <2>5, <2>6 DEF FindSlot
  <1>5. CASE \E s \in Sids : rollbackSrc(s)
    <2> PICK s \in Sids : rollbackSrc(s)
      BY <1>5
    <2>1. CASE rollbackSrc_read(s)
      <3>1. /\ victim \in Threads /\ ~alive[victim] /\ rcount[victim][s] = 1
            /\ Reads(victim, s)
        BY <2>1 DEF rollbackSrc_read, Shape, Lifecycle, BooksInv, BooksOfDead,
           Reads
      <3>2. rdCount[s] \in Nat /\ rdCount[s] > 0
        BY <3>1, CountersCount
      <3>8. ReaderOut(victim, s)
        BY <2>1, <3>1, <3>2 DEF rollbackSrc_read, GiveBack, Add, Shape,
           ReaderOut, Reads, nodeVars, srcVars, threadVars, procVars, mgrVars
      <3>9. WritersStay /\ WaitersStay
        BY <2>1, <3>1, <3>2 DEF rollbackSrc_read, GiveBack, Add, Shape,
           WritersStay, WaitersStay, Writes, Waits, nodeVars, srcVars,
           threadVars, procVars, mgrVars
      <3> QED BY <3>8, <3>9, <3>1 DEF Moves, ReaderMove, Shape
    <2>2. CASE rollbackSrc_write(s)
      <3>1. /\ victim \in Threads /\ ~alive[victim] /\ wcount[victim][s] = 1
            /\ Writes(victim, s)
        BY <2>2 DEF rollbackSrc_write, Shape, Lifecycle, BooksInv, BooksOfDead,
           Writes
      <3>2. wtCount[s] \in Nat /\ wtCount[s] > 0
        BY <3>1, CountersCount
      <3>8. WriterOut(victim, s)
        BY <2>2, <3>1, <3>2 DEF rollbackSrc_write, GiveBack, Add, Shape,
           WriterOut, Writes, nodeVars, srcVars, threadVars, procVars, mgrVars
      <3>9. ReadersStay /\ WaitersStay
        BY <2>2, <3>1, <3>2 DEF rollbackSrc_write, GiveBack, Add, Shape,
           ReadersStay, WaitersStay, Reads, Waits, nodeVars, srcVars,
           threadVars, procVars, mgrVars
      <3> QED BY <3>8, <3>9, <3>1 DEF Moves, WriterMove, Shape
    <2>3. CASE rollbackSrc_wait(s)
      <3>1. /\ victim \in Threads /\ ~alive[victim] /\ wwait[victim][s] = 1
            /\ Waits(victim, s)
        BY <2>3 DEF rollbackSrc_wait, Shape, Lifecycle, BooksInv, BooksOfDead,
           Waits
      <3>2. wtWait[s] \in Nat /\ wtWait[s] > 0
        BY <3>1, CountersCount
      <3>8. WaiterOut(victim, s)
        BY <2>3, <3>1, <3>2 DEF rollbackSrc_wait, GiveBack, Add, Shape,
           WaiterOut, Waits, nodeVars, srcVars, threadVars, procVars, mgrVars
      <3>9. ReadersStay /\ WritersStay
        BY <2>3, <3>1, <3>2 DEF rollbackSrc_wait, GiveBack, Add, Shape,
           ReadersStay, WritersStay, Reads, Writes, nodeVars, srcVars,
           threadVars, procVars, mgrVars
      <3> QED BY <3>8, <3>9, <3>1 DEF Moves, WaiterMove, Shape
    <2>4. CASE rollbackSrc_force(s)
      <3>1. ReadersStay /\ WritersStay /\ WaitersStay
        BY <2>4 DEF rollbackSrc_force, mutex_unlock, InUse, Shape, Reads,
           Writes, Waits, ReadersStay, WritersStay, WaitersStay, nodeVars,
           srcVars, threadVars, procVars, mgrVars
      <3> QED BY <3>1 DEF Moves, ReaderMove
    <2>5. CASE rollbackSrc_retry(s)
      <3>1. ReadersStay /\ WritersStay /\ WaitersStay
        BY <2>5 DEF rollbackSrc_retry, InUse, Shape, Reads, Writes, Waits,
           ReadersStay, WritersStay, WaitersStay, nodeVars, srcVars,
           threadVars, procVars, mgrVars
      <3> QED BY <3>1 DEF Moves, ReaderMove
    <2> QED BY <2>1, <2>2, <2>3, <2>4, <2>5 DEF rollbackSrc
  <1>6. CASE getExitProcessInfo
    <2>1. ReadersStay /\ WritersStay /\ WaitersStay
      BY <1>6 DEF getExitProcessInfo, Shape, Reads, Writes, Waits,
         ReadersStay, WritersStay, WaitersStay, nodeVars, srcVars,
         threadVars, procVars, mgrVars
    <2> QED BY <2>1 DEF Moves, ReaderMove
  <1>7. CASE rollbackSrc_begin
    <2>1. ReadersStay /\ WritersStay /\ WaitersStay
      BY <1>7 DEF rollbackSrc_begin, Node0Free, Shape, Reads, Writes, Waits,
         ReadersStay, WritersStay, WaitersStay, nodeVars, srcVars,
         threadVars, procVars, mgrVars
    <2> QED BY <2>1 DEF Moves, ReaderMove
  <1>8. CASE rollbackSrc_end
    <2>1. ReadersStay /\ WritersStay /\ WaitersStay
      BY <1>8 DEF rollbackSrc_end, ClearSlot, InUse, Lifecycle, BooksInv,
         BooksOfDead, Shape, Reads, Writes, Waits, ReadersStay, WritersStay,
         WaitersStay, nodeVars, srcVars, threadVars, procVars, mgrVars
    <2> QED BY <2>1 DEF Moves, ReaderMove
  <1>9. CASE UNCHANGED vars
    BY <1>9 DEF vars, Moves, ReaderMove, Shape, Reads, Writes, Waits,
       ReadersStay, WritersStay, WaitersStay, nodeVars, srcVars, threadVars,
       procVars, mgrVars
  <1>10. CASE rollbackSrc_force0
    <2>1. ReadersStay /\ WritersStay /\ WaitersStay
      BY <1>10 DEF rollbackSrc_force0, Shape, Reads, Writes, Waits,
         ReadersStay, WritersStay, WaitersStay, nodeVars, srcVars,
         threadVars, procVars, mgrVars
    <2> QED BY <2>1 DEF Moves, ReaderMove
  <1> QED
    BY <1>1, <1>2, <1>3, <1>4, <1>5, <1>6, <1>7, <1>8, <1>9, <1>10
    DEF Next, Manager

-----------------------------------------------------------------------------
(* The theorems.                                                           *)

LEMMA IInvInit == Init => IInv
  <1> SUFFICES ASSUME Init PROVE IInv
    OBVIOUS
  <1>1. Shape
    BY ShapeInit
  <1>2. ControlInv
    BY ThreadsAssumption
    DEF Init, ControlInv, Ownership, Unforced, Lifecycle, ModeOfPC, Sleepers,
        LockedPCs, UncountedPCs
  <1>3. BooksInv
    BY DEF Init, BooksInv, BooksOfLiving, BooksOfDead, RdBooked, WtBooked,
           WaitBooked
  <1>4. \A t \in Threads, s \in Sids : ~Reads(t, s) /\ ~Writes(t, s) /\ ~Waits(t, s)
    BY DEF Init, Reads, Writes, Waits
  <1>5. CountersExact
    <2> SUFFICES ASSUME NEW s \in Sids
                 PROVE  /\ {t \in Threads : Reads(t, s)} = {}
                        /\ {t \in Threads : Writes(t, s)} = {}
                        /\ {t \in Threads : Waits(t, s)} = {}
      BY FS_EmptySet DEF Init, CountersExact
    <2> QED BY <1>4
  <1>6. StrongExclusion
    BY <1>4 DEF StrongExclusion
  <1> QED BY <1>1, <1>2, <1>3, <1>5, <1>6 DEF IInv

LEMMA IInvStep ==
    ASSUME CleanKills, Timely, RoomForAll, IInv, [Next]_vars
    PROVE  IInv'
  <1>1. Shape'
    BY ShapeStep DEF IInv
  <1>2. ControlInv'
    BY OwnershipStep, UnforcedStep, LifecycleStep, ModeOfPCStep, SleepersStep
    DEF IInv, ControlInv
  <1>3. BooksInv'
    BY BooksStep DEF IInv, ControlInv
  <1>4. Moves
    BY MovesStep DEF IInv, ControlInv
  <1>5. CountersExact' /\ StrongExclusion'
    BY <1>4, MovesCount, MovesExclude DEF IInv
  <1> QED BY <1>1, <1>2, <1>3, <1>5 DEF IInv

\* The inductive invariant: what slots, counters and control points have to do
\* with each other in MutexDoubleLock.cpp.
THEOREM IInvHolds ==
    CleanKills /\ Timely /\ RoomForAll /\ Spec => []IInv
  <1> SUFFICES ASSUME CleanKills /\ Timely /\ RoomForAll PROVE Spec => []IInv
    OBVIOUS
  <1>1. IInv /\ [Next]_vars => IInv'
    BY IInvStep
  <1> QED BY <1>1, IInvInit, PTL DEF Spec

\* The variables have their types; the counts of a slot never go below zero,
\* neither in unlockRdSrc and its like nor in rollbackSrc.
THEOREM TypeCorrect ==
    CleanKills /\ Timely /\ RoomForAll /\ Spec => []TypeOK
  <1>1. ASSUME IInv PROVE TypeOK
    <2>1. \A t \in Threads, s \in Sids :
              rcount[t][s] \in Nat /\ wcount[t][s] \in Nat /\ wwait[t][s] \in Nat
      <3> SUFFICES ASSUME NEW t \in Threads, NEW s \in Sids
                   PROVE  rcount[t][s] \in {0, 1} /\ wcount[t][s] \in {0, 1}
                          /\ wwait[t][s] \in {0, 1}
        OBVIOUS
      <3>1. CASE alive[t]
        BY <1>1, <3>1 DEF IInv, BooksInv, BooksOfLiving
      <3>2. CASE ~alive[t]
        BY <1>1, <3>2 DEF IInv, BooksInv, BooksOfDead
      <3> QED BY <3>1, <3>2
    <2> QED BY <1>1, <2>1 DEF IInv, Shape, TypeOK
  <1> QED BY <1>1, IInvHolds, PTL

\* A write lock excludes every other lock on its source (DoubleLock.h), also
\* after mutex_manager has rolled killed processes back.
THEOREM WritersExclude ==
    CleanKills /\ Timely /\ RoomForAll /\ Spec => []Exclusion
  <1>1. ASSUME IInv PROVE Exclusion
    <2>1. \A t \in Threads, s \in Sids : mode[t][s] \in Modes
      BY <1>1 DEF IInv, Shape
    <2> QED BY <1>1, <2>1 DEF IInv, StrongExclusion, Reads, Writes, Exclusion,
                              Modes
  <1> QED BY <1>1, IInvHolds, PTL

\* m_rdCount, m_wtCount and m_wtWait count exactly the threads they should:
\* registration, deregistration and rollback neither lose nor repeat one.
THEOREM CountersAreExact ==
    CleanKills /\ Timely /\ RoomForAll /\ Spec => []CountersExact
  <1>1. IInv => CountersExact
    BY DEF IInv
  <1> QED BY <1>1, IInvHolds, PTL
==============================================================================
