---------------------- MODULE MutexDoubleLockRefinement ----------------------
(***************************************************************************)
(* MutexDoubleLock implements RWLock, for any set of threads and of locks, *)
(* under the limits of MutexDoubleLockInv.                                 *)
(***************************************************************************)
EXTENDS MutexDoubleLockSafety

\* The values that Lock gives the variables of RWLock.
Held == [t \in Threads |-> [s \in Sids |->
            IF Reads(t, s) THEN "read"
            ELSE IF Writes(t, s) THEN "write" ELSE "none"]]
Pending == [s \in Sids |-> {t \in Threads : Waits(t, s) /\ ~Writes(t, s)}]

\* A thread reads a source or writes it; a killed one that has the write lock
\* does not wait for it as well.
OneKind ==
    \A t \in Threads, s \in Sids :
        /\ ~(Reads(t, s) /\ Writes(t, s))
        /\ ~alive[t] => ~(Writes(t, s) /\ Waits(t, s))

LEMMA OnlyKillKills ==
    ASSUME Shape, [Next]_vars, NEW t \in Threads, alive[t], ~alive'[t]
    PROVE  Kill(t)
  <1>1. CASE \E u \in Threads : Request(u) \/ Release(u)
    BY <1>1 DEF Request, Release, getReadLock_call, getWriteLock_call,
       getReadLockNoWait_call, getWriteLockNoWait_call, releaseReadLock_call,
       releaseWriteLock_call, procVars
  <1>2. CASE \E u \in Threads : Acquire(u)
    BY <1>2 DEF Acquire, getReadLock_lock, getReadLock_wake, getWriteLock_lock,
       getWriteLock_wake, releaseReadLock_lock, releaseWriteLock_lock, Rewaken,
       TakeMutex, procVars
  <1>3. CASE \E u \in Threads : Proceed(u)
    BY <1>3 DEF Proceed, getReadLock_wait, getReadLock_enter,
       getWriteLock_incWait, getWriteLock_regWait, getWriteLock_wait,
       getWriteLock_enter, getWriteLock_decWait, getWriteLock_unregWait,
       getWriteLock_reg, getReadLockNoWait_refuse, getReadLockNoWait_enter,
       getReadLockNoWait_reg, getWriteLockNoWait_refuse,
       getWriteLockNoWait_enter, getWriteLockNoWait_reg, releaseReadLock_dec,
       releaseReadLock_reset, releaseReadLock_throw, releaseReadLock_last,
       releaseReadLock_more, releaseReadLock_unlock, releaseReadLock_unreg,
       releaseWriteLock_dec, releaseWriteLock_reset, releaseWriteLock_last,
       releaseWriteLock_unreg, unlock_return, Sleep, CountRead, CountWrite,
       CountWait, Book, DropMutex, Broadcast, procVars
  <1>4. CASE \E u \in Threads : SpuriousWake(u) \/ Kill(u) \/ FindSlot(u)
    BY <1>4 DEF SpuriousWake, Kill, FindSlot, setThreadSrcPos_lock,
       setThreadSrcPos_take, getThreadSrcPos_lock, threadSrcPos_unlock, Shape,
       procVars
  <1>5. CASE Manager
    BY <1>5 DEF Manager, getExitProcessInfo, rollbackSrc_force0,
       rollbackSrc_begin, rollbackSrc,
       rollbackSrc_read, rollbackSrc_write, rollbackSrc_wait,
       rollbackSrc_force, rollbackSrc_retry, rollbackSrc_end, procVars
  <1>6. CASE UNCHANGED vars
    BY <1>6 DEF vars, procVars
  <1> QED BY <1>1, <1>2, <1>3, <1>4, <1>5, <1>6 DEF Next

LEMMA OneKindStep ==
    ASSUME CleanKills, IInv, OneKind, [Next]_vars
    PROVE  OneKind'
  <1>1. Shape /\ Moves
    BY MovesStep DEF IInv, ControlInv
  <1>2. ASSUME NEW t \in Threads, NEW s \in Sids, Reads(t, s)', Writes(t, s)'
        PROVE  FALSE
    <2>1. ~(Reads(t, s) /\ Writes(t, s))
      BY DEF OneKind
    <2>2. \/ Reads(t, s) /\ rdCount[s] = 0
          \/ Writes(t, s) /\ wtCount[s] = 0
      BY <1>1, <1>2, <2>1 DEF Moves, ReaderMove, WriterMove, WaiterMove,
         ReadersStay, ReaderIn, ReaderOut, WritersStay, WriterIn, WriterOut
    <2> QED BY <2>2, CountersCount DEF IInv
  <1>3. ASSUME NEW t \in Threads, NEW s \in Sids, ~alive'[t], Writes(t, s)',
               Waits(t, s)'
        PROVE  FALSE
    <2>1. CASE ~alive[t]
      <3>1. ~(Writes(t, s) /\ Waits(t, s))
        BY <2>1 DEF OneKind
      <3> QED
        BY <1>1, <1>3, <2>1, <3>1 DEF Moves, ReaderMove, WriterMove, WaiterMove,
           WritersStay, WriterIn, WriterOut, WaitersStay, WaiterIn, WaiterOut
    <2>2. CASE alive[t]
      <3>1. Kill(t)
        BY <1>1, <1>3, <2>2, OnlyKillKills
      <3>2. /\ wcount[t][s] > 0 /\ wwait[t][s] > 0
        BY <1>3, <3>1 DEF Writes, Waits, Kill, srcVars
      <3>3. WaitBooked(t, s) /\ WtBooked(t, s) /\ pc[t] \in CleanPCs
        BY <2>2, <3>1, <3>2 DEF IInv, BooksInv, BooksOfLiving, Kill, CleanKills
      <3>4. cur[t] = s /\ pc[t] = "wWait"
        BY <3>3 DEF WaitBooked, CleanPCs
      <3>5. mode[t][s] = "none"
        BY <2>2, <3>4 DEF IInv, ControlInv, ModeOfPC, UncountedPCs
      <3> QED BY <3>3, <3>4, <3>5 DEF WtBooked
    <2> QED BY <2>1, <2>2
  <1> QED BY <1>2, <1>3 DEF OneKind

-----------------------------------------------------------------------------
(* Every move is a step of RWLock, or none.                                *)

LEMMA ShareStep ==
    ASSUME IInv, OneKind, NEW t \in Threads, NEW s \in Sids,
           ReaderIn(t, s), WritersStay, WaitersStay
    PROVE  Lock!Share(t, s)
  <1>1. \A u \in Threads : ~Writes(u, s) /\ ~Waits(u, s)
    BY CountersCount DEF ReaderIn, IInv
  <1>2. Held[t][s] = "none" /\ Pending[s] = {}
    BY <1>1 DEF Held, Pending, ReaderIn
  <1>3. \A u \in Threads \ {t} : Held[u][s] # "write"
    BY <1>1 DEF Held
  <1>4. Held' = [Held EXCEPT ![t][s] = "read"]
    BY DEF Held, ReaderIn, WritersStay
  <1>5. Pending' = Pending
    BY DEF Pending, WritersStay, WaitersStay
  <1> QED BY <1>2, <1>3, <1>4, <1>5 DEF Lock!Share, Lock!Others, Held, Pending

LEMMA ExcludeStep ==
    ASSUME IInv, OneKind, NEW t \in Threads, NEW s \in Sids,
           WriterIn(t, s), ReadersStay, WaitersStay
    PROVE  Lock!Exclude(t, s)
  <1>1. \A u \in Threads : ~Reads(u, s) /\ ~Writes(u, s)
    BY CountersCount DEF WriterIn, IInv
  <1>2. \A u \in Threads : Held[u][s] = "none"
    BY <1>1 DEF Held
  <1>3. Held' = [Held EXCEPT ![t][s] = "write"]
    BY <1>1 DEF Held, WriterIn, ReadersStay
  <1>4. Pending' = [Pending EXCEPT ![s] = @ \ {t}]
    BY ZenonT(30) DEF Pending, WriterIn, WaitersStay
  <1> QED BY <1>2, <1>3, <1>4 DEF Lock!Exclude, Lock!Others, Held, Pending

LEMMA GiveReadStep ==
    ASSUME IInv, OneKind, NEW t \in Threads, NEW s \in Sids,
           ReaderOut(t, s), WritersStay, WaitersStay
    PROVE  Lock!Give(t, s)
  <1>1. ~Writes(t, s) /\ Held[t][s] = "read"
    BY DEF OneKind, ReaderOut, Held
  <1>2. Held' = [Held EXCEPT ![t][s] = "none"]
    BY <1>1 DEF Held, ReaderOut, WritersStay
  <1>3. Pending' = Pending
    BY DEF Pending, WritersStay, WaitersStay
  <1> QED BY <1>1, <1>2, <1>3 DEF Lock!Give, Held, Pending

LEMMA GiveWriteStep ==
    ASSUME IInv, OneKind, NEW t \in Threads, NEW s \in Sids,
           WriterOut(t, s), ReadersStay, WaitersStay
    PROVE  Lock!Give(t, s)
  <1>1. ~Reads(t, s) /\ Held[t][s] = "write" /\ ~Waits(t, s)
    BY DEF OneKind, WriterOut, Held
  <1>2. Held' = [Held EXCEPT ![t][s] = "none"]
    BY <1>1 DEF Held, WriterOut, ReadersStay
  <1>3. Pending' = Pending
    BY <1>1 DEF Pending, WriterOut, WaitersStay
  <1> QED BY <1>1, <1>2, <1>3 DEF Lock!Give, Held, Pending

LEMMA AnnounceStep ==
    ASSUME NEW t \in Threads, NEW s \in Sids,
           WaiterIn(t, s), ReadersStay, WritersStay
    PROVE  Lock!Announce(t, s)
  <1>1. Held[t][s] = "none" /\ t \notin Pending[s]
    BY DEF WaiterIn, Held, Pending
  <1>2. Held' = Held
    BY DEF Held, ReadersStay, WritersStay
  <1>3. Pending' = [Pending EXCEPT ![s] = @ \cup {t}]
    BY DEF Pending, WaiterIn, WritersStay
  <1> QED BY <1>1, <1>2, <1>3 DEF Lock!Announce, Held, Pending

\* A writer that is in leaves the waiting count later: nothing that RWLock sees.
LEMMA WithdrawStep ==
    ASSUME NEW t \in Threads, NEW s \in Sids,
           WaiterOut(t, s), ReadersStay, WritersStay
    PROVE  Lock!Withdraw(t, s) \/ UNCHANGED Lock!lockVars
  <1>1. Held' = Held
    BY DEF Held, ReadersStay, WritersStay
  <1>2. CASE Writes(t, s)
    <2>1. Pending' = Pending
      BY <1>2 DEF Pending, WaiterOut, WritersStay
    <2> QED BY <1>1, <2>1 DEF Lock!lockVars, Held, Pending
  <1>3. CASE ~Writes(t, s)
    <2>1. t \in Pending[s]
      BY <1>3 DEF Pending, WaiterOut
    <2>2. Pending' = [Pending EXCEPT ![s] = @ \ {t}]
      BY DEF Pending, WaiterOut, WritersStay
    <2> QED BY <1>1, <2>1, <2>2 DEF Lock!Withdraw, Held, Pending
  <1> QED BY <1>2, <1>3

LEMMA MoveRefines ==
    ASSUME IInv, OneKind, Moves
    PROVE  [Lock!Next]_Lock!lockVars
  <1>1. CASE ReadersStay /\ WritersStay /\ WaitersStay
    <2>1. Held' = Held /\ Pending' = Pending
      BY <1>1 DEF Held, Pending, ReadersStay, WritersStay, WaitersStay
    <2> QED BY <2>1 DEF Lock!lockVars, Held, Pending
  <1>2. CASE /\ \E t \in Threads, s \in Sids : ReaderIn(t, s) \/ ReaderOut(t, s)
             /\ WritersStay /\ WaitersStay
    BY <1>2, ShareStep, GiveReadStep DEF Lock!Next
  <1>3. CASE /\ \E t \in Threads, s \in Sids : WriterIn(t, s) \/ WriterOut(t, s)
             /\ ReadersStay /\ WaitersStay
    BY <1>3, ExcludeStep, GiveWriteStep DEF Lock!Next
  <1>4. CASE /\ \E t \in Threads, s \in Sids : WaiterIn(t, s) \/ WaiterOut(t, s)
             /\ ReadersStay /\ WritersStay
    BY <1>4, AnnounceStep, WithdrawStep DEF Lock!Next
  <1> QED
    BY <1>1, <1>2, <1>3, <1>4 DEF Moves, ReaderMove, WriterMove, WaiterMove

LEMMA InitRefines == Init => Lock!Init /\ OneKind
  BY DEF Init, Lock!Init, OneKind, Reads, Writes, Waits

\* The lock implements the abstract readers/writer lock: a read lock is granted
\* only while nobody holds or awaits the write lock, a write lock only while
\* nobody holds any, although each takes several steps and processes are killed
\* and rolled back in between.
THEOREM LockRefines ==
    CleanKills /\ Timely /\ RoomForAll /\ Spec => ImplementsRWLock
  <1> SUFFICES ASSUME CleanKills /\ Timely /\ RoomForAll PROVE Spec => ImplementsRWLock
    OBVIOUS
  <1>1. IInv /\ OneKind /\ [Next]_vars => OneKind'
    BY OneKindStep
  <1>2. IInv /\ OneKind /\ [Next]_vars => [Lock!Next]_Lock!lockVars
    BY MovesStep, MoveRefines DEF IInv, ControlInv
  <1>3. Spec => []IInv
    BY IInvHolds
  <1> QED BY <1>1, <1>2, <1>3, InitRefines, PTL DEF Spec, ImplementsRWLock, Lock!Spec
==============================================================================
