------------------------ MODULE MutexDoubleLockWakeup ------------------------
(***************************************************************************)
(* No broadcast of MutexDoubleLock is lost, for any set of threads and of  *)
(* locks, when processes are killed at CleanPCs only and a slot has room   *)
(* for every source.                                                       *)
(*                                                                         *)
(* NoLostWakeup is not inductive: with a reader asleep while a thread      *)
(* stands before the broadcast of releaseReadLock, which it skips when     *)
(* other readers remain, the step to "more readers" would break it.  What  *)
(* is inductive is that a sleeping reader relies on a writer alone.        *)
(***************************************************************************)
EXTENDS MutexDoubleLockSafety

\* What each sleeper of s relies on: a reader on a writer that is in, waits or
\* has just left; a writer on anybody who is in or has just left.
Justified(s) ==
    \A t \in waiters[s] :
        /\ pc[t] = "rWait" =>
               \/ WriterPresent(s)
               \/ \E u \in Threads : At(u, "wrTest") /\ cur[u] = s
        /\ pc[t] = "wWait" => Occupied(s) \/ WakeupDue(s)

\* A step that takes nothing away from the sleepers of s: nobody joins them,
\* no counter goes down, and whoever is about to broadcast still is.
Calm(s) ==
    /\ waiters'[s] \subseteq waiters[s]
    /\ \A t \in waiters'[s] : pc'[t] = pc[t]
    /\ rdCount'[s] >= rdCount[s]
    /\ wtCount'[s] >= wtCount[s]
    /\ wtWait'[s] >= wtWait[s]
    /\ \A u \in Threads :
           alive[u] /\ cur[u] = s /\ pc[u] \in {"rrTest", "wrTest"}
           => alive'[u] /\ cur'[u] = s /\ pc'[u] = pc[u]

LEMMA CalmKeeps ==
    ASSUME Shape, Shape', NEW s \in Sids, Justified(s), Calm(s)
    PROVE  Justified(s)'
  <1> SUFFICES ASSUME NEW t \in waiters'[s]
               PROVE  /\ pc'[t] = "rWait" =>
                             \/ WriterPresent(s)'
                             \/ \E u \in Threads :
                                    At(u, "wrTest")' /\ cur'[u] = s
                      /\ pc'[t] = "wWait" => Occupied(s)' \/ WakeupDue(s)'
    BY DEF Justified
  <1>1. t \in waiters[s] /\ pc'[t] = pc[t]
    BY DEF Calm
  <1>2. /\ rdCount[s] \in Int /\ wtCount[s] \in Int /\ wtWait[s] \in Int
        /\ rdCount'[s] \in Int /\ wtCount'[s] \in Int /\ wtWait'[s] \in Int
    BY DEF Shape
  <1>3. WriterPresent(s) => WriterPresent(s)'
    BY <1>2 DEF Calm, WriterPresent
  <1>4. Occupied(s) => Occupied(s)'
    BY <1>2 DEF Calm, Occupied
  <1>5. \A u \in Threads : At(u, "wrTest") /\ cur[u] = s
                           => At(u, "wrTest")' /\ cur'[u] = s
    BY DEF Calm, At
  <1>6. WakeupDue(s) => WakeupDue(s)'
    BY DEF Calm, WakeupDue
  <1> QED BY <1>1, <1>3, <1>4, <1>5, <1>6 DEF Justified

\* A source nobody sleeps on, a writer that is in, and readers for a sleeping
\* writer: each is reason enough.
LEMMA NobodySleeps ==
    ASSUME NEW s \in Sids, waiters'[s] = {}
    PROVE  Justified(s)'
  BY DEF Justified

LEMMA WriterInside ==
    ASSUME Shape', NEW s \in Sids, wtCount'[s] > 0, rdCount'[s] >= 0,
           wtWait'[s] >= 0
    PROVE  Justified(s)'
  BY DEF Shape, Justified, WriterPresent, Occupied

-----------------------------------------------------------------------------
(* The steps that take nothing away.                                       *)

\* A step of t that is not about to broadcast, and of nobody else.
Quiet(t) ==
    /\ pc[t] \notin {"rrTest", "wrTest"}
    /\ pc[t] \in {"rWait", "wWait"} => t \notin waiters[cur[t]]
    /\ \A u \in Threads \ {t} : pc'[u] = pc[u] /\ cur'[u] = cur[u]
    /\ UNCHANGED <<waiters, alive>>
    /\ \A x \in Sids : /\ rdCount'[x] >= rdCount[x]
                        /\ wtCount'[x] >= wtCount[x]
                        /\ wtWait'[x] >= wtWait[x]

LEMMA QuietIsCalm ==
    ASSUME Shape, Sleepers, NEW t \in Threads, Quiet(t)
    PROVE  \A x \in Sids : Calm(x)
  <1> SUFFICES ASSUME NEW x \in Sids PROVE Calm(x)
    OBVIOUS
  <1>1. t \notin waiters[x]
    BY DEF Sleepers, Quiet
  <1>2. \A u \in waiters'[x] : u \in Threads \ {t} /\ u \in waiters[x]
    BY <1>1 DEF Quiet, Shape
  <1> QED BY <1>2 DEF Quiet, Calm

LEMMA CallsAreQuiet ==
    ASSUME Shape, NEW t \in Threads, Request(t) \/ Release(t)
    PROVE  Quiet(t)
  <1> PICK s \in Sids : \/ getReadLock_call(t, s)
                         \/ getWriteLock_call(t, s)
                         \/ getReadLockNoWait_call(t, s)
                         \/ getWriteLockNoWait_call(t, s)
                         \/ releaseReadLock_call(t, s)
                         \/ releaseWriteLock_call(t, s)
    BY DEF Request, Release
  <1>1. CASE getReadLock_call(t, s)
    BY <1>1 DEF getReadLock_call, Call, At, Goto, Quiet, Shape, nodeVars,
       threadVars, procVars
  <1>2. CASE getWriteLock_call(t, s)
    BY <1>2 DEF getWriteLock_call, Call, At, Goto, Quiet, Shape, nodeVars,
       threadVars, procVars
  <1>3. CASE getReadLockNoWait_call(t, s)
    BY <1>3 DEF getReadLockNoWait_call, Call, At, Goto, mutex_lock, Quiet,
       Shape, nodeVars, threadVars, procVars
  <1>4. CASE getWriteLockNoWait_call(t, s)
    BY <1>4 DEF getWriteLockNoWait_call, Call, At, Goto, mutex_lock, Quiet,
       Shape, nodeVars, threadVars, procVars
  <1>5. CASE releaseReadLock_call(t, s)
    BY <1>5 DEF releaseReadLock_call, Call, At, Goto, Quiet, Shape, nodeVars,
       threadVars, procVars
  <1>6. CASE releaseWriteLock_call(t, s)
    BY <1>6 DEF releaseWriteLock_call, Call, At, Goto, Quiet, Shape, nodeVars,
       threadVars, procVars
  <1> QED BY <1>1, <1>2, <1>3, <1>4, <1>5, <1>6

LEMMA AcquiresAreQuiet ==
    ASSUME Shape, NEW t \in Threads, Acquire(t)
    PROVE  Quiet(t)
  <1>1. CASE getReadLock_lock(t)
    BY <1>1 DEF getReadLock_lock, TakeMutex, mutex_lock, At, Goto, Quiet,
       Shape, nodeVars, threadVars, procVars
  <1>2. CASE getReadLock_wake(t)
    BY <1>2 DEF getReadLock_wake, Rewaken, TakeMutex, mutex_lock, At, Goto,
       Asleep, Quiet, Shape, nodeVars, threadVars, procVars
  <1>3. CASE getWriteLock_lock(t)
    BY <1>3 DEF getWriteLock_lock, TakeMutex, mutex_lock, At, Goto, Quiet,
       Shape, nodeVars, threadVars, procVars
  <1>4. CASE getWriteLock_wake(t)
    BY <1>4 DEF getWriteLock_wake, Rewaken, TakeMutex, mutex_lock, At, Goto,
       Asleep, Quiet, Shape, nodeVars, threadVars, procVars
  <1>5. CASE releaseReadLock_lock(t)
    BY <1>5 DEF releaseReadLock_lock, TakeMutex, mutex_lock, At, Goto, Quiet,
       Shape, nodeVars, threadVars, procVars
  <1>6. CASE releaseWriteLock_lock(t)
    BY <1>6 DEF releaseWriteLock_lock, TakeMutex, mutex_lock, At, Goto, Quiet,
       Shape, nodeVars, threadVars, procVars
  <1> QED BY <1>1, <1>2, <1>3, <1>4, <1>5, <1>6 DEF Acquire

\* The steps under the mutex that neither take a count back nor end a wait.
QuietStep(t) ==
    \/ getReadLock_enter(t)
    \/ getWriteLock_incWait(t)
    \/ getWriteLock_regWait(t)
    \/ getWriteLock_enter(t)
    \/ getWriteLock_unregWait(t)
    \/ getWriteLock_reg(t)
    \/ getReadLockNoWait_refuse(t)
    \/ getReadLockNoWait_enter(t)
    \/ getReadLockNoWait_reg(t)
    \/ getWriteLockNoWait_refuse(t)
    \/ getWriteLockNoWait_enter(t)
    \/ getWriteLockNoWait_reg(t)
    \/ releaseReadLock_throw(t)
    \/ releaseReadLock_unlock(t)
    \/ releaseReadLock_unreg(t)
    \/ unlock_return(t)

LEMMA ProceedsAreQuiet ==
    ASSUME Shape, NEW t \in Threads, QuietStep(t)
    PROVE  Quiet(t)
  <1>1. CASE getReadLock_enter(t)
    BY <1>1 DEF getReadLock_enter, CountRead, At, Goto, Quiet, Shape,
       nodeVars, threadVars, procVars
  <1>2. CASE getWriteLock_incWait(t)
    BY <1>2 DEF getWriteLock_incWait, CountWait, At, Goto, Quiet, Shape,
       nodeVars, threadVars, procVars
  <1>3. CASE getWriteLock_regWait(t)
    BY <1>3 DEF getWriteLock_regWait, Book, At, Goto, Quiet, Shape, nodeVars,
       threadVars, procVars
  <1>4. CASE getWriteLock_enter(t)
    BY <1>4 DEF getWriteLock_enter, CountWrite, At, Goto, Quiet, Shape,
       nodeVars, threadVars, procVars
  <1>5. CASE getWriteLock_unregWait(t)
    BY <1>5 DEF getWriteLock_unregWait, Book, At, Goto, Quiet, Shape,
       nodeVars, threadVars, procVars
  <1>6. CASE getWriteLock_reg(t)
    BY <1>6 DEF getWriteLock_reg, Book, At, Goto, Quiet, Shape, nodeVars,
       threadVars, procVars
  <1>7. CASE getReadLockNoWait_refuse(t)
    BY <1>7 DEF getReadLockNoWait_refuse, DropMutex, mutex_unlock, At, Goto,
       Quiet, Shape, nodeVars, threadVars, procVars
  <1>8. CASE getReadLockNoWait_enter(t)
    BY <1>8 DEF getReadLockNoWait_enter, CountRead, At, Goto, Quiet, Shape,
       nodeVars, threadVars, procVars
  <1>9. CASE getReadLockNoWait_reg(t)
    BY <1>9 DEF getReadLockNoWait_reg, Book, At, Goto, Quiet, Shape, nodeVars,
       threadVars, procVars
  <1>10. CASE getWriteLockNoWait_refuse(t)
    BY <1>10 DEF getWriteLockNoWait_refuse, DropMutex, mutex_unlock, At, Goto,
       Quiet, Shape, nodeVars, threadVars, procVars
  <1>11. CASE getWriteLockNoWait_enter(t)
    BY <1>11 DEF getWriteLockNoWait_enter, CountWrite, At, Goto, Quiet, Shape,
       nodeVars, threadVars, procVars
  <1>12. CASE getWriteLockNoWait_reg(t)
    BY <1>12 DEF getWriteLockNoWait_reg, Book, At, Goto, Quiet, Shape,
       nodeVars, threadVars, procVars
  <1>13. CASE releaseReadLock_throw(t)
    BY <1>13 DEF releaseReadLock_throw, Book, At, Goto, Quiet, Shape,
       nodeVars, threadVars, procVars
  <1>14. CASE releaseReadLock_unlock(t)
    BY <1>14 DEF releaseReadLock_unlock, DropMutex, mutex_unlock, At, Goto,
       Quiet, Shape, nodeVars, threadVars, procVars
  <1>15. CASE releaseReadLock_unreg(t)
    BY <1>15 DEF releaseReadLock_unreg, Book, At, Goto, Quiet, Shape,
       nodeVars, threadVars, procVars
  <1>16. CASE unlock_return(t)
    BY <1>16 DEF unlock_return, DropMutex, mutex_unlock, At, Goto, Quiet,
       Shape, nodeVars, threadVars, procVars
  <1> QED BY <1>1, <1>2, <1>3, <1>4, <1>5, <1>6, <1>7, <1>8, <1>9, <1>10,
    <1>11, <1>12, <1>13, <1>14, <1>15, <1>16 DEF QuietStep

LEMMA ProcessesAreCalm ==
    ASSUME Shape, Sleepers, Lifecycle, CleanKills, NEW t \in Threads,
           SpuriousWake(t) \/ Kill(t) \/ FindSlot(t)
    PROVE  \A x \in Sids : Calm(x)
  <1>1. CASE SpuriousWake(t)
    BY <1>1 DEF SpuriousWake, Calm, Shape, threadVars, procVars
  <1>2. CASE Kill(t)
    BY <1>2 DEF Kill, CleanKills, CleanPCs, Calm, Shape, threadVars
  <1>3. CASE setThreadSrcPos_lock(t)
    BY <1>3 DEF setThreadSrcPos_lock, Goto, Calm, Shape,
       Sleepers, nodeVars
  <1>4. CASE \/ setThreadSrcPos_take(t) \/ getThreadSrcPos_lock(t)
             \/ threadSrcPos_unlock(t)
    <2>1. pc[t] \in {"run", "sTake", "sUnlk"}
      BY <1>4 DEF setThreadSrcPos_take, getThreadSrcPos_lock,
         threadSrcPos_unlock, At
    <2>2. \A u \in Threads \ {t} : pc'[u] = pc[u]
      BY <1>4 DEF setThreadSrcPos_take, getThreadSrcPos_lock,
         threadSrcPos_unlock, Goto, Shape
    <2>3. UNCHANGED <<waiters, rdCount, wtCount, wtWait, cur, alive>>
      BY <1>4 DEF setThreadSrcPos_take, getThreadSrcPos_lock,
         threadSrcPos_unlock, nodeVars
    <2>4. \A s \in Sids : waiters[s] \subseteq Threads \ {t}
      BY <2>1 DEF Sleepers, Shape
    <2>5. \A s \in Sids : rdCount[s] \in Int /\ wtCount[s] \in Int /\ wtWait[s] \in Int
      BY DEF Shape
    <2> QED BY <2>1, <2>2, <2>3, <2>4, <2>5 DEF Calm
  <1> QED BY <1>1, <1>2, <1>3, <1>4 DEF FindSlot

LEMMA ManagerIsCalm ==
    ASSUME Shape, Unforced,
           \/ getExitProcessInfo \/ rollbackSrc_force0 \/ rollbackSrc_begin
           \/ rollbackSrc_end
           \/ \E s \in Sids : rollbackSrc_force(s) \/ rollbackSrc_retry(s)
           \/ UNCHANGED vars
    PROVE  \A x \in Sids : Calm(x)
  <1>1. UNCHANGED <<waiters, rdCount, wtCount, wtWait, pc, cur, alive>>
    BY DEF getExitProcessInfo, rollbackSrc_force0, rollbackSrc_begin,
       rollbackSrc_end,
       rollbackSrc_force, rollbackSrc_retry, vars, nodeVars, threadVars,
       procVars
  <1> QED BY <1>1 DEF Calm, Shape

-----------------------------------------------------------------------------
(* The steps that do.                                                      *)

\* The counters are never negative, and a thread that writes or waits is counted.
LEMMA Counted ==
    ASSUME CountersExact, NEW s \in Sids
    PROVE  /\ rdCount[s] \in Nat /\ wtCount[s] \in Nat /\ wtWait[s] \in Nat
           /\ \A t \in Threads : /\ Writes(t, s) => wtCount[s] > 0
                                 /\ Waits(t, s) => wtWait[s] > 0
  BY CountersCount

\* A thread goes to sleep only after it has tested, under the mutex, that
\* there is somebody to wait for.
LEMMA WaitJustified ==
    ASSUME Shape, Shape', Sleepers, NEW t \in Threads,
           \A x \in Sids : Justified(x),
           getReadLock_wait(t) \/ getWriteLock_wait(t)
    PROVE  \A x \in Sids : Justified(x)'
  <1> DEFINE s == cur[t]
  <1>1. /\ s \in Sids /\ alive[t]
        /\ \/ pc[t] = "rTest" /\ WriterPresent(s) /\ pc' = [pc EXCEPT ![t] = "rWait"]
           \/ pc[t] = "wTest" /\ Occupied(s) /\ pc' = [pc EXCEPT ![t] = "wWait"]
        /\ waiters' = [waiters EXCEPT ![s] = @ \cup {t}]
        /\ UNCHANGED <<rdCount, wtCount, wtWait, cur, alive>>
    BY DEF getReadLock_wait, getWriteLock_wait, Sleep, cond_wait, At, Goto,
       Shape, procVars
  <1> HIDE DEF s
  <1> SUFFICES ASSUME NEW x \in Sids, NEW u \in waiters'[x]
               PROVE  /\ pc'[u] = "rWait" =>
                             \/ WriterPresent(x)'
                             \/ \E v \in Threads :
                                    At(v, "wrTest")' /\ cur'[v] = x
                      /\ pc'[u] = "wWait" => Occupied(x)' \/ WakeupDue(x)'
    BY DEF Justified
  <1>2. /\ WriterPresent(x) <=> WriterPresent(x)'
        /\ Occupied(x) <=> Occupied(x)'
    BY <1>1 DEF WriterPresent, Occupied
  <1>3. \A v \in Threads :
            /\ At(v, "wrTest") => At(v, "wrTest")'
            /\ At(v, "rrTest") => At(v, "rrTest")'
    BY <1>1 DEF At, Shape
  <1>4. WakeupDue(x) => WakeupDue(x)'
    BY <1>1, <1>3 DEF WakeupDue, At
  <1>5. CASE u = t /\ x = s
    BY <1>1, <1>2, <1>5 DEF Shape
  <1>6. CASE ~(u = t /\ x = s)
    <2>1. u \in waiters[x] /\ u \in Threads
      BY <1>1, <1>6 DEF Shape
    <2>2. u # t
      BY <1>1, <2>1 DEF Sleepers
    <2>3. pc'[u] = pc[u]
      BY <1>1, <2>1, <2>2 DEF Shape
    <2> QED BY <1>1, <1>2, <1>3, <1>4, <2>1, <2>3 DEF Justified
  <1> QED BY <1>5, <1>6

\* A writer that has entered no longer counts as waiting, but as writing.
LEMMA DecWaitJustified ==
    ASSUME IInv, IInv', NEW t \in Threads, \A x \in Sids : Justified(x),
           getWriteLock_decWait(t)
    PROVE  \A x \in Sids : Justified(x)'
  <1>1. /\ cur[t] \in Sids /\ alive[t] /\ pc[t] = "wDec"
        /\ pc' = [pc EXCEPT ![t] = "wUnregW"]
        /\ wtWait' = [wtWait EXCEPT ![cur[t]] = wtWait[cur[t]] - 1]
        /\ UNCHANGED <<waiters, rdCount, wtCount, cur, alive>>
    BY DEF getWriteLock_decWait, CountWait, At, Goto, IInv, Shape, procVars
  <1>2. \A x \in Sids : x # cur[t] => Calm(x)
    BY <1>1 DEF IInv, ControlInv, Calm, Shape, Sleepers
  <1>3. Writes(t, cur[t])
    BY <1>1 DEF IInv, ControlInv, ModeOfPC, Writes
  <1>4. wtCount[cur[t]] > 0
    BY <1>1, <1>3, Counted DEF IInv
  <1>5. wtCount'[cur[t]] > 0 /\ rdCount'[cur[t]] >= 0 /\ wtWait'[cur[t]] >= 0
    <2>1. Waits(t, cur[t])
      BY <1>1 DEF Waits
    <2>2. rdCount[cur[t]] \in Nat /\ wtWait[cur[t]] \in Nat /\ wtWait[cur[t]] > 0
      BY <1>1, <2>1, Counted DEF IInv
    <2>3. wtWait'[cur[t]] = wtWait[cur[t]] - 1
      BY <1>1 DEF IInv, Shape
    <2> QED BY <1>1, <1>4, <2>2, <2>3
  <1> QED BY <1>1, <1>2, <1>5, CalmKeeps, WriterInside DEF IInv

\* A count that has been taken back is followed by the test that broadcasts.
LEMMA DecJustified ==
    ASSUME IInv, IInv', NEW t \in Threads, \A x \in Sids : Justified(x),
           releaseReadLock_dec(t) \/ releaseWriteLock_dec(t)
    PROVE  \A x \in Sids : Justified(x)'
  <1> PICK s \in Sids : s = cur[t]
    BY DEF IInv, Shape
  <1>1. /\ alive[t] /\ pc[t] \in {"rrDec", "wrDec"}
        /\ UNCHANGED <<waiters, wtWait, cur, alive>>
        /\ \/ /\ pc' = [pc EXCEPT ![t] = "rrTest"]
              /\ rdCount' = [rdCount EXCEPT ![s] = rdCount[s] - 1]
              /\ wtCount' = wtCount
           \/ /\ pc' = [pc EXCEPT ![t] = "wrTest"]
              /\ wtCount' = [wtCount EXCEPT ![s] = wtCount[s] - 1]
              /\ rdCount' = rdCount
    BY DEF releaseReadLock_dec, releaseWriteLock_dec, CountRead, CountWrite,
       At, Goto, IInv, Shape, procVars
  <1>2. \A x \in Sids : x # s => Calm(x)
    BY <1>1 DEF IInv, ControlInv, Calm, Shape, Sleepers
  <1>3. Justified(s)'
    <2> SUFFICES ASSUME NEW u \in waiters[s]
                 PROVE  /\ pc'[u] = "rWait" =>
                               \/ WriterPresent(s)'
                               \/ \E v \in Threads :
                                      At(v, "wrTest")' /\ cur'[v] = s
                        /\ WakeupDue(s)'
      BY <1>1 DEF Justified
    <2>1. pc[u] \in {"rWait", "wWait"} /\ u \in Threads
      BY DEF IInv, ControlInv, Shape, Sleepers
    <2>2. u \in Threads /\ u # t
      BY <1>1, <2>1
    <2>3. pc'[u] = pc[u]
      BY <1>1, <2>2 DEF IInv, Shape
    <2>4. WakeupDue(s)'
      BY <1>1 DEF WakeupDue, IInv, Shape
    <2>5. CASE pc'[t] = "wrTest"
      BY <1>1, <2>4, <2>5 DEF At
    <2>6. CASE pc'[t] = "rrTest"
      <3>1. /\ WriterPresent(s) => WriterPresent(s)'
            /\ \A v \in Threads : At(v, "wrTest") => At(v, "wrTest")'
        BY <1>1, <2>6 DEF WriterPresent, At, IInv, Shape
      <3> QED BY <1>1, <2>2, <2>4, <2>3, <3>1 DEF Justified
    <2> QED BY <1>1, <2>5, <2>6 DEF IInv, Shape
  <1> QED BY <1>1, <1>2, <1>3, CalmKeeps DEF IInv

\* The test either wakes everybody or finds that somebody else is in.
LEMMA TestJustified ==
    ASSUME IInv, IInv', NEW t \in Threads, \A x \in Sids : Justified(x),
           \/ releaseReadLock_reset(t) \/ releaseReadLock_last(t)
           \/ releaseReadLock_more(t) \/ releaseWriteLock_reset(t)
           \/ releaseWriteLock_last(t) \/ releaseWriteLock_unreg(t)
    PROVE  \A x \in Sids : Justified(x)'
  <1> PICK s \in Sids : s = cur[t]
    BY DEF IInv, Shape
  <1>1. rdCount[s] \in Nat /\ wtCount[s] \in Nat /\ wtWait[s] \in Nat
    BY Counted DEF IInv
  <1>2. ~releaseReadLock_reset(t) /\ ~releaseWriteLock_reset(t)
    BY <1>1 DEF releaseReadLock_reset, releaseWriteLock_reset
  <1>3. CASE releaseReadLock_last(t) \/ releaseWriteLock_last(t)
    <2>1. /\ alive[t] /\ \E l \in PCs : pc' = [pc EXCEPT ![t] = l]
          /\ pc[t] \in {"rrTest", "wrTest"}
          /\ waiters' = [waiters EXCEPT ![s] = {}]
          /\ UNCHANGED <<rdCount, wtCount, wtWait, cur, alive>>
      BY <1>3 DEF releaseReadLock_last, releaseWriteLock_last, Broadcast,
         cond_broadcast, At, Goto, PCs, ReleasePCs, procVars
    <2>2. \A x \in Sids : x # s => Calm(x)
      BY <2>1 DEF IInv, ControlInv, Calm, Shape, Sleepers
    <2>3. waiters'[s] = {}
      BY <2>1 DEF IInv, Shape
    <2> QED BY <2>2, <2>3, CalmKeeps, NobodySleeps DEF IInv
  <1>4. CASE releaseReadLock_more(t)
    <2>1. /\ alive[t] /\ pc' = [pc EXCEPT ![t] = "rrUnreg"] /\ pc[t] = "rrTest"
          /\ rdCount[s] > 0
          /\ UNCHANGED <<waiters, rdCount, wtCount, wtWait, cur, alive>>
      BY <1>4 DEF releaseReadLock_more, DropMutex, At, Goto, procVars
    <2>2. \A x \in Sids : x # s => Calm(x)
      BY <2>1 DEF IInv, ControlInv, Calm, Shape, Sleepers
    <2>3. Justified(s)'
      <3>1. \A u \in waiters[s] : pc'[u] = pc[u]
        BY <2>1 DEF IInv, ControlInv, Shape, Sleepers
      <3>2. /\ WriterPresent(s) => WriterPresent(s)'
            /\ Occupied(s)'
            /\ \A v \in Threads : At(v, "wrTest") => At(v, "wrTest")'
        BY <1>1, <2>1 DEF WriterPresent, Occupied, At, IInv, Shape
      <3> QED BY <2>1, <3>1, <3>2 DEF Justified
    <2> QED BY <2>2, <2>3, CalmKeeps DEF IInv
  <1>5. CASE releaseWriteLock_unreg(t)
    <2>1. /\ alive[t] /\ pc' = [pc EXCEPT ![t] = "unlk"]
          /\ \/ pc[t] = "wrTest" /\ wtCount[s] > 0
             \/ pc[t] = "wrUnreg"
          /\ UNCHANGED <<waiters, rdCount, wtCount, wtWait, cur, alive>>
      BY <1>5 DEF releaseWriteLock_unreg, Book, At, Goto, nodeVars, procVars
    <2>2. \A x \in Sids : x # s \/ pc[t] = "wrUnreg" => Calm(x)
      BY <2>1 DEF IInv, ControlInv, Calm, Shape, Sleepers
    <2>3. CASE pc[t] = "wrTest"
      BY <1>1, <2>1, <2>2, <2>3, CalmKeeps, WriterInside DEF IInv
    <2>4. CASE pc[t] = "wrUnreg"
      BY <2>2, <2>4, CalmKeeps DEF IInv
    <2> QED BY <2>1, <2>3, <2>4
  <1> QED BY <1>2, <1>3, <1>4, <1>5

\* mutex_manager broadcasts when a counter it gives back reaches zero; while
\* it does not, somebody is left to wait for.
LEMMA RollbackJustified ==
    ASSUME IInv, IInv', NEW s \in Sids, \A x \in Sids : Justified(x),
           rollbackSrc_read(s) \/ rollbackSrc_write(s) \/ rollbackSrc_wait(s)
    PROVE  \A x \in Sids : Justified(x)'
  <1>1. rdCount[s] \in Nat /\ wtCount[s] \in Nat /\ wtWait[s] \in Nat
    BY Counted DEF IInv
  <1>2. /\ UNCHANGED <<pc, cur, alive>>
        /\ \A x \in Sids : x # s => /\ waiters'[x] = waiters[x]
                                    /\ rdCount'[x] = rdCount[x]
                                    /\ wtCount'[x] = wtCount[x]
                                    /\ wtWait'[x] = wtWait[x]
        /\ \/ waiters'[s] = {}
           \/ /\ waiters' = waiters
              /\ \/ rdCount'[s] > 0 /\ UNCHANGED <<wtCount, wtWait>>
                 \/ wtCount'[s] > 0 /\ UNCHANGED <<rdCount, wtWait>>
                 \/ wtWait'[s] > 0 /\ UNCHANGED <<rdCount, wtCount>>
    BY <1>1 DEF rollbackSrc_read, rollbackSrc_write, rollbackSrc_wait,
       GiveBack, Wakeup, cond_init, cond_broadcast, IInv, Shape, threadVars,
       procVars
  <1>3. \A x \in Sids : x # s => Calm(x)
    BY <1>2 DEF IInv, Shape, Calm
  <1>4. Justified(s)'
    <2>1. CASE waiters'[s] = {}
      BY <2>1, NobodySleeps
    <2>2. CASE waiters' = waiters /\ rdCount'[s] > 0 /\ UNCHANGED <<wtCount, wtWait>>
      <3>1. /\ WriterPresent(s) => WriterPresent(s)'
            /\ Occupied(s)'
            /\ \A v \in Threads : At(v, "wrTest") => At(v, "wrTest")'
        BY <1>1, <1>2, <2>2 DEF WriterPresent, Occupied, At, IInv, Shape
      <3> QED BY <1>2, <2>2, <3>1 DEF Justified
    <2>3. CASE wtCount'[s] > 0 /\ UNCHANGED <<rdCount, wtWait>>
      BY <1>1, <2>3, WriterInside DEF IInv
    <2>4. CASE waiters' = waiters /\ wtWait'[s] > 0 /\ UNCHANGED <<rdCount, wtCount>>
      <3>1. /\ WriterPresent(s)'
            /\ Occupied(s) => Occupied(s)'
            /\ WakeupDue(s) => WakeupDue(s)'
        BY <1>1, <1>2, <2>4 DEF WriterPresent, Occupied, WakeupDue, IInv, Shape
      <3> QED BY <1>2, <2>4, <3>1 DEF Justified
    <2> QED BY <1>2, <2>1, <2>2, <2>3, <2>4
  <1> QED BY <1>3, <1>4, CalmKeeps DEF IInv

-----------------------------------------------------------------------------

LEMMA JustifiedStep ==
    ASSUME IInv, IInv', CleanKills, [Next]_vars, \A s \in Sids : Justified(s)
    PROVE  \A s \in Sids : Justified(s)'
  <1>1. Shape /\ Shape' /\ Sleepers /\ Lifecycle /\ Unforced
    BY DEF IInv, ControlInv
  <1>2. CASE \A x \in Sids : Calm(x)
    BY <1>1, <1>2, CalmKeeps
  <1>3. CASE \E t \in Threads : \/ Request(t) \/ Release(t) \/ Acquire(t)
                                \/ SpuriousWake(t) \/ Kill(t)
                                \/ FindSlot(t)
    BY <1>1, <1>2, <1>3, QuietIsCalm, CallsAreQuiet,
       AcquiresAreQuiet, ProcessesAreCalm
  <1>4. CASE \E t \in Threads : Proceed(t)
    <2> PICK t \in Threads : Proceed(t)
      BY <1>4
    <2>1. CASE QuietStep(t)
      BY <1>1, <1>2, <2>1, ProceedsAreQuiet, QuietIsCalm
    <2>2. CASE ~QuietStep(t)
      BY <1>1, <2>2, WaitJustified, DecWaitJustified, DecJustified,
         TestJustified DEF Proceed, QuietStep
    <2> QED BY <2>1, <2>2
  <1>5. CASE Manager \/ UNCHANGED vars
    BY <1>1, <1>2, <1>5, ManagerIsCalm, RollbackJustified
    DEF Manager, rollbackSrc
  <1> QED BY <1>3, <1>4, <1>5 DEF Next

\* No thread of MutexDoubleLock sleeps on with nobody to wake it: whoever is
\* asleep in getReadLock or getWriteLock still has what it waits for in front
\* of it, or a broadcast of releaseReadLock or releaseWriteLock is due; the
\* rollbacks of mutex_manager included.
THEOREM NoWakeupIsLost ==
    CleanKills /\ Timely /\ RoomForAll /\ Spec => []NoLostWakeup
  <1> SUFFICES ASSUME CleanKills /\ Timely /\ RoomForAll PROVE Spec => []NoLostWakeup
    OBVIOUS
  <1> DEFINE AllJustified == \A s \in Sids : Justified(s)
  <1>1. Spec => []IInv
    BY IInvHolds, PTL
  <1>2. Init => AllJustified
    BY DEF Init, Justified
  <1>3. IInv /\ IInv' /\ AllJustified /\ [Next]_vars => AllJustified'
    BY JustifiedStep
  <1>4. IInv /\ AllJustified => NoLostWakeup
    BY DEF IInv, ControlInv, Unforced, Sleepers, Justified, NoLostWakeup,
       Asleep, WakeupDue, At
  <1> HIDE DEF AllJustified
  <1> QED BY <1>1, <1>2, <1>3, <1>4, PTL DEF Spec
==============================================================================
