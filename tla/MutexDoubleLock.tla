--------------------------- MODULE MutexDoubleLock ---------------------------
(***************************************************************************)
(* The process-shared readers/writer lock of the memory database           *)
(* (mdb/semaphore/MutexDoubleLock.cpp), the table in which every thread    *)
(* registers what it holds (MutexShmMgr.cpp), and mutex_manager, which     *)
(* rolls the registrations of killed processes back (MutexSrcMgr.cpp,      *)
(* MutexManagerApp.cpp).                                                   *)
(*                                                                         *)
(* A lock ("source", named by its id) is a MutexNode in shared memory: a   *)
(* pthread mutex, a condition variable and three counters.  The lock       *)
(* operations are modelled one shared-memory access per step, because a    *)
(* process can be killed between any two of them.                          *)
(***************************************************************************)
EXTENDS Integers, FiniteSets

CONSTANTS
    Threads,      \* threads of client processes, one process each
    Writers,      \* the threads that ever ask for a write lock
    Sids,         \* inner source ids of the locks
    NoThread,     \* owner of a free mutex
    MaxPSrcNum,   \* MAX_PSRC_NUM: entries in a thread's registration slot
    KillAt,       \* control points at which a process may be killed
    Caught,       \* running threads that mutex_manager may find in the same
                  \* mutex at each of its samples, stopped or back in it
    MaxKills      \* bound on the number of kills

ReadPCs == {"rLock", "rTest", "rWait"}
WritePCs == {"wLock", "wInc", "wReg", "wTest", "wWait", "wDec", "wUnregW",
             "wRegD"}
TryPCs == {"trTest", "trReg", "twTest", "twReg"}
ReleasePCs == {"rrLock", "rrDec", "rrTest", "rrNeg", "rrUnlk", "rrUnreg",
               "wrLock", "wrDec", "wrTest", "wrUnreg"}
StartPCs == {"sTake", "sUnlk"}
PCs == {"run", "unlk"} \cup StartPCs \cup ReadPCs \cup WritePCs \cup TryPCs
       \cup ReleasePCs

\* The points from which a kill leaves counters and registration in agreement
\* and no source's mutex locked: the caller's own code, the search for a slot,
\* and the blocking calls of releaseReadLock, releaseWriteLock and getWriteLock.
CleanPCs == {"run", "sTake", "sUnlk", "wLock", "wWait", "rrLock", "wrLock"}

ASSUME ThreadsAssumption ==
    IsFiniteSet(Threads) /\ NoThread \notin Threads /\ Writers \subseteq Threads
ASSUME SidsAssumption == IsFiniteSet(Sids)
ASSUME BoundsAssumption ==
    MaxPSrcNum \in Nat /\ MaxKills \in Nat /\ KillAt \subseteq PCs
ASSUME CaughtAssumption == Caught \subseteq Threads

VARIABLES
    mutex,     \* m_mutex: its owner
    waiters,   \* m_cond: the threads asleep on it
    orphans,   \* sleepers of a condition variable initialised over their heads
    rdCount,   \* m_rdCount
    wtCount,   \* m_wtCount
    wtWait,    \* m_wtWait
    rcount,    \* the thread's slot, ProcessMSrcInfo::m_srcInfo, by source id:
    wcount,    \*   its read locks, its write locks and
    wwait,     \*   its waits for a write lock
    slot,      \* ProcessMSrcInfo::m_state: the thread has a slot
    pc,        \* control point of each thread (frozen when it is killed)
    cur,       \* the source a thread's operation is about
    mode,      \* what the thread's caller holds
    alive,     \* the thread's process exists
    node0,     \* the mutex of node 0, which protects the slots: the thread
               \* that owns it (rollbackSrc owns it while victim # NoThread)
    kills,     \* number of kills so far
    victims,   \* mutex_manager: slots found without a process
    victim,    \* mutex_manager: the slot rollbackSrc is working on
    forced     \* mutex_manager: the source whose mutex it has just unlocked
               \* by force (iLockCount = 3), as a set of at most one

nodeVars == <<mutex, waiters, orphans, rdCount, wtCount, wtWait>>
threadVars == <<pc, cur, mode>>
srcVars == <<rcount, wcount, wwait>>
mgrVars == <<victims, victim, forced>>
procVars == <<slot, alive, node0, kills>>
vars == <<nodeVars, srcVars, threadVars, procVars, mgrVars>>

Modes == {"none", "read", "write"}

-----------------------------------------------------------------------------
(* MutexShmMgr: the registration slot of one thread.  An entry exists as   *)
(* long as the sum of its counts is positive.                              *)

Registered(t) == {s \in Sids : rcount[t][s] + wcount[t][s] + wwait[t][s] > 0}
HasRoom(t, s) ==
    s \in Registered(t) \/ Cardinality(Registered(t)) < MaxPSrcNum

Add(f, t, s, n) == f' = [f EXCEPT ![t][s] = @ + n]
Wipe(f, t, s) == f' = [f EXCEPT ![t][s] = 0]

\* A thread whose slot is full locks without being registered.
lockRdSrc(t, s) ==
    /\ IF HasRoom(t, s) THEN Add(rcount, t, s, 1) ELSE UNCHANGED rcount
    /\ UNCHANGED <<wcount, wwait>>
lockWdSrc(t, s) ==
    /\ IF HasRoom(t, s) THEN Add(wcount, t, s, 1) ELSE UNCHANGED wcount
    /\ UNCHANGED <<rcount, wwait>>
lockWWaitSrc(t, s) ==
    /\ IF HasRoom(t, s) THEN Add(wwait, t, s, 1) ELSE UNCHANGED wwait
    /\ UNCHANGED <<rcount, wcount>>

\* f is the count that goes down, g and h are the other two; an entry whose
\* counts no longer add up to a positive number is removed.
Leave(f, g, h, t, s) ==
    IF s \notin Registered(t) THEN UNCHANGED <<f, g, h>>
    ELSE IF f[t][s] - 1 + g[t][s] + h[t][s] > 0
         THEN Add(f, t, s, -1) /\ UNCHANGED <<g, h>>
         ELSE Wipe(f, t, s) /\ Wipe(g, t, s) /\ Wipe(h, t, s)

\* Seeded fault: the registration of a read lock is not removed.
Fault_unlockRdSrc(t, s) == UNCHANGED <<rcount, wcount, wwait>>

unlockRdSrc(t, s) == Leave(rcount, wcount, wwait, t, s)
unlockWdSrc(t, s) == Leave(wcount, rcount, wwait, t, s)
unlockWWaitSrc(t, s) == Leave(wwait, rcount, wcount, t, s)

-----------------------------------------------------------------------------
(* POSIX threads.                                                          *)

At(t, l) == alive[t] /\ pc[t] = l
Goto(t, l) == pc' = [pc EXCEPT ![t] = l]

mutex_lock(t, s) ==
    mutex[s] = NoThread /\ mutex' = [mutex EXCEPT ![s] = t]
mutex_unlock(s) == mutex' = [mutex EXCEPT ![s] = NoThread]

\* pthread_cond_wait: sleep and give the mutex up in one step.
cond_wait(t, s) ==
    waiters' = [waiters EXCEPT ![s] = @ \cup {t}] /\ mutex_unlock(s)

\* pthread_cond_broadcast wakes all sleepers.  Whether it also reaches the
\* sleepers of an earlier life of the condition variable is undefined.
cond_broadcast(s) ==
    /\ waiters' = [waiters EXCEPT ![s] = {}]
    /\ \E o \in SUBSET orphans[s] : orphans' = [orphans EXCEPT ![s] = o]

\* pthread_cond_init on a condition variable in use: no sleeper is woken.
cond_init(s) ==
    /\ orphans' = [orphans EXCEPT ![s] = @ \cup waiters[s]]
    /\ waiters' = [waiters EXCEPT ![s] = {}]

Asleep(t, s) == t \in waiters[s] \cup orphans[s]

\* POSIX allows a wait to return without a broadcast.
SpuriousWake(t) ==
    /\ \E s \in Sids : /\ t \in waiters[s]
                       /\ waiters' = [waiters EXCEPT ![s] = @ \ {t}]
    /\ UNCHANGED <<mutex, orphans, rdCount, wtCount, wtWait, srcVars,
                   threadVars, procVars, mgrVars>>

-----------------------------------------------------------------------------
(* Seeded faults, each a plausible slip in the definition it is named      *)
(* after.  Nothing uses them; substituted for that definition, each breaks *)
(* one property.                                                           *)

\* The readers' test forgets the writers that wait.
Fault_WriterPresent(s) == wtCount[s] > 0

\* The writers' test forgets the writer that is in.
Fault_Occupied(s) == rdCount[s] > 0

\* A woken condition variable is reset without waking its sleepers.
Fault_Wakeup(s) == cond_init(s)

\* The loops of rollbackSrc run once too often.
Fault_rollbackSrc_write(s) ==
    /\ victim # NoThread
    /\ rcount[victim][s] <= 0 /\ wcount[victim][s] >= 0
    /\ mutex[s] = NoThread
    /\ wtCount' = [wtCount EXCEPT ![s] = IF @ > 0 THEN @ - 1 ELSE @]
    /\ IF wtCount'[s] = 0 THEN cond_broadcast(s)
                          ELSE UNCHANGED <<waiters, orphans>>
    /\ Add(wcount, victim, s, -1) /\ UNCHANGED <<rcount, wwait>>
    /\ UNCHANGED <<mutex, rdCount, wtWait, threadVars, procVars, mgrVars>>

\* A counter that is already zero is lowered too, as rollbackSrc once did.
Fault_GiveBack(count) == count - 1

\* rollbackSrc waits for the mutex instead of forcing it, as it once did.
Fault_rollbackSrc_noforce(s) == FALSE /\ UNCHANGED vars

-----------------------------------------------------------------------------
(* MutexDoubleLock: the lock operations.  A caller asks for a source it    *)
(* does not hold and releases one it holds.                                *)

Call(t, s, m, l) ==
    /\ At(t, "run") /\ mode[t][s] = m
    /\ cur' = [cur EXCEPT ![t] = s]
    /\ Goto(t, l)
    /\ UNCHANGED mode

\* The mutex is taken, at the start of an operation or on return from a wait.
TakeMutex(t, from, to) ==
    /\ At(t, from) /\ mutex_lock(t, cur[t]) /\ Goto(t, to)
    /\ UNCHANGED <<waiters, orphans, rdCount, wtCount, wtWait, srcVars, cur,
                   mode, procVars, mgrVars>>

Rewaken(t, from, to) == ~Asleep(t, cur[t]) /\ TakeMutex(t, from, to)

\* The last step under the mutex.
DropMutex(t, from, to) ==
    /\ At(t, from) /\ mutex_unlock(cur[t]) /\ Goto(t, to)
    /\ UNCHANGED <<waiters, orphans, rdCount, wtCount, wtWait, srcVars, cur,
                   mode, procVars, mgrVars>>

\* A step that only changes the registration slot.
Book(t, from, to, Op(_, _)) ==
    /\ At(t, from) /\ Op(t, cur[t]) /\ Goto(t, to)
    /\ UNCHANGED <<nodeVars, cur, mode, procVars, mgrVars>>

Sleep(t, from, to) ==
    /\ At(t, from) /\ cond_wait(t, cur[t]) /\ Goto(t, to)
    /\ UNCHANGED <<orphans, rdCount, wtCount, wtWait, srcVars, cur, mode,
                   procVars, mgrVars>>

\* The caller's mode changes with the counter that stands for it.
CountRead(t, from, to, n, m) ==
    /\ At(t, from) /\ Goto(t, to)
    /\ rdCount' = [rdCount EXCEPT ![cur[t]] = n]
    /\ mode' = [mode EXCEPT ![t][cur[t]] = m]
    /\ UNCHANGED <<mutex, waiters, orphans, wtCount, wtWait, srcVars, cur,
                   procVars, mgrVars>>
CountWrite(t, from, to, n, m) ==
    /\ At(t, from) /\ Goto(t, to)
    /\ wtCount' = [wtCount EXCEPT ![cur[t]] = n]
    /\ mode' = [mode EXCEPT ![t][cur[t]] = m]
    /\ UNCHANGED <<mutex, waiters, orphans, rdCount, wtWait, srcVars, cur,
                   procVars, mgrVars>>
CountWait(t, from, to, n) ==
    /\ At(t, from) /\ Goto(t, to)
    /\ wtWait' = [wtWait EXCEPT ![cur[t]] = n]
    /\ UNCHANGED <<mutex, waiters, orphans, rdCount, wtCount, srcVars, cur, mode,
                   procVars, mgrVars>>

Broadcast(t, from, to) ==
    /\ At(t, from) /\ cond_broadcast(cur[t]) /\ Goto(t, to)
    /\ UNCHANGED <<mutex, rdCount, wtCount, wtWait, srcVars, cur, mode, procVars,
                   mgrVars>>

WriterPresent(s) == wtCount[s] + wtWait[s] > 0
Occupied(s) == rdCount[s] + wtCount[s] > 0

\* getReadLock registers before it takes the mutex.
getReadLock_call(t, s) ==
    /\ Call(t, s, "none", "rLock")
    /\ lockRdSrc(t, s)
    /\ UNCHANGED <<nodeVars, procVars, mgrVars>>
getReadLock_lock(t) == TakeMutex(t, "rLock", "rTest")
getReadLock_wait(t) == WriterPresent(cur[t]) /\ Sleep(t, "rTest", "rWait")
getReadLock_wake(t) == Rewaken(t, "rWait", "rTest")
getReadLock_enter(t) ==
    /\ ~WriterPresent(cur[t])
    /\ CountRead(t, "rTest", "unlk", rdCount[cur[t]] + 1, "read")

getWriteLock_call(t, s) ==
    /\ t \in Writers /\ Call(t, s, "none", "wLock")
    /\ UNCHANGED <<nodeVars, srcVars, procVars, mgrVars>>
getWriteLock_lock(t) == TakeMutex(t, "wLock", "wInc")
getWriteLock_incWait(t) == CountWait(t, "wInc", "wReg", wtWait[cur[t]] + 1)
getWriteLock_regWait(t) == Book(t, "wReg", "wTest", lockWWaitSrc)
getWriteLock_wait(t) == Occupied(cur[t]) /\ Sleep(t, "wTest", "wWait")
getWriteLock_wake(t) == Rewaken(t, "wWait", "wTest")
getWriteLock_enter(t) ==
    /\ ~Occupied(cur[t])
    /\ CountWrite(t, "wTest", "wDec", wtCount[cur[t]] + 1, "write")
getWriteLock_decWait(t) == CountWait(t, "wDec", "wUnregW", wtWait[cur[t]] - 1)
getWriteLock_unregWait(t) == Book(t, "wUnregW", "wRegD", unlockWWaitSrc)
getWriteLock_reg(t) == Book(t, "wRegD", "unlk", lockWdSrc)

\* The NoWait variants return false, changing nothing, when trylock fails.
getReadLockNoWait_call(t, s) ==
    /\ Call(t, s, "none", "trTest")
    /\ mutex_lock(t, s)
    /\ UNCHANGED <<waiters, orphans, rdCount, wtCount, wtWait, srcVars, procVars,
                   mgrVars>>
getReadLockNoWait_refuse(t) ==
    WriterPresent(cur[t]) /\ DropMutex(t, "trTest", "run")
getReadLockNoWait_enter(t) ==
    /\ ~WriterPresent(cur[t])
    /\ CountRead(t, "trTest", "trReg", rdCount[cur[t]] + 1, "read")
getReadLockNoWait_reg(t) == Book(t, "trReg", "unlk", lockRdSrc)

getWriteLockNoWait_call(t, s) ==
    /\ t \in Writers /\ Call(t, s, "none", "twTest")
    /\ mutex_lock(t, s)
    /\ UNCHANGED <<waiters, orphans, rdCount, wtCount, wtWait, srcVars, procVars,
                   mgrVars>>
getWriteLockNoWait_refuse(t) ==
    Occupied(cur[t]) /\ DropMutex(t, "twTest", "run")
getWriteLockNoWait_enter(t) ==
    /\ ~Occupied(cur[t])
    /\ CountWrite(t, "twTest", "twReg", wtCount[cur[t]] + 1, "write")
getWriteLockNoWait_reg(t) == Book(t, "twReg", "unlk", lockWdSrc)

releaseReadLock_call(t, s) ==
    /\ Call(t, s, "read", "rrLock")
    /\ UNCHANGED <<nodeVars, srcVars, procVars, mgrVars>>
releaseReadLock_lock(t) == TakeMutex(t, "rrLock", "rrDec")
releaseReadLock_dec(t) ==
    CountRead(t, "rrDec", "rrTest", rdCount[cur[t]] - 1, "none")
\* A counter found below zero is reset, and the operation throws.
releaseReadLock_reset(t) ==
    rdCount[cur[t]] < 0 /\ CountRead(t, "rrTest", "rrNeg", 0, "none")
releaseReadLock_throw(t) == Book(t, "rrNeg", "unlk", unlockRdSrc)
releaseReadLock_last(t) ==
    rdCount[cur[t]] = 0 /\ Broadcast(t, "rrTest", "rrUnlk")
releaseReadLock_more(t) ==
    rdCount[cur[t]] > 0 /\ DropMutex(t, "rrTest", "rrUnreg")
releaseReadLock_unlock(t) == DropMutex(t, "rrUnlk", "rrUnreg")
\* The registration goes last, after the mutex.
releaseReadLock_unreg(t) == Book(t, "rrUnreg", "run", unlockRdSrc)

releaseWriteLock_call(t, s) ==
    /\ Call(t, s, "write", "wrLock")
    /\ UNCHANGED <<nodeVars, srcVars, procVars, mgrVars>>
releaseWriteLock_lock(t) == TakeMutex(t, "wrLock", "wrDec")
releaseWriteLock_dec(t) ==
    CountWrite(t, "wrDec", "wrTest", wtCount[cur[t]] - 1, "none")
releaseWriteLock_reset(t) ==
    wtCount[cur[t]] < 0 /\ CountWrite(t, "wrTest", "wrUnreg", 0, "none")
releaseWriteLock_last(t) ==
    wtCount[cur[t]] = 0 /\ Broadcast(t, "wrTest", "wrUnreg")
\* A counter that is still positive skips the broadcast.
releaseWriteLock_unreg(t) ==
    \E l \in {"wrTest", "wrUnreg"} :
        /\ l = "wrTest" => wtCount[cur[t]] > 0
        /\ Book(t, l, "unlk", unlockWdSrc)

\* pthread_mutex_unlock, the last step of the operations that end with it.
unlock_return(t) == DropMutex(t, "unlk", "run")

-----------------------------------------------------------------------------
(* Processes come and go.                                                  *)

\* kill -9: the process stops where it is; the kernel takes it off the
\* condition variable, but a mutex it owns stays locked.
Kill(t) ==
    /\ alive[t] /\ pc[t] \in KillAt /\ kills < MaxKills
    /\ alive' = [alive EXCEPT ![t] = FALSE]
    /\ kills' = kills + 1
    /\ waiters' = [s \in Sids |-> waiters[s] \ {t}]
    /\ orphans' = [s \in Sids |-> orphans[s] \ {t}]
    /\ UNCHANGED <<mutex, rdCount, wtCount, wtWait, srcVars, slot, node0,
                   threadVars, mgrVars>>

ClearSlot(t) ==
    /\ rcount' = [rcount EXCEPT ![t] = [s \in Sids |-> 0]]
    /\ wcount' = [wcount EXCEPT ![t] = [s \in Sids |-> 0]]
    /\ wwait' = [wwait EXCEPT ![t] = [s \in Sids |-> 0]]

Node0Free == node0 = NoThread /\ victim = NoThread

\* A process starts: setThreadSrcPos waits for the mutex of node 0, takes a
\* free slot and unlocks.
setThreadSrcPos_lock(t) ==
    /\ ~alive[t] /\ ~slot[t] /\ Node0Free
    /\ node0' = t
    /\ alive' = [alive EXCEPT ![t] = TRUE]
    /\ Goto(t, "sTake")
    /\ mode' = [mode EXCEPT ![t] = [s \in Sids |-> "none"]]
    /\ UNCHANGED <<nodeVars, srcVars, slot, kills, cur, mgrVars>>
setThreadSrcPos_take(t) ==
    /\ At(t, "sTake") /\ Goto(t, "sUnlk")
    /\ slot' = [slot EXCEPT ![t] = TRUE]
    /\ ClearSlot(t)
    /\ UNCHANGED <<nodeVars, alive, node0, kills, cur, mode, mgrVars>>

\* A thread that opens the database again, while it holds no lock, finds the
\* slot it has.
getThreadSrcPos_lock(t) ==
    /\ At(t, "run") /\ Node0Free
    /\ \A s \in Sids : mode[t][s] = "none"
    /\ node0' = t /\ Goto(t, "sUnlk")
    /\ UNCHANGED <<nodeVars, srcVars, slot, alive, kills, cur, mode, mgrVars>>
threadSrcPos_unlock(t) ==
    /\ At(t, "sUnlk") /\ Goto(t, "run")
    /\ node0' = NoThread
    /\ UNCHANGED <<nodeVars, srcVars, slot, alive, kills, cur, mode, mgrVars>>

-----------------------------------------------------------------------------
(* mutex_manager.  It is assumed to run undisturbed, so what it does to a  *)
(* node while it holds that node's mutex is one step.                      *)

getExitProcessInfo ==
    /\ victims = {} /\ victim = NoThread
    /\ victims' = {t \in Threads : slot[t] /\ ~alive[t]}
    /\ UNCHANGED <<nodeVars, srcVars, threadVars, procVars, victim, forced>>

\* rollbackSrc unlocks a mutex it did not lock after three failed trylocks, a
\* second apart, between which the mutex has not changed.  A dead owner always
\* gives it that; a running one that never stays so long, nor is back in the
\* mutex each time, never does: the code cannot tell the two, and which
\* running threads are out of it is left to Caught.
Unchanging(owner) == owner # NoThread /\ (alive[owner] => owner \in Caught)

\* rollbackSrc holds the mutex of node 0 from before its search for the slot
\* until it returns.
rollbackSrc_force0 ==
    /\ victim = NoThread /\ victims # {} /\ Unchanging(node0)
    /\ node0' = NoThread
    /\ UNCHANGED <<nodeVars, srcVars, threadVars, slot, alive, kills, mgrVars>>
rollbackSrc_begin ==
    /\ Node0Free
    /\ \E v \in victims : victim' = v /\ victims' = victims \ {v}
    /\ UNCHANGED <<nodeVars, srcVars, threadVars, procVars, forced>>

Wakeup(s) == IF s \in forced THEN cond_init(s) ELSE cond_broadcast(s)

\* Each registered count is given back under the node's mutex, reads first,
\* then writes, then waits; a counter that is already zero is left alone.
GiveBack(count) == IF count > 0 THEN count - 1 ELSE count
rollbackSrc_read(s) ==
    /\ victim # NoThread /\ rcount[victim][s] > 0
    /\ mutex[s] = NoThread /\ forced \subseteq {s}
    /\ rdCount' = [rdCount EXCEPT ![s] = GiveBack(@)]
    /\ IF rdCount'[s] = 0 THEN Wakeup(s) ELSE UNCHANGED <<waiters, orphans>>
    /\ Add(rcount, victim, s, -1) /\ UNCHANGED <<wcount, wwait>>
    /\ forced' = {}
    /\ UNCHANGED <<mutex, wtCount, wtWait, threadVars, procVars, victims,
                   victim>>
rollbackSrc_write(s) ==
    /\ victim # NoThread
    /\ rcount[victim][s] <= 0 /\ wcount[victim][s] > 0
    /\ mutex[s] = NoThread /\ forced \subseteq {s}
    /\ wtCount' = [wtCount EXCEPT ![s] = GiveBack(@)]
    /\ IF wtCount'[s] = 0 THEN Wakeup(s) ELSE UNCHANGED <<waiters, orphans>>
    /\ Add(wcount, victim, s, -1) /\ UNCHANGED <<rcount, wwait>>
    /\ forced' = {}
    /\ UNCHANGED <<mutex, rdCount, wtWait, threadVars, procVars, victims,
                   victim>>
rollbackSrc_wait(s) ==
    /\ victim # NoThread
    /\ rcount[victim][s] <= 0 /\ wcount[victim][s] <= 0
    /\ wwait[victim][s] > 0
    /\ mutex[s] = NoThread /\ forced \subseteq {s}
    /\ wtWait' = [wtWait EXCEPT ![s] = GiveBack(@)]
    /\ IF wtWait'[s] = 0 THEN Wakeup(s) ELSE UNCHANGED <<waiters, orphans>>
    /\ Add(wwait, victim, s, -1) /\ UNCHANGED <<rcount, wcount>>
    /\ forced' = {}
    /\ UNCHANGED <<mutex, rdCount, wtCount, threadVars, procVars, victims,
                   victim>>

InUse(t, s) == rcount[t][s] > 0 \/ wcount[t][s] > 0 \/ wwait[t][s] > 0

rollbackSrc_force(s) ==
    /\ victim # NoThread /\ InUse(victim, s)
    /\ Unchanging(mutex[s]) /\ forced = {}
    /\ mutex_unlock(s)
    /\ forced' = {s}
    /\ UNCHANGED <<waiters, orphans, rdCount, wtCount, wtWait, srcVars,
                   threadVars, procVars, victims, victim>>

\* Another thread took the mutex first: it changed, the count starts again.
rollbackSrc_retry(s) ==
    /\ victim # NoThread /\ InUse(victim, s)
    /\ s \in forced /\ mutex[s] # NoThread
    /\ forced' = {}
    /\ UNCHANGED <<nodeVars, srcVars, threadVars, procVars, victims, victim>>

\* Nothing is left to give back: the slot is wiped.
rollbackSrc_end ==
    /\ victim # NoThread
    /\ \A s \in Sids : ~InUse(victim, s)
    /\ ClearSlot(victim)
    /\ slot' = [slot EXCEPT ![victim] = FALSE]
    /\ victim' = NoThread
    /\ UNCHANGED <<nodeVars, threadVars, alive, node0, kills, victims, forced>>

-----------------------------------------------------------------------------

Init ==
    /\ mutex = [s \in Sids |-> NoThread]
    /\ waiters = [s \in Sids |-> {}]
    /\ orphans = [s \in Sids |-> {}]
    /\ rdCount = [s \in Sids |-> 0]
    /\ wtCount = [s \in Sids |-> 0]
    /\ wtWait = [s \in Sids |-> 0]
    /\ rcount = [t \in Threads |-> [s \in Sids |-> 0]]
    /\ wcount = [t \in Threads |-> [s \in Sids |-> 0]]
    /\ wwait = [t \in Threads |-> [s \in Sids |-> 0]]
    /\ slot = [t \in Threads |-> FALSE]
    /\ pc = [t \in Threads |-> "run"]
    /\ cur \in [Threads -> Sids]
    /\ mode = [t \in Threads |-> [s \in Sids |-> "none"]]
    /\ alive = [t \in Threads |-> FALSE]
    /\ node0 = NoThread
    /\ kills = 0
    /\ victims = {}
    /\ victim = NoThread
    /\ forced = {}

\* The caller decides to start an operation.
Request(t) ==
    \E s \in Sids :
        \/ getReadLock_call(t, s)
        \/ getWriteLock_call(t, s)
        \/ getReadLockNoWait_call(t, s)
        \/ getWriteLockNoWait_call(t, s)

Release(t) ==
    \E s \in Sids : releaseReadLock_call(t, s) \/ releaseWriteLock_call(t, s)

\* Waiting for the mutex.
Acquire(t) ==
    \/ getReadLock_lock(t)
    \/ getReadLock_wake(t)
    \/ getWriteLock_lock(t)
    \/ getWriteLock_wake(t)
    \/ releaseReadLock_lock(t)
    \/ releaseWriteLock_lock(t)

\* The other steps of an operation under way.
Proceed(t) ==
    \/ getReadLock_wait(t)
    \/ getReadLock_enter(t)
    \/ getWriteLock_incWait(t)
    \/ getWriteLock_regWait(t)
    \/ getWriteLock_wait(t)
    \/ getWriteLock_enter(t)
    \/ getWriteLock_decWait(t)
    \/ getWriteLock_unregWait(t)
    \/ getWriteLock_reg(t)
    \/ getReadLockNoWait_refuse(t)
    \/ getReadLockNoWait_enter(t)
    \/ getReadLockNoWait_reg(t)
    \/ getWriteLockNoWait_refuse(t)
    \/ getWriteLockNoWait_enter(t)
    \/ getWriteLockNoWait_reg(t)
    \/ releaseReadLock_dec(t)
    \/ releaseReadLock_reset(t)
    \/ releaseReadLock_throw(t)
    \/ releaseReadLock_last(t)
    \/ releaseReadLock_more(t)
    \/ releaseReadLock_unlock(t)
    \/ releaseReadLock_unreg(t)
    \/ releaseWriteLock_dec(t)
    \/ releaseWriteLock_reset(t)
    \/ releaseWriteLock_last(t)
    \/ releaseWriteLock_unreg(t)
    \/ unlock_return(t)

\* A process finds its slot.
FindSlot(t) ==
    \/ setThreadSrcPos_lock(t)
    \/ getThreadSrcPos_lock(t)
    \/ setThreadSrcPos_take(t)
    \/ threadSrcPos_unlock(t)

rollbackSrc(s) ==
    \/ rollbackSrc_read(s)
    \/ rollbackSrc_write(s)
    \/ rollbackSrc_wait(s)
    \/ rollbackSrc_force(s)
    \/ rollbackSrc_retry(s)

Manager ==
    \/ getExitProcessInfo
    \/ rollbackSrc_force0
    \/ rollbackSrc_begin
    \/ \E s \in Sids : rollbackSrc(s)
    \/ rollbackSrc_end

Next ==
    \/ \E t \in Threads :
           \/ Request(t)
           \/ Release(t)
           \/ Acquire(t)
           \/ Proceed(t)
           \/ SpuriousWake(t)
           \/ Kill(t)
           \/ FindSlot(t)
    \/ Manager

Spec == Init /\ [][Next]_vars

\* A running thread goes on, callers release what they hold, and neither a
\* thread nor the manager is kept from a mutex that is free again and again.
\* Nobody has to ask for a lock, to be killed or to be restarted.
Fairness ==
    /\ \A t \in Threads :
           /\ WF_vars(Proceed(t)) /\ WF_vars(Release(t)) /\ SF_vars(Acquire(t))
           /\ WF_vars(setThreadSrcPos_take(t)) /\ WF_vars(threadSrcPos_unlock(t))
    /\ WF_vars(getExitProcessInfo)
    /\ WF_vars(rollbackSrc_force0)
    /\ SF_vars(rollbackSrc_begin)
    /\ \A s \in Sids : SF_vars(rollbackSrc(s))
    /\ WF_vars(rollbackSrc_end)

FairSpec == Spec /\ Fairness

-----------------------------------------------------------------------------
(* What the lock promises.                                                 *)

TypeOK ==
    /\ mutex \in [Sids -> Threads \cup {NoThread}]
    /\ waiters \in [Sids -> SUBSET Threads]
    /\ orphans \in [Sids -> SUBSET Threads]
    /\ rdCount \in [Sids -> Int]
    /\ wtCount \in [Sids -> Int]
    /\ wtWait \in [Sids -> Int]
    /\ rcount \in [Threads -> [Sids -> Nat]]
    /\ wcount \in [Threads -> [Sids -> Nat]]
    /\ wwait \in [Threads -> [Sids -> Nat]]
    /\ slot \in [Threads -> BOOLEAN]
    /\ pc \in [Threads -> PCs]
    /\ cur \in [Threads -> Sids]
    /\ mode \in [Threads -> [Sids -> Modes]]
    /\ alive \in [Threads -> BOOLEAN]
    /\ node0 \in Threads \cup {NoThread}
    /\ kills \in Nat
    /\ victims \subseteq Threads
    /\ victim \in Threads \cup {NoThread}
    /\ forced \subseteq Sids

\* Between two threads that run, a write lock excludes every other lock on
\* the same source (DoubleLock.h:40-41).
Exclusion ==
    \A s \in Sids, t, u \in Threads :
        /\ t # u /\ alive[t] /\ alive[u]
        /\ mode[t][s] = "write"
        => mode[u][s] = "none"

\* A killed thread still counts for what its slot says until rollbackSrc has
\* given it back.
Reads(t, s) ==
    IF alive[t] THEN mode[t][s] = "read" ELSE rcount[t][s] > 0
Writes(t, s) ==
    IF alive[t] THEN mode[t][s] = "write" ELSE wcount[t][s] > 0
Waits(t, s) ==
    IF alive[t] THEN cur[t] = s /\ pc[t] \in {"wReg", "wTest", "wWait", "wDec"}
                ELSE wwait[t][s] > 0

\* The counters in shared memory are exactly the numbers of readers, writers
\* and waiting writers, killed ones that are not rolled back yet included: no
\* registration is lost, kept or given back twice.
CountersExact ==
    \A s \in Sids :
        /\ rdCount[s] = Cardinality({t \in Threads : Reads(t, s)})
        /\ wtCount[s] = Cardinality({t \in Threads : Writes(t, s)})
        /\ wtWait[s] = Cardinality({t \in Threads : Waits(t, s)})

\* Some thread has brought a counter of s to zero and is about to broadcast.
WakeupDue(s) ==
    \E t \in Threads : alive[t] /\ cur[t] = s /\ pc[t] \in {"rrTest", "wrTest"}

\* No wakeup is lost: whoever sleeps on the condition variable still has what
\* it waits for in front of it, or a broadcast is on its way.
NoLostWakeup ==
    \A s \in Sids, t \in Threads :
        Asleep(t, s) => \/ WakeupDue(s)
                        \/ pc[t] = "rWait" /\ WriterPresent(s)
                        \/ pc[t] = "wWait" /\ Occupied(s)

LockedPCs == {"rTest", "wInc", "wReg", "wTest", "wDec", "wUnregW", "wRegD",
              "trTest", "trReg", "twTest", "twReg", "rrDec", "rrTest",
              "rrNeg", "rrUnlk", "wrDec", "wrTest", "wrUnreg", "unlk"}

\* Two running threads never work on the counters of one source at once.
MutexProtects ==
    \A t, u \in Threads :
        /\ t # u /\ alive[t] /\ alive[u]
        /\ pc[t] \in LockedPCs /\ pc[u] \in LockedPCs
        => cur[t] # cur[u]

\* Wherever one process is killed, neither its rollback nor the operations of
\* the others leave a counter of locks below zero: one that has gone below is
\* seen and reset by the thread that lowered it.
NegativeIsReset ==
    \A s \in Sids :
        /\ rdCount[s] < 0 =>
               \E t \in Threads : At(t, "rrTest") /\ cur[t] = s
        /\ wtCount[s] < 0 =>
               \E t \in Threads : At(t, "wrTest") /\ cur[t] = s

\* The slot of a killed process does not stay taken, wherever it was killed.
DeadSlotIsFreed == \A t \in Threads : ~alive[t] ~> ~slot[t]

\* A process killed while it holds the mutex of node 0 does not keep the others
\* from their slots for ever.
Node0IsFreed ==
    \A t \in Threads : node0 = t /\ ~alive[t] ~> node0 # t

\* Once no killed process is left in the slots, the counters are those of the
\* threads that run, and no mutex is owned by a thread that does not.
RolledBack ==
    (\A t \in Threads : slot[t] => alive[t]) =>
        /\ CountersExact
        /\ \A s \in Sids : mutex[s] # NoThread => alive[mutex[s]]

\* Readers do not starve a writer, however many come: they queue up behind it.
\* Unless a process is killed, all that a waiting writer may have to wait for
\* again and again is another writer.
WaitingWriterServed ==
    \A t \in Threads :
        pc[t] = "wWait" ~>
            \/ pc[t] = "run" \/ kills > 0
            \/ \E u \in Threads \ {t} : Waits(u, cur[t]) \/ Writes(u, cur[t])

Lock == INSTANCE RWLock WITH
    held <- [t \in Threads |-> [s \in Sids |->
                IF Reads(t, s) THEN "read"
                ELSE IF Writes(t, s) THEN "write" ELSE "none"]],
    pending <- [s \in Sids |-> {t \in Threads : Waits(t, s) /\ ~Writes(t, s)}]

\* The lock implements the abstract readers/writer lock: it excludes as it
\* promises, and no reader passes a writer that waits.
ImplementsRWLock == Lock!Spec
=============================================================================
