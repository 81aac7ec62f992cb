------------------------- MODULE MutexDoubleLockInv --------------------------
(***************************************************************************)
(* The inductive invariant of MutexDoubleLock when processes are killed    *)
(* only at CleanPCs, a slot has room for every source and no running       *)
(* thread stays so long in a mutex that mutex_manager takes it for dead.   *)
(***************************************************************************)
EXTENDS MutexDoubleLock

CleanKills == KillAt \subseteq CleanPCs
Timely == Caught = {}
RoomForAll == Cardinality(Sids) <= MaxPSrcNum

\* The shape of the variables, wherever processes are killed: here the counts
\* of a slot are only known to be integers.
Shape ==
    /\ mutex \in [Sids -> Threads \cup {NoThread}]
    /\ waiters \in [Sids -> SUBSET Threads]
    /\ orphans \in [Sids -> SUBSET Threads]
    /\ rdCount \in [Sids -> Int]
    /\ wtCount \in [Sids -> Int]
    /\ wtWait \in [Sids -> Int]
    /\ rcount \in [Threads -> [Sids -> Int]]
    /\ wcount \in [Threads -> [Sids -> Int]]
    /\ wwait \in [Threads -> [Sids -> Int]]
    /\ slot \in [Threads -> BOOLEAN]
    /\ pc \in [Threads -> PCs]
    /\ cur \in [Threads -> Sids]
    /\ mode \in [Threads -> [Sids -> Modes]]
    /\ alive \in [Threads -> BOOLEAN]
    /\ node0 \in Threads \cup {NoThread}
    /\ kills \in Nat
    /\ victims \subseteq Threads
    /\ victim \in Threads \cup {NoThread}
    /\ forced \subseteq Sids

\* A running thread under the mutex owns it.
Ownership ==
    \A t \in Threads :
        alive[t] /\ pc[t] \in LockedPCs => mutex[cur[t]] = t

\* Only a thread under the mutex owns it, so no dead thread does, and the
\* manager never has to force it.
Unforced ==
    /\ \A s \in Sids : mutex[s] # NoThread =>
           /\ alive[mutex[s]]
           /\ cur[mutex[s]] = s
           /\ pc[mutex[s]] \in LockedPCs
    /\ forced = {}
    /\ orphans = [s \in Sids |-> {}]

\* Slots, processes and the manager's list of dead ones.
Lifecycle ==
    /\ \A t \in Threads : alive[t] /\ pc[t] # "sTake" => slot[t]
    /\ \A t \in victims : ~alive[t] /\ slot[t]
    /\ victim # NoThread =>
           ~alive[victim] /\ slot[victim] /\ victim \notin victims

UncountedPCs ==
    {"rLock", "rTest", "rWait", "wLock", "wInc", "wReg", "wTest", "wWait",
     "trTest", "twTest", "rrTest", "rrNeg", "rrUnlk", "rrUnreg", "wrTest",
     "wrUnreg"}

\* What the caller holds of the source its operation is about.
ModeOfPC ==
    \A t \in Threads : alive[t] =>
        /\ pc[t] = "sTake" => \A s \in Sids : mode[t][s] = "none"
        /\ pc[t] \in UncountedPCs => mode[t][cur[t]] = "none"
        /\ pc[t] \in {"trReg", "rrLock", "rrDec"} => mode[t][cur[t]] = "read"
        /\ pc[t] \in {"wDec", "wUnregW", "wRegD", "twReg", "wrLock", "wrDec"}
               => mode[t][cur[t]] = "write"

\* What a running thread's slot should say: what it holds, except that a read
\* is registered before it is counted and until after it is uncounted, and a
\* write shortly after it is counted.
RdBooked(t, s) ==
    \/ mode[t][s] = "read" /\ ~(cur[t] = s /\ pc[t] = "trReg")
    \/ cur[t] = s /\ pc[t] \in {"rLock", "rTest", "rWait", "rrTest", "rrNeg",
                                "rrUnlk", "rrUnreg"}
WtBooked(t, s) ==
    \/ mode[t][s] = "write"
       /\ ~(cur[t] = s /\ pc[t] \in {"wDec", "wUnregW", "wRegD", "twReg"})
    \/ cur[t] = s /\ pc[t] \in {"wrTest", "wrUnreg"}
WaitBooked(t, s) ==
    cur[t] = s /\ pc[t] \in {"wTest", "wWait", "wDec", "wUnregW"}

BooksOfLiving ==
    \A t \in Threads, s \in Sids : alive[t] =>
        /\ rcount[t][s] = IF RdBooked(t, s) THEN 1 ELSE 0
        /\ wcount[t][s] = IF WtBooked(t, s) THEN 1 ELSE 0
        /\ wwait[t][s] = IF WaitBooked(t, s) THEN 1 ELSE 0

BooksOfDead ==
    \A t \in Threads, s \in Sids : ~alive[t] =>
        /\ rcount[t][s] \in {0, 1}
        /\ wcount[t][s] \in {0, 1}
        /\ wwait[t][s] \in {0, 1}
        /\ ~slot[t] => rcount[t][s] = 0 /\ wcount[t][s] = 0 /\ wwait[t][s] = 0

\* Exclusion, the dead not yet rolled back included.
StrongExclusion ==
    \A s \in Sids, t, u \in Threads :
        t # u /\ Writes(t, s) => ~Reads(u, s) /\ ~Writes(u, s)

Sleepers ==
    \A s \in Sids : \A t \in waiters[s] :
        alive[t] /\ cur[t] = s /\ pc[t] \in {"rWait", "wWait"}

ControlInv == Ownership /\ Unforced /\ Lifecycle /\ ModeOfPC /\ Sleepers
BooksInv == BooksOfLiving /\ BooksOfDead
IInv == Shape /\ ControlInv /\ BooksInv /\ CountersExact /\ StrongExclusion
==============================================================================
