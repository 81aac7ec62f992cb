------------------------------- MODULE RWLock -------------------------------
(***************************************************************************)
(* What a DoubleLock promises its callers (mdb/semaphore/DoubleLock.h and  *)
(* the pseudo code at the end of MutexDoubleLock.h): shared locks go       *)
(* together, an exclusive lock goes with nothing, and a writer that waits  *)
(* keeps new readers out.                                                  *)
(***************************************************************************)
CONSTANTS Threads, Sids

VARIABLES
    held,      \* what each thread holds of each lock
    pending    \* the threads that wait for a lock exclusively

lockVars == <<held, pending>>

Init ==
    /\ held = [t \in Threads |-> [s \in Sids |-> "none"]]
    /\ pending = [s \in Sids |-> {}]

Others(t) == Threads \ {t}

Announce(t, s) ==
    /\ held[t][s] = "none" /\ t \notin pending[s]
    /\ pending' = [pending EXCEPT ![s] = @ \cup {t}]
    /\ UNCHANGED held

\* A shared lock is granted when nobody holds or waits for an exclusive one.
Share(t, s) ==
    /\ held[t][s] = "none" /\ pending[s] = {}
    /\ \A u \in Others(t) : held[u][s] # "write"
    /\ held' = [held EXCEPT ![t][s] = "read"]
    /\ UNCHANGED pending

\* An exclusive lock is granted when nobody holds any.
Exclude(t, s) ==
    /\ held[t][s] = "none"
    /\ \A u \in Others(t) : held[u][s] = "none"
    /\ held' = [held EXCEPT ![t][s] = "write"]
    /\ pending' = [pending EXCEPT ![s] = @ \ {t}]

\* A lock is given up, by its holder or for a holder that is no more.
Give(t, s) ==
    /\ held[t][s] # "none"
    /\ held' = [held EXCEPT ![t][s] = "none"]
    /\ UNCHANGED pending

\* A waiting writer that is no more waits no longer.
Withdraw(t, s) ==
    /\ t \in pending[s]
    /\ pending' = [pending EXCEPT ![s] = @ \ {t}]
    /\ UNCHANGED held

Next ==
    \E t \in Threads, s \in Sids :
        \/ Announce(t, s)
        \/ Share(t, s)
        \/ Exclude(t, s)
        \/ Give(t, s)
        \/ Withdraw(t, s)

Spec == Init /\ [][Next]_lockVars
=============================================================================
