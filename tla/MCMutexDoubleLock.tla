-------------------------- MODULE MCMutexDoubleLock --------------------------
(* MutexDoubleLock for TLC: sets of control points.                        *)
EXTENDS MutexDoubleLock

KillClean == CleanPCs
KillAnywhere == PCs
KillReaderAsleep == {"rWait"}
KillUnderMutex == {"wTest"}
KillBeforeSlot == {"sTake"}
KillBeforeRegistration == {"wReg"}
==============================================================================
