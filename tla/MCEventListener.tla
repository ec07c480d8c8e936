--------------------------- MODULE MCEventListener ---------------------------
\* The listener of one chain for TLC.
EXTENDS EventListener, TLC

CONSTANTS l1, l2, r1, a, b

LockSymmetry == Permutations(Lock) \cup Permutations(Process)
==============================================================================
