----------------------------- MODULE MCRootRelay ------------------------------
\* One direction of the relay for TLC: two locks, in one block or in two.
EXTENDS RootRelay, TLC

CONSTANTS l1, l2, p1, p2, s1, m1, api, standalone

OneBlock == [l \in Lock |-> 1]
TwoBlocks == [l \in Lock |-> IF l = l1 THEN 1 ELSE 2]

\* Both queues and the monitor loop in one process, or a second prover and
\* the monitor in another.
OneProcess == [w \in {p1, p2, s1, m1} \cap (Prover \cup Sender \cup Monitor) |-> api]
TwoProcesses == [w \in {p1, p2, s1, m1} \cap (Prover \cup Sender \cup Monitor) |->
                    IF w \in {p2, m1} THEN standalone ELSE api]

LockSymmetry == Permutations({l1, l2})
==============================================================================
