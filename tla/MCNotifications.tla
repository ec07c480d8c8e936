--------------------------- MODULE MCNotifications ---------------------------
\* The notifications of a cluster for TLC.
EXTENDS Notifications, TLC

CONSTANTS a, b, s, c1

\* Bound: one token crosses, any of them; clients may name the others.
MCOneCrosses == Cardinality({t \in Token : stage'[t] # "none"}) <= 1

MCNext == NotifyNext /\ MCOneCrosses
MCSpec == NotifyInit /\ [][MCNext]_notifyVars /\ NotifyFairness
==============================================================================
