-------------------------- MODULE MCObservedHistory --------------------------
EXTENDS ObservedHistory

TwoContainers == {"c1", "c2"}
TwoRanks == [c \in TwoContainers |-> IF c = "c1" THEN 1 ELSE 2]
TwoStatuses == {"running", "stopped"}
=============================================================================
