---------------------------- MODULE MCHookScheduler ----------------------------
EXTENDS HookScheduler

\* Two units of one service.
PeerRelation ==
    [scope |-> "global", role |-> "peer", self |-> 0, own |-> {0, 1},
     container |-> [u \in Unit |-> None], resident |-> {0}]

\* A subordinate unit in principal 3, which is related to 1 in the same principal
\* and not to 2 in another one.
ContainerRelation ==
    [scope |-> "container", role |-> "client", self |-> 0, own |-> {0},
     container |-> [u \in Unit |-> IF u = 0 THEN 1 ELSE None], resident |-> {0, 2}]

Two == {PeerRelation, ContainerRelation}
===============================================================================
