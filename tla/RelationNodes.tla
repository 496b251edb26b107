----------------------------- MODULE RelationNodes -----------------------------
(***************************************************************************)
(* Where a relation keeps its nodes in ZooKeeper, and which units a unit   *)
(* of it sees (juju/state/relation.py).  Each unit has a presence node     *)
(* below the node of its role, and a settings node; in a relation of       *)
(* container scope there is one such tree for each principal unit.         *)
(***************************************************************************)
EXTENDS Naturals

CONSTANT None

\* A relation as the unit self sees it: its scope, the role of self's service,
\* its units, those of self's own service, the principal unit that contains a
\* subordinate one, and the units whose agents are there from the start.
Layout(units) ==
    [scope : {"global", "container"}, role : {"client", "server", "peer"}, self : units,
     own : SUBSET units, container : [units -> units \cup {None}], resident : SUBSET units]

\* _get_scope_path: the tree that unit u joins, one for each principal unit.
scope_of(relation, u) ==
    IF relation.scope = "global" THEN "relation"
    ELSE IF relation.container[u] = None THEN u ELSE relation.container[u]

opposite == [client |-> "server", server |-> "client", peer |-> "peer"]

\* add_unit_state: the node that unit u's presence node is put under.
joined_container(relation, u) ==
    [tree |-> scope_of(relation, u),
     role |-> IF u \in relation.own THEN relation.role ELSE opposite[relation.role]]

\* The container whose children the unit watches.
get_related_unit_container(relation) ==
    [tree |-> IF relation.scope = "global" THEN "relation"
              ELSE IF relation.container[relation.self] = None THEN relation.self
              ELSE relation.container[relation.self],
     role |-> opposite[relation.role]]

\* Units of a peer relation ignore themselves.
filter_units(relation, children) ==
    IF relation.role = "peer" THEN children \ {relation.self} ELSE children

\* The children of the watched container, of the presence nodes there are.
related_children(relation, present) == filter_units(relation,
    {u \in present : joined_container(relation, u) = get_related_unit_container(relation)})

\* A role's container is there from the start only in a global relation; in
\* the others the first unit to join makes it.
exists_from_start(relation) == relation.scope = "global"

\* The units that the relation is about, for self: those of the other service,
\* or the other units of its own, and in a container only those within it.
Counterparts(relation, units) ==
    {u \in units \ {relation.self} :
        /\ (u \in relation.own) <=> (relation.role = "peer")
        /\ relation.scope = "global" \/
           \E principal \in units \cup {None} :
              \A w \in {u, relation.self} :
                 w = principal \/ relation.container[w] = principal}
===============================================================================
