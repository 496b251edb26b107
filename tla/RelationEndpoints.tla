-------------------------- MODULE RelationEndpoints --------------------------
(***************************************************************************)
(* How the add-relation and remove-relation commands find the endpoints of *)
(* a relation from two descriptors, "<service>[:<relation>]"               *)
(* (ServiceStateManager.get_relation_endpoints and join_descriptors).      *)
(***************************************************************************)
EXTENDS AtomicTopology, FiniteSets

CONSTANTS
    Implicit,      \* the relation name and interface "juju-info", that no charm
                   \* may provide itself
    NameRank       \* the alphabetical order of relation names

ASSUME RankAssumption == NameRank \in [RelationName -> Nat] /\ None \notin RelationName

\* Every service provides the implicit relation, whatever its charm says.
implicit_endpoint(name) ==
    [service_name |-> name, relation_type |-> Implicit, relation_name |-> Implicit,
     relation_role |-> "server", relation_scope |-> "global"]

\* charm.metadata refuses a charm that provides a relation or an interface in
\* the namespace of the implicit ones; it may require them.
ImplicitReserved == \A e \in Endpoint :
    e.relation_role = "server" /\ Implicit \in {e.relation_type, e.relation_name} =>
        e = implicit_endpoint(e.service_name)

\* Mutant of get_relation_endpoints: the relation that is named is not heeded.
get_every_relation_endpoint(d) ==
    {e \in Endpoint : e.service_name = d.service_name} \cup {implicit_endpoint(d.service_name)}

\* The endpoints of the charm that match, and the implicit one even if another
\* relation is named.
get_relation_endpoints(d) ==
    {e \in Endpoint : /\ e.service_name = d.service_name
                      /\ d.relation_name \in {None, e.relation_name}}
        \cup {implicit_endpoint(d.service_name)}

join_descriptors(d1, d2) ==
    {p \in get_relation_endpoints(d1) \X get_relation_endpoints(d2) : may_relate_to(p[1], p[2])}

\* The order of the pairs: that of the first endpoints, then of the second;
\* of a service's endpoints the implicit one is last.
low_priority_implicit_cmp(e1, e2) ==
    /\ e1.relation_name # Implicit
    /\ \/ e2.relation_name = Implicit
       \/ NameRank[e1.relation_name] < NameRank[e2.relation_name]

before(p, q) ==
    \/ low_priority_implicit_cmp(p[1], q[1])
    \/ p[1] = q[1] /\ low_priority_implicit_cmp(p[2], q[2])

\* A peer endpoint that is paired with itself is one endpoint.
as_arguments(p) == IF p[1] = p[2] THEN <<p[1]>> ELSE p

\* What add-relation adds: the first pair, unless one of the others is explicit.
add_relation_arguments(d1, d2) ==
    {as_arguments(p) : p \in {first \in join_descriptors(d1, d2) :
        \A q \in join_descriptors(d1, d2) \ {first} :
            /\ before(first, q)
            /\ q[1].relation_name = Implicit \/ q[2].relation_name = Implicit}}

\* get_service_state: both services must exist.
known(t, d) == find_service_with_name(t, d.service_name) # None

\* What remove-relation removes: one of the relations between the one pair of
\* endpoints that matches.  Two pairs are ambiguous, implicit or not.
get_relation_state(t, d1, d2) ==
    LET pairs == join_descriptors(d1, d2)
    IN  IF ~known(t, d1) \/ ~known(t, d2) \/ Cardinality(pairs) # 1 THEN {}
        ELSE UNION {get_relation_between_endpoints(t, as_arguments(p)) : p \in pairs}

-----------------------------------------------------------------------------
named(e) == [service_name |-> e.service_name, relation_name |-> e.relation_name]

\* Any endpoints that may relate can be related and unrelated: descriptors that
\* name both ends lead add-relation to these endpoints and no others, and
\* remove-relation to the relations between them, although each descriptor
\* also matches the implicit relation of its service (service.py:195).
RelationsCanBeNamed == \A eps \in EndpointLists :
    LET d1 == named(eps[1])
        d2 == named(eps[Len(eps)])
    IN  /\ add_relation_arguments(d1, d2) = {eps}
        /\ known(topology, d1) /\ known(topology, d2) =>
              get_relation_state(topology, d1, d2) = get_relation_between_endpoints(topology, eps)
=============================================================================
