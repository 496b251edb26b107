------------------------ MODULE AtomicTopologyProofs ------------------------
(***************************************************************************)
(* The invariants of the /topology node, for every value of the constants. *)
(***************************************************************************)
EXTENDS RelationEndpoints, StatusReport, FiniteSetTheorems, TLAPS

-----------------------------------------------------------------------------
(* What each mutator of InternalTopology does to each part of a topology *)

\* add_machine adds one machine that was not there and nothing else.
LEMMA AddMachineEffect ==
    ASSUME NEW t \in TopologyType, NEW m \in MachineId, NEW t2 \in add_machine(t, m)
    PROVE  /\ t2 \in TopologyType
           /\ t2.machines = t.machines \cup {m}
           /\ t2.services = t.services /\ t2.units = t.units
           /\ t2.unit_sequence = t.unit_sequence /\ t2.relations = t.relations
BY DEF add_machine, Unless_raised, TopologyType

\* remove_machine removes one machine, which has no units.
LEMMA RemoveMachineEffect ==
    ASSUME NEW t \in TopologyType, NEW m \in MachineId, NEW t2 \in remove_machine(t, m)
    PROVE  /\ t2 \in TopologyType
           /\ ~machine_has_units(t, m)
           /\ t2.machines = t.machines \ {m}
           /\ t2.services = t.services /\ t2.units = t.units
           /\ t2.unit_sequence = t.unit_sequence /\ t2.relations = t.relations
BY DEF remove_machine, Unless_raised, TopologyType

\* add_service adds one service under a name no service has.
LEMMA AddServiceEffect ==
    ASSUME NEW t \in TopologyType, NEW s \in ServiceId, NEW n \in ServiceName,
           NEW t2 \in add_service(t, s, n)
    PROVE  /\ t2 \in TopologyType
           /\ ~has_service(t, s) /\ \A s2 \in ServiceId : t.services[s2] # n
           /\ t2.machines = t.machines
           /\ t2.services = [t.services EXCEPT ![s] = n]
           /\ t2.units = t.units
           /\ t2.unit_sequence = t.unit_sequence /\ t2.relations = t.relations
BY DEF add_service, Unless_raised, TopologyType

\* remove_service removes one service that is in no relation, and its units.
LEMMA RemoveServiceEffect ==
    ASSUME NEW t \in TopologyType, NEW s \in ServiceId, NEW t2 \in remove_service(t, s)
    PROVE  /\ t2 \in TopologyType
           /\ has_service(t, s) /\ get_relations_for_service(t, s) = {}
           /\ t2.machines = t.machines
           /\ t2.services = [t.services EXCEPT ![s] = None]
           /\ t2.units = [u \in UnitId |-> IF has_service_unit(t, s, u) THEN None
                                                                       ELSE t.units[u]]
           /\ t2.unit_sequence = t.unit_sequence
           /\ t2.relations = t.relations
<1> DEFINE U == [u \in UnitId |-> IF has_service_unit(t, s, u) THEN None ELSE t.units[u]]
           S == [t.services EXCEPT ![s] = None]
<1>1. t2 = [[t EXCEPT !.services = S] EXCEPT !.units = U]
  BY DEF remove_service, Unless_raised
<1>2. U \in [UnitId -> Unit \cup {None}] /\ S \in [ServiceId -> ServiceName \cup {None}]
  BY DEF TopologyType
<1>3. has_service(t, s) /\ get_relations_for_service(t, s) = {}
  BY DEF remove_service, Unless_raised
<1> HIDE DEF U, S
<1>4. [t EXCEPT !.services = S] \in TopologyType
  BY <1>2 DEF TopologyType
<1>5. t2 \in TopologyType
  BY <1>1, <1>2, <1>4 DEF TopologyType
<1>6. /\ t2.machines = t.machines /\ t2.services = S /\ t2.units = U
      /\ t2.unit_sequence = t.unit_sequence /\ t2.relations = t.relations
  BY <1>1, <1>2 DEF TopologyType
<1> QED BY <1>3, <1>5, <1>6 DEF U, S

\* add_service_unit adds one unit under the next sequence number of its
\* service's name and moves that number on.
LEMMA AddUnitEffect ==
    ASSUME NEW t \in TopologyType, NEW s \in ServiceId, NEW u \in UnitId,
           NEW c \in UnitId \cup {None}, NEW t2 \in add_service_unit(t, s, u, c)
    PROVE  /\ t2 \in TopologyType
           /\ has_service(t, s) /\ t.units[u] = None
           /\ t2.machines = t.machines
           /\ t2.services = t.services
           /\ t2.units = [t.units EXCEPT ![u] =
                [service |-> s, sequence |-> t.unit_sequence[t.services[s]],
                 container |-> c, machine |-> None]]
           /\ t2.unit_sequence = [t.unit_sequence EXCEPT ![t.services[s]] = @ + 1]
           /\ t2.relations = t.relations
<1> DEFINE U == [t.units EXCEPT ![u] =
                [service |-> s, sequence |-> t.unit_sequence[t.services[s]],
                 container |-> c, machine |-> None]]
           Q == [t.unit_sequence EXCEPT ![t.services[s]] = @ + 1]
<1>0. has_service(t, s) /\ t.units[u] = None
  BY DEF add_service_unit, Unless_raised
<1>1. t2 = [[t EXCEPT !.units = U] EXCEPT !.unit_sequence = Q]
  BY DEF add_service_unit, Unless_raised, TopologyType
<1>2. U \in [UnitId -> Unit \cup {None}] /\ Q \in [ServiceName -> Nat]
  BY <1>0 DEF TopologyType, Unit, has_service
<1> HIDE DEF U, Q
<1>4. [t EXCEPT !.units = U] \in TopologyType
  BY <1>2 DEF TopologyType
<1>5. t2 \in TopologyType
  BY <1>1, <1>2, <1>4 DEF TopologyType
<1>6. /\ t2.machines = t.machines /\ t2.services = t.services /\ t2.units = U
      /\ t2.unit_sequence = Q /\ t2.relations = t.relations
  BY <1>1, <1>2 DEF TopologyType
<1> QED BY <1>0, <1>5, <1>6 DEF U, Q

\* remove_service_unit removes one unit.
LEMMA RemoveUnitEffect ==
    ASSUME NEW t \in TopologyType, NEW s \in ServiceId, NEW u \in UnitId,
           NEW t2 \in remove_service_unit(t, s, u)
    PROVE  /\ t2 \in TopologyType
           /\ t2.machines = t.machines /\ t2.services = t.services
           /\ t2.units = [t.units EXCEPT ![u] = None]
           /\ t2.unit_sequence = t.unit_sequence /\ t2.relations = t.relations
BY DEF remove_service_unit, Unless_raised, TopologyType

\* Assigning sets the machine of one unassigned unit to a machine that exists.
LEMMA AssignEffect ==
    ASSUME NEW t \in TopologyType, NEW s \in ServiceId, NEW u \in UnitId,
           NEW m \in MachineId, NEW t2 \in assign_service_unit_to_machine(t, s, u, m)
    PROVE  /\ t2 \in TopologyType
           /\ has_service_unit(t, s, u) /\ m \in t.machines
           /\ t2.machines = t.machines /\ t2.services = t.services
           /\ t2.units = [t.units EXCEPT ![u] = [t.units[u] EXCEPT !.machine = m]]
           /\ t2.unit_sequence = t.unit_sequence /\ t2.relations = t.relations
<1>1. has_service_unit(t, s, u) /\ m \in t.machines
  BY DEF assign_service_unit_to_machine, Unless_raised, has_machine
<1>2. t2 \in TopologyType
  BY <1>1 DEF assign_service_unit_to_machine, Unless_raised, TopologyType, Unit, has_service_unit
<1>3. /\ t2.machines = t.machines /\ t2.services = t.services
      /\ t2.units = [t.units EXCEPT ![u] = [t.units[u] EXCEPT !.machine = m]]
      /\ t2.unit_sequence = t.unit_sequence /\ t2.relations = t.relations
  BY DEF assign_service_unit_to_machine, Unless_raised, TopologyType
<1> QED BY <1>1, <1>2, <1>3

\* Unassigning clears the machine of one unit.
LEMMA UnassignEffect ==
    ASSUME NEW t \in TopologyType, NEW s \in ServiceId, NEW u \in UnitId,
           NEW t2 \in unassign_service_unit_from_machine(t, s, u)
    PROVE  /\ t2 \in TopologyType
           /\ has_service_unit(t, s, u)
           /\ t2.machines = t.machines /\ t2.services = t.services
           /\ t2.units = [t.units EXCEPT ![u] = [t.units[u] EXCEPT !.machine = None]]
           /\ t2.unit_sequence = t.unit_sequence /\ t2.relations = t.relations
<1>1. has_service_unit(t, s, u)
  BY DEF unassign_service_unit_from_machine, Unless_raised
<1>2. t2 \in TopologyType
  BY <1>1 DEF unassign_service_unit_from_machine, Unless_raised, TopologyType, Unit,
              has_service_unit
<1>3. /\ t2.machines = t.machines /\ t2.services = t.services
      /\ t2.units = [t.units EXCEPT ![u] = [t.units[u] EXCEPT !.machine = None]]
      /\ t2.unit_sequence = t.unit_sequence /\ t2.relations = t.relations
  BY DEF unassign_service_unit_from_machine, Unless_raised, TopologyType
<1> QED BY <1>1, <1>2, <1>3

\* add_relation adds one relation, without services.
LEMMA AddRelationEffect ==
    ASSUME NEW t \in TopologyType, NEW r \in RelationId, NEW i \in Interface,
           NEW sc \in Scope, NEW t2 \in add_relation(t, r, i, sc)
    PROVE  /\ t2 \in TopologyType
           /\ t2.machines = t.machines /\ t2.services = t.services /\ t2.units = t.units
           /\ t2.unit_sequence = t.unit_sequence
           /\ t2.relations = [t.relations EXCEPT ![r] =
                [interface |-> i, scope |-> sc, services |-> [s \in ServiceId |-> None]]]
BY DEF add_relation, Unless_raised, TopologyType, Relation

\* remove_relation removes one relation.
LEMMA RemoveRelationEffect ==
    ASSUME NEW t \in TopologyType, NEW r \in RelationId, NEW t2 \in remove_relation(t, r)
    PROVE  /\ t2 \in TopologyType
           /\ t2.machines = t.machines /\ t2.services = t.services /\ t2.units = t.units
           /\ t2.unit_sequence = t.unit_sequence
           /\ t2.relations = [t.relations EXCEPT ![r] = None]
BY DEF remove_relation, Unless_raised, TopologyType

\* assign_service_to_relation enters one service, in a role nobody has, into
\* one relation.
LEMMA AssignRelationEffect ==
    ASSUME NEW t \in TopologyType, NEW r \in RelationId, NEW s \in ServiceId,
           NEW n \in RelationName, NEW ro \in Role,
           NEW t2 \in assign_service_to_relation(t, r, s, n, ro)
    PROVE  /\ t2 \in TopologyType
           /\ has_service(t, s) /\ has_relation(t, r)
           /\ \A s2 \in ServiceId : relation_has_service(t, r, s2) =>
                s2 # s /\ t.relations[r].services[s2].role # ro
           /\ t2.machines = t.machines /\ t2.services = t.services /\ t2.units = t.units
           /\ t2.unit_sequence = t.unit_sequence
           /\ t2.relations = [t.relations EXCEPT ![r] = [t.relations[r] EXCEPT
                !.services = [t.relations[r].services EXCEPT ![s] =
                    [name |-> n, role |-> ro]]]]
<1>1. /\ has_service(t, s) /\ has_relation(t, r)
      /\ \A s2 \in ServiceId : relation_has_service(t, r, s2) =>
                s2 # s /\ t.relations[r].services[s2].role # ro
  BY DEF assign_service_to_relation, Unless_raised
<1>2. t2 \in TopologyType
  BY <1>1 DEF assign_service_to_relation, Unless_raised, TopologyType, Relation, has_relation
<1>3. /\ t2.machines = t.machines /\ t2.services = t.services /\ t2.units = t.units
      /\ t2.unit_sequence = t.unit_sequence
      /\ t2.relations = [t.relations EXCEPT ![r] = [t.relations[r] EXCEPT
                !.services = [t.relations[r].services EXCEPT ![s] =
                    [name |-> n, role |-> ro]]]]
  BY DEF assign_service_to_relation, Unless_raised, TopologyType
<1> QED BY <1>1, <1>2, <1>3

\* An endpoint list has one or two endpoints of charms in use.
LEMMA EndpointListsType ==
    ASSUME NEW eps \in EndpointLists
    PROVE  /\ eps[1] \in RelationEndpoint /\ 1 \in DOMAIN eps
           /\ Len(eps) # 1 => eps[2] \in RelationEndpoint /\ 2 \in DOMAIN eps
           /\ relation_scope(eps) \in Scope
           /\ (Len(eps) = 1 /\ DOMAIN eps = {1}) \/ (Len(eps) = 2 /\ DOMAIN eps = {1, 2})
<1>1. CASE \E e \in Endpoint : eps = <<e>>
  <2>1. PICK e \in Endpoint : eps = <<e>>
    BY <1>1
  <2>2. Len(eps) = 1 /\ eps[1] = e /\ DOMAIN eps = 1..1
    BY <2>1
  <2>3. DOMAIN eps = {1}
    BY <2>2
  <2> QED BY <2>2, <2>3, EndpointAssumption DEF relation_scope, Scope
<1>2. CASE \E e1, e2 \in Endpoint : eps = <<e1, e2>>
  <2>1. PICK e1, e2 \in Endpoint : eps = <<e1, e2>>
    BY <1>2
  <2>2. Len(eps) = 2 /\ eps[1] = e1 /\ eps[2] = e2 /\ DOMAIN eps = 1..2
    BY <2>1
  <2>3. DOMAIN eps = {1, 2}
    BY <2>2
  <2> QED BY <2>2, <2>3, EndpointAssumption DEF relation_scope, Scope
<1> QED BY <1>1, <1>2 DEF EndpointLists

\* t2 is t with service s entered into relation r for endpoint e.
Entered(t, t2, r, s, e) ==
    /\ t2 \in TopologyType
    /\ s \in ServiceId /\ has_service(t, s) /\ ~relation_has_service(t, r, s)
    /\ t2.machines = t.machines /\ t2.services = t.services
    /\ t2.units = t.units /\ t2.unit_sequence = t.unit_sequence
    /\ \A r2 \in RelationId \ {r} : t2.relations[r2] = t.relations[r2]
    /\ t.relations[r] # None /\ t2.relations[r] # None /\ t2.relations[r] \in Relation
    /\ t2.relations[r].interface = t.relations[r].interface
    /\ t2.relations[r].scope = t.relations[r].scope
    /\ t2.relations[r].services[s] = [name |-> e.relation_name, role |-> e.relation_role]
    /\ t2.relations[r].services[s] # None
    /\ \A s2 \in ServiceId \ {s} :
        t2.relations[r].services[s2] = t.relations[r].services[s2]

\* assign_endpoint enters one service into one relation.
LEMMA AssignEndpointEffect ==
    ASSUME NEW t \in TopologyType, NEW r \in RelationId, NEW eps, NEW i,
           eps[i] \in RelationEndpoint, NEW servs, servs[i] \in ServiceId \cup {None},
           NEW t2 \in assign_endpoint(t, r, eps, servs, i)
    PROVE  Entered(t, t2, r, servs[i], eps[i])
<1> DEFINE entry == [name |-> eps[i].relation_name, role |-> eps[i].relation_role]
<1>1. eps[i].relation_name \in RelationName /\ eps[i].relation_role \in Role
  BY DEF RelationEndpoint
<1>2. servs[i] \in ServiceId /\ t2 \in assign_service_to_relation(t, r, servs[i],
            eps[i].relation_name, eps[i].relation_role)
  BY DEF assign_endpoint
<1>3. /\ t2 \in TopologyType
      /\ has_service(t, servs[i]) /\ has_relation(t, r)
      /\ ~relation_has_service(t, r, servs[i])
      /\ t2.machines = t.machines /\ t2.services = t.services
      /\ t2.units = t.units /\ t2.unit_sequence = t.unit_sequence
      /\ t2.relations = [t.relations EXCEPT ![r] = [t.relations[r] EXCEPT
            !.services = [t.relations[r].services EXCEPT ![servs[i]] = entry]]]
  BY <1>1, <1>2, AssignRelationEffect
<1>4. t.relations[r] # None /\ t.relations[r] \in Relation
  BY <1>3 DEF has_relation, TopologyType
<1>5. entry # None
  BY <1>1, EntryAssumption
<1> HIDE DEF entry
<1>6. /\ t2.relations[r] = [t.relations[r] EXCEPT
            !.services = [t.relations[r].services EXCEPT ![servs[i]] = entry]]
      /\ \A r2 \in RelationId \ {r} : t2.relations[r2] = t.relations[r2]
  BY <1>3 DEF TopologyType
<1>7. /\ t2.relations[r].interface = t.relations[r].interface
      /\ t2.relations[r].scope = t.relations[r].scope
      /\ t2.relations[r].services[servs[i]] = entry
      /\ \A s \in ServiceId \ {servs[i]} :
            t2.relations[r].services[s] = t.relations[r].services[s]
  BY <1>2, <1>4, <1>6 DEF Relation
<1>8. t2.relations[r] \in Relation
  BY <1>1, <1>2, <1>4, <1>6 DEF Relation, entry
<1>9. t2.relations[r] # None
  BY <1>8, EntryAssumption
<1> QED BY <1>2, <1>3, <1>4, <1>5, <1>6, <1>7, <1>8, <1>9 DEF entry, Entered

\* The change function of add_relation_state adds one relation, of the
\* services that were looked up, each under the name and the role of its
\* endpoint; it refuses the endpoints of a relation there is.
LEMMA AddRelationChangeEffect ==
    ASSUME NEW t \in TopologyType, NEW r \in RelationId, NEW eps \in EndpointLists,
           NEW servs \in [DOMAIN eps -> ServiceId \cup {None}],
           NEW t2 \in add_relation_change(t, r, eps, servs)
    PROVE  /\ t2 \in TopologyType
           /\ ~has_relation_between_endpoints(t, eps)
           /\ \A i \in DOMAIN eps : servs[i] \in ServiceId /\ has_service(t, servs[i])
           /\ \A i, j \in DOMAIN eps : servs[i] = servs[j] => i = j
           /\ t2.machines = t.machines /\ t2.services = t.services /\ t2.units = t.units
           /\ t2.unit_sequence = t.unit_sequence
           /\ \A r2 \in RelationId \ {r} : t2.relations[r2] = t.relations[r2]
           /\ t2.relations[r] \in Relation /\ t2.relations[r] # None
           /\ t2.relations[r].interface = eps[1].relation_type
           /\ t2.relations[r].scope = relation_scope(eps)
           /\ \A i \in DOMAIN eps : t2.relations[r].services[servs[i]] =
                [name |-> eps[i].relation_name, role |-> eps[i].relation_role]
           /\ \A s \in ServiceId : t2.relations[r].services[s] # None =>
                \E i \in DOMAIN eps : s = servs[i]
<1>0. /\ eps[1] \in RelationEndpoint /\ 1 \in DOMAIN eps
      /\ Len(eps) # 1 => eps[2] \in RelationEndpoint /\ 2 \in DOMAIN eps
      /\ relation_scope(eps) \in Scope
      /\ (Len(eps) = 1 /\ DOMAIN eps = {1}) \/ (Len(eps) = 2 /\ DOMAIN eps = {1, 2})
  BY EndpointListsType
<1>1. PICK t0 \in add_relation(t, r, eps[1].relation_type, relation_scope(eps)) :
        \/ Len(eps) = 1 /\ t2 \in assign_endpoint(t0, r, eps, servs, 1)
        \/ /\ Len(eps) # 1
           /\ \E t1 \in assign_endpoint(t0, r, eps, servs, 1) :
                t2 \in assign_endpoint(t1, r, eps, servs, 2)
  BY DEF add_relation_change
<1>2. /\ t0 \in TopologyType
      /\ t0.machines = t.machines /\ t0.services = t.services /\ t0.units = t.units
      /\ t0.unit_sequence = t.unit_sequence
      /\ t0.relations = [t.relations EXCEPT ![r] =
            [interface |-> eps[1].relation_type, scope |-> relation_scope(eps),
             services |-> [s \in ServiceId |-> None]]]
  BY <1>0, AddRelationEffect DEF RelationEndpoint
<1>3. /\ \A r2 \in RelationId \ {r} : t0.relations[r2] = t.relations[r2]
      /\ t0.relations[r].interface = eps[1].relation_type
      /\ t0.relations[r].scope = relation_scope(eps)
      /\ \A s \in ServiceId : t0.relations[r].services[s] = None
  BY <1>2 DEF TopologyType
<1>4. ~has_relation_between_endpoints(t, eps)
  BY DEF add_relation_change
<1>5. CASE Len(eps) = 1 /\ t2 \in assign_endpoint(t0, r, eps, servs, 1)
  <2>1. DOMAIN eps = {1} /\ servs[1] \in ServiceId \cup {None}
    BY <1>0, <1>5
  <2>2. Entered(t0, t2, r, servs[1], eps[1])
    BY <1>0, <1>2, <1>5, <2>1, AssignEndpointEffect
  <2>3. has_service(t, servs[1])
    BY <1>2, <2>2 DEF has_service, Entered
  <2>4. \A s \in ServiceId : t2.relations[r].services[s] # None => s = servs[1]
    BY <1>3, <2>2 DEF Entered
  <2> QED BY <1>2, <1>3, <1>4, <2>1, <2>2, <2>3, <2>4 DEF Entered
<1>6. CASE /\ Len(eps) # 1
           /\ \E t1 \in assign_endpoint(t0, r, eps, servs, 1) :
                t2 \in assign_endpoint(t1, r, eps, servs, 2)
  <2>1. /\ DOMAIN eps = {1, 2}
        /\ servs[1] \in ServiceId \cup {None} /\ servs[2] \in ServiceId \cup {None}
    BY <1>0, <1>6
  <2>2. PICK t1 \in assign_endpoint(t0, r, eps, servs, 1) :
            t2 \in assign_endpoint(t1, r, eps, servs, 2)
    BY <1>6
  <2>3. Entered(t0, t1, r, servs[1], eps[1])
    BY <1>0, <1>2, <2>1, <2>2, AssignEndpointEffect
  <2>4. t1 \in TopologyType
    BY <2>3 DEF Entered
  <2>5. Entered(t1, t2, r, servs[2], eps[2])
    BY <1>0, <1>6, <2>1, <2>2, <2>4, AssignEndpointEffect
  <2>6. has_service(t, servs[1]) /\ has_service(t, servs[2])
    BY <1>2, <2>3, <2>5 DEF has_service, Entered
  <2>7. servs[1] # servs[2]
    BY <2>3, <2>5 DEF relation_has_service, Entered
  <2>8. /\ t2.relations[r].services[servs[1]] =
                [name |-> eps[1].relation_name, role |-> eps[1].relation_role]
        /\ \A s \in ServiceId : t2.relations[r].services[s] # None =>
                s = servs[1] \/ s = servs[2]
    BY <1>3, <2>3, <2>5, <2>7 DEF Entered
  <2>9. /\ t2.machines = t.machines /\ t2.services = t.services /\ t2.units = t.units
        /\ t2.unit_sequence = t.unit_sequence
        /\ \A r2 \in RelationId \ {r} : t2.relations[r2] = t.relations[r2]
        /\ t2.relations[r].interface = eps[1].relation_type
        /\ t2.relations[r].scope = relation_scope(eps)
    BY <1>2, <1>3, <2>3, <2>5 DEF Entered
  <2>10. \A i \in DOMAIN eps : t2.relations[r].services[servs[i]] =
                [name |-> eps[i].relation_name, role |-> eps[i].relation_role]
    BY <2>1, <2>5, <2>8 DEF Entered
  <2>11. \A i \in DOMAIN eps : servs[i] \in ServiceId /\ has_service(t, servs[i])
    BY <2>1, <2>3, <2>5, <2>6 DEF Entered
  <2>12. /\ \A i, j \in DOMAIN eps : servs[i] = servs[j] => i = j
         /\ \A s \in ServiceId : t2.relations[r].services[s] # None =>
                \E i \in DOMAIN eps : s = servs[i]
    BY <2>1, <2>7, <2>8
  <2> QED BY <1>4, <2>5, <2>9, <2>10, <2>11, <2>12 DEF Entered
<1> QED BY <1>1, <1>5, <1>6
-----------------------------------------------------------------------------
(* The inductive invariant *)

\* The inductive invariant.  UnitNamesNeverReused needs SequencesAhead, and
\* that needs the name of every unit to be in issued.
Inv ==
    /\ TypeOK
    /\ AssignedMachinesExist
    /\ ReferencedServicesExist
    /\ ServiceNamesUnique
    /\ SequencesAhead
    /\ UnitNamesNeverReused
    /\ UnitNamesKept
    /\ SubordinatesUnassigned

\* The initialized environment satisfies the invariant.
LEMMA InitInv == Init => Inv
<1> SUFFICES ASSUME Init PROVE Inv OBVIOUS
<1> USE DEF Init, InitialTopology
<1>1. TypeOK
  BY IdAssumption DEF TypeOK, TopologyType, RootMachine
<1>2. AssignedMachinesExist /\ ReferencedServicesExist /\ ServiceNamesUnique
  BY DEF AssignedMachinesExist, ReferencedServicesExist, ServiceNamesUnique, has_service,
         relation_has_service
<1>3. SequencesAhead /\ UnitNamesNeverReused /\ UnitNamesKept /\ SubordinatesUnassigned
  BY DEF SequencesAhead, UnitNamesNeverReused, UnitNamesKept, SubordinatesUnassigned
<1> QED BY <1>1, <1>2, <1>3 DEF Inv

\* A change that leaves services, units and sequences alone keeps every part
\* that does not speak of machines or relations.
LEMMA UnitsUntouched ==
    ASSUME Inv, NEW t \in TopologyType, topology' = t,
           issued' = issued \cup NewUnits(topology, t),
           t.services = topology.services, t.units = topology.units,
           t.unit_sequence = topology.unit_sequence
    PROVE  /\ issued' = issued /\ TypeOK' /\ ServiceNamesUnique' /\ SequencesAhead'
           /\ UnitNamesNeverReused' /\ UnitNamesKept' /\ SubordinatesUnassigned'
<1>1. issued' = issued
  BY DEF NewUnits
<1>2. TypeOK'
  BY <1>1 DEF Inv, TypeOK
<1>3. ServiceNamesUnique' /\ SequencesAhead' /\ UnitNamesNeverReused'
  BY <1>1 DEF Inv, ServiceNamesUnique, SequencesAhead, UnitNamesNeverReused, has_service
<1>4. UnitNamesKept' /\ SubordinatesUnassigned'
  BY <1>1 DEF Inv, UnitNamesKept, SubordinatesUnassigned, get_service_unit_name
<1> QED BY <1>1, <1>2, <1>3, <1>4

\* add_machine_state preserves it: the machines only grow.
LEMMA AddMachineInv == Inv /\ AddMachineState => Inv'
<1> SUFFICES ASSUME Inv, NEW m \in MachineId, NEW t \in add_machine(topology, m),
                    topology' = t, issued' = issued \cup NewUnits(topology, t)
             PROVE  Inv'
  BY DEF AddMachineState, Apply
<1>1. topology \in TopologyType
  BY DEF Inv, TypeOK
<1>2. /\ t \in TopologyType /\ t.machines = topology.machines \cup {m}
      /\ t.services = topology.services /\ t.units = topology.units
      /\ t.unit_sequence = topology.unit_sequence /\ t.relations = topology.relations
  BY <1>1, AddMachineEffect
<1>3. AssignedMachinesExist' /\ ReferencedServicesExist'
  BY <1>2 DEF Inv, AssignedMachinesExist, ReferencedServicesExist, has_service,
              relation_has_service
<1> QED BY <1>2, <1>3, UnitsUntouched DEF Inv

\* remove_machine_state preserves it: a machine with units stays.
LEMMA RemoveMachineInv == Inv /\ RemoveMachineState => Inv'
<1> SUFFICES ASSUME Inv, NEW m \in MachineId \ {RootMachine},
                    NEW t \in remove_machine_change(topology, m),
                    topology' = t, issued' = issued \cup NewUnits(topology, t)
             PROVE  Inv'
  BY DEF RemoveMachineState, Apply
<1>1. topology \in TopologyType
  BY DEF Inv, TypeOK
<1>2. CASE t = topology
  <2>1. AssignedMachinesExist' /\ ReferencedServicesExist'
    BY <1>2 DEF Inv, AssignedMachinesExist, ReferencedServicesExist
  <2> QED BY <1>1, <1>2, <2>1, UnitsUntouched DEF Inv
<1>3. CASE t \in remove_machine(topology, m)
  <2>1. /\ t \in TopologyType /\ ~machine_has_units(topology, m)
        /\ t.machines = topology.machines \ {m}
        /\ t.services = topology.services /\ t.units = topology.units
        /\ t.unit_sequence = topology.unit_sequence /\ t.relations = topology.relations
    BY <1>1, <1>3, RemoveMachineEffect
  <2>2. \A u \in UnitId : topology.units[u] # None => topology.units[u].machine # m
    BY <2>1 DEF machine_has_units, get_service_units_in_machine
  <2>3. None # m
    BY NoneAssumption
  <2>4. AssignedMachinesExist'
    BY <2>1, <2>2, <2>3 DEF Inv, AssignedMachinesExist
  <2>5. ReferencedServicesExist'
    BY <2>1 DEF Inv, ReferencedServicesExist, has_service, relation_has_service
  <2> QED BY <2>1, <2>4, <2>5, UnitsUntouched DEF Inv
<1> QED BY <1>2, <1>3 DEF remove_machine_change

\* add_service_state preserves it: a name is taken once, and its sequence kept.
LEMMA AddServiceInv == Inv /\ AddServiceState => Inv'
<1> SUFFICES ASSUME Inv, NEW s \in ServiceId, NEW n \in ServiceName,
                    NEW t \in add_service(topology, s, n),
                    topology' = t, issued' = issued \cup NewUnits(topology, t)
             PROVE  Inv'
  BY DEF AddServiceState, Apply, add_service_change
<1>1. topology \in TopologyType
  BY DEF Inv, TypeOK
<1>2. /\ t \in TopologyType
      /\ ~has_service(topology, s) /\ \A s2 \in ServiceId : topology.services[s2] # n
      /\ t.machines = topology.machines
      /\ t.services = [topology.services EXCEPT ![s] = n]
      /\ t.units = topology.units
      /\ t.unit_sequence = topology.unit_sequence /\ t.relations = topology.relations
  BY <1>1, AddServiceEffect
<1>3. issued' = issued
  BY <1>2 DEF NewUnits
<1>4. topology.services \in [ServiceId -> ServiceName \cup {None}]
  BY <1>1 DEF TopologyType
<1>5. TypeOK' /\ AssignedMachinesExist' /\ SubordinatesUnassigned'
  BY <1>2, <1>3 DEF Inv, TypeOK, AssignedMachinesExist, SubordinatesUnassigned
<1>6. n # None
  BY NoneAssumption
<1>7. \A s2 \in ServiceId : has_service(topology, s2) =>
          has_service(t, s2) /\ t.services[s2] = topology.services[s2]
  BY <1>2, <1>4 DEF has_service
<1>8. ReferencedServicesExist'
  BY <1>1, <1>2, <1>7 DEF Inv, ReferencedServicesExist, relation_has_service, has_service
<1>9. ServiceNamesUnique'
  BY <1>2, <1>4, <1>6 DEF Inv, ServiceNamesUnique, has_service
<1>10. SequencesAhead' /\ UnitNamesNeverReused'
  BY <1>2, <1>3 DEF Inv, SequencesAhead, UnitNamesNeverReused
<1>11. UnitNamesKept'
  <2> SUFFICES ASSUME NEW u \in UnitId, topology.units[u] # None
               PROVE  [unit |-> u, name |-> get_service_unit_name(t, u)] \in issued
    BY <1>2, <1>3 DEF UnitNamesKept
  <2>1. has_service(topology, topology.units[u].service)
    BY DEF Inv, ReferencedServicesExist
  <2>2. get_service_unit_name(t, u) = get_service_unit_name(topology, u)
    BY <1>2, <1>7, <2>1 DEF get_service_unit_name, has_service
  <2> QED BY <2>2 DEF Inv, UnitNamesKept
<1> QED BY <1>5, <1>8, <1>9, <1>10, <1>11 DEF Inv

\* remove_service preserves it: the units go too, and relations forbid it.
LEMMA RemoveServiceInv == Inv /\ RemoveServiceState => Inv'
<1> SUFFICES ASSUME Inv, NEW s \in ServiceId, NEW t \in remove_service(topology, s),
                    topology' = t, issued' = issued \cup NewUnits(topology, t)
             PROVE  Inv'
  BY DEF RemoveServiceState, Apply
<1>1. topology \in TopologyType
  BY DEF Inv, TypeOK
<1>2. /\ t \in TopologyType
      /\ has_service(topology, s) /\ get_relations_for_service(topology, s) = {}
      /\ t.machines = topology.machines
      /\ t.services = [topology.services EXCEPT ![s] = None]
      /\ t.units = [u \in UnitId |-> IF has_service_unit(topology, s, u) THEN None
                                                                   ELSE topology.units[u]]
      /\ t.unit_sequence = topology.unit_sequence
      /\ t.relations = topology.relations
  BY <1>1, RemoveServiceEffect
<1>3. \A u \in UnitId : t.units[u] # None =>
          /\ t.units[u] = topology.units[u] /\ topology.units[u].service # s
  BY <1>2 DEF has_service_unit
<1>4. issued' = issued
  BY <1>3 DEF NewUnits
<1>5. topology.services \in [ServiceId -> ServiceName \cup {None}]
  BY <1>1 DEF TopologyType
<1>6. TypeOK' /\ AssignedMachinesExist' /\ SubordinatesUnassigned'
  BY <1>2, <1>3, <1>4 DEF Inv, TypeOK, AssignedMachinesExist, SubordinatesUnassigned
<1>7. \A s2 \in ServiceId \ {s} : t.services[s2] = topology.services[s2]
  BY <1>2, <1>5
<1>8. ReferencedServicesExist'
  <2>1. ASSUME NEW u \in UnitId, t.units[u] # None
        PROVE  has_service(t, t.units[u].service)
    BY <1>3, <1>7, <2>1 DEF Inv, ReferencedServicesExist, has_service
  <2>2. ASSUME NEW r \in RelationId, NEW s2 \in ServiceId, relation_has_service(t, r, s2)
        PROVE  has_service(t, s2)
    <3>1. relation_has_service(topology, r, s2)
      BY <1>2, <2>2 DEF relation_has_service
    <3>2. s2 # s
      BY <1>2, <3>1 DEF get_relations_for_service
    <3> QED BY <1>7, <3>1, <3>2 DEF Inv, ReferencedServicesExist, has_service
  <2> QED BY <2>1, <2>2 DEF ReferencedServicesExist
<1>9. ServiceNamesUnique'
  BY <1>2, <1>5, <1>7 DEF Inv, ServiceNamesUnique, has_service
<1>10. SequencesAhead' /\ UnitNamesNeverReused'
  BY <1>2, <1>4 DEF Inv, SequencesAhead, UnitNamesNeverReused
<1>11. UnitNamesKept'
  <2> SUFFICES ASSUME NEW u \in UnitId, t.units[u] # None
               PROVE  [unit |-> u, name |-> get_service_unit_name(t, u)] \in issued
    BY <1>4 DEF UnitNamesKept
  <2>1. has_service(topology, topology.units[u].service)
    BY <1>3 DEF Inv, ReferencedServicesExist
  <2>2. get_service_unit_name(t, u) = get_service_unit_name(topology, u)
    BY <1>3, <1>7, <2>1 DEF get_service_unit_name, has_service
  <2> QED BY <1>3, <2>2 DEF Inv, UnitNamesKept
<1> QED BY <1>6, <1>8, <1>9, <1>10, <1>11 DEF Inv

\* add_unit_state preserves it: the new name is above every name given out.
LEMMA AddUnitInv == Inv /\ AddUnitState => Inv'
<1> SUFFICES ASSUME Inv, NEW s \in ServiceId, NEW u \in UnitId, NEW c \in UnitId \cup {None},
                    \A i \in issued : i.unit # u,
                    NEW t \in add_service_unit(topology, s, u, c),
                    topology' = t, issued' = issued \cup NewUnits(topology, t)
             PROVE  Inv'
  BY DEF AddUnitState, Apply
<1> DEFINE name == topology.services[s]
           seq == topology.unit_sequence[name]
           unit == [service |-> s, sequence |-> seq, container |-> c, machine |-> None]
           entry == [unit |-> u, name |-> <<name, seq>>]
<1>1. topology \in TopologyType
  BY DEF Inv, TypeOK
<1>2. /\ t \in TopologyType
      /\ has_service(topology, s) /\ topology.units[u] = None
      /\ t.machines = topology.machines
      /\ t.services = topology.services
      /\ t.units = [topology.units EXCEPT ![u] = unit]
      /\ t.unit_sequence = [topology.unit_sequence EXCEPT ![name] = @ + 1]
      /\ t.relations = topology.relations
  BY <1>1, AddUnitEffect
<1>3. name \in ServiceName /\ seq \in Nat /\ unit \in Unit
  BY <1>1, <1>2 DEF TopologyType, has_service, Unit
<1>4. t.units[u] = unit /\ \A v \in UnitId \ {u} : t.units[v] = topology.units[v]
  BY <1>1, <1>2 DEF TopologyType
<1>5. get_service_unit_name(t, u) = <<name, seq>>
  BY <1>2, <1>4 DEF get_service_unit_name
<1>6. NewUnits(topology, t) \subseteq {entry}
  BY <1>4, <1>5 DEF NewUnits
<1>7. unit # None => entry \in issued'
  BY <1>2, <1>4, <1>5 DEF NewUnits
<1>8. TypeOK'
  <2>1. entry \in [unit : UnitId, name : ServiceName \X Nat]
    BY <1>3
  <2> QED BY <1>2, <1>6, <2>1 DEF Inv, TypeOK
<1>9. AssignedMachinesExist'
  BY <1>2, <1>4 DEF Inv, AssignedMachinesExist
<1>10. SubordinatesUnassigned'
  BY <1>4 DEF Inv, SubordinatesUnassigned
<1>11. ReferencedServicesExist'
  BY <1>2, <1>4 DEF Inv, ReferencedServicesExist, has_service, relation_has_service
<1>12. ServiceNamesUnique'
  BY <1>2 DEF Inv, ServiceNamesUnique, has_service
<1>13. SequencesAhead'
  <2> SUFFICES ASSUME NEW i \in issued' PROVE i.name[2] < t.unit_sequence[i.name[1]]
    BY DEF SequencesAhead
  <2>1. CASE i \in issued
    <3>1. i.name \in ServiceName \X Nat /\ i.name[2] < topology.unit_sequence[i.name[1]]
      BY <2>1 DEF Inv, TypeOK, SequencesAhead
    <3>2. topology.unit_sequence \in [ServiceName -> Nat]
      BY <1>1 DEF TopologyType
    <3> QED BY <1>2, <1>3, <3>1, <3>2
  <2>2. CASE i = entry
    <3>1. topology.unit_sequence \in [ServiceName -> Nat]
      BY <1>1 DEF TopologyType
    <3> QED BY <1>2, <1>3, <2>2, <3>1
  <2> QED BY <1>6, <2>1, <2>2
<1>14. UnitNamesNeverReused'
  <2> SUFFICES ASSUME NEW i \in issued', NEW j \in issued', i.name = j.name PROVE i = j
    BY DEF UnitNamesNeverReused
  <2>1. \A k \in issued : k.name # entry.name
    BY <1>3 DEF Inv, TypeOK, SequencesAhead
  <2>2. CASE i \in issued /\ j \in issued
    BY <2>2 DEF Inv, UnitNamesNeverReused
  <2>3. CASE i = entry \/ j = entry
    BY <1>6, <2>1, <2>3
  <2> QED BY <1>6, <2>2, <2>3
<1>15. UnitNamesKept'
  <2> SUFFICES ASSUME NEW v \in UnitId, t.units[v] # None
               PROVE  [unit |-> v, name |-> get_service_unit_name(t, v)] \in issued'
    BY DEF UnitNamesKept
  <2>1. CASE v = u
    BY <1>4, <1>5, <1>7, <2>1
  <2>2. CASE v # u
    BY <1>2, <1>4, <2>2 DEF Inv, UnitNamesKept, get_service_unit_name
  <2> QED BY <2>1, <2>2
<1> QED BY <1>8, <1>9, <1>10, <1>11, <1>12, <1>13, <1>14, <1>15 DEF Inv

\* Setting the machine of one unit keeps everything that does not speak of
\* machines.
LEMMA MachineOfUnitChanged ==
    ASSUME Inv, NEW t \in TopologyType, NEW u \in UnitId, NEW m,
           topology' = t, issued' = issued \cup NewUnits(topology, t),
           topology.units[u] # None,
           t.services = topology.services, t.unit_sequence = topology.unit_sequence,
           t.relations = topology.relations,
           t.units = [topology.units EXCEPT ![u] = [topology.units[u] EXCEPT !.machine = m]]
    PROVE  /\ TypeOK' /\ ReferencedServicesExist' /\ ServiceNamesUnique'
           /\ SequencesAhead' /\ UnitNamesNeverReused' /\ UnitNamesKept'
           /\ t.units[u].machine = m /\ t.units[u].container = topology.units[u].container
           /\ \A v \in UnitId \ {u} : t.units[v] = topology.units[v]
<1>1. topology.units \in [UnitId -> Unit \cup {None}] /\ topology.units[u] \in Unit
  BY DEF Inv, TypeOK, TopologyType
<1>2. /\ t.units[u] = [topology.units[u] EXCEPT !.machine = m]
      /\ \A v \in UnitId \ {u} : t.units[v] = topology.units[v]
  BY <1>1
<1>3. /\ t.units[u].machine = m /\ t.units[u].container = topology.units[u].container
      /\ t.units[u].service = topology.units[u].service
      /\ t.units[u].sequence = topology.units[u].sequence
  BY <1>1, <1>2 DEF Unit
<1>4. issued' = issued
  BY <1>2 DEF NewUnits
<1>5. TypeOK' /\ ServiceNamesUnique' /\ SequencesAhead' /\ UnitNamesNeverReused'
  BY <1>4 DEF Inv, TypeOK, ServiceNamesUnique, SequencesAhead, UnitNamesNeverReused,
              has_service
<1>6. ReferencedServicesExist'
  BY <1>2, <1>3 DEF Inv, ReferencedServicesExist, has_service, relation_has_service
<1>7. UnitNamesKept'
  BY <1>2, <1>3, <1>4 DEF Inv, UnitNamesKept, get_service_unit_name
<1> QED BY <1>2, <1>3, <1>5, <1>6, <1>7

\* remove_unit_state preserves it: what was issued stays issued.
LEMMA RemoveUnitInv == Inv /\ RemoveUnitState => Inv'
<1> SUFFICES ASSUME Inv, NEW s \in ServiceId, NEW u \in UnitId,
                    NEW t \in remove_service_unit(topology, s, u),
                    topology' = t, issued' = issued \cup NewUnits(topology, t)
             PROVE  Inv'
  BY DEF RemoveUnitState, Apply
<1>1. topology \in TopologyType
  BY DEF Inv, TypeOK
<1>2. /\ t \in TopologyType
      /\ t.machines = topology.machines /\ t.services = topology.services
      /\ t.units = [topology.units EXCEPT ![u] = None]
      /\ t.unit_sequence = topology.unit_sequence /\ t.relations = topology.relations
  BY <1>1, RemoveUnitEffect
<1>3. \A v \in UnitId : t.units[v] # None => t.units[v] = topology.units[v]
  BY <1>1, <1>2 DEF TopologyType
<1>4. issued' = issued
  BY <1>3 DEF NewUnits
<1>5. TypeOK' /\ ServiceNamesUnique' /\ SequencesAhead' /\ UnitNamesNeverReused'
  BY <1>2, <1>4 DEF Inv, TypeOK, ServiceNamesUnique, SequencesAhead, UnitNamesNeverReused,
              has_service
<1>6. AssignedMachinesExist' /\ SubordinatesUnassigned'
  BY <1>2, <1>3 DEF Inv, AssignedMachinesExist, SubordinatesUnassigned
<1>7. ReferencedServicesExist'
  BY <1>2, <1>3 DEF Inv, ReferencedServicesExist, has_service, relation_has_service
<1>8. UnitNamesKept'
  BY <1>2, <1>3, <1>4 DEF Inv, UnitNamesKept, get_service_unit_name
<1> QED BY <1>5, <1>6, <1>7, <1>8 DEF Inv

\* An assignment to a machine in the topology, of a unit without container.
LEMMA AssignInv ==
    ASSUME Inv, NEW s \in ServiceId, NEW u \in UnitId, NEW m \in MachineId,
           NEW t \in assign_service_unit_to_machine(topology, s, u, m),
           topology.units[u].container = None,
           topology' = t, issued' = issued \cup NewUnits(topology, t)
    PROVE  Inv'
<1>1. topology \in TopologyType
  BY DEF Inv, TypeOK
<1>2. /\ t \in TopologyType
      /\ has_service_unit(topology, s, u) /\ m \in topology.machines
      /\ t.machines = topology.machines /\ t.services = topology.services
      /\ t.units = [topology.units EXCEPT ![u] = [topology.units[u] EXCEPT !.machine = m]]
      /\ t.unit_sequence = topology.unit_sequence /\ t.relations = topology.relations
  BY <1>1, AssignEffect
<1>3. topology.units[u] # None
  BY <1>2 DEF has_service_unit
<1>4. /\ TypeOK' /\ ReferencedServicesExist' /\ ServiceNamesUnique'
      /\ SequencesAhead' /\ UnitNamesNeverReused' /\ UnitNamesKept'
      /\ t.units[u].machine = m /\ t.units[u].container = topology.units[u].container
      /\ \A v \in UnitId \ {u} : t.units[v] = topology.units[v]
  BY <1>2, <1>3, MachineOfUnitChanged
<1>5. AssignedMachinesExist'
  BY <1>2, <1>4 DEF Inv, AssignedMachinesExist
<1>6. SubordinatesUnassigned'
  BY <1>4 DEF Inv, SubordinatesUnassigned
<1> QED BY <1>4, <1>5, <1>6 DEF Inv

\* A change that changes nothing.
LEMMA UnchangedInv ==
    ASSUME Inv, topology' = topology, issued' = issued \cup NewUnits(topology, topology)
    PROVE  Inv'
<1>1. topology \in TopologyType
  BY DEF Inv, TypeOK
<1>2. AssignedMachinesExist' /\ ReferencedServicesExist'
  BY DEF Inv, AssignedMachinesExist, ReferencedServicesExist
<1> QED BY <1>1, <1>2, UnitsUntouched DEF Inv

\* assign_to_machine preserves it: the machine exists, the unit has no container.
LEMMA AssignToMachineInv == Inv /\ AssignToMachine => Inv'
<1> SUFFICES ASSUME Inv, NEW s \in ServiceId, NEW u \in UnitId, NEW m \in MachineId,
                    NEW t \in assign_unit(topology, s, u, m),
                    topology' = t, issued' = issued \cup NewUnits(topology, t)
             PROVE  Inv'
  BY DEF AssignToMachine, Apply
<1>1. topology.units[u].container = None
  BY DEF assign_unit
<1>2. CASE t \in assign_service_unit_to_machine(topology, s, u, m)
  BY <1>1, <1>2, AssignInv
<1>3. CASE t = topology
  BY <1>3, UnchangedInv
<1> QED BY <1>2, <1>3 DEF assign_unit, Unless_raised

\* assign_to_unused_machine preserves it.
LEMMA AssignToUnusedMachineInv == Inv /\ AssignToUnusedMachine => Inv'
<1> SUFFICES ASSUME Inv, NEW s \in ServiceId, NEW u \in UnitId,
                    has_service_unit(topology, s, u) => topology.units[u].container = None,
                    NEW t \in assign_unused_unit(topology, s, u),
                    topology' = t, issued' = issued \cup NewUnits(topology, t)
             PROVE  Inv'
  BY DEF AssignToUnusedMachine, Apply
<1>1. topology \in TopologyType
  BY DEF Inv, TypeOK
<1>2. PICK m \in topology.machines : t \in assign_service_unit_to_machine(topology, s, u, m)
  BY DEF assign_unused_unit, unused_machines
<1>3. m \in MachineId
  BY <1>1 DEF TopologyType
<1>4. has_service_unit(topology, s, u)
  BY <1>2 DEF assign_service_unit_to_machine, Unless_raised
<1> QED BY <1>2, <1>3, <1>4, AssignInv

\* unassign_from_machine preserves it: only the machine of the unit changes.
LEMMA UnassignInv == Inv /\ UnassignFromMachine => Inv'
<1> SUFFICES ASSUME Inv, NEW s \in ServiceId, NEW u \in UnitId,
                    NEW t \in unassign_unit(topology, s, u),
                    topology' = t, issued' = issued \cup NewUnits(topology, t)
             PROVE  Inv'
  BY DEF UnassignFromMachine, Apply
<1>1. topology \in TopologyType
  BY DEF Inv, TypeOK
<1>2. CASE t = topology
  BY <1>2, UnchangedInv
<1>3. CASE t \in unassign_service_unit_from_machine(topology, s, u)
  <2>1. /\ t \in TopologyType
        /\ has_service_unit(topology, s, u)
        /\ t.machines = topology.machines /\ t.services = topology.services
        /\ t.units = [topology.units EXCEPT ![u] = [topology.units[u] EXCEPT !.machine = None]]
        /\ t.unit_sequence = topology.unit_sequence /\ t.relations = topology.relations
    BY <1>1, <1>3, UnassignEffect
  <2>2. topology.units[u] # None
    BY <2>1 DEF has_service_unit
  <2>3. /\ TypeOK' /\ ReferencedServicesExist' /\ ServiceNamesUnique'
        /\ SequencesAhead' /\ UnitNamesNeverReused' /\ UnitNamesKept'
        /\ t.units[u].machine = None
        /\ \A v \in UnitId \ {u} : t.units[v] = topology.units[v]
    BY <2>1, <2>2, MachineOfUnitChanged
  <2>4. AssignedMachinesExist' /\ SubordinatesUnassigned'
    BY <2>1, <2>3 DEF Inv, AssignedMachinesExist, SubordinatesUnassigned
  <2> QED BY <2>3, <2>4 DEF Inv
<1> QED BY <1>2, <1>3 DEF unassign_unit

\* Equal in everything but the relations.
SameButRelations(t, t2) ==
    /\ t2.machines = t.machines /\ t2.services = t.services /\ t2.units = t.units
    /\ t2.unit_sequence = t.unit_sequence

\* The services in the relations of t exist and play different roles.
RelationsSound(t) ==
    /\ \A r \in RelationId, s \in ServiceId :
            relation_has_service(t, r, s) => has_service(t, s)
    /\ \A r \in RelationId, s1, s2 \in ServiceId :
            relation_has_service(t, r, s1) /\ relation_has_service(t, r, s2) =>
                (t.relations[r].services[s1].role = t.relations[r].services[s2].role
                    => s1 = s2)

\* add_relation adds a relation without services, which is sound.
LEMMA AddEmptyRelationSound ==
    ASSUME NEW t \in TopologyType, RelationsSound(t), NEW r \in RelationId,
           NEW i \in Interface, NEW sc \in Scope, NEW t2 \in add_relation(t, r, i, sc)
    PROVE  t2 \in TopologyType /\ SameButRelations(t, t2) /\ RelationsSound(t2)
<1>1. /\ t2 \in TopologyType
      /\ t2.machines = t.machines /\ t2.services = t.services /\ t2.units = t.units
      /\ t2.unit_sequence = t.unit_sequence
      /\ t2.relations = [t.relations EXCEPT ![r] =
            [interface |-> i, scope |-> sc, services |-> [s \in ServiceId |-> None]]]
  BY AddRelationEffect
<1>2. /\ \A s \in ServiceId : ~relation_has_service(t2, r, s)
      /\ \A r2 \in RelationId \ {r} : t2.relations[r2] = t.relations[r2]
  BY <1>1 DEF TopologyType, relation_has_service
<1>3. RelationsSound(t2)
  BY <1>1, <1>2 DEF RelationsSound, relation_has_service, has_service
<1> QED BY <1>1, <1>3 DEF SameButRelations

\* assign_service_to_relation keeps relations sound: the service exists and its
\* role is free.
LEMMA AssignRelationSound ==
    ASSUME NEW t \in TopologyType, RelationsSound(t), NEW r \in RelationId,
           NEW s \in ServiceId, NEW n \in RelationName, NEW ro \in Role,
           NEW t2 \in assign_service_to_relation(t, r, s, n, ro)
    PROVE  t2 \in TopologyType /\ SameButRelations(t, t2) /\ RelationsSound(t2)
<1> DEFINE servs == [t.relations[r].services EXCEPT ![s] = [name |-> n, role |-> ro]]
<1>1. /\ t2 \in TopologyType
      /\ has_service(t, s) /\ has_relation(t, r)
      /\ \A s2 \in ServiceId : relation_has_service(t, r, s2) =>
            s2 # s /\ t.relations[r].services[s2].role # ro
      /\ t2.machines = t.machines /\ t2.services = t.services /\ t2.units = t.units
      /\ t2.unit_sequence = t.unit_sequence
      /\ t2.relations = [t.relations EXCEPT ![r] = [t.relations[r] EXCEPT
            !.services = servs]]
  BY AssignRelationEffect
<1>2. t.relations[r] \in Relation /\ t.relations[r] # None
  BY <1>1 DEF TopologyType, has_relation
<1>3. /\ t2.relations[r].services = servs
      /\ \A r2 \in RelationId \ {r} : t2.relations[r2] = t.relations[r2]
  BY <1>1, <1>2 DEF TopologyType, Relation
<1>4. /\ servs[s].role = ro
      /\ \A s2 \in ServiceId \ {s} : servs[s2] = t.relations[r].services[s2]
  BY <1>2 DEF Relation
<1>5. \A s2 \in ServiceId \ {s} :
          relation_has_service(t2, r, s2) => relation_has_service(t, r, s2)
  BY <1>2, <1>3, <1>4 DEF relation_has_service
<1>6. \A r2 \in RelationId, s2 \in ServiceId :
          relation_has_service(t2, r2, s2) => has_service(t2, s2)
  BY <1>1, <1>3, <1>5 DEF RelationsSound, relation_has_service, has_service
<1>7. ASSUME NEW r2 \in RelationId, NEW s1 \in ServiceId, NEW s2 \in ServiceId,
             relation_has_service(t2, r2, s1), relation_has_service(t2, r2, s2),
             t2.relations[r2].services[s1].role = t2.relations[r2].services[s2].role
      PROVE  s1 = s2
  <2>1. CASE r2 # r
    BY <1>3, <1>7, <2>1 DEF RelationsSound, relation_has_service
  <2>2. CASE r2 = r /\ s1 # s /\ s2 # s
    <3>1. relation_has_service(t, r, s1) /\ relation_has_service(t, r, s2)
      BY <1>5, <1>7, <2>2
    <3>2. t.relations[r].services[s1].role = t.relations[r].services[s2].role
      <4>1. servs[s1].role = servs[s2].role
        BY <1>3, <1>7, <2>2
      <4> HIDE DEF servs
      <4> QED BY <1>4, <2>2, <4>1
    <3> QED BY <3>1, <3>2 DEF RelationsSound
  <2>3. CASE r2 = r /\ (s1 = s \/ s2 = s)
    BY <1>1, <1>3, <1>4, <1>5, <1>7, <2>3
  <2> QED BY <2>1, <2>2, <2>3
<1>8. RelationsSound(t2)
  BY <1>6, <1>7 DEF RelationsSound
<1> QED BY <1>1, <1>8 DEF SameButRelations

\* The same for the endpoint of a charm.
LEMMA AssignEndpointSound ==
    ASSUME NEW t \in TopologyType, RelationsSound(t), NEW r \in RelationId,
           NEW eps, NEW i \in DOMAIN eps, eps[i] \in RelationEndpoint,
           NEW servs, servs[i] \in ServiceId \cup {None},
           NEW t2 \in assign_endpoint(t, r, eps, servs, i)
    PROVE  t2 \in TopologyType /\ SameButRelations(t, t2) /\ RelationsSound(t2)
<1>1. servs[i] \in ServiceId /\ t2 \in assign_service_to_relation(t, r, servs[i],
            eps[i].relation_name, eps[i].relation_role)
  BY DEF assign_endpoint
<1>2. eps[i].relation_name \in RelationName /\ eps[i].relation_role \in Role
  BY DEF RelationEndpoint
<1> QED BY <1>1, <1>2, AssignRelationSound

\* The change function of add_relation_state keeps relations sound.
LEMMA AddRelationChangeSound ==
    ASSUME NEW t \in TopologyType, RelationsSound(t), NEW r \in RelationId,
           NEW eps \in EndpointLists, NEW servs \in [DOMAIN eps -> ServiceId \cup {None}],
           NEW t2 \in add_relation_change(t, r, eps, servs)
    PROVE  t2 \in TopologyType /\ SameButRelations(t, t2) /\ RelationsSound(t2)
<1>0. /\ eps[1] \in RelationEndpoint /\ 1 \in DOMAIN eps
      /\ Len(eps) # 1 => eps[2] \in RelationEndpoint /\ 2 \in DOMAIN eps
      /\ relation_scope(eps) \in Scope
  BY EndpointListsType
<1>1. PICK t0 \in add_relation(t, r, eps[1].relation_type, relation_scope(eps)) :
        \/ t2 \in assign_endpoint(t0, r, eps, servs, 1)
        \/ /\ Len(eps) # 1
           /\ \E t1 \in assign_endpoint(t0, r, eps, servs, 1) :
                t2 \in assign_endpoint(t1, r, eps, servs, 2)
  BY DEF add_relation_change
<1>2. eps[1].relation_type \in Interface
  BY <1>0 DEF RelationEndpoint
<1>3. t0 \in TopologyType /\ SameButRelations(t, t0) /\ RelationsSound(t0)
  BY <1>0, <1>1, <1>2, AddEmptyRelationSound
<1>4. \A t1 \in assign_endpoint(t0, r, eps, servs, 1) :
        t1 \in TopologyType /\ SameButRelations(t0, t1) /\ RelationsSound(t1)
  BY <1>0, <1>3, AssignEndpointSound
<1>5. CASE t2 \in assign_endpoint(t0, r, eps, servs, 1)
  BY <1>3, <1>4, <1>5 DEF SameButRelations
<1>6. CASE /\ Len(eps) # 1
           /\ \E t1 \in assign_endpoint(t0, r, eps, servs, 1) :
                t2 \in assign_endpoint(t1, r, eps, servs, 2)
  <2>1. PICK t1 \in assign_endpoint(t0, r, eps, servs, 1) :
               t2 \in assign_endpoint(t1, r, eps, servs, 2)
    BY <1>6
  <2>2. t2 \in TopologyType /\ SameButRelations(t1, t2) /\ RelationsSound(t2)
    BY <1>0, <1>4, <1>6, <2>1, AssignEndpointSound
  <2> QED BY <1>3, <1>4, <2>1, <2>2 DEF SameButRelations
<1> QED BY <1>1, <1>5, <1>6

\* add_relation_state preserves the invariant.
LEMMA AddRelationInv == Inv /\ RolesExclusive /\ AddRelationState => (Inv /\ RolesExclusive)'
<1> SUFFICES ASSUME Inv, RolesExclusive, NEW r \in RelationId, NEW eps \in EndpointLists,
                    NEW t \in add_relation_change(topology, r, eps, [i \in DOMAIN eps |->
                        find_service_with_name(topology, eps[i].service_name)]),
                    topology' = t, issued' = issued \cup NewUnits(topology, t)
             PROVE  (Inv /\ RolesExclusive)'
  BY DEF AddRelationState, Apply
<1> DEFINE servs == [i \in DOMAIN eps |->
                        find_service_with_name(topology, eps[i].service_name)]
<1>1. topology \in TopologyType
  BY DEF Inv, TypeOK
<1>2. servs \in [DOMAIN eps -> ServiceId \cup {None}]
  BY DEF find_service_with_name
<1>3. RelationsSound(topology)
  BY DEF Inv, ReferencedServicesExist, RolesExclusive, RelationsSound
<1> HIDE DEF servs
<1>4. t \in add_relation_change(topology, r, eps, servs)
  BY DEF servs
<1>5. t \in TopologyType /\ SameButRelations(topology, t) /\ RelationsSound(t)
  BY <1>1, <1>2, <1>3, <1>4, AddRelationChangeSound
<1>6. AssignedMachinesExist'
  BY <1>5 DEF Inv, AssignedMachinesExist, SameButRelations
<1>7. ReferencedServicesExist' /\ RolesExclusive'
  BY <1>5 DEF Inv, ReferencedServicesExist, RolesExclusive, RelationsSound,
              SameButRelations, has_service
<1> QED BY <1>5, <1>6, <1>7, UnitsUntouched DEF Inv, SameButRelations

\* remove_relation_state preserves the invariant.
LEMMA RemoveRelationInv ==
    Inv /\ RolesExclusive /\ RemoveRelationState => (Inv /\ RolesExclusive)'
<1> SUFFICES ASSUME Inv, RolesExclusive, NEW r \in RelationId,
                    NEW t \in remove_relation(topology, r),
                    topology' = t, issued' = issued \cup NewUnits(topology, t)
             PROVE  (Inv /\ RolesExclusive)'
  BY DEF RemoveRelationState, Apply
<1>1. topology \in TopologyType
  BY DEF Inv, TypeOK
<1>2. /\ t \in TopologyType
      /\ t.machines = topology.machines /\ t.services = topology.services
      /\ t.units = topology.units /\ t.unit_sequence = topology.unit_sequence
      /\ t.relations = [topology.relations EXCEPT ![r] = None]
  BY <1>1, RemoveRelationEffect
<1>3. \A r2 \in RelationId : t.relations[r2] # None => t.relations[r2] = topology.relations[r2]
  BY <1>1, <1>2 DEF TopologyType
<1>4. AssignedMachinesExist'
  BY <1>2 DEF Inv, AssignedMachinesExist
<1>5. ReferencedServicesExist' /\ RolesExclusive'
  BY <1>2, <1>3 DEF Inv, ReferencedServicesExist, RolesExclusive, has_service,
                    relation_has_service
<1> QED BY <1>2, <1>4, <1>5, UnitsUntouched DEF Inv

\* The changes that are not about relations leave the relations alone.
LEMMA RelationsUntouched ==
    ASSUME Inv,
           \/ AddMachineState \/ RemoveMachineState \/ AddServiceState
           \/ RemoveServiceState \/ AddUnitState \/ RemoveUnitState
           \/ AssignToMachine \/ AssignToUnusedMachine \/ UnassignFromMachine
    PROVE  topology'.relations = topology.relations
<1>1. topology \in TopologyType
  BY DEF Inv, TypeOK
<1>2. CASE AddMachineState
  BY <1>1, <1>2, AddMachineEffect DEF AddMachineState, Apply
<1>3. CASE RemoveMachineState
  BY <1>1, <1>3, RemoveMachineEffect DEF RemoveMachineState, Apply, remove_machine_change
<1>4. CASE AddServiceState
  <2>1. PICK s \in ServiceId, n \in ServiceName :
          topology' \in add_service(topology, s, n)
    BY <1>4 DEF AddServiceState, Apply, add_service_change
  <2>2. PICK t \in add_service(topology, s, n) : topology' = t
    BY <2>1
  <2>3. t.relations = topology.relations
    BY <1>1, <2>1, <2>2 DEF add_service, Unless_raised, TopologyType
  <2> QED BY <2>2, <2>3
<1>5. CASE RemoveServiceState
  <2>1. PICK s \in ServiceId :
          topology' \in remove_service(topology, s)
    BY <1>5 DEF RemoveServiceState, Apply
  <2>2. PICK t \in remove_service(topology, s) : topology' = t
    BY <2>1
  <2>3. t.relations = topology.relations
    BY <1>1, <2>1, <2>2, RemoveServiceEffect
  <2> QED BY <2>2, <2>3
<1>6. CASE AddUnitState
  <2>1. PICK s \in ServiceId, u \in UnitId, c \in UnitId \cup {None} :
          topology' \in add_service_unit(topology, s, u, c)
    BY <1>6 DEF AddUnitState, Apply
  <2>2. PICK t \in add_service_unit(topology, s, u, c) : topology' = t
    BY <2>1
  <2>3. t.relations = topology.relations
    BY <1>1, <2>1, <2>2 DEF add_service_unit, Unless_raised, TopologyType
  <2> QED BY <2>2, <2>3
<1>7. CASE RemoveUnitState
  <2>1. PICK s \in ServiceId, u \in UnitId :
          topology' \in remove_service_unit(topology, s, u)
    BY <1>7 DEF RemoveUnitState, Apply
  <2>2. PICK t \in remove_service_unit(topology, s, u) : topology' = t
    BY <2>1
  <2>3. t.relations = topology.relations
    BY <1>1, <2>1, <2>2 DEF remove_service_unit, Unless_raised, TopologyType
  <2> QED BY <2>2, <2>3
<1>8. CASE AssignToMachine
  <2>1. PICK s \in ServiceId, u \in UnitId, m \in MachineId :
          topology' \in assign_unit(topology, s, u, m)
    BY <1>8 DEF AssignToMachine, Apply
  <2>2. CASE topology' = topology
    BY <2>2
  <2>3. CASE \E t \in assign_service_unit_to_machine(topology, s, u, m) : topology' = t
    <3>1. PICK t \in assign_service_unit_to_machine(topology, s, u, m) : topology' = t
      BY <2>3
    <3>2. t.relations = topology.relations
      BY <1>1, <2>1, <3>1 DEF assign_service_unit_to_machine, Unless_raised, TopologyType
    <3> QED BY <3>1, <3>2
  <2> QED BY <2>1, <2>2, <2>3 DEF assign_unit, Unless_raised
<1>9. CASE AssignToUnusedMachine
  <2>1. PICK s \in ServiceId, u \in UnitId :
          topology' \in assign_unused_unit(topology, s, u)
    BY <1>9 DEF AssignToUnusedMachine, Apply
  <2>2. PICK m \in topology.machines :
          topology' \in assign_service_unit_to_machine(topology, s, u, m)
    BY <2>1 DEF assign_unused_unit, unused_machines
  <2>3. PICK t \in assign_service_unit_to_machine(topology, s, u, m) : topology' = t
    BY <2>2
  <2>4. m \in MachineId
    BY <1>1 DEF TopologyType
  <2>5. t.relations = topology.relations
    BY <1>1, <2>3, <2>4 DEF assign_service_unit_to_machine, Unless_raised, TopologyType
  <2> QED BY <2>3, <2>5
<1>10. CASE UnassignFromMachine
  <2>1. PICK s \in ServiceId, u \in UnitId :
          topology' \in unassign_unit(topology, s, u)
    BY <1>10 DEF UnassignFromMachine, Apply
  <2>2. CASE topology' = topology
    BY <2>2
  <2>3. CASE \E t \in unassign_service_unit_from_machine(topology, s, u) : topology' = t
    <3>1. PICK t \in unassign_service_unit_from_machine(topology, s, u) : topology' = t
      BY <2>3
    <3>2. t.relations = topology.relations
      BY <1>1, <2>1, <3>1 DEF unassign_service_unit_from_machine, Unless_raised,
                                TopologyType
    <3> QED BY <3>1, <3>2
  <2> QED BY <2>1, <2>2, <2>3 DEF unassign_unit
<1> QED BY <1>2, <1>3, <1>4, <1>5, <1>6, <1>7, <1>8, <1>9, <1>10

\* The changes that are not about services leave the services alone.
LEMMA ServicesUntouched ==
    ASSUME Inv,
           \/ AddMachineState \/ RemoveMachineState \/ AddUnitState \/ RemoveUnitState
           \/ AssignToMachine \/ AssignToUnusedMachine \/ UnassignFromMachine
    PROVE  topology'.services = topology.services
<1>1. topology \in TopologyType
  BY DEF Inv, TypeOK
<1>2. CASE AddMachineState
  BY <1>1, <1>2, AddMachineEffect DEF AddMachineState, Apply
<1>3. CASE RemoveMachineState
  BY <1>1, <1>3, RemoveMachineEffect DEF RemoveMachineState, Apply, remove_machine_change
<1>4. CASE AddUnitState
  <2>1. PICK s \in ServiceId, u \in UnitId, c \in UnitId \cup {None} :
          topology' \in add_service_unit(topology, s, u, c)
    BY <1>4 DEF AddUnitState, Apply
  <2> QED BY <1>1, <2>1 DEF add_service_unit, Unless_raised, TopologyType
<1>5. CASE RemoveUnitState
  <2>1. PICK s \in ServiceId, u \in UnitId :
          topology' \in remove_service_unit(topology, s, u)
    BY <1>5 DEF RemoveUnitState, Apply
  <2> QED BY <1>1, <2>1 DEF remove_service_unit, Unless_raised, TopologyType
<1>6. ASSUME NEW s \in ServiceId, NEW u \in UnitId, NEW m \in MachineId,
             topology' \in assign_service_unit_to_machine(topology, s, u, m)
      PROVE  topology'.services = topology.services
  BY <1>1, <1>6 DEF assign_service_unit_to_machine, Unless_raised, TopologyType
<1>7. CASE AssignToMachine
  BY <1>6, <1>7 DEF AssignToMachine, Apply, assign_unit, Unless_raised
<1>8. CASE AssignToUnusedMachine
  BY <1>1, <1>6, <1>8 DEF AssignToUnusedMachine, Apply, assign_unused_unit,
                          unused_machines, TopologyType
<1>9. CASE UnassignFromMachine
  <2>1. PICK s \in ServiceId, u \in UnitId :
          topology' \in unassign_unit(topology, s, u)
    BY <1>9 DEF UnassignFromMachine, Apply
  <2> QED BY <1>1, <2>1 DEF unassign_unit, unassign_service_unit_from_machine,
                            Unless_raised, TopologyType
<1> QED BY <1>2, <1>3, <1>4, <1>5, <1>7, <1>8, <1>9

\* Every step preserves the invariant.
LEMMA NextInv == Inv /\ RolesExclusive /\ [Next]_vars => (Inv /\ RolesExclusive)'
<1> SUFFICES ASSUME Inv, RolesExclusive, [Next]_vars PROVE (Inv /\ RolesExclusive)'
  OBVIOUS
<1>1. CASE AddRelationState \/ RemoveRelationState
  BY <1>1, AddRelationInv, RemoveRelationInv
<1>2. CASE UNCHANGED vars
  BY <1>2 DEF vars, Inv, TypeOK, AssignedMachinesExist, ReferencedServicesExist,
              ServiceNamesUnique, SequencesAhead, UnitNamesNeverReused, UnitNamesKept,
              SubordinatesUnassigned, RolesExclusive
<1>3. CASE \/ AddMachineState \/ RemoveMachineState \/ AddServiceState
           \/ RemoveServiceState \/ AddUnitState \/ RemoveUnitState
           \/ AssignToMachine \/ AssignToUnusedMachine \/ UnassignFromMachine
  <2>1. Inv'
    BY <1>3, AddMachineInv, RemoveMachineInv, AddServiceInv, RemoveServiceInv, AddUnitInv,
       RemoveUnitInv, AssignToMachineInv, AssignToUnusedMachineInv, UnassignInv
  <2>2. RolesExclusive'
    BY <1>3, RelationsUntouched DEF RolesExclusive, relation_has_service
  <2> QED BY <2>1, <2>2
<1> QED BY <1>1, <1>2, <1>3 DEF Next

\* The invariant holds throughout.
LEMMA Invariance == Spec => [](Inv /\ RolesExclusive)
<1>1. Init => RolesExclusive
  BY DEF Init, InitialTopology, RolesExclusive, relation_has_service
<1> QED BY <1>1, InitInv, NextInv, PTL DEF Spec

\* Every change of the state managers leaves a well-formed topology.
THEOREM TypeCorrect == Spec => []TypeOK
BY Invariance, PTL DEF Inv

\* No change leaves a unit on a machine, or a unit or relation of a service,
\* that is not in the topology; the root machine is never removed.
THEOREM ReferentialIntegrity ==
    Spec => [](AssignedMachinesExist /\ ReferencedServicesExist)
BY Invariance, PTL DEF Inv

\* Unit names are unique over the whole life of an environment: removing and
\* deploying services again never gives a name to a second unit.
THEOREM NamesNeverReused == Spec => []UnitNamesNeverReused
BY Invariance, PTL DEF Inv

\* Service names are unique, and a unit always has the name it was given.
THEOREM NamesStable == Spec => [](ServiceNamesUnique /\ UnitNamesKept)
BY Invariance, PTL DEF Inv

\* No two services play the same role in a relation.
THEOREM RolesAreExclusive == Spec => []RolesExclusive
BY Invariance, PTL

\* A unit in a container never gets a machine of its own.
THEOREM SubordinatesFollowPrincipals == Spec => []SubordinatesUnassigned
BY Invariance, PTL DEF Inv
-----------------------------------------------------------------------------
(* No two relations between the same endpoints *)

\* No two services of t share a name, and each relation of t was made of the
\* endpoints of services that still have their names, in different roles.
NamesUnique(t) == \A s1, s2 \in ServiceId :
    t.services[s1] # None /\ t.services[s1] = t.services[s2] => s1 = s2

MadeOf(t, r, eps, servs) ==
    /\ eps \in EndpointLists /\ servs \in [DOMAIN eps -> ServiceId]
    /\ t.relations[r].scope = relation_scope(eps)
    /\ \A i \in DOMAIN eps :
        /\ t.services[servs[i]] = eps[i].service_name
        /\ t.relations[r].services[servs[i]] # None
        /\ t.relations[r].services[servs[i]].name = eps[i].relation_name
    /\ \A i, j \in DOMAIN eps : eps[i].relation_role = eps[j].relation_role => i = j
    /\ \A s \in ServiceId : t.relations[r].services[s] # None =>
        \E i \in DOMAIN eps : s = servs[i]

RelationsMade(t) == \A r \in RelationId :
    t.relations[r] # None => \E eps, servs : MadeOf(t, r, eps, servs)

OneScope(eps) ==
    \A i, j \in DOMAIN eps : eps[i].relation_scope = eps[j].relation_scope

NoneTwice(t) == \A eps \in EndpointLists :
    OneScope(eps) => \A r1, r2 \in get_relation_between_endpoints(t, eps) : r1 = r2

\* The endpoints of a list are different, and a peer is never listed with
\* an endpoint of another role.
LEMMA EndpointsOfList ==
    ASSUME NEW eps \in EndpointLists
    PROVE  /\ DOMAIN eps = {1} \/ DOMAIN eps = {1, 2}
           /\ \A i \in DOMAIN eps : eps[i] \in Endpoint
           /\ \A i, j \in DOMAIN eps : eps[i] = eps[j] => i = j
           /\ DOMAIN eps = {1} => eps[1].relation_role = "peer"
           /\ \A i, j \in DOMAIN eps :
                eps[i].relation_role = "peer" => eps[j].relation_role = "peer"
<1>1. CASE \E e \in Endpoint : eps = <<e>> /\ e.relation_role = "peer"
  <2>1. PICK e \in Endpoint : eps = <<e>> /\ e.relation_role = "peer"
    BY <1>1
  <2>2. DOMAIN eps = {1} /\ eps[1] = e
    BY <2>1
  <2> QED BY <2>1, <2>2
<1>2. CASE \E e1, e2 \in Endpoint : eps = <<e1, e2>> /\ e1 # e2 /\ may_relate_to(e1, e2)
  <2>1. PICK e1, e2 \in Endpoint : eps = <<e1, e2>> /\ e1 # e2 /\ may_relate_to(e1, e2)
    BY <1>2
  <2>2. DOMAIN eps = {1, 2} /\ eps[1] = e1 /\ eps[2] = e2
    BY <2>1
  <2>3. e1.relation_role = "peer" <=> e2.relation_role = "peer"
    BY <2>1 DEF may_relate_to
  <2> QED BY <2>1, <2>2, <2>3
<1>3. \/ \E e \in Endpoint : eps = <<e>> /\ e.relation_role = "peer"
      \/ \E e1, e2 \in Endpoint : eps = <<e1, e2>> /\ e1 # e2 /\ may_relate_to(e1, e2)
  <2>1. CASE eps \in {<<e>> : e \in {p \in Endpoint : p.relation_role = "peer"}}
    BY <2>1
  <2>2. CASE eps \in {<<p[1], p[2]>> : p \in {q \in Endpoint \X Endpoint :
                               q[1] # q[2] /\ may_relate_to(q[1], q[2])}}
    <3>1. PICK p \in Endpoint \X Endpoint :
            p[1] # p[2] /\ may_relate_to(p[1], p[2]) /\ eps = <<p[1], p[2]>>
      BY <2>2
    <3> QED BY <3>1
  <2> QED BY <2>1, <2>2 DEF EndpointLists
<1> QED BY <1>1, <1>2, <1>3

\* The name of a service that is there finds that service.
LEMMA FoundByName ==
    ASSUME NEW t, NamesUnique(t), NEW s \in ServiceId, t.services[s] # None
    PROVE  find_service_with_name(t, t.services[s]) = s
BY DEF NamesUnique, find_service_with_name

\* The endpoints a relation is found between are those it was made of.
LEMMA FoundAsMade ==
    ASSUME UniqueRelationNames, NEW t, NamesUnique(t),
           NEW r, NEW eps0, NEW servs, MadeOf(t, r, eps0, servs),
           NEW eps \in EndpointLists, r \in get_relation_between_endpoints(t, eps)
    PROVE  /\ \A i \in DOMAIN eps0 : \E j \in DOMAIN eps : eps0[i] = eps[j]
           /\ \A j \in DOMAIN eps : \E i \in DOMAIN eps0 : eps0[i] = eps[j]
<1>0. eps0 \in EndpointLists
  BY DEF MadeOf
<1>1. ASSUME NEW j \in DOMAIN eps PROVE \E i \in DOMAIN eps0 : eps0[i] = eps[j]
  <2>1. PICK s \in ServiceId \cup {None} :
            s = find_service_with_name(t, eps[j].service_name)
    BY DEF find_service_with_name
  <2>2. /\ s # None /\ relation_has_service(t, r, s)
        /\ t.relations[r].services[s].name = eps[j].relation_name
    BY <2>1 DEF get_relation_between_endpoints
  <2>3. PICK i \in DOMAIN eps0 : s = servs[i]
    BY <2>2 DEF MadeOf, relation_has_service
  <2>4. t.services[s] = eps[j].service_name
    BY <2>1, <2>2 DEF find_service_with_name
  <2>5. /\ eps0[i].service_name = eps[j].service_name
        /\ eps0[i].relation_name = eps[j].relation_name
    BY <2>2, <2>3, <2>4 DEF MadeOf
  <2> QED BY <1>0, <2>5, EndpointsOfList DEF UniqueRelationNames
<1>2. CASE DOMAIN eps = {1, 2}
  <2>1. PICK i1 \in DOMAIN eps0 : eps0[i1] = eps[1]
    BY <1>1, <1>2
  <2>2. PICK i2 \in DOMAIN eps0 : eps0[i2] = eps[2]
    BY <1>1, <1>2
  <2>3. eps[1] # eps[2]
    BY <1>2, EndpointsOfList
  <2>4. DOMAIN eps0 = {i1, i2}
    BY <1>0, <2>1, <2>2, <2>3, EndpointsOfList
  <2> QED BY <1>1, <1>2, <2>1, <2>2, <2>4
<1>3. CASE DOMAIN eps = {1}
  <2>1. eps[1].relation_role = "peer"
    BY <1>3, EndpointsOfList
  <2>2. PICK i \in DOMAIN eps0 : eps0[i] = eps[1]
    BY <1>1, <1>3
  <2>3. \A k \in DOMAIN eps0 : eps0[k].relation_role = "peer"
    BY <1>0, <2>1, <2>2, EndpointsOfList
  <2>4. \A k \in DOMAIN eps0 : k = i
    BY <2>2, <2>3 DEF MadeOf
  <2> QED BY <1>1, <1>3, <2>2, <2>4
<1> QED BY <1>2, <1>3, EndpointsOfList

\* Relations disappear, and the services in those that stay keep their names.
Lasting(t, t2) == \A r \in RelationId : t2.relations[r] # None =>
    /\ t2.relations[r] = t.relations[r]
    /\ \A s \in ServiceId : relation_has_service(t, r, s) => t2.services[s] = t.services[s]

\* So what was made stays as it was made.
LEMMA MadeLasts ==
    ASSUME NEW t, NEW t2, NEW r \in RelationId, t2.relations[r] = t.relations[r],
           t.relations[r] # None,
           \A s \in ServiceId : relation_has_service(t, r, s) => t2.services[s] = t.services[s],
           NEW eps, NEW servs, MadeOf(t, r, eps, servs)
    PROVE  MadeOf(t2, r, eps, servs)
BY DEF MadeOf, relation_has_service

\* Nothing is found that was not found before.
LEMMA FoundLasts ==
    ASSUME NEW t, NEW t2, NamesUnique(t), NamesUnique(t2), NEW r \in RelationId,
           t2.relations[r] = t.relations[r],
           \A s \in ServiceId : relation_has_service(t, r, s) =>
                t.services[s] # None /\ t2.services[s] = t.services[s],
           NEW eps, r \in get_relation_between_endpoints(t2, eps)
    PROVE  r \in get_relation_between_endpoints(t, eps)
<1>1. has_relation(t, r) /\ t.relations[r].interface = eps[1].relation_type
  BY DEF get_relation_between_endpoints, has_relation
<1>2. ASSUME NEW i \in DOMAIN eps,
             NEW s, s = find_service_with_name(t2, eps[i].service_name)
      PROVE  /\ s # None /\ relation_has_service(t, r, s)
             /\ t.relations[r].services[s].name = eps[i].relation_name
             /\ find_service_with_name(t, eps[i].service_name) = s
  <2>1. /\ s # None /\ relation_has_service(t2, r, s)
        /\ t2.relations[r].services[s].name = eps[i].relation_name
    BY <1>2 DEF get_relation_between_endpoints
  <2>2. s \in ServiceId /\ t2.services[s] = eps[i].service_name
    BY <1>2, <2>1 DEF find_service_with_name
  <2>3. relation_has_service(t, r, s) /\ t.relations[r].services[s].name = eps[i].relation_name
    BY <2>1 DEF relation_has_service
  <2>4. t.services[s] # None /\ t.services[s] = eps[i].service_name
    BY <2>2, <2>3
  <2> QED BY <2>1, <2>2, <2>3, <2>4, FoundByName
<1> QED BY <1>1, <1>2 DEF get_relation_between_endpoints

\* Such a step keeps the relations single.
LEMMA LastingKeeps ==
    ASSUME NEW t, NEW t2, NamesUnique(t), NamesUnique(t2), Lasting(t, t2),
           \A r \in RelationId, s \in ServiceId :
                relation_has_service(t, r, s) => t.services[s] # None,
           NoneTwice(t)
    PROVE  NoneTwice(t2)
<1>1. ASSUME NEW eps, NEW r \in get_relation_between_endpoints(t2, eps)
      PROVE  r \in get_relation_between_endpoints(t, eps)
  <2>1. r \in RelationId /\ t2.relations[r] # None
    BY DEF get_relation_between_endpoints, has_relation
  <2> QED BY <2>1, FoundLasts DEF Lasting
<1> QED BY <1>1 DEF NoneTwice

\* add_relation_state makes one relation of its endpoints.
LEMMA AddRelationMade ==
    ASSUME NEW t \in TopologyType, RelationsMade(t),
           NEW r \in RelationId, NEW eps0 \in EndpointLists,
           NEW servs \in [DOMAIN eps0 -> ServiceId \cup {None}],
           \A i \in DOMAIN eps0 :
                servs[i] # None => t.services[servs[i]] = eps0[i].service_name,
           NEW t2 \in add_relation_change(t, r, eps0, servs),
           \A s1, s2 \in ServiceId :
                relation_has_service(t2, r, s1) /\ relation_has_service(t2, r, s2) =>
                    (t2.relations[r].services[s1].role = t2.relations[r].services[s2].role
                        => s1 = s2)
    PROVE  MadeOf(t2, r, eps0, servs) /\ RelationsMade(t2)
<1>1. /\ t2 \in TopologyType
      /\ ~has_relation_between_endpoints(t, eps0)
      /\ \A i \in DOMAIN eps0 : servs[i] \in ServiceId /\ has_service(t, servs[i])
      /\ \A i, j \in DOMAIN eps0 : servs[i] = servs[j] => i = j
      /\ t2.machines = t.machines /\ t2.services = t.services /\ t2.units = t.units
      /\ t2.unit_sequence = t.unit_sequence
      /\ \A r2 \in RelationId \ {r} : t2.relations[r2] = t.relations[r2]
      /\ t2.relations[r] \in Relation /\ t2.relations[r] # None
      /\ t2.relations[r].interface = eps0[1].relation_type
      /\ t2.relations[r].scope = relation_scope(eps0)
      /\ \A i \in DOMAIN eps0 : t2.relations[r].services[servs[i]] =
            [name |-> eps0[i].relation_name, role |-> eps0[i].relation_role]
      /\ \A s \in ServiceId : t2.relations[r].services[s] # None =>
            \E i \in DOMAIN eps0 : s = servs[i]
  BY AddRelationChangeEffect
<1>2. \A i \in DOMAIN eps0 :
        /\ servs[i] \in ServiceId /\ servs[i] # None
        /\ t2.services[servs[i]] = eps0[i].service_name
        /\ relation_has_service(t2, r, servs[i])
        /\ t2.relations[r].services[servs[i]].name = eps0[i].relation_name
        /\ t2.relations[r].services[servs[i]].role = eps0[i].relation_role
  <2>1. \A i \in DOMAIN eps0 : eps0[i] \in RelationEndpoint
    BY EndpointsOfList, EndpointAssumption
  <2>2. \A i \in DOMAIN eps0 :
            [name |-> eps0[i].relation_name, role |-> eps0[i].relation_role]
                \in [name : RelationName, role : Role]
    BY <2>1 DEF RelationEndpoint
  <2> SUFFICES ASSUME NEW i \in DOMAIN eps0
               PROVE  /\ servs[i] \in ServiceId /\ servs[i] # None
                      /\ t2.services[servs[i]] = eps0[i].service_name
                      /\ relation_has_service(t2, r, servs[i])
                      /\ t2.relations[r].services[servs[i]].name = eps0[i].relation_name
                      /\ t2.relations[r].services[servs[i]].role = eps0[i].relation_role
    OBVIOUS
  <2> DEFINE entry == [name |-> eps0[i].relation_name, role |-> eps0[i].relation_role]
  <2>3. entry # None /\ t2.relations[r].services[servs[i]] = entry
    BY <1>1, <2>2, EntryAssumption
  <2>4. entry.name = eps0[i].relation_name /\ entry.role = eps0[i].relation_role
    OBVIOUS
  <2>5. servs[i] \in ServiceId /\ servs[i] # None
    BY <1>1, NoneAssumption
  <2>6. t2.services[servs[i]] = eps0[i].service_name
    BY <1>1, <2>5
  <2> HIDE DEF entry
  <2> QED BY <1>1, <2>3, <2>4, <2>5, <2>6 DEF relation_has_service
<1>3. MadeOf(t2, r, eps0, servs)
  <2>1. servs \in [DOMAIN eps0 -> ServiceId]
    BY <1>1
  <2>2. \A i, j \in DOMAIN eps0 : eps0[i].relation_role = eps0[j].relation_role => i = j
    <3>1. ASSUME NEW i \in DOMAIN eps0, NEW j \in DOMAIN eps0,
                 eps0[i].relation_role = eps0[j].relation_role
          PROVE  servs[i] = servs[j]
      BY <1>2, <3>1
    <3> QED BY <1>1, <3>1
  <2>3. \A i \in DOMAIN eps0 : t2.relations[r].services[servs[i]] # None
    BY <1>2 DEF relation_has_service
  <2> QED BY <1>1, <1>2, <2>1, <2>2, <2>3 DEF MadeOf
<1>4. RelationsMade(t2)
  <2> SUFFICES ASSUME NEW q \in RelationId, t2.relations[q] # None
               PROVE  \E eps, servs2 : MadeOf(t2, q, eps, servs2)
    BY DEF RelationsMade
  <2>1. CASE q = r
    BY <1>3, <2>1
  <2>2. CASE q # r
    <3>1. t2.relations[q] = t.relations[q] /\ t.relations[q] # None
      BY <1>1, <2>2
    <3>2. PICK eps, servs2 : MadeOf(t, q, eps, servs2)
      BY <3>1 DEF RelationsMade
    <3> QED BY <1>1, <3>1, <3>2, MadeLasts
  <2> QED BY <2>1, <2>2
<1> QED BY <1>3, <1>4

\* add_relation_state refuses the endpoints of a relation there is, inside its
\* change function.
LEMMA AddRelationKeeps ==
    ASSUME UniqueRelationNames, NEW t \in TopologyType, NamesUnique(t),
           RelationsMade(t), NoneTwice(t), NEW r \in RelationId, NEW eps0 \in EndpointLists,
           \A q \in RelationId, s \in ServiceId :
                relation_has_service(t, q, s) => t.services[s] # None,
           NEW servs \in [DOMAIN eps0 -> ServiceId \cup {None}],
           \A i \in DOMAIN eps0 :
                servs[i] # None => t.services[servs[i]] = eps0[i].service_name,
           NEW t2 \in add_relation_change(t, r, eps0, servs),
           \A s1, s2 \in ServiceId :
                relation_has_service(t2, r, s1) /\ relation_has_service(t2, r, s2) =>
                    (t2.relations[r].services[s1].role = t2.relations[r].services[s2].role
                        => s1 = s2)
    PROVE  NoneTwice(t2)
<1>1. /\ t2 \in TopologyType
      /\ ~has_relation_between_endpoints(t, eps0)
      /\ t2.services = t.services
      /\ \A r2 \in RelationId \ {r} : t2.relations[r2] = t.relations[r2]
  BY AddRelationChangeEffect
<1>2. MadeOf(t2, r, eps0, servs)
  BY AddRelationMade
<1>3. NamesUnique(t2)
  BY <1>1 DEF NamesUnique
<1>4. ASSUME NEW eps, NEW q \in get_relation_between_endpoints(t2, eps), q # r
      PROVE  q \in get_relation_between_endpoints(t, eps) /\ q \in RelationId
  <2>1. q \in RelationId /\ t2.relations[q] = t.relations[q]
    BY <1>1, <1>4 DEF get_relation_between_endpoints
  <2> QED BY <1>1, <1>3, <2>1, FoundLasts
<1>5. ASSUME NEW eps \in EndpointLists, OneScope(eps),
             r \in get_relation_between_endpoints(t2, eps),
             NEW q \in get_relation_between_endpoints(t2, eps), q # r
      PROVE  FALSE
  <2>1. q \in get_relation_between_endpoints(t, eps) /\ q \in RelationId
    BY <1>4, <1>5
  <2>2. t.relations[q] # None
    BY <2>1 DEF get_relation_between_endpoints, has_relation
  <2>3. PICK eps1, servs1 : MadeOf(t, q, eps1, servs1)
    BY <2>1, <2>2 DEF RelationsMade
  <2>4. /\ \A i \in DOMAIN eps1 : \E j \in DOMAIN eps : eps1[i] = eps[j]
        /\ \A j \in DOMAIN eps : \E i \in DOMAIN eps1 : eps1[i] = eps[j]
    BY <2>1, <2>3, FoundAsMade
  <2>5. \A i \in DOMAIN eps0 : \E j \in DOMAIN eps : eps0[i] = eps[j]
    BY <1>2, <1>3, <1>5, FoundAsMade
  <2>6. ASSUME NEW i \in DOMAIN eps0,
               NEW s, s = find_service_with_name(t, eps0[i].service_name)
        PROVE  /\ s # None /\ relation_has_service(t, q, s)
               /\ t.relations[q].services[s].name = eps0[i].relation_name
               /\ t.relations[q].scope = eps0[i].relation_scope
    <3>1. PICK k \in DOMAIN eps1 : eps1[k] = eps0[i]
      BY <2>4, <2>5
    <3>2. /\ servs1[k] \in ServiceId /\ t.services[servs1[k]] = eps0[i].service_name
          /\ t.relations[q].services[servs1[k]] # None
          /\ t.relations[q].services[servs1[k]].name = eps0[i].relation_name
      BY <2>3, <3>1 DEF MadeOf
    <3>3. relation_has_service(t, q, servs1[k]) /\ t.services[servs1[k]] # None
      BY <2>1, <2>2, <3>2 DEF relation_has_service
    <3>4. s = servs1[k] /\ s # None
      BY <2>6, <3>2, <3>3, FoundByName, NoneAssumption
    <3>5. \A l \in DOMAIN eps1 : eps1[l].relation_scope = eps0[i].relation_scope
      BY <1>5, <2>4, <3>1 DEF OneScope
    <3>6. relation_scope(eps1) = eps0[i].relation_scope
      <4>1. eps1 \in EndpointLists
        BY <2>3 DEF MadeOf
      <4>2. eps1[k] \in RelationEndpoint
        BY <4>1, EndpointsOfList, EndpointAssumption
      <4>3. eps0[i].relation_scope \in {"global", "container"}
        BY <3>1, <4>2 DEF RelationEndpoint, Scope
      <4> QED BY <3>1, <3>5, <4>3 DEF relation_scope
    <3> QED BY <2>3, <3>2, <3>3, <3>4, <3>6 DEF MadeOf
  <2>7. joins_endpoints(t, q, eps0)
    BY <2>2, <2>6 DEF joins_endpoints, has_relation
  <2> QED BY <1>1, <2>1, <2>7 DEF has_relation_between_endpoints
<1>6. NoneTwice(t2)
  <2> SUFFICES ASSUME NEW eps \in EndpointLists, OneScope(eps),
                      NEW r1 \in get_relation_between_endpoints(t2, eps),
                      NEW r2 \in get_relation_between_endpoints(t2, eps)
               PROVE  r1 = r2
    BY DEF NoneTwice
  <2>1. CASE r1 = r \/ r2 = r
    BY <1>5, <2>1
  <2>2. CASE r1 # r /\ r2 # r
    BY <1>4, <2>2 DEF NoneTwice
  <2> QED BY <2>1, <2>2
<1> QED BY <1>6

\* Every other step leaves the relations that stay as they are.
LEMMA NextLasts ==
    ASSUME Inv, [Next]_vars, ~AddRelationState
    PROVE  Lasting(topology, topology')
<1>1. topology \in TopologyType
  BY DEF Inv, TypeOK
<1>2. \A r \in RelationId, s \in ServiceId :
            relation_has_service(topology, r, s) => topology.services[s] # None
  BY DEF Inv, ReferencedServicesExist, has_service
<1>3. CASE AddServiceState
  <2>1. PICK s \in ServiceId, n \in ServiceName :
            topology' \in add_service(topology, s, n)
    BY <1>3 DEF AddServiceState, Apply, add_service_change
  <2>2. /\ ~has_service(topology, s)
        /\ topology'.services = [topology.services EXCEPT ![s] = n]
        /\ topology'.relations = topology.relations
    BY <1>1, <2>1, AddServiceEffect
  <2>3. \A s2 \in ServiceId : topology.services[s2] # None =>
            topology'.services[s2] = topology.services[s2]
    BY <1>1, <2>2 DEF has_service, TopologyType
  <2> QED BY <1>2, <2>2, <2>3 DEF Lasting
<1>4. CASE RemoveServiceState
  <2>1. PICK s \in ServiceId : topology' \in remove_service(topology, s)
    BY <1>4 DEF RemoveServiceState, Apply
  <2>2. /\ get_relations_for_service(topology, s) = {}
        /\ topology'.services = [topology.services EXCEPT ![s] = None]
        /\ topology'.relations = topology.relations
    BY <1>1, <2>1, RemoveServiceEffect
  <2>3. \A s2 \in ServiceId \ {s} : topology'.services[s2] = topology.services[s2]
    BY <1>1, <2>2 DEF TopologyType
  <2> QED BY <2>2, <2>3 DEF Lasting, get_relations_for_service
<1>5. CASE \/ AddMachineState \/ RemoveMachineState \/ AddUnitState \/ RemoveUnitState
           \/ AssignToMachine \/ AssignToUnusedMachine \/ UnassignFromMachine
  <2>1. topology'.relations = topology.relations
    BY <1>5, RelationsUntouched
  <2>2. topology'.services = topology.services
    BY <1>5, ServicesUntouched
  <2> QED BY <2>1, <2>2 DEF Lasting
<1>6. CASE RemoveRelationState
  <2>1. PICK r \in RelationId : topology' \in remove_relation(topology, r)
    BY <1>6 DEF RemoveRelationState, Apply
  <2>2. /\ topology'.services = topology.services
        /\ topology'.relations = [topology.relations EXCEPT ![r] = None]
    BY <1>1, <2>1, RemoveRelationEffect
  <2>3. \A q \in RelationId : topology'.relations[q] \in {topology.relations[q], None}
    BY <1>1, <2>2 DEF TopologyType
  <2> QED BY <2>2, <2>3 DEF Lasting
<1>7. CASE UNCHANGED vars
  BY <1>7 DEF vars, Lasting
<1> QED BY <1>3, <1>4, <1>5, <1>6, <1>7 DEF Next

\* What the change function of add_relation_state is given: the services that
\* have the endpoints' names when it is called.
LEMMA AddRelationArguments ==
    ASSUME AddRelationState
    PROVE  \E r \in RelationId, eps \in EndpointLists :
                \E servs \in [DOMAIN eps -> ServiceId \cup {None}] :
                    /\ topology' \in add_relation_change(topology, r, eps, servs)
                    /\ \A i \in DOMAIN eps : servs[i] # None =>
                            topology.services[servs[i]] = eps[i].service_name
<1>1. PICK r \in RelationId, eps \in EndpointLists :
        topology' \in add_relation_change(topology, r, eps, [i \in DOMAIN eps |->
            find_service_with_name(topology, eps[i].service_name)])
  BY DEF AddRelationState, Apply
<1>2. PICK servs : servs = [i \in DOMAIN eps |->
            find_service_with_name(topology, eps[i].service_name)]
  OBVIOUS
<1>3. /\ servs \in [DOMAIN eps -> ServiceId \cup {None}]
      /\ \A i \in DOMAIN eps :
            servs[i] # None => topology.services[servs[i]] = eps[i].service_name
  BY <1>2 DEF find_service_with_name
<1> QED BY <1>1, <1>2, <1>3

\* The invariant of the relations: each is made of its endpoints.
MadeInv == Inv /\ RolesExclusive /\ RelationsMade(topology)

\* Every step keeps the relations made.
LEMMA MadeNext == ASSUME MadeInv, [Next]_vars PROVE MadeInv'
<1>1. (Inv /\ RolesExclusive)'
  BY NextInv DEF MadeInv
<1>2. topology \in TopologyType /\ RelationsMade(topology)
  BY DEF MadeInv, Inv, TypeOK
<1>3. CASE AddRelationState
  <2>1. PICK r \in RelationId, eps \in EndpointLists :
            \E servs \in [DOMAIN eps -> ServiceId \cup {None}] :
                /\ topology' \in add_relation_change(topology, r, eps, servs)
                /\ \A i \in DOMAIN eps : servs[i] # None =>
                        topology.services[servs[i]] = eps[i].service_name
    BY <1>3, AddRelationArguments
  <2>2. PICK servs \in [DOMAIN eps -> ServiceId \cup {None}] :
                /\ topology' \in add_relation_change(topology, r, eps, servs)
                /\ \A i \in DOMAIN eps : servs[i] # None =>
                        topology.services[servs[i]] = eps[i].service_name
    BY <2>1
  <2>3. \A s1, s2 \in ServiceId :
            relation_has_service(topology', r, s1) /\ relation_has_service(topology', r, s2) =>
                (topology'.relations[r].services[s1].role =
                    topology'.relations[r].services[s2].role => s1 = s2)
    BY <1>1 DEF RolesExclusive
  <2>4. RelationsMade(topology')
    BY <1>2, <2>2, <2>3, AddRelationMade
  <2> QED BY <1>1, <2>4 DEF MadeInv
<1>4. CASE ~AddRelationState
  <2>1. Lasting(topology, topology')
    BY <1>4, NextLasts DEF MadeInv
  <2>2. RelationsMade(topology')
    BY <1>2, <2>1, MadeLasts DEF RelationsMade, Lasting
  <2> QED BY <1>1, <2>2 DEF MadeInv
<1> QED BY <1>3, <1>4

\* Initially there are no relations.
LEMMA MadeInit == Init => MadeInv /\ NoneTwice(topology)
<1> SUFFICES ASSUME Init PROVE MadeInv /\ NoneTwice(topology)
  OBVIOUS
<1>1. \A r \in RelationId : topology.relations[r] = None
  BY DEF Init, InitialTopology
<1>2. RolesExclusive /\ RelationsMade(topology) /\ NoneTwice(topology)
  BY <1>1 DEF RolesExclusive, RelationsMade, NoneTwice, relation_has_service,
              get_relation_between_endpoints, has_relation
<1> QED BY <1>2, InitInv DEF MadeInv

\* Every step keeps the relations single.
LEMMA NoneTwiceNext ==
    ASSUME UniqueRelationNames, MadeInv, NoneTwice(topology), [Next]_vars
    PROVE  NoneTwice(topology')
<1>1. MadeInv'
  BY MadeNext
<1>2. /\ \A r \in RelationId, s \in ServiceId :
            relation_has_service(topology, r, s) => topology.services[s] # None
      /\ NamesUnique(topology) /\ topology \in TopologyType
      /\ RelationsMade(topology)
  BY DEF MadeInv, Inv, TypeOK, ReferencedServicesExist, ServiceNamesUnique, has_service,
         NamesUnique
<1>3. NamesUnique(topology')
  BY <1>1 DEF MadeInv, Inv, ServiceNamesUnique, has_service, NamesUnique
<1>4. CASE ~AddRelationState
  <2>1. Lasting(topology, topology')
    BY <1>4, NextLasts DEF MadeInv
  <2> QED BY <1>2, <1>3, <2>1, LastingKeeps
<1>5. CASE AddRelationState
  <2>1. PICK r \in RelationId, eps \in EndpointLists :
            \E servs \in [DOMAIN eps -> ServiceId \cup {None}] :
                /\ topology' \in add_relation_change(topology, r, eps, servs)
                /\ \A i \in DOMAIN eps : servs[i] # None =>
                        topology.services[servs[i]] = eps[i].service_name
    BY <1>5, AddRelationArguments
  <2>2. PICK servs \in [DOMAIN eps -> ServiceId \cup {None}] :
                /\ topology' \in add_relation_change(topology, r, eps, servs)
                /\ \A i \in DOMAIN eps : servs[i] # None =>
                        topology.services[servs[i]] = eps[i].service_name
    BY <2>1
  <2>3. \A s1, s2 \in ServiceId :
            relation_has_service(topology', r, s1) /\ relation_has_service(topology', r, s2) =>
                (topology'.relations[r].services[s1].role =
                    topology'.relations[r].services[s2].role => s1 = s2)
    BY <1>1 DEF MadeInv, RolesExclusive
  <2> QED BY <1>2, <2>2, <2>3, AddRelationKeeps
<1> QED BY <1>4, <1>5

\* Whoever adds relations at the same time, no two join the same endpoints of
\* one scope, as long as the charms use a name for one relation.
THEOREM NoRelationTwice ==
    ASSUME UniqueRelationNames
    PROVE  Spec => []NoDuplicateRelations
<1>1. MadeInv /\ NoneTwice(topology) /\ [Next]_vars => (MadeInv /\ NoneTwice(topology))'
  BY MadeNext, NoneTwiceNext
<1>2. NoneTwice(topology) => NoDuplicateRelations
  BY DEF NoneTwice, OneScope, NoDuplicateRelations
<1> QED BY <1>1, <1>2, MadeInit, PTL DEF Spec
-----------------------------------------------------------------------------
(* How a user names a relation *)

\* A descriptor that names the relation of an endpoint matches that endpoint,
\* and the implicit one of its service.
LEMMA NamedMatches ==
    ASSUME UniqueRelationNames, NEW e \in Endpoint
    PROVE  get_relation_endpoints(named(e)) = {e, implicit_endpoint(e.service_name)}
<1>1. e.relation_name # None
  BY RankAssumption, EndpointAssumption DEF RelationEndpoint
<1>2. named(e).service_name = e.service_name /\ named(e).relation_name = e.relation_name
  BY DEF named
<1>3. \A x \in Endpoint : x = e <=> /\ x.service_name = named(e).service_name
                                   /\ named(e).relation_name \in {None, x.relation_name}
  BY <1>1, <1>2 DEF UniqueRelationNames
<1> QED BY <1>2, <1>3 DEF get_relation_endpoints

\* Of two endpoints that may relate, either end of the pair is the only one
\* that the other may relate to among those its descriptor matches: whoever
\* relates to an implicit endpoint is a client of the reserved interface.
LEMMA NamedJoin ==
    ASSUME UniqueRelationNames, ImplicitReserved, NEW e1 \in Endpoint, NEW e2 \in Endpoint,
           may_relate_to(e1, e2)
    PROVE  join_descriptors(named(e1), named(e2)) = {<<e1, e2>>}
<1> DEFINE i1 == implicit_endpoint(e1.service_name)
           i2 == implicit_endpoint(e2.service_name)
<1>1. /\ get_relation_endpoints(named(e1)) = {e1, i1}
      /\ get_relation_endpoints(named(e2)) = {e2, i2}
  BY NamedMatches
<1>2. /\ i1.relation_role = "server" /\ i2.relation_role = "server"
      /\ i1.relation_type = Implicit /\ i2.relation_type = Implicit
  BY DEF implicit_endpoint
<1>3. ~may_relate_to(i1, i2)
  BY <1>2 DEF may_relate_to
<1>4. may_relate_to(i1, e2) => e1 = i1
  BY <1>2 DEF may_relate_to, ImplicitReserved
<1>5. may_relate_to(e1, i2) => e2 = i2
  BY <1>2 DEF may_relate_to, ImplicitReserved
<1> HIDE DEF i1, i2
<1>6. ASSUME NEW x \in {e1, i1}, NEW y \in {e2, i2}, may_relate_to(x, y)
      PROVE  x = e1 /\ y = e2
  BY <1>3, <1>4, <1>5, <1>6
<1>7. \A p \in {e1, i1} \X {e2, i2} : may_relate_to(p[1], p[2]) => p = <<e1, e2>>
  BY <1>6
<1>8. <<e1, e2>> \in {e1, i1} \X {e2, i2} /\ may_relate_to(<<e1, e2>>[1], <<e1, e2>>[2])
  OBVIOUS
<1> QED BY <1>1, <1>7, <1>8 DEF join_descriptors

\* The endpoints of a list may relate, a peer to itself, and their pair stands
\* for the list.
LEMMA ListAsPair ==
    ASSUME NEW eps \in EndpointLists
    PROVE  /\ eps[1] \in Endpoint /\ eps[Len(eps)] \in Endpoint
           /\ may_relate_to(eps[1], eps[Len(eps)])
           /\ as_arguments(<<eps[1], eps[Len(eps)]>>) = eps
<1>1. CASE eps \in {<<e>> : e \in {p \in Endpoint : p.relation_role = "peer"}}
  <2>1. PICK e \in Endpoint : eps = <<e>> /\ e.relation_role = "peer"
    BY <1>1
  <2>2. Len(eps) = 1 /\ eps[1] = e
    BY <2>1
  <2> QED BY <2>1, <2>2 DEF may_relate_to, as_arguments
<1>2. CASE eps \in {<<p[1], p[2]>> : p \in {q \in Endpoint \X Endpoint :
                             q[1] # q[2] /\ may_relate_to(q[1], q[2])}}
  <2>1. PICK p \in Endpoint \X Endpoint :
          p[1] # p[2] /\ may_relate_to(p[1], p[2]) /\ eps = <<p[1], p[2]>>
    BY <1>2
  <2>2. Len(eps) = 2 /\ eps[1] = p[1] /\ eps[2] = p[2]
    BY <2>1
  <2> QED BY <2>1, <2>2 DEF as_arguments
<1> QED BY <1>1, <1>2 DEF EndpointLists

\* Descriptors that name both ends of a relation are never ambiguous: neither
\* add-relation nor remove-relation takes another relation for it, as long as
\* a charm uses a name for one relation and provides nothing in the implicit
\* namespace.
THEOREM EndpointsByName ==
    ASSUME UniqueRelationNames, ImplicitReserved
    PROVE  Spec => []RelationsCanBeNamed
<1>1. RelationsCanBeNamed
  <2> SUFFICES ASSUME NEW eps \in EndpointLists,
                      NEW d1, d1 = named(eps[1]), NEW d2, d2 = named(eps[Len(eps)])
               PROVE  /\ add_relation_arguments(d1, d2) = {eps}
                      /\ known(topology, d1) /\ known(topology, d2) =>
                            get_relation_state(topology, d1, d2) =
                                get_relation_between_endpoints(topology, eps)
    BY DEF RelationsCanBeNamed
  <2>1. PICK p : p = <<eps[1], eps[Len(eps)]>>
    OBVIOUS
  <2>2. join_descriptors(d1, d2) = {p} /\ as_arguments(p) = eps
    BY <2>1, ListAsPair, NamedJoin
  <2>3. add_relation_arguments(d1, d2) = {eps}
    BY <2>2 DEF add_relation_arguments
  <2>4. Cardinality({p}) = 1
    BY FS_Singleton
  <2>5. ASSUME known(topology, d1), known(topology, d2)
        PROVE  get_relation_state(topology, d1, d2) =
                    get_relation_between_endpoints(topology, eps)
    <3>1. get_relation_state(topology, d1, d2) =
            UNION {get_relation_between_endpoints(topology, as_arguments(q)) : q \in {p}}
      BY <2>2, <2>4, <2>5 DEF get_relation_state
    <3>2. {get_relation_between_endpoints(topology, as_arguments(q)) : q \in {p}} =
            {get_relation_between_endpoints(topology, eps)}
      BY <2>2
    <3> QED BY <3>1, <3>2
  <2> QED BY <2>3, <2>5
<1> QED BY <1>1, PTL
-----------------------------------------------------------------------------
(* What containers hold *)

\* A unit has a container if and only if its service is subordinate, and what
\* holds a unit was issued and is, while it is there, in no container itself.
ContainersSound ==
    /\ \A u \in UnitId : topology.units[u] # None =>
        (topology.units[u].container = None
            <=> topology.services[topology.units[u].service] \notin Subordinate)
    /\ \A u, c \in UnitId : topology.units[u] # None /\ topology.units[u].container = c =>
        /\ \E i \in issued : i.unit = c
        /\ topology.units[c] # None => topology.units[c].container = None

\* The units and services of t2 are units and services of t, with the same
\* service, container and name.
UnitsLast(t, t2) == \A u \in UnitId : t2.units[u] # None =>
    /\ t.units[u] # None
    /\ t2.units[u].service = t.units[u].service
    /\ t2.units[u].container = t.units[u].container
    /\ t2.services[t.units[u].service] = t.services[t.units[u].service]

\* Setting the machine of a unit changes nothing else of it.
LEMMA MachineChangeLasts ==
    ASSUME NEW t \in TopologyType, NEW t2, NEW u \in UnitId, NEW m, t.units[u] # None,
           t2.services = t.services,
           t2.units = [t.units EXCEPT ![u] = [t.units[u] EXCEPT !.machine = m]]
    PROVE  UnitsLast(t, t2)
<1>1. t.units \in [UnitId -> Unit \cup {None}] /\ t.units[u] \in Unit
  BY DEF TopologyType
<1>2. /\ t2.units[u] = [t.units[u] EXCEPT !.machine = m]
      /\ \A v \in UnitId \ {u} : t2.units[v] = t.units[v]
  BY <1>1
<1>3. t2.units[u].service = t.units[u].service /\ t2.units[u].container = t.units[u].container
  BY <1>1, <1>2 DEF Unit
<1> QED BY <1>2, <1>3 DEF UnitsLast

\* Only add_unit_state adds units, and no step moves one or renames its service.
LEMMA NextUnitsLast ==
    ASSUME Inv, [Next]_vars, ~AddUnitState
    PROVE  UnitsLast(topology, topology')
<1>1. topology \in TopologyType
  BY DEF Inv, TypeOK
<1>2. ASSUME topology'.services = topology.services, topology'.units = topology.units
      PROVE  UnitsLast(topology, topology')
  BY <1>2 DEF UnitsLast
<1>3. CASE AddMachineState
  BY <1>1, <1>2, <1>3, AddMachineEffect DEF AddMachineState, Apply
<1>4. CASE RemoveMachineState
  BY <1>1, <1>2, <1>4, RemoveMachineEffect
     DEF RemoveMachineState, Apply, remove_machine_change
<1>5. CASE AddServiceState
  <2>1. PICK s \in ServiceId, n \in ServiceName :
            topology' \in add_service(topology, s, n)
    BY <1>5 DEF AddServiceState, Apply, add_service_change
  <2>2. /\ ~has_service(topology, s)
        /\ topology'.services = [topology.services EXCEPT ![s] = n]
        /\ topology'.units = topology.units
    BY <1>1, <2>1, AddServiceEffect
  <2>3. \A s2 \in ServiceId : has_service(topology, s2) =>
            topology'.services[s2] = topology.services[s2]
    BY <1>1, <2>2 DEF has_service, TopologyType
  <2>4. \A u \in UnitId : topology.units[u] # None =>
            /\ topology.units[u].service \in ServiceId
            /\ has_service(topology, topology.units[u].service)
    BY DEF Inv, ReferencedServicesExist, has_service
  <2> QED BY <2>2, <2>3, <2>4 DEF UnitsLast
<1>6. CASE RemoveServiceState
  <2>1. PICK s \in ServiceId : topology' \in remove_service(topology, s)
    BY <1>6 DEF RemoveServiceState, Apply
  <2>2. /\ has_service(topology, s)
        /\ topology'.services = [topology.services EXCEPT ![s] = None]
        /\ topology'.units = [u \in UnitId |-> IF has_service_unit(topology, s, u) THEN None
                                                                       ELSE topology.units[u]]
    BY <1>1, <2>1, RemoveServiceEffect
  <2>3. \A u \in UnitId : topology'.units[u] # None =>
            /\ topology'.units[u] = topology.units[u] /\ topology.units[u] # None
            /\ topology.units[u].service \in ServiceId \ {s}
    BY <2>2 DEF has_service_unit, Inv, ReferencedServicesExist, has_service
  <2>4. \A s2 \in ServiceId \ {s} : topology'.services[s2] = topology.services[s2]
    BY <1>1, <2>2 DEF TopologyType
  <2> QED BY <2>3, <2>4 DEF UnitsLast
<1>7. CASE RemoveUnitState
  <2>1. PICK s \in ServiceId, u \in UnitId : topology' \in remove_service_unit(topology, s, u)
    BY <1>7 DEF RemoveUnitState, Apply
  <2>2. /\ topology'.services = topology.services
        /\ topology'.units = [topology.units EXCEPT ![u] = None]
    BY <1>1, <2>1, RemoveUnitEffect
  <2>3. \A v \in UnitId : topology'.units[v] # None =>
            topology'.units[v] = topology.units[v]
    BY <1>1, <2>2 DEF TopologyType
  <2> QED BY <2>2, <2>3 DEF UnitsLast
<1>8. ASSUME NEW s \in ServiceId, NEW u \in UnitId, NEW m \in MachineId,
             topology' \in assign_service_unit_to_machine(topology, s, u, m)
      PROVE  UnitsLast(topology, topology')
  <2>1. /\ has_service_unit(topology, s, u)
        /\ topology'.services = topology.services
        /\ topology'.units =
                [topology.units EXCEPT ![u] = [topology.units[u] EXCEPT !.machine = m]]
    BY <1>1, <1>8, AssignEffect
  <2> QED BY <1>1, <2>1, MachineChangeLasts DEF has_service_unit
<1>9. CASE AssignToMachine
  <2>1. PICK s \in ServiceId, u \in UnitId, m \in MachineId :
            topology' \in assign_unit(topology, s, u, m)
    BY <1>9 DEF AssignToMachine, Apply
  <2> QED BY <1>2, <1>8, <2>1 DEF assign_unit, Unless_raised
<1>10. CASE AssignToUnusedMachine
  BY <1>1, <1>8, <1>10 DEF AssignToUnusedMachine, Apply, assign_unused_unit,
                           unused_machines, TopologyType
<1>11. CASE UnassignFromMachine
  <2>1. PICK s \in ServiceId, u \in UnitId : topology' \in unassign_unit(topology, s, u)
    BY <1>11 DEF UnassignFromMachine, Apply
  <2>2. CASE topology' = topology
    BY <1>2, <2>2
  <2>3. CASE topology' \in unassign_service_unit_from_machine(topology, s, u)
    <3>1. /\ has_service_unit(topology, s, u)
          /\ topology'.services = topology.services
          /\ topology'.units =
                [topology.units EXCEPT ![u] = [topology.units[u] EXCEPT !.machine = None]]
      BY <1>1, <2>3, UnassignEffect
    <3> QED BY <1>1, <3>1, MachineChangeLasts DEF has_service_unit
  <2> QED BY <2>1, <2>2, <2>3 DEF unassign_unit
<1>12. CASE AddRelationState
  <2>1. PICK r \in RelationId, eps \in EndpointLists :
            \E servs \in [DOMAIN eps -> ServiceId \cup {None}] :
                topology' \in add_relation_change(topology, r, eps, servs)
    BY <1>12, AddRelationArguments
  <2> QED BY <1>1, <1>2, <2>1, AddRelationChangeEffect
<1>13. CASE RemoveRelationState
  <2>1. PICK r \in RelationId : topology' \in remove_relation(topology, r)
    BY <1>13 DEF RemoveRelationState, Apply
  <2> QED BY <1>1, <1>2, <2>1, RemoveRelationEffect
<1>14. CASE UNCHANGED vars
  BY <1>2, <1>14 DEF vars
<1> QED BY <1>3, <1>4, <1>5, <1>6, <1>7, <1>9, <1>10, <1>11, <1>12, <1>13, <1>14 DEF Next

\* add_unit_state puts a unit in a container only if its service is
\* subordinate, and then into a unit that is not.
LEMMA AddUnitContained ==
    ASSUME Inv, ContainersSound, AddUnitState
    PROVE  ContainersSound'
<1> SUFFICES ASSUME NEW s \in ServiceId, NEW u \in UnitId, NEW c \in UnitId \cup {None},
                    \A i \in issued : i.unit # u,
                    IF c = None THEN topology.services[s] \notin Subordinate
                                ELSE _validate_principal_container(topology, s, c),
                    NEW t \in add_service_unit(topology, s, u, c),
                    topology' = t, issued \subseteq issued'
             PROVE  ContainersSound'
  BY DEF AddUnitState, Apply
<1> DEFINE name == topology.services[s]
           unit == [service |-> s, sequence |-> topology.unit_sequence[name],
                    container |-> c, machine |-> None]
<1>1. topology \in TopologyType /\ topology.units \in [UnitId -> Unit \cup {None}]
  BY DEF Inv, TypeOK, TopologyType
<1>2. /\ t \in TopologyType
      /\ has_service(topology, s) /\ topology.units[u] = None
      /\ t.machines = topology.machines
      /\ t.services = topology.services
      /\ t.units = [topology.units EXCEPT ![u] = unit]
      /\ t.unit_sequence = [topology.unit_sequence EXCEPT ![name] = @ + 1]
      /\ t.relations = topology.relations
  BY <1>1, AddUnitEffect
<1>3. unit.service = s /\ unit.container = c
  OBVIOUS
<1> HIDE DEF unit
<1>4. topology'.services = topology.services /\ topology.units[u] = None
  BY <1>2
<1>5. /\ topology'.units[u] = unit /\ unit.service = s /\ unit.container = c
      /\ \A v \in UnitId \ {u} : topology'.units[v] = topology.units[v]
  BY <1>1, <1>2, <1>3
<1>6. \A v \in UnitId : topology.units[v] # None => \E i \in issued : i.unit = v
  <2> SUFFICES ASSUME NEW v \in UnitId, topology.units[v] # None
               PROVE  \E i \in issued : i.unit = v
    OBVIOUS
  <2> DEFINE entry == [unit |-> v, name |-> get_service_unit_name(topology, v)]
  <2>1. entry \in issued
    BY DEF Inv, UnitNamesKept
  <2>2. entry.unit = v
    OBVIOUS
  <2> QED BY <2>1, <2>2
<1>7. c # None => /\ c \in UnitId \ {u} /\ topology.units[c] # None
                  /\ topology.units[c].container = None
                  /\ topology.services[s] \in Subordinate
  BY <1>4 DEF _validate_principal_container, ContainersSound
<1>8. ASSUME NEW v \in UnitId, topology'.units[v] # None
      PROVE  topology'.units[v].container = None
                <=> topology'.services[topology'.units[v].service] \notin Subordinate
  <2>1. CASE v = u
    BY <1>4, <1>5, <1>7, <2>1
  <2>2. CASE v # u
    BY <1>4, <1>5, <1>8, <2>2 DEF ContainersSound
  <2> QED BY <2>1, <2>2
<1>9. ASSUME NEW v \in UnitId, NEW k \in UnitId,
             topology'.units[v] # None, topology'.units[v].container = k
      PROVE  /\ \E i \in issued' : i.unit = k
             /\ topology'.units[k] # None => topology'.units[k].container = None
  <2>1. CASE v = u
    <3>1. k = c /\ k # None
      BY <1>5, <1>9, <2>1, NoneAssumption
    <3>2. topology'.units[k] = topology.units[k] /\ topology.units[k].container = None
      BY <1>5, <1>7, <3>1
    <3> QED BY <1>6, <1>7, <3>1, <3>2
  <2>2. CASE v # u
    <3>1. /\ \E i \in issued : i.unit = k
          /\ topology.units[k] # None => topology.units[k].container = None
      BY <1>5, <1>9, <2>2 DEF ContainersSound
    <3>2. k # u
      BY <3>1
    <3> QED BY <1>5, <3>1, <3>2
  <2> QED BY <2>1, <2>2
<1> QED BY <1>8, <1>9 DEF ContainersSound

\* Every step keeps the containers sound.
LEMMA ContainersNext ==
    ASSUME Inv, ContainersSound, [Next]_vars
    PROVE  ContainersSound'
<1>1. CASE AddUnitState
  BY <1>1, AddUnitContained
<1>2. CASE ~AddUnitState
  <2>1. UnitsLast(topology, topology')
    BY <1>2, NextUnitsLast
  <2>2. issued \subseteq issued'
    BY DEF Next, vars, AddMachineState, RemoveMachineState, AddServiceState,
           RemoveServiceState, AddUnitState, RemoveUnitState, AssignToMachine,
           AssignToUnusedMachine, UnassignFromMachine, AddRelationState,
           RemoveRelationState, Apply
  <2> QED BY <2>1, <2>2 DEF UnitsLast, ContainersSound
<1> QED BY <1>1, <1>2
-----------------------------------------------------------------------------
(* What juju status makes of a topology *)

\* What a report relies on: references to services and machines hold, a
\* relation is made of one or two services, and containers are in no container.
Readable(t) ==
    /\ t \in TopologyType
    /\ RelationsMade(t)
    /\ \A u \in UnitId : t.units[u] # None =>
        /\ t.units[u].service \in ServiceId /\ has_service(t, t.units[u].service)
        /\ t.units[u].machine \in t.machines \cup {None}
        /\ t.units[u].container = None <=>
                t.services[t.units[u].service] \notin Subordinate
    /\ \A u, c \in UnitId :
        t.units[u] # None /\ t.units[u].container = c /\ t.units[c] # None
            => t.units[c].container = None

\* The invariants make every topology readable.
LEMMA AlwaysReadable == MadeInv /\ ContainersSound => Readable(topology)
<1> SUFFICES ASSUME MadeInv, ContainersSound PROVE Readable(topology)
  OBVIOUS
<1>1. topology \in TopologyType /\ RelationsMade(topology)
  BY DEF MadeInv, Inv, TypeOK
<1>2. ASSUME NEW u \in UnitId, topology.units[u] # None
      PROVE  /\ topology.units[u].service \in ServiceId
             /\ has_service(topology, topology.units[u].service)
             /\ topology.units[u].machine \in topology.machines \cup {None}
  BY <1>2 DEF MadeInv, Inv, ReferencedServicesExist, AssignedMachinesExist, has_service
<1> QED BY <1>1, <1>2 DEF Readable, ContainersSound

\* The service at the other end of a relation is one service.
LEMMA OneAtTheOtherEnd ==
    ASSUME NEW t, RelationsMade(t), NEW s \in ServiceId,
           NEW r \in get_relations_for_service(t, s)
    PROVE  Cardinality(rel_services(t, s, r)) = 1
<1>1. r \in RelationId /\ t.relations[r] # None /\ t.relations[r].services[s] # None
  BY DEF get_relations_for_service, relation_has_service
<1>2. PICK eps, servs : MadeOf(t, r, eps, servs)
  BY <1>1 DEF RelationsMade
<1>3. PICK all : all = get_service_states(t, r)
  OBVIOUS
<1>4. \A x : x \in all <=> \E i \in DOMAIN eps : x = servs[i]
  BY <1>1, <1>2, <1>3 DEF MadeOf, get_service_states, relation_has_service
<1>5. s \in all
  BY <1>1, <1>3 DEF get_service_states, relation_has_service
<1>6. DOMAIN eps = {1} \/ DOMAIN eps = {1, 2}
  BY <1>2, EndpointsOfList DEF MadeOf
<1>7. \/ all = {s}
      \/ \E other : other # s /\ all = {s, other}
  <2>1. CASE DOMAIN eps = {1}
    <3>1. all = {servs[1]}
      BY <1>4, <2>1
    <3> QED BY <1>5, <3>1
  <2>2. CASE DOMAIN eps = {1, 2}
    <3>1. all = {servs[1], servs[2]}
      BY <1>4, <2>2
    <3> QED BY <1>5, <3>1
  <2> QED BY <1>6, <2>1, <2>2
<1>8. CASE all = {s}
  <2>1. Cardinality(all) = 1
    BY <1>8, FS_Singleton
  <2>2. rel_services(t, s, r) = all
    BY <1>3, <2>1 DEF rel_services
  <2> QED BY <2>1, <2>2
<1>9. ASSUME NEW other, other # s, all = {s, other}
      PROVE  Cardinality(rel_services(t, s, r)) = 1
  <2>1. IsFiniteSet({s}) /\ Cardinality({s}) = 1
    BY FS_Singleton
  <2>2. Cardinality({s} \cup {other}) = Cardinality({s}) + 1
    <3>1. other \notin {s}
      BY <1>9
    <3>2. Cardinality({s} \cup {other}) =
            IF other \in {s} THEN Cardinality({s}) ELSE Cardinality({s}) + 1
      BY <2>1, FS_AddElement
    <3> QED BY <3>1, <3>2
  <2>3. {s} \cup {other} = all /\ all \ {s} = {other}
    BY <1>9
  <2>4. rel_services(t, s, r) = {other}
    BY <1>3, <2>1, <2>2, <2>3 DEF rel_services
  <2> QED BY <2>4, FS_Singleton
<1> QED BY <1>7, <1>8, <1>9

\* The machine of a unit, one level of containers deep.
LEMMA AssignedMachine ==
    ASSUME NEW t, Readable(t), NEW u \in UnitId, t.units[u] # None
    PROVE  get_assigned_machine_id(t, u) =
             IF t.units[u].machine # None THEN t.units[u].machine
             ELSE IF get_container(t, u) # None THEN t.units[get_container(t, u)].machine
             ELSE None
<1> DEFINE Live == {w \in UnitId : t.units[w] # None}
           F(f) == [v \in Live |->
                        IF t.units[v].machine # None THEN t.units[v].machine
                        ELSE IF get_container(t, v) # None THEN f[get_container(t, v)]
                        ELSE None]
           G == [v \in Live |->
                    IF t.units[v].machine # None THEN t.units[v].machine
                    ELSE IF get_container(t, v) # None THEN t.units[get_container(t, v)].machine
                    ELSE None]
<1>1. ASSUME NEW v \in Live, get_container(t, v) # None
      PROVE  get_container(t, v) \in Live /\ get_container(t, get_container(t, v)) = None
  <2>1. t.units[v].container \in UnitId \cup {None}
    BY DEF Readable, TopologyType, Unit
  <2>2. get_container(t, v) \in Live /\ t.units[v].container = get_container(t, v)
    BY <1>1, <2>1 DEF get_container, get_service_unit_principal
  <2>3. t.units[get_container(t, v)].container = None
    BY <2>2 DEF Readable
  <2> QED BY <2>2, <2>3 DEF get_container, get_service_unit_principal
<1>2. G = F(G)
  <2>1. ASSUME NEW v \in Live, get_container(t, v) # None
        PROVE  G[get_container(t, v)] = t.units[get_container(t, v)].machine
    BY <1>1, <2>1
  <2> QED BY <2>1
<1>3. PICK machine : machine = CHOOSE f : f = F(f)
  OBVIOUS
<1>4. machine = F(machine)
  BY <1>2, <1>3
<1>5. get_assigned_machine_id(t, u) = machine[u]
  BY <1>3 DEF get_assigned_machine_id
<1>6. \A v \in Live : machine[v] =
            IF t.units[v].machine # None THEN t.units[v].machine
            ELSE IF get_container(t, v) # None THEN machine[get_container(t, v)]
            ELSE None
  BY <1>4
<1>7. get_container(t, u) # None =>
        machine[get_container(t, u)] = t.units[get_container(t, u)].machine
  BY <1>1, <1>6
<1> QED BY <1>5, <1>6, <1>7

\* The units within a scope.
Inside(t, scope) ==
    {u \in UnitId : /\ t.units[u] # None
                    /\ Matches(scope.units, u)
                    /\ Matches(scope.services, t.services[t.units[u].service])}

\* The container of a unit, where it has one that is there, is a unit.
LEMMA ContainerThere ==
    ASSUME NEW t, Readable(t), NEW u \in UnitId, t.units[u] # None
    PROVE  /\ get_container(t, u) \in UnitId \cup {None}
           /\ get_container(t, u) # None =>
                /\ t.units[get_container(t, u)] # None
                /\ t.units[u].container = get_container(t, u)
<1>1. t.units[u].container \in UnitId \cup {None}
  BY DEF Readable, TopologyType, Unit
<1> QED BY <1>1 DEF get_container, get_service_unit_principal

\* The machine of a unit is in the topology, or it has none.
LEMMA AssignedMachineThere ==
    ASSUME NEW t, Readable(t), NEW u \in UnitId, t.units[u] # None
    PROVE  get_assigned_machine_id(t, u) \in t.machines \cup {None}
<1>1. ASSUME NEW v \in UnitId, t.units[v] # None
      PROVE  t.units[v].machine \in t.machines \cup {None}
  BY <1>1 DEF Readable
<1> QED BY <1>1, AssignedMachine, ContainerThere

\* Pass 1 gathers the units within the scope.
LEMMA UnitsGathered ==
    ASSUME NEW t, Readable(t), NEW scope
    PROVE  unit_data(t, scope) = Inside(t, scope)
<1>1. ASSUME NEW s \in _process_services(t, scope), NEW u \in _process_units(t, scope, s)
      PROVE  u \in Inside(t, scope)
  BY DEF _process_services, _process_units, get_service_units, has_service_unit, Inside
<1>2. ASSUME NEW u \in Inside(t, scope)
      PROVE  \E s \in _process_services(t, scope) : u \in _process_units(t, scope, s)
  <2>1. u \in UnitId /\ t.units[u] # None
    BY DEF Inside
  <2>2. t.units[u].service \in ServiceId /\ has_service(t, t.units[u].service)
    BY <2>1 DEF Readable
  <2>3. t.units[u].service \in _process_services(t, scope)
    BY <2>2 DEF _process_services, get_all_service_states, Inside
  <2>4. u \in _process_units(t, scope, t.units[u].service)
    BY <2>1, <2>2 DEF _process_units, get_service_units, has_service_unit, Inside
  <2> QED BY <2>3, <2>4
<1> QED BY <1>1, <1>2 DEF unit_data

\* Pass 1 never fails, and pass 2 only for a unit whose container is there but
\* not within the scope.
LEMMA RaisesOutside ==
    ASSUME NEW t, Readable(t), NEW scope
    PROVE  status_raises(t, scope) <=>
             \E u \in Inside(t, scope) :
                get_container(t, u) \notin Inside(t, scope) \cup {None}
<1>1. ASSUME NEW s \in _process_services(t, scope) PROVE ~_process_relation_map_raises(t, s)
  <2>1. s \in ServiceId
    BY DEF _process_services, get_all_service_states
  <2> QED BY <2>1, OneAtTheOtherEnd DEF _process_relation_map_raises, Readable
<1> QED BY <1>1, UnitsGathered DEF status_raises, _process_subordinates_raises

\* What the fields of a report hold.
LEMMA ReportFields ==
    ASSUME NEW t, NEW scope, NEW report, report = status(t, scope)
    PROVE  /\ DOMAIN report.services = service_data(t, scope)
           /\ DOMAIN report.units = unit_data(t, scope)
           /\ report.machines = _process_machines(t, scope)
           /\ \A s \in service_data(t, scope) :
                report.services[s].units = top_units(t, scope, s)
           /\ \A u \in unit_data(t, scope) : report.units[u] = nested_units(t, scope, u)
BY DEF status

\* Without a scope everything is within it.
LEMMA WholeReport ==
    ASSUME NEW t, Readable(t), NEW report, report = status(t, Everything)
    PROVE  /\ unit_data(t, Everything) = {u \in UnitId : t.units[u] # None}
           /\ DOMAIN report.units = {u \in UnitId : t.units[u] # None}
           /\ DOMAIN report.services = {s \in ServiceId : has_service(t, s)}
           /\ report.machines = t.machines
<1>1. \A x : Matches(Everything.units, x) /\ Matches(Everything.services, x)
  BY DEF Matches, Everything
<1>2. unit_data(t, Everything) = {u \in UnitId : t.units[u] # None}
  BY <1>1, UnitsGathered DEF Inside
<1>3. service_data(t, Everything) = {s \in ServiceId : has_service(t, s)}
  BY <1>1 DEF service_data, _process_services, _process_service, get_all_service_states,
              Everything
<1>4. _process_machines(t, Everything) = t.machines
  BY DEF _process_machines
<1> QED BY <1>2, <1>3, <1>4, ReportFields

\* A unit in a container that is there is shown under it and nowhere else.
LEMMA PlacesOfContained ==
    ASSUME NEW t, Readable(t), NEW report, report = status(t, Everything),
           NEW u \in UnitId, t.units[u] # None, get_container(t, u) # None
    PROVE  Places(report, u) = {<<get_container(t, u)>>}
<1> DEFINE c == get_container(t, u)
           Live == {v \in UnitId : t.units[v] # None}
<1>1. c \in Live
  BY ContainerThere
<1>2. DOMAIN report.units = Live /\ unit_data(t, Everything) = Live
  BY WholeReport
<1>3. \A v \in Live : u \in report.units[v] <=> v = c
  BY <1>2, ReportFields DEF nested_units
<1>4. ASSUME NEW s \in DOMAIN report.services PROVE u \notin report.services[s].units
  <2>1. report.services[s].units = top_units(t, Everything, s)
    BY ReportFields
  <2> QED BY <2>1 DEF top_units
<1> HIDE DEF c
<1>5. {v \in DOMAIN report.units : u \in report.units[v]} = {c}
  BY <1>1, <1>2, <1>3
<1> QED BY <1>4, <1>5 DEF Places, c

\* Any other unit is shown under its service or, once another unit of the
\* service was found in a container, nowhere.
LEMMA PlacesOfOthers ==
    ASSUME NEW t, Readable(t), NEW report, report = status(t, Everything),
           NEW u \in UnitId, t.units[u] # None, get_container(t, u) = None
    PROVE  Places(report, u) = IF t.units[u].service \in subordinates(t, Everything)
                               THEN {} ELSE {t.units[u].service}
<1> DEFINE s == t.units[u].service
           Live == {v \in UnitId : t.units[v] # None}
<1>1. s \in ServiceId /\ has_service(t, s)
  BY DEF Readable
<1>2. /\ DOMAIN report.units = Live /\ unit_data(t, Everything) = Live
      /\ DOMAIN report.services = {x \in ServiceId : has_service(t, x)}
  BY WholeReport
<1>3. {v \in DOMAIN report.units : u \in report.units[v]} = {}
  <2> SUFFICES ASSUME NEW v \in Live PROVE u \notin report.units[v]
    BY <1>2
  <2>1. v # None
    BY NoneAssumption
  <2> QED BY <1>2, <2>1, ReportFields DEF nested_units
<1>4. ASSUME NEW x \in DOMAIN report.services
      PROVE  u \in report.services[x].units <=> x = s /\ s \notin subordinates(t, Everything)
  <2>1. report.services[x].units = top_units(t, Everything, x)
    BY ReportFields
  <2>2. u \in unit_data(t, Everything)
    BY <1>2
  <2> QED BY <2>1, <2>2 DEF top_units
<1> HIDE DEF s, Live
<1>5. {x \in DOMAIN report.services : u \in report.services[x].units} =
        IF s \in subordinates(t, Everything) THEN {} ELSE {s}
  BY <1>1, <1>2, <1>4
<1> QED BY <1>3, <1>5 DEF Places, s

\* Only services with a subordinate charm have units in containers.
LEMMA SubordinatesAre ==
    ASSUME NEW t, Readable(t), NEW s \in subordinates(t, Everything)
    PROVE  t.services[s] \in Subordinate
<1>1. PICK v \in unit_data(t, Everything) : get_container(t, v) # None /\ s = t.units[v].service
  BY DEF subordinates
<1>2. v \in UnitId /\ t.units[v] # None
  BY <1>1, WholeReport
<1>3. t.units[v].container # None
  BY <1>1, <1>2 DEF get_container, get_service_unit_principal
<1> QED BY <1>1, <1>2, <1>3 DEF Readable

\* status without a scope succeeds, and shows every unit once.
LEMMA ReadableShown ==
    ASSUME NEW t, Readable(t)
    PROVE  /\ ~status_raises(t, Everything)
           /\ \A u \in UnitId : t.units[u] # None =>
                /\ Cardinality(Places(status(t, Everything), u)) \in
                        IF Orphan(t, u) THEN {0, 1} ELSE {1}
                /\ get_assigned_machine_id(t, u) \in
                        status(t, Everything).machines \cup {None}
<1>1. PICK report : report = status(t, Everything)
  OBVIOUS
<1>2. ~status_raises(t, Everything)
  <2>1. Inside(t, Everything) = {u \in UnitId : t.units[u] # None}
    BY WholeReport, UnitsGathered
  <2> QED BY <2>1, ContainerThere, RaisesOutside
<1>3. ASSUME NEW u \in UnitId, t.units[u] # None
      PROVE  get_assigned_machine_id(t, u) \in report.machines \cup {None}
  BY <1>1, <1>3, AssignedMachineThere, WholeReport
<1>4. ASSUME NEW u \in UnitId, t.units[u] # None
      PROVE  Cardinality(Places(report, u)) \in IF Orphan(t, u) THEN {0, 1} ELSE {1}
  <2>1. CASE get_container(t, u) # None
    <3>1. Places(report, u) = {<<get_container(t, u)>>}
      BY <1>1, <1>4, <2>1, PlacesOfContained
    <3>2. Cardinality(Places(report, u)) = 1
      BY <3>1, FS_Singleton
    <3> QED BY <3>2
  <2>2. CASE get_container(t, u) = None
    <3>1. Places(report, u) = IF t.units[u].service \in subordinates(t, Everything)
                              THEN {} ELSE {t.units[u].service}
      BY <1>1, <1>4, <2>2, PlacesOfOthers
    <3>2. Cardinality({}) = 0 /\ Cardinality({t.units[u].service}) = 1
      BY FS_EmptySet, FS_Singleton
    <3>3. CASE Orphan(t, u)
      BY <3>1, <3>2, <3>3
    <3>4. CASE ~Orphan(t, u)
      <4>1. t.units[u].container = None
        BY <2>2, <3>4 DEF Orphan
      <4>2. t.units[u].service \notin subordinates(t, Everything)
        BY <1>4, <4>1, SubordinatesAre DEF Readable
      <4> QED BY <3>1, <3>2, <3>4, <4>2
    <3> QED BY <3>3, <3>4
  <2> QED BY <2>1, <2>2
<1> QED BY <1>1, <1>2, <1>3, <1>4

\* With a scope status fails exactly for the units whose containers are left
\* out, and agrees with the whole report on the others.
LEMMA ReadableScoped ==
    ASSUME NEW t, Readable(t), NEW scope, scope # Everything,
           NEW inside, inside = Inside(t, scope),
           NEW whole, whole = status(t, Everything), NEW report, report = status(t, scope)
    PROVE  /\ status_raises(t, scope)
                <=> ~ \A u \in inside : get_container(t, u) \in inside \cup {None}
           /\ DOMAIN report.units = inside
           /\ \A u \in inside : report.units[u] = whole.units[u] \cap inside
           /\ scope.units # None =>
                DOMAIN report.services = {t.units[u].service : u \in inside}
           /\ \A s \in DOMAIN report.services :
                whole.services[s].units \cap inside \subseteq report.services[s].units
           /\ report.machines = {get_assigned_machine_id(t, u) : u \in inside} \ {None}
<1> DEFINE Live == {v \in UnitId : t.units[v] # None}
<1>1. inside \subseteq Live
  BY DEF Inside
<1>2. /\ unit_data(t, Everything) = Live /\ DOMAIN whole.units = Live
      /\ DOMAIN whole.services = {s \in ServiceId : has_service(t, s)}
  BY WholeReport
<1>3. unit_data(t, scope) = inside /\ DOMAIN report.units = inside
  BY UnitsGathered, ReportFields
<1>4. status_raises(t, scope)
        <=> ~ \A u \in inside : get_container(t, u) \in inside \cup {None}
  BY RaisesOutside
<1>5. ASSUME NEW u \in inside PROVE report.units[u] = whole.units[u] \cap inside
  <2>1. report.units[u] = nested_units(t, scope, u)
    BY <1>3, ReportFields
  <2>2. whole.units[u] = nested_units(t, Everything, u)
    BY <1>1, <1>2, ReportFields
  <2> QED BY <1>1, <1>2, <1>3, <2>1, <2>2 DEF nested_units
<1>6. ASSUME scope.units # None
      PROVE  DOMAIN report.services = {t.units[u].service : u \in inside}
  <2>1. ASSUME NEW s \in service_data(t, scope)
        PROVE  \E u \in inside : s = t.units[u].service
    <3>1. s \in _process_services(t, scope) /\ _process_units(t, scope, s) # {}
      BY <1>6 DEF service_data, _process_service
    <3>2. PICK u : u \in _process_units(t, scope, s)
      BY <3>1
    <3>3. u \in inside
      BY <1>3, <3>1, <3>2 DEF unit_data
    <3>4. s = t.units[u].service
      BY <3>2 DEF _process_units, get_service_units, has_service_unit
    <3> QED BY <3>3, <3>4
  <2>2. ASSUME NEW u \in inside PROVE t.units[u].service \in service_data(t, scope)
    <3>1. PICK s \in _process_services(t, scope) : u \in _process_units(t, scope, s)
      BY <1>3 DEF unit_data
    <3>2. s = t.units[u].service
      BY <3>1 DEF _process_units, get_service_units, has_service_unit
    <3> QED BY <3>1, <3>2 DEF service_data, _process_service
  <2> QED BY <2>1, <2>2, ReportFields
<1>7. ASSUME NEW s \in DOMAIN report.services
      PROVE  whole.services[s].units \cap inside \subseteq report.services[s].units
  <2>1. s \in service_data(t, scope) /\ report.services[s].units = top_units(t, scope, s)
    BY <1>7, ReportFields
  <2>2. s \in ServiceId /\ has_service(t, s)
    BY <2>1 DEF service_data, _process_services, get_all_service_states
  <2>3. whole.services[s].units = top_units(t, Everything, s)
    BY <1>2, <2>2, ReportFields
  <2>4. subordinates(t, scope) \subseteq subordinates(t, Everything)
    BY <1>1, <1>2, <1>3 DEF subordinates
  <2> QED BY <1>3, <2>1, <2>3, <2>4 DEF top_units
<1>8. report.machines = {get_assigned_machine_id(t, u) : u \in inside} \ {None}
  <2>1. report.machines = {m \in t.machines : m \in seen_machines(t, scope)}
    BY ReportFields DEF _process_machines
  <2>2. seen_machines(t, scope) = {get_assigned_machine_id(t, u) : u \in inside}
    BY <1>3 DEF seen_machines
  <2>3. \A u \in inside : get_assigned_machine_id(t, u) \in t.machines \cup {None}
    BY <1>1, AssignedMachineThere
  <2>4. None \notin t.machines
    BY NoneAssumption DEF Readable, TopologyType
  <2> QED BY <2>1, <2>2, <2>3, <2>4
<1> QED BY <1>3, <1>4, <1>5, <1>6, <1>7, <1>8

\* Every topology is readable, always.
LEMMA ReadableInvariance == Spec => []Readable(topology)
<1>1. Init => ContainersSound
  BY DEF Init, InitialTopology, ContainersSound
<1>2. MadeInv /\ ContainersSound /\ [Next]_vars => (MadeInv /\ ContainersSound)'
  BY MadeNext, ContainersNext DEF MadeInv
<1> QED BY <1>1, <1>2, MadeInit, AlwaysReadable, PTL DEF Spec

\* The status command succeeds on every topology and shows every unit once and
\* the machine it is on, except that it may miss a unit whose principal is gone.
THEOREM StatusComplete == Spec => []StatusShowsEveryUnit
<1>1. Readable(topology) => StatusShowsEveryUnit
  BY ReadableShown DEF StatusShowsEveryUnit
<1> QED BY <1>1, ReadableInvariance, PTL

\* For a scope it fails exactly when a unit within it has a container outside,
\* and otherwise shows of its units what the whole report shows of them.
THEOREM ScopedStatusIsPart == Spec => []ScopedStatusAgrees
<1>1. ASSUME Readable(topology) PROVE ScopedStatusAgrees
  <2> SUFFICES ASSUME
            NEW scope \in Scopes \ {Everything},
            NEW inside, inside = {u \in UnitId : topology.units[u] # None
                /\ Matches(scope.units, u)
                /\ Matches(scope.services, topology.services[topology.units[u].service])},
            NEW closed, closed = \A u \in inside :
                                    get_container(topology, u) \in inside \cup {None},
            NEW whole, whole = status(topology, Everything),
            NEW report, report = status(topology, scope)
      PROVE  /\ status_raises(topology, scope) <=> ~closed
             /\ closed =>
                  /\ DOMAIN report.units = inside
                  /\ \A u \in inside : report.units[u] = whole.units[u] \cap inside
                  /\ scope.units # None =>
                       DOMAIN report.services = {topology.units[u].service : u \in inside}
                  /\ \A s \in DOMAIN report.services :
                       whole.services[s].units \cap inside \subseteq report.services[s].units
                  /\ report.machines =
                        {get_assigned_machine_id(topology, u) : u \in inside} \ {None}
    BY Zenon DEF ScopedStatusAgrees
  <2>1. inside = Inside(topology, scope) /\ scope # Everything
    BY DEF Inside
  <2>2. /\ status_raises(topology, scope)
                <=> ~ \A u \in inside : get_container(topology, u) \in inside \cup {None}
        /\ DOMAIN report.units = inside
        /\ \A u \in inside : report.units[u] = whole.units[u] \cap inside
        /\ scope.units # None =>
             DOMAIN report.services = {topology.units[u].service : u \in inside}
        /\ \A s \in DOMAIN report.services :
             whole.services[s].units \cap inside \subseteq report.services[s].units
        /\ report.machines = {get_assigned_machine_id(topology, u) : u \in inside} \ {None}
    BY <1>1, <2>1, ReadableScoped
  <2> QED BY Zenon, <2>2
<1>2. Readable(topology) => ScopedStatusAgrees
  BY <1>1
<1> QED BY <1>2, ReadableInvariance, PTL
=============================================================================
