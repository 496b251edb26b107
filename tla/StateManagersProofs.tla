------------------------ MODULE StateManagersProofs ------------------------
(***************************************************************************)
(* The state managers implement the atomic topology, for every value of    *)
(* the constants.                                                          *)
(***************************************************************************)
EXTENDS StateManagers, FiniteSetTheorems, TLAPS

\* Request q adds the service or the unit id to the topology.
Adds(q, kind, id) ==
    \/ kind = "service" /\ q.change = "add_service" /\ q.service = id
    \/ kind = "unit" /\ q.change = "add_unit" /\ q.unit = id

\* An id that was created for a change some client has still to make, and an
\* id that will never be added again.
ToCome(kind, id) == \E c \in Client : \E i \in DOMAIN agenda[c] :
    Adds(agenda[c][i], kind, id)
Came(kind, id) == id \in created[kind] /\ ~ToCome(kind, id)

AgendaType ==
    /\ created \in [{"machine", "service", "unit", "relation"} -> SUBSET Nat]
    /\ agenda \in [Client -> Seq(Request)]

\* A client whose version is still the node's knows the topology.
VersionsTell == content \in [Client -> TopologyType \cup {None}] /\
    \A c \in current : c \in Client /\ content[c] = topology

\* What a client read is for the change at the head of its agenda.
ReadsServeChanges == \A c \in Client :
    content[c] # None => ~Idle(c) /\ Change(c).change # "list_units"

\* A service or a unit is added by one change of one client.
AddsDiffer == \A c1, c2 \in Client :
    \A i1 \in DOMAIN agenda[c1], i2 \in DOMAIN agenda[c2] :
        \A kind \in {"service", "unit"}, id \in Nat :
            Adds(agenda[c1][i1], kind, id) /\ Adds(agenda[c2][i2], kind, id)
                => c1 = c2 /\ i1 = i2

\* The ids the requests use were created, and every method has finitely many.
IdsCreated ==
    /\ \A kind \in {"service", "unit"}, id \in Nat : ToCome(kind, id) => id \in created[kind]
    /\ \A c \in Client : \A i \in DOMAIN agenda[c] :
        agenda[c][i].change = "add_relation" => agenda[c][i].relation \in created["relation"]
    /\ IsFiniteSet(created["unit"]) /\ IsFiniteSet(created["relation"])

\* Whatever is or was in the topology came there with an id of its own.
ContentCame ==
    /\ \A s \in ServiceId : topology.services[s] # None => Came("service", s)
    /\ \A u \in UnitId : topology.units[u] # None =>
        Came("unit", u) /\ Came("service", topology.units[u].service)
    /\ \A i \in issued : Came("unit", i.unit)
    /\ \A r \in RelationId : topology.relations[r] # None => r \in created["relation"]

\* What was found when a method began still holds of whatever is left of it.
StillValid(q) ==
    /\ q.change = "remove_machine" => q.machine # RootMachine
    /\ q.change = "add_unit" =>
        /\ Came("service", q.service)
        /\ IF q.container = None THEN topology.services[q.service] \notin Subordinate
           ELSE /\ topology.services[q.service] \in Subordinate \cup {None}
                /\ Came("unit", q.container)
                /\ topology.units[q.container] # None =>
                    topology.services[topology.units[q.container].service] \notin Subordinate
    /\ q.change = "assign_unused_unit" =>
        /\ q.unit \in created["unit"]
        /\ topology.units[q.unit] # None => topology.units[q.unit].container = None
        /\ \A c \in Client : \A i \in DOMAIN agenda[c] :
            Adds(agenda[c][i], "unit", q.unit) => agenda[c][i].container = None
    /\ q.change = "add_relation" =>
        /\ q.services \in [DOMAIN q.endpoints -> ServiceId]
        /\ \A i \in DOMAIN q.endpoints :
            /\ Came("service", q.services[i])
            /\ topology.services[q.services[i]] \in {q.endpoints[i].service_name, None}

RequestsValid == \A c \in Client : \A i \in DOMAIN agenda[c] : StillValid(agenda[c][i])

AgendaInv == AgendaType /\ AddsDiffer /\ IdsCreated

\* The inductive invariant.
Inv ==
    /\ Atomic!TypeOK /\ Atomic!ServiceNamesUnique
    /\ VersionsTell /\ ReadsServeChanges
    /\ AgendaInv /\ ContentCame /\ RequestsValid
-----------------------------------------------------------------------------
\* The values a request captured are ids of the right kind.
LEMMA RequestType ==
    ASSUME NEW q \in Request
    PROVE  /\ q.change \in {"add_machine", "remove_machine", "assign_unit"} =>
                q.machine \in MachineId
           /\ q.change \in {"add_service", "remove_service", "list_units", "add_unit",
                            "remove_unit", "assign_unit", "assign_unused_unit",
                            "unassign_unit"} => q.service \in ServiceId
           /\ q.change = "add_service" => q.name \in ServiceName
           /\ q.change \in {"add_unit", "remove_unit", "assign_unit",
                            "assign_unused_unit", "unassign_unit"} => q.unit \in UnitId
           /\ q.change = "add_unit" => q.container \in UnitId \cup {None}
           /\ q.change \in {"add_relation", "remove_relation"} => q.relation \in RelationId
           /\ q.change = "add_relation" =>
                q.endpoints \in EndpointLists
           /\ q.change \in {"add_machine", "remove_machine", "assign_unit", "add_service",
                "remove_service", "list_units", "add_unit", "remove_unit",
                "assign_unused_unit", "unassign_unit", "add_relation", "remove_relation"}
BY DEF Request, AddMachine, RemoveMachine, AddService, RemoveService, ListUnits, AddUnit,
       RemoveUnit, AssignUnit, AssignUnusedUnit, UnassignUnit, AddRelation, RemoveRelation

\* An agenda loses its first request: what came stays, what that request
\* adds has come, and every request that is left was there before.
LEMMA TailAgenda ==
    ASSUME AgendaInv, NEW c \in Client, agenda[c] # <<>>,
           agenda' = [agenda EXCEPT ![c] = Tail(agenda[c])],
           UNCHANGED created
    PROVE  /\ AgendaInv'
           /\ \A kind \in {"service", "unit"}, id \in Nat : Came(kind, id) => Came(kind, id)'
           /\ \A kind \in {"service", "unit"}, id \in Nat :
                Adds(Head(agenda[c]), kind, id) => Came(kind, id)'
           /\ \A c1 \in Client : \A i \in DOMAIN agenda'[c1] :
                \E j \in DOMAIN agenda[c1] : agenda'[c1][i] = agenda[c1][j]
<1>1. agenda[c] \in Seq(Request)
  BY DEF AgendaInv, AgendaType
<1>2. /\ Tail(agenda[c]) \in Seq(Request)
      /\ 1 \in DOMAIN agenda[c] /\ Head(agenda[c]) = agenda[c][1]
      /\ \A i \in DOMAIN Tail(agenda[c]) :
            /\ i \in Nat /\ i # 0 /\ i + 1 \in DOMAIN agenda[c]
            /\ Tail(agenda[c])[i] = agenda[c][i + 1]
  BY <1>1
<1>3. AgendaType'
  BY <1>2 DEF AgendaInv, AgendaType
<1> DEFINE at(c1, i) == IF c1 = c THEN i + 1 ELSE i
<1>4. \A c1 \in Client : \A i \in DOMAIN agenda'[c1] :
        /\ at(c1, i) \in DOMAIN agenda[c1]
        /\ agenda'[c1][i] = agenda[c1][at(c1, i)]
        /\ c1 = c => at(c1, i) # 1 /\ i \in Nat
  BY <1>2 DEF AgendaInv, AgendaType
<1> HIDE DEF at
<1>5. AddsDiffer'
  <2> SUFFICES ASSUME NEW c1 \in Client, NEW c2 \in Client,
                      NEW i1 \in DOMAIN agenda'[c1], NEW i2 \in DOMAIN agenda'[c2],
                      NEW kind \in {"service", "unit"}, NEW id \in Nat,
                      Adds(agenda'[c1][i1], kind, id), Adds(agenda'[c2][i2], kind, id)
               PROVE  c1 = c2 /\ i1 = i2
    BY DEF AddsDiffer, Adds
  <2>1. c1 = c2 /\ at(c1, i1) = at(c2, i2)
    BY <1>4 DEF AgendaInv, AddsDiffer
  <2> QED BY <1>4, <2>1 DEF at
<1>6. \A kind \in {"service", "unit"}, id \in Nat : ToCome(kind, id)' => ToCome(kind, id)
  BY <1>4 DEF ToCome, Adds
<1>7. IdsCreated'
  BY <1>4, <1>6 DEF AgendaInv, IdsCreated
<1>8. ASSUME NEW kind \in {"service", "unit"}, NEW id \in Nat, Adds(Head(agenda[c]), kind, id)
      PROVE  Came(kind, id)'
  <2>1. ToCome(kind, id)
    BY <1>2, <1>8 DEF ToCome
  <2>2. ASSUME ToCome(kind, id)' PROVE FALSE
    <3>0. PICK c1 \in Client : \E i \in DOMAIN agenda'[c1] : Adds(agenda'[c1][i], kind, id)
      BY <2>2 DEF ToCome, Adds
    <3>1. PICK i \in DOMAIN agenda'[c1] : Adds(agenda'[c1][i], kind, id)
      BY <3>0
    <3>2. Adds(agenda[c1][at(c1, i)], kind, id) /\ at(c1, i) \in DOMAIN agenda[c1]
      BY <1>4, <3>1
    <3>3. c1 = c /\ at(c1, i) = 1
      BY <1>2, <1>8, <3>2 DEF AgendaInv, AddsDiffer
    <3> QED BY <1>4, <3>3
  <2>3. id \in created[kind]
    BY <2>1 DEF AgendaInv, IdsCreated
  <2> QED BY <2>2, <2>3 DEF Came
<1> QED BY <1>3, <1>4, <1>5, <1>6, <1>7, <1>8 DEF AgendaInv, Came

\* An agenda is replaced by one of which only the first request may add
\* something, under an id that was just created.
NewAgendaOf(c, list) ==
    /\ list \in Seq(Request)
    /\ agenda' = [agenda EXCEPT ![c] = list]
    /\ created' \in [{"machine", "service", "unit", "relation"} -> SUBSET Nat]
    /\ \A kind \in {"service", "unit", "relation"} : created[kind] \subseteq created'[kind]
    /\ IsFiniteSet(created'["unit"]) /\ IsFiniteSet(created'["relation"])
    /\ \A i \in DOMAIN list : \A kind \in {"service", "unit"}, id \in Nat :
        Adds(list[i], kind, id) => i = 1 /\ id \in created'[kind] \ created[kind]
    /\ \A i \in DOMAIN list :
        list[i].change = "add_relation" => list[i].relation \in created'["relation"]

\* An agenda that is replaced by a list of new requests keeps what the
\* invariant says of ids, and the agendas of the others.
LEMMA NewAgenda ==
    ASSUME AgendaInv, NEW c \in Client, NEW list, NewAgendaOf(c, list)
    PROVE  /\ AgendaInv'
           /\ \A kind \in {"service", "unit"}, id \in Nat : Came(kind, id) => Came(kind, id)'
           /\ \A c1 \in Client : \A i \in DOMAIN agenda'[c1] :
                IF c1 = c THEN i \in DOMAIN list /\ agenda'[c1][i] = list[i]
                ELSE i \in DOMAIN agenda[c1] /\ agenda'[c1][i] = agenda[c1][i]
<1> USE DEF NewAgendaOf
<1>1. AgendaType'
  BY DEF AgendaInv, AgendaType
<1>2. \A c1 \in Client : \A i \in DOMAIN agenda'[c1] :
        IF c1 = c THEN i \in DOMAIN list /\ agenda'[c1][i] = list[i]
        ELSE i \in DOMAIN agenda[c1] /\ agenda'[c1][i] = agenda[c1][i]
  BY DEF AgendaInv, AgendaType
<1>3. ASSUME NEW c1 \in Client, NEW i \in DOMAIN agenda'[c1],
             NEW kind \in {"service", "unit"}, NEW id \in Nat,
             Adds(agenda'[c1][i], kind, id)
      PROVE  IF c1 = c THEN i = 1 /\ id \in created'[kind] \ created[kind]
             ELSE /\ i \in DOMAIN agenda[c1] /\ agenda'[c1][i] = agenda[c1][i]
                  /\ Adds(agenda[c1][i], kind, id) /\ id \in created[kind]
  <2>1. CASE c1 = c
    BY <1>2, <1>3, <2>1
  <2>2. CASE c1 # c
    <3>1. i \in DOMAIN agenda[c1] /\ Adds(agenda[c1][i], kind, id)
      BY <1>2, <1>3, <2>2
    <3> QED BY <1>2, <2>2, <3>1 DEF AgendaInv, IdsCreated, ToCome
  <2> QED BY <2>1, <2>2
<1>4. AddsDiffer'
  <2> SUFFICES ASSUME NEW c1 \in Client, NEW c2 \in Client,
                      NEW i1 \in DOMAIN agenda'[c1], NEW i2 \in DOMAIN agenda'[c2],
                      NEW kind \in {"service", "unit"}, NEW id \in Nat,
                      Adds(agenda'[c1][i1], kind, id), Adds(agenda'[c2][i2], kind, id)
               PROVE  c1 = c2 /\ i1 = i2
    BY DEF AddsDiffer, Adds
  <2> QED BY <1>3 DEF AgendaInv, AddsDiffer
<1>5. ASSUME NEW kind \in {"service", "unit"}, NEW id \in Nat, ToCome(kind, id)'
      PROVE  id \in created'[kind] /\ (id \in created[kind] => ToCome(kind, id))
  <2>1. PICK c1 \in Client : \E i \in DOMAIN agenda'[c1] : Adds(agenda'[c1][i], kind, id)
    BY <1>5 DEF ToCome, Adds
  <2>2. PICK i \in DOMAIN agenda'[c1] : Adds(agenda'[c1][i], kind, id)
    BY <2>1
  <2> QED BY <1>3, <2>2 DEF ToCome
<1>6. IdsCreated'
  BY <1>2, <1>5 DEF AgendaInv, IdsCreated
<1> QED BY <1>1, <1>2, <1>4, <1>5, <1>6 DEF AgendaInv, Came

\* The next id of a sequence node is new.
LEMMA CreateSequenceEffect ==
    ASSUME AgendaInv, NEW kind \in {"machine", "service", "unit", "relation"}, NEW id,
           CreateSequence(kind, id)
    PROVE  /\ id \in Ids[kind] \ created[kind] /\ id \in created'[kind] /\ id \in Nat
           /\ created' \in [{"machine", "service", "unit", "relation"} -> SUBSET Nat]
           /\ \A k \in {"machine", "service", "unit", "relation"} :
                created[k] \subseteq created'[k]
           /\ IsFiniteSet(created'["unit"]) /\ IsFiniteSet(created'["relation"])
<1>1. Ids[kind] \subseteq Nat
  <2>1. /\ Ids["machine"] = MachineId /\ Ids["service"] = ServiceId
        /\ Ids["unit"] = UnitId /\ Ids["relation"] = RelationId
    BY DEF Ids
  <2> QED BY <2>1, IdAssumption
<1>2. id \in Ids[kind] \ created[kind] /\ id \in Nat
  BY <1>1 DEF CreateSequence
<1>3. created' = [created EXCEPT ![kind] = @ \cup {id}]
  BY DEF CreateSequence
<1>4. /\ created' \in [{"machine", "service", "unit", "relation"} -> SUBSET Nat]
      /\ \A k \in {"machine", "service", "unit", "relation"} :
            created'[k] = IF k = kind THEN created[k] \cup {id} ELSE created[k]
  BY <1>2, <1>3 DEF AgendaInv, AgendaType
<1>5. ASSUME NEW k \in {"unit", "relation"} PROVE IsFiniteSet(created'[k])
  <2>1. IsFiniteSet(created[k])
    BY DEF AgendaInv, IdsCreated
  <2>2. IsFiniteSet(created[k] \cup {id})
    BY <2>1, FS_AddElement
  <2> QED BY <1>4, <2>1, <2>2
<1> QED BY <1>2, <1>4, <1>5

\* No step gives a service that came another name, or a unit another service
\* or container; a unit comes as the request that adds it says.
Kept ==
    /\ \A s \in ServiceId : Came("service", s) =>
        topology'.services[s] \in {topology.services[s], None}
    /\ \A u \in UnitId : topology'.units[u] # None =>
        \/ /\ topology.units[u] # None
           /\ topology'.units[u].service = topology.units[u].service
           /\ topology'.units[u].container = topology.units[u].container
        \/ \E c \in Client : \E i \in DOMAIN agenda[c] :
            /\ Adds(agenda[c][i], "unit", u)
            /\ topology'.units[u].container = agenda[c][i].container

\* So requests stay valid.
LEMMA StillValidKept ==
    ASSUME Inv, Kept, NEW q \in Request, StillValid(q),
           created["unit"] \subseteq created'["unit"],
           \A kind \in {"service", "unit"}, id \in Nat : Came(kind, id) => Came(kind, id)',
           \A c \in Client : \A i \in DOMAIN agenda'[c] : \A u \in created["unit"] :
                Adds(agenda'[c][i], "unit", u) =>
                    \E j \in DOMAIN agenda[c] : agenda[c][j] = agenda'[c][i]
    PROVE  StillValid(q)'
<1> USE IdAssumption, NoneAssumption
<1>1. None \notin Subordinate
  BY ClientAssumption
<1>2. q.change = "add_unit" =>
        /\ Came("service", q.service)'
        /\ IF q.container = None THEN topology'.services[q.service] \notin Subordinate
           ELSE /\ topology'.services[q.service] \in Subordinate \cup {None}
                /\ Came("unit", q.container)'
                /\ topology'.units[q.container] # None =>
                    topology'.services[topology'.units[q.container].service] \notin Subordinate
  <2> SUFFICES ASSUME q.change = "add_unit"
               PROVE  /\ Came("service", q.service)'
                      /\ IF q.container = None
                         THEN topology'.services[q.service] \notin Subordinate
                         ELSE /\ topology'.services[q.service] \in Subordinate \cup {None}
                              /\ Came("unit", q.container)'
                              /\ topology'.units[q.container] # None =>
                                  topology'.services[topology'.units[q.container].service]
                                      \notin Subordinate
    OBVIOUS
  <2>1. q.service \in ServiceId /\ q.container \in UnitId \cup {None}
    BY RequestType
  <2>2. Came("service", q.service) /\ Came("service", q.service)'
    BY <2>1 DEF StillValid
  <2>3. topology'.services[q.service] \in {topology.services[q.service], None}
    BY <2>1, <2>2 DEF Kept
  <2>4. CASE q.container = None
    BY <1>1, <2>2, <2>3, <2>4 DEF StillValid
  <2>5. CASE q.container # None
    <3>1. /\ Came("unit", q.container) /\ Came("unit", q.container)'
          /\ topology'.services[q.service] \in Subordinate \cup {None}
      BY <2>1, <2>3, <2>5 DEF StillValid
    <3>2. ASSUME topology'.units[q.container] # None
          PROVE  topology'.services[topology'.units[q.container].service] \notin Subordinate
      <4>1. ~ToCome("unit", q.container)
        BY <3>1 DEF Came
      <4>2. /\ topology.units[q.container] # None
            /\ topology'.units[q.container].service = topology.units[q.container].service
        BY <2>1, <2>5, <3>2, <4>1 DEF Kept, ToCome
      <4>3. topology.units[q.container].service \in ServiceId
        BY <2>1, <2>5, <4>2 DEF Inv, Atomic!TypeOK, Atomic!TopologyType, Atomic!Unit
      <4>4. Came("service", topology.units[q.container].service)
        BY <2>1, <2>5, <4>2 DEF Inv, ContentCame
      <4>5. topology.services[topology.units[q.container].service] \notin Subordinate
        BY <2>5, <4>2 DEF StillValid
      <4> QED BY <1>1, <4>2, <4>3, <4>4, <4>5 DEF Kept
    <3> QED BY <2>2, <2>5, <3>1, <3>2
  <2> QED BY <2>4, <2>5
<1>3. q.change = "assign_unused_unit" =>
        /\ q.unit \in created'["unit"]
        /\ topology'.units[q.unit] # None => topology'.units[q.unit].container = None
        /\ \A c \in Client : \A i \in DOMAIN agenda'[c] :
            Adds(agenda'[c][i], "unit", q.unit) => agenda'[c][i].container = None
  <2> SUFFICES ASSUME q.change = "assign_unused_unit"
               PROVE  /\ q.unit \in created'["unit"]
                      /\ topology'.units[q.unit] # None =>
                            topology'.units[q.unit].container = None
                      /\ \A c \in Client : \A i \in DOMAIN agenda'[c] :
                        Adds(agenda'[c][i], "unit", q.unit) => agenda'[c][i].container = None
    OBVIOUS
  <2>1. /\ q.unit \in UnitId /\ q.unit \in created["unit"]
        /\ topology.units[q.unit] # None => topology.units[q.unit].container = None
        /\ \A c \in Client : \A i \in DOMAIN agenda[c] :
            Adds(agenda[c][i], "unit", q.unit) => agenda[c][i].container = None
    BY RequestType DEF StillValid
  <2>2. topology'.units[q.unit] # None => topology'.units[q.unit].container = None
    BY <2>1 DEF Kept
  <2>3. ASSUME NEW c \in Client, NEW i \in DOMAIN agenda'[c],
               Adds(agenda'[c][i], "unit", q.unit)
        PROVE  agenda'[c][i].container = None
    <3>1. PICK j \in DOMAIN agenda[c] : agenda[c][j] = agenda'[c][i]
      BY <2>1, <2>3
    <3> QED BY <2>1, <2>3, <3>1
  <2> QED BY <2>1, <2>2, <2>3
<1>4. q.change = "add_relation" =>
        /\ q.services \in [DOMAIN q.endpoints -> ServiceId]
        /\ \A i \in DOMAIN q.endpoints :
            /\ Came("service", q.services[i])'
            /\ topology'.services[q.services[i]] \in {q.endpoints[i].service_name, None}
  BY DEF StillValid, Kept
<1> QED BY <1>2, <1>3, <1>4 DEF StillValid, Adds

\* t2 is t but for the one service, unit or relation that request q adds, for
\* what it removes, and for machines.
Shaped(t, q, t2) ==
    /\ t2 \in TopologyType
    /\ \A s \in ServiceId :
        \/ t2.services[s] \in {t.services[s], None}
        \/ /\ Adds(q, "service", s) /\ t.services[s] = None
           /\ \A s2 \in ServiceId : t.services[s2] # t2.services[s]
    /\ \A u \in UnitId : t2.units[u] # None =>
        \/ /\ t.units[u] # None
           /\ t2.units[u].service = t.units[u].service
           /\ t2.units[u].container = t.units[u].container
        \/ /\ t.units[u] = None /\ Adds(q, "unit", u)
           /\ t2.units[u].service = q.service /\ t2.units[u].container = q.container
           /\ t2.services[q.service] # None
    /\ \A r \in RelationId : t2.relations[r] # None =>
        \/ t.relations[r] # None
        \/ q.change = "add_relation" /\ r = q.relation

\* A topology that differs from a shaped one in nothing but machines and the
\* machines of units is shaped.
LEMMA ShapedByAssignments ==
    ASSUME NEW t \in TopologyType, NEW q, NEW t2 \in TopologyType,
           t2.services = t.services, t2.relations = t.relations,
           \A u \in UnitId : t2.units[u] # None => t.units[u] # None /\
                t2.units[u].service = t.units[u].service /\
                t2.units[u].container = t.units[u].container
    PROVE  Shaped(t, q, t2)
BY DEF Shaped, TopologyType

\* Giving a unit another machine changes nothing else of it.
LEMMA MachineOfUnit ==
    ASSUME NEW t \in TopologyType, NEW u \in UnitId, NEW m \in MachineId \cup {None},
           t.units[u] # None, NEW v \in UnitId,
           NEW units, units = [t.units EXCEPT ![u] = [t.units[u] EXCEPT !.machine = m]]
    PROVE  units[v] # None => t.units[v] # None /\
                units[v].service = t.units[v].service /\
                units[v].container = t.units[v].container
<1>1. t.units[u] \in Unit
  BY DEF TopologyType
<1>2. CASE v = u
  BY <1>1, <1>2 DEF Unit, TopologyType
<1>3. CASE v # u
  BY <1>3 DEF TopologyType
<1> QED BY <1>2, <1>3

-----------------------------------------------------------------------------
(* What the mutators of InternalTopology leave of a topology *)

\* Adding or removing a machine touches nothing but machines.
LEMMA MachineChanges ==
    ASSUME NEW t \in TopologyType, NEW m \in MachineId,
           NEW t2 \in add_machine(t, m) \cup remove_machine(t, m)
    PROVE  /\ t2 \in TopologyType
           /\ t2.services = t.services /\ t2.units = t.units /\ t2.relations = t.relations
BY DEF add_machine, remove_machine, Unless_raised, TopologyType

\* A service is added where there was none, under a name no service has.
LEMMA ServiceAdded ==
    ASSUME NEW t \in TopologyType, NEW s \in ServiceId, NEW n \in ServiceName,
           NEW t2 \in add_service(t, s, n)
    PROVE  /\ t2 \in TopologyType
           /\ ~has_service(t, s) /\ \A s2 \in ServiceId : t.services[s2] # n
           /\ t2.services = [t.services EXCEPT ![s] = n]
           /\ t2.units = t.units /\ t2.relations = t.relations
BY DEF add_service, Unless_raised, TopologyType

\* With a service its units are removed, and nothing else.
LEMMA ServiceRemoved ==
    ASSUME NEW t \in TopologyType, NEW s \in ServiceId, NEW t2 \in remove_service(t, s)
    PROVE  /\ t2 \in TopologyType
           /\ t2.services = [t.services EXCEPT ![s] = None]
           /\ t2.units = [u \in UnitId |-> IF has_service_unit(t, s, u) THEN None
                                                                        ELSE t.units[u]]
           /\ t2.relations = t.relations
<1>1. PICK U, S :
        /\ U = [u \in UnitId |-> IF has_service_unit(t, s, u) THEN None ELSE t.units[u]]
        /\ S = [t.services EXCEPT ![s] = None]
        /\ t2 = [[t EXCEPT !.services = S] EXCEPT !.units = U]
  BY DEF remove_service, Unless_raised
<1>2. U \in [UnitId -> Unit \cup {None}] /\ S \in [ServiceId -> ServiceName \cup {None}]
  BY <1>1 DEF TopologyType
<1>3. t2 \in TopologyType /\ t2.services = S /\ t2.units = U /\ t2.relations = t.relations
  BY <1>1, <1>2 DEF TopologyType
<1> QED BY <1>1, <1>3

\* A unit is added where there was none, to a service there is.
LEMMA UnitAdded ==
    ASSUME NEW t \in TopologyType, NEW s \in ServiceId, NEW u \in UnitId,
           NEW c \in UnitId \cup {None}, NEW t2 \in add_service_unit(t, s, u, c)
    PROVE  /\ t2 \in TopologyType
           /\ has_service(t, s) /\ t.units[u] = None
           /\ t2.services = t.services /\ t2.relations = t.relations
           /\ t2.units = [t.units EXCEPT ![u] =
                [service |-> s, sequence |-> t.unit_sequence[t.services[s]],
                 container |-> c, machine |-> None]]
<1>1. PICK U, Q :
        /\ U = [t.units EXCEPT ![u] =
                [service |-> s, sequence |-> t.unit_sequence[t.services[s]],
                 container |-> c, machine |-> None]]
        /\ Q = [t.unit_sequence EXCEPT ![t.services[s]] = @ + 1]
        /\ t2 = [[t EXCEPT !.units = U] EXCEPT !.unit_sequence = Q]
  BY DEF add_service_unit, Unless_raised, TopologyType
<1>2. has_service(t, s) /\ t.units[u] = None
  BY DEF add_service_unit, Unless_raised
<1>3. U \in [UnitId -> Unit \cup {None}] /\ Q \in [ServiceName -> Nat]
  BY <1>1, <1>2 DEF TopologyType, Unit, has_service
<1>4. /\ t2 \in TopologyType /\ t2.services = t.services
      /\ t2.units = U /\ t2.relations = t.relations
  BY <1>1, <1>3 DEF TopologyType
<1> QED BY <1>1, <1>2, <1>4

\* Only the unit is removed.
LEMMA UnitRemoved ==
    ASSUME NEW t \in TopologyType, NEW s \in ServiceId, NEW u \in UnitId,
           NEW t2 \in remove_service_unit(t, s, u)
    PROVE  /\ t2 \in TopologyType
           /\ t2.services = t.services /\ t2.relations = t.relations
           /\ t2.units = [t.units EXCEPT ![u] = None]
BY DEF remove_service_unit, Unless_raised, TopologyType

\* Assigning or unassigning a unit there is changes its machine only.
LEMMA UnitAssigned ==
    ASSUME NEW t \in TopologyType, NEW s \in ServiceId, NEW u \in UnitId,
           NEW m \in MachineId \cup {None}, NEW t2,
           \/ m \in MachineId /\ t2 \in assign_service_unit_to_machine(t, s, u, m)
           \/ m = None /\ t2 \in unassign_service_unit_from_machine(t, s, u)
    PROVE  /\ t2 \in TopologyType
           /\ has_service_unit(t, s, u)
           /\ t2.services = t.services /\ t2.relations = t.relations
           /\ t2.units = [t.units EXCEPT ![u] = [t.units[u] EXCEPT !.machine = m]]
<1>1. PICK U :
        /\ U = [t.units EXCEPT ![u] = [t.units[u] EXCEPT !.machine = m]]
        /\ t2 = [t EXCEPT !.units = U]
        /\ has_service_unit(t, s, u)
  BY DEF assign_service_unit_to_machine, unassign_service_unit_from_machine, Unless_raised,
         TopologyType
<1>2. U \in [UnitId -> Unit \cup {None}]
  BY <1>1 DEF TopologyType, Unit, has_service_unit
<1> QED BY <1>1, <1>2 DEF TopologyType

\* Only the relation is removed.
LEMMA RelationRemoved ==
    ASSUME NEW t \in TopologyType, NEW r \in RelationId, NEW t2 \in remove_relation(t, r)
    PROVE  /\ t2 \in TopologyType
           /\ t2.services = t.services /\ t2.units = t.units
           /\ t2.relations = [t.relations EXCEPT ![r] = None]
BY DEF remove_relation, Unless_raised, TopologyType

\* An endpoint list has one or two endpoints of charms in use.
LEMMA EndpointListsType ==
    ASSUME NEW eps \in EndpointLists
    PROVE  /\ eps[1] \in RelationEndpoint /\ 1 \in DOMAIN eps
           /\ Len(eps) # 1 => eps[2] \in RelationEndpoint /\ 2 \in DOMAIN eps
           /\ relation_scope(eps) \in Scope
           /\ (Len(eps) = 1 /\ DOMAIN eps = {1}) \/ (Len(eps) = 2 /\ DOMAIN eps = {1, 2})
<1>1. CASE \E e \in Endpoint : eps = <<e>>
  <2>1. PICK e \in Endpoint : eps = <<e>>
    BY <1>1
  <2>2. Len(eps) = 1 /\ eps[1] = e /\ DOMAIN eps = 1..1
    BY <2>1
  <2>3. DOMAIN eps = {1}
    BY <2>2
  <2> QED BY <2>2, <2>3, EndpointAssumption DEF relation_scope, Scope
<1>2. CASE \E e1, e2 \in Endpoint : eps = <<e1, e2>>
  <2>1. PICK e1, e2 \in Endpoint : eps = <<e1, e2>>
    BY <1>2
  <2>2. Len(eps) = 2 /\ eps[1] = e1 /\ eps[2] = e2 /\ DOMAIN eps = 1..2
    BY <2>1
  <2>3. DOMAIN eps = {1, 2}
    BY <2>2
  <2> QED BY <2>2, <2>3, EndpointAssumption DEF relation_scope, Scope
<1> QED BY <1>1, <1>2 DEF EndpointLists

\* t2 is t but for relation r.
OnlyRelation(t, t2, r) ==
    /\ t2 \in TopologyType
    /\ t2.services = t.services /\ t2.units = t.units
    /\ \A r2 \in RelationId \ {r} : t2.relations[r2] = t.relations[r2]

\* A service there is enters one relation.
LEMMA ServiceEnters ==
    ASSUME NEW t \in TopologyType, NEW r \in RelationId, NEW eps, NEW i,
           eps[i] \in RelationEndpoint, NEW servs, servs[i] \in ServiceId \cup {None},
           NEW t2 \in assign_endpoint(t, r, eps, servs, i)
    PROVE  OnlyRelation(t, t2, r) /\ has_service(t, servs[i])
<1>1. PICK s \in ServiceId, n \in RelationName, ro \in Role :
        s = servs[i] /\ t2 \in assign_service_to_relation(t, r, s, n, ro)
  BY DEF assign_endpoint, RelationEndpoint
<1>2. has_service(t, s) /\ has_relation(t, r)
  BY <1>1 DEF assign_service_to_relation, Unless_raised
<1>3. t2 \in TopologyType
  BY <1>1, <1>2
  DEF assign_service_to_relation, Unless_raised, TopologyType, Relation, has_relation
<1> QED BY <1>1, <1>2, <1>3 DEF assign_service_to_relation, Unless_raised, TopologyType,
                                OnlyRelation

\* One relation is added, between services there are.
LEMMA RelationAdded ==
    ASSUME NEW t \in TopologyType, NEW r \in RelationId, NEW eps \in EndpointLists,
           NEW servs \in [DOMAIN eps -> ServiceId \cup {None}],
           NEW t2 \in add_relation_change(t, r, eps, servs)
    PROVE  OnlyRelation(t, t2, r) /\ \A i \in DOMAIN eps : has_service(t, servs[i])
<1>1. PICK t0 \in add_relation(t, r, eps[1].relation_type, relation_scope(eps)) :
        \/ Len(eps) = 1 /\ t2 \in assign_endpoint(t0, r, eps, servs, 1)
        \/ /\ Len(eps) # 1
           /\ \E t1 \in assign_endpoint(t0, r, eps, servs, 1) :
                t2 \in assign_endpoint(t1, r, eps, servs, 2)
  BY DEF add_relation_change
<1>2. OnlyRelation(t, t0, r)
  BY <1>1, EndpointListsType
  DEF add_relation, Unless_raised, TopologyType, Relation, RelationEndpoint, OnlyRelation
<1>3. t0 \in TopologyType /\ eps[1] \in RelationEndpoint /\ servs[1] \in ServiceId \cup {None}
  BY <1>2, EndpointListsType DEF OnlyRelation
<1>4. CASE Len(eps) = 1 /\ t2 \in assign_endpoint(t0, r, eps, servs, 1)
  <2>1. OnlyRelation(t0, t2, r) /\ has_service(t0, servs[1]) /\ DOMAIN eps = {1}
    BY <1>3, <1>4, ServiceEnters, EndpointListsType
  <2> QED BY <1>2, <2>1 DEF OnlyRelation, has_service
<1>5. CASE /\ Len(eps) # 1
           /\ \E t1 \in assign_endpoint(t0, r, eps, servs, 1) :
                t2 \in assign_endpoint(t1, r, eps, servs, 2)
  <2>1. PICK t1 \in assign_endpoint(t0, r, eps, servs, 1) :
            t2 \in assign_endpoint(t1, r, eps, servs, 2)
    BY <1>5
  <2>2. OnlyRelation(t0, t1, r) /\ has_service(t0, servs[1]) /\ DOMAIN eps = {1, 2}
    BY <1>3, <1>5, <2>1, ServiceEnters, EndpointListsType
  <2>3. t1 \in TopologyType /\ eps[2] \in RelationEndpoint /\ servs[2] \in ServiceId \cup {None}
    BY <1>5, <2>2, EndpointListsType DEF OnlyRelation
  <2>4. OnlyRelation(t1, t2, r) /\ has_service(t1, servs[2])
    BY <2>1, <2>3, ServiceEnters
  <2> QED BY <1>2, <2>2, <2>4 DEF OnlyRelation, has_service
<1> QED BY <1>1, <1>4, <1>5

-----------------------------------------------------------------------------
(* What the change functions leave *)

\* Whatever a change function leaves is shaped by its request.
LEMMA OutcomesShaped ==
    ASSUME NEW t \in TopologyType, NEW q \in Request, q.change # "list_units",
           q.change = "add_relation" => q.services \in [DOMAIN q.endpoints -> ServiceId],
           NEW t2 \in Outcomes(t, q)
    PROVE  Shaped(t, q, t2)
<1>0. ASSUME t2 = t PROVE Shaped(t, q, t2)
  BY <1>0, ShapedByAssignments
<1>1. CASE q.change = "add_machine"
  <2>1. q.machine \in MachineId /\ t2 \in add_machine(t, q.machine)
    BY <1>1, RequestType DEF Outcomes
  <2> QED BY <2>1, MachineChanges, ShapedByAssignments
<1>2. CASE q.change = "remove_machine"
  <2>1. q.machine \in MachineId /\ t2 \in remove_machine_change(t, q.machine)
    BY <1>2, RequestType DEF Outcomes
  <2> QED BY <1>0, <2>1, MachineChanges, ShapedByAssignments DEF remove_machine_change
<1>3. CASE q.change = "add_service"
  <2>1. /\ q.service \in ServiceId /\ q.name \in ServiceName
        /\ t2 \in add_service(t, q.service, q.name)
    BY <1>3, RequestType DEF Outcomes, add_service_change
  <2>2. /\ t2 \in TopologyType /\ ~has_service(t, q.service)
        /\ \A s2 \in ServiceId : t.services[s2] # q.name
        /\ t2.services = [t.services EXCEPT ![q.service] = q.name]
        /\ t2.units = t.units /\ t2.relations = t.relations
    BY <2>1, ServiceAdded
  <2>3. /\ t.services[q.service] = None /\ t2.services[q.service] = q.name
        /\ \A s \in ServiceId \ {q.service} : t2.services[s] = t.services[s]
    BY <2>1, <2>2 DEF has_service, TopologyType
  <2> QED BY <1>3, <2>2, <2>3 DEF Shaped, Adds
<1>4. CASE q.change = "remove_service"
  <2>1. q.service \in ServiceId /\ t2 \in remove_service(t, q.service)
    BY <1>4, RequestType DEF Outcomes
  <2>2. /\ t2 \in TopologyType
        /\ t2.services = [t.services EXCEPT ![q.service] = None]
        /\ t2.units = [u \in UnitId |-> IF has_service_unit(t, q.service, u) THEN None
                                                                     ELSE t.units[u]]
        /\ t2.relations = t.relations
    BY <2>1, ServiceRemoved
  <2>3. /\ \A s \in ServiceId : t2.services[s] \in {t.services[s], None}
        /\ \A u \in UnitId : t2.units[u] \in {t.units[u], None}
    BY <2>1, <2>2 DEF TopologyType
  <2> QED BY <2>2, <2>3 DEF Shaped
<1>5. CASE q.change = "add_unit"
  <2>1. /\ q.service \in ServiceId /\ q.unit \in UnitId /\ q.container \in UnitId \cup {None}
        /\ t2 \in add_service_unit(t, q.service, q.unit, q.container)
    BY <1>5, RequestType DEF Outcomes
  <2>2. SUFFICES ASSUME NEW s \in ServiceId, NEW u \in UnitId, NEW c \in UnitId \cup {None},
                        s = q.service, u = q.unit, c = q.container,
                        t2 \in add_service_unit(t, s, u, c)
                 PROVE  Shaped(t, q, t2)
    BY <2>1
  <2> DEFINE new == [service |-> s, sequence |-> t.unit_sequence[t.services[s]],
                     container |-> c, machine |-> None]
  <2>3. /\ t2 \in TopologyType /\ has_service(t, s) /\ t.units[u] = None
        /\ t2.services = t.services /\ t2.relations = t.relations
        /\ t2.units = [t.units EXCEPT ![u] = new]
    BY <2>2, UnitAdded
  <2>4. new.service = s /\ new.container = c
    OBVIOUS
  <2> HIDE DEF new
  <2>5. t2.units[u] = new /\ \A v \in UnitId \ {u} : t2.units[v] = t.units[v]
    BY <2>3 DEF TopologyType
  <2>6. t2.services[s] # None
    BY <2>3 DEF has_service
  <2> QED BY <1>5, <2>2, <2>3, <2>4, <2>5, <2>6 DEF Shaped, Adds
<1>6. CASE q.change = "remove_unit"
  <2>1. /\ q.service \in ServiceId /\ q.unit \in UnitId
        /\ t2 \in remove_service_unit(t, q.service, q.unit)
    BY <1>6, RequestType DEF Outcomes
  <2>2. /\ t2 \in TopologyType
        /\ t2.services = t.services /\ t2.relations = t.relations
        /\ t2.units = [t.units EXCEPT ![q.unit] = None]
    BY <2>1, UnitRemoved
  <2>3. \A u \in UnitId : t2.units[u] \in {t.units[u], None}
    BY <2>1, <2>2 DEF TopologyType
  <2> QED BY <2>2, <2>3 DEF Shaped
<1>7. ASSUME NEW s \in ServiceId, NEW u \in UnitId, NEW m \in MachineId,
             t2 \in assign_service_unit_to_machine(t, s, u, m)
      PROVE  Shaped(t, q, t2)
  <2>1. /\ t2 \in TopologyType /\ has_service_unit(t, s, u)
        /\ t2.services = t.services /\ t2.relations = t.relations
        /\ t2.units = [t.units EXCEPT ![u] = [t.units[u] EXCEPT !.machine = m]]
    BY <1>7, UnitAssigned
  <2> QED BY <2>1, MachineOfUnit, ShapedByAssignments DEF has_service_unit
<1>8. CASE q.change = "assign_unit"
  <2>1. /\ q.service \in ServiceId /\ q.unit \in UnitId /\ q.machine \in MachineId
        /\ t2 \in assign_unit(t, q.service, q.unit, q.machine)
    BY <1>8, RequestType DEF Outcomes
  <2> QED BY <1>0, <1>7, <2>1 DEF assign_unit, Unless_raised
<1>9. CASE q.change = "assign_unused_unit"
  <2>1. /\ q.service \in ServiceId /\ q.unit \in UnitId
        /\ t2 \in assign_unused_unit(t, q.service, q.unit)
    BY <1>9, RequestType DEF Outcomes
  <2> QED BY <1>7, <2>1 DEF assign_unused_unit, unused_machines, TopologyType
<1>10. CASE q.change = "unassign_unit"
  <2>1. /\ q.service \in ServiceId /\ q.unit \in UnitId
        /\ t2 \in unassign_unit(t, q.service, q.unit)
    BY <1>10, RequestType DEF Outcomes
  <2>2. CASE t2 \in unassign_service_unit_from_machine(t, q.service, q.unit)
    <3>1. /\ t2 \in TopologyType /\ has_service_unit(t, q.service, q.unit)
          /\ t2.services = t.services /\ t2.relations = t.relations
          /\ t2.units = [t.units EXCEPT ![q.unit] = [t.units[q.unit] EXCEPT !.machine = None]]
      BY <2>1, <2>2, UnitAssigned
    <3>2. \A u \in UnitId : t2.units[u] # None =>
            /\ t.units[u] # None
            /\ t2.units[u].service = t.units[u].service
            /\ t2.units[u].container = t.units[u].container
      BY <2>1, <3>1, MachineOfUnit DEF has_service_unit
    <3> QED BY <3>1, <3>2, ShapedByAssignments
  <2> QED BY <1>0, <2>1, <2>2 DEF unassign_unit
<1>11. CASE q.change = "add_relation"
  <2>1. /\ q.relation \in RelationId /\ q.endpoints \in EndpointLists
        /\ q.services \in [DOMAIN q.endpoints -> ServiceId \cup {None}]
        /\ t2 \in add_relation_change(t, q.relation, q.endpoints, q.services)
    BY <1>11, RequestType DEF Outcomes
  <2> QED BY <1>11, <2>1, RelationAdded DEF Shaped, OnlyRelation
<1>12. CASE q.change = "remove_relation"
  <2>1. q.relation \in RelationId /\ t2 \in remove_relation(t, q.relation)
    BY <1>12, RequestType DEF Outcomes
  <2>2. /\ t2 \in TopologyType
        /\ t2.services = t.services /\ t2.units = t.units
        /\ t2.relations = [t.relations EXCEPT ![q.relation] = None]
    BY <2>1, RelationRemoved
  <2>3. \A r \in RelationId : t2.relations[r] \in {t.relations[r], None}
    BY <2>1, <2>2 DEF TopologyType
  <2> QED BY <2>2, <2>3 DEF Shaped
<1> QED BY RequestType, <1>1, <1>2, <1>3, <1>4, <1>5, <1>6, <1>8, <1>9, <1>10, <1>11, <1>12

\* The types of the instance of AtomicTopology are those of this module.
LEMMA SameTypes ==
    /\ Atomic!TopologyType = TopologyType
    /\ \A t, u : Atomic!get_service_unit_name(t, u) = get_service_unit_name(t, u)
BY DEF Atomic!TopologyType, TopologyType, Atomic!Unit, Unit, Atomic!Relation, Relation,
       Atomic!Role, Role, Atomic!Scope, Scope, Atomic!get_service_unit_name,
       get_service_unit_name

\* A client that is not changing the topology, or that gives its change up,
\* knows what it knew, or nothing.
LEMMA Forgets ==
    ASSUME Inv, NEW c \in Client, NEW list, agenda' = [agenda EXCEPT ![c] = list],
           topology' = topology,
           \/ content[c] = None /\ content' = content /\ current' = current
           \/ content' = [content EXCEPT ![c] = None] /\ current' = current \ {c}
    PROVE  VersionsTell' /\ ReadsServeChanges'
<1>1. content \in [Client -> TopologyType \cup {None}] /\ agenda \in [Client -> Seq(Request)]
  BY DEF Inv, VersionsTell, AgendaInv, AgendaType
<1>2. /\ content'[c] = None
      /\ \A c1 \in Client \ {c} : content'[c1] = content[c1] /\ agenda'[c1] = agenda[c1]
  BY <1>1
<1>3. VersionsTell'
  BY <1>1, <1>2 DEF Inv, VersionsTell
<1>4. ReadsServeChanges'
  BY <1>2 DEF Inv, ReadsServeChanges, Idle, Change
<1> QED BY <1>3, <1>4

\* A client gets a new agenda and the topology stays.
LEMMA NewAgendaInv ==
    ASSUME Inv, NEW c \in Client, NEW list, NewAgendaOf(c, list),
           topology' = topology, issued' = issued,
           \A i \in DOMAIN list : StillValid(list[i])',
           \/ content[c] = None /\ content' = content /\ current' = current
           \/ content' = [content EXCEPT ![c] = None] /\ current' = current \ {c}
    PROVE  Inv'
<1>1. agenda' = [agenda EXCEPT ![c] = list]
  BY DEF NewAgendaOf
<1>2. VersionsTell' /\ ReadsServeChanges'
  BY <1>1, Forgets
<1>3. AgendaInv
  BY DEF Inv
<1>4. /\ AgendaInv'
      /\ \A kind \in {"service", "unit"}, id \in Nat : Came(kind, id) => Came(kind, id)'
      /\ \A c1 \in Client : \A i \in DOMAIN agenda'[c1] :
            IF c1 = c THEN i \in DOMAIN list /\ agenda'[c1][i] = list[i]
            ELSE i \in DOMAIN agenda[c1] /\ agenda'[c1][i] = agenda[c1][i]
  BY <1>3, NewAgenda
<1>5. Atomic!TypeOK' /\ Atomic!ServiceNamesUnique'
  BY DEF Inv, Atomic!TypeOK, Atomic!ServiceNamesUnique
<1>6. ContentCame'
  <2>1. created["relation"] \subseteq created'["relation"]
    BY DEF NewAgendaOf
  <2>2. topology \in TopologyType /\ \A i \in issued : i.unit \in UnitId
    BY SameTypes DEF Inv, Atomic!TypeOK
  <2>3. \A u \in UnitId : topology.units[u] # None => topology.units[u].service \in ServiceId
    BY <2>2 DEF TopologyType, Unit
  <2> QED BY <1>4, <2>1, <2>2, <2>3, IdAssumption DEF Inv, ContentCame
<1>7. Kept
  BY DEF Kept
<1>8. ASSUME NEW c1 \in Client, NEW j \in DOMAIN agenda'[c1], NEW u \in created["unit"],
             Adds(agenda'[c1][j], "unit", u)
      PROVE  \E k \in DOMAIN agenda[c1] : agenda[c1][k] = agenda'[c1][j]
  <2>1. CASE c1 = c
    <3>1. u \in Nat
      BY DEF Inv, AgendaInv, AgendaType
    <3> QED BY <1>4, <1>8, <2>1, <3>1 DEF NewAgendaOf
  <2>2. CASE c1 # c
    BY <1>4, <2>2
  <2> QED BY <2>1, <2>2
<1>9. ASSUME NEW q \in Request, StillValid(q) PROVE StillValid(q)'
  <2>1. created["unit"] \subseteq created'["unit"]
    BY DEF NewAgendaOf
  <2> QED BY <1>4, <1>7, <1>8, <1>9, <2>1, StillValidKept
<1>10. ASSUME NEW c1 \in Client, NEW i \in DOMAIN agenda'[c1], NEW q, q = agenda'[c1][i]
       PROVE  StillValid(q)'
  <2>1. CASE c1 = c
    BY <1>4, <1>10, <2>1
  <2>2. CASE c1 # c
    <3>1. q = agenda[c1][i] /\ i \in DOMAIN agenda[c1]
      BY <1>4, <1>10, <2>2
    <3>2. q \in Request /\ StillValid(q)
      BY <3>1 DEF Inv, AgendaInv, AgendaType, RequestsValid
    <3> QED BY <1>9, <3>2
  <2> QED BY <2>1, <2>2
<1>11. RequestsValid'
  BY <1>10 DEF RequestsValid, StillValid, Came, ToCome, Adds
<1> QED BY <1>2, <1>4, <1>5, <1>6, <1>11 DEF Inv

\* A client's change succeeds: it leaves a shaped topology, or the same.
LEMMA TailInv ==
    ASSUME Inv, NEW c \in Client, agenda[c] # <<>>,
           agenda' = [agenda EXCEPT ![c] = Tail(agenda[c])], created' = created,
           content' = [content EXCEPT ![c] = None],
           Shaped(topology, Head(agenda[c]), topology'),
           issued' = issued \cup Atomic!NewUnits(topology, topology'),
           \/ topology' = topology /\ current' = current \ {c}
           \/ current' = {}
    PROVE  Inv'
<1> DEFINE q == Head(agenda[c])
<1>1. /\ AgendaInv /\ agenda \in [Client -> Seq(Request)]
      /\ content \in [Client -> TopologyType \cup {None}]
      /\ topology \in TopologyType /\ topology' \in TopologyType
  BY SameTypes DEF Inv, AgendaInv, AgendaType, VersionsTell, Atomic!TypeOK, Shaped
<1>2. q \in Request /\ 1 \in DOMAIN agenda[c] /\ q = agenda[c][1]
  BY <1>1
<1>3. /\ AgendaInv'
      /\ \A kind \in {"service", "unit"}, id \in Nat : Came(kind, id) => Came(kind, id)'
      /\ \A kind \in {"service", "unit"}, id \in Nat : Adds(q, kind, id) => Came(kind, id)'
      /\ \A c1 \in Client : \A i \in DOMAIN agenda'[c1] :
            \E j \in DOMAIN agenda[c1] : agenda'[c1][i] = agenda[c1][j]
  BY <1>1, TailAgenda
<1> HIDE DEF q
<1>4. Shaped(topology, q, topology')
  BY DEF q
<1>5. StillValid(q)
  BY <1>2 DEF Inv, RequestsValid
<1>6. VersionsTell'
  BY <1>1 DEF Inv, VersionsTell
<1>7. ReadsServeChanges'
  <2> SUFFICES ASSUME NEW c1 \in Client, content'[c1] # None
               PROVE  agenda'[c1] # <<>> /\ Head(agenda'[c1]).change # "list_units"
    BY DEF ReadsServeChanges, Idle, Change
  <2>1. c1 # c /\ agenda'[c1] = agenda[c1] /\ content'[c1] = content[c1]
    BY <1>1
  <2> QED BY <2>1 DEF Inv, ReadsServeChanges, Idle, Change
<1>8. Kept
  <2>1. ASSUME NEW s \in ServiceId, Came("service", s)
        PROVE  topology'.services[s] \in {topology.services[s], None}
    <3>1. ~Adds(q, "service", s)
      BY <1>2, <2>1 DEF Came, ToCome
    <3> QED BY <1>4, <3>1 DEF Shaped
  <2>2. ASSUME NEW u \in UnitId, topology'.units[u] # None
        PROVE  \/ /\ topology.units[u] # None
                  /\ topology'.units[u].service = topology.units[u].service
                  /\ topology'.units[u].container = topology.units[u].container
               \/ \E c1 \in Client : \E i \in DOMAIN agenda[c1] :
                    /\ Adds(agenda[c1][i], "unit", u)
                    /\ topology'.units[u].container = agenda[c1][i].container
    BY <1>2, <1>4, <2>2 DEF Shaped
  <2> QED BY <2>1, <2>2 DEF Kept
<1>9. ASSUME NEW u \in UnitId, topology.units[u] = None, topology'.units[u] # None
      PROVE  /\ Adds(q, "unit", u) /\ topology'.units[u].service = q.service
             /\ topology'.services[q.service] # None
             /\ q.service \in ServiceId /\ Came("service", q.service)
  <2>1. /\ Adds(q, "unit", u) /\ topology'.units[u].service = q.service
        /\ topology'.services[q.service] # None
    BY <1>4, <1>9 DEF Shaped
  <2>2. q.change = "add_unit"
    BY <2>1 DEF Adds
  <2> QED BY <1>2, <1>5, <2>1, <2>2, RequestType DEF StillValid
<1>10. Atomic!TypeOK'
  <2>1. ASSUME NEW u \in UnitId, topology.units[u] = None, topology'.units[u] # None
        PROVE  get_service_unit_name(topology', u) \in ServiceName \X Nat
    <3>1. topology'.units[u] \in Unit /\ topology'.services[topology'.units[u].service] # None
      BY <1>1, <1>9, <2>1 DEF TopologyType
    <3>2. topology'.services[topology'.units[u].service] \in ServiceName
      BY <1>1, <3>1 DEF TopologyType, Unit
    <3> QED BY <3>1, <3>2 DEF get_service_unit_name, Unit
  <2>2. \A e \in Atomic!NewUnits(topology, topology') :
            e \in [unit : UnitId, name : ServiceName \X Nat]
    BY <2>1, SameTypes DEF Atomic!NewUnits
  <2> QED BY <1>1, <2>2, SameTypes DEF Inv, Atomic!TypeOK
<1>11. Atomic!ServiceNamesUnique'
  <2> SUFFICES ASSUME NEW s1 \in ServiceId, NEW s2 \in ServiceId, topology'.services[s1] # None,
                      topology'.services[s1] = topology'.services[s2]
               PROVE  s1 = s2
    BY DEF Atomic!ServiceNamesUnique, Atomic!has_service
  <2>1. \A s \in {s1, s2} :
        \/ topology'.services[s] = topology.services[s]
        \/ /\ q.change = "add_service" /\ q.service = s
           /\ \A s3 \in ServiceId : topology.services[s3] # topology'.services[s]
    BY <1>4 DEF Shaped, Adds
  <2>2. topology.services[s1] # None /\ topology.services[s1] = topology.services[s2] => s1 = s2
    BY DEF Inv, Atomic!ServiceNamesUnique, Atomic!has_service
  <2> QED BY <2>1, <2>2
<1>12. ContentCame'
  <2>1. ASSUME NEW s \in ServiceId, topology'.services[s] # None PROVE Came("service", s)'
    <3>1. topology.services[s] # None \/ Adds(q, "service", s)
      BY <1>4, <2>1 DEF Shaped
    <3> QED BY <1>3, <3>1, IdAssumption DEF Inv, ContentCame
  <2>2. ASSUME NEW u \in UnitId, topology'.units[u] # None,
               NEW s, s = topology'.units[u].service
        PROVE  Came("unit", u)' /\ Came("service", s)'
    <3>1. CASE topology.units[u] = None
      <4>1. Came("service", s) /\ s \in ServiceId /\ Adds(q, "unit", u)
        BY <1>9, <2>2, <3>1
      <4> QED BY <1>3, <4>1, IdAssumption
    <3>2. CASE topology.units[u] # None
      <4>1. s = topology.units[u].service
        BY <1>4, <2>2, <3>2 DEF Shaped
      <4>2. topology.units[u].service \in ServiceId
        BY <1>1, <3>2 DEF TopologyType, Unit
      <4>3. Came("unit", u) /\ Came("service", s)
        BY <3>2, <4>1 DEF Inv, ContentCame
      <4> QED BY <1>3, <4>1, <4>2, <4>3, IdAssumption
    <3> QED BY <3>1, <3>2
  <2>3. ASSUME NEW i \in issued' PROVE Came("unit", i.unit)'
    <3>1. CASE i \in issued
      <4>1. i.unit \in UnitId
        BY <3>1 DEF Inv, Atomic!TypeOK
      <4> QED BY <1>3, <3>1, <4>1, IdAssumption DEF Inv, ContentCame
    <3>2. CASE i \in Atomic!NewUnits(topology, topology')
      <4>1. i.unit \in UnitId /\ topology.units[i.unit] = None /\ topology'.units[i.unit] # None
        BY <3>2 DEF Atomic!NewUnits
      <4> QED BY <2>2, <4>1
    <3> QED BY <3>1, <3>2
  <2>4. ASSUME NEW r \in RelationId, topology'.relations[r] # None
        PROVE  r \in created'["relation"]
    <3>1. CASE topology.relations[r] # None
      BY <3>1 DEF Inv, ContentCame
    <3>2. CASE q.change = "add_relation" /\ r = q.relation
      BY <1>1, <1>2, <3>2 DEF AgendaInv, IdsCreated
    <3> QED BY <1>4, <2>4, <3>1, <3>2 DEF Shaped
  <2> QED BY <2>1, <2>2, <2>3, <2>4 DEF ContentCame, Came, ToCome, Adds
<1>13. ASSUME NEW p \in Request, StillValid(p) PROVE StillValid(p)'
  BY <1>3, <1>8, <1>13, StillValidKept
<1>14. ASSUME NEW c1 \in Client, NEW i \in DOMAIN agenda'[c1], NEW p, p = agenda'[c1][i]
       PROVE  StillValid(p)'
  <2>1. PICK j \in DOMAIN agenda[c1] : p = agenda[c1][j]
    BY <1>3, <1>14
  <2>2. p \in Request /\ StillValid(p)
    BY <1>1, <2>1 DEF Inv, RequestsValid
  <2> QED BY <1>13, <2>2
<1>15. RequestsValid'
  BY ONLY <1>14 DEF RequestsValid, StillValid, Came, ToCome, Adds
<1> QED BY <1>3, <1>6, <1>7, <1>10, <1>11, <1>12, <1>15 DEF Inv

\* The requests that stay valid whatever happens.
PlainRequest == {q \in Request :
    /\ q.change \notin {"add_service", "add_unit", "assign_unused_unit", "add_relation"}
    /\ q.change = "remove_machine" => q.machine # RootMachine}

\* Requests to remove, to unassign and to use a new machine are of this kind.
LEMMA PlainRequests ==
    /\ \A m \in MachineId : AddMachine(m) \in PlainRequest
    /\ \A m \in MachineId \ {RootMachine} : RemoveMachine(m) \in PlainRequest
    /\ \A s \in ServiceId : RemoveService(s) \in PlainRequest /\ ListUnits(s) \in PlainRequest
    /\ \A s \in ServiceId, u \in UnitId :
        RemoveUnit(s, u) \in PlainRequest /\ UnassignUnit(s, u) \in PlainRequest
    /\ \A s \in ServiceId, u \in UnitId, m \in MachineId : AssignUnit(s, u, m) \in PlainRequest
    /\ \A r \in RelationId : RemoveRelation(r) \in PlainRequest
<1>1. \A m \in MachineId : AddMachine(m) \in PlainRequest
  BY DEF PlainRequest, Request, AddMachine
<1>2. \A m \in MachineId \ {RootMachine} : RemoveMachine(m) \in PlainRequest
  BY DEF PlainRequest, Request, RemoveMachine
<1>3. \A s \in ServiceId : RemoveService(s) \in PlainRequest /\ ListUnits(s) \in PlainRequest
  <2> SUFFICES ASSUME NEW s \in ServiceId
               PROVE  RemoveService(s) \in PlainRequest /\ ListUnits(s) \in PlainRequest
    OBVIOUS
  <2>1. RemoveService(s) \in Request /\ ListUnits(s) \in Request
    BY DEF Request
  <2> QED BY <2>1 DEF PlainRequest, RemoveService, ListUnits
<1>4. \A s \in ServiceId, u \in UnitId :
        RemoveUnit(s, u) \in PlainRequest /\ UnassignUnit(s, u) \in PlainRequest
  <2> SUFFICES ASSUME NEW s \in ServiceId, NEW u \in UnitId
               PROVE  RemoveUnit(s, u) \in PlainRequest /\ UnassignUnit(s, u) \in PlainRequest
    OBVIOUS
  <2>1. RemoveUnit(s, u) \in Request /\ UnassignUnit(s, u) \in Request
    BY DEF Request
  <2> QED BY <2>1 DEF PlainRequest, RemoveUnit, UnassignUnit
<1>5. \A s \in ServiceId, u \in UnitId, m \in MachineId : AssignUnit(s, u, m) \in PlainRequest
  <2> SUFFICES ASSUME NEW s \in ServiceId, NEW u \in UnitId, NEW m \in MachineId
               PROVE  AssignUnit(s, u, m) \in PlainRequest
    OBVIOUS
  <2>1. AssignUnit(s, u, m) \in Request
    BY DEF Request
  <2> QED BY <2>1 DEF PlainRequest, AssignUnit
<1>6. \A r \in RelationId : RemoveRelation(r) \in PlainRequest
  BY DEF PlainRequest, Request, RemoveRelation
<1> QED BY <1>1, <1>2, <1>3, <1>4, <1>5, <1>6

\* A client gets an agenda of such requests.
LEMMA PlainAgendaInv ==
    ASSUME Inv, NEW c \in Client, NEW list \in Seq(PlainRequest),
           agenda' = [agenda EXCEPT ![c] = list],
           created' = created \/ \E m : CreateSequence("machine", m),
           topology' = topology, issued' = issued,
           \/ content[c] = None /\ content' = content /\ current' = current
           \/ content' = [content EXCEPT ![c] = None] /\ current' = current \ {c}
    PROVE  Inv'
<1>1. list \in Seq(Request) /\ \A i \in DOMAIN list : list[i] \in PlainRequest
  BY DEF PlainRequest
<1>2. \A i \in DOMAIN list : StillValid(list[i])'
  BY <1>1 DEF StillValid, PlainRequest
<1>3. /\ created' \in [{"machine", "service", "unit", "relation"} -> SUBSET Nat]
      /\ \A kind \in {"service", "unit", "relation"} : created[kind] \subseteq created'[kind]
      /\ IsFiniteSet(created'["unit"]) /\ IsFiniteSet(created'["relation"])
  <2>1. CASE created' = created
    BY <2>1 DEF Inv, AgendaInv, AgendaType, IdsCreated
  <2>2. CASE \E m : CreateSequence("machine", m)
    BY <2>2, CreateSequenceEffect DEF Inv
  <2> QED BY <2>1, <2>2
<1>4. /\ \A i \in DOMAIN list : \A kind, id : ~Adds(list[i], kind, id)
      /\ \A i \in DOMAIN list : list[i].change # "add_relation"
  BY <1>1 DEF PlainRequest, Adds
<1>5. NewAgendaOf(c, list)
  BY <1>1, <1>3, <1>4 DEF NewAgendaOf
<1> QED BY <1>2, <1>5, NewAgendaInv

\* An idle client has read nothing.
LEMMA IdleReadsNothing == ASSUME Inv, NEW c \in Client, Idle(c) PROVE content[c] = None
BY DEF Inv, ReadsServeChanges

\* Any number of relations or units can be put in an order.
LEMMA OrdersType ==
    ASSUME NEW S, IsFiniteSet(S), NEW order \in Orders(S)
    PROVE  order \in Seq(S) /\ DOMAIN order = 1..Len(order) /\ Len(order) \in Nat
<1>1. Cardinality(S) \in Nat
  BY FS_CardinalityType
<1> QED BY <1>1 DEF Orders

\* remove_machine_state begins with a machine that is not the root machine.
LEMMA RemoveMachineStateInv ==
    ASSUME Inv, NEW c \in Client, RemoveMachineState(c) PROVE Inv'
<1>1. PICK m \in MachineId \ {RootMachine} : Begin(c, <<RemoveMachine(m)>>)
  BY DEF RemoveMachineState
<1>2. <<RemoveMachine(m)>> \in Seq(PlainRequest)
  BY PlainRequests
<1> QED BY <1>1, <1>2, IdleReadsNothing, PlainAgendaInv DEF RemoveMachineState, Begin

\* remove_unit_state unassigns and removes, whatever others do meanwhile.
LEMMA RemoveUnitStateInv ==
    ASSUME Inv, NEW c \in Client, RemoveUnitState(c) PROVE Inv'
<1>1. PICK s \in ServiceId, u \in UnitId : Begin(c, RemoveUnitChanges(s, u))
  BY DEF RemoveUnitState
<1>2. RemoveUnitChanges(s, u) \in Seq(PlainRequest)
  BY PlainRequests DEF RemoveUnitChanges
<1> QED BY <1>1, <1>2, IdleReadsNothing, PlainAgendaInv DEF RemoveUnitState, Begin

\* remove_relation_state removes the relation it found.
LEMMA RemoveRelationStateInv ==
    ASSUME Inv, NEW c \in Client, RemoveRelationState(c) PROVE Inv'
<1>1. PICK r \in RelationId : Begin(c, <<RemoveRelation(r)>>)
  BY DEF RemoveRelationState, get_relation_between_endpoints
<1>2. <<RemoveRelation(r)>> \in Seq(PlainRequest)
  BY PlainRequests
<1> QED BY <1>1, <1>2, IdleReadsNothing, PlainAgendaInv DEF RemoveRelationState, Begin

\* remove_service_state begins with the relations the service has.
LEMMA RemoveServiceStateInv ==
    ASSUME Inv, NEW c \in Client, RemoveServiceState(c) PROVE Inv'
<1>1. PICK s \in ServiceId : \E order \in Orders(get_relations_for_service(topology, s)) :
        Begin(c, [i \in DOMAIN order |-> RemoveRelation(order[i])] \o <<ListUnits(s)>>)
  BY DEF RemoveServiceState
<1> DEFINE S == get_relations_for_service(topology, s)
<1>2. PICK order \in Orders(S) :
        Begin(c, [i \in DOMAIN order |-> RemoveRelation(order[i])] \o <<ListUnits(s)>>)
  BY <1>1
<1>3. S \subseteq RelationId /\ S \subseteq created["relation"]
  BY DEF get_relations_for_service, relation_has_service, Inv, ContentCame
<1>4. IsFiniteSet(S)
  BY <1>3, FS_Subset DEF Inv, AgendaInv, IdsCreated
<1> HIDE DEF S
<1>5. order \in Seq(RelationId) /\ DOMAIN order = 1..Len(order) /\ Len(order) \in Nat
  BY <1>2, <1>3, <1>4, OrdersType
<1> DEFINE removals == [i \in DOMAIN order |-> RemoveRelation(order[i])]
<1>6. removals \in Seq(PlainRequest)
  <2>1. \A i \in 1..Len(order) : RemoveRelation(order[i]) \in PlainRequest
    BY <1>5, PlainRequests
  <2> QED BY <1>5, <2>1
<1>7. <<ListUnits(s)>> \in Seq(PlainRequest)
  BY PlainRequests
<1> HIDE DEF removals
<1>8. removals \o <<ListUnits(s)>> \in Seq(PlainRequest)
  BY <1>6, <1>7
<1>9. Begin(c, removals \o <<ListUnits(s)>>)
  BY <1>2 DEF removals
<1> QED BY <1>8, <1>9, IdleReadsNothing, PlainAgendaInv DEF RemoveServiceState, Begin

\* It goes on with the units the service has when the relations are gone.
LEMMA ReadUnitsInv ==
    ASSUME Inv, NEW c \in Client, ReadUnits(c) PROVE Inv'
<1>1. content[c] = None
  BY DEF ReadUnits, Inv, ReadsServeChanges
<1>2. CASE agenda' = [agenda EXCEPT ![c] = <<>>]
  <2>1. <<>> \in Seq(PlainRequest)
    OBVIOUS
  <2> QED BY <1>1, <1>2, <2>1, PlainAgendaInv DEF ReadUnits
<1>3. CASE has_service(topology, Change(c).service)
  <2> DEFINE s == Change(c).service
             S == get_service_units(topology, s)
  <2>1. s \in ServiceId
    BY <1>3 DEF has_service
  <2>2. PICK order \in Orders(S) :
            agenda' = [agenda EXCEPT ![c] =
                [i \in 1..2 * Len(order) |->
                    RemoveUnitChanges(s, order[(i + 1) \div 2])[2 - (i % 2)]]
                \o <<RemoveService(s)>>]
    BY <1>3 DEF ReadUnits
  <2>3. S \subseteq UnitId /\ S \subseteq created["unit"]
    BY DEF get_service_units, has_service_unit, Inv, ContentCame, Came
  <2>4. IsFiniteSet(S)
    BY <2>3, FS_Subset DEF Inv, AgendaInv, IdsCreated
  <2> HIDE DEF S, s
  <2>5. order \in Seq(UnitId) /\ DOMAIN order = 1..Len(order) /\ Len(order) \in Nat
    BY <2>2, <2>3, <2>4, OrdersType
  <2> DEFINE removal(i) == RemoveUnitChanges(s, order[(i + 1) \div 2])[2 - (i % 2)]
             removals == [i \in 1..2 * Len(order) |-> removal(i)]
  <2>6. ASSUME NEW i \in 1..2 * Len(order) PROVE removal(i) \in PlainRequest
    <3>1. (i + 1) \div 2 \in 1..Len(order) /\ 2 - (i % 2) \in {1, 2}
      BY <2>5
    <3>2. order[(i + 1) \div 2] \in UnitId
      BY <2>5, <3>1
    <3>3. \A u \in UnitId, k \in {1, 2} : RemoveUnitChanges(s, u)[k] \in PlainRequest
      BY <2>1, PlainRequests DEF RemoveUnitChanges
    <3> QED BY <3>1, <3>2, <3>3
  <2> HIDE DEF removal
  <2>7. removals \in Seq(PlainRequest)
    BY <2>5, <2>6
  <2>8. <<RemoveService(s)>> \in Seq(PlainRequest)
    BY <2>1, PlainRequests
  <2>9. agenda' = [agenda EXCEPT ![c] = removals \o <<RemoveService(s)>>]
    BY <2>2 DEF removal
  <2> HIDE DEF removals
  <2>10. removals \o <<RemoveService(s)>> \in Seq(PlainRequest)
    BY <2>7, <2>8
  <2> QED BY <1>1, <2>9, <2>10, PlainAgendaInv DEF ReadUnits
<1> QED BY <1>2, <1>3 DEF ReadUnits

\* A method that ends before its time leaves nothing behind.
LEMMA EndInv ==
    ASSUME Inv, NEW c \in Client, Raise(c) \/ Die(c) PROVE Inv'
<1>1. <<>> \in Seq(PlainRequest)
  OBVIOUS
<1> QED BY <1>1, PlainAgendaInv DEF Raise, Die, GoOn

\* add_service_state creates the id first.
LEMMA AddServiceStateInv ==
    ASSUME Inv, NEW c \in Client, AddServiceState(c) PROVE Inv'
<1>1. PICK s \in ServiceId, n \in ServiceName :
        CreateSequence("service", s) /\ Begin(c, <<AddService(s, n)>>)
  BY DEF AddServiceState
<1> DEFINE list == <<AddService(s, n)>>
<1>2. /\ s \notin created["service"] /\ s \in created'["service"]
      /\ created' \in [{"machine", "service", "unit", "relation"} -> SUBSET Nat]
      /\ \A k \in {"machine", "service", "unit", "relation"} : created[k] \subseteq created'[k]
      /\ IsFiniteSet(created'["unit"]) /\ IsFiniteSet(created'["relation"])
  BY <1>1, CreateSequenceEffect DEF Inv
<1>3. list \in Seq(Request)
  BY DEF Request
<1>4. \A i \in DOMAIN list : i = 1 /\ list[i] = AddService(s, n)
  OBVIOUS
<1> HIDE DEF list
<1>5. NewAgendaOf(c, list)
  BY <1>1, <1>2, <1>3, <1>4 DEF NewAgendaOf, Begin, Adds, AddService, list
<1>6. \A i \in DOMAIN list : StillValid(list[i])'
  BY <1>4 DEF StillValid, AddService
<1> QED BY <1>1, <1>5, <1>6, IdleReadsNothing, NewAgendaInv DEF Begin

\* A unit is added to a service, and inside a unit, that were found.
LEMMA NewUnitStillValid ==
    ASSUME Inv, NEW c \in Client, NEW list, NewAgendaOf(c, list), topology' = topology,
           NEW s \in ServiceId, has_service(topology, s),
           NEW u \in UnitId, u \notin created["unit"], NEW p \in UnitId \cup {None},
           IF p = None THEN topology.services[s] \notin Subordinate
           ELSE /\ topology.services[s] \in Subordinate
                /\ topology.units[p] # None
                /\ topology.services[topology.units[p].service] \notin Subordinate
    PROVE  StillValid(AddUnit(s, u, p))'
<1>1. \A kind \in {"service", "unit"}, id \in Nat : Came(kind, id) => Came(kind, id)'
  BY NewAgenda DEF Inv
<1>2. Came("service", s)'
  BY <1>1, IdAssumption DEF Inv, ContentCame, has_service
<1>3. p # None => Came("unit", p)'
  BY <1>1, IdAssumption DEF Inv, ContentCame
<1> QED BY <1>2, <1>3 DEF StillValid, AddUnit

\* add_unit_state adds a unit under a new id and then places that unit.
LEMMA AddUnitStateInv ==
    ASSUME Inv, NEW c \in Client, AddUnitState(c) PROVE Inv'
<1>1. PICK s \in ServiceId, u \in UnitId, policy \in Policy :
        /\ has_service(topology, s) /\ topology.services[s] \notin Subordinate
        /\ CreateSequence("unit", u)
        /\ Begin(c, <<AddUnit(s, u, None), Placement(policy, s, u)>>)
  BY DEF AddUnitState
<1> DEFINE list == <<AddUnit(s, u, None), Placement(policy, s, u)>>
<1>2. /\ u \notin created["unit"] /\ u \in created'["unit"] /\ u \in Nat
      /\ created' \in [{"machine", "service", "unit", "relation"} -> SUBSET Nat]
      /\ \A k \in {"machine", "service", "unit", "relation"} : created[k] \subseteq created'[k]
      /\ IsFiniteSet(created'["unit"]) /\ IsFiniteSet(created'["relation"])
  BY <1>1, CreateSequenceEffect DEF Inv
<1>3. AddUnit(s, u, None) \in Request
  BY DEF Request
<1>4. Placement(policy, s, u) \in Request
  BY IdAssumption DEF Request, Placement, RootMachine
<1>5. list \in Seq(Request)
  BY <1>3, <1>4
<1>6. /\ list[1] = AddUnit(s, u, None) /\ list[2] = Placement(policy, s, u)
      /\ \A i \in DOMAIN list : i = 1 \/ i = 2
  OBVIOUS
<1> HIDE DEF list
<1>7. /\ \A kind, id : Adds(list[1], kind, id) => kind = "unit" /\ id = u
      /\ \A kind, id : ~Adds(list[2], kind, id)
      /\ list[1].change = "add_unit" /\ list[1].container = None
      /\ list[2].change \in {"assign_unit", "assign_unused_unit"} /\ list[2].unit = u
  BY <1>6 DEF Adds, AddUnit, Placement, AssignUnit, AssignUnusedUnit
<1>8. NewAgendaOf(c, list)
  BY <1>1, <1>2, <1>5, <1>6, <1>7 DEF NewAgendaOf, Begin, list
<1>9. topology' = topology /\ issued' = issued /\ content' = content /\ current' = current
  BY <1>1 DEF Begin
<1>10. StillValid(AddUnit(s, u, None))'
  BY <1>1, <1>2, <1>8, <1>9, NewUnitStillValid
<1>11. ASSUME NEW q, q = list[2] PROVE StillValid(q)'
  <2>1. \A c1 \in Client : \A i \in DOMAIN agenda'[c1] :
            IF c1 = c THEN i \in DOMAIN list /\ agenda'[c1][i] = list[i]
            ELSE i \in DOMAIN agenda[c1] /\ agenda'[c1][i] = agenda[c1][i]
    BY <1>8, NewAgenda DEF Inv
  <2>2. ASSUME NEW c1 \in Client, NEW i \in DOMAIN agenda'[c1],
               Adds(agenda'[c1][i], "unit", u)
        PROVE  agenda'[c1][i].container = None
    <3>1. CASE c1 = c
      BY <1>6, <1>7, <2>1, <2>2, <3>1
    <3>2. CASE c1 # c
      <4>1. i \in DOMAIN agenda[c1] /\ Adds(agenda[c1][i], "unit", u)
        BY <2>1, <2>2, <3>2
      <4>2. ToCome("unit", u)
        BY <4>1 DEF ToCome
      <4> QED BY <1>2, <4>2 DEF Inv, AgendaInv, IdsCreated
    <3> QED BY <3>1, <3>2
  <2>3. topology.units[u] = None
    BY <1>2 DEF Inv, ContentCame, Came
  <2>4. /\ q.change \in {"assign_unit", "assign_unused_unit"} /\ q.unit = u
        /\ topology'.units[u] = None
    BY <1>7, <1>9, <1>11, <2>3
  <2> QED BY <1>2, <2>2, <2>4 DEF StillValid, Adds
<1>12. \A i \in DOMAIN list : StillValid(list[i])'
  BY <1>6, <1>10, <1>11
<1> QED BY <1>8, <1>9, <1>12, <1>1, IdleReadsNothing, NewAgendaInv DEF Begin

\* The agent of a principal unit adds a unit inside its own.
LEMMA AddSubordinateUnitInv ==
    ASSUME Inv, NEW c \in Client, AddSubordinateUnit(c) PROVE Inv'
<1>1. PICK p \in UnitId, s \in ServiceId, u \in UnitId :
        /\ topology.units[p] # None
        /\ topology.services[s] \in Subordinate
        /\ topology.services[topology.units[p].service] \notin Subordinate
        /\ CreateSequence("unit", u)
        /\ Begin(c, <<AddUnit(s, u, p)>>)
  BY DEF AddSubordinateUnit
<1> DEFINE list == <<AddUnit(s, u, p)>>
<1>2. /\ u \notin created["unit"] /\ u \in created'["unit"] /\ u \in Nat
      /\ created' \in [{"machine", "service", "unit", "relation"} -> SUBSET Nat]
      /\ \A k \in {"machine", "service", "unit", "relation"} : created[k] \subseteq created'[k]
      /\ IsFiniteSet(created'["unit"]) /\ IsFiniteSet(created'["relation"])
  BY <1>1, CreateSequenceEffect DEF Inv
<1>3. AddUnit(s, u, p) \in Request
  BY DEF Request
<1>4. list \in Seq(Request)
  BY <1>3
<1>5. \A i \in DOMAIN list : i = 1 /\ list[i] = AddUnit(s, u, p)
  OBVIOUS
<1> HIDE DEF list
<1>6. \A kind, id : Adds(AddUnit(s, u, p), kind, id) => kind = "unit" /\ id = u
  BY DEF Adds, AddUnit
<1>7. AddUnit(s, u, p).change = "add_unit"
  BY DEF AddUnit
<1>8. NewAgendaOf(c, list)
  BY <1>1, <1>2, <1>4, <1>5, <1>6, <1>7 DEF NewAgendaOf, Begin, list
<1>9. topology' = topology /\ issued' = issued /\ content' = content /\ current' = current
  BY <1>1 DEF Begin
<1>10. has_service(topology, s) /\ p # None
  BY <1>1, ClientAssumption, NoneAssumption DEF has_service
<1>11. StillValid(AddUnit(s, u, p))'
  BY <1>1, <1>2, <1>8, <1>9, <1>10, NewUnitStillValid
<1>12. \A i \in DOMAIN list : StillValid(list[i])'
  BY <1>5, <1>11
<1> QED BY <1>1, <1>8, <1>9, <1>12, IdleReadsNothing, NewAgendaInv DEF Begin

\* add_relation_state looks the services up before it creates the id.
LEMMA AddRelationStateInv ==
    ASSUME Inv, NEW c \in Client, AddRelationState(c) PROVE Inv'
<1>1. PICK r \in RelationId, eps \in EndpointLists :
        /\ \A i \in DOMAIN eps : find_service_with_name(topology, eps[i].service_name) # None
        /\ CreateSequence("relation", r)
        /\ Begin(c, <<AddRelation(r, eps, [i \in DOMAIN eps |->
                    find_service_with_name(topology, eps[i].service_name)])>>)
  BY DEF AddRelationState
<1>0. PICK servs : servs = [i \in DOMAIN eps |->
                        find_service_with_name(topology, eps[i].service_name)]
  OBVIOUS
<1> DEFINE list == <<AddRelation(r, eps, servs)>>
<1>2. /\ r \in created'["relation"]
      /\ created' \in [{"machine", "service", "unit", "relation"} -> SUBSET Nat]
      /\ \A k \in {"machine", "service", "unit", "relation"} : created[k] \subseteq created'[k]
      /\ IsFiniteSet(created'["unit"]) /\ IsFiniteSet(created'["relation"])
  BY <1>1, CreateSequenceEffect DEF Inv
<1>3. /\ servs \in [DOMAIN eps -> ServiceId]
      /\ \A i \in DOMAIN eps : topology.services[servs[i]] = eps[i].service_name
  BY <1>0, <1>1 DEF find_service_with_name
<1>4. DOMAIN eps = {1} \/ DOMAIN eps = {1, 2}
  BY EndpointListsType
<1>5. Begin(c, list)
  BY <1>0, <1>1
<1>6. AddRelation(r, eps, servs) \in Request
  BY <1>3, <1>4 DEF Request
<1>7. list \in Seq(Request)
  BY <1>6
<1>8. \A i \in DOMAIN list : i = 1 /\ list[i] = AddRelation(r, eps, servs)
  OBVIOUS
<1> HIDE DEF list
<1>9. NewAgendaOf(c, list)
  BY <1>2, <1>5, <1>7, <1>8 DEF NewAgendaOf, Begin, Adds, AddRelation
<1>10. topology' = topology /\ issued' = issued /\ content' = content /\ current' = current
  BY <1>5 DEF Begin
<1>11. \A i \in DOMAIN eps : Came("service", servs[i])'
  <2>1. \A kind \in {"service", "unit"}, id \in Nat : Came(kind, id) => Came(kind, id)'
    BY <1>9, NewAgenda DEF Inv
  <2>2. \A i \in DOMAIN eps : topology.services[servs[i]] # None
    BY <1>3, <1>4, EndpointListsType, NoneAssumption DEF RelationEndpoint
  <2> QED BY <1>3, <2>1, <2>2, IdAssumption DEF Inv, ContentCame
<1>12. StillValid(AddRelation(r, eps, servs))'
  BY <1>3, <1>10, <1>11 DEF StillValid, AddRelation
<1>13. \A i \in DOMAIN list : StillValid(list[i])'
  BY <1>8, <1>12
<1> QED BY <1>5, <1>9, <1>10, <1>13, IdleReadsNothing, NewAgendaInv DEF Begin

\* The change functions of the instance of AtomicTopology are those of this
\* module.
LEMMA SameChanges ==
    ASSUME NEW t
    PROVE  /\ \A m : Atomic!add_machine(t, m) = add_machine(t, m)
           /\ \A m : Atomic!remove_machine_change(t, m) = remove_machine_change(t, m)
           /\ \A s, n : Atomic!add_service_change(t, s, n) = add_service_change(t, s, n)
           /\ \A s : Atomic!remove_service(t, s) = remove_service(t, s)
           /\ \A s, u, c : Atomic!add_service_unit(t, s, u, c) = add_service_unit(t, s, u, c)
           /\ \A s, u : Atomic!remove_service_unit(t, s, u) = remove_service_unit(t, s, u)
           /\ \A s, u, m : Atomic!assign_unit(t, s, u, m) = assign_unit(t, s, u, m)
           /\ \A s, u : Atomic!assign_unused_unit(t, s, u) = assign_unused_unit(t, s, u)
           /\ \A s, u : Atomic!unassign_unit(t, s, u) = unassign_unit(t, s, u)
           /\ \A r, eps, f : Atomic!add_relation_change(t, r, eps, f) =
                               add_relation_change(t, r, eps, f)
           /\ \A r : Atomic!remove_relation(t, r) = remove_relation(t, r)
           /\ \A n : Atomic!find_service_with_name(t, n) = find_service_with_name(t, n)
           /\ \A s, u : Atomic!has_service_unit(t, s, u) = has_service_unit(t, s, u)
<1>1. ASSUME NEW m PROVE Atomic!add_machine(t, m) = add_machine(t, m)
  BY DEF Atomic!add_machine, add_machine, Atomic!Unless_raised, Unless_raised,
         Atomic!has_machine, has_machine
<1>2. ASSUME NEW m PROVE Atomic!remove_machine_change(t, m) = remove_machine_change(t, m)
  BY DEF Atomic!remove_machine_change, remove_machine_change, Atomic!remove_machine,
         remove_machine, Atomic!Unless_raised, Unless_raised, Atomic!has_machine,
         has_machine, Atomic!machine_has_units, machine_has_units,
         Atomic!get_service_units_in_machine, get_service_units_in_machine
<1>3. ASSUME NEW s, NEW n PROVE Atomic!add_service_change(t, s, n) = add_service_change(t, s, n)
  BY DEF Atomic!add_service_change, add_service_change, Atomic!add_service, add_service,
         Atomic!Unless_raised, Unless_raised, Atomic!has_service, has_service,
         Atomic!find_service_with_name, find_service_with_name
<1>4. ASSUME NEW s PROVE Atomic!remove_service(t, s) = remove_service(t, s)
  BY DEF Atomic!remove_service, remove_service, Atomic!Unless_raised, Unless_raised,
         Atomic!has_service, has_service, Atomic!has_service_unit, has_service_unit,
         Atomic!get_relations_for_service, get_relations_for_service,
         Atomic!relation_has_service, relation_has_service
<1>5. ASSUME NEW s, NEW u, NEW c
      PROVE  Atomic!add_service_unit(t, s, u, c) = add_service_unit(t, s, u, c)
  BY DEF Atomic!add_service_unit, add_service_unit, Atomic!Unless_raised, Unless_raised,
         Atomic!has_service, has_service, Atomic!has_container_relation,
         has_container_relation, Atomic!get_relations_for_service, get_relations_for_service,
         Atomic!relation_has_service, relation_has_service
<1>6. ASSUME NEW s, NEW u PROVE Atomic!remove_service_unit(t, s, u) = remove_service_unit(t, s, u)
  BY DEF Atomic!remove_service_unit, remove_service_unit, Atomic!Unless_raised,
         Unless_raised, Atomic!has_service_unit, has_service_unit, Atomic!has_service,
         has_service
<1>7. ASSUME NEW s, NEW u, NEW m PROVE Atomic!assign_unit(t, s, u, m) = assign_unit(t, s, u, m)
  BY DEF Atomic!assign_unit, assign_unit, Atomic!assign_service_unit_to_machine,
         assign_service_unit_to_machine, Atomic!Unless_raised, Unless_raised,
         Atomic!has_machine, has_machine, Atomic!has_service_unit, has_service_unit,
         Atomic!has_service, has_service
<1>8. ASSUME NEW s, NEW u PROVE Atomic!assign_unused_unit(t, s, u) = assign_unused_unit(t, s, u)
  BY DEF Atomic!assign_unused_unit, assign_unused_unit, Atomic!unused_machines,
         unused_machines, Atomic!machine_has_units, machine_has_units,
         Atomic!get_service_units_in_machine, get_service_units_in_machine,
         Atomic!RootMachine, RootMachine, Atomic!assign_service_unit_to_machine,
         assign_service_unit_to_machine, Atomic!Unless_raised, Unless_raised,
         Atomic!has_machine, has_machine, Atomic!has_service_unit, has_service_unit,
         Atomic!has_service, has_service
<1>9. ASSUME NEW s, NEW u PROVE Atomic!unassign_unit(t, s, u) = unassign_unit(t, s, u)
  BY DEF Atomic!unassign_unit, unassign_unit, Atomic!unassign_service_unit_from_machine,
         unassign_service_unit_from_machine, Atomic!Unless_raised, Unless_raised,
         Atomic!has_service_unit, has_service_unit, Atomic!has_service, has_service
<1>10. ASSUME NEW r, NEW eps, NEW f
       PROVE  Atomic!add_relation_change(t, r, eps, f) = add_relation_change(t, r, eps, f)
  BY DEF Atomic!add_relation_change, add_relation_change, Atomic!assign_endpoint,
         assign_endpoint, Atomic!assign_service_to_relation, assign_service_to_relation,
         Atomic!add_relation, add_relation, Atomic!Unless_raised, Unless_raised,
         Atomic!relation_scope, relation_scope, Atomic!has_relation_between_endpoints,
         has_relation_between_endpoints, Atomic!joins_endpoints, joins_endpoints,
         Atomic!find_service_with_name, find_service_with_name, Atomic!has_service,
         has_service, Atomic!has_relation, has_relation, Atomic!relation_has_service,
         relation_has_service
<1>11. ASSUME NEW r PROVE Atomic!remove_relation(t, r) = remove_relation(t, r)
  BY DEF Atomic!remove_relation, remove_relation, Atomic!Unless_raised, Unless_raised,
         Atomic!has_relation, has_relation
<1>12. ASSUME NEW n PROVE Atomic!find_service_with_name(t, n) = find_service_with_name(t, n)
  BY DEF Atomic!find_service_with_name, find_service_with_name
<1>13. ASSUME NEW s, NEW u PROVE Atomic!has_service_unit(t, s, u) = has_service_unit(t, s, u)
  BY DEF Atomic!has_service_unit, has_service_unit, Atomic!has_service, has_service
<1> QED BY <1>1, <1>2, <1>3, <1>4, <1>5, <1>6, <1>7, <1>8, <1>9, <1>10, <1>11, <1>12, <1>13

\* What the invariant says of the topology and of the agendas is kept by a
\* step that changes neither.
LEMMA SameTopologyAndAgendas ==
    ASSUME Inv, topology' = topology, issued' = issued, created' = created, agenda' = agenda
    PROVE  /\ Atomic!TypeOK' /\ Atomic!ServiceNamesUnique'
           /\ AgendaInv' /\ ContentCame' /\ RequestsValid'
<1>1. Atomic!TypeOK' /\ Atomic!ServiceNamesUnique'
  BY DEF Inv, Atomic!TypeOK, Atomic!ServiceNamesUnique
<1>2. AgendaType' /\ AddsDiffer' /\ IdsCreated'
  BY DEF Inv, AgendaInv, AgendaType, AddsDiffer, IdsCreated, ToCome
<1>3. ContentCame'
  BY DEF Inv, ContentCame, Came, ToCome
<1>4. RequestsValid'
  BY DEF Inv, RequestsValid, StillValid, Came, ToCome
<1> QED BY <1>1, <1>2, <1>3, <1>4 DEF AgendaInv

\* retry_change reads content and version together.
LEMMA ReadTopologyInv ==
    ASSUME Inv, NEW c \in Client, ReadTopology(c) PROVE Inv'
<1> USE DEF ReadTopology
<1>1. topology \in TopologyType
  BY SameTypes DEF Inv, Atomic!TypeOK
<1>2. VersionsTell' /\ ReadsServeChanges'
  BY <1>1 DEF Inv, VersionsTell, ReadsServeChanges, Idle, Change
<1> QED BY <1>2, SameTopologyAndAgendas DEF Inv

\* After a conflict the client starts again, knowing nothing.
LEMMA ConflictInv ==
    ASSUME Inv, NEW c \in Client, Conflict(c) PROVE Inv'
<1>1. VersionsTell' /\ ReadsServeChanges'
  BY DEF Conflict, Inv, VersionsTell, ReadsServeChanges, Idle, Change
<1> QED BY <1>1, SameTopologyAndAgendas DEF Inv, Conflict

\* _unassigned_placement goes on with a machine of its own.
LEMMA PlaceOnNewMachineInv ==
    ASSUME Inv, NEW c \in Client, PlaceOnNewMachine(c) PROVE Inv'
<1>1. PICK m \in MachineId :
        /\ CreateSequence("machine", m)
        /\ GoOn(c, <<AddMachine(m), AssignUnit(Change(c).service, Change(c).unit, m)>>)
  BY DEF PlaceOnNewMachine
<1>2. Change(c) \in Request /\ Change(c).change = "assign_unused_unit"
  BY DEF PlaceOnNewMachine, Changing, Idle, Change, NoUnusedMachines, Inv, AgendaInv, AgendaType
<1>3. Change(c).service \in ServiceId /\ Change(c).unit \in UnitId
  BY <1>2, RequestType
<1>4. <<AddMachine(m), AssignUnit(Change(c).service, Change(c).unit, m)>> \in Seq(PlainRequest)
  BY <1>3, PlainRequests
<1> QED BY <1>1, <1>4, PlainAgendaInv DEF PlaceOnNewMachine, GoOn

\* The change at the head of the agenda of a client that read the topology.
LEMMA ChangingRequest ==
    ASSUME Inv, NEW c \in Client, Changing(c)
    PROVE  /\ agenda[c] # <<>> /\ Head(agenda[c]) = Change(c)
           /\ Change(c) \in Request /\ StillValid(Change(c))
           /\ Change(c).change # "list_units"
           /\ Change(c).change = "add_relation" =>
                Change(c).services \in [DOMAIN Change(c).endpoints -> ServiceId]
           /\ Change(c).change = "add_unit" => \A i \in issued : i.unit # Change(c).unit
<1>1. /\ agenda[c] # <<>> /\ agenda[c] \in Seq(Request) /\ Head(agenda[c]) = Change(c)
      /\ Change(c).change # "list_units"
  BY DEF Changing, Idle, Change, Inv, ReadsServeChanges, AgendaInv, AgendaType
<1>2. 1 \in DOMAIN agenda[c] /\ Change(c) = agenda[c][1] /\ Change(c) \in Request
  BY <1>1
<1>3. StillValid(Change(c))
  BY <1>2 DEF Inv, RequestsValid
<1>4. Change(c).change = "add_unit" => \A i \in issued : i.unit # Change(c).unit
  BY <1>2 DEF Inv, ContentCame, Came, ToCome, Adds
<1> QED BY <1>1, <1>2, <1>3, <1>4 DEF StillValid

\* A write with the version that was read leaves a shaped topology.
LEMMA WriteTopologyInv ==
    ASSUME Inv, NEW c \in Client, WriteTopology(c) PROVE Inv'
<1>1. content[c] = topology /\ topology \in TopologyType
  BY SameTypes DEF WriteTopology, Inv, VersionsTell, Atomic!TypeOK
<1>2. topology' \in Outcomes(topology, Change(c)) /\ Changing(c)
  BY <1>1 DEF WriteTopology, Results
<1>3. Shaped(topology, Head(agenda[c]), topology') /\ agenda[c] # <<>>
  BY <1>1, <1>2, ChangingRequest, OutcomesShaped
<1> QED BY <1>3, TailInv DEF WriteTopology, GoOn

\* A change that finds nothing to do is over, and the topology stays.
LEMMA KeepTopologyInv ==
    ASSUME Inv, NEW c \in Client, KeepTopology(c) PROVE Inv'
<1>1. topology \in TopologyType /\ topology' = topology /\ agenda[c] # <<>>
  BY SameTypes DEF KeepTopology, Changing, Idle, Inv, Atomic!TypeOK
<1>2. Shaped(topology, Head(agenda[c]), topology')
  BY <1>1, ShapedByAssignments
<1>3. issued' = issued \cup Atomic!NewUnits(topology, topology')
  BY <1>1 DEF KeepTopology, Atomic!NewUnits
<1> QED BY <1>1, <1>2, <1>3, TailInv DEF KeepTopology, GoOn


\* Nothing is in the topology that initialize leaves but the root machine,
\* and no client has begun a method.
LEMMA InitInv == ASSUME Init PROVE Inv
<1> USE DEF Init
<1>1. /\ topology = InitialTopology /\ issued = {}
      /\ agenda = [c \in Client |-> <<>>] /\ content = [c \in Client |-> None]
      /\ current = {}
  BY DEF Atomic!Init, Atomic!InitialTopology, InitialTopology, Atomic!RootMachine, RootMachine
<1>2. Atomic!TypeOK
  <2>1. InitialTopology \in TopologyType
    BY IdAssumption DEF InitialTopology, TopologyType, RootMachine
  <2> QED BY <1>1, <2>1, SameTypes DEF Atomic!TypeOK
<1>3. /\ \A s \in ServiceId : topology.services[s] = None
      /\ \A u \in UnitId : topology.units[u] = None
      /\ \A r \in RelationId : topology.relations[r] = None
  BY <1>1 DEF InitialTopology
<1>4. Atomic!ServiceNamesUnique
  BY <1>3 DEF Atomic!ServiceNamesUnique, Atomic!has_service
<1>5. VersionsTell /\ ReadsServeChanges
  BY <1>1 DEF VersionsTell, ReadsServeChanges
<1>6. \A c \in Client : DOMAIN agenda[c] = {}
  BY <1>1
<1>7. AgendaType
  <2>1. created \in [{"machine", "service", "unit", "relation"} -> SUBSET Nat]
    BY DEF RootMachine
  <2> QED BY <1>1, <2>1 DEF AgendaType
<1>8. IsFiniteSet(created["unit"]) /\ IsFiniteSet(created["relation"])
  BY FS_EmptySet
<1>9. AddsDiffer /\ IdsCreated /\ RequestsValid
  BY <1>6, <1>8 DEF AddsDiffer, IdsCreated, RequestsValid, ToCome
<1>10. ContentCame
  BY <1>1, <1>3 DEF ContentCame
<1> QED BY <1>2, <1>4, <1>5, <1>7, <1>9, <1>10 DEF Inv, AgendaInv

\* Nothing the invariant is about changes when no client does anything.
LEMMA StutterInv == ASSUME Inv, UNCHANGED vars PROVE Inv'
<1>1. VersionsTell' /\ ReadsServeChanges'
  BY DEF vars, Inv, VersionsTell, ReadsServeChanges, Idle, Change
<1> QED BY <1>1, SameTopologyAndAgendas DEF Inv, vars

\* Every step of a client keeps the invariant.
LEMMA NextInv == ASSUME Inv, [Next]_vars PROVE Inv'
<1>1. CASE UNCHANGED vars
  BY <1>1, StutterInv
<1>2. ASSUME NEW c \in Client,
             \/ RemoveMachineState(c) \/ AddServiceState(c) \/ RemoveServiceState(c)
             \/ AddUnitState(c) \/ AddSubordinateUnit(c) \/ RemoveUnitState(c)
             \/ AddRelationState(c) \/ RemoveRelationState(c)
             \/ ReadTopology(c) \/ WriteTopology(c) \/ Conflict(c) \/ KeepTopology(c)
             \/ PlaceOnNewMachine(c) \/ Raise(c) \/ ReadUnits(c) \/ Die(c)
      PROVE  Inv'
  <2>1. CASE RemoveMachineState(c) BY <2>1, RemoveMachineStateInv
  <2>2. CASE AddServiceState(c) BY <2>2, AddServiceStateInv
  <2>3. CASE RemoveServiceState(c) BY <2>3, RemoveServiceStateInv
  <2>4. CASE AddUnitState(c) BY <2>4, AddUnitStateInv
  <2>5. CASE AddSubordinateUnit(c) BY <2>5, AddSubordinateUnitInv
  <2>6. CASE RemoveUnitState(c) BY <2>6, RemoveUnitStateInv
  <2>7. CASE AddRelationState(c) BY <2>7, AddRelationStateInv
  <2>8. CASE RemoveRelationState(c) BY <2>8, RemoveRelationStateInv
  <2>9. CASE ReadTopology(c) BY <2>9, ReadTopologyInv
  <2>10. CASE WriteTopology(c) BY <2>10, WriteTopologyInv
  <2>11. CASE Conflict(c) BY <2>11, ConflictInv
  <2>12. CASE KeepTopology(c) BY <2>12, KeepTopologyInv
  <2>13. CASE PlaceOnNewMachine(c) BY <2>13, PlaceOnNewMachineInv
  <2>14. CASE ReadUnits(c) BY <2>14, ReadUnitsInv
  <2>15. CASE Raise(c) \/ Die(c) BY <2>15, EndInv
  <2> QED BY <1>2, <2>1, <2>2, <2>3, <2>4, <2>5, <2>6, <2>7, <2>8, <2>9, <2>10, <2>11,
             <2>12, <2>13, <2>14, <2>15
<1> QED BY <1>1, <1>2 DEF Next

\* At every moment of every run of the clients: versions tell what was read,
\* ids are used once, and what a method found when it began still holds of
\* the changes it has yet to make.
THEOREM Invariance == Spec => []Inv
<1>1. Init => Inv
  BY InitInv
<1>2. Inv /\ [Next]_vars => Inv'
  BY NextInv
<1> QED BY <1>1, <1>2, PTL DEF Spec

\* The endpoints and the root machine of the instance are those of this module.
LEMMA SameEndpoints == Atomic!EndpointLists = EndpointLists /\ Atomic!RootMachine = RootMachine
BY DEF Atomic!EndpointLists, EndpointLists, Atomic!may_relate_to, may_relate_to,
       Atomic!RootMachine, RootMachine

\* add_unit_state found the service and, for a subordinate, the container:
\* they are, if the change succeeds, as they were then.
LEMMA WriteAddUnit ==
    ASSUME Inv, NEW q \in Request, StillValid(q), q.change = "add_unit",
           \A i \in issued : i.unit # q.unit,
           topology' \in Outcomes(topology, q),
           issued' = issued \cup Atomic!NewUnits(topology, topology')
    PROVE  Atomic!AddUnitState
<1>1. /\ q.service \in ServiceId /\ q.unit \in UnitId /\ q.container \in UnitId \cup {None}
      /\ topology' \in add_service_unit(topology, q.service, q.unit, q.container)
  BY RequestType DEF Outcomes
<1>2. topology' \in Atomic!add_service_unit(topology, q.service, q.unit, q.container)
  BY <1>1, SameChanges
<1>3. /\ has_service(topology, q.service)
      /\ q.container # None => topology.units[q.container] # None
  BY <1>1 DEF add_service_unit, Unless_raised, has_container_relation
<1>4. IF q.container = None THEN topology.services[q.service] \notin Subordinate
      ELSE Atomic!_validate_principal_container(topology, q.service, q.container)
  BY <1>3 DEF StillValid, Atomic!_validate_principal_container, has_service
<1>5. Atomic!Apply(Atomic!add_service_unit(topology, q.service, q.unit, q.container))
  BY <1>2 DEF Atomic!Apply
<1> QED BY <1>1, <1>4, <1>5 DEF Atomic!AddUnitState

\* add_relation_state looked the services up before: if the change succeeds
\* they are in the topology, so the names still give the same ids.
LEMMA WriteAddRelation ==
    ASSUME Inv, NEW q \in Request, StillValid(q), q.change = "add_relation",
           topology' \in Outcomes(topology, q),
           issued' = issued \cup Atomic!NewUnits(topology, topology')
    PROVE  Atomic!AddRelationState
<1>1. /\ q.relation \in RelationId /\ q.endpoints \in EndpointLists
      /\ q.services \in [DOMAIN q.endpoints -> ServiceId]
      /\ topology' \in add_relation_change(topology, q.relation, q.endpoints, q.services)
  BY RequestType DEF Outcomes, StillValid
<1>2. topology \in TopologyType
  BY SameTypes DEF Inv, Atomic!TypeOK
<1>3. \A i \in DOMAIN q.endpoints : has_service(topology, q.services[i])
  <2>1. q.services \in [DOMAIN q.endpoints -> ServiceId \cup {None}]
    BY <1>1
  <2> QED BY <1>1, <1>2, <2>1, RelationAdded
<1>4. \A i \in DOMAIN q.endpoints :
        q.services[i] = Atomic!find_service_with_name(topology, q.endpoints[i].service_name)
  <2> SUFFICES ASSUME NEW i \in DOMAIN q.endpoints
               PROVE  q.services[i] =
                        Atomic!find_service_with_name(topology, q.endpoints[i].service_name)
    OBVIOUS
  <2>1. q.services[i] \in ServiceId /\ topology.services[q.services[i]] # None
    BY <1>1, <1>3 DEF has_service
  <2>2. topology.services[q.services[i]] = q.endpoints[i].service_name
    BY <2>1 DEF StillValid
  <2>3. \A s \in ServiceId : topology.services[s] = q.endpoints[i].service_name =>
            s = q.services[i]
    BY <2>1, <2>2 DEF Inv, Atomic!ServiceNamesUnique, Atomic!has_service
  <2> QED BY <2>1, <2>2, <2>3 DEF Atomic!find_service_with_name
<1>5. PICK f : f = [i \in DOMAIN q.endpoints |->
                    Atomic!find_service_with_name(topology, q.endpoints[i].service_name)]
  OBVIOUS
<1>6. q.services = f
  BY <1>1, <1>4, <1>5
<1>7. topology' \in Atomic!add_relation_change(topology, q.relation, q.endpoints, f)
  BY <1>1, <1>6, SameChanges
<1> QED BY <1>1, <1>5, <1>7, SameEndpoints DEF Atomic!AddRelationState, Atomic!Apply

\* place_unit handed a machine to a unit added without a container.
LEMMA WriteAssignUnused ==
    ASSUME Inv, NEW q \in Request, StillValid(q), q.change = "assign_unused_unit",
           topology' \in Outcomes(topology, q),
           issued' = issued \cup Atomic!NewUnits(topology, topology')
    PROVE  Atomic!AssignToUnusedMachine
<1>1. /\ q.service \in ServiceId /\ q.unit \in UnitId
      /\ topology' \in assign_unused_unit(topology, q.service, q.unit)
  BY RequestType DEF Outcomes
<1>2. topology' \in Atomic!assign_unused_unit(topology, q.service, q.unit)
  BY <1>1, SameChanges
<1>3. Atomic!has_service_unit(topology, q.service, q.unit) =>
        topology.units[q.unit].container = None
  BY DEF StillValid, Atomic!has_service_unit
<1> QED BY <1>1, <1>2, <1>3 DEF Atomic!AssignToUnusedMachine, Atomic!Apply

\* A write with the version that was read applies its change to the topology
\* as it is at that moment.
LEMMA WriteIsAtomic ==
    ASSUME Inv, NEW c \in Client, WriteTopology(c) PROVE Atomic!Next
<1> DEFINE q == Change(c)
<1>1. content[c] = topology /\ topology \in TopologyType
  BY SameTypes DEF WriteTopology, Inv, VersionsTell, Atomic!TypeOK
<1>2. /\ topology' \in Outcomes(topology, q) /\ Changing(c)
      /\ issued' = issued \cup Atomic!NewUnits(topology, topology')
  BY <1>1 DEF WriteTopology, Results
<1>3. /\ q \in Request /\ StillValid(q) /\ q.change # "list_units"
      /\ q.change = "add_unit" => \A i \in issued : i.unit # q.unit
  BY <1>2, ChangingRequest
<1> HIDE DEF q
<1> DEFINE Applied(outcomes) ==
      topology' \in outcomes /\ issued' = issued \cup Atomic!NewUnits(topology, topology')
<1>4. ASSUME NEW outcomes, topology' \in outcomes PROVE Atomic!Apply(outcomes)
  BY <1>2, <1>4 DEF Atomic!Apply
<1> HIDE DEF Applied
<1>5. CASE q.change = "add_machine"
  <2>1. q.machine \in MachineId /\ topology' \in Atomic!add_machine(topology, q.machine)
    BY <1>2, <1>3, <1>5, RequestType, SameChanges DEF Outcomes
  <2> QED BY <1>4, <2>1 DEF Atomic!Next, Atomic!AddMachineState
<1>6. CASE q.change = "remove_machine"
  <2>1. /\ q.machine \in MachineId \ {Atomic!RootMachine}
        /\ topology' \in Atomic!remove_machine_change(topology, q.machine)
    BY <1>2, <1>3, <1>6, RequestType, SameChanges, SameEndpoints DEF Outcomes, StillValid
  <2> QED BY <1>4, <2>1 DEF Atomic!Next, Atomic!RemoveMachineState
<1>7. CASE q.change = "add_service"
  <2>1. /\ q.service \in ServiceId /\ q.name \in ServiceName
        /\ topology' \in Atomic!add_service_change(topology, q.service, q.name)
    BY <1>2, <1>3, <1>7, RequestType, SameChanges DEF Outcomes
  <2> QED BY <1>4, <2>1 DEF Atomic!Next, Atomic!AddServiceState
<1>8. CASE q.change = "remove_service"
  <2>1. q.service \in ServiceId /\ topology' \in Atomic!remove_service(topology, q.service)
    BY <1>2, <1>3, <1>8, RequestType, SameChanges DEF Outcomes
  <2> QED BY <1>4, <2>1 DEF Atomic!Next, Atomic!RemoveServiceState
<1>9. CASE q.change = "add_unit"
  BY <1>2, <1>3, <1>9, WriteAddUnit DEF Atomic!Next
<1>10. CASE q.change = "remove_unit"
  <2>1. /\ q.service \in ServiceId /\ q.unit \in UnitId
        /\ topology' \in Atomic!remove_service_unit(topology, q.service, q.unit)
    BY <1>2, <1>3, <1>10, RequestType, SameChanges DEF Outcomes
  <2> QED BY <1>4, <2>1 DEF Atomic!Next, Atomic!RemoveUnitState
<1>11. CASE q.change = "assign_unit"
  <2>1. /\ q.service \in ServiceId /\ q.unit \in UnitId /\ q.machine \in MachineId
        /\ topology' \in Atomic!assign_unit(topology, q.service, q.unit, q.machine)
    BY <1>2, <1>3, <1>11, RequestType, SameChanges DEF Outcomes
  <2> QED BY <1>4, <2>1 DEF Atomic!Next, Atomic!AssignToMachine
<1>12. CASE q.change = "assign_unused_unit"
  BY <1>2, <1>3, <1>12, WriteAssignUnused DEF Atomic!Next
<1>13. CASE q.change = "unassign_unit"
  <2>1. /\ q.service \in ServiceId /\ q.unit \in UnitId
        /\ topology' \in Atomic!unassign_unit(topology, q.service, q.unit)
    BY <1>2, <1>3, <1>13, RequestType, SameChanges DEF Outcomes
  <2> QED BY <1>4, <2>1 DEF Atomic!Next, Atomic!UnassignFromMachine
<1>14. CASE q.change = "add_relation"
  BY <1>2, <1>3, <1>14, WriteAddRelation DEF Atomic!Next
<1>15. CASE q.change = "remove_relation"
  <2>1. q.relation \in RelationId /\ topology' \in Atomic!remove_relation(topology, q.relation)
    BY <1>2, <1>3, <1>15, RequestType, SameChanges DEF Outcomes
  <2> QED BY <1>4, <2>1 DEF Atomic!Next, Atomic!RemoveRelationState
<1> QED BY <1>3, RequestType, <1>5, <1>6, <1>7, <1>8, <1>9, <1>10, <1>11, <1>12, <1>13,
           <1>14, <1>15

\* Every step of a client is a change of the atomic topology or leaves it alone.
LEMMA StepIsAtomic == ASSUME Inv, [Next]_vars PROVE [Atomic!Next]_(Atomic!vars)
<1>1. ASSUME NEW c \in Client, WriteTopology(c) PROVE Atomic!Next
  BY <1>1, WriteIsAtomic
<1>2. ASSUME NEW c \in Client,
             \/ RemoveMachineState(c) \/ AddServiceState(c) \/ RemoveServiceState(c)
             \/ AddUnitState(c) \/ AddSubordinateUnit(c) \/ RemoveUnitState(c)
             \/ AddRelationState(c) \/ RemoveRelationState(c)
      PROVE  topology' = topology /\ issued' = issued
  BY <1>2 DEF RemoveMachineState, AddServiceState, RemoveServiceState, AddUnitState,
              AddSubordinateUnit, RemoveUnitState, AddRelationState, RemoveRelationState,
              Begin
<1>3. ASSUME NEW c \in Client,
             \/ ReadTopology(c) \/ Conflict(c) \/ KeepTopology(c)
             \/ PlaceOnNewMachine(c) \/ Raise(c) \/ ReadUnits(c) \/ Die(c)
      PROVE  topology' = topology /\ issued' = issued
  BY <1>3 DEF ReadTopology, Conflict, KeepTopology, PlaceOnNewMachine, Raise, ReadUnits, Die
<1> QED BY <1>1, <1>2, <1>3 DEF Next, vars, Atomic!vars

\* No update is lost and none is applied to a stale topology: retry_change
\* makes the changes of any number of clients a sequence of atomic ones.
THEOREM Refinement == Spec => ImplementsAtomicTopology
<1>1. Init => Atomic!Init
  BY DEF Init
<1>2. Inv /\ [Next]_vars => [Atomic!Next]_(Atomic!vars)
  BY StepIsAtomic
<1> QED BY <1>1, <1>2, Invariance, PTL DEF Spec, ImplementsAtomicTopology, Atomic!Spec

\* A machine handed out by assign_to_unused_machine has no unit at that moment.
LEMMA StepReuses ==
    ASSUME Inv, [Next]_vars, NEW c \in Client, NEW u \in UnitId, ~Idle(c),
           Change(c).change = "assign_unused_unit", agenda'[c] # agenda[c],
           topology'.units[u] # topology.units[u]
    PROVE  ~machine_has_units(topology, topology'.units[u].machine)
<1>1. PICK c1 \in Client : WriteTopology(c1)
  <2>1. ~UNCHANGED vars
    BY DEF vars
  <2>2. ASSUME NEW c1 \in Client,
               \/ RemoveMachineState(c1) \/ AddServiceState(c1) \/ RemoveServiceState(c1)
               \/ AddUnitState(c1) \/ AddSubordinateUnit(c1) \/ RemoveUnitState(c1)
               \/ AddRelationState(c1) \/ RemoveRelationState(c1)
        PROVE  topology' = topology
    BY <2>2 DEF RemoveMachineState, AddServiceState, RemoveServiceState, AddUnitState,
                AddSubordinateUnit, RemoveUnitState, AddRelationState, RemoveRelationState,
                Begin
  <2>3. ASSUME NEW c1 \in Client,
               \/ ReadTopology(c1) \/ Conflict(c1) \/ KeepTopology(c1)
               \/ PlaceOnNewMachine(c1) \/ Raise(c1) \/ ReadUnits(c1) \/ Die(c1)
        PROVE  topology' = topology
    BY <2>3 DEF ReadTopology, Conflict, KeepTopology, PlaceOnNewMachine, Raise, ReadUnits, Die
  <2> QED BY <2>1, <2>2, <2>3 DEF Next
<1>2. c1 = c
  BY <1>1 DEF WriteTopology, GoOn, Inv, AgendaInv, AgendaType
<1>3. content[c] = topology /\ topology \in TopologyType
  BY <1>1, <1>2, SameTypes DEF WriteTopology, Inv, VersionsTell, Atomic!TypeOK
<1>4. topology' \in Outcomes(topology, Change(c)) /\ Changing(c)
  BY <1>1, <1>2, <1>3 DEF WriteTopology, Results
<1> DEFINE q == Change(c)
<1>5. q.service \in ServiceId /\ q.unit \in UnitId
  BY <1>4, ChangingRequest, RequestType
<1>6. topology' \in assign_unused_unit(topology, q.service, q.unit)
  BY <1>4 DEF Outcomes
<1> HIDE DEF q
<1>7. PICK m \in unused_machines(topology) :
        topology' \in assign_service_unit_to_machine(topology, q.service, q.unit, m)
  BY <1>6 DEF assign_unused_unit
<1>8. m \in MachineId /\ ~machine_has_units(topology, m)
  BY <1>3, <1>7 DEF unused_machines, TopologyType
<1>9. /\ has_service_unit(topology, q.service, q.unit)
      /\ topology'.units = [topology.units EXCEPT ![q.unit] =
                                [topology.units[q.unit] EXCEPT !.machine = m]]
  BY <1>3, <1>5, <1>7, <1>8, UnitAssigned
<1>10. topology.units \in [UnitId -> Unit \cup {None}]
  BY <1>3 DEF TopologyType
<1>11. u = q.unit
  BY <1>5, <1>9, <1>10
<1>12. topology.units[u] \in Unit
  BY <1>9, <1>10, <1>11 DEF has_service_unit
<1>13. topology'.units[u].machine = m
  BY <1>9, <1>10, <1>11, <1>12 DEF Unit
<1> QED BY <1>8, <1>13

\* So no two units share a reused machine, although the machines were read
\* before the assignment was written.
THEOREM Reuse == Spec => ReusedMachinesAreUnused
<1> DEFINE A == \A c \in Client, u \in UnitId :
                 /\ ~Idle(c) /\ Change(c).change = "assign_unused_unit" /\ agenda'[c] # agenda[c]
                 /\ topology'.units[u] # topology.units[u]
                 => ~machine_has_units(topology, topology'.units[u].machine)
<1>1. Inv /\ [Next]_vars => [A]_vars
  BY StepReuses
<1> QED BY <1>1, Invariance, PTL DEF Spec, ReusedMachinesAreUnused
\* The sequence nodes have ids of their own kind, in every state of the
\* clients; what the rest of the types needs, the invariant says.
CreatedType == created \in [machine : SUBSET MachineId, service : SUBSET ServiceId,
                            unit : SUBSET UnitId, relation : SUBSET RelationId]

\* A sequence node gets an id of its kind.
LEMMA CreateSequenceType ==
    ASSUME CreatedType, NEW kind \in {"machine", "service", "unit", "relation"}, NEW id,
           CreateSequence(kind, id)
    PROVE  CreatedType'
<1>1. /\ Ids["machine"] = MachineId /\ Ids["service"] = ServiceId
      /\ Ids["unit"] = UnitId /\ Ids["relation"] = RelationId
  BY DEF Ids
<1>2. created' = [created EXCEPT ![kind] = @ \cup {id}] /\ id \in Ids[kind]
  BY DEF CreateSequence
<1> QED BY <1>1, <1>2 DEF CreatedType

\* No step creates anything but sequence nodes.
LEMMA CreatedTypeKept == ASSUME CreatedType, [Next]_vars PROVE CreatedType'
<1>1. created' = created \/
      \E kind \in {"machine", "service", "unit", "relation"} : \E id : CreateSequence(kind, id)
  <2>1. ASSUME NEW c \in Client,
               \/ AddServiceState(c) \/ AddUnitState(c) \/ AddSubordinateUnit(c)
               \/ AddRelationState(c) \/ PlaceOnNewMachine(c)
        PROVE  \E kind \in {"machine", "service", "unit", "relation"} : \E id :
                    CreateSequence(kind, id)
    BY <2>1 DEF AddServiceState, AddUnitState, AddSubordinateUnit, AddRelationState,
                PlaceOnNewMachine
  <2>2. ASSUME NEW c \in Client,
               \/ RemoveMachineState(c) \/ RemoveServiceState(c) \/ RemoveUnitState(c)
               \/ RemoveRelationState(c) \/ ReadTopology(c) \/ WriteTopology(c)
               \/ Conflict(c) \/ KeepTopology(c) \/ Raise(c) \/ ReadUnits(c) \/ Die(c)
        PROVE  created' = created
    BY <2>2 DEF RemoveMachineState, RemoveServiceState, RemoveUnitState,
                RemoveRelationState, ReadTopology, WriteTopology, Conflict, KeepTopology,
                Raise, ReadUnits, Die
  <2> QED BY <2>1, <2>2 DEF Next, vars
<1>2. CASE created' = created
  BY <1>2 DEF CreatedType
<1> QED BY <1>1, <1>2, CreateSequenceType

\* The agendas hold requests and the clients hold topologies.
THEOREM TypeCorrectness == Spec => []TypeOK
<1>1. Init => CreatedType
  BY IdAssumption DEF Init, CreatedType, RootMachine
<1>2. CreatedType /\ [Next]_vars => CreatedType'
  BY CreatedTypeKept
<1>3. Inv /\ CreatedType => TypeOK
  BY DEF Inv, CreatedType, TypeOK, VersionsTell, AgendaInv, AgendaType
<1> QED BY <1>1, <1>2, <1>3, Invariance, PTL DEF Spec
=============================================================================
