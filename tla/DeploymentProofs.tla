-------------------------- MODULE DeploymentProofs --------------------------
(***************************************************************************)
(* Theorems about Deployment.  A Constraints object is reasoned about by   *)
(* two facts that update, with_series and parse keep: what it sets has     *)
(* cleared what that excludes (Closed), and it says of each name what was  *)
(* typed at its level (Shows).                                             *)
(***************************************************************************)
EXTENDS Deployment, WellFoundedInduction, TLAPS

\* What excludes another constraint has cleared it.
Closed(data) == \A n \in DOMAIN data : data[n] # None =>
    \A m \in conflicts[n] : m \in DOMAIN data /\ data[m] = None

\* The data of a level say of each name what was typed there.
Shows(typed, data) == \A n \in names \ Computed :
    /\ Says(typed, n) = {} <=> n \notin DOMAIN data
    /\ n \in DOMAIN data => Says(typed, n) = {convert(n, data[n])}

Sound(record) == Shows(record.typed, record.data) /\ Closed(record.data)

OfSeries(data, series) == "ubuntu-series" \in DOMAIN data /\ data["ubuntu-series"] = series

-----------------------------------------------------------------------------
(* The data of Constraints objects *)

\* What data is: it says something of some of the names, each a raw value or None.
LEMMA DataIs ==
    ASSUME NEW d \in Data
    PROVE  /\ DOMAIN d \subseteq names
           /\ d = [n \in DOMAIN d |-> d[n]]
           /\ \A n \in DOMAIN d : d[n] \in Raw(n) \cup {None}
<1>1. PICK S \in SUBSET names : d \in DataOn(S)
  BY DEF Data
<1> QED
  BY <1>1 DEF DataOn

\* A function from some of the names to raw values or None is data.
LEMMA IsData ==
    ASSUME NEW d, DOMAIN d \subseteq names, d = [n \in DOMAIN d |-> d[n]],
           \A n \in DOMAIN d : d[n] \in Raw(n) \cup {None}
    PROVE  d \in Data
<1>1. ASSUME NEW n \in DOMAIN d
      PROVE  d[n] \in Value \cup {None}
  <2>1. n \in {"arch", "cpu", "mem", "instance-type", "ec2-zone", "ubuntu-series",
               "provider-type"}
    BY DEF names, Computed, generics
  <2> QED
    BY <2>1 DEF Value
<1>2. d \in [DOMAIN d -> Value \cup {None}]
  BY <1>1
<1>3. d \in DataOn(DOMAIN d)
  BY <1>2 DEF DataOn
<1> QED
  BY <1>3 DEF Data

\* The names are nine, and these are the ones that exclude each other.
LEMMA Conflicts ==
    /\ \A n \in names : conflicts[n] \subseteq names \ Computed
    /\ \A n \in names : \A m \in conflicts[n] : n \in conflicts[m]
    /\ conflicts["provider-type"] = {} /\ conflicts["ubuntu-series"] = {}
    /\ "instance-type" \in conflicts["cpu"] /\ "instance-type" \in conflicts["mem"]
    /\ conflicts["instance-type"] = {"cpu", "mem"}
BY DEF conflicts, names, Computed, generics

\* Data overwritten with other data is data, and stays closed.
LEMMA UpdateData ==
    ASSUME NEW d \in Data, NEW other \in Data
    PROVE  /\ update(d, other) \in Data
           /\ Closed(d) /\ Closed(other) => Closed(update(d, other))
<1>1. /\ DOMAIN update(d, other) = DOMAIN d \cup DOMAIN other
      /\ update(d, other) = [n \in DOMAIN update(d, other) |-> update(d, other)[n]]
  BY DEF update
<1>2. \A n \in DOMAIN update(d, other) : update(d, other)[n] \in Raw(n) \cup {None}
  BY <1>1, DataIs DEF update
<1>3. update(d, other) \in Data
  BY <1>1, <1>2, DataIs, IsData
<1>4. ASSUME Closed(d), Closed(other)
      PROVE  Closed(update(d, other))
  <2> SUFFICES ASSUME NEW n \in DOMAIN d \cup DOMAIN other, update(d, other)[n] # None,
                      NEW m \in conflicts[n]
               PROVE  /\ m \in DOMAIN d \cup DOMAIN other
                      /\ update(d, other)[m] = None
    BY DEF Closed, update
  <2>1. n \in conflicts[m] /\ n \in names
    BY DataIs, Conflicts
  <2>2. CASE n \in DOMAIN other
    BY <2>2, <1>4 DEF Closed, update
  <2>3. CASE n \notin DOMAIN other
    <3>1. d[n] # None /\ m \in DOMAIN d /\ d[m] = None
      BY <2>3, <1>4 DEF Closed, update
    <3>2. m \in DOMAIN other => other[m] = None
      BY <2>1, <2>3, <1>4 DEF Closed
    <3> QED
      BY <3>1, <3>2 DEF update
  <2> QED
    BY <2>2, <2>3
<1> QED
  BY <1>3, <1>4 DEF update

\* What with_series does: it says the series and leaves the rest.
LEMMA WithSeries ==
    ASSUME NEW d \in Data, NEW series \in Series
    PROVE  /\ with_series(d, series) \in Data
           /\ OfSeries(with_series(d, series), series)
           /\ Closed(d) => Closed(with_series(d, series))
           /\ \A typed : Shows(typed, d) => Shows(typed, with_series(d, series))
<1> DEFINE one == [n \in {"ubuntu-series"} |-> series]
<1>1. one \in Data
  <2>1. \A n \in DOMAIN one : one[n] \in Raw(n) \cup {None}
    BY DEF Raw
  <2>2. DOMAIN one \subseteq names
    BY DEF names, Computed
  <2> QED
    BY <2>1, <2>2, IsData
<1>2. Closed(one)
  BY Conflicts DEF Closed
<1>3. /\ DOMAIN with_series(d, series) = DOMAIN d \cup {"ubuntu-series"}
      /\ with_series(d, series)["ubuntu-series"] = series
      /\ \A n \in DOMAIN d \ {"ubuntu-series"} : with_series(d, series)[n] = d[n]
  BY DEF with_series, update
<1>4. ASSUME NEW typed, Shows(typed, d)
      PROVE  Shows(typed, with_series(d, series))
  BY <1>3, <1>4 DEF Shows, Computed
<1> QED
  BY <1>1, <1>2, <1>3, <1>4, UpdateData DEF with_series, OfSeries

\* What is stored for the environment, the same without the series.
LEMMA EnvironmentData ==
    ASSUME NEW d \in Data
    PROVE  /\ environment_data(d) \in Data
           /\ Closed(d) => Closed(environment_data(d))
           /\ \A typed : Shows(typed, d) => Shows(typed, environment_data(d))
<1>1. /\ DOMAIN environment_data(d) = DOMAIN d \ {"ubuntu-series"}
      /\ \A n \in DOMAIN d \ {"ubuntu-series"} : environment_data(d)[n] = d[n]
  BY DEF environment_data
<1>2. environment_data(d) \in Data
  <2>1. environment_data(d) = [n \in DOMAIN environment_data(d) |-> environment_data(d)[n]]
    BY DEF environment_data
  <2> QED
    BY <2>1, <1>1, DataIs, IsData
<1>3. ASSUME Closed(d)
      PROVE  Closed(environment_data(d))
  <2>1. \A n \in names : "ubuntu-series" \notin conflicts[n]
    BY Conflicts DEF Computed
  <2> QED
    BY <1>1, <1>3, <2>1, DataIs DEF Closed
<1>4. ASSUME NEW typed, Shows(typed, d)
      PROVE  Shows(typed, environment_data(d))
  BY <1>1, <1>4 DEF Shows, Computed
<1> QED
  BY <1>2, <1>3, <1>4

\* What parse returns is closed data that says what was typed.
LEMMA Parse ==
    ASSUME NEW typed, NEW d \in parse(typed)
    PROVE  d \in Data /\ Closed(d) /\ Shows(typed, d)
<1> DEFINE T == DOMAIN typed \cap names
           given == [n \in T |-> raw_value(n, typed[n])]
           all == update([n \in {"provider-type"} |-> "ec2"], given)
           cleared == [n \in masks(all) |-> None]
<1>1. /\ DOMAIN typed \subseteq names \ Computed
      /\ \A n \in DOMAIN typed : all[n] # None => all[n] \in Raw(n)
      /\ masks(all) \cap DOMAIN all = {}
      /\ d = update(all, cleared)
  BY DEF parse
<1>2. /\ DOMAIN all = {"provider-type"} \cup DOMAIN typed
      /\ all["provider-type"] = "ec2"
      /\ \A n \in DOMAIN typed : all[n] = raw_value(n, typed[n])
  BY <1>1 DEF update, Computed
<1>3. /\ masks(all) \subseteq names \ Computed
      /\ \A n : n \in masks(all) <=> \E m \in DOMAIN typed : all[m] # None /\ n \in conflicts[m]
  <2>1. DOMAIN all \subseteq names
    BY <1>1, <1>2 DEF names, Computed
  <2>2. \A n : n \in masks(all) <=> \E m \in DOMAIN all : all[m] # None /\ n \in conflicts[m]
    BY DEF masks
  <2> QED
    BY <2>1, <2>2, <1>2, Conflicts
<1>4. /\ DOMAIN d = DOMAIN all \cup masks(all)
      /\ \A n \in masks(all) : d[n] = None
      /\ \A n \in DOMAIN all : d[n] = all[n]
      /\ d = [n \in DOMAIN d |-> d[n]]
  <2> HIDE DEF all
  <2> QED
    BY <1>1 DEF update
<1> HIDE DEF T, given, all, cleared
<1>5. d \in Data
  <2>1. DOMAIN d \in SUBSET names
    BY <1>1, <1>2, <1>3, <1>4 DEF names, Computed
  <2>2. \A n \in DOMAIN d : d[n] \in Raw(n) \cup {None}
    <3>1. all["provider-type"] \in Raw("provider-type")
      BY <1>2 DEF Raw
    <3>2. \A n \in DOMAIN typed : all[n] \in Raw(n) \cup {None}
      BY <1>1
    <3> QED
      BY <3>1, <3>2, <1>2, <1>4
  <2> QED
    BY <2>1, <2>2, <1>4, IsData
<1>6. Closed(d)
  <2> SUFFICES ASSUME NEW n \in DOMAIN d, d[n] # None, NEW m \in conflicts[n]
               PROVE  m \in DOMAIN d /\ d[m] = None
    BY DEF Closed
  <2>1. n \in DOMAIN typed
    BY <1>2, <1>4, Conflicts
  <2> QED
    BY <2>1, <1>2, <1>3, <1>4
<1>7. Shows(typed, d)
  <2> SUFFICES ASSUME NEW n \in names \ Computed
               PROVE  /\ Says(typed, n) = {} <=> n \notin DOMAIN d
                      /\ n \in DOMAIN d => Says(typed, n) = {convert(n, d[n])}
    BY DEF Shows
  <2>1. CASE n \in DOMAIN typed
    BY <2>1, <1>2, <1>4 DEF Says
  <2>2. CASE n \notin DOMAIN typed
    <3>1. n \in DOMAIN d <=> n \in masks(all)
      BY <2>2, <1>2, <1>4 DEF Computed
    <3>2. n \in masks(all) <=>
            \E m \in DOMAIN typed : n \in conflicts[m] /\ raw_value(m, typed[m]) # None
      BY <1>2, <1>3
    <3>3. n \in masks(all) => convert(n, d[n]) = None
      BY <1>4 DEF convert
    <3> QED
      BY <3>1, <3>2, <3>3, <2>2 DEF Says
  <2> QED
    BY <2>1, <2>2
<1> QED
  BY <1>5, <1>6, <1>7

-----------------------------------------------------------------------------
(* Machines for units *)

\* The cpu and mem in force are numbers, when they are set.
LEMMA Amounts ==
    ASSUME NEW d \in Data, NEW n \in {"cpu", "mem"}
    PROVE  Get(d, n) \in Nat \cup {None}
<1>1. n \in DOMAIN d => d[n] \in Raw(n) \cup {None}
  BY DataIs
<1>2. CASE n = "cpu"
  <2>1. default[n] \in Nat /\ Raw(n) = Nat
    BY <1>2 DEF default, Raw, names, generics
  <2> QED
    BY <1>1, <1>2, <2>1 DEF Get, convert
<1>3. CASE n = "mem"
  <2> DEFINE Mem == [n : Nat, suffix : DOMAIN _MEM_SUFFIXES]
  <2>1. DOMAIN _MEM_SUFFIXES = {"M", "G", "T"}
    BY DEF _MEM_SUFFIXES
  <2>2. ASSUME NEW raw \in Mem
        PROVE  _convert_mem(raw) \in Nat
    <3>1. raw.n \in Nat /\ raw.suffix \in {"M", "G", "T"}
      BY <2>1
    <3>2. _MEM_SUFFIXES[raw.suffix] \in {1, 1024, 1024 * 1024}
      BY <3>1 DEF _MEM_SUFFIXES
    <3> QED
      BY <3>1, <3>2 DEF _convert_mem
  <2>3. default[n] \in Mem
    BY <1>3, <2>1 DEF default, names, generics
  <2>4. Raw(n) = Mem
    BY <1>3 DEF Raw
  <2> HIDE DEF Mem
  <2> QED
    BY <1>1, <1>3, <2>2, <2>3, <2>4 DEF Get, convert
<1> QED
  BY <1>2, <1>3

\* Complete constraints satisfy themselves.
LEMMA SatisfiesItself ==
    ASSUME NEW d \in Data, complete(d)
    PROVE  can_satisfy(d, d)
<1>1. ASSUME NEW n \in names, Get(d, n) # None
      PROVE  compares(n, Get(d, n), Get(d, n))
  BY <1>1, Amounts DEF compares
<1> QED
  BY <1>1 DEF can_satisfy

\* The cost, cpu and mem of an instance type are numbers.
LEMMA InstanceTypes ==
    \A t \in DOMAIN INSTANCE_TYPES :
        /\ INSTANCE_TYPES[t].cpu \in Nat
        /\ INSTANCE_TYPES[t].mem \in Nat
        /\ INSTANCE_TYPES[t].cost \in Nat
<1>1. \A t \in DOMAIN INSTANCE_TYPES : INSTANCE_TYPES[t].cpu \in Nat
  BY DEF INSTANCE_TYPES, Type
<1>2. \A t \in DOMAIN INSTANCE_TYPES : INSTANCE_TYPES[t].mem \in Nat
  BY DEF INSTANCE_TYPES, Type
<1>3. \A t \in DOMAIN INSTANCE_TYPES : INSTANCE_TYPES[t].cost \in Nat
  BY DEF INSTANCE_TYPES, Type
<1> QED
  BY <1>1, <1>2, <1>3

\* Among some instance types there is a cheapest, so get_instance_type has one to choose.
LEMMA Cheapest ==
    ASSUME NEW S \in SUBSET DOMAIN INSTANCE_TYPES, S # {}
    PROVE  \E t \in S : \A t2 \in S : INSTANCE_TYPES[t].cost <= INSTANCE_TYPES[t2].cost
<1> DEFINE costs == {INSTANCE_TYPES[t].cost : t \in S}
<1>1. \A t \in DOMAIN INSTANCE_TYPES : INSTANCE_TYPES[t].cost \in Nat
  BY InstanceTypes
<1>2. costs \in SUBSET Nat /\ costs # {}
  BY <1>1
<1>3. PICK least \in costs : \A c \in costs : ~(c < least)
  <2>1. \E least \in costs : \A c \in costs : <<c, least>> \notin OpToRel(<, Nat)
    BY <1>2, WFMin, NatLessThanWellFounded
  <2> QED
    BY <1>2, <2>1 DEF OpToRel
<1>4. PICK t \in S : least = INSTANCE_TYPES[t].cost
  OBVIOUS
<1>5. ASSUME NEW t2 \in S
      PROVE  INSTANCE_TYPES[t].cost <= INSTANCE_TYPES[t2].cost
  <2>1. INSTANCE_TYPES[t2].cost \in costs
    OBVIOUS
  <2> HIDE DEF costs
  <2> QED
    BY <1>1, <1>2, <1>3, <1>4, <2>1
<1> QED
  BY <1>5

\* An instance of what get_machine_spec returns for a machine has what a unit
\* wants that the machine's constraints can satisfy.
Has(machine, unit) ==
    LET spec  == get_machine_spec(machine)
        wants == constraints_get(unit)
    IN  /\ spec.series = wants["ubuntu-series"]
        /\ wants["arch"] \in {None, spec.arch}
        /\ wants["ec2-zone"] \in {None, spec.zone}
        /\ wants["instance-type"] \in {None, spec.instance_type}
        /\ spec.instance_type # None =>
             /\ wants["cpu"] # None => INSTANCE_TYPES[spec.instance_type].cpu >= wants["cpu"]
             /\ wants["mem"] # None => INSTANCE_TYPES[spec.instance_type].mem >= wants["mem"]

\* get_instance_type picks a type that passes the filters, unless one is named.
LEMMA ChosenType ==
    ASSUME NEW d, DefaultInstanceType = None, Get(d, "instance-type") = None,
           get_instance_type(d) # None
    PROVE  get_instance_type(d) \in possible_types(d)
<1>1. possible_types(d) # {} /\ possible_types(d) \in SUBSET DOMAIN INSTANCE_TYPES
  BY DEF get_instance_type, possible_types
<1> QED
  BY <1>1, Cheapest DEF get_instance_type

\* Constraints that can satisfy a unit's lead to an instance that has what the
\* unit wants, since a named instance type leaves no cpu or mem to ask for.
LEMMA Fits ==
    ASSUME NEW m \in Data, NEW u \in Data, Closed(m), can_satisfy(m, u),
           DefaultInstanceType = None
    PROVE  Has(m, u)
<1>1. \A n \in names : Get(u, n) # None =>
        Get(m, n) # None /\ compares(n, Get(m, n), Get(u, n))
  BY DEF can_satisfy
<1>2. \A n \in names \ {"cpu", "mem"} : Get(u, n) \in {None, Get(m, n)}
  BY <1>1 DEF compares
<1>3. Get(m, "ubuntu-series") = Get(u, "ubuntu-series")
  BY <1>2 DEF can_satisfy, complete, Computed, names
<1>4. ASSUME NEW n \in {"cpu", "mem"}, Get(u, n) # None
      PROVE  Get(m, n) \in Nat /\ Get(u, n) \in Nat /\ Get(m, n) >= Get(u, n)
  BY <1>1, <1>4, Amounts DEF compares, names, generics
<1>5. Get(m, "instance-type") # None => Get(m, "cpu") = None /\ Get(m, "mem") = None
  <2>1. ASSUME Get(m, "instance-type") # None
        PROVE  "instance-type" \in DOMAIN m /\ m["instance-type"] # None
    BY <2>1 DEF Get, convert, default, names, generics
  <2> QED
    BY <2>1, Conflicts DEF Closed, Get, convert
<1>6. ASSUME NEW n \in {"cpu", "mem"}, Get(u, n) # None, get_instance_type(m) # None
      PROVE  \/ n = "cpu" /\ INSTANCE_TYPES[get_instance_type(m)].cpu >= Get(u, n)
             \/ n = "mem" /\ INSTANCE_TYPES[get_instance_type(m)].mem >= Get(u, n)
  <2>1. Get(m, n) # None
    BY <1>1, <1>6 DEF names, generics
  <2>2. get_instance_type(m) \in possible_types(m)
    BY <2>1, <1>5, <1>6, ChosenType
  <2> DEFINE type == INSTANCE_TYPES[get_instance_type(m)]
  <2>3. type.cpu \in Nat /\ type.mem \in Nat
    BY <2>2, InstanceTypes DEF possible_types
  <2>4. \/ n = "cpu" /\ type.cpu >= Get(m, n)
        \/ n = "mem" /\ type.mem >= Get(m, n)
    <3>1. _get_filters(m, type)
      BY <2>2 DEF possible_types
    <3> HIDE DEF type
    <3>2. CASE n = "cpu"
      BY <2>1, <3>1, <3>2 DEF _get_filters
    <3>3. CASE n = "mem"
      BY <2>1, <3>1, <3>3 DEF _get_filters
    <3> QED
      BY <3>2, <3>3
  <2> HIDE DEF type
  <2> QED
    BY <1>4, <1>6, <2>3, <2>4 DEF type
<1>7. Get(u, "instance-type") \in {None, get_instance_type(m)}
  BY <1>2 DEF get_instance_type, names, generics
<1>8. constraints_get(u) = [n \in names |-> Get(u, n)]
  BY DEF constraints_get
<1>9. Get(u, "arch") \in {None, get_machine_spec(m).arch}
  BY <1>2 DEF get_machine_spec, names, generics
<1>10. Get(u, "ec2-zone") \in {None, get_machine_spec(m).zone}
  BY <1>2 DEF get_machine_spec, names, generics
<1> QED
  BY <1>3, <1>6, <1>7, <1>8, <1>9, <1>10 DEF Has, get_machine_spec, names, generics, Computed
-----------------------------------------------------------------------------
(* The types *)

Level == [data : Data, typed : Typed \cup {NoData}]

ServiceNode == [data : Data, typed : Typed, charm : DOMAIN Charm, sha : Content]

UnitNode == [data : Data, typed : [env : Typed \cup {NoData}, service : Typed],
             charm : DOMAIN Charm]

\* What a command is doing.
Deploying == [pc : {"put", "create", "add_service"}, service : Service, data : Data,
              typed : Typed, charm : DOMAIN Charm, sha : Content]
Adding    == [pc : {"environment"}, service : Service]
Reading   == [pc : {"service"}, service : Service, env : Level]
Placing   == [pc : {"place"}, unit : Unit]
Assigning == [pc : {"assign"}, unit : Unit, machine : Machine]
Doing     == {Idle} \cup Deploying \cup Adding \cup Reading \cup Placing \cup Assigning

TypeOK ==
    /\ environment \in Level \cup {None}
    /\ charms \in [DOMAIN Charm -> Content \cup {None}]
    /\ storage \subseteq (DOMAIN Charm) \X Content
    /\ services \in [Service -> ServiceNode \cup {None}]
    /\ units \in [Unit -> UnitNode \cup {None, Gone}]
    /\ machines \in [Machine -> Data \cup {None, Gone}]
    /\ assigned \in [Unit -> Machine \cup {None}]
    /\ client \in [Client -> Doing]

\* None is no data and no node of a service or unit.
LEMMA NoneIsNothing == None \notin Data /\ None \notin ServiceNode /\ None \notin UnitNode
<1>1. None \notin Data
  BY NoneAssumption DEF Data
<1>2. ASSUME None \in ServiceNode
      PROVE  FALSE
  <2>1. PICK S \in SUBSET names : None.data \in DataOn(S)
    BY <1>2 DEF ServiceNode, Data
  <2>2. None \in [data : DataOn(S), typed : Typed, charm : DOMAIN Charm, sha : Content]
    BY <1>2, <2>1 DEF ServiceNode
  <2> QED
    BY <2>2, DeploymentAssumption
<1>3. ASSUME None \in UnitNode
      PROVE  FALSE
  <2>1. PICK S \in SUBSET names : None.data \in DataOn(S)
    BY <1>3 DEF UnitNode, Data
  <2>2. None \in [data : DataOn(S), charm : DOMAIN Charm,
                  typed : [env : Typed \cup {NoData}, service : Typed]]
    BY <1>3, <2>1 DEF UnitNode
  <2> QED
    BY <2>2, DeploymentAssumption
<1> QED
  BY <1>1, <1>2, <1>3

\* Empty data is data, closed, and what nothing typed says.
LEMMA NoDataIs == NoData \in Data /\ Closed(NoData) /\ Shows(NoData, NoData)
<1>1. DOMAIN NoData = {}
  BY DEF NoData
<1>2. NoData = [n \in DOMAIN NoData |-> NoData[n]]
  BY DEF NoData
<1>3. NoData \in Data
  BY <1>1, <1>2, IsData
<1> QED
  BY <1>1, <1>3 DEF Closed, Shows, Says

\* What a command's pc tells of the rest of its record.
LEMMA DoingIs ==
    ASSUME NEW d \in Doing
    PROVE  /\ d.pc \in {"put", "create", "add_service"} => d \in Deploying
           /\ d.pc = "environment" => d \in Adding
           /\ d.pc = "service" => d \in Reading
           /\ d.pc = "place" => d \in Placing
           /\ d.pc = "assign" => d \in Assigning
BY DEF Doing, Idle, Deploying, Adding, Reading, Placing, Assigning

\* What Goto does to what the commands are doing.
LEMMA GotoDoing ==
    ASSUME NEW c \in Client, NEW state \in Doing, client \in [Client -> Doing], Goto(c, state)
    PROVE  /\ client' \in [Client -> Doing]
           /\ client'[c] = state
           /\ \A d \in Client \ {c} : client'[d] = client[d]
BY DEF Goto

-----------------------------------------------------------------------------
(* The inductive invariant *)

\* What a unit shows is what OverridesHonoured says.
Honoured(unit) == \A n \in names \ Computed :
    LET service == Says(unit.typed.service, n)
        env     == Says(unit.typed.env, n)
    IN  constraints_get(unit.data)[n] \in
            IF service # {} THEN service
            ELSE IF env # {} THEN env ELSE {convert(n, default[n])}

\* The data of the environment, the services and the commands that carry some
\* say what was typed; a command that adds a unit has a service to add it to.
LevelsOK ==
    /\ environment # None => Sound(environment)
    /\ \A s \in Service : services[s] # None =>
          Sound(services[s]) /\ OfSeries(services[s].data, Charm[services[s].charm])
    /\ \A c \in Client :
          /\ client[c].pc \in {"put", "create", "add_service"} => Sound(client[c])
          /\ client[c].pc = "service" => Sound(client[c].env)
          /\ client[c].pc \in {"environment", "service"} => services[client[c].service] # None

\* A charm's node names a bundle in storage, and a command that has stored a
\* bundle, or found the node, goes on only with that bundle, or that node.
CharmsOK ==
    /\ \A k \in DOMAIN Charm : charms[k] # None => <<k, charms[k]>> \in storage
    /\ \A s \in Service : services[s] # None => charms[services[s].charm] = services[s].sha
    /\ \A c \in Client :
          /\ client[c].pc = "create" => <<client[c].charm, client[c].sha>> \in storage
          /\ client[c].pc = "add_service" => charms[client[c].charm] # None

\* A unit's data is frozen from two levels, with the series of its charm.
UnitsOK == \A u \in Unit : Live(units[u]) =>
    /\ Honoured(units[u]) /\ Closed(units[u].data)
    /\ OfSeries(units[u].data, Charm[units[u].charm])

\* A unit that is not on the bootstrap machine is on a machine that can satisfy
\* it, and a command that added a machine for a unit added it with its data.
PlacedOK ==
    /\ \A u \in Unit : units[u] = None => assigned[u] = None
    /\ machines[RootMachine] # None
    /\ \A m \in Machine \ {RootMachine} : Live(machines[m]) => Closed(machines[m])
    /\ \A u \in Unit : Live(units[u]) /\ assigned[u] \notin {None, RootMachine} =>
          Live(machines[assigned[u]]) /\ can_satisfy(machines[assigned[u]], units[u].data)
    /\ \A c \in Client :
          /\ client[c].pc \in {"place", "assign"} => units[client[c].unit] # None
          /\ client[c].pc = "assign" =>
                /\ client[c].machine # RootMachine /\ machines[client[c].machine] # None
                /\ Live(units[client[c].unit]) /\ Live(machines[client[c].machine]) =>
                      /\ machines[client[c].machine] = units[client[c].unit].data
                      /\ complete(units[client[c].unit].data)

IInv == TypeOK /\ LevelsOK /\ CharmsOK /\ UnitsOK /\ PlacedOK

\* It holds at bootstrap, and in an environment of older code.
LEMMA InitIInv == Init => IInv
<1> SUFFICES ASSUME Init
             PROVE  IInv
  OBVIOUS
<1>1. client = [c \in Client |-> Idle] /\ \A c \in Client : client[c].pc = "idle"
  BY DEF Init, Idle
<1>2. /\ environment \in Level \cup {None}
      /\ environment # None => Sound(environment)
      /\ machines \in [Machine -> Data \cup {None, Gone}]
      /\ machines[RootMachine] # None
      /\ \A m \in Machine \ {RootMachine} : machines[m] = None
  <2>1. CASE environment = None /\
             machines = [m \in Machine |-> IF m = RootMachine THEN NoData ELSE None]
    BY <2>1, NoDataIs, NoneIsNothing, DeploymentAssumption
  <2>2. ASSUME NEW typed \in Typed, NEW data \in parse(typed),
               machines = [m \in Machine |->
                   IF m = RootMachine THEN with_series(data, default_series) ELSE None],
               environment = [data |-> environment_data(with_series(data, default_series)),
                              typed |-> typed]
        PROVE  /\ environment \in Level \cup {None}
               /\ environment # None => Sound(environment)
               /\ machines \in [Machine -> Data \cup {None, Gone}]
               /\ machines[RootMachine] # None
               /\ \A m \in Machine \ {RootMachine} : machines[m] = None
    <3> DEFINE d == with_series(data, default_series)
    <3>1. d \in Data /\ Closed(d) /\ Shows(typed, d)
      BY Parse, WithSeries, DeploymentAssumption
    <3> HIDE DEF d
    <3>2. /\ environment_data(d) \in Data /\ Closed(environment_data(d))
          /\ Shows(typed, environment_data(d))
      BY <3>1, EnvironmentData
    <3>3. environment = [data |-> environment_data(d), typed |-> typed]
      BY <2>2 DEF d
    <3>4. machines = [m \in Machine |-> IF m = RootMachine THEN d ELSE None]
      BY <2>2 DEF d
    <3> QED
      BY <3>1, <3>2, <3>3, <3>4, NoneIsNothing, DeploymentAssumption DEF Level, Sound
  <2> QED
    BY <2>1, <2>2 DEF Init
<1>3. TypeOK
  BY <1>1, <1>2 DEF Init, TypeOK, Doing
<1>4. LevelsOK /\ CharmsOK /\ UnitsOK
  BY <1>1, <1>2 DEF Init, LevelsOK, CharmsOK, UnitsOK, Live
<1>5. PlacedOK
  BY <1>1, <1>2 DEF Init, PlacedOK, Live
<1> QED
  BY <1>3, <1>4, <1>5 DEF IInv

\* Every step keeps the types.
LEMMA NextTypes == IInv /\ [Next]_vars => TypeOK'
<1> SUFFICES ASSUME IInv, [Next]_vars
             PROVE  TypeOK'
  OBVIOUS
<1> USE DEF published
<1>0. TypeOK
  BY DEF IInv
<1>1. ASSUME NEW typed \in Typed, SetEnvironment(typed)
      PROVE  TypeOK'
  <2>1. PICK data \in parse(typed) :
          environment' = [data |-> environment_data(data), typed |-> typed]
    BY <1>1 DEF SetEnvironment
  <2>2. environment' \in Level
    BY <2>1, Parse, EnvironmentData DEF Level
  <2> QED
    BY <1>0, <1>1, <2>2 DEF SetEnvironment, TypeOK
<1>2. ASSUME NEW typed \in Typed, NEW s \in Service, SetService(s, typed)
      PROVE  TypeOK'
  <2>1. PICK data \in parse(typed) :
          services' = [services EXCEPT
              ![s].data = with_series(data, Charm[services[s].charm]), ![s].typed = typed]
    BY <1>2 DEF SetService
  <2>2. services[s] \in ServiceNode
    BY <1>0, <1>2 DEF SetService, TypeOK
  <2>3. with_series(data, Charm[services[s].charm]) \in Data
    BY <2>2, Parse, WithSeries, DeploymentAssumption DEF ServiceNode
  <2>4. services' \in [Service -> ServiceNode \cup {None}]
    BY <1>0, <2>1, <2>2, <2>3 DEF TypeOK, ServiceNode
  <2> QED
    BY <1>0, <1>2, <2>4 DEF SetService, TypeOK
<1>3. ASSUME NEW c \in Client, NEW s \in Service, NEW typed \in Typed, NEW k \in DOMAIN Charm,
             NEW sha \in Content, Deploy(c, s, typed, k, sha)
      PROVE  TypeOK'
  <2>1. PICK data \in parse(typed) :
          Goto(c, [pc |-> IF charms[k] # None THEN "add_service" ELSE "put", service |-> s,
                   data |-> data, typed |-> typed, charm |-> k, sha |-> sha])
    BY <1>3 DEF Deploy
  <2> DEFINE state == [pc |-> IF charms[k] # None THEN "add_service" ELSE "put", service |-> s,
                       data |-> data, typed |-> typed, charm |-> k, sha |-> sha]
  <2>2. state \in Deploying
    BY Parse DEF Deploying
  <2>3. state \in Doing
    BY <2>2 DEF Doing
  <2> HIDE DEF state
  <2>4. client' \in [Client -> Doing]
    BY <1>0, <2>1, <2>3 DEF state, TypeOK, Goto
  <2> QED
    BY <1>0, <1>3, <2>4 DEF Deploy, TypeOK
<1>4. ASSUME NEW c \in Client, _publish_one(c)
      PROVE  TypeOK'
  <2>1. client[c] \in Deploying
    BY <1>0, <1>4, DoingIs DEF _publish_one, TypeOK
  <2>2. [client[c] EXCEPT !.pc = "create"] \in Deploying
    BY <2>1 DEF Deploying
  <2>3. client' \in [Client -> Doing]
    BY <1>0, <1>4, <2>2 DEF _publish_one, Goto, TypeOK, Doing
  <2>4. client[c].charm \in DOMAIN Charm /\ client[c].sha \in Content
    BY <2>1 DEF Deploying
  <2>5. storage' \subseteq (DOMAIN Charm) \X Content
    BY <1>0, <1>4, <2>4 DEF _publish_one, TypeOK
  <2> QED
    BY <1>0, <1>4, <2>3, <2>5 DEF _publish_one, TypeOK
<1>5. ASSUME NEW c \in Client, add_charm_state(c)
      PROVE  TypeOK'
  <2>1. client[c] \in Deploying
    BY <1>0, <1>5, DoingIs DEF add_charm_state, TypeOK
  <2>2. [client[c] EXCEPT !.pc = "add_service"] \in Deploying
    BY <2>1 DEF Deploying
  <2>3. client' \in [Client -> Doing]
    BY <1>0, <1>5, <2>2 DEF add_charm_state, Goto, TypeOK, Doing
  <2>4. charms' \in [DOMAIN Charm -> Content \cup {None}]
    BY <1>0, <1>5, <2>1 DEF add_charm_state, TypeOK, Deploying
  <2> QED
    BY <1>0, <1>5, <2>3, <2>4 DEF add_charm_state, TypeOK
<1>6. ASSUME NEW c \in Client, _eb_verify_duplicate(c) \/ PlacementFails(c) \/ Die(c)
      PROVE  TypeOK'
  <2>1. client' \in [Client -> Doing]
    BY <1>0, <1>6 DEF _eb_verify_duplicate, PlacementFails, Die, Goto, TypeOK, Doing
  <2> QED
    BY <1>0, <1>6, <2>1 DEF _eb_verify_duplicate, PlacementFails, Die, TypeOK
<1>7. ASSUME NEW c \in Client, AddServiceState(c)
      PROVE  TypeOK'
  <2>1. client[c] \in Deploying /\ client[c].pc = "add_service"
    BY <1>0, <1>7, DoingIs DEF AddServiceState, TypeOK
  <2> DEFINE s == client[c].service
             k == client[c].charm
             node == [data |-> with_series(client[c].data, Charm[k]),
                      typed |-> client[c].typed, charm |-> k, sha |-> charms[k]]
  <2>2. s \in Service /\ k \in DOMAIN Charm /\ client[c].data \in Data
    BY <2>1 DEF Deploying
  <2>3. charms[k] \in Content
    BY <1>0, <2>1, <2>2 DEF TypeOK, IInv, CharmsOK
  <2>4. node \in ServiceNode
    BY <2>1, <2>2, <2>3, WithSeries, DeploymentAssumption DEF ServiceNode, Deploying
  <2>5. [pc |-> "environment", service |-> s] \in Doing
    BY <2>2 DEF Doing, Adding
  <2>6. \/ services' = services /\ Goto(c, Idle)
        \/ /\ services' = [services EXCEPT ![s] = node]
           /\ Goto(c, [pc |-> "environment", service |-> s])
    BY <1>7 DEF AddServiceState
  <2> HIDE DEF node, s, k
  <2>7. services' \in [Service -> ServiceNode \cup {None}]
    BY <1>0, <2>2, <2>4, <2>6 DEF TypeOK
  <2>8. client' \in [Client -> Doing]
    BY <1>0, <2>5, <2>6 DEF TypeOK, Goto, Doing
  <2> QED
    BY <1>0, <1>7, <2>7, <2>8 DEF AddServiceState, TypeOK
<1>8. ASSUME NEW c \in Client, NEW s \in Service, AddUnit(c, s)
      PROVE  TypeOK'
  <2>1. [pc |-> "environment", service |-> s] \in Doing
    BY DEF Doing, Adding
  <2>2. client' \in [Client -> Doing]
    BY <1>0, <1>8, <2>1 DEF AddUnit, Goto, TypeOK
  <2> QED
    BY <1>0, <1>8, <2>2 DEF AddUnit, TypeOK
<1>9. ASSUME NEW c \in Client, ReadEnvironment(c)
      PROVE  TypeOK'
  <2> DEFINE env == IF environment = None THEN [data |-> NoData, typed |-> NoData]
                    ELSE environment
  <2>1. client[c].service \in Service
    BY <1>0, <1>9, DoingIs DEF ReadEnvironment, TypeOK, Adding
  <2>2. env \in Level
    BY <1>0, NoDataIs DEF TypeOK, Level
  <2>3. Goto(c, [pc |-> "service", service |-> client[c].service, env |-> env])
    BY <1>9 DEF ReadEnvironment
  <2> HIDE DEF env
  <2>4. [pc |-> "service", service |-> client[c].service, env |-> env] \in Doing
    BY <2>1, <2>2 DEF Doing, Reading
  <2>5. client' \in [Client -> Doing]
    BY <1>0, <2>3, <2>4 DEF Goto, TypeOK
  <2> QED
    BY <1>0, <1>9, <2>5 DEF ReadEnvironment, TypeOK
<1>10. ASSUME NEW c \in Client, NEW u \in Unit, AddUnitState(c, u)
       PROVE  TypeOK'
  <2>1. client[c] \in Reading /\ client[c].pc = "service"
    BY <1>0, <1>10, DoingIs DEF AddUnitState, TypeOK
  <2> DEFINE service == services[client[c].service]
             node == [data |-> get_constraints(client[c].env.data, service.data),
                      typed |-> [env |-> client[c].env.typed, service |-> service.typed],
                      charm |-> service.charm]
  <2>2. service \in ServiceNode
    BY <1>0, <2>1 DEF IInv, LevelsOK, TypeOK, Reading
  <2>3. get_constraints(client[c].env.data, service.data) \in Data
    BY <2>1, <2>2, UpdateData DEF get_constraints, Reading, Level, ServiceNode
  <2>4. node \in UnitNode
    BY <2>1, <2>2, <2>3 DEF UnitNode, Reading, Level, ServiceNode
  <2>5. units' = [units EXCEPT ![u] = node]
    BY <1>10 DEF AddUnitState
  <2>6. client' \in [Client -> Doing]
    BY <1>0, <1>10 DEF AddUnitState, Goto, TypeOK, Doing, Placing
  <2> HIDE DEF node
  <2>7. units' \in [Unit -> UnitNode \cup {None, Gone}]
    BY <1>0, <2>4, <2>5 DEF TypeOK
  <2> QED
    BY <1>0, <1>10, <2>6, <2>7 DEF AddUnitState, TypeOK
<1>11. ASSUME NEW c \in Client, \/ _local_placement(c) \/ assign_to_unused_machine(c)
                                \/ assign_to_machine(c)
       PROVE  TypeOK'
  <2>1. PICK m \in Machine : assigned' = [assigned EXCEPT ![client[c].unit] = m]
    BY <1>0, <1>11, DoingIs, DeploymentAssumption
    DEF _local_placement, assign_to_unused_machine, assign_to_machine, suitable,
        unused_machines, Assigning, TypeOK
  <2>2. client' \in [Client -> Doing]
    BY <1>0, <1>11
    DEF _local_placement, assign_to_unused_machine, assign_to_machine, Goto, TypeOK, Doing
  <2> QED
    BY <1>0, <1>11, <2>1, <2>2
    DEF _local_placement, assign_to_unused_machine, assign_to_machine, TypeOK
<1>12. ASSUME NEW c \in Client, NEW m \in Machine, add_machine_state(c, m)
       PROVE  TypeOK'
  <2>1. client[c] \in Placing /\ units[client[c].unit] \in UnitNode
    BY <1>0, <1>12, DoingIs DEF add_machine_state, TypeOK, Live, Placing
  <2>2. [pc |-> "assign", unit |-> client[c].unit, machine |-> m] \in Doing
    BY <2>1 DEF Doing, Assigning, Placing
  <2>3. client' \in [Client -> Doing]
    BY <1>0, <1>12, <2>2 DEF add_machine_state, Goto, TypeOK
  <2>4. machines' \in [Machine -> Data \cup {None, Gone}]
    BY <1>0, <1>12, <2>1 DEF add_machine_state, TypeOK, UnitNode
  <2> QED
    BY <1>0, <1>12, <2>3, <2>4 DEF add_machine_state, TypeOK
<1>13. ASSUME NEW u \in Unit, RemoveUnitState(u)
       PROVE  TypeOK'
  BY <1>0, <1>13 DEF RemoveUnitState, TypeOK
<1>14. ASSUME NEW m \in Machine, RemoveMachineState(m)
       PROVE  TypeOK'
  BY <1>0, <1>14 DEF RemoveMachineState, TypeOK
<1>15. CASE UNCHANGED vars
  BY <1>0, <1>15 DEF vars, TypeOK
<1> QED
  BY <1>1, <1>2, <1>3, <1>4, <1>5, <1>6, <1>7, <1>8, <1>9, <1>10, <1>11, <1>12, <1>13, <1>14,
     <1>15 DEF Next

\* Every step keeps what the levels say.
LEMMA NextLevels == IInv /\ [Next]_vars => LevelsOK'
<1> SUFFICES ASSUME IInv, [Next]_vars
             PROVE  LevelsOK'
  OBVIOUS
<1> USE DEF published
<1>0. TypeOK /\ LevelsOK
  BY DEF IInv
<1>1. ASSUME NEW typed \in Typed, SetEnvironment(typed)
      PROVE  LevelsOK'
  <2>1. PICK data \in parse(typed) :
          environment' = [data |-> environment_data(data), typed |-> typed]
    BY <1>1 DEF SetEnvironment
  <2>2. Sound(environment')
    BY <2>1, Parse, EnvironmentData DEF Sound
  <2> QED
    BY <1>0, <1>1, <2>2 DEF SetEnvironment, LevelsOK
<1>2. ASSUME NEW typed \in Typed, NEW s \in Service, SetService(s, typed)
      PROVE  LevelsOK'
  <2>1. PICK data \in parse(typed) :
          services' = [services EXCEPT
              ![s].data = with_series(data, Charm[services[s].charm]), ![s].typed = typed]
    BY <1>2 DEF SetService
  <2>2. services[s] \in ServiceNode
    BY <1>0, <1>2 DEF SetService, TypeOK
  <2> DEFINE d == with_series(data, Charm[services[s].charm])
  <2>3. d \in Data /\ Closed(d) /\ Shows(typed, d) /\ OfSeries(d, Charm[services[s].charm])
    BY <2>2, Parse, WithSeries, DeploymentAssumption DEF ServiceNode
  <2>4. /\ services'[s] \in ServiceNode
        /\ services'[s].data = d /\ services'[s].typed = typed
        /\ services'[s].charm = services[s].charm
        /\ \A s2 \in Service \ {s} : services'[s2] = services[s2]
    BY <1>0, <2>1, <2>2, <2>3 DEF TypeOK, ServiceNode
  <2> HIDE DEF d
  <2>5. Sound(services'[s]) /\ OfSeries(services'[s].data, Charm[services'[s].charm])
    BY <2>3, <2>4 DEF Sound
  <2>6. services'[s] # None
    BY <2>4, NoneIsNothing
  <2>7. \A s2 \in Service : services[s2] # None => services'[s2] # None
    BY <2>4, <2>6
  <2>8. \A c \in Client : client[c].pc \in {"environment", "service"} =>
            client[c].service \in Service
    BY <1>0, DoingIs DEF TypeOK, Adding, Reading
  <2>9. \A c \in Client : client[c].pc \in {"environment", "service"} =>
            services'[client[c].service] # None
    BY <1>0, <2>7, <2>8 DEF LevelsOK
  <2>10. UNCHANGED <<environment, client>>
    BY <1>2 DEF SetService
  <2> QED
    BY <1>0, <2>4, <2>5, <2>9, <2>10 DEF LevelsOK
<1>3. ASSUME NEW c \in Client, NEW s \in Service, NEW typed \in Typed, NEW k \in DOMAIN Charm,
             NEW sha \in Content, Deploy(c, s, typed, k, sha)
      PROVE  LevelsOK'
  <2>1. PICK data \in parse(typed) :
          Goto(c, [pc |-> IF charms[k] # None THEN "add_service" ELSE "put", service |-> s,
                   data |-> data, typed |-> typed, charm |-> k, sha |-> sha])
    BY <1>3 DEF Deploy
  <2>2. /\ client'[c].pc \in {"put", "add_service"}
        /\ client'[c].data = data /\ client'[c].typed = typed
        /\ \A d \in Client \ {c} : client'[d] = client[d]
    BY <1>0, <2>1 DEF Goto, TypeOK
  <2>3. Sound(client'[c])
    BY <2>2, Parse DEF Sound
  <2> QED
    BY <1>0, <1>3, <2>2, <2>3 DEF Deploy, LevelsOK
<1>4. ASSUME NEW c \in Client, NEW pc \in {"create", "add_service"},
             client[c] \in Deploying, Goto(c, [client[c] EXCEPT !.pc = pc]),
             UNCHANGED <<environment, services>>
      PROVE  LevelsOK'
  <2>1. /\ client'[c].pc = pc
        /\ client'[c].data = client[c].data /\ client'[c].typed = client[c].typed
        /\ \A d \in Client \ {c} : client'[d] = client[d]
    BY <1>0, <1>4 DEF Goto, TypeOK, Deploying
  <2>2. Sound(client[c])
    BY <1>0, <1>4 DEF LevelsOK, Deploying
  <2>3. Sound(client'[c])
    BY <2>1, <2>2 DEF Sound
  <2> QED
    BY <1>0, <1>4, <2>1, <2>3 DEF LevelsOK
<1>5. ASSUME NEW c \in Client, _publish_one(c) \/ add_charm_state(c)
      PROVE  LevelsOK'
  <2>1. client[c] \in Deploying
    BY <1>0, <1>5, DoingIs DEF _publish_one, add_charm_state, TypeOK
  <2> QED
    BY <1>4, <1>5, <2>1 DEF _publish_one, add_charm_state
<1>6. ASSUME NEW c \in Client, client'[c].pc \in {"idle", "place", "assign"},
             \A d \in Client \ {c} : client'[d] = client[d],
             UNCHANGED <<environment, services>>
      PROVE  LevelsOK'
  BY <1>0, <1>6 DEF LevelsOK
<1>7. ASSUME NEW c \in Client, AddServiceState(c)
      PROVE  LevelsOK'
  <2>1. client[c] \in Deploying /\ client[c].pc = "add_service"
    BY <1>0, <1>7, DoingIs DEF AddServiceState, TypeOK
  <2> DEFINE s == client[c].service
             k == client[c].charm
             d == with_series(client[c].data, Charm[k])
             node == [data |-> d, typed |-> client[c].typed, charm |-> k, sha |-> charms[k]]
  <2>2. s \in Service /\ k \in DOMAIN Charm /\ client[c].data \in Data
    BY <2>1 DEF Deploying
  <2>3. Shows(client[c].typed, client[c].data) /\ Closed(client[c].data)
    BY <1>0, <2>1 DEF LevelsOK, Sound
  <2>4. Shows(client[c].typed, d) /\ Closed(d) /\ OfSeries(d, Charm[k])
    BY <2>2, <2>3, WithSeries, DeploymentAssumption
  <2>5. CASE services[s] # None
    <3>1. UNCHANGED <<environment, services>> /\ client' = [client EXCEPT ![c] = Idle]
      BY <1>7, <2>5 DEF AddServiceState, Goto
    <3> QED
      BY <1>0, <1>6, <3>1 DEF TypeOK, Idle
  <2>6. CASE services[s] = None
    <3>1. /\ services' = [services EXCEPT ![s] = node]
          /\ client' = [client EXCEPT ![c] = [pc |-> "environment", service |-> s]]
          /\ UNCHANGED environment
      BY <1>7, <2>6 DEF AddServiceState, Goto
    <3>2. services'[s] = node
      BY <1>0, <2>2, <3>1 DEF TypeOK
    <3>3. /\ client'[c].pc = "environment" /\ client'[c].service = s
          /\ \A e \in Client \ {c} : client'[e] = client[e]
      BY <1>0, <3>1 DEF TypeOK
    <3>4. services'[s] # None
      <4>1. charms[k] \in Content
        BY <1>0, <2>1, <2>2 DEF TypeOK, IInv, CharmsOK
      <4>2. node \in ServiceNode
        BY <2>1, <2>2, <4>1, WithSeries, DeploymentAssumption DEF ServiceNode, Deploying
      <4> QED
        BY <3>2, <4>2, NoneIsNothing
    <3>5. Sound(services'[s]) /\ OfSeries(services'[s].data, Charm[services'[s].charm])
      BY <2>4, <3>2 DEF Sound
    <3>6. \A s2 \in Service \ {s} : services'[s2] = services[s2]
      BY <1>0, <3>1 DEF TypeOK
    <3> HIDE DEF s, k, d, node
    <3> QED
      BY <1>0, <3>1, <3>3, <3>4, <3>5, <3>6 DEF LevelsOK
  <2> QED
    BY <2>5, <2>6
<1>8. ASSUME NEW c \in Client, NEW s \in Service, AddUnit(c, s)
      PROVE  LevelsOK'
  <2>1. /\ client'[c].pc = "environment" /\ client'[c].service = s
        /\ \A e \in Client \ {c} : client'[e] = client[e]
    BY <1>0, <1>8 DEF AddUnit, Goto, TypeOK
  <2> QED
    BY <1>0, <1>8, <2>1 DEF AddUnit, LevelsOK
<1>9. ASSUME NEW c \in Client, ReadEnvironment(c)
      PROVE  LevelsOK'
  <2> DEFINE env == IF environment = None THEN [data |-> NoData, typed |-> NoData]
                    ELSE environment
  <2>1. /\ client'[c].pc = "service" /\ client'[c].service = client[c].service
        /\ client'[c].env = env
        /\ \A e \in Client \ {c} : client'[e] = client[e]
    BY <1>0, <1>9 DEF ReadEnvironment, Goto, TypeOK
  <2>2. Sound(env)
    BY <1>0, NoDataIs DEF LevelsOK, Sound
  <2> HIDE DEF env
  <2> QED
    BY <1>0, <1>9, <2>1, <2>2 DEF ReadEnvironment, LevelsOK
<1>10. ASSUME NEW c \in Client,
              \/ _eb_verify_duplicate(c) \/ PlacementFails(c) \/ Die(c)
              \/ _local_placement(c) \/ assign_to_unused_machine(c) \/ assign_to_machine(c)
              \/ \E m \in Machine : add_machine_state(c, m)
              \/ \E u \in Unit : AddUnitState(c, u)
       PROVE  LevelsOK'
  <2>1. /\ client'[c].pc \in {"idle", "place", "assign"}
        /\ \A d \in Client \ {c} : client'[d] = client[d]
    BY <1>0, <1>10
    DEF _eb_verify_duplicate, PlacementFails, Die, _local_placement, assign_to_unused_machine,
        assign_to_machine, add_machine_state, AddUnitState, Goto, Idle, TypeOK
  <2>2. UNCHANGED <<environment, services>>
    BY <1>10
    DEF _eb_verify_duplicate, PlacementFails, Die, _local_placement, assign_to_unused_machine,
        assign_to_machine, add_machine_state, AddUnitState
  <2> QED
    BY <1>6, <2>1, <2>2
<1>11. ASSUME UNCHANGED <<environment, services, client>>
       PROVE  LevelsOK'
  BY <1>0, <1>11 DEF LevelsOK
<1>12. ASSUME \/ \E u \in Unit : RemoveUnitState(u)
              \/ \E m \in Machine : RemoveMachineState(m)
              \/ UNCHANGED vars
       PROVE  LevelsOK'
  BY <1>11, <1>12 DEF RemoveUnitState, RemoveMachineState, vars
<1> QED
  BY <1>1, <1>2, <1>3, <1>5, <1>7, <1>8, <1>9, <1>10, <1>12 DEF Next

\* Every step keeps the charms: charm nodes and bundles are only added.
LEMMA NextCharms == IInv /\ [Next]_vars => CharmsOK'
<1> SUFFICES ASSUME IInv, [Next]_vars
             PROVE  CharmsOK'
  OBVIOUS
<1> USE DEF published
<1>0. TypeOK /\ CharmsOK
  BY DEF IInv
<1>1. \A c \in Client : client[c].pc \in {"put", "create", "add_service"} =>
         /\ client[c].charm \in DOMAIN Charm /\ client[c].sha \in Content
         /\ client[c].service \in Service
  BY <1>0, DoingIs DEF TypeOK, Deploying
<1>2. ASSUME NEW c \in Client, client'[c].pc \notin {"create", "add_service"},
             \A d \in Client \ {c} : client'[d] = client[d], UNCHANGED <<charms, services>>,
             storage \subseteq storage'
      PROVE  CharmsOK'
  BY <1>0, <1>2 DEF CharmsOK
<1>3. ASSUME NEW typed \in Typed, NEW s \in Service, SetService(s, typed)
      PROVE  CharmsOK'
  <2>1. services[s] \in ServiceNode
    BY <1>0, <1>3 DEF SetService, TypeOK
  <2>2. /\ services'[s].charm = services[s].charm /\ services'[s].sha = services[s].sha
        /\ \A s2 \in Service \ {s} : services'[s2] = services[s2]
    BY <1>0, <1>3, <2>1 DEF SetService, TypeOK, ServiceNode
  <2>3. UNCHANGED <<charms, storage, client>> /\ services[s] # None
    BY <1>3 DEF SetService
  <2> QED
    BY <1>0, <2>2, <2>3 DEF CharmsOK
<1>4. ASSUME NEW c \in Client, NEW s \in Service, NEW typed \in Typed, NEW k \in DOMAIN Charm,
             NEW sha \in Content, Deploy(c, s, typed, k, sha)
      PROVE  CharmsOK'
  <2>1. /\ client'[c].pc = IF charms[k] # None THEN "add_service" ELSE "put"
        /\ client'[c].charm = k
        /\ \A d \in Client \ {c} : client'[d] = client[d]
        /\ UNCHANGED <<charms, storage, services>>
    BY <1>0, <1>4 DEF Deploy, Goto, TypeOK
  <2> QED
    BY <1>0, <2>1 DEF CharmsOK
<1>5. ASSUME NEW c \in Client, _publish_one(c)
      PROVE  CharmsOK'
  <2>1. client[c] \in Deploying
    BY <1>0, <1>5, DoingIs DEF _publish_one, TypeOK
  <2>2. /\ client'[c].pc = "create"
        /\ client'[c].charm = client[c].charm /\ client'[c].sha = client[c].sha
        /\ \A d \in Client \ {c} : client'[d] = client[d]
    BY <1>0, <1>5, <2>1 DEF _publish_one, Goto, TypeOK, Deploying
  <2>3. /\ storage' = storage \cup {<<client[c].charm, client[c].sha>>}
        /\ UNCHANGED <<charms, services>>
    BY <1>5 DEF _publish_one
  <2> QED
    BY <1>0, <2>2, <2>3 DEF CharmsOK
<1>6. ASSUME NEW c \in Client, add_charm_state(c)
      PROVE  CharmsOK'
  <2> DEFINE k == client[c].charm
  <2>1. client[c] \in Deploying
    BY <1>0, <1>6, DoingIs DEF add_charm_state, TypeOK
  <2>2. /\ client'[c].pc = "add_service" /\ client'[c].charm = k
        /\ \A d \in Client \ {c} : client'[d] = client[d]
    BY <1>0, <1>6, <2>1 DEF add_charm_state, Goto, TypeOK, Deploying
  <2>3. /\ charms[k] = None /\ charms'[k] = client[c].sha /\ client[c].pc = "create"
        /\ \A k2 \in DOMAIN Charm \ {k} : charms'[k2] = charms[k2]
        /\ UNCHANGED <<storage, services>>
    BY <1>0, <1>1, <1>6 DEF add_charm_state, TypeOK
  <2>4. client[c].sha # None /\ <<k, client[c].sha>> \in storage
    BY <1>0, <1>1, <2>3, DeploymentAssumption DEF CharmsOK
  <2>5. \A s \in Service : services[s] # None =>
           services[s].charm \in DOMAIN Charm /\ services[s].sha \in Content
    BY <1>0 DEF TypeOK, ServiceNode
  <2>6. \A s \in Service : services[s] # None => services[s].charm # k
    BY <1>0, <2>3, <2>5, DeploymentAssumption DEF CharmsOK
  <2>7. \A k2 \in DOMAIN Charm : charms[k2] # None => charms'[k2] = charms[k2]
    BY <2>3
  <2>8. \A k2 \in DOMAIN Charm : charms'[k2] # None => <<k2, charms'[k2]>> \in storage'
    BY <1>0, <2>3, <2>4 DEF CharmsOK
  <2>9. \A s \in Service : services'[s] # None => charms'[services'[s].charm] = services'[s].sha
    BY <1>0, <2>3, <2>5, <2>6 DEF CharmsOK
  <2>10. \A d \in Client :
          /\ client'[d].pc = "create" => <<client'[d].charm, client'[d].sha>> \in storage'
          /\ client'[d].pc = "add_service" => charms'[client'[d].charm] # None
    BY <1>0, <1>1, <2>2, <2>3, <2>4, <2>7 DEF CharmsOK
  <2> QED
    BY <2>8, <2>9, <2>10 DEF CharmsOK
<1>7. ASSUME NEW c \in Client, AddServiceState(c)
      PROVE  CharmsOK'
  <2> DEFINE s == client[c].service
             k == client[c].charm
  <2>1. s \in Service /\ k \in DOMAIN Charm /\ client[c].pc = "add_service"
    BY <1>1, <1>7 DEF AddServiceState
  <2>2. UNCHANGED <<charms, storage>>
    BY <1>7 DEF AddServiceState
  <2>3. /\ client'[c].pc \in {"idle", "environment"}
        /\ \A d \in Client \ {c} : client'[d] = client[d]
    BY <1>0, <1>7 DEF AddServiceState, Goto, TypeOK, Idle
  <2>4. /\ \A s2 \in Service \ {s} : services'[s2] = services[s2]
        /\ \/ services'[s] = services[s]
           \/ services'[s].charm = k /\ services'[s].sha = charms[k]
    BY <1>0, <1>7, <2>1 DEF AddServiceState, TypeOK
  <2> QED
    BY <1>0, <2>2, <2>3, <2>4 DEF CharmsOK
<1>8. ASSUME NEW c \in Client,
              \/ _eb_verify_duplicate(c) \/ PlacementFails(c) \/ Die(c)
              \/ _local_placement(c) \/ assign_to_unused_machine(c) \/ assign_to_machine(c)
              \/ ReadEnvironment(c)
              \/ \E s \in Service : AddUnit(c, s)
              \/ \E m \in Machine : add_machine_state(c, m)
              \/ \E u \in Unit : AddUnitState(c, u)
      PROVE  CharmsOK'
  <2>1. /\ client'[c].pc \notin {"create", "add_service"}
        /\ \A d \in Client \ {c} : client'[d] = client[d]
    BY <1>0, <1>8
    DEF _eb_verify_duplicate, PlacementFails, Die, _local_placement, assign_to_unused_machine,
        assign_to_machine, add_machine_state, AddUnitState, ReadEnvironment, AddUnit, Goto, Idle,
        TypeOK
  <2>2. UNCHANGED <<charms, storage, services>>
    BY <1>8
    DEF _eb_verify_duplicate, PlacementFails, Die, _local_placement, assign_to_unused_machine,
        assign_to_machine, add_machine_state, AddUnitState, ReadEnvironment, AddUnit
  <2> QED
    BY <1>2, <2>1, <2>2
<1>9. ASSUME \/ \E typed \in Typed : SetEnvironment(typed)
             \/ \E u \in Unit : RemoveUnitState(u)
             \/ \E m \in Machine : RemoveMachineState(m)
             \/ UNCHANGED vars
      PROVE  CharmsOK'
  <2>1. UNCHANGED <<charms, storage, services, client>>
    BY <1>9 DEF SetEnvironment, RemoveUnitState, RemoveMachineState, vars
  <2> QED
    BY <1>0, <2>1 DEF CharmsOK
<1> QED
  BY <1>3, <1>4, <1>5, <1>6, <1>7, <1>8, <1>9 DEF Next

\* What a unit gets is what its two levels say.
LEMMA FrozenData ==
    ASSUME NEW env, NEW service, env.data \in Data, service.data \in Data,
           Sound(env), Sound(service), NEW charm,
           OfSeries(service.data, Charm[charm]),
           NEW unit, unit.data = get_constraints(env.data, service.data),
           unit.typed = [env |-> env.typed, service |-> service.typed], unit.charm = charm
    PROVE  /\ Honoured(unit) /\ Closed(unit.data)
           /\ OfSeries(unit.data, Charm[unit.charm])
<1>1. /\ DOMAIN unit.data = DOMAIN env.data \cup DOMAIN service.data
      /\ \A n \in DOMAIN service.data : unit.data[n] = service.data[n]
      /\ \A n \in DOMAIN env.data \ DOMAIN service.data : unit.data[n] = env.data[n]
  BY DEF get_constraints, update
<1>2. Closed(unit.data)
  BY UpdateData DEF get_constraints, Sound
<1>3. OfSeries(unit.data, Charm[unit.charm])
  BY <1>1 DEF OfSeries
<1>4. ASSUME NEW n \in names \ Computed
      PROVE  constraints_get(unit.data)[n] \in
                IF Says(unit.typed.service, n) # {} THEN Says(unit.typed.service, n)
                ELSE IF Says(unit.typed.env, n) # {} THEN Says(unit.typed.env, n)
                ELSE {convert(n, default[n])}
  <2>1. constraints_get(unit.data)[n] = Get(unit.data, n)
    BY DEF constraints_get
  <2>2. CASE n \in DOMAIN service.data
    <3>1. Says(service.typed, n) = {convert(n, service.data[n])}
      BY <2>2 DEF Sound, Shows
    <3> QED
      BY <1>1, <2>1, <2>2, <3>1 DEF Get
  <2>3. CASE n \notin DOMAIN service.data /\ n \in DOMAIN env.data
    <3>1. Says(service.typed, n) = {} /\ Says(env.typed, n) = {convert(n, env.data[n])}
      BY <2>3 DEF Sound, Shows
    <3> QED
      BY <1>1, <2>1, <2>3, <3>1 DEF Get
  <2>4. CASE n \notin DOMAIN service.data /\ n \notin DOMAIN env.data
    <3>1. Says(service.typed, n) = {} /\ Says(env.typed, n) = {}
      BY <2>4 DEF Sound, Shows
    <3> QED
      BY <1>1, <2>1, <2>4, <3>1 DEF Get
  <2> QED
    BY <2>2, <2>3, <2>4
<1>5. Honoured(unit)
  BY <1>4 DEF Honoured
<1> QED
  BY <1>2, <1>3, <1>5

\* Every step keeps what units show: only the step that adds a unit sets it.
LEMMA NextUnits == IInv /\ [Next]_vars => UnitsOK'
<1> SUFFICES ASSUME IInv, [Next]_vars
             PROVE  UnitsOK'
  OBVIOUS
<1>0. TypeOK /\ LevelsOK /\ UnitsOK
  BY DEF IInv
<1>1. ASSUME NEW c \in Client, NEW u \in Unit, AddUnitState(c, u)
      PROVE  UnitsOK'
  <2>1. client[c] \in Reading /\ client[c].pc = "service"
    BY <1>0, <1>1, DoingIs DEF AddUnitState, TypeOK
  <2> DEFINE env == client[c].env
             service == services[client[c].service]
             node == [data |-> get_constraints(env.data, service.data),
                      typed |-> [env |-> env.typed, service |-> service.typed],
                      charm |-> service.charm]
  <2>2. service \in ServiceNode /\ Sound(service) /\ OfSeries(service.data, Charm[service.charm])
    BY <1>0, <2>1 DEF LevelsOK, TypeOK, Reading
  <2>3. env.data \in Data /\ Sound(env)
    BY <1>0, <2>1 DEF LevelsOK, Reading, Level
  <2>4. /\ units'[u] = node
        /\ \A v \in Unit \ {u} : units'[v] = units[v]
    BY <1>0, <1>1 DEF AddUnitState, TypeOK
  <2>5. /\ node.data = get_constraints(env.data, service.data)
        /\ node.typed = [env |-> env.typed, service |-> service.typed]
        /\ node.charm = service.charm
    OBVIOUS
  <2>6. service.data \in Data
    BY <2>2 DEF ServiceNode
  <2> HIDE DEF node, service, env
  <2>7. /\ Honoured(node) /\ Closed(node.data)
        /\ OfSeries(node.data, Charm[node.charm])
    BY <2>2, <2>3, <2>5, <2>6, FrozenData
  <2> QED
    BY <1>0, <2>4, <2>7 DEF UnitsOK
<1>2. ASSUME NEW u \in Unit, RemoveUnitState(u)
      PROVE  UnitsOK'
  <2>1. /\ ~Live(units'[u])
        /\ \A v \in Unit \ {u} : units'[v] = units[v]
    BY <1>0, <1>2 DEF RemoveUnitState, TypeOK, Live
  <2> QED
    BY <1>0, <2>1 DEF UnitsOK
<1>3. CASE UNCHANGED units
  BY <1>0, <1>3 DEF UnitsOK
<1> QED
  BY <1>1, <1>2, <1>3
  DEF Next, vars, SetEnvironment, SetService, Deploy, _publish_one, add_charm_state,
      _eb_verify_duplicate, AddServiceState, AddUnit, ReadEnvironment, _local_placement,
      assign_to_unused_machine, add_machine_state, assign_to_machine, PlacementFails, Die,
      RemoveMachineState

\* Every step keeps the placement.
LEMMA NextPlaced == IInv /\ [Next]_vars => PlacedOK'
<1> SUFFICES ASSUME IInv, [Next]_vars
             PROVE  PlacedOK'
  OBVIOUS
<1>0. TypeOK /\ UnitsOK /\ PlacedOK
  BY DEF IInv
<1>1. \A c \in Client : client[c].pc \in {"place", "assign"} => client[c].unit \in Unit
  BY <1>0, DoingIs DEF TypeOK, Placing, Assigning
<1>2. \A c \in Client : client[c].pc = "assign" => client[c].machine \in Machine
  BY <1>0, DoingIs DEF TypeOK, Assigning
<1>3. \A u \in Unit : Live(units[u]) => units[u].data \in Data
  BY <1>0 DEF TypeOK, UnitNode, Live
<1>4. ASSUME NEW c \in Client, client'[c].pc \notin {"place", "assign"},
             \A d \in Client \ {c} : client'[d] = client[d],
             UNCHANGED <<units, machines, assigned>>
      PROVE  PlacedOK'
  BY <1>0, <1>4 DEF PlacedOK
<1>5. ASSUME NEW c \in Client, NEW u \in Unit, AddUnitState(c, u)
      PROVE  PlacedOK'
  <2>1. /\ client'[c].pc = "place" /\ client'[c].unit = u
        /\ \A d \in Client \ {c} : client'[d] = client[d]
        /\ UNCHANGED <<machines, assigned>>
        /\ units[u] = None
        /\ \A v \in Unit \ {u} : units'[v] = units[v]
    BY <1>0, <1>5 DEF AddUnitState, Goto, TypeOK
  <2>2. assigned[u] = None
    BY <1>0, <2>1 DEF PlacedOK
  <2>3. units'[u] # None
    <3>1. client[c] \in Reading /\ client[c].pc = "service" /\ client[c] \in Doing
      BY <1>0, <1>5, DoingIs DEF AddUnitState, TypeOK
    <3> DEFINE service == services[client[c].service]
               node == [data |-> get_constraints(client[c].env.data, service.data),
                        typed |-> [env |-> client[c].env.typed, service |-> service.typed],
                        charm |-> service.charm]
    <3>2. service \in ServiceNode
      BY <1>0, <3>1 DEF IInv, LevelsOK, TypeOK, Reading
    <3>3. get_constraints(client[c].env.data, service.data) \in Data
      BY <3>1, <3>2, UpdateData DEF get_constraints, Reading, Level, ServiceNode
    <3>4. node \in UnitNode
      BY <3>1, <3>2, <3>3 DEF UnitNode, Reading, Level, ServiceNode
    <3>5. units'[u] = node
      BY <1>0, <1>5 DEF AddUnitState, TypeOK
    <3> QED
      BY <3>4, <3>5, NoneIsNothing
  <2>4. \A d \in Client \ {c} : client[d].pc \in {"place", "assign"} => client[d].unit # u
    BY <1>0, <2>1 DEF PlacedOK
  <2> QED
    BY <1>0, <1>1, <2>1, <2>2, <2>3, <2>4 DEF PlacedOK
<1>6. ASSUME NEW c \in Client, _local_placement(c)
      PROVE  PlacedOK'
  <2>1. /\ client'[c].pc = "idle"
        /\ \A d \in Client \ {c} : client'[d] = client[d]
        /\ UNCHANGED <<units, machines>>
        /\ Live(units[client[c].unit]) /\ client[c].unit \in Unit
        /\ assigned'[client[c].unit] = RootMachine
        /\ \A u \in Unit \ {client[c].unit} : assigned'[u] = assigned[u]
    BY <1>0, <1>1, <1>6 DEF _local_placement, Goto, Idle, TypeOK
  <2> QED
    BY <1>0, <2>1 DEF PlacedOK, Live
<1>7. ASSUME NEW c \in Client, NEW m \in Machine \ {RootMachine}, client'[c].pc = "idle",
             \A d \in Client \ {c} : client'[d] = client[d],
             UNCHANGED <<units, machines>>, client[c].unit \in Unit,
             Live(units[client[c].unit]), Live(machines[m]),
             can_satisfy(machines[m], units[client[c].unit].data),
             assigned' = [assigned EXCEPT ![client[c].unit] = m]
      PROVE  PlacedOK'
  <2>1. /\ assigned'[client[c].unit] = m
        /\ \A u \in Unit \ {client[c].unit} : assigned'[u] = assigned[u]
    BY <1>0, <1>7 DEF TypeOK
  <2> QED
    BY <1>0, <1>7, <2>1 DEF PlacedOK, Live
<1>8. ASSUME NEW c \in Client, assign_to_unused_machine(c)
      PROVE  PlacedOK'
  <2>1. PICK m \in suitable(client[c].unit) :
          assigned' = [assigned EXCEPT ![client[c].unit] = m]
    BY <1>8 DEF assign_to_unused_machine
  <2>2. /\ m \in Machine \ {RootMachine} /\ Live(machines[m])
        /\ can_satisfy(machines[m], units[client[c].unit].data)
    BY DEF suitable, unused_machines
  <2>3. /\ client'[c].pc = "idle"
        /\ \A d \in Client \ {c} : client'[d] = client[d]
        /\ UNCHANGED <<units, machines>>
        /\ Live(units[client[c].unit]) /\ client[c].unit \in Unit
    BY <1>0, <1>1, <1>8 DEF assign_to_unused_machine, Goto, Idle, TypeOK
  <2> QED
    BY <1>7, <2>1, <2>2, <2>3
<1>9. ASSUME NEW c \in Client, assign_to_machine(c)
      PROVE  PlacedOK'
  <2> DEFINE u == client[c].unit
             m == client[c].machine
  <2>1. /\ client[c].pc = "assign" /\ Live(units[u]) /\ Live(machines[m])
        /\ assigned' = [assigned EXCEPT ![u] = m]
        /\ UNCHANGED <<units, machines>>
    BY <1>9 DEF assign_to_machine
  <2>2. m \in Machine \ {RootMachine} /\ u \in Unit
    BY <1>0, <1>1, <1>2, <2>1 DEF PlacedOK
  <2>3. machines[m] = units[u].data /\ complete(units[u].data)
    BY <1>0, <2>1 DEF PlacedOK
  <2>4. can_satisfy(machines[m], units[u].data)
    BY <1>3, <2>1, <2>2, <2>3, SatisfiesItself
  <2>5. /\ client'[c].pc = "idle"
        /\ \A d \in Client \ {c} : client'[d] = client[d]
    BY <1>0, <1>9 DEF assign_to_machine, Goto, Idle, TypeOK
  <2> QED
    BY <1>7, <2>1, <2>2, <2>4, <2>5
<1>10. ASSUME NEW c \in Client, NEW m \in Machine, add_machine_state(c, m)
       PROVE  PlacedOK'
  <2> DEFINE u == client[c].unit
  <2>1. /\ machines[m] = None /\ Live(units[u]) /\ u \in Unit /\ complete(units[u].data)
        /\ UNCHANGED <<units, assigned>>
        /\ machines'[m] = units[u].data
        /\ \A m2 \in Machine \ {m} : machines'[m2] = machines[m2]
    BY <1>0, <1>1, <1>10 DEF add_machine_state, TypeOK
  <2>2. /\ client'[c].pc = "assign" /\ client'[c].unit = u /\ client'[c].machine = m
        /\ \A d \in Client \ {c} : client'[d] = client[d]
    BY <1>0, <1>10 DEF add_machine_state, Goto, TypeOK
  <2>3. Closed(units[u].data) /\ units[u].data \in Data /\ units[u].data # None
    BY <1>0, <1>3, <2>1, NoneIsNothing DEF UnitsOK
  <2>4. m # RootMachine
    BY <1>0, <2>1 DEF PlacedOK
  <2>5. \A u2 \in Unit : Live(units[u2]) /\ assigned[u2] \notin {None, RootMachine} =>
            assigned[u2] \in Machine \ {m}
    BY <1>0, <2>1 DEF PlacedOK, TypeOK, Live
  <2>6. \A d \in Client \ {c} : client[d].pc = "assign" => client[d].machine \in Machine \ {m}
    BY <1>0, <1>2, <2>1 DEF PlacedOK
  <2> HIDE DEF u
  <2>7. \A u2 \in Unit : Live(units'[u2]) /\ assigned'[u2] \notin {None, RootMachine} =>
           /\ Live(machines'[assigned'[u2]])
           /\ can_satisfy(machines'[assigned'[u2]], units'[u2].data)
    BY <1>0, <2>1, <2>5 DEF PlacedOK
  <2>8. \A u2 \in Unit : units'[u2] = None => assigned'[u2] = None
    BY <1>0, <2>1 DEF PlacedOK
  <2>9. /\ machines'[RootMachine] # None
        /\ \A m2 \in Machine \ {RootMachine} : Live(machines'[m2]) => Closed(machines'[m2])
    BY <1>0, <2>1, <2>3, <2>4, DeploymentAssumption DEF PlacedOK
  <2>10. ASSUME NEW d \in Client
         PROVE
           /\ client'[d].pc \in {"place", "assign"} => units'[client'[d].unit] # None
           /\ client'[d].pc = "assign" =>
                /\ client'[d].machine # RootMachine /\ machines'[client'[d].machine] # None
                /\ Live(units'[client'[d].unit]) /\ Live(machines'[client'[d].machine]) =>
                      /\ machines'[client'[d].machine] = units'[client'[d].unit].data
                      /\ complete(units'[client'[d].unit].data)
    <3>1. CASE d = c
      BY <2>1, <2>2, <2>3, <2>4, <3>1 DEF Live
    <3>2. CASE d # c
      BY <1>0, <2>1, <2>2, <2>6, <3>2 DEF PlacedOK
    <3> QED
      BY <3>1, <3>2
  <2> QED
    BY <2>7, <2>8, <2>9, <2>10 DEF PlacedOK
<1>11. ASSUME NEW u \in Unit, RemoveUnitState(u)
       PROVE  PlacedOK'
  <2>1. /\ units'[u] = Gone /\ assigned'[u] = None
        /\ \A v \in Unit \ {u} : units'[v] = units[v] /\ assigned'[v] = assigned[v]
        /\ UNCHANGED <<machines, client>>
    BY <1>0, <1>11 DEF RemoveUnitState, TypeOK
  <2>2. Gone # None /\ ~Live(units'[u])
    BY <2>1, DeploymentAssumption DEF Live
  <2> QED
    BY <1>0, <1>1, <2>1, <2>2 DEF PlacedOK
<1>12. ASSUME NEW m \in Machine, RemoveMachineState(m)
       PROVE  PlacedOK'
  <2>1. /\ machines'[m] = Gone
        /\ \A m2 \in Machine \ {m} : machines'[m2] = machines[m2]
        /\ \A u \in Unit : assigned[u] # m
        /\ UNCHANGED <<units, assigned, client>>
    BY <1>0, <1>12 DEF RemoveMachineState, has_units, TypeOK
  <2>2. Gone # None /\ ~Live(machines'[m])
    BY <2>1, DeploymentAssumption DEF Live
  <2>3. \A u \in Unit : Live(units[u]) /\ assigned[u] \notin {None, RootMachine} =>
            machines'[assigned[u]] = machines[assigned[u]]
    BY <1>0, <2>1 DEF TypeOK
  <2> QED
    BY <1>0, <1>2, <2>1, <2>2, <2>3, DeploymentAssumption DEF PlacedOK
<1>13. ASSUME NEW c \in Client,
              \/ \E s \in Service, typed \in Typed, k \in DOMAIN Charm, sha \in Content :
                    Deploy(c, s, typed, k, sha)
              \/ _publish_one(c) \/ add_charm_state(c) \/ _eb_verify_duplicate(c)
              \/ AddServiceState(c) \/ ReadEnvironment(c) \/ PlacementFails(c) \/ Die(c)
              \/ \E s \in Service : AddUnit(c, s)
       PROVE  PlacedOK'
  <2>1. UNCHANGED <<units, machines, assigned>>
    BY <1>13
    DEF Deploy, _publish_one, add_charm_state, _eb_verify_duplicate, AddServiceState,
        ReadEnvironment, PlacementFails, Die, AddUnit
  <2>2. \A d \in Client \ {c} : client'[d] = client[d]
    BY <1>0, <1>13
    DEF Deploy, _publish_one, add_charm_state, _eb_verify_duplicate, AddServiceState,
        ReadEnvironment, PlacementFails, Die, AddUnit, Goto, TypeOK
  <2>3. CASE _publish_one(c) \/ add_charm_state(c)
    <3>1. client[c] \in Deploying
      BY <1>0, <2>3, DoingIs DEF _publish_one, add_charm_state, TypeOK
    <3>2. client'[c].pc \in {"create", "add_service"}
      BY <1>0, <2>3, <3>1 DEF _publish_one, add_charm_state, Goto, TypeOK, Deploying
    <3> QED
      BY <1>4, <2>1, <2>2, <3>2
  <2>4. CASE ~(_publish_one(c) \/ add_charm_state(c))
    <3>1. client'[c].pc \notin {"place", "assign"}
      BY <1>0, <1>13, <2>4
      DEF Deploy, _eb_verify_duplicate, AddServiceState, ReadEnvironment, PlacementFails, Die,
          AddUnit, Goto, Idle, TypeOK
    <3> QED
      BY <1>4, <2>1, <2>2, <3>1
  <2> QED
    BY <2>3, <2>4
<1>14. ASSUME \/ \E typed \in Typed : SetEnvironment(typed)
              \/ \E typed \in Typed, s \in Service : SetService(s, typed)
              \/ UNCHANGED vars
       PROVE  PlacedOK'
  <2>1. UNCHANGED <<units, machines, assigned, client>>
    BY <1>14 DEF SetEnvironment, SetService, vars
  <2> QED
    BY <1>0, <2>1 DEF PlacedOK
<1> QED
  BY <1>5, <1>6, <1>8, <1>9, <1>10, <1>11, <1>12, <1>13, <1>14 DEF Next

-----------------------------------------------------------------------------
(* Theorems *)

\* The invariant holds in every reachable state.
THEOREM Invariance == Spec => []IInv
<1>1. IInv /\ [Next]_vars => IInv'
  BY NextTypes, NextLevels, NextCharms, NextUnits, NextPlaced DEF IInv
<1> QED
  BY <1>1, InitIInv, PTL DEF Spec

\* A unit shows what its levels said when it was added, with every override
\* honoured (OverridesHonoured).
THEOREM HonoursOverrides == Spec => []OverridesHonoured
<1>1. IInv => OverridesHonoured
  BY DEF IInv, UnitsOK, Honoured, OverridesHonoured
<1> QED
  BY <1>1, Invariance, PTL

\* A unit that was not forced onto the bootstrap machine is on a machine whose
\* instance has what the unit wants (UnitsFitInstances).
THEOREM PlacesWhereItFits == Spec => []UnitsFitInstances
<1>1. ASSUME IInv, DefaultInstanceType = None, NEW u \in Unit, Live(units[u]),
             assigned[u] \notin {None, RootMachine}
      PROVE  /\ Has(machines[assigned[u]], units[u].data)
             /\ constraints_get(units[u].data)["ubuntu-series"] = Charm[units[u].charm]
  <2> DEFINE m == machines[assigned[u]]
             d == units[u].data
  <2>1. /\ assigned[u] \in Machine \ {RootMachine}
        /\ units[u] \in UnitNode
    BY <1>1 DEF IInv, TypeOK, Live
  <2>2. Live(m) /\ can_satisfy(m, d) /\ Closed(m)
    BY <1>1, <2>1 DEF IInv, PlacedOK
  <2>3. m \in Data /\ d \in Data
    BY <1>1, <2>1, <2>2 DEF IInv, TypeOK, Live, UnitNode
  <2>4. OfSeries(d, Charm[units[u].charm])
    BY <1>1 DEF IInv, UnitsOK
  <2> HIDE DEF m
  <2>5. Has(m, d)
    BY <1>1, <2>2, <2>3, Fits
  <2>6. constraints_get(d)["ubuntu-series"] = Charm[units[u].charm]
    BY <2>4 DEF OfSeries, constraints_get, Get, convert, names, Computed
  <2> QED
    BY <2>5, <2>6 DEF m
<1>2. IInv => UnitsFitInstances
  BY <1>1 DEF UnitsFitInstances, Has
<1> QED
  BY <1>2, Invariance, PTL

\* The charm of a service is published, as the bundle in storage that was
\* published when the service was added (ServicesHaveTheirCharm).
THEOREM KeepsCharms == Spec => []ServicesHaveTheirCharm
<1>1. ASSUME IInv, NEW s \in Service, services[s] # None
      PROVE  /\ charms[services[s].charm] = services[s].sha
             /\ <<services[s].charm, services[s].sha>> \in storage
  <2>1. services[s].charm \in DOMAIN Charm /\ services[s].sha \in Content
    BY <1>1 DEF IInv, TypeOK, ServiceNode
  <2>2. charms[services[s].charm] = services[s].sha /\ services[s].sha # None
    BY <1>1, <2>1, DeploymentAssumption DEF IInv, CharmsOK
  <2> QED
    BY <1>1, <2>1, <2>2 DEF IInv, CharmsOK
<1>2. IInv => ServicesHaveTheirCharm
  BY <1>1 DEF ServicesHaveTheirCharm
<1> QED
  BY <1>2, Invariance, PTL
=============================================================================
