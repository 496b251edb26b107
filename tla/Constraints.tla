----------------------------- MODULE Constraints -----------------------------
(***************************************************************************)
(* Machine constraints (juju/machine/constraints.py) with the set of names *)
(* that the EC2 provider registers, and the choice of an EC2 instance type *)
(* for them (juju/providers/ec2/utils.py).                                 *)
(*                                                                         *)
(* The data of a Constraints object is a function from some of the names   *)
(* to raw values, None for a name that was unset.  A raw cpu is in tenths  *)
(* of an ECU, a raw mem is a number and a suffix.  What a user types for a *)
(* name is AnyValue, DefaultValue (the empty string), or a raw value.       *)
(***************************************************************************)
EXTENDS Naturals

CONSTANTS None, AnyValue, DefaultValue, Series, DefaultInstanceType

Type(arch, cpu, mem, cost) == [arch |-> arch, cpu |-> cpu, mem |-> mem, cost |-> cost]

\* The cost is in tenths of a cent an hour.
INSTANCE_TYPES ==
    [t \in {"t1.micro", "m1.small", "m1.medium", "m1.large", "m1.xlarge", "m2.xlarge",
            "m2.2xlarge", "m2.4xlarge", "c1.medium", "c1.xlarge", "cc1.4xlarge",
            "cc2.8xlarge", "cg1.4xlarge"} |->
        CASE t = "t1.micro"    -> Type("?", 1, 613, 20)
          [] t = "m1.small"    -> Type("?", 10, 1740, 80)
          [] t = "m1.medium"   -> Type("?", 20, 3840, 160)
          [] t = "m1.large"    -> Type("amd64", 40, 7680, 320)
          [] t = "m1.xlarge"   -> Type("amd64", 80, 15360, 640)
          [] t = "m2.xlarge"   -> Type("amd64", 65, 17510, 450)
          [] t = "m2.2xlarge"  -> Type("amd64", 130, 35020, 900)
          [] t = "m2.4xlarge"  -> Type("amd64", 260, 70040, 1800)
          [] t = "c1.medium"   -> Type("?", 50, 1740, 165)
          [] t = "c1.xlarge"   -> Type("amd64", 200, 7168, 660)
          [] t = "cc1.4xlarge" -> Type("amd64", 335, 23552, 1300)
          [] t = "cc2.8xlarge" -> Type("amd64", 880, 61952, 2400)
          [] t = "cg1.4xlarge" -> Type("amd64", 335, 22528, 2100)]

_MEM_SUFFIXES == [M |-> 1, G |-> 1024, T |-> 1024 * 1024]

-----------------------------------------------------------------------------
(* The registered names *)

Computed == {"ubuntu-series", "provider-type"}

generics == {"arch", "cpu", "mem", "instance-type"}

names == Computed \cup generics \cup {"ec2-zone"}

default == [n \in names |->
    IF n = "arch" THEN "amd64" ELSE IF n = "cpu" THEN 10
    ELSE IF n = "mem" THEN [n |-> 512, suffix |-> "M"] ELSE None]

conflicts == [n \in names |->
    IF n = "instance-type" THEN {"cpu", "mem"}
    ELSE IF n \in {"cpu", "mem"} THEN {"instance-type"} ELSE {}]

_convert_mem(s) == s.n * _MEM_SUFFIXES[s.suffix]

\* The raw values that the converter of a name takes.
Raw(n) ==
    CASE n = "arch"          -> {"i386", "amd64", "arm"}
      [] n = "cpu"           -> Nat
      [] n = "mem"           -> [n : Nat, suffix : DOMAIN _MEM_SUFFIXES]
      [] n = "instance-type" -> DOMAIN INSTANCE_TYPES
      [] n = "ec2-zone"      -> {"a", "b", "c"}
      [] n = "ubuntu-series" -> Series
      [] n = "provider-type" -> {"ec2"}

Value == Raw("arch") \cup Raw("cpu") \cup Raw("mem") \cup Raw("instance-type")
         \cup Raw("ec2-zone") \cup Raw("ubuntu-series") \cup Raw("provider-type")

\* The data of Constraints objects, and of those that say something of S.
DataOn(S) == {data \in [S -> Value \cup {None}] : \A n \in S : data[n] \in Raw(n) \cup {None}}
Data == UNION {DataOn(S) : S \in SUBSET names}

ASSUME NoneAssumption == None \notin Series /\ \A S \in SUBSET names : None \notin DataOn(S)

convert(n, raw) == IF n = "mem" /\ raw # None THEN _convert_mem(raw) ELSE raw

compares(n, machine_value, unit_value) ==
    IF n \in {"cpu", "mem"} THEN machine_value >= unit_value ELSE machine_value = unit_value

-----------------------------------------------------------------------------
(* ConstraintSet and Constraints *)

\* The data of a lower level overwritten with that of a higher one.
update(data, other) ==
    [n \in DOMAIN data \cup DOMAIN other |-> IF n \in DOMAIN other THEN other[n] ELSE data[n]]

raw_value(n, typed) ==
    IF typed = AnyValue THEN None ELSE IF typed = DefaultValue THEN default[n] ELSE typed

\* Mutant of masks: what is set does not clear what it conflicts with.
no_masks(data) == {}

\* The names that what is set in the data conflicts with.
masks(data) == UNION {conflicts[n] : n \in {m \in DOMAIN data : data[m] # None}}

\* parse: the data for what was typed, or nothing: an unknown or computed name,
\* a bad value, or two names that overlap.
parse(typed) ==
    LET data == update([n \in {"provider-type"} |-> "ec2"],
                       [n \in DOMAIN typed \cap names |-> raw_value(n, typed[n])])
    IN  IF /\ DOMAIN typed \subseteq names \ Computed
           /\ \A n \in DOMAIN typed : data[n] # None => data[n] \in Raw(n)
           /\ masks(data) \cap DOMAIN data = {}
        THEN {update(data, [n \in masks(data) |-> None])} ELSE {}

\* __getitem__
Get(data, n) == convert(n, IF n \in DOMAIN data THEN data[n] ELSE default[n])

with_series(data, series) == update(data, [n \in {"ubuntu-series"} |-> series])

complete(data) == \A n \in Computed : Get(data, n) # None

\* Mutant of can_satisfy: what the machine leaves open is taken to match.
can_satisfy_if_open(machine, unit) ==
    /\ complete(machine) /\ complete(unit)
    /\ \A n \in names : Get(unit, n) # None /\ Get(machine, n) # None =>
            compares(n, Get(machine, n), Get(unit, n))

can_satisfy(machine, unit) ==
    /\ complete(machine) /\ complete(unit)
    /\ \A n \in names : Get(unit, n) # None =>
            /\ Get(machine, n) # None
            /\ compares(n, Get(machine, n), Get(unit, n))

-----------------------------------------------------------------------------
(* The EC2 instance for a machine *)

_arch_match(actual, desired) ==
    actual = desired \/ (actual = "?" /\ desired \in {"i386", "amd64"})

\* No filter for a value that is unset, or a cpu or mem of 0.
_get_filters(data, type) ==
    /\ Get(data, "arch") # None => _arch_match(type.arch, Get(data, "arch"))
    /\ Get(data, "cpu") # None => type.cpu >= Get(data, "cpu")
    /\ Get(data, "mem") # None => type.mem >= Get(data, "mem")

possible_types(data) == {t \in DOMAIN INSTANCE_TYPES : _get_filters(data, INSTANCE_TYPES[t])}

\* None: no instance type satisfies the constraints, and the launch fails.
get_instance_type(data) ==
    IF DefaultInstanceType # None THEN DefaultInstanceType
    ELSE IF Get(data, "instance-type") # None THEN Get(data, "instance-type")
    ELSE IF possible_types(data) = {} THEN None
    ELSE CHOOSE t \in possible_types(data) : \A t2 \in possible_types(data) :
            INSTANCE_TYPES[t].cost <= INSTANCE_TYPES[t2].cost

get_machine_spec(data) ==
    [instance_type |-> get_instance_type(data),
     series |-> Get(data, "ubuntu-series"),
     arch   |-> IF Get(data, "arch") # None THEN Get(data, "arch") ELSE "amd64",
     zone   |-> Get(data, "ec2-zone")]
=============================================================================
