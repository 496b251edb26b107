---------------------------- MODULE MCDeployment ----------------------------
(* Deployment for TLC, with command lines that are accepted and command      *)
(* lines that are refused.                                                   *)
EXTENDS Deployment, TLC

CONSTANTS wordpress_precise, wordpress_oneiric

MCCharm == (wordpress_precise :> "precise") @@ (wordpress_oneiric :> "oneiric")

Mem(n, suffix) == [n |-> n, suffix |-> suffix]

MCTyped ==
    {NoData, ("cpu" :> 20) @@ ("mem" :> DefaultValue),
     ("cpu" :> AnyValue) @@ ("mem" :> Mem(2, "G")) @@ ("arch" :> "i386") @@ ("ec2-zone" :> "a"),
     "instance-type" :> "m1.small",
     \* refused: overlapping, computed, unknown to the provider
     ("cpu" :> 20) @@ ("instance-type" :> AnyValue), "ubuntu-series" :> "oneiric",
     "instance-type" :> "m1.tiny", "orchestra-classes" :> "x"}

Symmetry == Permutations(Client) \cup Permutations(Content)
=============================================================================
