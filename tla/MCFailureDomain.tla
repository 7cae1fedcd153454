--------------------------- MODULE MCFailureDomain ---------------------------
(* Small instances of FailureDomain. *)
EXTENDS FailureDomain, TLC

CONSTANTS a, b, c, z1, z2, z3

MCMembers == {a, b, c}
MCZones == {z1, z2, z3}

\* A cluster without zones, and one whose members are in different zones.
MCZonings == {[m \in MCMembers |-> "none"], (a :> z1) @@ (b :> z2) @@ (c :> z3)}

\* Two disks on one member, whose storage role may be withdrawn.
MCCapacity == [m \in MCMembers |-> IF m = a THEN 2 ELSE 1]
MCDeniable == {a}
\* A role is withdrawn only in the cluster without zones, which keeps the two
\* independent concerns from multiplying.
MCBound == denied = {} \/ uniqueAZs = {}
MCBatches == {[n |-> 1, loop |-> FALSE], [n |-> 2, loop |-> FALSE], [n |-> 2, loop |-> TRUE]}
\* The two members with one disk are alike, with their zones.
MCSymmetry ==
    {x @@ y @@ (a :> a) @@ (z1 :> z1) :
        <<x, y>> \in {<<(b :> b) @@ (c :> c), (z2 :> z2) @@ (z3 :> z3)>>,
                      <<(b :> c) @@ (c :> b), (z2 :> z3) @@ (z3 :> z2)>>}}
MCFlags == {{}, {"confirm", "bypass"}}
==============================================================================
