--------------------------- MODULE MCPlacementApply ---------------------------
(* Small instances of the placement engine. *)
EXTENDS PlacementApply, TLC

CONSTANTS r1, r2, a, b, ghost

MCBefore(s, t) == s = "mon" /\ t = "mgr"

\* A policy over the members in S with the given intents.
Want(S, control, gateways) ==
    [control |-> [m \in S |-> control[m]], rgw |-> [m \in S |-> gateways[m]]]

OnlyA == Want({a, b}, a :> "true" @@ b :> "false", a :> "tls" @@ b :> "off")
OnlyB == Want({a, b}, a :> "false" @@ b :> "true", a :> "off" @@ b :> "on")
GatewayB == Want({a, b}, a :> "nil" @@ b :> "nil", a :> "off" @@ b :> "on")
DrainAll == Want({a, b}, a :> "false" @@ b :> "false", a :> "nil" @@ b :> "nil")
Unknown == Want({ghost}, ghost :> "true", ghost :> "nil")
BadGateway == Want({a}, a :> "nil", a :> "bad")

MCPolicies == {OnlyA, DrainAll, GatewayB, Unknown, BadGateway}
MovePolicies == {OnlyA, OnlyB}

RequestSymmetry == Permutations(Requests)
===============================================================================
