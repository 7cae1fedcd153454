-------------------------- MODULE MCClusterMembers --------------------------
EXTENDS ClusterMembers, TLC

\* Three members without zones, one member in a zone, and two members of an
\* older cluster which has not recorded the addresses of its monitors.
NoZones == [m \in Members |-> "none"]
MCStarts ==
    {[member |-> Members, addr |-> Members, zone |-> NoZones]}
    \cup {[member |-> {m}, addr |-> {m}, zone |-> [NoZones EXCEPT ![m] = "z"]] : m \in Members}
    \cup {[member |-> Members \ {m}, addr |-> {}, zone |-> NoZones] : m \in Members}
MCAuto == <<"mgr", "mon">>
MCSymmetry == Permutations(Members)
=============================================================================
