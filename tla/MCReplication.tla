---------------------------- MODULE MCReplication ----------------------------
(***************************************************************************)
(* RBD replication, CephFS replication, and remotes. They share no state   *)
(* that their modules do not model by themselves; "which" says whose       *)
(* instance is explored, and the others keep their initial state.          *)
(***************************************************************************)
EXTENDS RbdReplication, CephfsReplication, Remotes, TLC

VARIABLE which

repVars == <<which, rbVars, cfVars, rmVars>>

MCRemotes == {{Third}, {Away, Third}}
MCSymmetry == Permutations(RbSlots) \cup Permutations(CfPaths)

RepInit ==
    /\ which \in {"rbd", "cephfs", "remotes"} /\ RbInit /\ CfInit /\ RmInit
    /\ which # "rbd" => rbMode[Home] = "pool" /\ Away \in rbRemotes
    /\ which # "cephfs" => cfDaemon

RepNext ==
    /\ UNCHANGED which
    /\ \/ which = "rbd" /\ RbNext /\ UNCHANGED <<cfVars, rmVars>>
       \/ which = "cephfs" /\ CfNext /\ UNCHANGED <<rbVars, rmVars>>
       \/ which = "remotes" /\ RmNext /\ UNCHANGED <<rbVars, cfVars>>

RepSpec == RepInit /\ [][RepNext]_repVars
=============================================================================
