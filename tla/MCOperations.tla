---------------------------- MODULE MCOperations ----------------------------
(***************************************************************************)
(* Operations of a running cluster that share no state with each other:    *)
(* NFS clusters, client configuration, maintenance mode, and the selection *)
(* of disks. One instance of each is explored; "which" says whose, and the *)
(* other components keep their initial state.                              *)
(***************************************************************************)
EXTENDS NfsGroups, ClientConf, Maintenance, DiskSelect

VARIABLE which

opsVars == <<which, nfsVars, ccVars, mtVars, input>>

MCSymmetry == Permutations(CcHosts) \cup Permutations(CcValues)

OpsInit ==
    /\ which \in {"nfs", "client", "maintenance", "select"}
    /\ NfsInit /\ CcInit /\ MtInit /\ Init
    /\ which # "select" => input = [text |-> <<>>]

OpsNext ==
    /\ UNCHANGED which
    /\ \/ which = "nfs" /\ NfsNext /\ UNCHANGED <<ccVars, mtVars, input>>
       \/ which = "client" /\ CcNext /\ UNCHANGED <<nfsVars, mtVars, input>>
       \/ which = "maintenance" /\ MtNext /\ UNCHANGED <<nfsVars, ccVars, input>>
       \/ which = "select" /\ Next /\ UNCHANGED <<nfsVars, ccVars, mtVars>>

OpsSpec == OpsInit /\ [][OpsNext]_opsVars
-----------------------------------------------------------------------------
\* Disks the language tells apart.
MCDisks == [type : {"ssd", "hdd", ""}, size : 0..2, busy : BOOLEAN]
MCTokens == {Sign("("), Sign(")"), Sign(","), Sign("@"), Bytes(1), [type |-> "number", value |-> [n |-> 3, unit |-> "KIB"]],
             [type |-> "number", value |-> [n |-> 3, unit |-> "SEC"]], [type |-> "ident", value |-> "not"]}
MCCalls(names, es) ==
    {[call |-> f, args |-> as] : f \in names, as \in {<<>>} \cup {<<x>> : x \in es}
                                                       \cup {<<x, y>> : x \in es, y \in es}}
MCOperands ==
    {[var |-> "type"], [var |-> "size"], [var |-> "speed"], [str |-> "SSD"], [num |-> 1], [bool |-> TRUE]}
        \cup MCCalls({"eq", "lt"}, {[var |-> "type"], [str |-> "SSD"], [num |-> 1]})
        \cup MCCalls({"not", "disk"}, {[var |-> "size"]})
=============================================================================
