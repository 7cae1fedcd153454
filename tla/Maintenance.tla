----------------------------- MODULE Maintenance -----------------------------
(***************************************************************************)
(* Maintenance mode (ceph/maintenance.go, ceph/operations.go and           *)
(* api/ops_maintenance.go): a request for a node is a list of operations,  *)
(* checks first, that run one after the other until one fails. Requests    *)
(* for different nodes run next to each other; `noout` is one flag of the  *)
(* whole cluster, and a node is switched off some time after it entered    *)
(* maintenance. External: the node itself, and what Ceph answers.          *)
(***************************************************************************)
EXTENDS Naturals, FiniteSets, Sequences, SequencesExt

CONSTANTS
    Nodes,           \* each has OSDs, a monitor and a manager
    Tolerated,       \* nodes whose OSDs may be down while all data stays available
    MaxMtRuns,       \* requests altogether
    MaxMtTroubles    \* operations that fail and daemons that die

VARIABLES
    noout,
    osds,       \* nodes whose OSDs run
    enabled,    \* nodes whose OSD service starts with the node
    mons, mgrs, \* nodes whose monitor (manager) is up
    plan,       \* operations a request has still to run
    request,    \* its options, and whether an operation failed
    maint,      \* nodes in maintenance: the last request to enter had no error
    off,        \* nodes that are switched off
    mtRuns, mtTroubles,
    \* What happened, for the properties only.
    passed,     \* nodes that passed their checks, with nothing down since then
    covered     \* nodes that saw noout set, with no other node clearing it since then

cephState == <<noout, osds, enabled, mons, mgrs>>
mtSeen == <<passed, covered>>
mtVars == <<cephState, plan, request, maint, off, mtRuns, mtTroubles, mtSeen>>

Idle == [kind |-> "none", force |-> FALSE, failed |-> FALSE]

MtInit ==
    /\ noout = FALSE /\ osds = Nodes /\ enabled = Nodes /\ mons = Nodes /\ mgrs = Nodes
    /\ plan = [n \in Nodes |-> <<>>] /\ request = [n \in Nodes |-> Idle]
    /\ maint = {} /\ off = {} /\ mtRuns = 0 /\ mtTroubles = 0 /\ passed = {} /\ covered = {}

MtTrouble == mtTroubles < MaxMtTroubles /\ mtTroubles' = mtTroubles + 1
Available(up) == Cardinality(Nodes \ up) <= Tolerated
HasMajority(up) == 2 * Cardinality(up) > Cardinality(Nodes)
-----------------------------------------------------------------------------
(* The operations (ceph/operations.go). *)

\* `ceph osd ok-to-stop` for the OSDs of the node.
testSafeStop(n) == Available(osds \ {n})
\* Mutant: half of the monitors are enough.
EnoughHalf(n) ==
    /\ Cardinality(mons \ {n}) >= Cardinality(Nodes) \div 2
    /\ Cardinality(mgrs \ {n}) + (IF mgrs = {} THEN 1 ELSE 0) >= 1
\* A majority of the monitors in the database and one manager, besides the
\* node's own; getActiveMgrs adds the name of the active manager even when it
\* is empty. The command that is asked needs a quorum.
CheckNonOsdSvcEnough(n) ==
    /\ HasMajority(mons)
    /\ Cardinality(mons \ {n}) >= Cardinality(Nodes) \div 2 + 1
    /\ Cardinality(mgrs \ {n}) + (IF mgrs = {} THEN 1 ELSE 0) >= 1

Checks == <<"ok-to-stop", "enough">>
\* Mutant: the OSDs are stopped first.
EnterOpsStopFirst(set, stop) ==
    (IF stop THEN <<"stop">> ELSE <<>>) \o (IF set THEN <<"set", "assert set">> ELSE <<>>)
EnterOps(set, stop) ==
    (IF set THEN <<"set", "assert set">> ELSE <<>>) \o (IF stop THEN <<"stop">> ELSE <<>>)
ExitOps == <<"unset", "assert unset", "start">>

\* cmdPutMaintenance, Enter and Exit; a dry run, and a request with both
\* check-only and ignore-check, run nothing.
MtBegin(n, kind, force, ops) ==
    /\ n \notin off /\ request[n] = Idle /\ mtRuns < MaxMtRuns /\ mtRuns' = mtRuns + 1
    /\ plan' = [plan EXCEPT ![n] = ops]
    /\ request' = [request EXCEPT ![n] = [kind |-> kind, force |-> force, failed |-> FALSE]]
    /\ passed' = passed \ {n} /\ covered' = covered \ {n}
    /\ UNCHANGED <<cephState, maint, off, mtTroubles>>
CheckOnly(n) == MtBegin(n, "check", FALSE, Checks)
Enter(n, ignore, set, stop, force) ==
    MtBegin(n, "enter", force, (IF ignore THEN <<>> ELSE Checks) \o EnterOps(set, stop))
Exit(n) == MtBegin(n, "exit", FALSE, ExitOps)

\* Errors of checks are passed over with --force: the checks that are left do
\* not run, the main operations do.
Skip(ops) == SelectSeq(ops, LAMBDA o : o \notin Range(Checks))
Failed(n) ==
    LET o == Head(plan[n])
        rest == IF request[n].force /\ o \in Range(Checks) THEN Skip(Tail(plan[n])) ELSE <<>>
    IN  /\ plan' = [plan EXCEPT ![n] = rest]
        /\ request' = [request EXCEPT ![n].failed = @ \/ o \notin Range(Checks) \/ ~request[n].force]
        /\ passed' = passed \ {n}

\* The service is stopped and disabled, started and enabled.
SetOsdState(n, o) ==
    LET Switch(s) == IF o = "start" THEN s \cup {n} ELSE IF o = "stop" THEN s \ {n} ELSE s
    IN  osds' = Switch(osds) /\ enabled' = Switch(enabled)

\* RunOperations: one operation of a request.
Works(n, o) ==
    CASE o = "ok-to-stop" -> testSafeStop(n) [] o = "enough" -> CheckNonOsdSvcEnough(n)
      [] o \in {"set", "unset"} -> HasMajority(mons)
      [] o = "assert set" -> noout /\ HasMajority(mons)
      [] o = "assert unset" -> ~noout /\ HasMajority(mons)
      [] OTHER -> TRUE
RunOperation(n) ==
    /\ plan[n] # <<>>
    /\ LET o == Head(plan[n]) IN
       \/ /\ Works(n, o)
          /\ plan' = [plan EXCEPT ![n] = Tail(@)]
          /\ noout' = (o = "set" \/ (noout /\ o # "unset"))
          /\ SetOsdState(n, o)
          /\ passed' = (IF o = "ok-to-stop" THEN passed \cup {n} ELSE passed) \ (IF o = "stop" /\ n \in osds THEN Nodes \ {n} ELSE {})
          /\ covered' = IF o = "unset" THEN {} ELSE IF o = "assert set" THEN covered \cup {n} ELSE covered
          /\ UNCHANGED <<mons, mgrs, request, mtTroubles>>
       \/ /\ ~Works(n, o) /\ Failed(n) /\ UNCHANGED <<cephState, covered, mtTroubles>>
       \/ MtTrouble /\ Failed(n) /\ UNCHANGED <<cephState, covered>>
    /\ UNCHANGED <<maint, off, mtRuns>>

\* The answer: with --force it is a success whatever failed.
Answer(n) ==
    /\ plan[n] = <<>> /\ request[n] # Idle /\ request' = [request EXCEPT ![n] = Idle]
    /\ maint' = CASE request[n].kind = "enter" /\ (~request[n].failed \/ request[n].force) -> maint \cup {n}
                  [] request[n].kind = "exit" /\ ~request[n].failed -> maint \ {n}
                  [] OTHER -> maint
    /\ UNCHANGED <<cephState, plan, off, mtRuns, mtTroubles, mtSeen>>
-----------------------------------------------------------------------------
(* Outside the program. *)

PowerOff(n) ==
    /\ n \in maint \ off /\ request[n] = Idle /\ off' = off \cup {n}
    /\ osds' = osds \ {n} /\ mons' = mons \ {n} /\ mgrs' = mgrs \ {n}
    /\ passed' = {}
    /\ UNCHANGED <<noout, enabled, plan, request, maint, mtRuns, mtTroubles, covered>>
PowerOn(n) ==
    /\ n \in off /\ off' = off \ {n}
    /\ osds' = IF n \in enabled THEN osds \cup {n} ELSE osds
    /\ mons' = mons \cup {n} /\ mgrs' = mgrs \cup {n}
    /\ UNCHANGED <<noout, enabled, plan, request, maint, mtRuns, mtTroubles, mtSeen>>
DaemonDies(n) ==
    /\ MtTrouble /\ passed' = {}
    /\ \/ n \in mons /\ mons' = mons \ {n} /\ UNCHANGED mgrs
       \/ n \in mgrs /\ mgrs' = mgrs \ {n} /\ UNCHANGED mons
    /\ UNCHANGED <<noout, osds, enabled, plan, request, maint, off, mtRuns, covered>>

MtNext ==
    \E n \in Nodes :
        \/ \E ignore, set, stop, force \in BOOLEAN : Enter(n, ignore, set, stop, force)
        \/ CheckOnly(n) \/ Exit(n) \/ RunOperation(n) \/ Answer(n)
        \/ PowerOff(n) \/ PowerOn(n) \/ DaemonDies(n)

MtSpec == MtInit /\ [][MtNext]_mtVars
-----------------------------------------------------------------------------
\* Types; an OSD service that runs also starts with its node.
MtTypeOK ==
    /\ noout \in BOOLEAN /\ osds \subseteq enabled \ off /\ enabled \subseteq Nodes
    /\ mons \subseteq Nodes \ off /\ mgrs \subseteq Nodes \ off /\ off \subseteq Nodes
    /\ \A n \in Nodes : Range(plan[n]) \subseteq Range(Checks \o EnterOps(TRUE, TRUE) \o ExitOps)
    /\ \A n \in Nodes : request[n] = Idle => plan[n] = <<>>

\* Checked maintenance loses no data path and no quorum: when the OSDs of a
\* node are stopped, or the node is switched off, all data stays available and
\* the other monitors keep a majority with a manager next to them, if nothing
\* went down between the checks of the node and this step.
CheckedStopIsSafe ==
    [][ \A n \in Nodes :
          n \in passed /\ ((n \in osds /\ n \notin osds') \/ n \in off' \ off) =>
              /\ Available(osds')
              /\ HasMajority(mons') /\ (mgrs # {} => mgrs' \ {n} # {}) ]_mtVars

\* The OSDs of a node that entered with --set-noout only go down while noout is
\* set, unless another node left maintenance after the flag was asserted.
NooutCovers ==
    [][ \A n \in Nodes :
          /\ request[n].kind = "enter" /\ n \in osds /\ n \notin osds'
          /\ "assert set" \in Range(plan[n]) \/ n \in covered
          => noout ]_mtVars
=============================================================================
