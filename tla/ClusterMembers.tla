--------------------------- MODULE ClusterMembers ---------------------------
(***************************************************************************)
(* Members that join the cluster, enable and delete their control services *)
(* and leave it again: ceph/join.go, ceph/remove.go, the service handlers  *)
(* of ceph/services.go and ceph/services_placement*.go, and the rendering  *)
(* of ceph.conf (ceph/config.go) that each of them begins with. The mutex  *)
(* serviceStartMu lets one of them at a time run on a member; different    *)
(* members meet in the database, in the Ceph maps and in the counts that   *)
(* they have read.                                                         *)
(***************************************************************************)
EXTENDS Naturals, FiniteSets, Sequences, SequencesExt

CONSTANTS
    Members, Zones,
    Auto,         \* services a join places, in the order of their names
    Wanted,       \* rows of a service up to which a join adds one (3 in the code)
    MinMon,       \* monitors a removal leaves (3 in the code)
    Starts,       \* clusters to start from: members, zones, recorded addresses
    MaxCalls,     \* calls in progress at a time
    MaxRuns,      \* calls altogether
    MaxTroubles   \* failing steps and daemons that die

VARIABLES
    member,    \* rows of core_cluster_members
    row,       \* rows of services
    addr,      \* rows mon.host.<member> of config
    zone,      \* rows of host_tags; "none": no row
    active,    \* daemons that run, per member and service
    ceph,      \* daemons in the maps of Ceph
    conf,      \* monitors in a member's ceph.conf
    at, call, svc, seen,  \* a member's call: step, kind, service, addresses it has read
    todo,      \* services that a join has still to start
    loop,      \* addresses the refresh loop has read and not yet rendered
    rm,        \* removal of a member: none, check, delete, wait, leave
    list, force, failed,  \* services it has still to delete, --force, an error so far
    runs, troubles,
    \* What happened, for the properties only.
    outrun,    \* removals whose count of services has changed
    stale,     \* calls whose ceph.conf is older than a monitor's removal or the loop's
    odd        \* members removed by force, or with an enable that failed or ran late

dbVars == <<member, row, addr, zone>>
cephVars == <<active, ceph, conf>>
callVars == <<at, call, svc, seen, todo>>
rmVars == <<rm, list, force, failed>>
seenVars == <<outrun, stale, odd>>
vars == <<dbVars, cephVars, callVars, loop, rmVars, runs, troubles, seenVars>>

Services == Range(Auto)
NotRead == Members \cup {"unread"}

Init ==
    /\ \E s \in Starts :
          /\ member = s.member /\ row = s.member \X Services /\ addr = s.addr
          /\ zone = s.zone /\ active = s.member \X Services /\ ceph = s.member \X Services
          /\ conf = [m \in Members |-> IF m \in s.member THEN s.member ELSE {}]
          /\ at = [m \in Members |-> IF m \in s.member THEN "idle" ELSE "out"]
    /\ call = [m \in Members |-> "none"] /\ svc = [m \in Members |-> "none"]
    /\ seen = [m \in Members |-> {}] /\ todo = [m \in Members |-> <<>>]
    /\ loop = [m \in Members |-> NotRead]
    /\ rm = [m \in Members |-> "none"] /\ list = [m \in Members |-> <<>>]
    /\ force = {} /\ failed = {} /\ runs = 0 /\ troubles = 0
    /\ outrun = {} /\ stale = {} /\ odd = {}

Trouble == troubles < MaxTroubles /\ troubles' = troubles + 1
Go(m, s) == at' = [at EXCEPT ![m] = s] /\ UNCHANGED <<call, svc, seen, todo>>
Free ==
    /\ runs < MaxRuns /\ runs' = runs + 1
    /\ Cardinality({m \in Members : at[m] \notin {"out", "failed", "idle"} \/ rm[m] # "none"}) < MaxCalls
Mons(s) == {m \in Members : <<m, "mon">> \in s}
HasQuorum(maps, up) ==
    2 * Cardinality(Mons(maps) \cap Mons(up)) > Cardinality(Mons(maps))

\* What other members' calls and removals have counted or rendered has changed.
Overtake(m) ==
    /\ outrun' = outrun \cup {k \in Members \ {m} : rm[k] \in {"list", "delete", "wait"}}
    /\ stale' = stale \cup {k \in Members \ {m} : call[k] = "delete"}

\* The end of a call; a removal that waits for it goes on.
End(m, ok) ==
    /\ at' = [at EXCEPT ![m] = IF call[m] \in {"join", "defer"} /\ ~ok THEN "failed" ELSE "idle"]
    /\ call' = [call EXCEPT ![m] = "none"] /\ svc' = [svc EXCEPT ![m] = "none"]
    /\ seen' = [seen EXCEPT ![m] = {}] /\ todo' = [todo EXCEPT ![m] = <<>>]
    /\ rm' = [rm EXCEPT ![m] = IF @ = "wait" /\ call[m] = "delete" THEN "delete" ELSE @]
    /\ failed' = IF rm[m] = "wait" /\ call[m] = "delete" /\ ~ok THEN failed \cup {m} ELSE failed
    /\ UNCHANGED <<list, force>>
Fails(m) == Trouble /\ End(m, FALSE)
-----------------------------------------------------------------------------
(* The database (database/*.mapper.go). *)

GetServices(s) == {m \in Members : <<m, s>> \in row}
ServiceExists(m, s) == <<m, s>> \in row
CreateService(rows, m, s) == rows \cup {<<m, s>>}
UpsertConfigItem(m) == addr \cup {m}
GetHostTags == {m \in Members : zone[m] # "none"}
HostTagExists(m) == zone[m] # "none"
CreateHostTag(m, z) == [zone EXCEPT ![m] = z]
-----------------------------------------------------------------------------
(* UpdateConfig: the addresses are read in one transaction, the monitors in *)
(* another one; the refresh loop of Start does the same next to the calls.  *)

\* Addresses of members with a monitor; older clusters have recorded none.
getMonitorsFromConfig(read) == read \cap GetServices("mon")
backwardCompatMonitors == GetServices("mon")
Monitors(read) ==
    IF getMonitorsFromConfig(read) # {} THEN getMonitorsFromConfig(read)
    ELSE backwardCompatMonitors

\* A teardown can only count on monitors that are recorded when it begins.
GetConfigDb(m) ==
    /\ at[m] = "fetch"
    /\ \/ /\ at' = [at EXCEPT ![m] = "render"] /\ seen' = [seen EXCEPT ![m] = addr]
          /\ stale' = IF call[m] = "delete" /\ Monitors(addr) \cap (Mons(ceph) \ {m}) = {}
                      THEN stale \cup {m} ELSE stale \ {m}
          /\ UNCHANGED <<call, svc, todo, rmVars, troubles>>
       \/ Fails(m) /\ UNCHANGED stale
    /\ UNCHANGED <<dbVars, cephVars, loop, runs, outrun, odd>>

NextStep(m) ==
    CASE call[m] = "join" -> "zone" [] call[m] = "enable" -> "check"
      [] svc[m] = "mon" -> "absent" [] OTHER -> "stop"
\* Mutant: a deletion works with the ceph.conf that is there.
UpdateConfigOld(m) ==
    /\ at[m] = "render"
    /\ at' = [at EXCEPT ![m] = NextStep(m)] /\ seen' = [seen EXCEPT ![m] = {}]
    /\ conf' = IF call[m] = "delete" THEN conf ELSE [conf EXCEPT ![m] = Monitors(seen[m])]
    /\ UNCHANGED <<call, svc, todo, rmVars, troubles>>
    /\ UNCHANGED <<dbVars, active, ceph, loop, runs, seenVars>>
UpdateConfig(m) ==
    /\ at[m] = "render"
    /\ \/ /\ conf' = [conf EXCEPT ![m] = Monitors(seen[m])]
          /\ at' = [at EXCEPT ![m] = NextStep(m)] /\ seen' = [seen EXCEPT ![m] = {}]
          /\ UNCHANGED <<call, svc, todo, rmVars, troubles>>
       \/ Fails(m) /\ UNCHANGED conf
    /\ UNCHANGED <<dbVars, active, ceph, loop, runs, seenVars>>

\* One round of the loop: it starts when the list of monitors has changed.
LoopRead(m) ==
    /\ at[m] \notin {"out", "failed"} /\ m \in member
    /\ \A k \in Members : loop[k] = NotRead   \* bound: one round at a time
    /\ conf[m] # GetServices("mon") /\ GetServices("mon") # {}
    /\ loop' = [loop EXCEPT ![m] = addr]
    /\ UNCHANGED <<dbVars, cephVars, callVars, rmVars, runs, troubles, seenVars>>
LoopRender(m) ==
    /\ loop[m] # NotRead /\ loop' = [loop EXCEPT ![m] = NotRead]
    /\ conf' = [conf EXCEPT ![m] = Monitors(loop[m])]
    /\ stale' = IF loop[m] = addr \/ call[m] # "delete" THEN stale ELSE stale \cup {m}
    /\ UNCHANGED <<dbVars, active, ceph, callVars, rmVars, runs, troubles, outrun, odd>>
-----------------------------------------------------------------------------
(* Join. *)

\* A deferred join records the zone only; any other renders ceph.conf first.
\* A join that failed can be repeated.
JoinBegin(m, z, defer) ==
    /\ at[m] \in {"out", "failed"} /\ Free
    /\ member' = member \cup {m}
    /\ at' = [at EXCEPT ![m] = IF defer THEN "zone" ELSE "fetch"]
    /\ call' = [call EXCEPT ![m] = IF defer THEN "defer" ELSE "join"]
    /\ svc' = [svc EXCEPT ![m] = z]
    /\ odd' = IF at[m] = "out" THEN odd \ {m} ELSE odd
    /\ UNCHANGED <<row, addr, zone, cephVars, seen, todo, loop, rmVars, troubles, outrun, stale>>

\* Mutant: only a join without a zone is looked at.
validateEmpty(z) == z = "none" => GetHostTags = {}
\* "mixed empty availability zones and set availability zones are not supported"
validateJoinAZ(z) == (z = "none") = (GetHostTags = {})
setJoinAZ(m, z) == IF z = "none" \/ HostTagExists(m) THEN zone ELSE CreateHostTag(m, z)

validateAndRecordAZ(m) ==
    /\ at[m] = "zone"
    /\ \/ /\ validateJoinAZ(svc[m]) /\ zone' = setJoinAZ(m, svc[m])
          /\ IF call[m] = "join" THEN Go(m, "record") /\ UNCHANGED rmVars ELSE End(m, TRUE)
          /\ UNCHANGED troubles
       \/ ~validateJoinAZ(svc[m]) /\ End(m, FALSE) /\ UNCHANGED <<zone, troubles>>
       \/ Fails(m) /\ UNCHANGED zone
    /\ UNCHANGED <<member, row, addr, cephVars, loop, runs, seenVars>>

\* checkAndCreateServiceRecord for every service, in one transaction: a
\* service that is still wanted must not have a row of this member.
Needed == {s \in Services : Cardinality(GetServices(s)) < Wanted}
checkAndCreateServiceRecord(m) ==
    /\ at[m] = "record"
    /\ \/ /\ \A s \in Needed : ~ServiceExists(m, s)
          /\ row' = row \cup ({m} \X Needed)
          /\ addr' = IF "mon" \in Needed THEN UpsertConfigItem(m) ELSE addr
          /\ at' = [at EXCEPT ![m] = "start"]
          /\ todo' = [todo EXCEPT ![m] = SelectSeq(Auto, LAMBDA s : <<m, s>> \in row')]
          /\ UNCHANGED <<call, svc, seen, rmVars, troubles>>
       \/ /\ \E s \in Needed : ServiceExists(m, s)
          /\ End(m, FALSE) /\ UNCHANGED <<row, addr, troubles>>
       \/ Fails(m) /\ UNCHANGED <<row, addr>>
    /\ UNCHANGED <<member, zone, cephVars, loop, runs, seenVars>>

\* genericServiceInit: keys, and for a monitor the map, are fetched from Ceph.
genericServiceInit(m, s) ==
    /\ HasQuorum(ceph, active) /\ conf[m] \cap Mons(ceph) # {}
    /\ active' = active \cup {<<m, s>>} /\ ceph' = ceph \cup {<<m, s>>}
StartPlanned(m) ==
    /\ at[m] = "start"
    /\ \/ /\ todo[m] # <<>> /\ genericServiceInit(m, Head(todo[m]))
          /\ todo' = [todo EXCEPT ![m] = Tail(@)]
          /\ UNCHANGED <<at, call, svc, seen, rmVars, troubles>>
       \/ todo[m] = <<>> /\ End(m, TRUE) /\ UNCHANGED <<active, ceph, troubles>>
       \/ Fails(m) /\ UNCHANGED <<active, ceph>>
    /\ UNCHANGED <<dbVars, conf, loop, runs, seenVars>>
-----------------------------------------------------------------------------
(* EnableService. *)

EnableBegin(m, s) ==
    /\ at[m] = "idle" /\ Free
    /\ at' = [at EXCEPT ![m] = "fetch"] /\ call' = [call EXCEPT ![m] = "enable"]
    /\ svc' = [svc EXCEPT ![m] = s]
    /\ odd' = IF rm[m] = "none" THEN odd ELSE odd \cup {m}
    /\ UNCHANGED <<dbVars, cephVars, seen, todo, loop, rmVars, troubles, outrun, stale>>

genericHospitalityCheck(m) ==
    /\ at[m] = "check"
    /\ IF <<m, svc[m]>> \in active THEN End(m, FALSE) ELSE Go(m, "init") /\ UNCHANGED rmVars
    /\ UNCHANGED <<dbVars, cephVars, loop, runs, troubles, seenVars>>

ServiceInit(m) ==
    /\ at[m] = "init"
    /\ \/ genericServiceInit(m, svc[m]) /\ Go(m, "post") /\ UNCHANGED <<rmVars, troubles>>
       \/ Fails(m) /\ UNCHANGED <<active, ceph>>
    /\ UNCHANGED <<dbVars, conf, loop, runs, seenVars>>

\* The daemon has to stay up for a while; one that does not may come back.
genericPostPlacementCheck(m) ==
    /\ at[m] = "post"
    /\ \/ <<m, svc[m]>> \in active /\ Go(m, "update") /\ UNCHANGED <<rmVars, troubles, odd>>
       \/ /\ <<m, svc[m]>> \notin active /\ End(m, FALSE)
          /\ odd' = odd \cup {m} /\ UNCHANGED troubles
    /\ UNCHANGED <<dbVars, cephVars, loop, runs, outrun, stale>>

genericDbUpdate(m) ==
    /\ at[m] = "update"
    /\ \/ /\ ~ServiceExists(m, svc[m]) /\ m \in member
          /\ row' = CreateService(row, m, svc[m])
          /\ addr' = IF svc[m] = "mon" THEN UpsertConfigItem(m) ELSE addr
          /\ End(m, TRUE) /\ UNCHANGED <<troubles, odd>>
       \/ /\ ServiceExists(m, svc[m]) \/ m \notin member
          /\ End(m, FALSE) /\ UNCHANGED <<row, addr, troubles, odd>>
       \/ Fails(m) /\ odd' = odd \cup {m} /\ UNCHANGED <<row, addr>>
    /\ UNCHANGED <<member, zone, cephVars, loop, runs, outrun, stale>>
-----------------------------------------------------------------------------
(* DeleteService. *)

DeleteStep(m, s) ==
    /\ at' = [at EXCEPT ![m] = "fetch"] /\ call' = [call EXCEPT ![m] = "delete"]
    /\ svc' = [svc EXCEPT ![m] = s] /\ UNCHANGED <<seen, todo>>
DeleteBegin(m, s) ==
    /\ at[m] = "idle" /\ ServiceExists(m, s) /\ Free /\ DeleteStep(m, s)
    /\ UNCHANGED <<dbVars, cephVars, loop, rmVars, troubles, seenVars>>

\* ensureMonAbsent: the monitor map and the quorum are read, and the monitors
\* that remain must keep a quorum of their own.
Majority(m) ==
    LET rest == Mons(ceph) \ {m}
    IN  Cardinality(rest \cap Mons(active)) >= Cardinality(rest) \div 2 + 1
ensureMonAbsent(m) ==
    /\ at[m] = "absent"
    /\ \/ /\ HasQuorum(ceph, active)
          /\ CASE <<m, "mon">> \notin ceph -> Go(m, "stop") /\ UNCHANGED rmVars
               [] <<m, "mon">> \in ceph /\ Majority(m) -> Go(m, "mon rm") /\ UNCHANGED rmVars
               [] OTHER -> End(m, FALSE)
          /\ UNCHANGED troubles
       \/ ~HasQuorum(ceph, active) /\ End(m, FALSE) /\ UNCHANGED troubles
       \/ Fails(m)
    /\ UNCHANGED <<dbVars, cephVars, loop, runs, seenVars>>

\* `ceph mon rm`, verified when its answer was lost.
removeMon(m) ==
    /\ at[m] = "mon rm"
    /\ \/ /\ HasQuorum(ceph, active)
          /\ ceph' = ceph \ {<<m, "mon">>} /\ Overtake(m)
          /\ \/ Go(m, "stop") /\ UNCHANGED <<rmVars, troubles>>
             \/ Fails(m)
       \/ /\ Fails(m) \/ (~HasQuorum(ceph, active) /\ End(m, FALSE) /\ UNCHANGED troubles)
          /\ UNCHANGED <<ceph, outrun, stale>>
    /\ UNCHANGED <<dbVars, active, conf, loop, runs, odd>>

snapStop(m) ==
    /\ at[m] = "stop"
    /\ \/ /\ active' = active \ {<<m, svc[m]>>} /\ Overtake(m)
          /\ Go(m, IF svc[m] = "mon" THEN "forget" ELSE "evict") /\ UNCHANGED <<rmVars, troubles>>
       \/ Fails(m) /\ UNCHANGED <<active, outrun, stale>>
    /\ UNCHANGED <<dbVars, ceph, conf, loop, runs, odd>>

\* Mutant: a manager that cannot be failed out of the map is forgotten all the same.
ensureMgrMaybe(m) ==
    /\ at[m] = "evict"
    /\ \/ /\ HasQuorum(ceph, active) /\ conf[m] \cap Mons(ceph) # {}
          /\ ceph' = ceph \ {<<m, svc[m]>>}
       \/ UNCHANGED ceph
    /\ Go(m, "forget") /\ UNCHANGED <<rmVars, troubles>>
    /\ UNCHANGED <<dbVars, active, conf, loop, runs, seenVars>>
\* ensureMgrAbsent and ensureMdsAbsent: failed out of the map, or aged out.
ensureMgrAbsent(m) ==
    /\ at[m] = "evict"
    /\ \/ /\ HasQuorum(ceph, active) /\ conf[m] \cap Mons(ceph) # {}
          /\ ceph' = ceph \ {<<m, svc[m]>>} /\ Go(m, "forget") /\ UNCHANGED <<rmVars, troubles>>
       \/ /\ Fails(m) \/ (UNCHANGED troubles /\ End(m, FALSE)
                           /\ ~(HasQuorum(ceph, active) /\ conf[m] \cap Mons(ceph) # {}))
          /\ UNCHANGED ceph
    /\ UNCHANGED <<dbVars, active, conf, loop, runs, seenVars>>

\* cleanService and removeServiceDatabase, one transaction which fails when the
\* row or the address of a monitor is not there.
removeServiceDatabase(m) ==
    /\ at[m] = "forget"
    /\ \/ /\ ServiceExists(m, svc[m]) /\ (svc[m] = "mon" => m \in addr)
          /\ row' = row \ {<<m, svc[m]>>}
          /\ addr' = IF svc[m] = "mon" THEN addr \ {m} ELSE addr
          /\ End(m, TRUE) /\ Overtake(m) /\ UNCHANGED troubles
       \/ /\ ~ServiceExists(m, svc[m]) \/ (svc[m] = "mon" /\ m \notin addr)
          /\ End(m, FALSE)
          /\ UNCHANGED <<row, addr, outrun, stale, troubles>>
       \/ Fails(m) /\ UNCHANGED <<row, addr, outrun, stale>>
    /\ UNCHANGED <<member, zone, cephVars, loop, runs, odd>>
-----------------------------------------------------------------------------
(* PreRemove. *)

RemoveBegin(m, f) ==
    /\ m \in member /\ rm[m] = "none" /\ Free /\ Cardinality(member) > 1
    /\ at[m] \in {"idle", "failed"} /\ (at[m] = "failed" => f)
    /\ rm' = [rm EXCEPT ![m] = IF f THEN "list" ELSE "check"]
    /\ force' = IF f THEN force \cup {m} ELSE force
    /\ UNCHANGED <<dbVars, cephVars, callVars, loop, list, failed, troubles, seenVars>>

Abandon(m) ==
    /\ rm' = [rm EXCEPT ![m] = "none"] /\ force' = force \ {m}
    /\ failed' = failed \ {m} /\ list' = [list EXCEPT ![m] = <<>>]

\* Mutant: the member's own services count.
EnoughWithOwn(m) ==
    \A s \in Services : Cardinality(GetServices(s)) >= (IF s = "mon" THEN MinMon ELSE 1)
\* checkPrerequisites; a member with disks is refused before.
EnsureNonOsdSvcEnough(m) ==
    \A s \in Services :
        Cardinality(GetServices(s) \ {m}) >= (IF s = "mon" THEN MinMon ELSE 1)
checkPrerequisites(m) ==
    /\ rm[m] = "check"
    /\ IF EnsureNonOsdSvcEnough(m)
       THEN rm' = [rm EXCEPT ![m] = "list"] /\ UNCHANGED <<list, force, failed>>
       ELSE Abandon(m)
    /\ outrun' = outrun \ {m}
    /\ UNCHANGED <<dbVars, cephVars, callVars, loop, runs, troubles, stale, odd>>

\* deleteNodeServices lists the services of the member and deletes one after
\* the other, whatever becomes of each.
deleteNodeServices(m) ==
    /\ rm[m] = "list"
    /\ list' = [list EXCEPT ![m] = SelectSeq(Auto, LAMBDA s : <<m, s>> \in row)]
    /\ rm' = [rm EXCEPT ![m] = "delete"]
    /\ UNCHANGED <<dbVars, cephVars, callVars, loop, force, failed, runs, troubles, seenVars>>

DeleteNext(m) ==
    /\ rm[m] = "delete" /\ list[m] # <<>> /\ at[m] = "idle"
    /\ rm' = [rm EXCEPT ![m] = "wait"] /\ list' = [list EXCEPT ![m] = Tail(@)]
    /\ DeleteStep(m, Head(list[m]))
    /\ UNCHANGED <<dbVars, cephVars, loop, force, failed, runs, troubles, seenVars>>

\* An error ends a removal that is not forced. Otherwise MicroCluster deletes
\* the member, and with it its rows (ON DELETE CASCADE, and a trigger for the
\* address of its monitor); what still runs keeps running.
removeNode(m) ==
    /\ rm[m] = "delete" /\ (list[m] = <<>> \/ at[m] = "failed")
    /\ Abandon(m)
    /\ IF m \in failed \ force THEN UNCHANGED <<dbVars, callVars, loop, conf, seenVars>>
       ELSE /\ member' = member \ {m} /\ row' = row \ ({m} \X Services)
            /\ addr' = addr \ {m} /\ zone' = [zone EXCEPT ![m] = "none"]
            /\ conf' = [conf EXCEPT ![m] = {}] /\ loop' = [loop EXCEPT ![m] = NotRead]
            /\ at' = [at EXCEPT ![m] = "out"] /\ call' = [call EXCEPT ![m] = "none"]
            /\ svc' = [svc EXCEPT ![m] = "none"] /\ seen' = [seen EXCEPT ![m] = {}]
            /\ todo' = [todo EXCEPT ![m] = <<>>] /\ Overtake(m)
            /\ odd' = IF m \in force \/ at[m] # "idle" THEN odd \cup {m} ELSE odd
    /\ UNCHANGED <<active, ceph, runs, troubles>>
-----------------------------------------------------------------------------
\* A daemon dies; systemd, or reEnableServices when microcephd starts, starts it
\* again (a monitor that is not in the map exits at once).
Die(m, s) ==
    /\ <<m, s>> \in active /\ Trouble /\ active' = active \ {<<m, s>>}
    /\ Overtake("none")
    /\ UNCHANGED <<dbVars, ceph, conf, callVars, loop, rmVars, runs, odd>>
reEnableServices(m, s) ==
    /\ at[m] = "idle" /\ ServiceExists(m, s) /\ <<m, s>> \notin active
    /\ s = "mon" => <<m, s>> \in ceph
    /\ active' = active \cup {<<m, s>>} /\ ceph' = ceph \cup {<<m, s>>}
    /\ UNCHANGED <<dbVars, conf, callVars, loop, rmVars, runs, troubles, seenVars>>

Step(m) ==
    \/ GetConfigDb(m) \/ UpdateConfig(m)
    \/ validateAndRecordAZ(m) \/ checkAndCreateServiceRecord(m) \/ StartPlanned(m)
    \/ genericHospitalityCheck(m) \/ ServiceInit(m) \/ genericPostPlacementCheck(m)
    \/ genericDbUpdate(m)
    \/ ensureMonAbsent(m) \/ removeMon(m) \/ snapStop(m) \/ ensureMgrAbsent(m)
    \/ removeServiceDatabase(m)
    \/ checkPrerequisites(m) \/ deleteNodeServices(m) \/ DeleteNext(m) \/ removeNode(m)

Next ==
    \E m \in Members :
        \/ \E z \in Zones \cup {"none"}, defer \in BOOLEAN : JoinBegin(m, z, defer)
        \/ \E s \in Services : EnableBegin(m, s) \/ DeleteBegin(m, s)
        \/ \E s \in Services : Die(m, s) \/ reEnableServices(m, s)
        \/ \E f \in BOOLEAN : RemoveBegin(m, f)
        \/ Step(m) \/ LoopRead(m) \/ LoopRender(m)

Spec == Init /\ [][Next]_vars
-----------------------------------------------------------------------------
\* Types; a removal waits only for a service deletion that is under way.
MembersTypeOK ==
    /\ member \subseteq Members /\ row \subseteq member \X Services /\ addr \subseteq member
    /\ zone \in [Members -> Zones \cup {"none"}] /\ GetHostTags \subseteq member
    /\ active \subseteq Members \X Services /\ ceph \subseteq Members \X Services
    /\ conf \in [Members -> SUBSET Members]
    /\ at \in [Members -> {"out", "failed", "idle", "fetch", "render", "zone", "record", "start",
                           "check", "init", "post", "update", "absent", "mon rm", "stop",
                           "evict", "forget"}]
    /\ call \in [Members -> {"none", "join", "defer", "enable", "delete"}]
    /\ svc \in [Members -> Services \cup Zones \cup {"none"}]
    /\ seen \in [Members -> SUBSET Members]
    /\ loop \in [Members -> (SUBSET Members) \cup {NotRead}]
    /\ rm \in [Members -> {"none", "check", "list", "delete", "wait"}]
    /\ force \subseteq Members /\ failed \subseteq Members
    /\ runs \in 0..MaxRuns /\ troubles \in 0..MaxTroubles
    /\ \A m \in Members : rm[m] = "wait" => call[m] = "delete"

Joined == {m \in member : at[m] \notin {"out", "failed", "fetch", "render", "zone"} \/ call[m] \in {"enable", "delete"}}
\* Members are all in an availability zone or none is, however joins, retries
\* of failed joins and removals mix.
ZonesAreUniform ==
    \A m, n \in Joined : (zone[m] = "none") = (zone[n] = "none")

\* "once this node's own MON leaves the monmap the local client has no
\* reachable monitor": while its service is torn down, the ceph.conf of the
\* member names a monitor of the map other than its own, unless no other one was
\* recorded when it was rendered, monitors left later, or the refresh loop
\* rendered an older list.
TeardownReachesMon ==
    \A m \in Members :
        call[m] = "delete" /\ at[m] \in {"stop", "forget"} /\ svc[m] = "mon" =>
            conf[m] \cap (Mons(ceph) \ {m}) # {} \/ m \in stale

\* A member that left without force has left nothing in Ceph.
RemovedIsForgotten ==
    \A m \in Members \ (member \cup odd) :
        \A s \in Services : <<m, s>> \notin active \cup ceph

\* "need at least %d mon ... services in the cluster besides those in node":
\* they are there when the member has gone, unless others were deleted or
\* removed while its services were.
EnoughRemain ==
    [][ \A m \in Members :
          m \in member \ (member' \cup force) =>
              m \in outrun \/ \A s \in Services :
                  Cardinality({k \in Members : <<k, s>> \in row'})
                      >= (IF s = "mon" THEN MinMon ELSE 1) ]_vars
=============================================================================
