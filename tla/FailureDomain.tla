---------------------------- MODULE FailureDomain ---------------------------
(***************************************************************************)
(* The automatic CRUSH failure domain (ceph/osd.go, ceph/crush.go): disk   *)
(* adds move the default rule and the pools from osd to host or rack, disk *)
(* removals from host to osd. Every call decides on a count of the shared  *)
(* database or of the CRUSH tree and acts on it later; the mutex of        *)
(* api/disks.go serialises the calls of one member, nothing serialises     *)
(* those of different members. What an add or a removal does to its OSD is *)
(* module OsdLifecycle; here it is a row and a CRUSH item of its member.   *)
(***************************************************************************)
EXTENDS Naturals, FiniteSets, FiniteSetsExt

CONSTANTS
    Members, Zones,
    Zonings,     \* availability-zone tags: functions to Zones and "none"
    Flags,       \* sets of flags of a removal: bypass, prohibit, confirm
    Batches,     \* requests: a number of disks, or of loop files
    Capacity,    \* disks a member has
    Deniable,    \* members a new placement policy may exclude from storage
    MaxCalls,    \* calls in progress at a time
    MaxTroubles  \* failing steps

Rules == {"osd", "host", "rack"}

VARIABLES
    zone,      \* rows of host_tags
    rows,      \* rows of disks, per member
    crush,     \* OSDs of the CRUSH tree, per member
    racked,    \* members whose host bucket is under the rack of their zone
    rule,      \* osd_pool_default_crush_rule
    pool,      \* rule of the pools microceph created
    denied,    \* members the storage policy does not allow
    at,        \* step of a member's call
    flags,     \* flags of a removal
    left,      \* disks of an add still to be tried, and whether they are loop files
    goal,      \* the rule switchFailureDomain is switching to
    troubles,
    \* What happened, for the properties only.
    met,       \* other calls changed rows or the rule since this call's row or count
    stale,     \* a call acted on such an outdated count
    torn,      \* a switch failed between the default rule and the pools
    bypassed,  \* a removal bypassed the rack check
    after      \* OSDs recorded on a member that is denied

dataVars == <<rows, crush, racked>>
ruleVars == <<rule, pool>>
callVars == <<at, flags, left, goal>>
seenVars == <<met, stale, torn, bypassed, after>>
vars == <<zone, dataVars, ruleVars, denied, callVars, troubles, seenVars>>

Init ==
    /\ zone \in Zonings
    /\ rows = [m \in Members |-> 0] /\ crush = [m \in Members |-> 0] /\ racked = {}
    /\ rule = "osd" /\ pool = "osd" /\ denied = {}
    /\ at = [m \in Members |-> "idle"] /\ flags = [m \in Members |-> {}]
    /\ left = [m \in Members |-> [n |-> 0, loop |-> FALSE]] /\ goal = [m \in Members |-> "osd"]
    /\ troubles = 0
    /\ met = {} /\ stale = FALSE /\ torn = FALSE /\ bypassed = FALSE
    /\ after = [m \in Members |-> 0]

Trouble == troubles < MaxTroubles /\ troubles' = troubles + 1
Go(m, s) == at' = [at EXCEPT ![m] = s] /\ UNCHANGED <<flags, left, goal>>
End(m) ==
    /\ at' = [at EXCEPT ![m] = "idle"] /\ flags' = [flags EXCEPT ![m] = {}]
    /\ left' = [left EXCEPT ![m] = [n |-> 0, loop |-> FALSE]]
    /\ goal' = [goal EXCEPT ![m] = "osd"]
Free == Cardinality({m \in Members : at[m] # "idle"}) < MaxCalls

\* A change of what other calls have counted, made on a count of one's own.
Act(m) ==
    /\ met' = met \cup {k \in Members \ {m} : at[k] \notin {"idle", "check"}}
    /\ stale' = (stale \/ m \in met)
-----------------------------------------------------------------------------
(* What the calls count. *)

\* MemberCounter.Count and CountExclude.
Count == Cardinality({k \in Members : rows[k] > 0})
CountExcludeNone(m) == Count
CountExclude(m) == Cardinality({k \in Members : rows[k] > (IF k = m THEN 1 ELSE 0)})

\* getAZData, countOSDsInAZRack, countAZsWithOSDs; the zone of the member that
\* adds counts as active.
uniqueAZs == {zone[m] : m \in Members} \ {"none"}
countOSDsInAZRack(z) == MapThenSumSet(LAMBDA k : crush[k], {k \in racked : zone[k] = z})
countAZsWithOSDs(current) ==
    Cardinality({z \in uniqueAZs : z = current \/ countOSDsInAZRack(z) > 0})

IsDowngradeNeeded(m) == rule = "host" /\ CountExclude(m) < 3
IsRackDegradeBlocked(m) ==
    /\ rule = "rack" /\ zone[m] # "none"
    /\ countAZsWithOSDs("none") <= 3 /\ countOSDsInAZRack(zone[m]) <= 1
-----------------------------------------------------------------------------
(* Adding disks. *)

\* addBulkDisks: the storage policy is read for the request, and again for
\* every disk of it; for loop files once.
AddBegin(m, r) ==
    /\ at[m] = "idle" /\ Free /\ m \notin denied /\ rows[m] + r.n <= Capacity[m]
    /\ at' = [at EXCEPT ![m] = "check"] /\ left' = [left EXCEPT ![m] = r]
    /\ UNCHANGED <<zone, dataVars, ruleVars, denied, flags, goal, troubles, seenVars>>

\* The request goes on with its next disk, unless a loop file failed.
NextDisk(m, ok) ==
    IF left[m].n > 1 /\ (ok \/ ~left[m].loop)
    THEN /\ at' = [at EXCEPT ![m] = IF left[m].loop THEN "record" ELSE "check"]
         /\ left' = [left EXCEPT ![m].n = @ - 1]
         /\ goal' = [goal EXCEPT ![m] = "osd"] /\ UNCHANGED flags
    ELSE End(m)

Unchecked(m) ==
    /\ at[m] = "check" /\ Go(m, "record")
    /\ UNCHANGED <<zone, dataVars, ruleVars, denied, troubles, seenVars>>
checkStorageEligibility(m) ==
    /\ at[m] = "check"
    /\ IF m \in denied THEN NextDisk(m, FALSE) ELSE Go(m, "record")
    /\ UNCHANGED <<zone, dataVars, ruleVars, denied, troubles, seenVars>>

createDiskRecord(m) ==
    /\ at[m] = "record"
    /\ \/ /\ rows' = [rows EXCEPT ![m] = @ + 1] /\ Go(m, "spawn")
          /\ met' = met \ {m} /\ UNCHANGED troubles
          /\ after' = [after EXCEPT ![m] =
                           IF m \in denied /\ ~left[m].loop THEN @ + 1 ELSE @]
       \/ Trouble /\ NextDisk(m, FALSE) /\ UNCHANGED <<rows, met, after>>
    /\ UNCHANGED <<zone, crush, racked, ruleVars, denied, stale, torn, bypassed>>

\* Preparing, formatting and spawning the OSD. It may fail, and an OSD that is
\* spawned may not be in the CRUSH tree in time, or at all (without zones
\* nothing counts it there).
spawnOSD(m) ==
    /\ at[m] = "spawn"
    /\ \/ /\ crush' = [crush EXCEPT ![m] = IF uniqueAZs = {} THEN @ ELSE @ + 1]
          /\ Go(m, "settle") /\ UNCHANGED troubles
       \/ Trouble /\ Go(m, "settle") /\ UNCHANGED crush
       \/ Trouble /\ Go(m, "revert") /\ UNCHANGED crush
    /\ UNCHANGED <<zone, rows, racked, ruleVars, denied, seenVars>>

Target(m, r) == at' = [at EXCEPT ![m] = "switch"] /\ goal' = [goal EXCEPT ![m] = r]
                /\ UNCHANGED <<flags, left>>

\* updateTopology on a member with a zone: its host goes under the rack of the
\* zone; with three zones that have OSDs the failure domain becomes rack.
\* updateFailureDomain does nothing then.
updateTopology(m) ==
    /\ at[m] = "settle" /\ zone[m] # "none"
    /\ \/ /\ racked' = racked \cup {m} /\ UNCHANGED troubles
          /\ IF countAZsWithOSDs(zone[m]) >= 3 THEN Target(m, "rack") ELSE NextDisk(m, TRUE)
       \/ Trouble /\ Go(m, "revert") /\ UNCHANGED racked
    /\ UNCHANGED <<zone, rows, crush, ruleVars, denied, seenVars>>

\* updateFailureDomain on a member without one.
updateFailureDomain(m) ==
    /\ at[m] = "settle" /\ zone[m] = "none"
    /\ \/ /\ IF uniqueAZs = {} /\ Count >= 3 THEN Target(m, "host") ELSE NextDisk(m, TRUE)
          /\ UNCHANGED troubles
       \/ Trouble /\ Go(m, "revert")
    /\ UNCHANGED <<zone, dataVars, ruleVars, denied, seenVars>>

\* setupRevert: the row goes unless it is known by another path by now; the
\* OSD, if it was spawned, stays.
Revert(m) ==
    /\ at[m] = "revert" /\ NextDisk(m, FALSE)
    /\ \/ rows' = [rows EXCEPT ![m] = @ - 1] /\ Act(m)
       \/ UNCHANGED <<rows, met, stale>>
    /\ UNCHANGED <<zone, crush, racked, ruleVars, denied, troubles, torn, bypassed, after>>
-----------------------------------------------------------------------------
(* switchFailureDomain sets the default rule and then moves the pools. *)

Failed(m) == Trouble /\ IF goal[m] = "osd" THEN End(m) ELSE Go(m, "revert")

setDefaultCrushRule(m) ==
    /\ at[m] = "switch"
    /\ \/ rule' = goal[m] /\ Act(m) /\ Go(m, "pools") /\ UNCHANGED troubles
       \/ Failed(m) /\ UNCHANGED <<rule, met, stale>>
    /\ UNCHANGED <<zone, dataVars, pool, denied, torn, bypassed, after>>

Moved(r) == [osd |-> {"host"}, host |-> {"osd"}, rack |-> {"osd", "host"}][r]
setPoolCrushRule(m) ==
    /\ at[m] = "pools"
    /\ \/ /\ pool' = IF pool \in Moved(goal[m]) THEN goal[m] ELSE pool
          /\ IF goal[m] = "osd" THEN Go(m, "purge") ELSE NextDisk(m, TRUE)
          /\ stale' = (stale \/ m \in met) /\ UNCHANGED <<torn, troubles>>
       \/ Failed(m) /\ torn' = TRUE /\ UNCHANGED <<pool, stale>>
    /\ UNCHANGED <<zone, dataVars, rule, denied, met, bypassed, after>>
-----------------------------------------------------------------------------
(* Removing a disk: cmdDisksDelete and doRemoveOSD. *)

RemoveBegin(m, f) ==
    /\ at[m] = "idle" /\ Free /\ rows[m] > 0
    /\ at' = [at EXCEPT ![m] = "vet"] /\ flags' = [flags EXCEPT ![m] = f]
    /\ UNCHANGED <<zone, dataVars, ruleVars, denied, left, goal, troubles, seenVars>>

\* A downgrade has to be confirmed, unless it is "prohibited"; a removal that
\* would leave too few racks is refused unless that is bypassed.
Vet(m) ==
    /\ at[m] = "vet"
    /\ IF \/ flags[m] \cap {"prohibit", "confirm"} = {} /\ IsDowngradeNeeded(m)
          \/ "bypass" \notin flags[m] /\ IsRackDegradeBlocked(m)
       THEN End(m) ELSE Go(m, "scale")
    /\ bypassed' = (bypassed \/ (IsRackDegradeBlocked(m) /\ "bypass" \in flags[m]))
    /\ met' = met \ {m}
    /\ UNCHANGED <<zone, dataVars, ruleVars, denied, troubles, stale, torn, after>>

\* checkMinOSDs and scaleDownFailureDomain, which decides anew.
scaleDownFailureDomain(m) ==
    /\ at[m] = "scale"
    /\ CASE "bypass" \notin flags[m] /\ MapThenSumSet(LAMBDA k : rows[k], Members) <= 3 -> End(m)
         [] OTHER -> IF IsDowngradeNeeded(m) THEN Target(m, "osd") ELSE Go(m, "purge")
    /\ UNCHANGED <<zone, dataVars, ruleVars, denied, troubles, seenVars>>

purgeOSD(m) ==
    /\ at[m] = "purge"
    /\ \/ /\ crush' = [crush EXCEPT ![m] = IF @ > 0 THEN @ - 1 ELSE 0]
          /\ Act(m) /\ Go(m, "delete") /\ UNCHANGED troubles
       \/ Trouble /\ End(m) /\ UNCHANGED <<crush, met, stale>>
    /\ UNCHANGED <<zone, rows, racked, ruleVars, denied, torn, bypassed, after>>

Delete(m) ==
    /\ at[m] = "delete" /\ End(m)
    /\ \/ rows' = [rows EXCEPT ![m] = @ - 1] /\ Act(m) /\ UNCHANGED troubles
       \/ Trouble /\ UNCHANGED <<rows, met, stale>>
    /\ UNCHANGED <<zone, crush, racked, ruleVars, denied, torn, bypassed, after>>
-----------------------------------------------------------------------------
\* A new placement policy withdraws storage_eligible from a member.
Deny(m) ==
    /\ m \in Deniable \ denied /\ denied' = denied \cup {m}
    /\ UNCHANGED <<zone, dataVars, ruleVars, callVars, troubles, seenVars>>

Step(m) ==
    \/ checkStorageEligibility(m) \/ createDiskRecord(m) \/ spawnOSD(m) \/ updateTopology(m)
    \/ updateFailureDomain(m) \/ Revert(m)
    \/ setDefaultCrushRule(m) \/ setPoolCrushRule(m)
    \/ Vet(m) \/ scaleDownFailureDomain(m) \/ purgeOSD(m) \/ Delete(m)

Next ==
    \E m \in Members :
        \/ \E r \in Batches : AddBegin(m, r)
        \/ \E f \in Flags : RemoveBegin(m, f)
        \/ Step(m) \/ Deny(m)

Spec == Init /\ [][Next]_vars
-----------------------------------------------------------------------------
\* Types; a batch never enrols more disks than the member has, and a disk that
\* CRUSH counts without a row is the trace of a call that failed.
DomainTypeOK ==
    /\ zone \in [Members -> Zones \cup {"none"}] /\ racked \subseteq Members
    /\ rows \in [Members -> Nat] /\ crush \in [Members -> Nat]
    /\ \A m \in Members : rows[m] <= Capacity[m] /\ crush[m] <= Capacity[m] + troubles
    /\ rule \in Rules /\ pool \in Rules /\ denied \subseteq Members
    /\ at \in [Members -> {"idle", "check", "record", "spawn", "settle", "revert",
                           "switch", "pools", "vet", "scale", "purge", "delete"}]
    /\ flags \in [Members -> Flags \cup {{}}] /\ goal \in [Members -> Rules]
    /\ left \in [Members -> [n : Nat, loop : BOOLEAN]]
    /\ troubles \in 0..MaxTroubles /\ met \subseteq Members
    /\ stale \in BOOLEAN /\ torn \in BOOLEAN /\ bypassed \in BOOLEAN
    /\ after \in [Members -> Nat]

\* "Once we have at least 3 nodes with at least 1 OSD each, we set the failure
\* domain to host", and a removal goes back in time or is refused ("would leave
\* fewer than 3 availability zones with OSDs"): host is never asked of fewer than
\* three members with OSDs, rack never of fewer than three zones, by the rule or,
\* as soon as every switch is over, by the pools; unless a call acted on a count
\* another member had outdated, a switch failed half-way or a check was bypassed.
DomainIsSatisfiable ==
    LET holders == {m \in Members : rows[m] > 0 \/ crush[m] > 0}
        zones == {zone[m] : m \in holders} \ {"none"}
    IN  stale \/ torn \/
        /\ rule = "host" => Count >= 3
        /\ pool = "host" => Count >= 3 \/ \E m \in Members : at[m] = "pools"
        /\ "rack" \in {rule, pool} => Cardinality(zones) >= 3 \/ bypassed

\* A policy that withdraws a member's storage role stops a request that is at
\* work: at most the disk it has already let through is still enrolled.
DeniedStops == \A m \in Members : after[m] <= 1
=============================================================================
