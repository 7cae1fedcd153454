---------------------------- MODULE OsdLifecycle ----------------------------
(***************************************************************************)
(* The OSDs of one member: doAddOSDWithStorage and doRemoveOSD of          *)
(* ceph/osd.go, next to the service script that starts the OSD processes   *)
(* and to the Ceph monitors, which commit boot messages in their own time. *)
(* The mutex of api/disks.go lets one call run at a time on a member, and  *)
(* every call on an OSD runs on the member that has it, so the components  *)
(* that interleave are the call, the script, the processes and the maps.   *)
(***************************************************************************)
EXTENDS Naturals, FiniteSets

CONSTANTS
    Disks,        \* block devices of the member
    MaxOsds,      \* ids the disks table hands out
    PurgeRetries, \* attempts of purgeWithRetries
    MaxTroubles   \* failing steps and restarts of microcephd, together

ASSUME OsdConstants ==
    /\ MaxOsds \in Nat /\ PurgeRetries \in Nat \ {0} /\ MaxTroubles \in Nat
    /\ Disks \cap {"none", "empty", "file", "mapper"} = {}

Osds == 1..MaxOsds

VARIABLES
    row,       \* path of an OSD's row in the disks table; "none": no row
    nextId,    \* AUTOINCREMENT of the disks table
    dir,       \* data directory: none, made, ready, suppressed (its marker)
    dev,       \* what the OSD's data is on (never read by the code)
    proc,      \* OSD process: none, starting, running
    spawning,  \* the OSD whose marker the start script has seen; 0: none
    tree,      \* OSDs of the CRUSH tree
    map,       \* OSD map: absent, down, up
    boot,      \* OSDs with a boot message on its way to the monitors
    at,        \* step of the call that holds the mutex
    osd,       \* the OSD it is about
    path,      \* data.Path of an add
    present,   \* isPresent of a removal
    auto,      \* autostartSuppressed of a removal
    again,     \* second round of purgeOSD
    tries,     \* attempts the round has made
    troubles,
    \* What happened to an OSD, for the properties only.
    leaked,    \* its add was reverted after the marker was written, or not fully
    raced,     \* the script started it after the marker had been renamed
    late,      \* its boot was committed after the purge had been verified
    held       \* its marker may stay renamed: a removal committed or was cut off

dbVars == <<row, nextId>>
hostVars == <<dir, dev, proc, spawning>>
monVars == <<tree, map, boot>>
callVars == <<at, osd, path, present, auto, again, tries>>
seenVars == <<leaked, raced, late, held>>
vars == <<dbVars, hostVars, monVars, callVars, troubles, seenVars>>

Init ==
    /\ row = [o \in Osds |-> "none"] /\ nextId = 1
    /\ dir = [o \in Osds |-> "none"] /\ dev = [o \in Osds |-> "none"]
    /\ proc = [o \in Osds |-> "none"] /\ spawning = 0
    /\ tree = {} /\ map = [o \in Osds |-> "absent"] /\ boot = {}
    /\ at = "idle" /\ osd = 0 /\ path = "none"
    /\ present = FALSE /\ auto = FALSE /\ again = FALSE /\ tries = 0
    /\ troubles = 0
    /\ leaked = {} /\ raced = {} /\ late = {} /\ held = {}

\* The steps of an add and of a removal, in their order.
Adding == {"record", "prepare", "mkfs", "spawn", "revert", "forget"}
Removing == {"look", "suppress", "kill", "down", "recheck", "mapcheck", "destroy",
             "purge", "verify", "clear", "rmdir", "delete"}
Committed == {"destroy", "purge", "verify", "clear", "rmdir", "delete"}

Trouble == troubles < MaxTroubles /\ troubles' = troubles + 1
Go(s) == at' = s /\ UNCHANGED <<osd, path, present, auto, again, tries>>
End == /\ at' = "idle" /\ osd' = 0 /\ path' = "none"
       /\ present' = FALSE /\ auto' = FALSE /\ again' = FALSE /\ tries' = 0
-----------------------------------------------------------------------------
(* Adding an OSD. *)

\* cmdDisksPost with the mutex taken: a block device, or a loop file whose
\* path is not known before its directory is made.
AddBegin(p) ==
    /\ at = "idle" /\ nextId <= MaxOsds
    /\ at' = "record" /\ path' = p
    /\ UNCHANGED <<osd, present, auto, again, tries, dbVars, hostVars, monVars, troubles, seenVars>>

\* createDiskRecord: the table takes a path of a member once.
Taken(p) == \E o \in Osds : row[o] = p

createDiskRecord ==
    /\ at = "record"
    /\ \/ /\ ~Taken(path)
          /\ row' = [row EXCEPT ![nextId] = path]
          /\ dev' = [dev EXCEPT ![nextId] = IF path = "empty" THEN "file" ELSE path]
          /\ osd' = nextId /\ nextId' = nextId + 1
          /\ at' = "prepare" /\ UNCHANGED <<path, present, auto, again, tries, troubles>>
       \/ Taken(path) /\ End /\ UNCHANGED <<dbVars, dev, troubles>>
       \/ Trouble /\ End /\ UNCHANGED <<dbVars, dev>>
    /\ UNCHANGED <<dir, proc, spawning, monVars, seenVars>>

\* prepareOSDData, the checks of the device and prepareDisk. The path of a
\* loop file is recorded once the file exists; a device that is encrypted is
\* used, and known to the revert hook, by its mapper.
prepareOSDData ==
    /\ at = "prepare"
    /\ \/ /\ dir' = [dir EXCEPT ![osd] = "made"]
          /\ \/ /\ path = "empty" /\ path' = "file"
                /\ row' = [row EXCEPT ![osd] = "file"]
             \/ path # "empty" /\ path' \in {path, "mapper"} /\ UNCHANGED row
          /\ at' = "mkfs" /\ UNCHANGED troubles
       \/ /\ Trouble /\ at' = "revert" /\ UNCHANGED row
          /\ dir' \in {dir, [dir EXCEPT ![osd] = "made"]}
          /\ path' \in IF dir' = dir THEN {path}
                       ELSE IF path = "empty" THEN {path, "file"} ELSE {path, "mapper"}
    /\ UNCHANGED <<nextId, dev, proc, spawning, monVars, osd, present, auto, again, tries, seenVars>>

\* generateOSDFiles and bootstrapOSD, which writes the marker last.
bootstrapOSD ==
    /\ at = "mkfs"
    /\ \/ dir' = [dir EXCEPT ![osd] = "ready"] /\ Go("spawn") /\ UNCHANGED troubles
       \/ Trouble /\ Go("revert") /\ UNCHANGED dir
    /\ UNCHANGED <<dbVars, dev, proc, spawning, monVars, seenVars>>

\* spawnOSD asks for the start script, updateTopology and updateFailureDomain
\* follow (module FailureDomain); then the add is kept.
spawnOSD ==
    /\ at = "spawn"
    /\ \/ End /\ UNCHANGED troubles
       \/ Trouble /\ Go("revert")
    /\ UNCHANGED <<dbVars, hostVars, monVars, seenVars>>

\* The hook of setupRevert ignores its errors: it removes the directory, then
\* the row that has the path the add now uses.
RevertFiles ==
    /\ at = "revert" /\ Go("forget")
    /\ \/ /\ dir' = [dir EXCEPT ![osd] = "none"]
          /\ leaked' = IF dir[osd] = "ready" THEN leaked \cup {osd} ELSE leaked
       \/ dir[osd] # "none" /\ leaked' = leaked \cup {osd} /\ UNCHANGED dir
    /\ UNCHANGED <<dbVars, dev, proc, spawning, monVars, troubles, raced, late, held>>

RevertRow ==
    /\ at = "forget" /\ End
    /\ \/ row' = [o \in Osds |-> IF row[o] = path /\ (path # "file" \/ o = osd)
                                    THEN "none" ELSE row[o]]
       \/ UNCHANGED row
    /\ UNCHANGED <<nextId, hostVars, monVars, troubles, seenVars>>
-----------------------------------------------------------------------------
(* Removing an OSD. *)

\* An error return. Before the commit it gives the marker back if it was
\* renamed (restoreOSDAutostart), which may fail too.
Refused == Trouble /\ End /\ UNCHANGED <<dir, held>>

\* From here on an error leaves the marker renamed.
Commit(s) ==
    /\ at' = s /\ present' = FALSE /\ auto' = FALSE /\ held' = held \cup {osd}
    /\ UNCHANGED <<osd, path, again, tries>>

Abandoned ==
    /\ Trouble /\ End
    /\ \/ /\ dir' = IF auto /\ dir[osd] = "suppressed"
                    THEN [dir EXCEPT ![osd] = "ready"] ELSE dir
          /\ UNCHANGED held
       \/ auto /\ held' = held \cup {osd} /\ UNCHANGED dir

\* sanityCheck; the checks before it are those of module FailureDomain.
RemoveBegin(o) ==
    /\ at = "idle" /\ row[o] # "none"
    /\ at' = "look" /\ osd' = o
    /\ UNCHANGED <<path, present, auto, again, tries, dbVars, hostVars, monVars, troubles, seenVars>>

\* haveOSDInCeph; an OSD of the tree is drained, checked and taken out.
Look ==
    /\ at = "look"
    /\ \/ /\ present' = (osd \in tree) /\ at' = "suppress"
          /\ UNCHANGED <<osd, path, auto, again, tries, dir, held, troubles>>
       \/ Refused
    /\ UNCHANGED <<dbVars, dev, proc, spawning, monVars, leaked, raced, late>>

suppressNothing ==
    /\ at = "suppress" /\ Go("kill")
    /\ UNCHANGED <<dbVars, hostVars, monVars, troubles, seenVars>>
suppressStrict ==
    /\ at = "suppress"
    /\ \/ /\ dir[osd] \in {"ready", "suppressed"}
          /\ dir' = [dir EXCEPT ![osd] = "suppressed"] /\ auto' = TRUE
          /\ at' = "kill" /\ UNCHANGED <<osd, path, present, again, tries, held, troubles>>
       \/ dir[osd] \notin {"ready", "suppressed"} /\ End /\ UNCHANGED <<dir, held, troubles>>
       \/ Refused
    /\ UNCHANGED <<dbVars, dev, proc, spawning, monVars, leaked, raced, late>>

suppressOSDAutostart ==
    /\ at = "suppress"
    /\ \/ /\ dir' = IF dir[osd] = "ready" THEN [dir EXCEPT ![osd] = "suppressed"] ELSE dir
          /\ auto' = (dir[osd] \in {"ready", "suppressed"})
          /\ at' = "kill" /\ UNCHANGED <<osd, path, present, again, tries, held, troubles>>
       \/ Refused
    /\ UNCHANGED <<dbVars, dev, proc, spawning, monVars, leaked, raced, late>>

\* killOSD returns once pgrep finds no process; it may also have stopped one
\* when it fails.
killOSD ==
    /\ at = "kill"
    /\ \/ /\ proc' = [proc EXCEPT ![osd] = "none"]
          /\ Go("down") /\ UNCHANGED <<dir, held, troubles>>
       \/ Abandoned /\ proc' \in {proc, [proc EXCEPT ![osd] = "none"]}
    /\ UNCHANGED <<dbVars, dev, spawning, monVars, leaked, raced, late>>

Down(o) == map' = [map EXCEPT ![o] = IF @ = "up" THEN "down" ELSE @]

downOSD ==
    /\ at = "down"
    /\ \/ /\ IF present THEN Down(osd) /\ Commit("destroy")
                        ELSE Go("recheck") /\ UNCHANGED <<map, held>>
          /\ UNCHANGED <<dir, troubles>>
       \/ present /\ Abandoned /\ UNCHANGED map
    /\ UNCHANGED <<dbVars, dev, proc, spawning, tree, boot, leaked, raced, late>>

\* waitForOSDPresence; an OSD that has appeared is taken out and down.
Recheck ==
    /\ at = "recheck"
    /\ \/ /\ IF osd \in tree THEN Down(osd) /\ Commit("destroy")
                            ELSE Go("mapcheck") /\ UNCHANGED <<map, held>>
          /\ UNCHANGED <<dir, troubles>>
       \/ Abandoned /\ UNCHANGED map
    /\ UNCHANGED <<dbVars, dev, proc, spawning, tree, boot, leaked, raced, late>>

\* haveOSDInOSDMap: an id may be in the OSD map and not in the tree. From
\* here on the removal is committed.
MapCheck ==
    /\ at = "mapcheck"
    /\ \/ /\ IF map[osd] # "absent" THEN Down(osd) /\ Commit("destroy")
                                    ELSE Commit("clear") /\ UNCHANGED map
          /\ UNCHANGED <<dir, troubles>>
       \/ Abandoned /\ UNCHANGED map
    /\ UNCHANGED <<dbVars, dev, proc, spawning, tree, boot, leaked, raced, late>>

safetyCheckDestroy ==
    /\ at = "destroy"
    /\ \/ Go("purge") /\ UNCHANGED <<dir, held, troubles>>
       \/ Refused
    /\ UNCHANGED <<dbVars, dev, proc, spawning, monVars, leaked, raced, late>>

LastTry == tries + 1 >= PurgeRetries

\* One attempt of purgeWithRetries. The monitors refuse an OSD that is up,
\* which is then marked down again; the last attempt gives up. An attempt, or a
\* down, that fails for another reason changes nothing and is made again: Refused
\* stands for the last of them failing.
doPurge ==
    /\ at = "purge"
    /\ \/ /\ map[osd] # "up"
          /\ map' = [map EXCEPT ![osd] = "absent"] /\ tree' = tree \ {osd}
          /\ Go("verify") /\ UNCHANGED <<dir, held, troubles>>
       \/ /\ map[osd] = "up"
          /\ \/ /\ ~LastTry /\ Down(osd) /\ tries' = tries + 1
                /\ UNCHANGED <<at, osd, path, present, auto, again>>
             \/ LastTry /\ End /\ UNCHANGED map
          /\ UNCHANGED <<tree, dir, held, troubles>>
       \/ Refused /\ UNCHANGED <<map, tree>>
    /\ UNCHANGED <<dbVars, dev, proc, spawning, boot, leaked, raced, late>>

purgeOnce ==
    /\ at = "verify" /\ Go("clear")
    /\ UNCHANGED <<dbVars, hostVars, monVars, troubles, seenVars>>

\* purgeOSD looks for the id in the OSD map and purges once more.
purgeOSD ==
    /\ at = "verify"
    /\ \/ /\ map[osd] = "absent"
          /\ at' = "clear" /\ again' = FALSE /\ tries' = 0
          /\ UNCHANGED <<osd, path, present, auto, map, dir, held, troubles>>
       \/ /\ map[osd] # "absent" /\ ~again /\ Down(osd)
          /\ again' = TRUE /\ tries' = 0 /\ at' = "purge"
          /\ UNCHANGED <<osd, path, present, auto, dir, held, troubles>>
       \/ map[osd] # "absent" /\ again /\ End /\ UNCHANGED <<map, dir, held, troubles>>
       \/ Refused /\ UNCHANGED map
    /\ UNCHANGED <<dbVars, dev, proc, spawning, tree, boot, leaked, raced, late>>

\* clearPrimaryStorage, whose errors are only logged, and
\* cleanupGeneratedAuxDevices (module AuxPartitions).
Clear ==
    /\ at = "clear"
    /\ \/ Go("rmdir") /\ UNCHANGED <<dir, held, troubles>>
       \/ Refused
    /\ UNCHANGED <<dbVars, dev, proc, spawning, monVars, leaked, raced, late>>

removeOSDConfig ==
    /\ at = "rmdir"
    /\ \/ dir' = [dir EXCEPT ![osd] = "none"] /\ Go("delete") /\ UNCHANGED <<held, troubles>>
       \/ Refused
    /\ UNCHANGED <<dbVars, dev, proc, spawning, monVars, leaked, raced, late>>

\* OSDQuery.Delete: the path is read, then the row of that path deleted.
DeleteRow ==
    /\ at = "delete"
    /\ \/ /\ row' = [row EXCEPT ![osd] = "none"] /\ End
          /\ held' = held \ {osd} /\ UNCHANGED <<dir, troubles>>
       \/ Refused /\ UNCHANGED row
    /\ UNCHANGED <<nextId, dev, proc, spawning, monVars, leaked, raced, late>>
-----------------------------------------------------------------------------
(* The start script, the OSD processes and the monitors: external. *)

\* snapcraft/commands/osd.start: it skips an OSD without the marker, and
\* starts the process a while later.
SpawnCheck(o) ==
    /\ spawning = 0 /\ dir[o] = "ready" /\ proc[o] = "none"
    /\ spawning' = o
    /\ UNCHANGED <<dbVars, dir, dev, proc, monVars, callVars, troubles, seenVars>>

SpawnExec ==
    /\ spawning # 0 /\ spawning' = 0
    /\ \/ /\ dir[spawning] # "none" /\ proc[spawning] = "none"
          /\ proc' = [proc EXCEPT ![spawning] = "starting"]
          /\ raced' = IF dir[spawning] = "ready" THEN raced ELSE raced \cup {spawning}
       \/ UNCHANGED <<proc, raced>>
    /\ UNCHANGED <<dbVars, dir, dev, monVars, callVars, troubles, leaked, late, held>>

\* A starting OSD has its id created, enters the CRUSH tree and boots; one
\* that is marked down while it runs boots again.
Register(o) ==
    /\ proc[o] = "starting" /\ proc' = [proc EXCEPT ![o] = "running"]
    /\ map' = [map EXCEPT ![o] = IF @ = "absent" THEN "down" ELSE @]
    /\ tree' = tree \cup {o} /\ boot' = boot \cup {o}
    /\ UNCHANGED <<dbVars, dir, dev, spawning, callVars, troubles, seenVars>>

Reboot(o) ==
    /\ proc[o] = "running" /\ map[o] = "down" /\ o \notin boot
    /\ boot' = boot \cup {o}
    /\ UNCHANGED <<dbVars, hostVars, tree, map, callVars, troubles, seenVars>>

\* A boot is committed, after a purge too: the id is then back in the OSD
\* map without being in the tree.
CommitBoot(o) ==
    /\ o \in boot /\ boot' = boot \ {o}
    /\ map' = [map EXCEPT ![o] = "up"]
    /\ late' = IF row[o] = "none" \/ (osd = o /\ at \in {"clear", "rmdir", "delete"})
               THEN late \cup {o} ELSE late
    /\ UNCHANGED <<dbVars, hostVars, tree, callVars, troubles, leaked, raced, held>>

LoseBoot(o) ==
    /\ o \in boot /\ proc[o] = "none" /\ boot' = boot \ {o}
    /\ UNCHANGED <<dbVars, hostVars, tree, map, callVars, troubles, seenVars>>

Die(o) ==
    /\ proc[o] # "none" /\ Trouble
    /\ proc' = [proc EXCEPT ![o] = "none"]
    /\ UNCHANGED <<dbVars, dir, dev, spawning, monVars, callVars, seenVars>>

\* microcephd restarts: no deferred function of the call runs.
Crash ==
    /\ at # "idle" /\ Trouble /\ End
    /\ held' = IF at \in Removing \ {"look", "suppress"} THEN held \cup {osd} ELSE held
    /\ UNCHANGED <<dbVars, hostVars, monVars, leaked, raced, late>>

AddStep ==
    createDiskRecord \/ prepareOSDData \/ bootstrapOSD \/ spawnOSD
        \/ RevertFiles \/ RevertRow
RemoveStep ==
    Look \/ suppressOSDAutostart \/ killOSD \/ downOSD \/ Recheck \/ MapCheck
        \/ safetyCheckDestroy \/ doPurge \/ purgeOSD \/ Clear \/ removeOSDConfig \/ DeleteRow
World(o) == SpawnCheck(o) \/ Register(o) \/ Reboot(o) \/ CommitBoot(o) \/ LoseBoot(o) \/ Die(o)

Next ==
    \/ \E p \in Disks \cup {"empty"} : AddBegin(p)
    \/ \E o \in Osds : RemoveBegin(o) \/ World(o)
    \/ AddStep \/ RemoveStep \/ SpawnExec \/ Crash

Spec == Init /\ [][Next]_vars

\* A call that holds the mutex goes on, and operators repeat removals, with the
\* safety checks bypassed, as long as there is an OSD to remove.
FairSpec ==
    /\ Spec
    /\ WF_vars(AddStep \/ RemoveStep)
    /\ SF_vars(\E o \in Osds : RemoveBegin(o))
-----------------------------------------------------------------------------
Paths == Disks \cup {"none", "empty", "file"}

\* Types; purgeWithRetries never tries more often than its limit.
OsdTypeOK ==
    /\ row \in [Osds -> Paths] /\ nextId \in 1..(MaxOsds + 1)
    /\ dir \in [Osds -> {"none", "made", "ready", "suppressed"}]
    /\ dev \in [Osds -> Disks \cup {"none", "file"}]
    /\ proc \in [Osds -> {"none", "starting", "running"}] /\ spawning \in Osds \cup {0}
    /\ tree \subseteq Osds /\ boot \subseteq Osds
    /\ map \in [Osds -> {"absent", "down", "up"}]
    /\ at \in Adding \cup Removing \cup {"idle"}
    /\ osd \in Osds \cup {0} /\ (at \notin {"idle", "record"} => osd # 0)
    /\ path \in Paths \cup {"mapper"}
    /\ present \in BOOLEAN /\ auto \in BOOLEAN /\ again \in BOOLEAN
    /\ tries \in 0..(PurgeRetries - 1)
    /\ troubles \in 0..MaxTroubles
    /\ leaked \subseteq Osds /\ raced \subseteq Osds /\ late \subseteq Osds /\ held \subseteq Osds

\* "The OSD process must be stopped before it is called": an OSD leaves the
\* OSD map only when its process is gone, unless the start script had seen its
\* marker before the removal renamed it.
PurgedIsStopped ==
    [][ \A o \in Osds : map[o] # "absent" /\ map'[o] = "absent" =>
            proc[o] = "none" \/ o \in raced ]_vars

\* The row of an OSD goes last: without one there is no directory, process,
\* CRUSH item or id of it left for an operator to find, except what a failed
\* add, the start script or a late boot message brought back.
RowIsLast ==
    \A o \in Osds :
        row[o] = "none" /\ o \notin leaked \cup raced =>
            /\ dir[o] = "none" /\ proc[o] = "none" /\ o \notin tree
            /\ map[o] = "absent" \/ o \in late

\* A removal that is refused before it commits leaves an OSD the start script
\* starts again.
RefusedStaysStartable ==
    \A o \in Osds :
        dir[o] = "suppressed" => o \in held \/ (osd = o /\ at \in Removing)

\* Two OSD processes never run on one block device, although a device can be
\* added again as soon as its row is gone.
DiskIsNotShared ==
    \A o, p \in Osds :
        o # p /\ dev[o] = dev[p] /\ dev[o] \in Disks
            /\ proc[o] # "none" /\ proc[p] # "none" => {o, p} \cap (leaked \cup raced) # {}

\* Whatever was left by failed adds, refused, cut off or half-done removals,
\* late boots and restarts, removing OSDs again and again removes them all
\* (there are MaxOsds to add).
RemovalCompletes == <>[](\A o \in Osds : row[o] = "none")
=============================================================================
