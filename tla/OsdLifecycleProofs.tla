------------------------- MODULE OsdLifecycleProofs -------------------------
(***************************************************************************)
(* Proofs about OsdLifecycle, for any number of disks, OSDs, attempts and  *)
(* failures.                                                               *)
(***************************************************************************)
EXTENDS OsdLifecycle, TLAPS

\* Steps of an add that has its row, and of a removal that has renamed the marker,
\* and that has killed the process.
Recorded == Adding \ {"record"}
Suppressed == Removing \ {"look", "suppress"}
Killed == Suppressed \ {"kill"}
Sound(o) == o \notin leaked /\ o \notin raced

OsdType ==
    /\ row \in [Osds -> Paths] /\ nextId \in Nat \ {0}
    /\ dir \in [Osds -> {"none", "made", "ready", "suppressed"}]
    /\ dev \in [Osds -> Disks \cup {"none", "file"}]
    /\ proc \in [Osds -> {"none", "starting", "running"}] /\ spawning \in Osds \cup {0}
    /\ map \in [Osds -> {"absent", "down", "up"}]
    /\ at \in Adding \cup Removing \cup {"idle"}
    /\ osd \in Osds \cup {0} /\ osd < nextId
    /\ at \in {"idle", "record"} <=> osd = 0

\* Rows: a path is taken once, and the row of an add has the path of the add.
RowInv ==
    /\ \A o, p \in Osds : row[o] = row[p] /\ row[o] \notin {"none", "file"} => o = p
    /\ \A o \in Osds : dev[o] \in Disks => row[o] \in {"none", dev[o]}
    /\ at = "record" => path \in Disks \cup {"empty"} /\ nextId <= MaxOsds
    /\ at \in Recorded => /\ row[osd] # "none" /\ path \in Disks \cup {"empty", "file", "mapper"}
                          /\ path \in Disks \cup {"empty"} => row[osd] = path
    /\ at = "prepare" => path \in Disks \cup {"empty"}

\* The directory of the OSD the call is about.
DirInv ==
    /\ at = "prepare" => dir[osd] = "none"
    /\ at = "mkfs" => dir[osd] = "made"
    /\ at \in Recorded => dir[osd] # "suppressed"
    /\ at = "forget" => dir[osd] = "none" \/ osd \in leaked
    /\ at \in Suppressed => dir[osd] # "ready"
    /\ at = "delete" => dir[osd] = "none"

\* Who answers for a renamed marker.
HeldInv ==
    /\ \A o \in Osds : dir[o] = "suppressed" /\ o \notin held => osd = o /\ at \in Suppressed
    /\ at \in Committed => osd \in held
    /\ at \in Suppressed \ Committed /\ dir[osd] = "suppressed" => auto

\* Without a marker, and after killOSD, no process runs.
ProcInv ==
    /\ \A o \in Osds : Sound(o) /\ dir[o] \in {"none", "made"} => proc[o] = "none"
    /\ at \in Killed => proc[osd] = "none" \/ osd \in raced

\* What the monitors know of an OSD that was never started, or is purged.
MonInv ==
    /\ \A o \in Osds : o >= nextId =>
          /\ Sound(o) /\ row[o] = "none" /\ dir[o] = "none"
          /\ o \notin tree /\ o \notin boot /\ map[o] = "absent"
    /\ at \in Recorded /\ dir[osd] \in {"none", "made"} /\ Sound(osd) =>
          osd \notin tree /\ osd \notin boot /\ map[osd] = "absent"
    /\ at \in {"mapcheck", "verify", "clear", "rmdir", "delete"} => osd \notin tree \/ osd \in raced
    /\ at \in {"clear", "rmdir", "delete"} => map[osd] = "absent" \/ osd \in late \/ osd \in raced
    /\ \A o \in Osds : row[o] = "none" /\ Sound(o) =>
          dir[o] = "none" /\ o \notin tree /\ (map[o] = "absent" \/ o \in late)

OsdInv == OsdType /\ RowInv /\ DirInv /\ HeldInv /\ ProcInv /\ MonInv

\* OsdInv holds before the first call.
LEMMA OsdInitInv == Init => OsdInv
  BY OsdConstants DEF Init, OsdInv, OsdType, RowInv, DirInv, HeldInv, ProcInv, MonInv, Sound, Osds, Paths,
      Adding, Removing, Committed, Recorded, Suppressed, Killed

\* Every step keeps the types, and the id of a call is one that was handed out.
LEMMA TypeStep ==
  ASSUME OsdInv, Next
  PROVE  OsdType'
<1> USE OsdConstants DEF OsdInv, OsdType, Osds, Paths, Adding, Removing,
        dbVars, hostVars, monVars, callVars, seenVars, Go, End
<1>1. CASE \E p \in Disks \cup {"empty"} : AddBegin(p)
  BY <1>1 DEF AddBegin
<1>2. CASE AddStep
  <2>1. CASE createDiskRecord
    <3>1. CASE End /\ UNCHANGED <<dbVars, dev>>
      BY <2>1, <3>1 DEF createDiskRecord
    <3>2. CASE /\ ~Taken(path) /\ row' = [row EXCEPT ![nextId] = path]
               /\ dev' = [dev EXCEPT ![nextId] = IF path = "empty" THEN "file" ELSE path]
               /\ osd' = nextId /\ nextId' = nextId + 1 /\ at' = "prepare" /\ path' = path
      <4>1. nextId \in Osds /\ path \in Disks \cup {"empty"}
        BY <2>1 DEF createDiskRecord, RowInv
      <4> QED
        BY <2>1, <3>2, <4>1 DEF createDiskRecord
    <3> QED
      BY <2>1, <3>1, <3>2 DEF createDiskRecord
  <2>2. CASE prepareOSDData
    BY <2>2, SMTT(60) DEF prepareOSDData
  <2>3. CASE bootstrapOSD \/ spawnOSD \/ RevertFiles
    BY <2>3 DEF bootstrapOSD, spawnOSD, RevertFiles
  <2>4. CASE RevertRow
    BY <2>4 DEF RevertRow
  <2> QED
    BY <1>2, <2>1, <2>2, <2>3, <2>4, ZenonT(60) DEF AddStep
<1>3. CASE \E o \in Osds : RemoveBegin(o)
  BY <1>3 DEF RemoveBegin, MonInv
<1>4. CASE RemoveStep
  <2>1. CASE Look \/ suppressOSDAutostart
    BY <2>1 DEF Look, suppressOSDAutostart, Refused
  <2>5. CASE killOSD
    BY <2>5 DEF killOSD, Abandoned
  <2>2. CASE downOSD \/ Recheck \/ MapCheck
    BY <2>2 DEF downOSD, Recheck, MapCheck, Abandoned, Commit, Down
  <2>3. CASE safetyCheckDestroy \/ doPurge \/ purgeOSD
    BY <2>3 DEF safetyCheckDestroy, doPurge, purgeOSD, Refused, Down
  <2>4. CASE Clear \/ removeOSDConfig \/ DeleteRow
    BY <2>4 DEF Clear, removeOSDConfig, DeleteRow, Refused
  <2> QED
    BY <1>4, <2>1, <2>2, <2>3, <2>4, <2>5, ZenonT(60) DEF RemoveStep
<1>5. CASE \E o \in Osds : World(o)
  BY <1>5, SMTT(60) DEF World, SpawnCheck, Register, Reboot, CommitBoot, LoseBoot, Die
<1>6. CASE SpawnExec \/ Crash
  BY <1>6 DEF SpawnExec, Crash
<1> QED
  BY <1>1, <1>2, <1>3, <1>4, <1>5, <1>6, ZenonT(60) DEF Next

\* createDiskRecord refuses a path that is taken, and the revert hook only
\* deletes the row of its own add.
LEMMA RowStep ==
  ASSUME OsdInv, Next
  PROVE  RowInv'
<1> USE OsdConstants DEF OsdInv, OsdType, RowInv, Osds, Paths, Adding, Removing, Recorded,
        dbVars, hostVars, monVars, callVars, seenVars, Go, End
<1>1. CASE \E p \in Disks \cup {"empty"} : AddBegin(p)
  BY <1>1 DEF AddBegin
<1>2. CASE AddStep
  <2>1. CASE createDiskRecord
    <3>1. CASE End /\ UNCHANGED <<dbVars, dev>>
      BY <2>1, <3>1 DEF createDiskRecord
    <3>2. CASE /\ ~Taken(path) /\ row' = [row EXCEPT ![nextId] = path]
               /\ dev' = [dev EXCEPT ![nextId] = IF path = "empty" THEN "file" ELSE path]
               /\ osd' = nextId /\ nextId' = nextId + 1 /\ at' = "prepare" /\ path' = path
      <4>1. nextId \in Osds /\ path \in Disks \cup {"empty"}
        BY <2>1 DEF createDiskRecord, RowInv
      <4> QED
        BY <2>1, <3>2, <4>1 DEF createDiskRecord, Taken, MonInv
    <3> QED
      BY <2>1, <3>1, <3>2 DEF createDiskRecord
  <2>2. CASE prepareOSDData
    BY <2>2 DEF prepareOSDData
  <2>3. CASE bootstrapOSD \/ spawnOSD \/ RevertFiles
    BY <2>3 DEF bootstrapOSD, spawnOSD, RevertFiles
  <2>4. CASE RevertRow
    BY <2>4, SMTT(60) DEF RevertRow
  <2> QED
    BY <1>2, <2>1, <2>2, <2>3, <2>4, ZenonT(60) DEF AddStep
<1>3. CASE \E o \in Osds : RemoveBegin(o)
  BY <1>3, SMTT(60) DEF RemoveBegin
<1>4. CASE RemoveStep
  <2>1. CASE Look \/ suppressOSDAutostart
    BY <2>1 DEF Look, suppressOSDAutostart, Refused
  <2>5. CASE killOSD
    BY <2>5, SMTT(60) DEF killOSD, Abandoned
  <2>2. CASE downOSD \/ Recheck \/ MapCheck
    BY <2>2, SMTT(60) DEF downOSD, Recheck, MapCheck, Abandoned, Commit
  <2>3. CASE safetyCheckDestroy \/ doPurge \/ purgeOSD
    BY <2>3 DEF safetyCheckDestroy, doPurge, purgeOSD, Refused
  <2>4. CASE Clear \/ removeOSDConfig
    BY <2>4 DEF Clear, removeOSDConfig, Refused
  <2>6. CASE DeleteRow
    BY <2>6, SMTT(60) DEF DeleteRow, Refused
  <2> QED
    BY <1>4, <2>1, <2>2, <2>3, <2>4, <2>5, <2>6, ZenonT(60) DEF RemoveStep
<1>5. CASE \E o \in Osds : World(o)
  BY <1>5 DEF World, SpawnCheck, Register, Reboot, CommitBoot, LoseBoot, Die
<1>6. CASE SpawnExec \/ Crash
  BY <1>6 DEF SpawnExec, Crash
<1> QED
  BY <1>1, <1>2, <1>3, <1>4, <1>5, <1>6, ZenonT(60) DEF Next

\* The directory follows the call: a removal that has renamed the marker keeps it so.
LEMMA DirStep ==
  ASSUME OsdInv, Next
  PROVE  DirInv'
<1> USE OsdConstants DEF OsdInv, OsdType, DirInv, Recorded, Suppressed,
        Osds, Adding, Removing, dbVars, hostVars, monVars, callVars, seenVars, Go, End
<1>1. CASE \E p \in Disks \cup {"empty"} : AddBegin(p)
  BY <1>1 DEF AddBegin
<1>2. CASE createDiskRecord
  BY <1>2 DEF createDiskRecord, RowInv, MonInv
<1>3. CASE prepareOSDData \/ bootstrapOSD \/ spawnOSD
  BY <1>3 DEF prepareOSDData, bootstrapOSD, spawnOSD, DirInv
<1>4. CASE RevertFiles \/ RevertRow
  BY <1>4 DEF RevertFiles, RevertRow, DirInv
<1>5. CASE \E o \in Osds : RemoveBegin(o)
  BY <1>5 DEF RemoveBegin
<1>6. CASE Look \/ suppressOSDAutostart
  BY <1>6 DEF Look, suppressOSDAutostart, Refused
<1>7. CASE killOSD
  BY <1>7, SMTT(60) DEF killOSD, Abandoned
<1>8. CASE downOSD \/ Recheck \/ MapCheck
  BY <1>8, SMTT(60) DEF downOSD, Recheck, MapCheck, Abandoned, Commit
<1>9. CASE safetyCheckDestroy \/ doPurge \/ purgeOSD
  BY <1>9, SMTT(60) DEF safetyCheckDestroy, doPurge, purgeOSD, Refused
<1>10. CASE Clear \/ removeOSDConfig \/ DeleteRow
  BY <1>10, SMTT(60) DEF Clear, removeOSDConfig, DeleteRow, Refused, DirInv
<1>11. CASE \E o \in Osds : World(o)
  BY <1>11 DEF World, SpawnCheck, Register, Reboot, CommitBoot, LoseBoot, Die
<1>12. CASE SpawnExec
  BY <1>12 DEF SpawnExec, DirInv
<1>13. CASE Crash
  BY <1>13, SMTT(60) DEF Crash
<1> QED
  BY <1>1, <1>2, <1>3, <1>4, <1>5, <1>6, <1>7, <1>8, <1>9, <1>10, <1>11, <1>12, <1>13, ZenonT(60)
     DEF Next, AddStep, RemoveStep

\* An error before the commit gives the marker back (restoreOSDAutostart).
LEMMA HeldStep ==
  ASSUME OsdInv, Next
  PROVE  HeldInv'
<1> USE OsdConstants DEF OsdInv, OsdType, HeldInv, Suppressed, Committed,
        Osds, Adding, Removing, dbVars, hostVars, monVars, callVars, seenVars, Go, End
<1>1. CASE \E p \in Disks \cup {"empty"} : AddBegin(p)
  BY <1>1 DEF AddBegin
<1>2. CASE createDiskRecord
  BY <1>2, SMTT(60) DEF createDiskRecord, RowInv, MonInv
<1>3. CASE prepareOSDData \/ bootstrapOSD \/ spawnOSD
  BY <1>3 DEF prepareOSDData, bootstrapOSD, spawnOSD, DirInv
<1>4. CASE RevertFiles \/ RevertRow
  BY <1>4, ZenonT(60) DEF RevertFiles, RevertRow, DirInv
<1>5. CASE \E o \in Osds : RemoveBegin(o)
  BY <1>5 DEF RemoveBegin
<1>6. CASE Look \/ suppressOSDAutostart
  BY <1>6, ZenonT(60) DEF Look, suppressOSDAutostart, Refused
<1>7. CASE killOSD
  BY <1>7, SMTT(60) DEF killOSD, Abandoned
<1>8. CASE downOSD \/ Recheck \/ MapCheck
  BY <1>8, SMTT(60) DEF downOSD, Recheck, MapCheck, Abandoned, Commit
<1>9. CASE safetyCheckDestroy \/ doPurge \/ purgeOSD
  BY <1>9 DEF safetyCheckDestroy, doPurge, purgeOSD, Refused
<1>10. CASE Clear \/ removeOSDConfig \/ DeleteRow
  <2>1. CASE Clear \/ removeOSDConfig
    BY <2>1 DEF Clear, removeOSDConfig, Refused
  <2>2. CASE DeleteRow
    BY <2>2 DEF DeleteRow, Refused, DirInv
  <2> QED
    BY <1>10, <2>1, <2>2
<1>11. CASE \E o \in Osds : World(o)
  <2>1. PICK o \in Osds : World(o)
    BY <1>11
  <2>2. CASE Register(o) \/ Die(o)
    BY <2>2, SMTT(60) DEF Register, Die
  <2>3. CASE SpawnCheck(o) \/ Reboot(o) \/ CommitBoot(o) \/ LoseBoot(o)
    BY <2>3 DEF SpawnCheck, Reboot, CommitBoot, LoseBoot
  <2> QED
    BY <2>1, <2>2, <2>3, ZenonT(60) DEF World
<1>12. CASE SpawnExec
  BY <1>12 DEF SpawnExec, DirInv
<1>13. CASE Crash
  BY <1>13, SMTT(60) DEF Crash
<1> QED
  BY <1>1, <1>2, <1>3, <1>4, <1>5, <1>6, <1>7, <1>8, <1>9, <1>10, <1>11, <1>12, <1>13, ZenonT(60)
     DEF Next, AddStep, RemoveStep

\* A process is started only where a marker is, or was when the script looked.
LEMMA ProcStep ==
  ASSUME OsdInv, Next
  PROVE  ProcInv'
<1> USE OsdConstants DEF OsdInv, OsdType, ProcInv, Recorded, Suppressed, Killed, Sound,
        Osds, Adding, Removing, dbVars, hostVars, monVars, callVars, seenVars, Go, End
<1>1. CASE \E p \in Disks \cup {"empty"} : AddBegin(p)
  BY <1>1, SMTT(60) DEF AddBegin
<1>2. CASE createDiskRecord
  BY <1>2, SMTT(60) DEF createDiskRecord, RowInv, MonInv
<1>3. CASE prepareOSDData \/ bootstrapOSD \/ spawnOSD
  BY <1>3 DEF prepareOSDData, bootstrapOSD, spawnOSD, DirInv
<1>4. CASE RevertFiles \/ RevertRow
  BY <1>4, SMTT(60) DEF RevertFiles, RevertRow, DirInv
<1>5. CASE \E o \in Osds : RemoveBegin(o)
  BY <1>5 DEF RemoveBegin
<1>6. CASE Look \/ suppressOSDAutostart
  BY <1>6 DEF Look, suppressOSDAutostart, Refused
<1>7. CASE killOSD
  <2>1. CASE proc' = [proc EXCEPT ![osd] = "none"] /\ at' = "down" /\ UNCHANGED <<dir, osd>>
    BY <1>7, <2>1 DEF killOSD
  <2>2. CASE Abandoned /\ proc' \in {proc, [proc EXCEPT ![osd] = "none"]}
    BY <1>7, <2>2 DEF killOSD, Abandoned
  <2> QED
    BY <1>7, <2>1, <2>2 DEF killOSD
<1>8. CASE downOSD \/ Recheck \/ MapCheck
  <2>1. CASE downOSD
    BY <2>1 DEF downOSD, Abandoned, Commit
  <2>2. CASE Recheck
    BY <2>2 DEF Recheck, Abandoned, Commit
  <2>3. CASE MapCheck
    BY <2>3, SMTT(60) DEF MapCheck, Abandoned, Commit
  <2> QED
    BY <1>8, <2>1, <2>2, <2>3
<1>9. CASE safetyCheckDestroy \/ doPurge \/ purgeOSD
  BY <1>9, SMTT(60) DEF safetyCheckDestroy, doPurge, purgeOSD, Refused
<1>10. CASE Clear \/ removeOSDConfig \/ DeleteRow
  BY <1>10, SMTT(60) DEF Clear, removeOSDConfig, DeleteRow, Refused, DirInv
<1>11. CASE \E o \in Osds : World(o)
  <2>1. PICK o \in Osds : World(o)
    BY <1>11
  <2>2. CASE Register(o)
    BY <2>2 DEF Register
  <2>4. CASE Die(o)
    BY <2>4, SMTT(60) DEF Die
  <2>3. CASE SpawnCheck(o) \/ Reboot(o) \/ CommitBoot(o) \/ LoseBoot(o)
    BY <2>3 DEF SpawnCheck, Reboot, CommitBoot, LoseBoot
  <2> QED
    BY <2>1, <2>2, <2>3, <2>4, ZenonT(60) DEF World
<1>12. CASE SpawnExec
  BY <1>12 DEF SpawnExec, DirInv
<1>13. CASE Crash
  BY <1>13, SMTT(60) DEF Crash
<1> QED
  BY <1>1, <1>2, <1>3, <1>4, <1>5, <1>6, <1>7, <1>8, <1>9, <1>10, <1>11, <1>12, <1>13, ZenonT(60)
     DEF Next, AddStep, RemoveStep

\* What purgeOSD verified stays so until the row is deleted, late boots apart.
LEMMA MonStep ==
  ASSUME OsdInv, Next
  PROVE  MonInv'
<1> USE OsdConstants DEF OsdInv, OsdType, MonInv, Osds, Paths, Adding, Removing, Recorded,
        Suppressed, Killed, Committed, Sound, dbVars, hostVars, monVars, callVars, seenVars, Go, End
<1>1. CASE \E p \in Disks \cup {"empty"} : AddBegin(p)
  BY <1>1, SMTT(60) DEF AddBegin
<1>2. CASE AddStep
  <2>1. CASE createDiskRecord
    <3>1. CASE End /\ UNCHANGED <<dbVars, dev>>
      BY <2>1, <3>1, SMTT(60) DEF createDiskRecord
    <3>2. CASE /\ ~Taken(path) /\ row' = [row EXCEPT ![nextId] = path]
               /\ dev' = [dev EXCEPT ![nextId] = IF path = "empty" THEN "file" ELSE path]
               /\ osd' = nextId /\ nextId' = nextId + 1 /\ at' = "prepare" /\ path' = path
      <4>1. nextId \in Osds /\ path \in Disks \cup {"empty"}
        BY <2>1, SMTT(60) DEF createDiskRecord, RowInv
      <4> QED
        BY <2>1, <3>2, <4>1, SMTT(60) DEF createDiskRecord, MonInv
    <3> QED
      BY <2>1, <3>1, <3>2, SMTT(60) DEF createDiskRecord
  <2>2. CASE prepareOSDData
    BY <2>2, SMTT(60) DEF prepareOSDData, DirInv, RowInv
  <2>3. CASE bootstrapOSD \/ spawnOSD
    BY <2>3, SMTT(60) DEF bootstrapOSD, spawnOSD, DirInv, RowInv
  <2>4. CASE RevertFiles
    BY <2>4, SMTT(60) DEF RevertFiles, DirInv
  <2>5. CASE RevertRow
    BY <2>5, SMTT(60) DEF RevertRow, DirInv, RowInv
  <2> QED
    BY <1>2, <2>1, <2>2, <2>3, <2>4, <2>5, ZenonT(60) DEF AddStep
<1>3. CASE \E o \in Osds : RemoveBegin(o)
  BY <1>3, SMTT(60) DEF RemoveBegin
<1>4. CASE RemoveStep
  <2>1. CASE Look
    BY <2>1, SMTT(60) DEF Look, Refused
  <2>2. CASE suppressOSDAutostart
    BY <2>2, SMTT(60) DEF suppressOSDAutostart, Refused
  <2>3. CASE killOSD
    BY <2>3, SMTT(60) DEF killOSD, Abandoned
  <2>4. CASE downOSD
    BY <2>4, SMTT(60) DEF downOSD, Abandoned, Commit, Down
  <2>5. CASE Recheck
    BY <2>5, SMTT(60) DEF Recheck, Abandoned, Commit, Down
  <2>6. CASE MapCheck
    BY <2>6, SMTT(60) DEF MapCheck, Abandoned, Commit, Down
  <2>7. CASE safetyCheckDestroy
    BY <2>7, SMTT(60) DEF safetyCheckDestroy, Refused
  <2>8. CASE doPurge
    BY <2>8, SMTT(60) DEF doPurge, Refused, Down
  <2>9. CASE purgeOSD
    BY <2>9, SMTT(60) DEF purgeOSD, Refused, Down
  <2>10. CASE Clear
    BY <2>10, SMTT(60) DEF Clear, Refused
  <2>11. CASE removeOSDConfig
    BY <2>11, SMTT(60) DEF removeOSDConfig, Refused
  <2>12. CASE DeleteRow
    BY <2>12, SMTT(60) DEF DeleteRow, Refused, DirInv
  <2> QED
    BY <1>4, <2>1, <2>2, <2>3, <2>4, <2>5, <2>6, <2>7, <2>8, <2>9, <2>10, <2>11, <2>12, ZenonT(60) DEF RemoveStep
<1>5. ASSUME NEW o \in Osds, World(o)
      PROVE MonInv'
  <2>1. CASE SpawnCheck(o) \/ Reboot(o) \/ LoseBoot(o)
    BY <2>1, SMTT(60) DEF SpawnCheck, Reboot, LoseBoot
  <2>2. CASE Register(o)
    BY <2>2, SMTT(60) DEF Register, ProcInv
  <2>3. CASE CommitBoot(o)
    BY <2>3, SMTT(60) DEF CommitBoot
  <2>4. CASE Die(o)
    BY <2>4, SMTT(60) DEF Die
  <2> QED
    BY <1>5, <2>1, <2>2, <2>3, <2>4, ZenonT(60) DEF World
<1>6. CASE SpawnExec
  BY <1>6, SMTT(60) DEF SpawnExec
<1>7. CASE Crash
  BY <1>7 DEF Crash
<1> QED
  BY <1>1, <1>2, <1>3, <1>4, <1>5, <1>6, <1>7, ZenonT(60) DEF Next

\* Every step preserves OsdInv.
LEMMA OsdNextInv == OsdInv /\ [Next]_vars => OsdInv'
<1>1. CASE UNCHANGED vars
  BY <1>1 DEF vars, dbVars, hostVars, monVars, callVars, seenVars,
              OsdInv, OsdType, RowInv, DirInv, HeldInv, ProcInv, MonInv, Sound
<1> QED
  BY <1>1, TypeStep, RowStep, DirStep, HeldStep, ProcStep, MonStep, SMTT(60) DEF OsdInv

\* For every number of disks, OSDs and failures: the row of an OSD goes last, a
\* refused removal leaves it startable, and two OSDs never share a disk.
THEOREM OsdSafety == Spec => [](RowIsLast /\ RefusedStaysStartable /\ DiskIsNotShared)
<1>1. OsdInv => RowIsLast
  BY DEF OsdInv, ProcInv, MonInv, Sound, RowIsLast
<1>2. OsdInv => RefusedStaysStartable
  BY SMTT(60) DEF OsdInv, HeldInv, RefusedStaysStartable, Suppressed
<1>3. OsdInv => DiskIsNotShared
  <2> SUFFICES ASSUME OsdInv, NEW o \in Osds, NEW p \in Osds, o # p, dev[o] = dev[p], dev[o] \in Disks,
                      proc[o] # "none", proc[p] # "none"
               PROVE  {o, p} \cap (leaked \cup raced) # {}
    BY ZenonT(60) DEF DiskIsNotShared
  <2>1. ASSUME Sound(o), Sound(p)
        PROVE  FALSE
    <3>1. row[o] # "none" /\ row[p] # "none"
      BY <2>1 DEF OsdInv, ProcInv, MonInv
    <3>2. row[o] = dev[o] /\ row[p] = dev[o]
      BY <3>1 DEF OsdInv, RowInv
    <3> QED
      BY <3>2, OsdConstants DEF OsdInv, RowInv
  <2> QED
    BY <2>1, ZenonT(60) DEF Sound
<1> QED
  BY <1>1, <1>2, <1>3, OsdInitInv, OsdNextInv, PTL DEF Spec

\* purgeOSD is only reached by an OSD whose process killOSD has seen stop, for
\* every number of OSDs, unless the start script was ahead of the renaming.
THEOREM OsdPurge == Spec => PurgedIsStopped
<1>1. OsdInv /\ [Next]_vars =>
        [\A o \in Osds : map[o] # "absent" /\ map'[o] = "absent" => proc[o] = "none" \/ o \in raced]_vars
  <2> SUFFICES ASSUME OsdInv, Next, NEW o \in Osds, map[o] # "absent", map'[o] = "absent"
               PROVE  proc[o] = "none" \/ o \in raced
    OBVIOUS
  <2>1. at = "purge" /\ o = osd
    <3>2. CASE AddStep \/ SpawnExec \/ Crash \/ \E p \in Disks \cup {"empty"} : AddBegin(p)
      BY <3>2, SMTT(60) DEF AddStep, createDiskRecord, prepareOSDData, bootstrapOSD, spawnOSD, RevertFiles, RevertRow,
                  SpawnExec, Crash, AddBegin, monVars
    <3>3. CASE \E p \in Osds : RemoveBegin(p) \/ World(p)
      BY <3>3, SMTT(60) DEF RemoveBegin, World, SpawnCheck, Register, Reboot, CommitBoot, LoseBoot, Die, monVars,
                  OsdInv, OsdType
    <3>4. CASE RemoveStep
      BY <3>4, ZenonT(60) DEF RemoveStep, Look, suppressOSDAutostart, killOSD, downOSD, Recheck, MapCheck,
                  safetyCheckDestroy, doPurge, purgeOSD, Clear, removeOSDConfig, DeleteRow, Down, monVars,
                  OsdInv, OsdType
    <3> QED
      BY <3>2, <3>3, <3>4, ZenonT(60) DEF Next
  <2> QED
    BY <2>1 DEF OsdInv, ProcInv, Killed, Suppressed, Removing
<1> QED
  BY <1>1, OsdInitInv, OsdNextInv, PTL DEF Spec, PurgedIsStopped

\* DeleteRow comes last: an OSD without a row has left nothing behind.
THEOREM OsdRowIsLast == Spec => []RowIsLast
  BY OsdSafety, PTL

\* Abandoned gives the marker back: a removal refused before its commit leaves an
\* OSD that the start script starts again.
THEOREM OsdStaysStartable == Spec => []RefusedStaysStartable
  BY OsdSafety, PTL

\* A device is free for another add only when the process on it is gone.
THEOREM OsdDiskIsNotShared == Spec => []DiskIsNotShared
  BY OsdSafety, PTL
=============================================================================
