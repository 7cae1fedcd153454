---------------------------- MODULE AuxPartitions ---------------------------
(***************************************************************************)
(* The WAL and DB partitions that microceph cuts for its OSDs              *)
(* (ceph/osd_waldb.go): planning them from the kernel's inventory, cutting *)
(* them into the partition table of a carrier, recording them in the       *)
(* manifest of the OSD, and taking them back when the addition fails or    *)
(* the OSD is removed. The mutex of api/disks.go lets one request at a     *)
(* time run on a member; it may fail or be cut off after any step, and a   *)
(* slot is soon used again by another OSD.                                 *)
(***************************************************************************)
EXTENDS Naturals, FiniteSets, Sequences, FiniteSetsExt, SequencesExt

CONSTANTS
    Osds,         \* ids, a set of numbers
    Carriers,     \* numbers, in the order of their stable paths
    Slots,        \* 1..n
    Size,         \* partitions that fit on a carrier
    Requests,     \* matched disks, WAL and DB carriers, --wal-wipe/--db-wipe
    Starts,       \* partition tables, manifests and links to start from
    MaxTroubles   \* failing steps, unplugged carriers, crashes

Uuids == 1 .. 4 * Cardinality(Osds) + Cardinality(Slots) * Cardinality(Carriers) + 2
None == [c |-> 0, slot |-> 0, uuid |-> 0]
NoAux == [wal |-> None, db |-> None]
Kinds == {"wal", "db"}

VARIABLES
    present,   \* carriers that are plugged in
    label,     \* what a carrier holds: nothing, other data, or a partition table
    gpt,       \* the table on disk: PARTUUIDs by slot, 0 when free
    kern,      \* per carrier: the partitions the kernel knows, by slot
    foreign,   \* partitions that belong to somebody else
    row,       \* OSDs in the database
    purged,    \* OSDs of them that Ceph has given up
    manifest,  \* generated-aux-devices.json; uuid 0 in an entry of an old version
    link,      \* block.wal and block.db, and the partition they were formatted on
    at, todo, gen, rm,   \* step, rest of the plan, generatedAux, OSD being removed
    target,    \* partition being created or deleted
    then,      \* what the deletion belongs to
    troubles,
    leaked     \* partitions an error message or a crash has left to the operator

diskVars == <<present, label, gpt, kern, foreign>>
osdVars == <<row, purged, manifest, link>>
callVars == <<at, todo, gen, rm, target, then>>
vars == <<diskVars, osdVars, callVars, troubles, leaked>>

Free == [s \in Slots |-> 0]

Init ==
    /\ present = Carriers /\ purged = {}
    /\ \E start \in Starts :
          /\ label = start.label /\ gpt = start.gpt /\ foreign = start.foreign
          /\ row = start.row /\ manifest = start.manifest /\ link = start.link
          /\ kern = start.gpt
    /\ at = "idle" /\ todo = <<>> /\ gen = NoAux /\ rm = 0 /\ target = None /\ then = "none"
    /\ troubles = 0 /\ leaked = {}

Trouble == troubles < MaxTroubles /\ troubles' = troubles + 1
End ==
    /\ at' = "idle" /\ todo' = <<>> /\ gen' = NoAux /\ rm' = 0
    /\ target' = None /\ then' = "none"
Go(s) == at' = s /\ UNCHANGED <<todo, gen, rm, target, then>>
Used(t) == {s \in Slots : t[s] # 0}
InUse ==
    UNION {{kern[c][s], gpt[c][s]} : c \in Carriers, s \in Slots}
        \cup UNION {{e.wal.uuid, e.db.uuid} : e \in {manifest[o] : o \in Osds}
                                               \cup {link[o] : o \in Osds} \cup {gen}}
        \cup leaked \cup foreign
-----------------------------------------------------------------------------
(* Planning, from the storage inventory: what the kernel knows. *)

\* collectLocalAuxDiskUsage: a link of an OSD's directory resolves to a
\* partition of the carrier.
HasAux(c) ==
    \E o \in Osds, k \in Kinds : link[o][k].c = c /\ kern[c][link[o][k].slot] # 0

\* IsPristineDisk, of a whole disk without partitions: nothing is on it, not
\* even an empty partition table.
IsPristineDisk(c) == label[c] = "blank"

\* auxiliaryDiskCandidateDisposition.
Eligible(c, wipe) ==
    IF Used(kern[c]) = {} THEN wipe \/ IsPristineDisk(c) ELSE HasAux(c) \/ wipe
Reset(c, wipe) == wipe /\ ~HasAux(c)

\* The first slot from a number on that is not occupied.
nextPartitionNumber(occupied, from) ==
    Min({s \in from .. (from + Cardinality(occupied)) : s \notin occupied})

\* planAuxiliaryPartitionsDetailed: n partitions, each on the carrier with
\* room that has the fewest, the first by path among those.
Carrier(c, wipe) ==
    LET kept == IF Reset(c, wipe) THEN {} ELSE Used(kern[c])
    IN  [c |-> c, kept |-> kept, no |-> nextPartitionNumber(kept, 1),
         cnt |-> Cardinality(kept), reset |-> Reset(c, wipe),
         room |-> IF Size[c] > Cardinality(kept) THEN Size[c] - Cardinality(kept) ELSE 0]
Choice(states) ==
    CHOOSE x \in states :
        /\ x.room > 0
        /\ \A y \in states : y.room > 0 => x.cnt < y.cnt \/ (x.cnt = y.cnt /\ x.c <= y.c)
PlanOne(p, i) ==
    IF ~p.ok \/ \A x \in p.states : x.room = 0 THEN [p EXCEPT !.ok = FALSE]
    ELSE LET x == Choice(p.states) IN
         [p EXCEPT !.parts = Append(@, [c |-> x.c, slot |-> x.no, reset |-> x.reset,
                                        init |-> x.cnt = 0]),
                   !.states = (@ \ {x}) \cup
                       {[x EXCEPT !.no = nextPartitionNumber(x.kept, x.no + 1),
                                  !.cnt = @ + 1, !.room = @ - 1, !.reset = FALSE]}]
planAuxiliaryPartitionsDetailed(n, cs, wipe) ==
    FoldLeft(PlanOne, [ok |-> TRUE, parts |-> <<>>,
                       states |-> {Carrier(c, wipe) : c \in cs}], [i \in 1..n |-> i])
\* buildDSLProvisionPlan: the carriers of both kinds are apart, and room is
\* found for every matched disk or the request is refused.
Planned(plan, i) == IF plan = <<>> THEN [c |-> 0, slot |-> 0, reset |-> FALSE, init |-> FALSE]
                    ELSE plan[i]
buildDSLProvisionPlan(r) ==
    LET On(cs) == {c \in cs \cap present : Eligible(c, r.wipe)}
        wal == planAuxiliaryPartitionsDetailed(r.n, On(r.wal), r.wipe)
        db == planAuxiliaryPartitionsDetailed(r.n, On(r.db), r.wipe)
        Fits(cs, p) == On(cs) = {} \/ p.ok
        Parts(cs, p) == IF On(cs) = {} THEN <<>> ELSE p.parts
    IN  IF On(r.wal) \cap On(r.db) = {} /\ Fits(r.wal, wal) /\ Fits(r.db, db)
        THEN [i \in 1 .. r.n |-> [wal |-> Planned(Parts(r.wal, wal), i),
                                  db |-> Planned(Parts(r.db, db), i)]]
        ELSE <<>>

AddBegin(r) ==
    /\ at = "idle" /\ r.n <= Cardinality(Osds \ row)
    /\ buildDSLProvisionPlan(r) # <<>>
    /\ todo' = buildDSLProvisionPlan(r) /\ at' = "next"
    /\ UNCHANGED <<diskVars, osdVars, gen, rm, target, then, troubles, leaked>>
-----------------------------------------------------------------------------
(* executeDSLProvisionPlan and createPlannedAuxPartition. *)

Missing == {k \in Kinds : Head(todo)[k].c # 0 /\ gen[k] = None}
Kind == IF "wal" \in Missing THEN "wal" ELSE "db"
Plan == Head(todo)[Kind]

\* A partition that cannot be created ends the request; the WAL partition made
\* for the same OSD is taken back.
Clean(e, why) ==
    /\ at' = "clean" /\ target' = e /\ then' = why /\ UNCHANGED <<todo, gen, rm>>
CreationEnds == End
CreationFailed == IF gen.wal # None THEN Clean(gen.wal, "wal") ELSE End

\* The carrier is locked and its table read; it is reset or given a new table
\* when the plan says so.
Prepare ==
    /\ at = "next" /\ Missing # {}
    /\ \/ /\ \/ Trouble
             \/ /\ UNCHANGED troubles
                /\ \/ Plan.c \notin present
                   \/ Plan.init /\ ~Plan.reset /\ Used(gpt[Plan.c]) # {}
          /\ CreationFailed /\ UNCHANGED <<label, gpt, kern, leaked>>
       \/ /\ Trouble /\ Plan.reset /\ Plan.c \in present /\ CreationFailed  \* wiped, no new table
          /\ label' = [label EXCEPT ![Plan.c] = "blank"]
          /\ gpt' = [gpt EXCEPT ![Plan.c] = Free] /\ leaked' = leaked \ Range(gpt[Plan.c])
          /\ UNCHANGED kern
       \/ /\ Plan.c \in present /\ (Plan.init /\ ~Plan.reset => Used(gpt[Plan.c]) = {})
          /\ IF Plan.init \/ Plan.reset
             THEN /\ label' = [label EXCEPT ![Plan.c] = "gpt"]
                  /\ gpt' = [gpt EXCEPT ![Plan.c] = Free] /\ kern' = [kern EXCEPT ![Plan.c] = Free]
                  /\ leaked' = leaked \ Range(gpt[Plan.c])
             ELSE UNCHANGED <<label, gpt, kern, leaked>>
          /\ Go("create") /\ UNCHANGED troubles
    /\ UNCHANGED <<present, foreign, osdVars>>

\* checkAllocationSlot, and a partition in the first free slot of the table; a
\* kernel entry left there has to go first.
checkAllocationSlot(p) ==
    label[p.c] = "gpt" /\ nextPartitionNumber(Used(gpt[p.c]), 1) = p.slot
Create ==
    /\ at = "create"
    /\ \/ /\ \/ Trouble
             \/ UNCHANGED troubles /\ (Plan.c \in present /\ Plan.slot \in Slots
                                        => ~checkAllocationSlot(Plan))
          /\ CreationFailed /\ UNCHANGED <<gpt, kern>>
       \/ /\ Plan.c \in present /\ Plan.slot \in Slots /\ checkAllocationSlot(Plan)
          /\ LET u == Min(Uuids \ InUse) IN
             /\ gpt' = [gpt EXCEPT ![Plan.c][Plan.slot] = u]
             /\ kern' = [kern EXCEPT ![Plan.c][Plan.slot] = 0]
             /\ target' = [c |-> Plan.c, slot |-> Plan.slot, uuid |-> u]
          /\ at' = "publish" /\ UNCHANGED <<todo, gen, rm, then, troubles>>
    /\ UNCHANGED <<present, label, foreign, osdVars, leaked>>

\* partx -u; the partition is deleted again when it cannot be identified or
\* published.
Publish ==
    /\ at = "publish"
    /\ \/ /\ target.c \in present /\ kern' = [kern EXCEPT ![target.c][target.slot] = target.uuid]
          /\ Go("appear") /\ UNCHANGED troubles
       \/ /\ Trouble \/ (target.c \notin present /\ UNCHANGED troubles)
          /\ at' = "retract" /\ then' = "creation" /\ UNCHANGED <<todo, gen, rm, target, kern>>
    /\ UNCHANGED <<present, label, gpt, foreign, osdVars, leaked>>

\* The carrier is unlocked; udev makes the link in time or the partition is
\* cleaned up.
Appear ==
    /\ at = "appear"
    /\ \/ /\ target.c \in present /\ gen' = [gen EXCEPT ![Kind] = target]
          /\ at' = "next" /\ target' = None /\ UNCHANGED <<todo, rm, then, troubles>>
       \/ /\ Trouble \/ (target.c \notin present /\ UNCHANGED troubles)
          /\ Clean(target, "creation")
    /\ UNCHANGED <<diskVars, osdVars, leaked>>
\* doAddOSDWithStorage: the row, the directory with the manifest, and then the
\* OSD itself, formatted on what the kernel has in the slots. When that fails
\* setupRevert takes row and directory away before the partitions are cleaned.
NewId == Min(Osds \ row)
FirstOf(e) == IF e.wal # None THEN "wal" ELSE "db"
Undo == IF gen = NoAux THEN End ELSE Clean(gen[FirstOf(gen)], "undo")

Enrol ==
    /\ at = "next" /\ Missing = {}
    /\ \/ /\ row' = row \cup {NewId} /\ manifest' = [manifest EXCEPT ![NewId] = gen]
          /\ rm' = NewId /\ at' = "boot" /\ UNCHANGED <<todo, gen, target, then, troubles>>
       \/ Trouble /\ Undo /\ UNCHANGED <<row, manifest>>
    /\ UNCHANGED <<diskVars, purged, link, leaked>>

Readable(e) == e = None \/ (e.c \in present /\ kern[e.c][e.slot] # 0)
bootstrapOSD ==
    /\ at = "boot"
    /\ \/ /\ \A k \in Kinds : Readable(gen[k])
          /\ link' = [link EXCEPT ![rm] = [k \in Kinds |->
                         IF gen[k] = None THEN None
                         ELSE [gen[k] EXCEPT !.uuid = kern[gen[k].c][gen[k].slot]]]]
          /\ IF Len(todo) = 1 THEN End
             ELSE /\ todo' = Tail(todo) /\ gen' = NoAux /\ rm' = 0 /\ at' = "next"
                  /\ UNCHANGED <<target, then>>
          /\ UNCHANGED <<row, manifest, troubles>>
       \/ /\ Trouble \/ (UNCHANGED troubles /\ \E k \in Kinds : ~Readable(gen[k]))
          /\ row' = row \ {rm} /\ manifest' = [manifest EXCEPT ![rm] = NoAux]
          /\ Undo /\ UNCHANGED link
    /\ UNCHANGED <<diskVars, purged, leaked>>
-----------------------------------------------------------------------------
(* cleanupGeneratedAuxDevice and deletePartition. *)

\* What follows a deletion: the rest of an addition that failed, whose error
\* tells of what could not be deleted, or the next entry of a removal.
Tell(us) == leaked' = leaked \cup us
Forget(k) == [gen EXCEPT ![k] = None]
Done(ok) ==
    CASE then = "creation" -> CreationFailed /\ Tell(IF ok THEN {} ELSE {target.uuid})
      [] then = "wal" -> End /\ Tell(IF ok THEN {} ELSE {target.uuid})
      [] then = "undo" ->
            IF ~ok THEN End /\ Tell({gen.wal.uuid, gen.db.uuid} \ {0})
            ELSE LET rest == Forget(FirstOf(gen)) IN
                 /\ IF rest = NoAux THEN End
                    ELSE /\ at' = "clean" /\ target' = rest[FirstOf(rest)] /\ gen' = rest
                         /\ UNCHANGED <<todo, rm, then>>
                 /\ UNCHANGED leaked
      [] then = "removal" -> (IF ok THEN Go("persist") ELSE End) /\ UNCHANGED leaked
\* "Hot-unplug ... must not strand the OSD."
DiscardRefused == Done(FALSE)
Discard == Done(TRUE)
Cut(t, c, s) == [t EXCEPT ![c][s] = 0]

\* A carrier that is gone counts as cleaned, a partition that is gone too; one
\* with another identity is left alone, one without a recorded identity refused.
UntouchedNever == FALSE
Untouched == gpt[target.c][target.slot] # target.uuid
Check ==
    /\ at = "clean"
    /\ \/ /\ target.c \notin present /\ Discard /\ UNCHANGED <<kern, troubles>>
       \/ Trouble /\ target.c \in present /\ Done(FALSE) /\ UNCHANGED kern
       \/ /\ target.c \in present /\ gpt[target.c][target.slot] = 0
          /\ kern' = Cut(kern, target.c, target.slot) /\ Done(TRUE) /\ UNCHANGED troubles
       \/ /\ target.c \in present /\ gpt[target.c][target.slot] # 0
          /\ UNCHANGED troubles
          /\ CASE target.uuid = 0 -> Done(FALSE) /\ UNCHANGED kern
               [] target.uuid # 0 /\ Untouched -> Done(TRUE) /\ UNCHANGED kern
               [] OTHER -> /\ kern' = Cut(kern, target.c, target.slot)
                           /\ Go("cut") /\ UNCHANGED leaked
    /\ UNCHANGED <<present, label, gpt, foreign, osdVars>>

\* The rollback of createPlannedAuxPartition knows that the slot is its own.
Retract ==
    /\ at = "retract"
    /\ \/ /\ target.c \in present /\ kern' = Cut(kern, target.c, target.slot) /\ Go("cut")
          /\ UNCHANGED <<troubles, leaked>>
       \/ /\ Trouble \/ (target.c \notin present /\ UNCHANGED troubles)
          /\ Done(FALSE) /\ UNCHANGED kern
    /\ UNCHANGED <<present, label, gpt, foreign, osdVars>>

deletePartition ==
    /\ at = "cut"
    /\ \/ /\ target.c \in present /\ gpt' = Cut(gpt, target.c, target.slot)
          /\ Go("sync") /\ UNCHANGED <<troubles, leaked>>
       \/ /\ Trouble /\ target.c \in present /\ Done(FALSE) /\ UNCHANGED gpt
       \/ /\ target.c \notin present /\ Discard /\ UNCHANGED <<gpt, troubles>>
    /\ UNCHANGED <<present, label, kern, foreign, osdVars>>

\* A kernel entry that came back between the two deletions goes as well.
deleteKernelPartitionEntry ==
    /\ at = "sync"
    /\ \/ kern' = Cut(kern, target.c, target.slot) /\ Done(TRUE) /\ UNCHANGED troubles
       \/ Trouble /\ Done(target.c \notin present) /\ UNCHANGED kern
    /\ UNCHANGED <<present, label, gpt, foreign, osdVars>>

-----------------------------------------------------------------------------
(* doRemoveOSD, as far as it concerns the partitions. *)

RemoveBegin(o) ==
    /\ at = "idle" /\ o \in row /\ at' = "migrate" /\ rm' = o
    /\ UNCHANGED <<diskVars, osdVars, todo, gen, target, then, troubles, leaked>>

\* migrateGeneratedAuxManifest: an entry without identity gets that of the
\* partition in its slot, if the kernel knows the same one there and its label
\* is this OSD's; nothing is recorded for a partition that is gone.
Legacy(o) == {k \in Kinds : manifest[o][k].c # 0 /\ manifest[o][k].uuid = 0}
Slot(o, k) == gpt[manifest[o][k].c][manifest[o][k].slot]
Gone(o, k) == manifest[o][k].c \notin present \/ Slot(o, k) = 0
Verified(o, k) ==
    /\ kern[manifest[o][k].c][manifest[o][k].slot] = Slot(o, k)
    /\ link[o][k].uuid = Slot(o, k)
migrateGeneratedAuxManifest ==
    /\ at = "migrate"
    /\ \/ /\ \A k \in Legacy(rm) : Gone(rm, k) \/ Verified(rm, k)
          /\ manifest' = [manifest EXCEPT ![rm] = [k \in Kinds |->
                 IF k \in Legacy(rm) /\ ~Gone(rm, k) THEN [@[k] EXCEPT !.uuid = Slot(rm, k)]
                 ELSE @[k]]]
          /\ Go("purge") /\ UNCHANGED troubles
       \/ /\ \/ Trouble
             \/ UNCHANGED troubles /\ \E k \in Legacy(rm) : ~Gone(rm, k) /\ ~Verified(rm, k)
          /\ End /\ UNCHANGED manifest
    /\ UNCHANGED <<diskVars, row, purged, link, leaked>>

\* The checks of the removal, the process, Ceph: it may be refused up to here,
\* and no more once Ceph has purged the OSD.
CleanNext(e) == IF e = NoAux THEN Go("drop") ELSE Clean(e[FirstOf(e)], "removal")
Purge ==
    /\ at = "purge"
    /\ \/ purged' = purged \cup {rm} /\ CleanNext(manifest[rm])
       \/ rm \notin purged /\ End /\ UNCHANGED purged
    /\ UNCHANGED <<diskVars, row, manifest, link, troubles, leaked>>

\* cleanupGeneratedAuxDevices records every entry it is done with.
persistGeneratedAuxManifest ==
    /\ at = "persist"
    /\ \/ LET rest == [manifest[rm] EXCEPT ![FirstOf(manifest[rm])] = None] IN
          manifest' = [manifest EXCEPT ![rm] = rest] /\ CleanNext(rest) /\ UNCHANGED troubles
       \/ Trouble /\ End /\ UNCHANGED manifest
    /\ UNCHANGED <<diskVars, row, purged, link, leaked>>

\* The directory goes, then the row.
Drop ==
    /\ at = "drop" /\ End
    /\ link' = [link EXCEPT ![rm] = NoAux]
    /\ \/ row' = row \ {rm} /\ purged' = purged \ {rm} /\ UNCHANGED troubles
       \/ Trouble /\ UNCHANGED <<row, purged>>
    /\ UNCHANGED <<diskVars, manifest, leaked>>
-----------------------------------------------------------------------------
(* Around the daemon. *)

\* The daemon dies; what its request had cut but not recorded is left behind.
Crash ==
    /\ Trouble /\ at # "idle" /\ End
    /\ leaked' = leaked \cup
           ({gen.wal.uuid, gen.db.uuid, IF then \in {"none", "creation", "wal"}
                                        THEN target.uuid ELSE 0} \ {0})
    /\ UNCHANGED <<diskVars, osdVars>>

\* Something opens the carrier and the kernel reads its table again.
Reread(c) ==
    /\ c \in present /\ kern[c] # gpt[c]
    /\ kern' = [kern EXCEPT ![c] = gpt[c]]
    /\ UNCHANGED <<present, label, gpt, foreign, osdVars, callVars, troubles, leaked>>

Unplug(c) ==
    /\ Trouble /\ c \in present /\ present' = present \ {c}
    /\ kern' = [kern EXCEPT ![c] = Free]
    /\ UNCHANGED <<label, gpt, foreign, osdVars, callVars, leaked>>

Step ==
    \/ Prepare \/ Create \/ Publish \/ Appear \/ Enrol \/ bootstrapOSD
    \/ Check \/ Retract \/ deletePartition \/ deleteKernelPartitionEntry
    \/ migrateGeneratedAuxManifest \/ Purge \/ persistGeneratedAuxManifest \/ Drop

Next ==
    \/ \E r \in Requests : AddBegin(r)
    \/ \E o \in Osds : RemoveBegin(o)
    \/ Step \/ Crash
    \/ \E c \in Carriers : Reread(c) \/ Unplug(c)

Spec == Init /\ [][Next]_vars

\* The daemon finishes what it does, and the operator repeats a removal that
\* failed after the OSD was purged.
Again(o) == o \in purged /\ RemoveBegin(o)
FairSpec == Spec /\ WF_vars(Step) /\ \A o \in Osds : SF_vars(Again(o))
-----------------------------------------------------------------------------
Entries == [c : Carriers, slot : Slots, uuid : Uuids \cup {0}] \cup {None}
Plans == [c : Carriers \cup {0}, slot : Nat, reset : BOOLEAN, init : BOOLEAN]
\* Types; no OSD is formatted on a partition whose identity is not known.
AuxTypeOK ==
    /\ present \subseteq Carriers /\ label \in [Carriers -> {"blank", "data", "gpt"}]
    /\ gpt \in [Carriers -> [Slots -> Uuids \cup {0}]]
    /\ kern \in [Carriers -> [Slots -> Uuids \cup {0}]]
    /\ foreign \subseteq Uuids /\ leaked \subseteq Uuids
    /\ row \subseteq Osds /\ purged \subseteq row
    /\ manifest \in [Osds -> [Kinds -> Entries]] /\ link \in [Osds -> [Kinds -> Entries]]
    /\ \A o \in Osds, k \in Kinds : link[o][k] = None \/ link[o][k].uuid # 0
    /\ todo \in Seq([Kinds -> Plans]) /\ gen \in [Kinds -> Entries]
    /\ rm \in Osds \cup {0} /\ target \in Entries
    /\ at \in {"idle", "next", "create", "publish", "appear", "boot", "clean", "retract",
               "cut", "sync", "migrate", "purge", "persist", "drop"}
    /\ then \in {"none", "creation", "wal", "undo", "removal"}
    /\ troubles \in 0..MaxTroubles

Lives(u) == \E o \in row \ purged, k \in Kinds : link[o][k].uuid = u
\* No request deletes a partition that an OSD which is not being removed was
\* formatted on, nor the one it has just made for the OSD it adds, nor one of
\* somebody else on a carrier it was not told to wipe: "A later removal must
\* not trust this slot number after it has been freed and reused".
OthersAreKept ==
    [][ \A c \in Carriers, s \in Slots :
          LET u == gpt[c][s] IN
          u # 0 /\ gpt'[c][s] # u =>
              /\ ~Lives(u)
              /\ u \in foreign => at = "next" /\ Plan.reset
              /\ u \in {gen.wal.uuid, gen.db.uuid} => at = "cut" ]_vars

Recorded(c, s) ==
    \/ \E o \in Osds, k \in Kinds :
          manifest[o][k] \in {[c |-> c, slot |-> s, uuid |-> u] : u \in {0, gpt[c][s]}}
    \/ \E e \in {gen.wal, gen.db, target} : e.c = c /\ e.slot = s
\* Every partition microceph has cut is recorded by the manifest of an OSD or
\* is in the hands of the request at work, unless an error message or a crash
\* has left it to the operator: "rather than leave a partition that no
\* generated-device manifest records".
NothingIsForgotten ==
    \A c \in present, s \in Slots :
        gpt[c][s] # 0 => gpt[c][s] \in foreign \cup leaked \/ Recorded(c, s)

Manual(o) == \E k \in Legacy(o) : ~Gone(o, k)
\* Wherever a removal was cut off, repeating it finishes it, unless an entry of
\* an old version has no identity and its slot is in use ("manual cleanup
\* required").
RepeatedRemovalEnds == \A o \in Osds : []<>(o \notin purged \/ Manual(o))
=============================================================================
