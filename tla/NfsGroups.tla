------------------------------ MODULE NfsGroups ------------------------------
(***************************************************************************)
(* NFS Ganesha on the hosts of a cluster (ceph/nfs.go and                  *)
(* ceph/service_placement_nfs.go), grouped by the NFS cluster they serve   *)
(* (database/grouped_service*.go). Enabling goes through EnableService,    *)
(* which serviceStartMu serialises on a host; DisableNFS does not take the *)
(* mutex, so that the two can overlap. A failing step of EnableNFS undoes  *)
(* the steps before it; nothing undoes a start that cannot be recorded.    *)
(***************************************************************************)
EXTENDS Naturals, FiniteSets

CONSTANTS
    Hosts, Clusters,  \* Clusters: cluster IDs of NFS
    Versions,         \* values of v4_min_version
    MaxNfsRuns,       \* calls altogether
    MaxNfsTroubles    \* failing steps, crashes of microcephd, daemons that die

VARIABLES
    groups,     \* rows of service_groups: the configuration, or "none"
    grouped,    \* rows of grouped_services
    ganesha,    \* cluster and version in ganesha.conf, or <<>>
    cephConf,   \* hosts with a ganesha/ceph.conf
    keyring,    \* the cluster whose key is in ganesha/keyring, or "none"
    auth,       \* client keys in Ceph
    grace,      \* hosts in the shared grace database of a cluster
    serving,    \* cluster and version the daemon has been started with, or <<>>
    en, enWith, \* step and parameters of EnableService on a host
    dis, disOf, \* step and cluster of DisableNFS on a host
    nfsRuns, nfsTroubles,
    disturbed   \* history: hosts where calls overlapped, broke off or were repeated

rowVars == <<groups, grouped>>
hostVars == <<ganesha, cephConf, keyring, serving>>
enVars == <<en, enWith>>
disVars == <<dis, disOf>>
nfsCounts == <<nfsRuns, nfsTroubles>>
nfsVars == <<rowVars, hostVars, auth, grace, enVars, disVars, nfsCounts, disturbed>>

NfsInit ==
    /\ groups = [c \in Clusters |-> "none"] /\ grouped = {}
    /\ ganesha = [h \in Hosts |-> <<>>] /\ cephConf = {} /\ keyring = [h \in Hosts |-> "none"]
    /\ auth = {} /\ grace = {} /\ serving = [h \in Hosts |-> <<>>]
    /\ en = [h \in Hosts |-> "idle"] /\ enWith = [h \in Hosts |-> <<>>]
    /\ dis = [h \in Hosts |-> "idle"] /\ disOf = [h \in Hosts |-> "none"]
    /\ nfsRuns = 0 /\ nfsTroubles = 0 /\ disturbed = {}

NfsTrouble == nfsTroubles < MaxNfsTroubles /\ nfsTroubles' = nfsTroubles + 1 /\ UNCHANGED nfsRuns
NfsRun == nfsRuns < MaxNfsRuns /\ nfsRuns' = nfsRuns + 1 /\ UNCHANGED nfsTroubles
Disturb(h) == disturbed' = disturbed \cup {h}
EnGo(h, s) ==
    en' = [en EXCEPT ![h] = s]
    /\ enWith' = IF s = "idle" THEN [enWith EXCEPT ![h] = <<>>] ELSE enWith
DisGo(h, s) ==
    dis' = [dis EXCEPT ![h] = s]
    /\ disOf' = IF s = "idle" THEN [disOf EXCEPT ![h] = "none"] ELSE disOf
\* The client of a cluster on a host reaches RADOS with the files in ganesha/.
CanConnect(h, c) == h \in cephConf /\ keyring[h] = c /\ <<h, c>> \in auth
-----------------------------------------------------------------------------
(* database/grouped_service_extras.go: one transaction each. *)

GroupedServiceExists(h, c) == <<h, c>> \in grouped
GetGroupedServices(rows, c) == {h \in Hosts : <<h, c>> \in rows}
\* "conflicting service group configurations"
AddNewAllowed(h, c, v) == groups[c] \in {"none", v} /\ ~GroupedServiceExists(h, c)
AddNew(h, c, v) ==
    /\ AddNewAllowed(h, c, v)
    /\ groups' = [groups EXCEPT ![c] = IF @ = "none" THEN v ELSE @]
    /\ grouped' = grouped \cup {<<h, c>>}
RemoveForHost(h, c) ==
    /\ GroupedServiceExists(h, c) /\ grouped' = grouped \ {<<h, c>>}
    /\ groups' = [groups EXCEPT ![c] = IF GetGroupedServices(grouped', c) = {} THEN "none" ELSE @]
-----------------------------------------------------------------------------
(* EnableService with NFSServicePlacement. *)

\* HospitalityCheck: the port is free and the service not active.
EnableNfs(h, c, v) ==
    /\ en[h] = "idle" /\ NfsRun
    /\ IF serving[h] # <<>> THEN UNCHANGED enVars
       ELSE en' = [en EXCEPT ![h] = "files"] /\ enWith' = [enWith EXCEPT ![h] = <<c, v>>]
    /\ disturbed' = IF serving[h] = <<>> /\ (dis[h] # "idle" \/ \E k \in Clusters : <<h, k>> \in grouped)
                    THEN disturbed \cup {h} ELSE disturbed
    /\ UNCHANGED <<rowVars, hostVars, auth, grace, disVars>>

\* Mutant: the node stays in the grace database.
RevertWithoutGrace(h, c, done) ==
    /\ grace' = grace
    /\ auth' = IF "key" \in done THEN auth \ {<<h, c>>} ELSE auth
    /\ ganesha' = [ganesha EXCEPT ![h] = <<>>] /\ cephConf' = cephConf \ {h}
    /\ keyring' = [keyring EXCEPT ![h] = "none"]
\* revert.Fail: the steps that were done, in the opposite order; their errors
\* are only logged.
Revert(h, c, done) ==
    /\ grace' = IF "grace" \in done /\ CanConnect(h, c) THEN grace \ {<<h, c>>} ELSE grace
    /\ auth' = IF "key" \in done THEN auth \ {<<h, c>>} ELSE auth
    /\ ganesha' = [ganesha EXCEPT ![h] = <<>>] /\ cephConf' = cephConf \ {h}
    /\ keyring' = [keyring EXCEPT ![h] = "none"]
EnableFails(h, done) ==
    /\ Revert(h, enWith[h][1], done) /\ EnGo(h, "idle")
    /\ UNCHANGED <<rowVars, serving, disVars, disturbed>>

WriteGanesha(h) ==
    /\ en[h] = "files"
    /\ \/ /\ ganesha' = [ganesha EXCEPT ![h] = enWith[h]] /\ cephConf' = cephConf \cup {h}
          /\ EnGo(h, "key")
          /\ UNCHANGED <<rowVars, keyring, auth, grace, serving, disVars, nfsCounts, disturbed>>
       \/ NfsTrouble /\ EnableFails(h, {})

\* createNFSKeyring leaves a keyring that is there as it is.
createNFSKeyring(h) ==
    LET c == enWith[h][1] IN
    /\ en[h] = "key"
    /\ \/ /\ IF keyring[h] # "none" THEN UNCHANGED <<keyring, auth>>
             ELSE keyring' = [keyring EXCEPT ![h] = c] /\ auth' = auth \cup {<<h, c>>}
          /\ EnGo(h, "grace")
          /\ UNCHANGED <<rowVars, ganesha, cephConf, grace, serving, disVars, nfsCounts, disturbed>>
       \/ NfsTrouble /\ EnableFails(h, {})

\* Mutant: only the first host of a group is added.
addFirstNode(h) ==
    LET c == enWith[h][1] IN
    /\ en[h] = "grace" /\ EnGo(h, "start")
    /\ grace' = IF groups[c] = "none" THEN grace \cup {<<h, c>>} ELSE grace
    /\ UNCHANGED <<rowVars, hostVars, auth, disVars, nfsCounts, disturbed>>
\* ensureNFSPool, which can be repeated, and addNodeToSharedGraceMgmtDb.
addNodeToSharedGraceMgmtDb(h) ==
    LET c == enWith[h][1] IN
    /\ en[h] = "grace"
    /\ \/ /\ CanConnect(h, c) /\ grace' = grace \cup {<<h, c>>} /\ EnGo(h, "start")
          /\ UNCHANGED <<rowVars, hostVars, auth, disVars, nfsCounts, disturbed>>
       \/ ~CanConnect(h, c) /\ EnableFails(h, {"key"}) /\ UNCHANGED nfsCounts
       \/ NfsTrouble /\ EnableFails(h, {"key"})

startNFS(h) ==
    /\ en[h] = "start"
    /\ \/ /\ serving' = [serving EXCEPT ![h] = ganesha[h]] /\ EnGo(h, "record")
          /\ UNCHANGED <<rowVars, ganesha, cephConf, keyring, auth, grace, disVars, nfsCounts, disturbed>>
       \/ NfsTrouble /\ EnableFails(h, {"key", "grace"})

\* PostPlacementCheck and DbUpdate; what has been started is left as it is
\* when one of them fails.
DbUpdate(h) ==
    LET c == enWith[h][1] v == enWith[h][2] IN
    /\ en[h] = "record" /\ EnGo(h, "idle")
    /\ \/ serving[h] # <<>> /\ AddNew(h, c, v) /\ UNCHANGED <<nfsCounts, disturbed>>
       \/ /\ serving[h] = <<>> \/ ~AddNewAllowed(h, c, v)
          /\ Disturb(h) /\ UNCHANGED <<rowVars, nfsCounts>>
       \/ NfsTrouble /\ Disturb(h) /\ UNCHANGED rowVars
    /\ UNCHANGED <<hostVars, auth, grace, disVars>>
-----------------------------------------------------------------------------
(* DisableNFS: an error ends it where it is. *)

DisableNfs(h, c) ==
    /\ dis[h] = "idle" /\ GroupedServiceExists(h, c) /\ NfsRun
    /\ dis' = [dis EXCEPT ![h] = "stop"] /\ disOf' = [disOf EXCEPT ![h] = c]
    /\ disturbed' = IF en[h] # "idle" THEN disturbed \cup {h} ELSE disturbed
    /\ UNCHANGED <<rowVars, hostVars, auth, grace, enVars>>

DisableFails(h) ==
    DisGo(h, "idle") /\ Disturb(h) /\ UNCHANGED <<rowVars, hostVars, auth, grace, enVars>>

stopNFS(h) ==
    /\ dis[h] = "stop"
    /\ \/ /\ serving' = [serving EXCEPT ![h] = <<>>] /\ DisGo(h, "grace")
          /\ UNCHANGED <<rowVars, ganesha, cephConf, keyring, auth, grace, enVars, nfsCounts, disturbed>>
       \/ NfsTrouble /\ DisableFails(h)

removeNodeFromSharedGraceMgmtDb(h) ==
    LET c == disOf[h] IN
    /\ dis[h] = "grace"
    /\ \/ /\ CanConnect(h, c) /\ grace' = grace \ {<<h, c>>} /\ DisGo(h, "key")
          /\ UNCHANGED <<rowVars, hostVars, auth, enVars, nfsCounts, disturbed>>
       \/ ~CanConnect(h, c) /\ DisableFails(h) /\ UNCHANGED nfsCounts
       \/ NfsTrouble /\ DisableFails(h)

DeleteClientKey(h) ==
    /\ dis[h] = "key"
    /\ \/ /\ auth' = auth \ {<<h, disOf[h]>>} /\ DisGo(h, "files")
          /\ UNCHANGED <<rowVars, hostVars, grace, enVars, nfsCounts, disturbed>>
       \/ NfsTrouble /\ DisableFails(h)

\* os.Remove of keyring, ceph.conf and ganesha.conf: a file that is missing is
\* an error too, and the ones before it have gone.
RemoveFiles(h) ==
    /\ dis[h] = "files"
    /\ keyring' = [keyring EXCEPT ![h] = "none"]
    /\ cephConf' = IF keyring[h] = "none" THEN cephConf ELSE cephConf \ {h}
    /\ ganesha' = IF keyring[h] = "none" \/ h \notin cephConf THEN ganesha
                  ELSE [ganesha EXCEPT ![h] = <<>>]
    /\ IF keyring[h] # "none" /\ h \in cephConf /\ ganesha[h] # <<>>
       THEN DisGo(h, "record") /\ UNCHANGED disturbed
       ELSE DisGo(h, "idle") /\ Disturb(h)
    /\ UNCHANGED <<rowVars, serving, auth, grace, enVars, nfsCounts>>

ForgetNfs(h) ==
    /\ dis[h] = "record"
    /\ \/ /\ RemoveForHost(h, disOf[h]) /\ DisGo(h, "idle")
          /\ UNCHANGED <<hostVars, auth, grace, enVars, nfsCounts, disturbed>>
       \/ ~GroupedServiceExists(h, disOf[h]) /\ DisableFails(h) /\ UNCHANGED nfsCounts
       \/ NfsTrouble /\ DisableFails(h)
-----------------------------------------------------------------------------
\* microcephd dies in the middle of a call.
NfsCrash(h) ==
    /\ en[h] # "idle" \/ dis[h] # "idle"
    /\ NfsTrouble /\ EnGo(h, "idle") /\ DisGo(h, "idle") /\ Disturb(h)
    /\ UNCHANGED <<rowVars, hostVars, auth, grace>>
NfsDies(h) ==
    /\ serving[h] # <<>> /\ NfsTrouble /\ serving' = [serving EXCEPT ![h] = <<>>]
    /\ UNCHANGED <<rowVars, ganesha, cephConf, keyring, auth, grace, enVars, disVars, disturbed>>
\* A member is removed by force: its rows go (ON DELETE CASCADE), its groups stay.
NfsMemberGone(h) ==
    /\ \E c \in Clusters : GroupedServiceExists(h, c)
    /\ en[h] = "idle" /\ dis[h] = "idle" /\ NfsTrouble
    /\ grouped' = {r \in grouped : r[1] # h} /\ Disturb(h)
    /\ UNCHANGED <<groups, hostVars, auth, grace, enVars, disVars>>

NfsStep(h) ==
    \/ \E c \in Clusters, v \in Versions : EnableNfs(h, c, v)
    \/ WriteGanesha(h) \/ createNFSKeyring(h) \/ addNodeToSharedGraceMgmtDb(h)
    \/ startNFS(h) \/ DbUpdate(h)
    \/ \E c \in Clusters : DisableNfs(h, c)
    \/ stopNFS(h) \/ removeNodeFromSharedGraceMgmtDb(h) \/ DeleteClientKey(h)
    \/ RemoveFiles(h) \/ ForgetNfs(h)
    \/ NfsCrash(h) \/ NfsDies(h) \/ NfsMemberGone(h)
NfsNext == \E h \in Hosts : NfsStep(h)

NfsSpec == NfsInit /\ [][NfsNext]_nfsVars
-----------------------------------------------------------------------------
\* Types; a host that nothing has disturbed serves one cluster at most.
NfsTypeOK ==
    /\ groups \in [Clusters -> Versions \cup {"none"}] /\ grouped \subseteq Hosts \X Clusters
    /\ cephConf \subseteq Hosts /\ keyring \in [Hosts -> Clusters \cup {"none"}]
    /\ auth \subseteq Hosts \X Clusters /\ grace \subseteq Hosts \X Clusters
    /\ \A h \in Hosts :
          /\ ganesha[h] \in {<<>>} \cup (Clusters \X Versions)
          /\ serving[h] \in {<<>>} \cup (Clusters \X Versions)
          /\ enWith[h] \in {<<>>} \cup (Clusters \X Versions)
          /\ (en[h] = "idle") = (enWith[h] = <<>>) /\ (dis[h] = "idle") = (disOf[h] = "none")
          /\ h \notin disturbed => Cardinality({c \in Clusters : <<h, c>> \in grouped}) <= 1

\* A recorded service that is not being disabled has all that it needs to be
\* started again: its files, its key and its place in the grace database.
RecordedIsComplete ==
    \A h \in Hosts \ disturbed, c \in Clusters :
        <<h, c>> \in grouped /\ dis[h] = "idle" =>
            CanConnect(h, c) /\ <<h, c>> \in grace /\ ganesha[h] = <<c, groups[c]>>

\* An enable that failed has undone its steps: a host without a service has
\* no daemon, no files, no key and no place in a grace database.
FailedEnableLeavesNothing ==
    \A h \in Hosts \ disturbed :
        en[h] = "idle" /\ (\A c \in Clusters : <<h, c>> \notin grouped) =>
            /\ serving[h] = <<>> /\ ganesha[h] = <<>> /\ h \notin cephConf
            /\ keyring[h] = "none"
            /\ \A c \in Clusters : <<h, c>> \notin auth \cup grace
=============================================================================
