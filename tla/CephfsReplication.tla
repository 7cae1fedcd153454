-------------------------- MODULE CephfsReplication --------------------------
(***************************************************************************)
(* Replication of CephFS paths of one volume to remote clusters            *)
(* (replication_cephfs.go, cephfs_mirror.go, cephfs_snapshot.go). A        *)
(* request reads the mirror daemon's status and the list of mirrored       *)
(* paths, and its state machine (replication.go) fires the handler. To     *)
(* enable a path is four commands: mirror the volume, make a token on the  *)
(* remote, import it, add the path. Nothing is undone when one fails, and  *)
(* requests interleave between any two commands.                           *)
(***************************************************************************)
EXTENDS Naturals, FiniteSets

CONSTANTS
    CfSlots,           \* requests that can run at once
    CfPaths,           \* paths (subvolumes, directories) of the volume
    CfRemotes,         \* recorded remotes; each has a volume of the same name
    Namesakes,         \* remotes whose name for this cluster is also their own
    Volume,            \* what a request names when it is for the whole volume
    MaxCfRuns, MaxCfTroubles

ASSUME CfConstants ==
    Volume \notin CfPaths /\ "local" \notin CfRemotes

VARIABLES
    cfMirrored,  \* mirroring is enabled on the volume
    cfPeers,     \* <<remote, name of the site in its token>>
    cfPaths,     \* mirrored paths
    cfDaemon,    \* a cephfs-mirror daemon runs and reports its volumes
    cfRun,       \* requests
    cfRuns, cfTroubles,
    \* For the properties only.
    cfFor,       \* the remote a mirrored path was enabled for
    cfClean      \* requests none of whose commands failed, and that ran alone

cfVars == <<cfMirrored, cfPeers, cfPaths, cfDaemon, cfRun, cfRuns, cfTroubles, cfFor, cfClean>>

CfAsk(st, op, p, rem, force) ==
    [step |-> st, op |-> op, path |-> p, remote |-> rem, force |-> force, up |-> FALSE, list |-> {}]
CfIdle == CfAsk("idle", "disable", Volume, Volume, FALSE)
CfIs(s, st) == cfRun[s].step = st
CfGo(s, st) == cfRun' = [cfRun EXCEPT ![s].step = st]
CfTrouble == cfTroubles < MaxCfTroubles /\ cfTroubles' = cfTroubles + 1
\* The command of s fails and the request with it.
CfBreaks(s) ==
    /\ CfTrouble /\ CfGo(s, "failed") /\ cfClean' = cfClean \ {s}
    /\ UNCHANGED <<cfMirrored, cfPeers, cfPaths, cfFor>>
CfKeep == UNCHANGED <<cfDaemon, cfRuns>>
\* The token's site is what the remote calls this cluster; the peer keeps it.
LocalName(rem) == <<rem, IF rem \in Namesakes THEN rem ELSE "local">>

CfInit ==
    /\ cfMirrored = FALSE /\ cfPeers = {} /\ cfPaths = {} /\ cfDaemon \in BOOLEAN
    /\ cfRun = [s \in CfSlots |-> CfIdle] /\ cfRuns = 0 /\ cfTroubles = 0
    /\ cfFor = [p \in CfPaths |-> {}] /\ cfClean = {}

\* A request arrives; every request that already runs is no longer alone.
CfBegin(s, ask) ==
    /\ CfIs(s, "idle") /\ cfRuns < MaxCfRuns /\ cfRuns' = cfRuns + 1
    /\ cfRun' = [cfRun EXCEPT ![s] = ask]
    /\ cfClean' = IF \A o \in CfSlots : CfIs(o, "idle") THEN {s} ELSE {}
    /\ UNCHANGED <<cfMirrored, cfPeers, cfPaths, cfDaemon, cfTroubles, cfFor>>
-----------------------------------------------------------------------------
\* Without a daemon the status lists no volume.
GetCephFSSnapshotMirrorDaemonStatus == cfMirrored /\ cfDaemon
\* The mirroring module is enabled, and the daemons' status is read.
PreFill(s) ==
    /\ CfIs(s, "status") /\ CfKeep
    /\ \/ /\ cfRun' = [cfRun EXCEPT ![s].step = "list", ![s].up = GetCephFSSnapshotMirrorDaemonStatus]
          /\ UNCHANGED <<cfMirrored, cfPeers, cfPaths, cfTroubles, cfFor, cfClean>>
       \/ CfBreaks(s)

\* GetResourceState: a path of the volume is enabled when it is listed.
CfState(run, list) ==
    IF run.up /\ (run.path = Volume \/ run.path \in list) THEN "enabled" ELSE "disabled"
\* Enabling is permitted where it is not enabled, disabling everywhere. A volume
\* is only disabled, path by path, and only by force.
CfFired(run, list) ==
    IF run.op = "enable"
    THEN IF CfState(run, list) = "disabled" /\ run.path # Volume THEN "verify" ELSE "failed"
    ELSE IF run.path # Volume THEN "remove" ELSE IF run.force THEN "removeAll" ELSE "failed"
\* A volume that is not mirrored has no paths; then the request is fired.
GetCephFSVolumeMirrorList(s) ==
    /\ CfIs(s, "list") /\ CfKeep
    /\ \/ LET next == CfFired(cfRun[s], cfPaths) IN
          /\ cfRun' = [cfRun EXCEPT ![s].step = next, ![s].up = FALSE,
                                    ![s].list = IF next = "removeAll" THEN cfPaths ELSE {}]
          /\ UNCHANGED <<cfMirrored, cfPeers, cfPaths, cfTroubles, cfFor, cfClean>>
       \/ CfBreaks(s)

\* The remote is recorded and has the volume, the path exists, and the remote's
\* mirroring module is enabled.
verifyEnableRequestData(s) ==
    /\ CfIs(s, "verify") /\ CfKeep
    /\ \/ CfGo(s, "peer") /\ UNCHANGED <<cfMirrored, cfPeers, cfPaths, cfTroubles, cfFor, cfClean>>
       \/ CfBreaks(s)
\* Mutant: an unmirrored volume has no peer, which is all that is asked.
peerListEmpty(s) ==
    /\ CfIs(s, "peer") /\ CfKeep
    /\ CfGo(s, "token") /\ UNCHANGED <<cfMirrored, cfPeers, cfPaths, cfTroubles, cfFor, cfClean>>
\* The listing of an unmirrored volume fails with a message of its own.
cephFSSnapshotMirrorPeerExists(s) ==
    /\ CfIs(s, "peer") /\ CfKeep
    /\ \/ /\ CfGo(s, IF ~cfMirrored THEN "volume"
                     ELSE IF \E p \in cfPeers : p[2] = cfRun[s].remote THEN "add" ELSE "token")
          /\ UNCHANGED <<cfMirrored, cfPeers, cfPaths, cfTroubles, cfFor, cfClean>>
       \/ CfBreaks(s)
cephFSSnapshotMirrorEnableVolume(s) ==
    /\ CfIs(s, "volume") /\ CfKeep
    /\ \/ /\ CfGo(s, "token") /\ cfMirrored' = TRUE
          /\ UNCHANGED <<cfPeers, cfPaths, cfTroubles, cfFor, cfClean>>
       \/ CfBreaks(s)
\* Mutant: the path is added at once, while the peer is being made.
addWithoutPeer(s) ==
    /\ CfIs(s, "token") /\ CfKeep
    /\ CfGo(s, "add") /\ UNCHANGED <<cfMirrored, cfPeers, cfPaths, cfTroubles, cfFor, cfClean>>
cephFSSnapshotMirrorPeerCreate(s) ==
    /\ CfIs(s, "token") /\ CfKeep
    /\ \/ CfGo(s, "import") /\ UNCHANGED <<cfMirrored, cfPeers, cfPaths, cfTroubles, cfFor, cfClean>>
       \/ CfBreaks(s)
\* To import a peer once more changes nothing.
cephFSSnapshotMirrorPeerImport(s) ==
    /\ CfIs(s, "import") /\ CfKeep
    /\ \/ /\ cfMirrored /\ CfGo(s, "add") /\ cfPeers' = cfPeers \cup {LocalName(cfRun[s].remote)}
          /\ UNCHANGED <<cfMirrored, cfPaths, cfTroubles, cfFor, cfClean>>
       \/ ~cfMirrored /\ CfGo(s, "failed") /\ UNCHANGED <<cfMirrored, cfPeers, cfPaths, cfTroubles, cfFor, cfClean>>
       \/ CfBreaks(s)
\* enableCephFSResourceMirror: a path that is tracked already is an error.
cephFSSnapshotMirrorAddPath(s) ==
    LET p == cfRun[s].path IN
    /\ CfIs(s, "add") /\ CfKeep
    /\ \/ /\ p \notin cfPaths /\ CfGo(s, "ok")
          /\ cfPaths' = cfPaths \cup {p} /\ cfFor' = [cfFor EXCEPT ![p] = {cfRun[s].remote}]
          /\ UNCHANGED <<cfMirrored, cfPeers, cfTroubles, cfClean>>
       \/ p \in cfPaths /\ CfGo(s, "failed") /\ UNCHANGED <<cfMirrored, cfPeers, cfPaths, cfTroubles, cfFor, cfClean>>
       \/ CfBreaks(s)
-----------------------------------------------------------------------------
Untrack(p) == cfPaths' = cfPaths \ {p} /\ cfFor' = [cfFor EXCEPT ![p] = {}]
cephFSSnapshotMirrorRemovePath(s) ==
    LET p == cfRun[s].path IN
    /\ CfIs(s, "remove") /\ CfKeep
    /\ \/ p \in cfPaths /\ CfGo(s, "ok") /\ Untrack(p) /\ UNCHANGED <<cfMirrored, cfPeers, cfTroubles, cfClean>>
       \/ p \notin cfPaths /\ CfGo(s, "failed") /\ UNCHANGED <<cfMirrored, cfPeers, cfPaths, cfTroubles, cfFor, cfClean>>
       \/ CfBreaks(s)
\* The paths of the list that was read; one that is gone ends the request.
disableCephFSVolumeMirror(s) ==
    /\ CfIs(s, "removeAll") /\ CfKeep
    /\ \/ cfRun[s].list = {} /\ CfGo(s, "ok") /\ UNCHANGED <<cfMirrored, cfPeers, cfPaths, cfTroubles, cfFor, cfClean>>
       \/ \E p \in cfRun[s].list :
             \/ /\ p \in cfPaths /\ Untrack(p) /\ cfRun' = [cfRun EXCEPT ![s].list = @ \ {p}]
                /\ UNCHANGED <<cfMirrored, cfPeers, cfTroubles, cfClean>>
             \/ p \notin cfPaths /\ CfGo(s, "failed") /\ UNCHANGED <<cfMirrored, cfPeers, cfPaths, cfTroubles, cfFor, cfClean>>
       \/ cfRun[s].list # {} /\ CfBreaks(s)

handleReplicationRequest(s) ==
    /\ cfRun[s].step \in {"ok", "failed"} /\ cfRun' = [cfRun EXCEPT ![s] = CfIdle]
    /\ cfClean' = cfClean \ {s} /\ CfKeep /\ UNCHANGED <<cfMirrored, cfPeers, cfPaths, cfTroubles, cfFor>>

CfNext ==
    \E s \in CfSlots :
        \/ \E p \in CfPaths, rem \in CfRemotes : CfBegin(s, CfAsk("status", "enable", p, rem, FALSE))
        \/ \E p \in CfPaths \cup {Volume}, force \in BOOLEAN :
              CfBegin(s, CfAsk("status", "disable", p, Volume, p = Volume /\ force))
        \/ PreFill(s) \/ GetCephFSVolumeMirrorList(s)
        \/ verifyEnableRequestData(s) \/ cephFSSnapshotMirrorPeerExists(s)
        \/ cephFSSnapshotMirrorEnableVolume(s) \/ cephFSSnapshotMirrorPeerCreate(s)
        \/ cephFSSnapshotMirrorPeerImport(s) \/ cephFSSnapshotMirrorAddPath(s)
        \/ cephFSSnapshotMirrorRemovePath(s) \/ disableCephFSVolumeMirror(s)
        \/ handleReplicationRequest(s)

CfSpec == CfInit /\ [][CfNext]_cfVars
-----------------------------------------------------------------------------
\* Every mirrored path, whatever failed or overlapped, has a mirrored volume and
\* the remote it was enabled for among the volume's peers: enabling adds the
\* path last. It is also the type invariant: only listed paths wait for removal.
PathHasPeer ==
    /\ cfPaths \subseteq CfPaths
    /\ \A s \in CfSlots : cfRun[s].list \subseteq CfPaths
    /\ \A p \in cfPaths : cfMirrored /\ \E rem \in cfFor[p] : LocalName(rem) \in cfPeers

\* A request to enable a path can be repeated after any failure: undisturbed, it
\* fails only where the path is mirrored already, whatever an earlier request
\* left behind (the volume mirrored, the peer made).
RepeatedEnableSucceeds ==
    \A s \in CfSlots :
        CfIs(s, "failed") /\ s \in cfClean /\ cfRun[s].op = "enable" => cfRun[s].path \in cfPaths

\* An undisturbed disable that is answered with success leaves nothing of what
\* it names mirrored, the whole volume included.
DisabledIsGone ==
    \A s \in CfSlots :
        CfIs(s, "ok") /\ s \in cfClean /\ cfRun[s].op = "disable" =>
            cfPaths \cap (IF cfRun[s].path = Volume THEN CfPaths ELSE {cfRun[s].path}) = {}
=============================================================================
