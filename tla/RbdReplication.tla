--------------------------- MODULE RbdReplication ---------------------------
(***************************************************************************)
(* Mirroring of an RBD pool between two sites (api/ops_replication.go,     *)
(* ceph/replication.go, ceph/replication_rbd.go, ceph/rbd_mirror.go).      *)
(* Requests are handled at the home site, without a lock; their commands   *)
(* change the pool here and, with the credentials of the imported remote,  *)
(* at the other site. Each site's rbd-mirror daemon adds itself to the     *)
(* other's list of peers as long as it believes to have a peer there.      *)
(***************************************************************************)
EXTENDS Naturals, FiniteSets

CONSTANTS
    RbSlots,       \* requests that may be in flight together
    RbImages,      \* images of the pool at the home site
    RbRemotes,     \* the possible sets of imported remotes
    LocalTries, RemoteTries,  \* strategy.Limit of the two disable loops
    MaxRbRuns,     \* requests altogether
    MaxRbTroubles  \* commands that fail, and peers of a third site

Home == "home"
Away == "away"
Third == "third"    \* a site whose own requests made it a peer of the pool
RbSites == {Home, Away}
Other(s) == CHOOSE o \in RbSites : o # s

VARIABLES
    rbRemotes,   \* rows of the table remote at the home site
    rbMode,      \* the pool's mirror mode at a site
    rbPeers,     \* names of the peers the pool lists at a site
    rbRx,        \* the site's peer entry is one it receives from
    rbKnown,     \* the site's rbd-mirror daemon believes to have a peer
    rbImg,       \* how an image is mirrored
    rbRun,       \* the requests
    rbRuns, rbTroubles,
    rbMet        \* for the properties only: kinds of requests that have overlapped

rbPool == <<rbMode, rbPeers, rbRx, rbImg>>
rbVars == <<rbRemotes, rbPool, rbKnown, rbRun, rbRuns, rbTroubles, rbMet>>

Asks == [kind : {"enable", "disable"}, res : {"pool"} \cup RbImages, type : {"journal", "snapshot"},
         force : BOOLEAN, skip : BOOLEAN, named : BOOLEAN]
Idle == [step |-> "idle"]

\* The pool is not mirrored, or every image of it is.
RbInit ==
    /\ rbRemotes \in RbRemotes
    /\ \E m \in {"disabled", "pool"} :
          /\ rbMode = [s \in RbSites |-> m]
          /\ rbPeers = [s \in RbSites |-> IF m = "pool" THEN {Other(s)} ELSE {}]
          /\ rbRx = [s \in RbSites |-> m = "pool"] /\ rbKnown = rbRx
          /\ rbImg = [i \in RbImages |-> IF m = "pool" THEN "journal" ELSE "off"]
    /\ rbRun = [r \in RbSlots |-> Idle] /\ rbRuns = 0 /\ rbTroubles = 0 /\ rbMet = {}

RbTrouble == rbTroubles < MaxRbTroubles /\ rbTroubles' = rbTroubles + 1
At(r, st) == rbRun[r].step = st
\* The handler goes on, or returns an error.
RbGo(r, st) ==
    rbRun' = IF st = "failed" THEN [rbRun EXCEPT ![r] = Idle] ELSE [rbRun EXCEPT ![r].step = st]
RbKeep == UNCHANGED <<rbRemotes, rbKnown, rbRuns, rbMet>>
\* A command of request r fails, and the handler returns its error.
RbFails(r) == RbTrouble /\ RbGo(r, "failed") /\ UNCHANGED rbPool
Mirrored == {i \in RbImages : rbImg[i] # "off"}
-----------------------------------------------------------------------------
(* rbd-mirror and the third site *)

\* A daemon refreshes its view of its own peer entry every 30 seconds.
DaemonRefreshes(s) ==
    /\ rbKnown' = [rbKnown EXCEPT ![s] = rbRx[s]] /\ rbKnown' # rbKnown
    /\ UNCHANGED <<rbRemotes, rbPool, rbRun, rbRuns, rbTroubles, rbMet>>
\* "when it finds no entry for itself, adds one back"
DaemonPings(s) ==
    LET o == Other(s) IN
    /\ rbKnown[s] /\ rbMode[o] # "disabled" /\ s \notin rbPeers[o]
    /\ rbPeers' = [rbPeers EXCEPT ![o] = @ \cup {s}]
    /\ UNCHANGED <<rbRemotes, rbMode, rbRx, rbImg, rbKnown, rbRun, rbRuns, rbTroubles, rbMet>>
ThirdPeers ==
    /\ rbMode[Home] # "disabled" /\ Third \notin rbPeers[Home] /\ RbTrouble
    /\ rbPeers' = [rbPeers EXCEPT ![Home] = @ \cup {Third}]
    /\ UNCHANGED <<rbRemotes, rbMode, rbRx, rbImg, rbKnown, rbRun, rbRuns, rbMet>>
-----------------------------------------------------------------------------
(* A request: PreFill and the state machine *)

cmdOpsReplication(r, q) ==
    /\ At(r, "idle") /\ rbRuns < MaxRbRuns /\ rbRuns' = rbRuns + 1
    /\ rbRun' = [rbRun EXCEPT ![r] =
          [step |-> "info", ask |-> q, mode |-> "disabled", peers |-> {}, on |-> FALSE, count |-> 0,
           ok |-> FALSE, todo |-> {}, tries |-> 1, misread |-> FALSE]]
    /\ LET others == {rbRun[o].ask.kind : o \in {o \in RbSlots : ~At(o, "idle")}} IN
       rbMet' = IF others = {} THEN rbMet ELSE rbMet \cup others \cup {q.kind}
    /\ UNCHANGED <<rbRemotes, rbPool, rbKnown, rbTroubles>>

\* A command that fails reads as a pool that is not mirrored.
GetRbdMirrorPoolInfo(r) ==
    /\ At(r, "info") /\ RbKeep /\ UNCHANGED rbPool
    /\ \/ /\ rbRun' = [rbRun EXCEPT ![r].step = "status", ![r].mode = rbMode[Home], ![r].peers = rbPeers[Home]]
          /\ UNCHANGED rbTroubles
       \/ RbTrouble /\ rbRun' = [rbRun EXCEPT ![r].step = "status", ![r].misread = TRUE]

\* RbdReplicationHandler.PreFill: an image's own status is read after the pool's.
RbPreFill(q) == IF q.res = "pool" THEN "fire" ELSE "image"
\* The health is what rbd reports at that time.
GetRbdMirrorPoolStatus(r) ==
    LET next == RbPreFill(rbRun[r].ask) IN
    /\ At(r, "status") /\ RbKeep /\ UNCHANGED rbPool
    /\ \/ /\ rbMode[Home] # "disabled" /\ UNCHANGED rbTroubles
          /\ \E h \in IF rbRun[r].ask.force THEN {TRUE} ELSE BOOLEAN :
                rbRun' = [rbRun EXCEPT ![r].step = next, ![r].on = TRUE, ![r].ok = h,
                                       ![r].count = Cardinality(Mirrored)]
       \/ rbMode[Home] = "disabled" /\ RbGo(r, next) /\ UNCHANGED rbTroubles
       \/ RbTrouble /\ rbRun' = [rbRun EXCEPT ![r].step = next, ![r].misread = TRUE]

GetRbdMirrorImageStatus(r) ==
    /\ At(r, "image") /\ RbKeep /\ UNCHANGED rbPool
    /\ \/ /\ rbRun' = [rbRun EXCEPT ![r].step = "fire", 
                                       ![r].on = rbMode[Home] # "disabled" /\ rbImg[rbRun[r].ask.res] # "off"]
          /\ UNCHANGED rbTroubles
       \/ RbTrouble /\ rbRun' = [rbRun EXCEPT ![r].step = "fire", ![r].on = FALSE, ![r].misread = TRUE]

\* The remotes a request applies to: the one it names, or all of them.
getRemoteRecords(q) == IF q.named THEN rbRemotes \cap {Away} ELSE rbRemotes

\* resolvePoolRemote: the pool has peers of one site, whose remote is imported.
resolvePoolRemote(run) ==
    Cardinality(run.peers) = 1 /\ run.peers \subseteq getRemoteRecords(run.ask)

handlePoolEnablement(run) ==
    CASE run.ask.type = "snapshot" -> "failed"
      [] run.mode = "pool" -> "ok"
      [] run.mode = "image" /\ run.count # 0 -> "failed"
      [] OTHER -> "enable"
handleImageEnablement(run) ==
    CASE run.mode = "disabled" -> "enable"
      [] run.mode = "image" -> "configure"
      [] run.ask.type = "journal" -> "features"
      [] OTHER -> "failed"
\* Mutant: the images of a pool in pool mode keep their journaling.
disableWithoutImages(run) ==
    IF run.mode = "disabled" THEN "ok"
    ELSE IF (~run.ok /\ ~run.ask.force) \/ ~resolvePoolRemote(run) THEN "failed" ELSE "list"
handlePoolDisablement(run) ==
    CASE run.mode = "disabled" -> "ok"
      [] ~run.ok /\ ~run.ask.force -> "failed"
      [] run.mode = "image" /\ run.count # 0 -> "failed"
      [] ~resolvePoolRemote(run) -> "failed"
      [] run.mode = "pool" -> "images"
      [] OTHER -> "list"
handleImageDisablement(run) == IF run.mode = "disabled" \/ ~run.on THEN "ok" ELSE "off"

GetResourceState(run) == IF run.on THEN "enabled" ELSE "disabled"
\* The step after the checks of EnableHandler and DisableHandler. "enable" is
\* not an event of the enabled state.
Handler(run) ==
    CASE run.ask.kind = "enable" /\ GetResourceState(run) = "enabled" -> "failed"
      [] getRemoteRecords(run.ask) = {} -> "failed"
      [] run.ask.kind = "enable" /\ run.ask.res = "pool" -> handlePoolEnablement(run)
      [] run.ask.kind = "enable" -> handleImageEnablement(run)
      [] run.ask.res = "pool" -> handlePoolDisablement(run)
      [] OTHER -> handleImageDisablement(run)
\* What was read and is not needed any more is forgotten.
Fired(run, st) ==
    [run EXCEPT !.step = st, !.peers = {}, !.on = FALSE, !.count = 0, !.ok = FALSE,
                !.ask.force = FALSE, !.ask.named = TRUE]
GetReplicationStateMachine(r) ==
    LET st == Handler(rbRun[r]) IN
    /\ At(r, "fire") /\ RbKeep /\ UNCHANGED <<rbPool, rbTroubles>>
    /\ rbRun' = [rbRun EXCEPT ![r] = IF st = "failed" THEN Idle ELSE Fired(@, st)]

Answer(r) ==
    /\ rbRun[r].step \in {"ok", "spent"} /\ rbRun' = [rbRun EXCEPT ![r] = Idle]
    /\ RbKeep /\ UNCHANGED <<rbPool, rbTroubles>>
-----------------------------------------------------------------------------
(* EnablePoolMirroring: the pool here, the pool there, the peers *)

ModeOf(q) == IF q.res = "pool" THEN "pool" ELSE "image"
AfterEnable(q) == IF q.res # "pool" THEN "configure" ELSE IF q.skip THEN "ok" ELSE "features"

configurePoolMirroring(r, s) == rbMode' = [rbMode EXCEPT ![s] = ModeOf(rbRun[r].ask)]
EnablePoolMirroring(r, s) ==
    /\ At(r, IF s = Home THEN "enable" ELSE "enable-away") /\ RbKeep
    /\ \/ /\ configurePoolMirroring(r, s) /\ RbGo(r, IF s = Home THEN "enable-away" ELSE "token")
          /\ UNCHANGED <<rbPeers, rbRx, rbImg, rbTroubles>>
       \/ RbFails(r)

\* The token is created here and its file is written; rbd refuses both commands
\* on a pool that is not mirrored.
peerBootstrapCreate(r) ==
    /\ At(r, "token") /\ RbKeep
    /\ \/ RbGo(r, IF rbMode[Home] # "disabled" THEN "import" ELSE "failed") /\ UNCHANGED <<rbPool, rbTroubles>>
       \/ RbFails(r)
\* --direction rx-tx: each site becomes a peer of the other.
peerBootstrapImport(r) ==
    /\ At(r, "import") /\ RbKeep
    /\ \/ /\ \A s \in RbSites : rbMode[s] # "disabled"
          /\ rbPeers' = [s \in RbSites |-> rbPeers[s] \cup {Other(s)}] /\ rbRx' = [s \in RbSites |-> TRUE]
          /\ rbRun' = [rbRun EXCEPT ![r].step = AfterEnable(rbRun[r].ask), ![r].todo = RbImages]
          /\ UNCHANGED <<rbMode, rbImg, rbTroubles>>
       \/ /\ \E s \in RbSites : rbMode[s] = "disabled"
          /\ RbGo(r, "failed") /\ UNCHANGED <<rbPool, rbTroubles>>
       \/ RbFails(r)

\* Journaling for the image, or for every image of the pool; the images of a
\* listing that fails are passed over.
enableRbdImageFeatures(r) ==
    LET q == rbRun[r].ask
        todo == IF q.res = "pool" THEN rbRun[r].todo ELSE {q.res} IN
    /\ At(r, "features") /\ RbKeep
    /\ \/ \E i \in todo :
             /\ rbImg' = [rbImg EXCEPT ![i] = IF @ = "off" THEN "journal" ELSE @]
             /\ rbRun' = [rbRun EXCEPT ![r].step = IF todo = {i} THEN "ok" ELSE @, ![r].todo = todo \ {i}]
             /\ UNCHANGED <<rbMode, rbPeers, rbRx, rbTroubles>>
       \/ RbFails(r)
       \/ /\ todo = RbImages /\ q.res = "pool" /\ RbTrouble /\ UNCHANGED rbPool
          /\ rbRun' = [rbRun EXCEPT ![r].step = "ok", ![r].misread = TRUE]

\* rbd mirrors single images only where the pool is in that mode. A snapshot and
\* its schedule follow, which may fail as well.
configureImageMirroring(r) ==
    LET q == rbRun[r].ask IN
    /\ At(r, "configure") /\ RbKeep
    /\ \/ /\ rbMode[Home] = "image" /\ rbImg' = [rbImg EXCEPT ![q.res] = q.type]
          /\ \/ RbGo(r, "ok") /\ UNCHANGED rbTroubles
             \/ q.type = "snapshot" /\ RbTrouble /\ RbGo(r, "failed")
          /\ UNCHANGED <<rbMode, rbPeers, rbRx>>
       \/ rbMode[Home] # "image" /\ RbGo(r, "failed") /\ UNCHANGED <<rbPool, rbTroubles>>
       \/ RbFails(r)
\* handleImageDisablement: the journaling feature, or the mirroring of the image.
disableImage(r) ==
    /\ At(r, "off") /\ RbKeep
    /\ \/ /\ rbImg' = [rbImg EXCEPT ![rbRun[r].ask.res] = "off"] /\ RbGo(r, "ok")
          /\ UNCHANGED <<rbMode, rbPeers, rbRx, rbTroubles>>
       \/ RbFails(r)
-----------------------------------------------------------------------------
(* handlePoolDisablement after its checks *)

\* The images are listed; those of a listing that fails are passed over.
ListMirroring(r) ==
    /\ At(r, "images") /\ RbKeep /\ UNCHANGED rbPool
    /\ \/ rbRun' = [rbRun EXCEPT ![r].step = "disable", ![r].todo = Mirrored] /\ UNCHANGED rbTroubles
       \/ RbTrouble /\ rbRun' = [rbRun EXCEPT ![r].step = "list", ![r].misread = TRUE]
\* Journaling cannot be disabled a second time.
DisableAllMirroringImagesInPool(r) ==
    /\ At(r, "disable") /\ RbKeep
    /\ \/ \E i \in rbRun[r].todo :
             IF rbImg[i] = "off" THEN RbGo(r, "failed") /\ UNCHANGED <<rbPool, rbTroubles>>
             ELSE /\ rbImg' = [rbImg EXCEPT ![i] = "off"]
                  /\ rbRun' = [rbRun EXCEPT ![r].todo = @ \ {i}]
                  /\ UNCHANGED <<rbMode, rbPeers, rbRx, rbTroubles>>
       \/ rbRun[r].todo = {} /\ RbGo(r, "list") /\ UNCHANGED <<rbPool, rbTroubles>>
       \/ RbFails(r)

\* RemovePeer finds both entries and removes them, here first. A missing one is
\* an error. The entry is the one that was listed unless somebody else removed it.
getAllPeerUUIDs(r, s) ==
    /\ At(r, IF s = Home THEN "list" ELSE "list-away") /\ RbKeep
    /\ \/ /\ RbGo(r, CASE Other(s) \notin rbPeers[s] -> "failed"
                       [] s = Home -> "list-away"
                       [] OTHER -> "remove")
          /\ UNCHANGED <<rbPool, rbTroubles>>
       \/ RbFails(r)
DropPeer(s) ==
    /\ rbPeers' = [rbPeers EXCEPT ![s] = @ \ {Other(s)}] /\ rbRx' = [rbRx EXCEPT ![s] = FALSE]
    /\ UNCHANGED <<rbMode, rbImg>>
RemovePeer(r, s) ==
    /\ At(r, IF s = Home THEN "remove" ELSE "remove-away") /\ RbKeep
    /\ \/ Other(s) \in rbPeers[s] /\ DropPeer(s) /\ UNCHANGED rbTroubles
             /\ RbGo(r, IF s = Home THEN "remove-away" ELSE "local")
       \/ Other(s) \notin rbPeers[s] /\ RbGo(r, "failed") /\ UNCHANGED <<rbPool, rbTroubles>>
       \/ RbFails(r)

\* Seconds slept before a retry. rbd-mirror refreshes every 30 seconds.
localDisableRetryStrategies(k) == IF k = 1 THEN 0 ELSE 5 + 40 * (k - 2)
remoteDisableRetryStrategies(k) == 5 + 5 * ((k * (k - 1)) \div 2)
\* By then the daemon of site s has refreshed since the peers were removed.
Refreshed(s, waited) == waited >= 30 => (rbKnown[s] => rbRx[s])

\* Mutant: the retry does not look for peers.
keepReregistered(s) == UNCHANGED rbPool
removeReregisteredPeers(s) == DropPeer(s)

\* The command is refused while the pool lists a peer.
Disabled(s) ==
    /\ rbPeers[s] = {} /\ rbMode' = [rbMode EXCEPT ![s] = "disabled"]
    /\ UNCHANGED <<rbPeers, rbRx, rbImg, rbTroubles>>

\* Only the refusal is tried again (stopUnlessPeerRace).
disableHere(r) ==
    LET k == rbRun[r].tries IN
    /\ At(r, "local") /\ RbKeep
    /\ \/ Disabled(Home) /\ rbRun' = [rbRun EXCEPT ![r].step = "remote", ![r].tries = 1]
       \/ /\ rbPeers[Home] # {} /\ UNCHANGED <<rbPool, rbTroubles>>
          /\ rbRun' = [rbRun EXCEPT ![r].step = IF k = LocalTries THEN "spent" ELSE "local-again",
                                    ![r].tries = IF k = LocalTries THEN k ELSE k + 1]
       \/ RbFails(r)
\* Every error is tried again.
disableThere(r) ==
    LET k == rbRun[r].tries IN
    /\ At(r, "remote") /\ RbKeep
    /\ \/ Disabled(Away) /\ RbGo(r, "ok")
       \/ /\ (rbPeers[Away] # {} /\ UNCHANGED rbTroubles) \/ RbTrouble
          /\ UNCHANGED rbPool
          /\ rbRun' = [rbRun EXCEPT ![r].step = IF k = RemoteTries THEN "spent" ELSE "remote-again",
                                    ![r].tries = IF k = RemoteTries THEN k ELSE k + 1]
\* After the wait, what came back is removed, best effort.
Retry(r, s) ==
    LET k == rbRun[r].tries IN
    /\ At(r, IF s = Home THEN "local-again" ELSE "remote-again") /\ RbKeep
    /\ Refreshed(Other(s), IF s = Home THEN localDisableRetryStrategies(k) ELSE remoteDisableRetryStrategies(k))
    /\ (removeReregisteredPeers(s) /\ UNCHANGED rbTroubles) \/ (RbTrouble /\ UNCHANGED rbPool)
    /\ RbGo(r, IF s = Home THEN "local" ELSE "remote")
-----------------------------------------------------------------------------
\* A snapshot type is asked of single images, --skip-auto-enable of pools.
RbAsks ==
    {q \in Asks : /\ q.kind = "enable" => q.named /\ ~q.force /\ (q.res # "pool" => ~q.skip)
                  /\ q.kind = "disable" => ~q.skip /\ q.type = "journal"
                  /\ (q.kind = "disable" /\ q.res # "pool") => q.named /\ ~q.force}

RbNext ==
    \/ \E s \in RbSites : DaemonRefreshes(s) \/ DaemonPings(s)
    \/ ThirdPeers
    \/ \E r \in RbSlots :
          \/ \E q \in RbAsks : cmdOpsReplication(r, q)
          \/ GetRbdMirrorPoolInfo(r) \/ GetRbdMirrorPoolStatus(r) \/ GetRbdMirrorImageStatus(r)
          \/ GetReplicationStateMachine(r) \/ Answer(r)
          \/ peerBootstrapCreate(r) \/ peerBootstrapImport(r)
          \/ enableRbdImageFeatures(r) \/ configureImageMirroring(r) \/ disableImage(r)
          \/ ListMirroring(r) \/ DisableAllMirroringImagesInPool(r)
          \/ disableHere(r) \/ disableThere(r)
          \/ \E s \in RbSites : EnablePoolMirroring(r, s) \/ getAllPeerUUIDs(r, s) \/ RemovePeer(r, s) \/ Retry(r, s)

RbSpec == RbInit /\ [][RbNext]_rbVars
-----------------------------------------------------------------------------
\* Types; a pool that is not mirrored lists no peer.
RbTypeOK ==
    /\ rbMode \in [RbSites -> {"disabled", "pool", "image"}]
    /\ \A s \in RbSites : rbPeers[s] \subseteq {Other(s), Third} /\ (rbRx[s] => Other(s) \in rbPeers[s])
    /\ rbImg \in [RbImages -> {"off", "journal", "snapshot"}]
    /\ \A s \in RbSites : rbMode[s] = "disabled" => rbPeers[s] = {}

\* DisablePoolMirroring: "every retry first removes any peer that came back":
\* however the daemons' pings fall, the attempts suffice, unless a command failed,
\* a third site became a peer or a request to enable was in flight as well.
RetriesOutlastPings == \A r \in RbSlots : At(r, "spent") => rbTroubles > 0 \/ "enable" \in rbMet

\* An answer without error tells the truth, also when commands failed that are
\* tried again, unless a failed reading was taken for a pool or image that is not
\* mirrored: a disabled pool is disabled, and if it was still mirrored here then
\* at both sites and with all its images; an enabled one is enabled at both, each
\* a peer of the other; an image of a mirrored pool is mirrored or not as asked.
OkIsDone ==
    \A r \in RbSlots : At(r, "ok") /\ ~rbRun[r].misread /\ rbMet = {} =>
        LET q == rbRun[r].ask IN
        /\ q.kind = "disable" /\ q.res = "pool" =>
              /\ rbMode[Home] = "disabled"
              /\ rbRun[r].mode # "disabled" => rbMode[Away] = "disabled" /\ Mirrored = {}
        /\ q.kind = "enable" /\ q.res = "pool" =>
              /\ \A s \in RbSites : rbMode[s] = "pool" /\ Other(s) \in rbPeers[s]
              /\ ~q.skip => Mirrored = RbImages
        /\ q.res # "pool" /\ (q.kind = "enable" \/ rbRun[r].mode # "disabled") =>
              (q.kind = "enable") = (rbImg[q.res] # "off")

=============================================================================
