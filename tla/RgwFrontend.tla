---------------------------- MODULE RgwFrontend ----------------------------
(***************************************************************************)
(* The RGW gateway's frontend on one member: ceph/rgw.go and the RGW part  *)
(* of the placement pipeline, ceph/services_placement_rgw.go.              *)
(*                                                                         *)
(* A frontend is published as a certificate generation (two files), a      *)
(* journal that says how to go back, and one line of radosgw.conf.  Then   *)
(* the gateway is restarted, its readiness awaited, the member's row       *)
(* written and the journal removed.  Any command or write may fail, with   *)
(* or without its effect; microcephd may be restarted between any two      *)
(* steps; the gateway may be restarted or stopped by others at any time.   *)
(*                                                                         *)
(* serviceStartMu lets one call through, so there is one call at a time.   *)
(* The configuration refresh only shares radosgwConfMu with it.            *)
(***************************************************************************)
EXTENDS Naturals, FiniteSets

CONSTANTS
    Ports,        \* what a request may ask for besides TLS: its listeners
    Pairs,        \* certificate and key pairs; a pair names its generation
    Legacy,       \* the flat server.crt and server.key of older releases
    LegacyPair,   \* the pair these files hold
    Reuse,        \* TLS asked for without material
    None,         \* nothing: no file, no row, no TLS
    Ops,          \* the calls that are made
    MaxMonitors,  \* bound on the changes of the set of monitors
    MaxFaults,    \* bound on failures of commands, writes and the gateway
    MaxCrashes,   \* bound on restarts of microcephd
    MaxTroubles   \* bound on failures and restarts together

ASSUME RgwAssumption ==
    /\ None \notin Ports \cup Pairs \cup {Legacy, Reuse}
    /\ Legacy \notin Pairs
    /\ Reuse \notin Pairs
    /\ LegacyPair \in Pairs
    /\ Ops \subseteq {"enable", "certs", "deferred", "disable"}
    /\ MaxMonitors \in Nat \ {0}
    /\ MaxFaults \in Nat
    /\ MaxCrashes \in Nat
    /\ MaxTroubles \in Nat

VARIABLES
    conf,      \* radosgw.conf: its frontend line and its mon host line
    files,     \* which of the two files each directory of TLS material has
    journal,   \* radosgw.conf.pending
    active,    \* the snap service is active
    loaded,    \* the frontend the gateway process serves
    row,       \* the member's rows in services and rgw_frontends
    at,        \* where the call that has serviceStartMu stands
    op,        \* which call it is
    asked,     \* what it asks for
    spec,      \* its frontend, with the pair resolved
    wasActive, \* the gateway's state before it changed anything
    rb,        \* its rgwRollback
    mons,      \* the monitors it read from the database
    answer,    \* what the last call answered
    monitors,  \* the set of monitors in the database, as a version
    seen,      \* the version the refresh loop has read and not yet written
    old,       \* the version it wrote last
    booting,   \* microcephd has started and not yet re-enabled its services
    faults, crashes,
    good,      \* history: the last frontend confirmed to be served
    leftover,  \* history: a removal of the gateway is unfinished
    meddled    \* history: somebody else restarted the gateway during a call

disk == <<conf, files, journal>>
gateway == <<active, loaded>>
local == <<op, asked, spec, wasActive, rb, mons>>
loop == <<monitors, seen, old>>
ghost == <<good, leftover, meddled>>
vars == <<disk, gateway, row, at, local, answer, loop, booting, faults, crashes,
          ghost>>

-----------------------------------------------------------------------------
Both == {"crt", "key"}
Dirs == Pairs \cup {Legacy}
Lines == [port : Ports, dir : Dirs \cup {None}]
Served == [port : Ports, pair : Pairs \cup {None}]
Confs == [line : Lines \cup {None}, mons : 0..MaxMonitors]
NoConf == [line |-> None, mons |-> 0]
Journals == [prev : Confs, active : BOOLEAN]
Rollbacks == [prev : Confs, active : BOOLEAN, published : Dirs \cup {None},
              changed : BOOLEAN]
Rows == [port : Ports, ssl : BOOLEAN]
Requests == [port : Ports, pair : Pairs \cup {Reuse, None}]
NoRequest == [port |-> CHOOSE p \in Ports : TRUE, pair |-> None]

\* The pair in a directory; the name of a generation is the hash of its pair.
Content(d) == IF d = Legacy THEN LegacyPair ELSE d

\* resolveRGWTLSReuse and rgwFrontendFromConfig: the line names listeners, and
\* a pair that is there.
Usable(line) ==
    /\ line # None
    /\ line.dir # None => files[line.dir] = Both

\* What a gateway serves that was started from this line.
View(line) == [port |-> line.port, pair |-> Content(line.dir)]

\* checkRGWReady: the listeners answer, the TLS one with the expected pair.
Ready(line) ==
    /\ active
    /\ loaded # None
    /\ loaded.port = line.port
    /\ line.dir # None => loaded.pair = Content(line.dir)

Fault ==
    /\ faults < MaxFaults
    /\ faults + crashes < MaxTroubles
    /\ faults' = faults + 1
NoFault == faults' = faults

\* snapctl start and restart: the gateway reads what is on disk now; without a
\* usable configuration it serves nothing and systemd may give up on it.
RunGateway ==
    /\ meddled' = FALSE
    /\ IF Usable(conf.line)
       THEN active' = TRUE /\ loaded' = View(conf.line)
       ELSE active' \in BOOLEAN /\ loaded' = None

StopGateway ==
    /\ meddled' = FALSE
    /\ active' = FALSE
    /\ loaded' = None

SameGateway == UNCHANGED <<gateway, meddled>>

Goto(place) == at' = place /\ UNCHANGED <<local, answer>>

\* The call's local variables are gone.
Forget ==
    /\ at' = "idle"
    /\ op' = "none"
    /\ asked' = NoRequest
    /\ spec' = None
    /\ wasActive' = FALSE
    /\ rb' = None
    /\ mons' = 0

Return(result) == Forget /\ answer' = result

\* The error path: rb.restore(), which does nothing for a nil rollback.
Undo(r) ==
    IF r = None
    THEN Return("error")
    ELSE /\ at' = "undoConf"
         /\ rb' = r
         /\ UNCHANGED <<op, asked, spec, wasActive, mons, answer>>

\* From here on the frontend in radosgw.conf is the one to go back to: it was
\* served, and no journal points behind it.
Confirm == good' = conf.line /\ leftover' = FALSE

SameHistory == UNCHANGED <<good, leftover>>

\* What a step of a call never changes.
Elsewhere == UNCHANGED <<loop, booting, crashes>>

\* Deleting files: all of them, or on a failure (or a crash half-way) some.
Delete(dirs) ==
    \/ /\ NoFault
       /\ files' = [d \in Dirs |-> IF d \in dirs THEN {} ELSE files[d]]
    \/ /\ Fault
       /\ \E rest \in [dirs -> SUBSET Both] :
             files' = [d \in Dirs |-> IF d \in dirs THEN files[d] \cap rest[d]
                                      ELSE files[d]]

\* pruneRGWTLSGenerations: everything radosgw.conf does not name.
Unnamed == {d \in Dirs : conf.line = None \/ conf.line.dir # d}

-----------------------------------------------------------------------------
\* A call gets serviceStartMu.  A placement reads the monitors first.
Asks(o) ==
    {r \in Requests :
        /\ o \in {"certs", "deferred"} => r.pair \in Pairs /\ r.port = NoRequest.port
        /\ o = "disable" => r = NoRequest}

Begin(o, r) ==
    /\ at = "idle"
    /\ at' = IF o = "disable" THEN "stop" ELSE "recover"
    /\ op' = o
    /\ asked' = r
    /\ mons' = monitors
    /\ answer' = "none"
    /\ UNCHANGED <<spec, wasActive, rb, disk, gateway, row, faults, ghost>>
    /\ Elsewhere

\* recoverPendingRGWApply with a journal: what is on disk is activated, or
\* undone when that cannot work.
FromJournal ==
    [prev |-> journal.prev, active |-> journal.active, published |-> None,
     changed |-> TRUE]

Recover ==
    /\ at = "recover"
    /\ \/ NoFault /\ journal = None /\ Goto("prepare")
       \/ NoFault /\ journal # None /\ Usable(conf.line) /\ Goto("reload")
       \/ NoFault /\ journal # None /\ ~Usable(conf.line) /\ Undo(FromJournal)
       \/ Fault /\ journal # None /\ Usable(conf.line) /\ Undo(FromJournal)
       \/ Fault /\ Return("error")
    /\ UNCHANGED <<disk, row>>
    /\ SameGateway /\ SameHistory /\ Elsewhere

Reload ==
    /\ at = "reload"
    /\ \/ NoFault /\ RunGateway /\ Goto("recheck")
       \/ Fault /\ (RunGateway \/ SameGateway) /\ Undo(FromJournal)
    /\ UNCHANGED <<disk, row>>
    /\ SameHistory /\ Elsewhere

Recheck ==
    /\ at = "recheck"
    /\ \/ NoFault /\ Ready(conf.line) /\ Goto("rebase")
       \/ NoFault /\ ~Ready(conf.line) /\ Undo(FromJournal)
       \/ Fault /\ Undo(FromJournal)
    /\ UNCHANGED <<disk, row>>
    /\ SameGateway /\ SameHistory /\ Elsewhere

\* Variant: recovery removes the journal without rebasing it first.
RebaseSkipped ==
    /\ at = "rebase"
    /\ NoFault
    /\ Goto("clear")
    /\ Confirm
    /\ UNCHANGED <<disk, row>>
    /\ SameGateway /\ Elsewhere

\* The recovered frontend becomes the journal's target, then the journal goes.
Rebase ==
    /\ at = "rebase"
    /\ \/ NoFault /\ Goto("clear")
       \/ Fault /\ Return("error")
    /\ \/ journal' = [prev |-> conf, active |-> TRUE] /\ Confirm
       \/ faults' # faults /\ journal' = journal /\ SameHistory
    /\ UNCHANGED <<conf, files, row>>
    /\ SameGateway /\ Elsewhere

Clear ==
    /\ at = "clear"
    /\ \/ NoFault /\ journal' = None /\ Goto("prepare")
       \/ Fault /\ journal' = journal /\ Return("error")
    /\ UNCHANGED <<conf, files, row>>
    /\ SameGateway /\ SameHistory /\ Elsewhere

-----------------------------------------------------------------------------
\* The frontend a call applies.  TLS without material takes the pair that
\* radosgw.conf names; new certificates keep the listeners and need a running
\* gateway with TLS.
OwnPair == conf.line # None /\ conf.line.dir # None

Resolves ==
    IF op = "enable" THEN asked.pair = Reuse => OwnPair /\ Usable(conf.line)
                     ELSE active /\ OwnPair

Resolved ==
    IF op = "enable"
    THEN [port |-> asked.port,
          dir |-> IF asked.pair = Reuse THEN Content(conf.line.dir) ELSE asked.pair]
    ELSE [port |-> conf.line.port, dir |-> asked.pair]

Prepare ==
    /\ at = "prepare"
    /\ \/ /\ NoFault
          /\ Resolves
          /\ at' = "decide"
          /\ spec' = Resolved
          /\ wasActive' = active
          /\ UNCHANGED <<op, asked, rb, mons, answer>>
       \/ NoFault /\ ~Resolves /\ Return("error")
       \/ Fault /\ Return("error")
    /\ UNCHANGED <<disk, row>>
    /\ SameGateway /\ SameHistory /\ Elsewhere

\* applyRGWFrontend takes radosgwConfMu, compares, and keeps what it replaces.
Decide ==
    /\ at = "decide"
    /\ \/ /\ NoFault
          /\ IF conf.line # spec \/ ~Usable(spec)
             THEN /\ rb' = [prev |-> conf, active |-> wasActive,
                            published |-> spec.dir, changed |-> FALSE]
                  /\ at' = IF spec.dir # None THEN "stageCrt" ELSE "mark"
             ELSE /\ rb' = None
                  /\ at' = IF op = "deferred" THEN "finish" ELSE "start"
          /\ UNCHANGED <<op, asked, spec, wasActive, mons, answer>>
       \/ Fault /\ Return("error")
    /\ UNCHANGED <<disk, row>>
    /\ SameGateway /\ SameHistory /\ Elsewhere

\* stageRGWTLSGeneration: the certificate, then the key, unless both are there.
WriteFile(f) == [files EXCEPT ![spec.dir] = @ \cup {f}]

StageCrt ==
    /\ at = "stageCrt"
    /\ \/ NoFault /\ files[spec.dir] = Both /\ files' = files /\ Goto("mark")
       \/ NoFault /\ files[spec.dir] # Both /\ files' = WriteFile("crt") /\ Goto("stageKey")
       \/ Fault /\ files' \in {files, WriteFile("crt")} /\ Undo(rb)
    /\ UNCHANGED <<conf, journal, row>>
    /\ SameGateway /\ SameHistory /\ Elsewhere

StageKey ==
    /\ at = "stageKey"
    /\ \/ NoFault /\ files' = WriteFile("key") /\ Goto("mark")
       \/ Fault /\ files' \in {files, WriteFile("key")} /\ Undo(rb)
    /\ UNCHANGED <<conf, journal, row>>
    /\ SameGateway /\ SameHistory /\ Elsewhere

\* writePendingApplyMarker with the configuration that is about to be replaced.
Mark ==
    /\ at = "mark"
    /\ LET marker == [prev |-> conf, active |-> wasActive]
       IN  \/ NoFault /\ journal' = marker /\ Goto("publish")
           \/ Fault /\ journal' \in {journal, marker} /\ Undo(rb)
    /\ UNCHANGED <<conf, files, row>>
    /\ SameGateway /\ SameHistory /\ Elsewhere

\* Variant: the whole file is replaced by the rendered one.
DesiredRendered == [line |-> spec, mons |-> mons]

\* Only the frontend line is replaced: the mon host line on disk may be newer
\* than the one this call has rendered.
Desired == [line |-> spec, mons |-> IF conf.line = None THEN mons ELSE conf.mons]

Publish ==
    /\ at = "publish"
    /\ \/ /\ NoFault
          /\ conf' = Desired
          /\ IF op = "deferred" THEN Return("ok") ELSE Goto("start")
       \/ Fault /\ conf' \in {conf, Desired} /\ Undo(rb)
    /\ UNCHANGED <<files, journal, row>>
    /\ SameGateway /\ SameHistory /\ Elsewhere

-----------------------------------------------------------------------------
\* A stopped gateway is started, a changed one restarted.
Started == IF rb = None THEN None ELSE [rb EXCEPT !.changed = TRUE]

\* Variant: a gateway that runs is left alone.
StartStoppedOnly ==
    /\ at = "start"
    /\ NoFault
    /\ IF wasActive THEN SameGateway ELSE RunGateway
    /\ at' = "check"
    /\ rb' = Started
    /\ UNCHANGED <<op, asked, spec, wasActive, mons, answer>>
    /\ UNCHANGED <<disk, row>>
    /\ SameHistory /\ Elsewhere

Start ==
    /\ at = "start"
    /\ \/ NoFault /\ wasActive /\ rb = None /\ SameGateway /\ Goto("check")
       \/ /\ NoFault
          /\ ~wasActive \/ rb # None
          /\ RunGateway
          /\ at' = "check"
          /\ rb' = Started
          /\ UNCHANGED <<op, asked, spec, wasActive, mons, answer>>
       \/ /\ Fault
          /\ ~wasActive \/ rb # None
          /\ RunGateway \/ SameGateway
          /\ Undo(Started)
    /\ UNCHANGED <<disk, row>>
    /\ SameHistory /\ Elsewhere

Check ==
    /\ at = "check"
    /\ \/ NoFault /\ Ready(spec) /\ Goto(IF op = "enable" THEN "post" ELSE "finish")
       \/ NoFault /\ ~Ready(spec) /\ Undo(rb)
       \/ Fault /\ Undo(rb)
    /\ UNCHANGED <<disk, row>>
    /\ SameGateway /\ SameHistory /\ Elsewhere

PostPlacementCheck ==
    /\ at = "post"
    /\ \/ NoFault /\ active /\ Goto("record")
       \/ NoFault /\ ~active /\ Undo(rb)
       \/ Fault /\ Undo(rb)
    /\ UNCHANGED <<disk, row>>
    /\ SameGateway /\ SameHistory /\ Elsewhere

\* DbUpdate: both rows in one transaction.
DbUpdate ==
    /\ at = "record"
    /\ LET record == [port |-> asked.port, ssl |-> asked.pair # None]
       IN  \/ NoFault /\ row' = record /\ Goto("finish")
           \/ Fault /\ row' \in {row, record} /\ Undo(rb)
    /\ UNCHANGED disk
    /\ SameGateway /\ SameHistory /\ Elsewhere

\* finishRGWApply.  A placement that cannot remove its journal points it at
\* the configuration just confirmed, as well as it can, and succeeds.
Finish ==
    /\ at = "finish"
    /\ \/ /\ NoFault
          /\ journal' = None
          /\ IF op = "deferred" THEN SameHistory ELSE Confirm
          /\ Goto("prune")
       \/ /\ Fault
          /\ op = "enable"
          /\ \/ journal' = [prev |-> conf, active |-> TRUE] /\ Confirm
             \/ journal' = journal /\ SameHistory
          /\ Return("ok")
       \/ Fault /\ op # "enable" /\ journal' = journal /\ SameHistory /\ Return("error")
    /\ UNCHANGED <<conf, files, row>>
    /\ SameGateway /\ Elsewhere

Prune ==
    /\ at = "prune"
    /\ Delete(Unnamed)
    /\ Return("ok")
    /\ UNCHANGED <<conf, journal, row>>
    /\ SameGateway /\ SameHistory /\ Elsewhere

-----------------------------------------------------------------------------
\* rgwRollback.restore.  The previous frontend line goes back into the current
\* file, so that newer mon host lines survive.
Restored ==
    IF rb.prev.line = None THEN NoConf
    ELSE IF conf.line = None THEN rb.prev
    ELSE [conf EXCEPT !.line = rb.prev.line]

\* Variant: only the file is restored, not the service.
UndoConfOnly ==
    /\ at = "undoConf"
    /\ NoFault
    /\ conf' = Restored
    /\ Goto("undoJournal")
    /\ UNCHANGED <<files, journal, row>>
    /\ SameGateway /\ SameHistory /\ Elsewhere

UndoConf ==
    /\ at = "undoConf"
    /\ \/ NoFault /\ conf' = Restored /\ Goto(IF rb.changed THEN "undoService" ELSE "undoJournal")
       \/ Fault /\ conf' \in {conf, Restored} /\ Return("error")
    /\ UNCHANGED <<files, journal, row>>
    /\ SameGateway /\ SameHistory /\ Elsewhere

UndoService ==
    /\ at = "undoService"
    /\ \/ NoFault /\ rb.active /\ ~Usable(rb.prev.line) /\ SameGateway /\ Return("error")
       \/ NoFault /\ rb.active /\ Usable(rb.prev.line) /\ RunGateway /\ Goto("undoCheck")
       \/ NoFault /\ ~rb.active /\ StopGateway /\ Goto("undoJournal")
       \/ /\ Fault
          /\ \/ SameGateway
             \/ rb.active /\ Usable(rb.prev.line) /\ RunGateway
             \/ ~rb.active /\ StopGateway
          /\ Return("error")
    /\ UNCHANGED <<disk, row>>
    /\ SameHistory /\ Elsewhere

UndoCheck ==
    /\ at = "undoCheck"
    /\ \/ NoFault /\ Ready(rb.prev.line) /\ Goto("undoJournal")
       \/ NoFault /\ ~Ready(rb.prev.line) /\ Return("error")
       \/ Fault /\ Return("error")
    /\ UNCHANGED <<disk, row>>
    /\ SameGateway /\ SameHistory /\ Elsewhere

UndoJournal ==
    /\ at = "undoJournal"
    /\ \/ NoFault /\ journal' = None /\ Goto("undoPrune")
       \/ Fault /\ journal' = journal /\ Return("error")
    /\ UNCHANGED <<conf, files, row>>
    /\ SameGateway /\ SameHistory /\ Elsewhere

\* The generation this call staged, unless the restored line names it, and
\* then everything else that the restored file does not name.
UndoPrune ==
    /\ at = "undoPrune"
    /\ Delete(Unnamed \cup ({rb.published} \ {None, IF rb.prev.line = None THEN None
                                                    ELSE rb.prev.line.dir}))
    /\ Return("error")
    /\ UNCHANGED <<conf, journal, row>>
    /\ SameGateway /\ SameHistory /\ Elsewhere

-----------------------------------------------------------------------------
\* DisableRGW: the service, the record, the TLS material, the configuration,
\* the journal.  Failed deletions are collected and the rest goes on.
Stop ==
    /\ at = "stop"
    /\ \/ NoFault /\ StopGateway /\ Goto("drop")
       \/ Fault /\ (StopGateway \/ SameGateway) /\ Return("error")
    /\ UNCHANGED <<disk, row>>
    /\ SameHistory /\ Elsewhere

Drop ==
    /\ at = "drop"
    /\ \/ NoFault /\ row' = None /\ Goto("wipe")
       \/ Fault /\ row' \in {row, None} /\ Return("error")
    /\ UNCHANGED disk
    /\ SameGateway /\ SameHistory /\ Elsewhere

\* The answer is an error from the first failed deletion on.
Collect(place) ==
    /\ at' = place
    /\ answer' = IF faults' # faults THEN "error" ELSE answer
    /\ UNCHANGED local

Wipe ==
    /\ at = "wipe"
    /\ Delete(Dirs)
    /\ leftover' = TRUE
    /\ Collect("wipeConf")
    /\ UNCHANGED <<conf, journal, row, good>>
    /\ SameGateway /\ Elsewhere

WipeConf ==
    /\ at = "wipeConf"
    /\ \/ NoFault /\ conf' = NoConf
       \/ Fault /\ conf' = conf
    /\ Collect("wipeJournal")
    /\ UNCHANGED <<files, journal, row>>
    /\ SameGateway /\ SameHistory /\ Elsewhere

WipeJournal ==
    /\ at = "wipeJournal"
    /\ \/ NoFault /\ journal' = None /\ answer # "error" /\ Confirm /\ Return("ok")
       \/ NoFault /\ journal' = None /\ answer = "error" /\ SameHistory /\ Return("error")
       \/ Fault /\ journal' = journal /\ SameHistory /\ Return("error")
    /\ UNCHANGED <<conf, files, row>>
    /\ SameGateway /\ Elsewhere

-----------------------------------------------------------------------------
\* microcephd is restarted; its call and its refresh loop start over.
Crash ==
    /\ crashes < MaxCrashes
    /\ faults + crashes < MaxTroubles
    /\ crashes' = crashes + 1
    /\ Forget
    /\ answer' = "lost"
    /\ seen' = 0
    /\ old' = 0
    /\ booting' = TRUE
    /\ UNCHANGED <<disk, gateway, row, monitors, faults, ghost>>

\* reEnableServices, once after a restart.
ReEnable ==
    /\ booting
    /\ at = "idle"
    /\ booting' = FALSE
    /\ \/ NoFault /\ row # None /\ ~active /\ RunGateway
       \/ NoFault /\ (row = None \/ active) /\ SameGateway
       \/ Fault /\ row # None /\ ~active /\ SameGateway
    /\ UNCHANGED <<disk, row, at, local, answer, loop, crashes>>
    /\ SameHistory

\* An operator, or a reboot of the host, restarts the gateway.
GatewayRestarted ==
    /\ active
    /\ meddled' = (meddled \/ at # "idle")
    /\ IF Usable(conf.line)
       THEN active' = TRUE /\ loaded' = View(conf.line)
       ELSE active' \in BOOLEAN /\ loaded' = None
    /\ UNCHANGED <<disk, row, at, local, answer, loop, booting, faults, crashes,
                   good, leftover>>

\* The gateway ends by itself or is stopped by an operator.
GatewayStopped ==
    /\ Fault
    /\ active
    /\ active' = FALSE
    /\ loaded' = None
    /\ UNCHANGED <<disk, row, at, local, answer, loop, booting, crashes, ghost>>

MonitorsChange ==
    /\ monitors < MaxMonitors
    /\ monitors' = monitors + 1
    /\ UNCHANGED <<disk, gateway, row, at, local, answer, seen, old, booting,
                   faults, crashes, ghost>>

\* The loop of Start: unless the monitors are the ones it knows, it reads them
\* and, under radosgwConfMu, rewrites the mon host line of an existing file.
ConfLocked == at \in {"stageCrt", "stageKey", "mark", "publish", "clear", "wipeJournal"}

RefreshRead ==
    /\ seen = 0
    /\ old # monitors
    /\ seen' = monitors
    /\ UNCHANGED <<disk, gateway, row, at, local, answer, monitors, old, booting,
                   faults, crashes, ghost>>

RefreshWrite ==
    /\ seen # 0
    /\ ~ConfLocked
    /\ seen' = 0
    /\ \/ /\ NoFault
          /\ old' = seen
          /\ conf' = IF conf.line = None THEN conf ELSE [conf EXCEPT !.mons = seen]
       \/ Fault /\ UNCHANGED <<old, conf>>
    /\ UNCHANGED <<files, journal, gateway, row, at, local, answer, monitors,
                   booting, crashes, ghost>>

-----------------------------------------------------------------------------
Init ==
    /\ \E line \in {None} \cup [port : Ports, dir : {None, Legacy}] :
          /\ conf = [line |-> line, mons |-> IF line = None THEN 0 ELSE 1]
          /\ active = (line # None)
          /\ loaded = IF line = None THEN None ELSE View(line)
          /\ row = IF line = None THEN None
                   ELSE [port |-> line.port, ssl |-> line.dir # None]
          /\ good = line
          /\ files = [d \in Dirs |-> IF line # None /\ d = Legacy /\ line.dir = Legacy
                                     THEN Both ELSE {}]
    /\ journal = None
    /\ at = "idle" /\ op = "none" /\ asked = NoRequest /\ spec = None
    /\ wasActive = FALSE /\ rb = None /\ mons = 0 /\ answer = "none"
    /\ monitors = 1 /\ seen = 0 /\ old = 0 /\ booting = FALSE
    /\ faults = 0 /\ crashes = 0
    /\ leftover = FALSE /\ meddled = FALSE

CallStep ==
    \/ Recover \/ Reload \/ Recheck \/ Rebase \/ Clear
    \/ Prepare \/ Decide \/ StageCrt \/ StageKey \/ Mark \/ Publish
    \/ Start \/ Check \/ PostPlacementCheck \/ DbUpdate \/ Finish \/ Prune
    \/ UndoConf \/ UndoService \/ UndoCheck \/ UndoJournal \/ UndoPrune
    \/ Stop \/ Drop \/ Wipe \/ WipeConf \/ WipeJournal

Next ==
    \/ \E o \in Ops : \E r \in Asks(o) : Begin(o, r)
    \/ CallStep
    \/ Crash \/ ReEnable
    \/ GatewayRestarted \/ GatewayStopped
    \/ MonitorsChange \/ RefreshRead \/ RefreshWrite

Spec == Init /\ [][Next]_vars

\* The call runs in a handler that has deadlines for all it waits for; the
\* refresh loop and the re-enabling of services are goroutines of microcephd.
\* A sync.Mutex is handed to whoever waits long enough, so that a stream of
\* calls does not keep the refresh from radosgwConfMu.
FairSpec ==
    /\ Spec
    /\ WF_vars(CallStep)
    /\ WF_vars(RefreshRead)
    /\ SF_vars(RefreshWrite)
    /\ WF_vars(ReEnable)

-----------------------------------------------------------------------------
Places ==
    {"idle", "recover", "reload", "recheck", "rebase", "clear", "prepare",
     "decide", "stageCrt", "stageKey", "mark", "publish", "start", "check",
     "post", "record", "finish", "prune", "undoConf", "undoService",
     "undoCheck", "undoJournal", "undoPrune", "stop", "drop", "wipe",
     "wipeConf", "wipeJournal"}

\* The types of the variables.
RgwTypeOK ==
    /\ conf \in Confs
    /\ files \in [Dirs -> SUBSET Both]
    /\ journal \in Journals \cup {None}
    /\ active \in BOOLEAN
    /\ loaded \in Served \cup {None}
    /\ row \in Rows \cup {None}
    /\ at \in Places
    /\ op \in Ops \cup {"none"}
    /\ asked \in Requests
    /\ spec \in Lines \cup {None}
    /\ wasActive \in BOOLEAN
    /\ rb \in Rollbacks \cup {None}
    /\ mons \in 0..MaxMonitors
    /\ answer \in {"none", "ok", "error", "lost"}
    /\ monitors \in 1..MaxMonitors
    /\ seen \in 0..MaxMonitors
    /\ old \in 0..MaxMonitors
    /\ booting \in BOOLEAN
    /\ faults \in 0..MaxFaults
    /\ crashes \in 0..MaxCrashes
    /\ good \in Lines \cup {None}
    /\ leftover \in BOOLEAN
    /\ meddled \in BOOLEAN

\* At every moment, whatever failed or crashed before, the frontend last
\* confirmed to be served can be had back: radosgw.conf or the journal names
\* it, and its pair is intact.  (While a removal of the gateway is unfinished
\* there is nothing to go back to.)
LastGoodIsKept ==
    leftover \/ /\ good # None => Usable(good)
                /\ \/ conf.line = good
                   \/ journal # None /\ journal.prev.line = good

\* Without a journal and without a call, a running gateway serves what
\* radosgw.conf says: no mismatch goes unnoticed by the next recovery.
\* (Unless somebody restarted the gateway in the middle of a call, or a removal
\* of the gateway is unfinished.)
SettledIsServed ==
    /\ at = "idle" /\ journal = None
    /\ active /\ conf.line # None
    /\ ~meddled /\ ~leftover
    => loaded = View(conf.line)

\* Changing the frontend, forward or back, never touches the mon host line of
\* an existing radosgw.conf, which the refresh loop may just have renewed.
MonHostIsKept ==
    [][conf.line # None /\ conf'.line # None /\ conf'.line # conf.line =>
          conf'.mons = conf.mons]_vars

\* The journal wants a gateway back that was active without a configuration,
\* which rgwFrontendFromConfig refuses.  Once radosgw.conf is gone as well, only
\* DisableRGW gets past this journal.
Unrestorable == journal # None /\ journal.active /\ journal.prev.line = None

\* When commands stop failing and someone keeps asking for a frontend with all
\* it needs, a placement eventually succeeds: no half-staged pair, half-finished
\* rollback or other journal gets in the way for good.  (Unless an unrestorable
\* journal stays, or others keep restarting the gateway in the middle of calls.)
RetrySucceeds ==
    /\ []<>(at = "recover" /\ op = "enable" /\ asked.pair # Reuse)
    /\ []<>~Unrestorable
    /\ <>[]~meddled
    => []<>(answer = "ok")
=============================================================================
