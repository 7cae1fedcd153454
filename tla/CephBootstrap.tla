---------------------------- MODULE CephBootstrap ----------------------------
(***************************************************************************)
(* The Ceph-only bootstrap of a cluster created with --defer-ceph          *)
(* (ceph/bootstrap_ceph.go).  Any member may be asked to bootstrap Ceph,   *)
(* several may be asked at once and each may be asked again.  The single   *)
(* cluster_lifecycle row says how far the bootstrap is; the config rows    *)
(* (fsid and admin keyring, written together) say which Ceph cluster this  *)
(* deployment has.                                                         *)
(*                                                                         *)
(* cephBootstrapMu lets one call through on each member, so a member is in *)
(* at most one call: at[m] is where it stands.  A call that finds the      *)
(* mutex taken, or names no known member, is answered and changes nothing. *)
(* Every attempt draws a new fsid, here its number.                        *)
(***************************************************************************)
EXTENDS Integers

CONSTANTS
    Members,   \* the cluster members
    Flags,     \* the values of --force that operators use
    MaxTries   \* bound: attempts that get past the lifecycle row

VARIABLES
    lifecycle, \* cluster_lifecycle.ceph_bootstrap_state
    fsid,      \* the fsid of the config rows, 0 when there are none
    conf,      \* the fsid of each member's ceph.conf and admin keyring
    refreshed, \* each daemon's refresh loop has seen the monitors there are
    running,   \* the fsid of the monitor that runs on each member
    ready,     \* the Ceph cluster is complete: managers, CRUSH rules, settings
    at,        \* where each member's call stands
    forced,    \* its --force
    mine,      \* the fsid it drew
    failed,    \* the bootstrap steps returned an error
    answer,    \* what the last call on each member was answered
    tries,     \* the attempts so far
    lost,      \* some attempt ended without recording its result
    everForced \* some call has used --force

dbVars == <<lifecycle, fsid>>
hostVars == <<conf, refreshed, running, ready>>
callVars == <<forced, mine, failed>>
vars == <<dbVars, hostVars, callVars, at, answer, tries, lost, everForced>>

States == {"not_bootstrapped", "in_progress", "bootstrapped", "failed"}
Steps == {"files", "populate", "mon", "build"}
Attempting == Steps \cup {"mark", "record"}
Places == {"idle", "recover", "verify", "heal", "start"} \cup Attempting
Answers == {"none", "ok", "busy", "partial", "error"}

ASSUME BootAssumption == MaxTries \in Nat /\ Flags \subseteq BOOLEAN

\* DeferredBootstrapper.Bootstrap has recorded that there is no Ceph yet.
Init ==
    /\ lifecycle = "not_bootstrapped" /\ fsid = 0
    /\ conf = [m \in Members |-> 0]
    /\ refreshed = [m \in Members |-> FALSE]
    /\ running = [m \in Members |-> 0]
    /\ ready = FALSE
    /\ at = [m \in Members |-> "idle"]
    /\ forced = [m \in Members |-> FALSE]
    /\ mine = [m \in Members |-> 0]
    /\ failed = [m \in Members |-> FALSE]
    /\ answer = [m \in Members |-> "none"]
    /\ tries = 0
    /\ lost = FALSE
    /\ everForced = FALSE

Go(m, place) == at' = [at EXCEPT ![m] = place] /\ UNCHANGED answer

\* The call returns; its locals are gone.
Return(m, a) ==
    /\ at' = [at EXCEPT ![m] = "idle"]
    /\ answer' = [answer EXCEPT ![m] = a]
    /\ forced' = [forced EXCEPT ![m] = FALSE]
    /\ mine' = [mine EXCEPT ![m] = 0]
    /\ failed' = [failed EXCEPT ![m] = FALSE]

\* The bootstrap steps return an error, which is recorded next.
StepsFail(m) ==
    /\ Go(m, "record")
    /\ failed' = [failed EXCEPT ![m] = TRUE]
    /\ UNCHANGED <<forced, mine>>

Begin(m, f) ==
    /\ at[m] = "idle"
    /\ at' = [at EXCEPT ![m] = "recover"]
    /\ answer' = [answer EXCEPT ![m] = "none"]
    /\ forced' = [forced EXCEPT ![m] = f]
    /\ everForced' = (everForced \/ f)
    /\ UNCHANGED <<dbVars, hostVars, mine, failed, tries, lost>>

-----------------------------------------------------------------------------
(* recoverStaleBootstrappedLifecycle *)

\* Config rows under a lifecycle that does not say bootstrapped: is there Ceph?
\* The listing of the members before it, or the reading, may fail.
ReadStale(m) ==
    /\ at[m] = "recover"
    /\ \/ /\ Go(m, IF lifecycle # "bootstrapped" /\ fsid # 0 THEN "verify" ELSE "start")
          /\ UNCHANGED callVars
       \/ Return(m, "error")
    /\ UNCHANGED <<dbVars, hostVars, tries, lost, everForced>>

\* "ceph -s" with this member's own ceph.conf can reach a running monitor.
Reachable(m) == \E k \in Members : running[k] # 0 /\ running[k] = conf[m]

\* The command may fail even so.
Verify(m) ==
    /\ at[m] = "verify"
    /\ \/ Reachable(m) /\ Go(m, "heal") /\ UNCHANGED callVars
       \/ Return(m, "partial")
    /\ UNCHANGED <<dbVars, hostVars, tries, lost, everForced>>

\* The lifecycle is set to bootstrapped, in a transaction of its own; when it
\* reports an error, its commit may have happened.
Heal(m) ==
    /\ at[m] = "heal"
    /\ \/ lifecycle' = "bootstrapped" /\ Return(m, "ok")
       \/ lifecycle' \in {lifecycle, "bootstrapped"} /\ Return(m, "error")
    /\ UNCHANGED <<fsid, hostVars, tries, lost, everForced>>

-----------------------------------------------------------------------------
(* atomicStartBootstrap *)

\* What the start transaction finds: --force resets in_progress first.
Found(m) == IF forced[m] /\ lifecycle = "in_progress" THEN "failed" ELSE lifecycle

\* The conditional UPDATE to in_progress matches the row.
MayStart(m) == fsid = 0 /\ Found(m) \in {"not_bootstrapped", "failed"}

Start(m) ==
    /\ at[m] = "start"
    /\ MayStart(m)
    /\ tries < MaxTries
    /\ tries' = tries + 1
    /\ mine' = [mine EXCEPT ![m] = tries + 1]
    /\ lifecycle' = "in_progress"
    /\ Go(m, "files")
    /\ UNCHANGED <<fsid, hostVars, forced, failed, lost, everForced>>

\* The other ways out of the transaction; an error rolls --force's reset back.
StartRefused(m) ==
    /\ at[m] = "start"
    /\ ~MayStart(m)
    /\ Return(m, IF Found(m) = "bootstrapped" THEN "ok"
                 ELSE IF fsid # 0 THEN "partial" ELSE "busy")
    /\ UNCHANGED <<dbVars, hostVars, tries, lost, everForced>>

\* The transaction reports an error, and it may have been committed.
StartError(m) ==
    /\ at[m] = "start"
    /\ \/ UNCHANGED <<lifecycle, lost>>
       \/ MayStart(m) /\ lifecycle' = "in_progress" /\ lost' = TRUE
    /\ Return(m, "error")
    /\ UNCHANGED <<fsid, hostVars, tries, everForced>>

-----------------------------------------------------------------------------
(* prodBootstrapCephStepsFunc: SimpleBootstrapper on this member *)

\* Prefill, Precheck, ceph.conf and the keyrings.
WriteFiles(m) ==
    /\ at[m] = "files"
    /\ \/ conf' = [conf EXCEPT ![m] = mine[m]] /\ Go(m, "populate") /\ UNCHANGED callVars
       \/ conf' \in {conf, [conf EXCEPT ![m] = mine[m]]} /\ StepsFail(m)
    /\ UNCHANGED <<dbVars, refreshed, running, ready, tries, lost, everForced>>

\* Variant: existing config rows are overwritten.
PopulateOver(m) ==
    /\ at[m] = "populate"
    /\ fsid' = mine[m] /\ Go(m, "mon") /\ UNCHANGED callVars
    /\ UNCHANGED <<lifecycle, hostVars, tries, lost, everForced>>

\* PopulateBootstrapDatabase creates the service and config rows in one
\* transaction; rows that exist already make it fail.
Populate(m) ==
    /\ at[m] = "populate"
    /\ \/ fsid = 0 /\ fsid' = mine[m] /\ Go(m, "mon") /\ UNCHANGED callVars
       \/ fsid' \in {fsid, IF fsid = 0 THEN mine[m] ELSE fsid} /\ StepsFail(m)
    /\ UNCHANGED <<lifecycle, hostVars, tries, lost, everForced>>

\* initMon: the monitor is started and answers, or does not answer in time.
StartMon(m) ==
    /\ at[m] = "mon"
    /\ \/ running' = [running EXCEPT ![m] = mine[m]] /\ Go(m, "build") /\ UNCHANGED callVars
       \/ running' \in {running, [running EXCEPT ![m] = mine[m]]} /\ StepsFail(m)
    /\ UNCHANGED <<dbVars, conf, refreshed, ready, tries, lost, everForced>>

\* The other daemons, msgr2, the CRUSH rules and the default settings.
Build(m) ==
    /\ at[m] = "build"
    /\ \/ ready' = TRUE /\ Go(m, "mark") /\ UNCHANGED callVars
       \/ StepsFail(m) /\ UNCHANGED ready
    /\ UNCHANGED <<dbVars, conf, refreshed, running, tries, lost, everForced>>

\* MarkCephBootstrappedFunc; a failure is only logged.
Mark(m) ==
    /\ at[m] = "mark"
    /\ lifecycle' \in {"bootstrapped", lifecycle}
    /\ Go(m, "record")
    /\ UNCHANGED <<fsid, hostVars, callVars, tries, lost, everForced>>

-----------------------------------------------------------------------------
(* The result *)

\* Variant: only a success is recorded.
RecordSuccess(m) ==
    /\ at[m] = "record"
    /\ lifecycle' = IF failed[m] THEN lifecycle ELSE "bootstrapped"
    /\ Return(m, IF failed[m] THEN "error" ELSE "ok")
    /\ UNCHANGED <<fsid, hostVars, tries, lost, everForced>>

Record(m) ==
    /\ at[m] = "record"
    /\ lifecycle' = IF failed[m] THEN "failed" ELSE "bootstrapped"
    /\ Return(m, IF failed[m] THEN "error" ELSE "ok")
    /\ UNCHANGED <<fsid, hostVars, tries, lost, everForced>>

\* The recording transaction reports an error; its commit may have happened.
RecordError(m) ==
    /\ at[m] = "record"
    /\ lifecycle' \in {lifecycle, IF failed[m] THEN "failed" ELSE "bootstrapped"}
    /\ Return(m, "error")
    /\ lost' = TRUE
    /\ UNCHANGED <<fsid, hostVars, tries, everForced>>

\* microcephd dies and is started again.  Ceph's own daemons run on, and the
\* refresh loop begins anew.
Crash(m) ==
    /\ at[m] # "idle"
    /\ Return(m, "none")
    /\ lost' = (lost \/ at[m] \in Attempting)
    /\ refreshed' = [refreshed EXCEPT ![m] = FALSE]
    /\ UNCHANGED <<dbVars, conf, running, ready, tries, everForced>>

\* Variant: what the first iteration found is never looked at again.
RefreshFirst(m) ==
    /\ ~refreshed[m]
    /\ conf' = IF fsid = 0 THEN conf ELSE [conf EXCEPT ![m] = fsid]
    /\ refreshed' = [refreshed EXCEPT ![m] = TRUE]
    /\ UNCHANGED <<dbVars, running, ready, callVars, at, answer, tries, lost, everForced>>

\* The loop of Start: once there are monitors it has not seen, UpdateConfig
\* renders ceph.conf and the admin keyring from the config rows.
Refresh(m) ==
    /\ fsid # 0
    /\ ~refreshed[m]
    /\ conf' = [conf EXCEPT ![m] = fsid]
    /\ refreshed' = [refreshed EXCEPT ![m] = TRUE]
    /\ UNCHANGED <<dbVars, running, ready, callVars, at, answer, tries, lost, everForced>>

CallStep(m) ==
    \/ ReadStale(m) \/ Verify(m) \/ Heal(m)
    \/ Start(m) \/ StartRefused(m) \/ StartError(m)
    \/ WriteFiles(m) \/ Populate(m) \/ StartMon(m) \/ Build(m) \/ Mark(m)
    \/ Record(m) \/ RecordError(m)

Next ==
    \E m \in Members :
        \/ \E f \in Flags : Begin(m, f)
        \/ CallStep(m)
        \/ Crash(m)
        \/ Refresh(m)

Spec == Init /\ [][Next]_vars

\* A call runs under a deadline of its own, detached from the client's, and
\* the refresh loop never ends.
FairSpec ==
    /\ Spec
    /\ \A m \in Members : WF_vars(CallStep(m)) /\ WF_vars(Refresh(m))

-----------------------------------------------------------------------------
(* Properties *)

\* cephIsBootstrappedFunc, which placement requests ask.
cephIsBootstrapped == lifecycle = "bootstrapped" \/ fsid # 0

\* The types of the variables.
BootTypeOK ==
    /\ lifecycle \in States
    /\ fsid \in 0..MaxTries
    /\ conf \in [Members -> 0..MaxTries] /\ running \in [Members -> 0..MaxTries]
    /\ refreshed \in [Members -> BOOLEAN] /\ ready \in BOOLEAN
    /\ at \in [Members -> Places]
    /\ forced \in [Members -> BOOLEAN] /\ failed \in [Members -> BOOLEAN]
    /\ mine \in [Members -> 0..MaxTries]
    /\ answer \in [Members -> Answers]
    /\ tries \in 0..MaxTries
    /\ lost \in BOOLEAN /\ everForced \in BOOLEAN

\* A second bootstrap never brings up "divergent Ceph clusters": every monitor
\* that was ever started belongs to the cluster the config rows name, however
\* often --force was used next to a live bootstrap.
OneClusterRuns == \A m \in Members : running[m] # 0 => running[m] = fsid

\* The conditional UPDATE prevents "two members from racing to bootstrap": as
\* long as nobody uses --force, one attempt runs at a time, whatever crashed
\* and whichever stale lifecycle was healed in between.
OneAttempt ==
    ~everForced =>
        \A m, k \in Members : at[m] \in Attempting /\ at[k] \in Attempting => m = k

\* A lifecycle of bootstrapped, and a call answered with success (the no-op
\* and the healed row included), mean there is a Ceph monitor to talk to.
SuccessMeansCeph ==
    lifecycle = "bootstrapped" \/ (\E m \in Members : answer[m] = "ok")
        => fsid # 0 /\ \E m \in Members : running[m] = fsid

\* in_progress belongs to an attempt that will still record its result, unless
\* a crash or a failed write kept one from doing so ("stranded").
InProgressIsOwned ==
    lifecycle = "in_progress" => lost \/ \E m \in Members : at[m] \in Attempting

\* Once placement was allowed it stays allowed: cephIsBootstrappedFunc never
\* turns false again, although a failing bootstrap may overwrite a lifecycle
\* another member has already healed.
StaysBootstrapped == [][cephIsBootstrapped => cephIsBootstrapped']_vars

\* Without --force every member ends up with the ceph.conf of the cluster
\* there is, the ones on which an attempt failed or crashed half-way included.
ConfConverges ==
    \A m \in Members : fsid # 0 ~> ([](conf[m] = fsid) \/ everForced)

\* "On failure, it records the error detail in the lifecycle state": an
\* attempt does not stay in_progress forever unless its result was lost.
ResultIsRecorded == lifecycle = "in_progress" ~> (lifecycle # "in_progress" \/ lost)
=============================================================================
