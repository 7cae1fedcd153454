---------------------------- MODULE PlacementApply ----------------------------
(***************************************************************************)
(* The declarative placement engine (ceph/placement.go) behind             *)
(* PUT and DELETE /1.0/placement.  A PUT takes the apply lock, validates   *)
(* and stores the policy, then reconciles: control services are added      *)
(* before any is removed, a removal needs another viable daemon to stay,   *)
(* and gateways are enabled before any is disabled.                        *)
(*                                                                         *)
(* Adds and removals run on the target member, in EnableService and        *)
(* DeleteService under that member's serviceStartMu; job[m] is the one     *)
(* that has the mutex.  The request waits for its answer.  A call whose    *)
(* context has ended is one of the failures every call may have.           *)
(***************************************************************************)
EXTENDS PlacementLock, FiniteSets

CONSTANTS
    Members,     \* the cluster members
    Services,    \* the control services
    Before(_, _),\* the order of controlServices
    Policies,    \* the policies clients PUT
    NoPolicy,    \* no policy is stored
    NoRequest,   \* nobody
    MaxDeaths,   \* bound: control daemons that stop being viable by themselves
    MaxOrphans,  \* bound: calls that outlive the request that made them
    MaxManual,   \* bound: DELETE /services/<svc> calls by operators
    MaxLost,     \* bound: applies that end without recording their result
    MaxTroubles  \* bound: all of the above together

VARIABLES
    stored,      \* placement_policy.policy_json (NoPolicy: not active)
    refusal,     \* placement_policy.last_refusal, as the set of its causes
    booted,      \* Ceph is bootstrapped
    rows,        \* services table: the members with a row of each service
    active,      \* the members whose snap service is active
    healthy,     \* the members whose daemon Ceph reports viable
    monmap,      \* the committed monmap
    rgw,         \* the members with an enabled gateway
    job,         \* the EnableService or DeleteService running on each member
    at,          \* where each request stands in its handler
    policy,      \* the policy of its body
    observed,    \* its observedControl map
    viable,      \* its viableControl map
    refused,     \* the removals it refused
    todo,        \* the members its RGW loop has still to call
    outcome,     \* the causes of the error it will return, {} for success
    spent        \* how much of each bound was used

rowVars == <<stored, refusal>>
cephVars == <<booted, rows, active, healthy, monmap, rgw>>
localVars == <<policy, observed, viable, refused, todo, outcome>>
vars == <<lockVars, rowVars, cephVars, job, at, localVars, spent>>

Causes == {"rejected", "failed", "keepone"}
Reconciling == {"observe", "add", "addWait", "remove", "removeWait", "rgwOn", "rgwOff"}
Places == {"none", "validate", "store", "record", "clear"} \cup Reconciling
Faults == {"deaths", "orphans", "manual", "lost"}
Limit(f) == IF f = "deaths" THEN MaxDeaths ELSE IF f = "orphans" THEN MaxOrphans
            ELSE IF f = "manual" THEN MaxManual ELSE MaxLost

NoService == [s \in Services |-> {}]
NoJob == [op |-> "none", svc |-> CHOOSE s \in Services : TRUE, from |-> NoRequest, done |-> FALSE]

\* A job whose caller is gone, and a job that has changed the daemon.
Orphan(j) == [op |-> j.op, svc |-> j.svc, from |-> NoRequest, done |-> j.done]
Changed(j) == [op |-> j.op, svc |-> j.svc, from |-> j.from, done |-> TRUE]

Operations == {"none", "enable", "delete"}
Jobs == [op : Operations, svc : Services, from : Requests \cup {NoRequest}, done : BOOLEAN]

\* A policy maps the members it names to a control and an rgw intent.
Named(p) == DOMAIN p.control
ControlOn(p) == {m \in Named(p) : p.control[m] = "true"}
ControlOff(p) == {m \in Named(p) : p.control[m] = "false"}
RgwOn(p) == {m \in Named(p) : p.rgw[m] \in {"on", "tls", "tlsBare"}}
RgwOff(p) == {m \in Named(p) : p.rgw[m] = "off"}

\* policyForStorage: TLS material is not stored.
policyForStorage(p) ==
    [p EXCEPT !.rgw = [m \in Named(p) |-> IF p.rgw[m] = "tls" THEN "tlsBare" ELSE p.rgw[m]]]

ASSUME ApplyAssumption ==
    /\ NoRequest \notin Requests
    /\ Services # {}
    /\ NoPolicy \notin Policies
    /\ \A p \in Policies : NoPolicy # policyForStorage(p)
    /\ {MaxDeaths, MaxOrphans, MaxManual, MaxLost, MaxTroubles} \subseteq Nat

Stored == {NoPolicy} \cup {policyForStorage(p) : p \in Policies}

Init ==
    /\ LockInit
    /\ stored = NoPolicy /\ refusal = {}
    /\ booted = FALSE
    /\ rows = NoService /\ active = NoService /\ healthy = NoService
    /\ monmap = {} /\ rgw = {}
    /\ job = [m \in Members |-> NoJob]
    /\ at = [r \in Requests |-> "none"]
    /\ policy = [r \in Requests |-> NoPolicy]
    /\ observed = [r \in Requests |-> NoService]
    /\ viable = [r \in Requests |-> NoService]
    /\ refused = [r \in Requests |-> {}]
    /\ todo = [r \in Requests |-> {}]
    /\ outcome = [r \in Requests |-> {}]
    /\ spent = [f \in Faults |-> 0]

Go(r, place) == at' = [at EXCEPT ![r] = place]

\* A handler's locals are gone when it returns.
Forget(r) ==
    /\ Go(r, "none")
    /\ policy' = [policy EXCEPT ![r] = NoPolicy]
    /\ observed' = [observed EXCEPT ![r] = NoService]
    /\ viable' = [viable EXCEPT ![r] = NoService]
    /\ refused' = [refused EXCEPT ![r] = {}]
    /\ todo' = [todo EXCEPT ![r] = {}]
    /\ outcome' = [outcome EXCEPT ![r] = {}]

Spend(f) ==
    /\ spent[f] < Limit(f)
    /\ spent["deaths"] + spent["orphans"] + spent["manual"] + spent["lost"] < MaxTroubles
    /\ spent' = [spent EXCEPT ![f] = @ + 1]

\* ApplyPlacementPolicy leaves with an error; an earlier keep-one refusal is
\* retained next to it (retainRefusals).
GiveUp(r, cause) ==
    /\ Go(r, "record")
    /\ outcome' = [outcome EXCEPT
         ![r] = {cause} \cup (IF refused[r] # {} THEN {"keepone"} ELSE {})]
    /\ UNCHANGED <<policy, observed, viable, refused, todo>>

-----------------------------------------------------------------------------
(* The handlers around the lock *)

PutBegin(r, p) ==
    /\ Begin(r, "put")
    /\ policy' = [policy EXCEPT ![r] = p]
    /\ UNCHANGED <<rowVars, cephVars, job, at, observed, viable, refused, todo,
                   outcome, spent>>

DeleteBegin(r) ==
    /\ Begin(r, "delete")
    /\ UNCHANGED <<rowVars, cephVars, job, at, localVars, spent>>

LockTaken(r) ==
    /\ Acquire(r)
    /\ Go(r, IF kind[r] = "put" THEN "validate" ELSE "clear")
    /\ UNCHANGED <<rowVars, cephVars, job, localVars, spent>>

LockRefused(r) ==
    /\ AcquireBusy(r) \/ AcquireError(r)
    /\ Forget(r)
    /\ UNCHANGED <<rowVars, cephVars, job, spent>>

Unlock(r) ==
    /\ Release(r) \/ ReleaseError(r)
    /\ UNCHANGED <<rowVars, cephVars, job, at, localVars, spent>>

Waiting(r) == {m \in Members : job[m].from = r}

\* The daemon serving r dies.  What it asked another member to do goes on.
Die(r) ==
    /\ Crash(r)
    /\ IF Waiting(r) # {} THEN Spend("orphans")
       ELSE IF at[r] # "none" THEN Spend("lost") ELSE UNCHANGED spent
    /\ job' = [m \in Members |->
                 IF job[m].from = r THEN Orphan(job[m]) ELSE job[m]]
    /\ Forget(r)
    /\ UNCHANGED <<rowVars, cephVars>>

Time == Tick /\ UNCHANGED <<rowVars, cephVars, job, at, localVars, spent>>

\* Variant: DELETE clears the row without taking the lock.
ClearUnlocked(r) ==
    /\ phase[r] = "starting" /\ kind[r] = "delete"
    /\ stored' = NoPolicy /\ refusal' = {}
    /\ phase' = [phase EXCEPT ![r] = "done"]
    /\ Forget(r)
    /\ UNCHANGED <<clock, lockToken, kind, start, token, cephVars, job, spent>>

\* cmdPlacementDelete: the row is cleared, or the transaction fails.
Clear(r) ==
    /\ at[r] = "clear"
    /\ \/ stored' = NoPolicy /\ refusal' = {}
       \/ UNCHANGED rowVars
    /\ Finish(r)
    /\ Forget(r)
    /\ UNCHANGED <<cephVars, job, spent>>

-----------------------------------------------------------------------------
(* ApplyPlacementPolicy *)

\* normalizePlacement and ValidatePlacement.  The waiting policy is valid even
\* before Ceph is bootstrapped.
Valid(p) ==
    /\ \A m \in Named(p) : p.rgw[m] # "bad"
    /\ Named(p) # {} => booted /\ Named(p) \subseteq Members

Validate(r) ==
    /\ at[r] = "validate"
    /\ \/ /\ Valid(policy[r])
          /\ Go(r, "store")
          /\ UNCHANGED localVars
       \/ ~Valid(policy[r]) /\ GiveUp(r, "rejected")
    /\ UNCHANGED <<lockVars, rowVars, cephVars, job, spent>>

Store(r) ==
    /\ at[r] = "store"
    /\ stored' = policyForStorage(policy[r])
    /\ Go(r, "observe")
    /\ UNCHANGED <<lockVars, refusal, cephVars, job, localVars, spent>>

\* The storing transaction reports an error; its commit may have happened.
StoreError(r) ==
    /\ at[r] = "store"
    /\ stored' \in {stored, policyForStorage(policy[r])}
    /\ GiveUp(r, "failed")
    /\ UNCHANGED <<lockVars, refusal, cephVars, job, spent>>

\* The result is written to last_refusal ("" on success) under a context of
\* its own.  A failed write is only logged.
Record(r) ==
    /\ at[r] = "record"
    /\ \/ refusal' = outcome[r] /\ UNCHANGED spent
       \/ Spend("lost") /\ UNCHANGED refusal
    /\ Finish(r)
    /\ Forget(r)
    /\ UNCHANGED <<stored, cephVars, job>>

-----------------------------------------------------------------------------
(* reconcilePlacement *)

AddsLeft(r, s) == ControlOn(policy[r]) \ observed[r][s]
RemovalsLeft(r, s) ==
    {m \in ControlOff(policy[r]) \cap observed[r][s] : <<s, m>> \notin refused[r]}

\* Variants: a row counts as a viable daemon; a member nobody asked about counts.
RetainersByRow(r, s, m) == (observed[r][s] \ ControlOff(policy[r])) \ {m}

\* The members other than m that keep s: observed, viable, and not on their
\* way out themselves.
Retainers(r, s, m) ==
    ((observed[r][s] \cap viable[r][s]) \ ControlOff(policy[r])) \ {m}

\* The next add, or the next removal, of the loops over controlServices.
NextAdd(r, s, m) ==
    /\ at[r] = "add" /\ m \in AddsLeft(r, s)
    /\ \A t \in Services : Before(t, s) => AddsLeft(r, t) = {}
NextRemoval(r, s, m) ==
    /\ at[r] = "remove" /\ m \in RemovalsLeft(r, s)
    /\ \A t \in Services : Before(t, s) => RemovalsLeft(r, t) = {}

\* A read, a listing or a call fails before it changed anything.
Fail(r) ==
    /\ \/ at[r] \in {"validate", "observe"} /\ Named(policy[r]) # {}
       \/ \E s \in Services, m \in Members : NextAdd(r, s, m)
       \/ \E s \in Services, m \in Members :
             NextRemoval(r, s, m) /\ Retainers(r, s, m) # {}
    /\ GiveUp(r, "failed")
    /\ UNCHANGED <<lockVars, rowVars, cephVars, job, spent>>

\* The waiting policy changes no service; any other starts from the rows.
Observe(r) ==
    /\ at[r] = "observe"
    /\ IF Named(policy[r]) = {} THEN Go(r, "record") /\ UNCHANGED observed
       ELSE Go(r, "add") /\ observed' = [observed EXCEPT ![r] = rows]
    /\ UNCHANGED <<lockVars, rowVars, cephVars, job, policy, viable, refused,
                   todo, outcome, spent>>

\* EnableService or DeleteService gets serviceStartMu on m and renders
\* ceph.conf; whoever asked waits.
Dispatch(m, op, s, from) ==
    /\ job[m] = NoJob
    /\ job' = [job EXCEPT ![m] = [op |-> op, svc |-> s, from |-> from, done |-> FALSE]]

AddService(r, s, m) ==
    /\ NextAdd(r, s, m)
    /\ Dispatch(m, "enable", s, r)
    /\ Go(r, "addWait")
    /\ UNCHANGED <<lockVars, rowVars, cephVars, localVars, spent>>

\* Ceph answers commands while a majority of the monmap is up.
HasQuorum == 2 * Cardinality(healthy["mon"]) > Cardinality(monmap)

\* controlServiceViability: when something is to be removed and somebody else
\* could keep it, each candidate counts only if Ceph reports it ready in time.
Candidates(r, s) == observed[r][s] \ ControlOff(policy[r])
Viability(r) ==
    /\ at[r] = "add"
    /\ \A s \in Services : AddsLeft(r, s) = {}
    /\ IF /\ \E s \in Services : RemovalsLeft(r, s) # {}
          /\ \E s \in Services : Candidates(r, s) # {}
       THEN \E ready \in [Services -> SUBSET Members] :
              /\ \A s \in Services :
                   ready[s] \subseteq (IF HasQuorum THEN Candidates(r, s) \cap healthy[s] ELSE {})
              /\ viable' = [viable EXCEPT ![r] =
                   [s \in Services |-> (observed[r][s] \cap ControlOff(policy[r])) \cup ready[s]]]
       ELSE viable' = [viable EXCEPT ![r] = observed[r]]
    /\ Go(r, "remove")
    /\ UNCHANGED <<lockVars, rowVars, cephVars, job, policy, observed, refused,
                   todo, outcome, spent>>

RefuseRemoval(r, s, m) ==
    /\ NextRemoval(r, s, m)
    /\ Retainers(r, s, m) = {}
    /\ refused' = [refused EXCEPT ![r] = @ \cup {<<s, m>>}]
    /\ UNCHANGED <<lockVars, rowVars, cephVars, job, at, policy, observed, viable,
                   todo, outcome, spent>>

RemoveService(r, s, m) ==
    /\ NextRemoval(r, s, m)
    /\ Retainers(r, s, m) # {}
    /\ Dispatch(m, "delete", s, r)
    /\ Go(r, "removeWait")
    /\ UNCHANGED <<lockVars, rowVars, cephVars, localVars, spent>>

RemovalsDone(r) ==
    /\ at[r] = "remove"
    /\ \A s \in Services : RemovalsLeft(r, s) = {}
    /\ Go(r, "rgwOn")
    /\ todo' = [todo EXCEPT ![r] = RgwOn(policy[r])]
    /\ UNCHANGED <<lockVars, rowVars, cephVars, job, policy, observed, viable,
                   refused, outcome, spent>>

-----------------------------------------------------------------------------
(* applyRgwPlacement: every gateway to enable is called whatever happened to
   the others; disabling is deferred when one of them failed. *)

\* A call that fails may or may not have changed the gateway.
RgwCall(r, m, after) ==
    /\ m \in todo[r]
    /\ todo' = [todo EXCEPT ![r] = @ \ {m}]
    /\ \/ rgw' = after /\ UNCHANGED outcome
       \/ rgw' \in {rgw, after} /\ outcome' = [outcome EXCEPT ![r] = {"failed"}]
    /\ UNCHANGED <<lockVars, rowVars, booted, rows, active, healthy, monmap, job,
                   at, policy, observed, viable, refused, spent>>

EnableRgw(r, m) == at[r] = "rgwOn" /\ RgwCall(r, m, rgw \cup {m})

DisableRgw(r, m) == at[r] = "rgwOff" /\ RgwCall(r, m, rgw \ {m})

\* Variant: gateways are disabled although one could not be enabled.
RgwEnabledAnyway(r) ==
    /\ at[r] = "rgwOn" /\ todo[r] = {}
    /\ Go(r, "rgwOff")
    /\ todo' = [todo EXCEPT ![r] = RgwOff(policy[r])]
    /\ UNCHANGED <<lockVars, rowVars, cephVars, job, policy, observed, viable,
                   refused, outcome, spent>>

RgwEnabled(r) ==
    /\ at[r] = "rgwOn" /\ todo[r] = {} /\ outcome[r] = {}
    /\ Go(r, "rgwOff")
    /\ todo' = [todo EXCEPT ![r] = RgwOff(policy[r])]
    /\ UNCHANGED <<lockVars, rowVars, cephVars, job, policy, observed, viable,
                   refused, outcome, spent>>

\* Variant: the keep-one refusals are forgotten.
RgwDoneUnrefused(r) ==
    /\ todo[r] = {}
    /\ at[r] = "rgwOff" \/ (at[r] = "rgwOn" /\ outcome[r] # {})
    /\ Go(r, "record")
    /\ UNCHANGED <<lockVars, rowVars, cephVars, job, localVars, spent>>

\* The end of reconcilePlacement: the RGW failures and the keep-one refusals.
RgwDone(r) ==
    /\ todo[r] = {}
    /\ at[r] = "rgwOff" \/ (at[r] = "rgwOn" /\ outcome[r] # {})
    /\ Go(r, "record")
    /\ outcome' = [outcome EXCEPT
         ![r] = @ \cup (IF refused[r] # {} THEN {"keepone"} ELSE {})]
    /\ UNCHANGED <<lockVars, rowVars, cephVars, job, policy, observed, viable,
                   refused, todo, spent>>

-----------------------------------------------------------------------------
(* EnableService and DeleteService on a member *)

With(f, s, m) == [f EXCEPT ![s] = @ \cup {m}]
Without(f, s, m) == [f EXCEPT ![s] = @ \ {m}]

\* The hospitality check, then the daemon is started.  It is active before
\* Ceph reports it; a new monitor joins the monmap by itself.
StartDaemon(m) ==
    LET s == job[m].svc IN
    /\ job[m].op = "enable" /\ ~job[m].done
    /\ HasQuorum
    /\ m \notin active[s]
    /\ active' = With(active, s, m)
    /\ job' = [job EXCEPT ![m] = Changed(job[m])]
    /\ UNCHANGED <<lockVars, rowVars, booted, rows, healthy, monmap, rgw, at,
                   localVars, spent>>

\* ensureMonAbsent: after the removal a majority of the monitors left must be
\* in quorum.  A monitor already out of the monmap is not counted again.
MonRemovable(m) ==
    LET left == monmap \ {m} IN
    m \in monmap =>
        HasQuorum /\ Cardinality(healthy["mon"] \cap left) >= Cardinality(left) \div 2 + 1

\* The daemon goes; a monitor leaves the monmap first, while it still runs.
StopDaemon(m) ==
    LET s == job[m].svc IN
    /\ job[m].op = "delete" /\ ~job[m].done
    /\ s = "mon" => MonRemovable(m)
    /\ active' = Without(active, s, m)
    /\ healthy' = Without(healthy, s, m)
    /\ monmap' = IF s = "mon" THEN monmap \ {m} ELSE monmap
    /\ job' = [job EXCEPT ![m] = Changed(job[m])]
    /\ UNCHANGED <<lockVars, rowVars, booted, rows, rgw, at, localVars, spent>>

\* The row is written (genericDbUpdate) or deleted (removeServiceDatabase;
\* for mgr and mds after Ceph confirmed the daemon is gone), and the request
\* that waits updates its maps.
JobDone(m) ==
    LET s == job[m].svc
        r == job[m].from
        adding == job[m].op = "enable"
    IN
    /\ job[m].op # "none" /\ job[m].done
    /\ adding <=> m \notin rows[s]
    /\ ~adding /\ s # "mon" => HasQuorum
    /\ rows' = IF adding THEN With(rows, s, m) ELSE Without(rows, s, m)
    /\ job' = [job EXCEPT ![m] = NoJob]
    /\ IF r = NoRequest THEN UNCHANGED <<at, observed, viable>>
       ELSE /\ Go(r, IF adding THEN "add" ELSE "remove")
            /\ observed' = [observed EXCEPT ![r] =
                 IF adding THEN With(@, s, m) ELSE Without(@, s, m)]
            /\ viable' = IF adding THEN viable
                         ELSE [viable EXCEPT ![r] = Without(@, s, m)]
    /\ UNCHANGED <<lockVars, rowVars, booted, active, healthy, monmap, rgw,
                   policy, refused, todo, outcome, spent>>

\* Variant: a failed job answers nobody.
JobFailsSilently(m) ==
    /\ job[m].op # "none"
    /\ job' = [job EXCEPT ![m] = NoJob]
    /\ UNCHANGED <<lockVars, rowVars, cephVars, at, localVars, spent>>

\* Any phase may fail; what the earlier ones did stays.
JobFails(m) ==
    /\ job[m].op # "none"
    /\ job' = [job EXCEPT ![m] = NoJob]
    /\ IF job[m].from = NoRequest THEN UNCHANGED <<at, localVars>>
       ELSE GiveUp(job[m].from, "failed")
    /\ UNCHANGED <<lockVars, rowVars, cephVars, spent>>

\* The client's own timeout ends the call; the member keeps going.
CallTimesOut(r) ==
    /\ \E m \in Waiting(r) : job' = [job EXCEPT ![m] = Orphan(job[m])]
    /\ Spend("orphans")
    /\ GiveUp(r, "failed")
    /\ UNCHANGED <<lockVars, rowVars, cephVars>>

-----------------------------------------------------------------------------
(* The cluster around the engine *)

Bootstrap(m) ==
    /\ ~booted
    /\ booted' = TRUE
    /\ rows' = [s \in Services |-> {m}]
    /\ active' = [s \in Services |-> {m}]
    /\ healthy' = [s \in Services |-> {m}]
    /\ monmap' = {m}
    /\ UNCHANGED <<lockVars, rowVars, rgw, job, at, localVars, spent>>

\* cmdDeleteService, called by an operator: no apply lock, no policy.
OperatorDelete(s, m) ==
    /\ m \in rows[s]
    /\ Spend("manual")
    /\ Dispatch(m, "delete", s, NoRequest)
    /\ UNCHANGED <<lockVars, rowVars, cephVars, at, localVars>>

DaemonReady(s, m) ==
    /\ m \in active[s] \ healthy[s]
    /\ HasQuorum \/ (s = "mon" /\ m \in monmap)
    /\ healthy' = With(healthy, s, m)
    /\ monmap' = IF s = "mon" THEN monmap \cup {m} ELSE monmap
    /\ UNCHANGED <<lockVars, rowVars, booted, rows, active, rgw, job, at, localVars, spent>>

DaemonDies(s, m) ==
    /\ m \in healthy[s]
    /\ Spend("deaths")
    /\ active' = Without(active, s, m)
    /\ healthy' = Without(healthy, s, m)
    /\ UNCHANGED <<lockVars, rowVars, booted, rows, monmap, rgw, job, at, localVars>>

\* reEnableServices starts the services the rows name, under serviceStartMu.  A
\* monitor removed from the monmap does not come back by being started.
DaemonRestarts(s, m) ==
    /\ m \in rows[s] \ active[s]
    /\ job[m] = NoJob
    /\ s = "mon" => m \in monmap
    /\ active' = With(active, s, m)
    /\ UNCHANGED <<lockVars, rowVars, booted, rows, healthy, monmap, rgw, job, at,
                   localVars, spent>>

-----------------------------------------------------------------------------

RequestStep(r) ==
    \/ LockTaken(r) \/ LockRefused(r) \/ Unlock(r) \/ Clear(r)
    \/ Validate(r) \/ Store(r) \/ StoreError(r) \/ Record(r) \/ Fail(r)
    \/ Observe(r) \/ Viability(r) \/ RemovalsDone(r) \/ RgwEnabled(r) \/ RgwDone(r)
    \/ \E s \in Services, m \in Members :
         AddService(r, s, m) \/ RefuseRemoval(r, s, m) \/ RemoveService(r, s, m)
    \/ \E m \in Members : EnableRgw(r, m) \/ DisableRgw(r, m)

JobStep(m) == StartDaemon(m) \/ StopDaemon(m) \/ JobDone(m) \/ JobFails(m)

ClusterStep ==
    \/ \E m \in Members : Bootstrap(m)
    \/ \E s \in Services, m \in Members :
         \/ OperatorDelete(s, m) \/ DaemonReady(s, m)
         \/ DaemonDies(s, m) \/ DaemonRestarts(s, m)

Next ==
    \/ Time
    \/ \E r \in Requests :
         \/ \E p \in Policies : PutBegin(r, p)
         \/ DeleteBegin(r) \/ RequestStep(r) \/ Die(r) \/ CallTimesOut(r)
    \/ \E m \in Members : JobStep(m)
    \/ ClusterStep

Spec == Init /\ [][Next]_vars

\* Handlers run to their end: every call they make has a deadline.
FairSpec ==
    /\ Spec
    /\ \A r \in Requests : WF_vars(RequestStep(r))
    /\ \A m \in Members : WF_vars(JobStep(m))

-----------------------------------------------------------------------------
(* Properties *)

ServiceMaps == [Services -> SUBSET Members]

\* The types of the variables, the lock's included.
ApplyTypeOK ==
    /\ LockTypeOK
    /\ stored \in Stored /\ refusal \in SUBSET Causes
    /\ booted \in BOOLEAN
    /\ rows \in ServiceMaps /\ active \in ServiceMaps /\ healthy \in ServiceMaps
    /\ monmap \in SUBSET Members /\ rgw \in SUBSET Members
    /\ job \in [Members -> Jobs]
    /\ at \in [Requests -> Places]
    /\ policy \in [Requests -> Policies \cup {NoPolicy}]
    /\ observed \in [Requests -> ServiceMaps] /\ viable \in [Requests -> ServiceMaps]
    /\ refused \in [Requests -> SUBSET (Services \X Members)]
    /\ todo \in [Requests -> SUBSET Members]
    /\ outcome \in [Requests -> SUBSET Causes]
    /\ spent \in [Faults -> Nat]

NoFault(F) == \A f \in F : spent[f] = 0

\* "The engine never removes the last viable MON, MGR, or MDS": whatever
\* policies are applied one after the other, and however their adds, removals
\* and handlers fail half-way, Ceph keeps its monitor quorum and a viable
\* daemon of every control service.  Daemons that die on their own, calls
\* that outlive their request and operators' own deletions are excluded.
KeepOne ==
    booted /\ NoFault({"deaths", "orphans", "manual"})
        => HasQuorum /\ \A s \in Services : healthy[s] # {}

\* The lock makes the stored intent "always match the apply that ran last":
\* while a PUT reconciles, the row holds its policy without TLS material, so
\* no other PUT or DELETE came between its store and its service changes.
StoredMatchesApply ==
    \A r \in Requests : at[r] \in Reconciling => stored = policyForStorage(policy[r])

\* The services and gateways are where the policy wants them.
Converged(p) ==
    /\ \A s \in Services : ControlOn(p) \subseteq rows[s] /\ ControlOff(p) \cap rows[s] = {}
    /\ RgwOn(p) \subseteq rgw /\ RgwOff(p) \cap rgw = {}

\* "GET /placement reports the observed-vs-desired gap with last_refusal
\* explaining it": with no request at work, a stored policy that is not fully
\* in place has a stored refusal, as long as no apply was cut off before it
\* could record its result.
GapIsExplained ==
    /\ NoFault({"orphans", "manual", "lost"})
    /\ \A r \in Requests : ~Holding(r)
    /\ stored # NoPolicy
    /\ refusal = {}
    => Converged(stored)

\* "Keep removal targets running until all replacements are ready": when a
\* step takes a gateway away, every gateway the stored policy wants is there.
RgwAddBeforeRemove ==
    [][ ~(rgw \subseteq rgw') => stored # NoPolicy /\ RgwOn(stored) \subseteq rgw ]_vars

\* Every PUT and DELETE ends: nothing it waits for (the lock, a member's
\* serviceStartMu, another member's answer) can keep it forever.
EveryRequestEnds == \A r \in Requests : InFlight(r) ~> phase[r] = "done"

\* The stored intent as PlacementIntent sees it.
Owner == IF \E r \in Requests : Holding(r)
         THEN CHOOSE r \in Requests : Holding(r) ELSE NoRequest
Over == {r \in Requests : phase[r] = "done"}
Row == <<stored, refusal>>
Intent == INSTANCE PlacementIntent WITH
    Rows <- Stored \X SUBSET Causes, owner <- Owner, over <- Over, row <- Row

\* cmdPlacementPut and cmdPlacementDelete serialize on the apply lock: the row
\* is written by one request at a time, and "an in-flight PUT cannot re-write
\* the policy after DELETE returns".
IntentImplemented == Intent!IntentSpec
===============================================================================
