------------------------- MODULE PlacementApplyProofs -------------------------
(***************************************************************************)
(* For every set of requests, members, control services and policies, and  *)
(* for any number of faults: the engine's steps are steps of the apply     *)
(* lock, the stored policy is the one being reconciled, and the row is     *)
(* written by one request at a time (the engine implements                 *)
(* PlacementIntent).                                                       *)
(***************************************************************************)
EXTENDS PlacementApply, PlacementLockProofs

\* Where a request stands in its handler agrees with its phase of the lock,
\* a member works only for requests that wait, and a request waits for one
\* member at a time.
HandlerInv ==
    /\ \A r \in Requests : at[r] # "none" => phase[r] = "held"
    /\ \A r \in Requests :
         at[r] \in {"validate", "store"} \cup Reconciling => policy[r] \in Policies
    /\ \A r \in Requests : phase[r] = "starting" /\ kind[r] = "put" => policy[r] \in Policies
    /\ \A r \in Requests :
         at[r] \in {"store"} \cup Reconciling => Named(policy[r]) \subseteq Members
    /\ \A m \in Members : job[m].from \in Requests
         => at[job[m].from] \in {"addWait", "removeWait"}
    /\ \A m, k \in Members :
         job[m].from \in Requests /\ job[m].from = job[k].from => m = k

ApplyInv == ApplyTypeOK /\ LockInv /\ HandlerInv /\ StoredMatchesApply

\* The engine touches the lock's variables only through the lock's steps.
LEMMA EngineLockStep == [Next]_vars => [LockNext]_lockVars
  <1> SUFFICES ASSUME [Next]_vars PROVE [LockNext]_lockVars
    OBVIOUS
  <1>1. CASE UNCHANGED vars
    BY <1>1 DEF vars
  <1>2. CASE Time
    BY <1>2 DEF Time, LockNext
  <1>3. ASSUME NEW r \in Requests, NEW p \in Policies, PutBegin(r, p)
        PROVE  LockNext
    BY <1>3 DEF PutBegin, LockNext, LockStep, Kinds
  <1>4. ASSUME NEW r \in Requests,
               DeleteBegin(r) \/ LockTaken(r) \/ LockRefused(r) \/ Unlock(r)
                 \/ Clear(r) \/ Record(r) \/ Die(r)
        PROVE  LockNext
    BY <1>4 DEF DeleteBegin, LockTaken, LockRefused, Unlock, Clear, Record, Die,
                LockNext, LockStep, Kinds
  <1>5. ASSUME NEW r \in Requests,
               \/ Validate(r) \/ Store(r) \/ StoreError(r) \/ Fail(r) \/ Observe(r)
               \/ Viability(r) \/ RemovalsDone(r) \/ RgwEnabled(r) \/ RgwDone(r)
               \/ CallTimesOut(r)
               \/ \E s \in Services, m \in Members :
                    AddService(r, s, m) \/ RefuseRemoval(r, s, m) \/ RemoveService(r, s, m)
               \/ \E m \in Members : EnableRgw(r, m) \/ DisableRgw(r, m)
        PROVE  UNCHANGED lockVars
    BY <1>5 DEF Validate, Store, StoreError, Fail, Observe, Viability, RemovalsDone,
                RgwEnabled, RgwDone, CallTimesOut, AddService, RefuseRemoval,
                RemoveService, EnableRgw, DisableRgw, RgwCall
  <1>6. ASSUME NEW m \in Members, JobStep(m)
        PROVE  UNCHANGED lockVars
    BY <1>6 DEF JobStep, StartDaemon, StopDaemon, JobDone, JobFails
  <1>7. CASE ClusterStep
    BY <1>7 DEF ClusterStep, Bootstrap, OperatorDelete, DaemonReady, DaemonDies,
                DaemonRestarts
  <1> QED
    BY <1>1, <1>2, <1>3, <1>4, <1>5, <1>6, <1>7 DEF Next, RequestStep

\* A member without a running EnableService or DeleteService is well typed.
LEMMA NoJobType == NoJob \in Jobs
  BY ApplyAssumption DEF NoJob, Jobs, Operations

\* Every step keeps the types of the engine's variables.
LEMMA TypeStep ==
    ASSUME ApplyTypeOK, HandlerInv, LockTypeOK', Next
    PROVE  ApplyTypeOK'
  <1> USE DEF ApplyTypeOK, ServiceMaps
  <1> USE NoJobType
  <1>1. CASE Time
    BY <1>1 DEF Time, rowVars, cephVars, localVars
  <1>2. ASSUME NEW r \in Requests, NEW p \in Policies, PutBegin(r, p)
        PROVE  ApplyTypeOK'
    BY <1>2 DEF PutBegin, rowVars, cephVars
  <1>3. ASSUME NEW r \in Requests,
               DeleteBegin(r) \/ LockTaken(r) \/ Unlock(r)
        PROVE  ApplyTypeOK'
    BY <1>3 DEF DeleteBegin, LockTaken, Unlock, Go, Places, rowVars, cephVars, localVars
  <1>4. ASSUME NEW r \in Requests, Forget(r)
        PROVE  /\ at' \in [Requests -> Places]
               /\ policy' \in [Requests -> Policies \cup {NoPolicy}]
               /\ observed' \in [Requests -> ServiceMaps]
               /\ viable' \in [Requests -> ServiceMaps]
               /\ refused' \in [Requests -> SUBSET (Services \X Members)]
               /\ todo' \in [Requests -> SUBSET Members]
               /\ outcome' \in [Requests -> SUBSET Causes]
    BY <1>4 DEF Forget, Go, Places, NoService
  <1>5. ASSUME NEW f \in Faults, Spend(f)
        PROVE  spent' \in [Faults -> Nat]
    BY <1>5 DEF Spend
  <1>6. ASSUME NEW r \in Requests, LockRefused(r) \/ Clear(r)
        PROVE  ApplyTypeOK'
    <2>1. Forget(r)
      BY <1>6 DEF LockRefused, Clear
    <2>2. stored' \in Stored /\ refusal' \in SUBSET Causes
      BY <1>6 DEF LockRefused, Clear, rowVars, Stored
    <2>3. UNCHANGED <<cephVars, job, spent>>
      BY <1>6 DEF LockRefused, Clear
    <2> QED
      BY <1>4, <2>1, <2>2, <2>3 DEF cephVars
  <1>7. ASSUME NEW r \in Requests, Record(r)
        PROVE  ApplyTypeOK'
    <2>1. Forget(r) /\ UNCHANGED <<stored, cephVars, job>>
      BY <1>7 DEF Record
    <2>2. refusal' \in SUBSET Causes /\ spent' \in [Faults -> Nat]
      BY <1>7, <1>5 DEF Record, Faults
    <2> QED
      BY <1>4, <2>1, <2>2 DEF cephVars
  <1>8. ASSUME NEW r \in Requests, Die(r)
        PROVE  ApplyTypeOK'
    <2>1. Forget(r) /\ UNCHANGED <<rowVars, cephVars>>
      BY <1>8 DEF Die
    <2>2. spent' \in [Faults -> Nat]
      BY <1>8, <1>5 DEF Die, Faults
    <2>3. job' \in [Members -> Jobs]
      BY <1>8 DEF Die, Orphan, Jobs
    <2> QED
      BY <1>4, <2>1, <2>2, <2>3 DEF cephVars, rowVars
  <1>9. ASSUME NEW r \in Requests, NEW c \in Causes, GiveUp(r, c)
        PROVE  /\ at' \in [Requests -> Places]
               /\ outcome' \in [Requests -> SUBSET Causes]
               /\ UNCHANGED <<policy, observed, viable, refused, todo>>
    BY <1>9 DEF GiveUp, Go, Places, Causes
  <1>10. ASSUME NEW r \in Requests,
                Validate(r) \/ Store(r) \/ StoreError(r) \/ Fail(r)
         PROVE  ApplyTypeOK'
    <2>1. UNCHANGED <<refusal, cephVars, job, spent>>
      BY <1>10 DEF Validate, Store, StoreError, Fail, rowVars
    <2>2. /\ at' \in [Requests -> Places]
          /\ outcome' \in [Requests -> SUBSET Causes]
          /\ UNCHANGED <<policy, observed, viable, refused, todo>>
      <3>1. CASE GiveUp(r, "failed") \/ GiveUp(r, "rejected")
        BY <3>1, <1>9 DEF Causes
      <3>2. CASE UNCHANGED localVars /\ (Go(r, "store") \/ Go(r, "observe"))
        BY <3>2 DEF Go, Places, Reconciling, localVars
      <3> QED
        BY <1>10, <3>1, <3>2 DEF Validate, Store, StoreError, Fail
    <2>3. stored' \in Stored
      BY <1>10 DEF Validate, Store, StoreError, Fail, rowVars, Stored, HandlerInv
    <2> QED
      BY <2>1, <2>2, <2>3 DEF cephVars
  <1>11. ASSUME NEW r \in Requests,
                Observe(r) \/ RemovalsDone(r) \/ RgwEnabled(r) \/ RgwDone(r)
         PROVE  ApplyTypeOK'
    <2>1. at[r] \in {"remove", "rgwOn"} => RgwOn(policy[r]) \subseteq Members /\ RgwOff(policy[r]) \subseteq Members
      BY DEF HandlerInv, RgwOn, RgwOff, Reconciling
    <2>2. CASE Observe(r)
      <3>1. at' \in [Requests -> Places] /\ observed' \in [Requests -> ServiceMaps]
        BY <2>2 DEF Observe, Go, Places, Reconciling
      <3> QED
        BY <2>2, <3>1 DEF Observe, rowVars, cephVars
    <2>3. CASE RemovalsDone(r)
      BY <2>3, <2>1 DEF RemovalsDone, Go, Places, Reconciling, rowVars, cephVars
    <2>4. CASE RgwEnabled(r)
      BY <2>4, <2>1 DEF RgwEnabled, Go, Places, Reconciling, rowVars, cephVars
    <2>5. CASE RgwDone(r)
      BY <2>5 DEF RgwDone, Go, Places, Causes, rowVars, cephVars
    <2> QED
      BY <1>11, <2>2, <2>3, <2>4, <2>5
  <1>12. ASSUME NEW r \in Requests, Viability(r)
         PROVE  ApplyTypeOK'
    <2>1. viable' \in [Requests -> ServiceMaps]
      BY <1>12 DEF Viability
    <2> QED
      BY <1>12, <2>1 DEF Viability, Go, Places, Reconciling, rowVars, cephVars
  <1>13. ASSUME NEW m \in Members, NEW s \in Services, NEW op \in Operations,
                NEW from \in Requests \cup {NoRequest}, Dispatch(m, op, s, from)
         PROVE  job' \in [Members -> Jobs]
    BY <1>13 DEF Dispatch, Jobs
  <1>14. ASSUME NEW r \in Requests, NEW s \in Services, NEW m \in Members,
                AddService(r, s, m) \/ RefuseRemoval(r, s, m) \/ RemoveService(r, s, m)
         PROVE  ApplyTypeOK'
    <2>1. job' \in [Members -> Jobs]
      BY <1>13, <1>14 DEF AddService, RefuseRemoval, RemoveService, Operations
    <2>2. CASE AddService(r, s, m)
      BY <2>2, <2>1 DEF AddService, Go, Places, Reconciling, rowVars, cephVars, localVars
    <2>3. CASE RefuseRemoval(r, s, m)
      BY <2>3, <2>1 DEF RefuseRemoval, rowVars, cephVars
    <2>4. CASE RemoveService(r, s, m)
      BY <2>4, <2>1 DEF RemoveService, Go, Places, Reconciling, rowVars, cephVars, localVars
    <2> QED
      BY <1>14, <2>2, <2>3, <2>4
  <1>15. ASSUME NEW r \in Requests, NEW m \in Members, EnableRgw(r, m) \/ DisableRgw(r, m)
         PROVE  ApplyTypeOK'
    <2>1. PICK after \in SUBSET Members : RgwCall(r, m, after)
      BY <1>15 DEF EnableRgw, DisableRgw
    <2>2. rgw' \in SUBSET Members
      BY <2>1 DEF RgwCall
    <2>3. outcome' \in [Requests -> SUBSET Causes]
      <3>1. outcome' = outcome \/ outcome' = [outcome EXCEPT ![r] = {"failed"}]
        BY <2>1 DEF RgwCall
      <3>2. {"failed"} \in SUBSET Causes /\ outcome \in [Requests -> SUBSET Causes]
        BY DEF Causes
      <3> QED
        BY ONLY <3>1, <3>2
    <2>4. todo' \in [Requests -> SUBSET Members]
      BY <2>1 DEF RgwCall
    <2> QED
      BY <2>1, <2>2, <2>3, <2>4 DEF RgwCall, rowVars
  <1>16. ASSUME NEW r \in Requests, CallTimesOut(r)
         PROVE  ApplyTypeOK'
    <2>1. spent' \in [Faults -> Nat] /\ job' \in [Members -> Jobs]
      BY <1>5, <1>16 DEF CallTimesOut, Faults, Waiting, Orphan, Jobs
    <2>2. GiveUp(r, "failed") /\ UNCHANGED <<rowVars, cephVars>>
      BY <1>16 DEF CallTimesOut
    <2> QED
      BY <1>9, <2>1, <2>2 DEF Causes, rowVars, cephVars
  <1>17. ASSUME NEW m \in Members, StartDaemon(m) \/ StopDaemon(m)
         PROVE  ApplyTypeOK'
    <2>1. job[m] \in Jobs /\ job' = [job EXCEPT ![m] = Changed(job[m])]
      BY <1>17 DEF StartDaemon, StopDaemon
    <2>2. job[m].svc \in Services /\ Changed(job[m]) \in Jobs
      BY <2>1 DEF Changed, Jobs
    <2>3. job' \in [Members -> Jobs]
      BY <2>1, <2>2
    <2>4. CASE StartDaemon(m)
      BY <2>4, <2>2, <2>3 DEF StartDaemon, With, rowVars, localVars
    <2>5. CASE StopDaemon(m)
      BY <2>5, <2>2, <2>3 DEF StopDaemon, Without, rowVars, localVars
    <2> QED
      BY <1>17, <2>4, <2>5
  <1>18. ASSUME NEW m \in Members, JobDone(m) \/ JobFails(m)
         PROVE  ApplyTypeOK'
    <2>0. job[m] \in Jobs /\ job' = [job EXCEPT ![m] = NoJob]
      BY <1>18 DEF JobDone, JobFails
    <2>1. /\ job[m].svc \in Services /\ job' \in [Members -> Jobs]
          /\ job[m].from \in Requests \cup {NoRequest}
      <3>1. job' \in [Members -> Jobs]
        BY <2>0
      <3> QED
        BY <2>0, <3>1 DEF Jobs
    <2>2. CASE JobDone(m)
      <3> DEFINE s == job[m].svc
                 r == job[m].from
      <3>1. rows' \in ServiceMaps
        <4>1. rows' = With(rows, s, m) \/ rows' = Without(rows, s, m)
          BY <2>2 DEF JobDone
        <4>2. With(rows, s, m) \in ServiceMaps /\ Without(rows, s, m) \in ServiceMaps
          BY <2>1 DEF With, Without
        <4> QED
          BY <4>1, <4>2
      <3>2. CASE r = NoRequest
        BY <2>2, <2>1, <3>1, <3>2 DEF JobDone, rowVars
      <3>3. CASE r # NoRequest
        <4>1. r \in Requests /\ observed[r] \in ServiceMaps /\ viable[r] \in ServiceMaps
          BY <2>1, <3>3
        <4>2. /\ With(observed[r], s, m) \in ServiceMaps
              /\ Without(observed[r], s, m) \in ServiceMaps
              /\ Without(viable[r], s, m) \in ServiceMaps
          BY <2>1, <4>1 DEF With, Without
        <4>3. at' \in [Requests -> Places]
          BY <2>2, <3>3, <4>1 DEF JobDone, Go, Places, Reconciling
        <4>4. observed' \in [Requests -> ServiceMaps] /\ viable' \in [Requests -> ServiceMaps]
          <5>1. \E f \in ServiceMaps : observed' = [observed EXCEPT ![r] = f]
            BY <2>2, <3>3, <4>2 DEF JobDone
          <5>2. viable' = viable \/ \E f \in ServiceMaps : viable' = [viable EXCEPT ![r] = f]
            BY <2>2, <3>3, <4>2 DEF JobDone
          <5> HIDE DEF ServiceMaps
          <5> QED
            BY <4>1, <5>1, <5>2
        <4> QED
          BY <2>2, <2>1, <3>1, <4>3, <4>4 DEF JobDone, rowVars
      <3> QED
        BY <3>2, <3>3
    <2>3. CASE JobFails(m)
      <3>1. CASE job[m].from = NoRequest
        BY <2>3, <2>1, <3>1 DEF JobFails, rowVars, cephVars, localVars
      <3>2. CASE job[m].from # NoRequest
        <4>1. job[m].from \in Requests /\ GiveUp(job[m].from, "failed")
          BY <2>3, <2>1, <3>2 DEF JobFails
        <4>2. /\ at' \in [Requests -> Places]
              /\ outcome' \in [Requests -> SUBSET Causes]
              /\ UNCHANGED <<policy, observed, viable, refused, todo>>
          BY <4>1, <1>9 DEF Causes
        <4> QED
          BY <2>3, <2>1, <4>2 DEF JobFails, rowVars, cephVars
      <3> QED
        BY <3>1, <3>2
    <2> QED
      BY <1>18, <2>2, <2>3
  <1>19. CASE ClusterStep
    <2>1. ASSUME NEW m \in Members, Bootstrap(m)
          PROVE  ApplyTypeOK'
      BY <2>1 DEF Bootstrap, rowVars, localVars
    <2>2. ASSUME NEW m \in Members, NEW s \in Services, OperatorDelete(s, m)
          PROVE  ApplyTypeOK'
      <3>1. spent' \in [Faults -> Nat] /\ job' \in [Members -> Jobs]
        BY <1>5, <1>13, <2>2 DEF OperatorDelete, Faults, Operations
      <3> QED
        BY <2>2, <3>1 DEF OperatorDelete, rowVars, cephVars, localVars
    <2>3. ASSUME NEW m \in Members, NEW s \in Services,
                 DaemonReady(s, m) \/ DaemonDies(s, m) \/ DaemonRestarts(s, m)
          PROVE  ApplyTypeOK'
      <3>1. spent' \in [Faults -> Nat]
        BY <1>5, <2>3 DEF DaemonReady, DaemonDies, DaemonRestarts, Faults
      <3>2. CASE DaemonReady(s, m)
        BY <3>1, <3>2 DEF DaemonReady, With, rowVars, localVars
      <3>3. CASE DaemonDies(s, m)
        BY <3>1, <3>3 DEF DaemonDies, Without, rowVars, localVars
      <3>4. CASE DaemonRestarts(s, m)
        BY <3>1, <3>4 DEF DaemonRestarts, With, rowVars, localVars
      <3> QED
        BY <2>3, <3>2, <3>3, <3>4
    <2> QED
      BY <1>19, <2>1, <2>2, <2>3 DEF ClusterStep
  <1> QED
    BY <1>1, <1>2, <1>3, <1>6, <1>7, <1>8, <1>10, <1>11, <1>12, <1>14, <1>15, <1>16,
       <1>17, <1>18, <1>19
    DEF Next, RequestStep, JobStep

\* Only one request is inside the engine: the others hold no lock.
LEMMA Alone ==
    ASSUME ApplyInv, NEW r \in Requests, at[r] # "none", NEW q \in Requests, q # r
    PROVE  at[q] = "none"
  BY DEF ApplyInv, HandlerInv, LockInv, MutualExclusion, Holding

\* A request inside the engine goes to another place of its handler.
LEMMA MoveStep ==
    ASSUME ApplyInv,
           NEW r \in Requests, at[r] # "none",
           NEW place \in Places \ {"none"}, Go(r, place),
           UNCHANGED <<phase, kind, policy>>,
           place \in {"validate", "store"} \cup Reconciling => policy[r] \in Policies,
           place \in {"store"} \cup Reconciling => Named(policy[r]) \subseteq Members,
           place \in Reconciling => stored' = policyForStorage(policy[r]),
           \A m \in Members : job'[m].from \in Requests
             => \/ job'[m].from = r /\ place \in {"addWait", "removeWait"}
                \/ job'[m].from # r /\ job[m].from = job'[m].from,
           \A m, k \in Members : job'[m].from = r /\ job'[k].from = r => m = k
    PROVE  HandlerInv' /\ StoredMatchesApply'
  <1>1. /\ at' = [at EXCEPT ![r] = place]
        /\ at \in [Requests -> Places]
    BY DEF Go, ApplyInv, ApplyTypeOK
  <1>2. at'[r] = place /\ \A q \in Requests : q # r => at'[q] = at[q] /\ at[q] = "none"
    BY <1>1, Alone
  <1>3. phase[r] = "held"
    BY DEF ApplyInv, HandlerInv
  <1>4. \A q \in Requests : at'[q] # "none" => phase'[q] = "held"
    BY <1>2, <1>3
  <1>5. \A q \in Requests :
          /\ at'[q] \in {"validate", "store"} \cup Reconciling => policy'[q] \in Policies
          /\ at'[q] \in {"store"} \cup Reconciling => Named(policy'[q]) \subseteq Members
    BY <1>2 DEF Reconciling
  <1>6. \A q \in Requests :
          phase'[q] = "starting" /\ kind'[q] = "put" => policy'[q] \in Policies
    BY DEF ApplyInv, HandlerInv
  <1>7. \A m \in Members : job'[m].from \in Requests
          => at'[job'[m].from] \in {"addWait", "removeWait"}
    BY <1>2 DEF ApplyInv, HandlerInv
  <1>9. \A m, k \in Members :
          job'[m].from \in Requests /\ job'[m].from = job'[k].from => m = k
    BY DEF ApplyInv, HandlerInv
  <1>8. StoredMatchesApply'
    BY <1>2 DEF StoredMatchesApply, Reconciling
  <1> QED
    BY <1>4, <1>5, <1>6, <1>7, <1>8, <1>9 DEF HandlerInv, Named

\* A request that waits for no job moves on inside the engine.
LEMMA GoStep ==
    ASSUME ApplyInv,
           NEW r \in Requests, at[r] \notin {"none", "addWait", "removeWait"},
           NEW place \in Places \ {"none"}, Go(r, place),
           UNCHANGED <<phase, kind, policy, job>>,
           place \in {"validate", "store"} \cup Reconciling => policy[r] \in Policies,
           place \in {"store"} \cup Reconciling => Named(policy[r]) \subseteq Members,
           place \in Reconciling => stored' = policyForStorage(policy[r])
    PROVE  HandlerInv' /\ StoredMatchesApply'
  <1>1. \A m \in Members : job[m].from # r
    BY DEF ApplyInv, HandlerInv
  <1>2. \A m \in Members : job'[m].from # r /\ job[m].from = job'[m].from
    BY <1>1
  <1> QED
    BY <1>2, MoveStep

\* A request that waits for no job goes to record its result.
LEMMA RecordStep ==
    ASSUME ApplyInv,
           NEW r \in Requests, at[r] \notin {"none", "addWait", "removeWait"},
           Go(r, "record"), UNCHANGED <<phase, kind, policy, job>>
    PROVE  HandlerInv' /\ StoredMatchesApply'
  <1>1. /\ "record" \in Places \ {"none"}
        /\ "record" \notin {"validate", "store"} \cup Reconciling
    BY DEF Places, Reconciling
  <1> QED
    BY <1>1, GoStep

\* A step that moves no request and adds no waiting job.
LEMMA QuietStep ==
    ASSUME ApplyInv, UNCHANGED <<phase, kind, policy, at, stored>>,
           \A m \in Members : job'[m].from \in Requests => job'[m].from = job[m].from
    PROVE  HandlerInv' /\ StoredMatchesApply'
  BY DEF ApplyInv, HandlerInv, StoredMatchesApply, Named

\* A handler returns, or never gets the lock: it is out of the engine.
LEMMA LeaveStep ==
    ASSUME ApplyInv, NEW r \in Requests, Forget(r), UNCHANGED kind,
           \E ph \in {"releasing", "done"} : phase' = [phase EXCEPT ![r] = ph],
           at[r] # "none" \/ UNCHANGED stored,
           \A m \in Members : job'[m].from \in Requests
             => job'[m].from # r /\ job'[m].from = job[m].from
    PROVE  HandlerInv' /\ StoredMatchesApply'
  <1>1. /\ at' = [at EXCEPT ![r] = "none"]
        /\ policy' = [policy EXCEPT ![r] = NoPolicy]
        /\ at \in [Requests -> Places]
        /\ policy \in [Requests -> Policies \cup {NoPolicy}]
        /\ phase \in [Requests -> Phases]
    BY DEF Forget, Go, ApplyInv, ApplyTypeOK, LockTypeOK
  <1>2. /\ at'[r] = "none" /\ phase'[r] \in {"releasing", "done"}
        /\ \A q \in Requests : q # r =>
             at'[q] = at[q] /\ policy'[q] = policy[q] /\ phase'[q] = phase[q]
    BY <1>1
  <1>4. \A q \in Requests : at'[q] \in Reconciling => q # r /\ at[q] \in Reconciling
    BY <1>2 DEF Reconciling
  <1>3. HandlerInv'
    <2> DEFINE Old == HandlerInv
    <2>1. Old
      BY DEF ApplyInv
    <2>2. \A q \in Requests :
            /\ at'[q] # "none" => phase'[q] = "held"
            /\ phase'[q] = "starting" /\ kind'[q] = "put" => policy'[q] \in Policies
      BY <1>2, <2>1 DEF HandlerInv
    <2>3. \A q \in Requests :
            /\ at'[q] \in {"validate", "store"} \cup Reconciling => policy'[q] \in Policies
            /\ at'[q] \in {"store"} \cup Reconciling => Named(policy'[q]) \subseteq Members
      BY <1>2, <1>4, <2>1 DEF HandlerInv
    <2>4. \A m \in Members : job'[m].from \in Requests
            => at'[job'[m].from] \in {"addWait", "removeWait"}
      BY <1>2, <2>1 DEF HandlerInv
    <2>5. \A m, k \in Members :
            job'[m].from \in Requests /\ job'[m].from = job'[k].from => m = k
      BY <2>1 DEF HandlerInv
    <2> QED
      BY <2>2, <2>3, <2>4, <2>5 DEF HandlerInv, Named
  <1>5. \A q \in Requests : at'[q] \in Reconciling => UNCHANGED stored
    BY <1>4, Alone DEF Reconciling
  <1>6. StoredMatchesApply'
    BY <1>2, <1>4, <1>5 DEF ApplyInv, StoredMatchesApply
  <1> QED
    BY <1>3, <1>6

\* Every step keeps HandlerInv and StoredMatchesApply.
LEMMA HandlerStep ==
    ASSUME ApplyInv, Next
    PROVE  HandlerInv' /\ StoredMatchesApply'
  <1> DEFINE Good == HandlerInv' /\ StoredMatchesApply'
  <1>a. /\ at \in [Requests -> Places] /\ phase \in [Requests -> Phases]
        /\ kind \in [Requests -> Kinds] /\ job \in [Members -> Jobs]
        /\ policy \in [Requests -> Policies \cup {NoPolicy}]
    BY DEF ApplyInv, ApplyTypeOK, LockTypeOK
  <1>b. NoJob.from \notin Requests
    BY ApplyAssumption DEF NoJob
  <1>c. \A r \in Requests : at[r] # "none" => phase[r] = "held"
    BY DEF ApplyInv, HandlerInv
  <1>d. \A m \in Members : job[m].from \in Requests
          => at[job[m].from] \in {"addWait", "removeWait"}
    BY DEF ApplyInv, HandlerInv
  <1>e. \A r \in Requests : /\ at[r] \in {"validate", "store"} \cup Reconciling => policy[r] \in Policies
                            /\ at[r] \in {"store"} \cup Reconciling => Named(policy[r]) \subseteq Members
                            /\ at[r] \in Reconciling => stored = policyForStorage(policy[r])
    BY DEF ApplyInv, HandlerInv, StoredMatchesApply
  <1>1. CASE Time
    BY <1>1, QuietStep DEF Time, Tick, rowVars, localVars
  <1>2. ASSUME NEW r \in Requests, NEW p \in Policies, PutBegin(r, p)
        PROVE  Good
    <2>1. /\ phase' = [phase EXCEPT ![r] = "starting"] /\ phase[r] = "idle"
          /\ policy' = [policy EXCEPT ![r] = p]
          /\ kind' = [kind EXCEPT ![r] = "put"]
          /\ UNCHANGED <<at, job, stored>>
      BY <1>2 DEF PutBegin, Begin, rowVars
    <2>2. at[r] = "none"
      BY <1>c, <2>1
    <2>3. HandlerInv'
      BY <2>1, <2>2, <1>a DEF ApplyInv, HandlerInv, Named, Reconciling
    <2> QED
      BY <2>1, <2>2, <2>3, <1>a DEF ApplyInv, StoredMatchesApply, Reconciling
  <1>3. ASSUME NEW r \in Requests, DeleteBegin(r) \/ Unlock(r)
        PROVE  Good
    <2>1. /\ \E ph \in {"starting", "done"} :
               /\ phase' = [phase EXCEPT ![r] = ph]
               /\ IF ph = "starting" THEN kind' = [kind EXCEPT ![r] = "delete"] ELSE kind' = kind
          /\ phase[r] \in {"idle", "releasing"}
          /\ UNCHANGED <<policy, at, job, stored>>
      BY <1>3 DEF DeleteBegin, Begin, Unlock, Release, ReleaseError, rowVars, localVars
    <2>2. at[r] = "none"
      BY <1>c, <2>1
    <2>3. HandlerInv'
      BY <2>1, <2>2, <1>a DEF ApplyInv, HandlerInv, Named
    <2> QED
      BY <2>1, <2>3 DEF ApplyInv, StoredMatchesApply
  <1>4. ASSUME NEW r \in Requests, LockTaken(r)
        PROVE  Good
    <2>1. /\ phase[r] = "starting" /\ phase' = [phase EXCEPT ![r] = "held"]
          /\ at' = [at EXCEPT ![r] = IF kind[r] = "put" THEN "validate" ELSE "clear"]
          /\ UNCHANGED <<kind, policy, job, stored>>
      BY <1>4 DEF LockTaken, Acquire, Go, rowVars, localVars
    <2>2. at[r] = "none" /\ \A m \in Members : job[m].from # r
      BY <1>c, <1>d, <2>1
    <2>3. HandlerInv'
      BY <2>1, <2>2, <1>a DEF ApplyInv, HandlerInv, Named, Reconciling
    <2> QED
      BY <2>1, <2>2, <2>3, <1>a DEF ApplyInv, StoredMatchesApply, Reconciling
  <1>5. ASSUME NEW r \in Requests, LockRefused(r)
        PROVE  Good
    <2>1. /\ Forget(r) /\ UNCHANGED <<kind, job, stored>> /\ phase[r] = "starting"
          /\ phase' = [phase EXCEPT ![r] = "done"]
      BY <1>5 DEF LockRefused, AcquireBusy, AcquireError, rowVars
    <2> QED
      BY <2>1, <1>c, <1>d, LeaveStep
  <1>6. ASSUME NEW r \in Requests, Clear(r) \/ Record(r)
        PROVE  Good
    <2>1. /\ Forget(r) /\ UNCHANGED <<kind, job>> /\ at[r] \in {"clear", "record"}
          /\ phase' = [phase EXCEPT ![r] = "releasing"]
      BY <1>6 DEF Clear, Record, Finish
    <2> QED
      BY <2>1, <1>d, LeaveStep
  <1>7. ASSUME NEW r \in Requests, Die(r)
        PROVE  Good
    <2>1. /\ Forget(r) /\ UNCHANGED <<kind, stored>>
          /\ phase' = [phase EXCEPT ![r] = "done"]
      BY <1>7 DEF Die, Crash, rowVars
    <2>2. \A m \in Members : job'[m].from \in Requests
             => job'[m].from # r /\ job'[m].from = job[m].from
      BY <1>7, ApplyAssumption DEF Die, Orphan
    <2> QED
      BY <2>1, <2>2, LeaveStep
  <1>8. ASSUME NEW r \in Requests, Validate(r)
        PROVE  Good
    <2>1. at[r] = "validate" /\ UNCHANGED <<phase, kind, policy, job>>
      BY <1>8 DEF Validate, GiveUp, lockVars, localVars
    <2>2. CASE Go(r, "record")
      BY <2>1, <2>2, RecordStep
    <2>3. CASE Go(r, "store") /\ Valid(policy[r])
      <3>1. Named(policy[r]) \subseteq Members /\ policy[r] \in Policies
        BY <2>1, <2>3, <1>e DEF Valid
      <3>2. "store" \in Places \ {"none"} /\ "store" \notin Reconciling
        BY DEF Places, Reconciling
      <3> QED
        BY <2>1, <2>3, <3>1, <3>2, GoStep
    <2> QED
      BY <1>8, <2>2, <2>3 DEF Validate, GiveUp
  <1>9. ASSUME NEW r \in Requests, Store(r)
        PROVE  Good
    <2>1. /\ at[r] = "store" /\ UNCHANGED <<phase, kind, policy, job>>
          /\ stored' = policyForStorage(policy[r]) /\ Go(r, "observe")
      BY <1>9 DEF Store, lockVars, localVars
    <2>2. "observe" \in Places \ {"none"}
      BY DEF Places, Reconciling
    <2>3. policy[r] \in Policies /\ Named(policy[r]) \subseteq Members
      BY <2>1, <1>e
    <2> QED
      BY <2>1, <2>2, <2>3, GoStep
  <1>10. ASSUME NEW r \in Requests,
                \/ StoreError(r) \/ Fail(r) \/ Observe(r) \/ Viability(r) \/ RemovalsDone(r)
                \/ RgwEnabled(r) \/ RgwDone(r)
         PROVE  Good
    <2>1. /\ at[r] \in {"validate", "store"} \cup (Reconciling \ {"addWait", "removeWait"})
          /\ UNCHANGED <<phase, kind, policy, job>>
      BY <1>10 DEF StoreError, Fail, Observe, Viability, RemovalsDone, RgwEnabled, RgwDone,
         GiveUp, NextAdd, NextRemoval, Reconciling, lockVars
    <2>a. at[r] \notin {"none", "addWait", "removeWait"}
      BY <2>1 DEF Reconciling
    <2>2. CASE Go(r, "record")
      BY <2>1, <2>a, <2>2, RecordStep
    <2>3. CASE /\ at[r] \in Reconciling /\ UNCHANGED stored
               /\ \E place \in {"add", "remove", "rgwOn", "rgwOff"} : Go(r, place)
      <3>1. PICK place \in {"add", "remove", "rgwOn", "rgwOff"} : Go(r, place)
        BY <2>3
      <3>2. place \in Places \ {"none"}
        BY DEF Places, Reconciling
      <3>3. /\ policy[r] \in Policies /\ Named(policy[r]) \subseteq Members
            /\ stored' = policyForStorage(policy[r])
        BY <2>3, <1>e
      <3> QED
        BY <2>1, <2>a, <3>1, <3>2, <3>3, GoStep
    <2>4. CASE StoreError(r) \/ Fail(r)
      BY <2>2, <2>4 DEF StoreError, Fail, GiveUp
    <2>5. CASE Observe(r)
      BY <2>2, <2>3, <2>5 DEF Observe, GiveUp, Reconciling, rowVars
    <2>6. CASE Viability(r)
      BY <2>2, <2>3, <2>6 DEF Viability, GiveUp, NextAdd, Reconciling, rowVars
    <2>7. CASE RemovalsDone(r)
      BY <2>2, <2>3, <2>7 DEF RemovalsDone, GiveUp, NextRemoval, Reconciling, rowVars
    <2>8. CASE RgwEnabled(r) \/ RgwDone(r)
      BY <2>2, <2>3, <2>8 DEF RgwEnabled, RgwDone, GiveUp, Reconciling, rowVars
    <2> QED
      BY <1>10, <2>4, <2>5, <2>6, <2>7, <2>8
  <1>11. ASSUME NEW r \in Requests, NEW s \in Services, NEW m \in Members,
                AddService(r, s, m) \/ RemoveService(r, s, m)
         PROVE  Good
    <2>1. PICK op \in Operations, place \in {"addWait", "removeWait"} :
             /\ at[r] \in {"add", "remove"} /\ UNCHANGED <<phase, kind, policy, stored>>
             /\ Go(r, place) /\ Dispatch(m, op, s, r)
      BY <1>11 DEF AddService, RemoveService, NextAdd, NextRemoval, Operations,
         lockVars, rowVars, localVars
    <2>2. \A k \in Members : job'[k].from \in Requests
             => \/ job'[k].from = r
                \/ job'[k].from # r /\ job[k].from = job'[k].from
      BY <2>1, <1>a DEF Dispatch
    <2>3. \A k \in Members : job'[k].from = r => k = m
      BY <2>1, <1>a, <1>d DEF Dispatch
    <2>4. /\ at[r] # "none" /\ at[r] \in Reconciling
          /\ place \in Places \ {"none"} /\ place \in Reconciling
      BY <2>1 DEF Places, Reconciling
    <2>5. /\ policy[r] \in Policies /\ Named(policy[r]) \subseteq Members
          /\ stored' = policyForStorage(policy[r])
      BY <2>1, <2>4, <1>e
    <2>6. /\ \A k \in Members : job'[k].from \in Requests
                => \/ job'[k].from = r /\ place \in {"addWait", "removeWait"}
                   \/ job'[k].from # r /\ job[k].from = job'[k].from
          /\ \A k, l \in Members : job'[k].from = r /\ job'[l].from = r => k = l
      BY <2>2, <2>3
    <2>7. Go(r, place) /\ UNCHANGED <<phase, kind, policy>>
      BY <2>1
    <2> QED
      BY <2>4, <2>5, <2>6, <2>7, MoveStep
  <1>12. ASSUME NEW r \in Requests, NEW s \in Services, NEW m \in Members,
                RefuseRemoval(r, s, m)
         PROVE  Good
    BY <1>12, QuietStep DEF RefuseRemoval, lockVars, rowVars
  <1>17. ASSUME NEW r \in Requests, NEW m \in Members, EnableRgw(r, m) \/ DisableRgw(r, m)
         PROVE  Good
    BY <1>17, QuietStep DEF EnableRgw, DisableRgw, RgwCall, lockVars, rowVars
  <1>13. ASSUME NEW r \in Requests, CallTimesOut(r)
         PROVE  Good
    <2>1. PICK m \in Waiting(r) : job' = [job EXCEPT ![m] = Orphan(job[m])]
      BY <1>13 DEF CallTimesOut
    <2>2. m \in Members /\ job[m].from = r /\ at[r] \in {"addWait", "removeWait"}
      BY <2>1, <1>d DEF Waiting
    <2>3. Go(r, "record") /\ UNCHANGED <<phase, kind, policy>>
      BY <1>13 DEF CallTimesOut, GiveUp, lockVars
    <2>4. \A k \in Members : job'[k].from \in Requests
             => job'[k].from # r /\ job[k].from = job'[k].from
      <3>1. Orphan(job[m]).from \notin Requests
        BY ApplyAssumption DEF Orphan
      <3> QED
        BY <2>1, <2>2, <3>1, <1>a DEF ApplyInv, HandlerInv
    <2>5. /\ at[r] # "none" /\ "record" \in Places \ {"none"}
          /\ "record" \notin {"validate", "store"} \cup Reconciling
      BY <2>2 DEF Places, Reconciling
    <2>6. \A k, l \in Members : job'[k].from = r /\ job'[l].from = r => k = l
      BY <2>4
    <2> QED
      BY <2>3, <2>4, <2>5, <2>6, MoveStep
  <1>14. ASSUME NEW m \in Members, StartDaemon(m) \/ StopDaemon(m)
         PROVE  Good
    <2>1. /\ job' = [job EXCEPT ![m] = Changed(job[m])]
          /\ UNCHANGED <<phase, kind, policy, at, stored>>
      BY <1>14 DEF StartDaemon, StopDaemon, lockVars, rowVars, localVars
    <2>2. Changed(job[m]).from = job[m].from
      BY DEF Changed
    <2> QED
      BY <2>1, <2>2, <1>a, QuietStep
  <1>15. ASSUME NEW m \in Members, JobDone(m) \/ JobFails(m)
         PROVE  Good
    <2>1. job' = [job EXCEPT ![m] = NoJob] /\ UNCHANGED <<phase, kind, policy, stored>>
      BY <1>15 DEF JobDone, JobFails, GiveUp, lockVars, rowVars, localVars
    <2>2. \A k \in Members : job'[k].from \in Requests => k # m /\ job'[k].from = job[k].from
      BY <2>1, <1>a, <1>b
    <2>3. CASE job[m].from = NoRequest
      <3>1. UNCHANGED at
        BY <1>15, <2>3 DEF JobDone, JobFails
      <3> QED
        BY <2>1, <2>2, <3>1, QuietStep
    <2>4. CASE job[m].from # NoRequest
      <3> DEFINE r == job[m].from
      <3>1. r \in Requests
        BY <1>a, <2>4 DEF Jobs
      <3>2. at[r] \in {"addWait", "removeWait"}
        BY <3>1, <1>d
      <3>3. \A k \in Members : job'[k].from \in Requests
               => job'[k].from # r /\ job[k].from = job'[k].from
        BY <2>2, <3>1 DEF ApplyInv, HandlerInv
      <3>4. \E place \in {"add", "remove", "record"} : Go(r, place)
        BY <1>15, <2>4 DEF JobDone, JobFails, GiveUp
      <3> HIDE DEF r
      <3>5. PICK place \in {"add", "remove", "record"} : Go(r, place)
        BY <3>4
      <3>6. at[r] # "none" /\ at[r] \in Reconciling /\ place \in Places \ {"none"}
        BY <3>2 DEF Places, Reconciling
      <3>7. /\ policy[r] \in Policies /\ Named(policy[r]) \subseteq Members
            /\ stored' = policyForStorage(policy[r])
        BY <2>1, <3>1, <3>6, <1>e
      <3>8. \A k, l \in Members : job'[k].from = r /\ job'[l].from = r => k = l
        BY <3>1, <3>3
      <3> QED
        BY <2>1, <3>1, <3>3, <3>5, <3>6, <3>7, <3>8, MoveStep
    <2> QED
      BY <2>3, <2>4
  <1>16. CASE ClusterStep
    <2>1. UNCHANGED <<phase, kind, policy, at, stored>>
      BY <1>16 DEF ClusterStep, Bootstrap, OperatorDelete, DaemonReady, DaemonDies,
         DaemonRestarts, lockVars, rowVars, localVars
    <2>2. \A m \in Members : job'[m].from \in Requests => job'[m].from = job[m].from
      <3>1. CASE job' = job
        BY <3>1
      <3>2. ASSUME NEW s \in Services, NEW m \in Members, OperatorDelete(s, m)
            PROVE  \A k \in Members : job'[k].from \in Requests => job'[k].from = job[k].from
        BY <3>2, <1>a, ApplyAssumption DEF OperatorDelete, Dispatch
      <3> QED
        BY <1>16, <3>1, <3>2 DEF ClusterStep, Bootstrap, DaemonReady, DaemonDies,
           DaemonRestarts
    <2> QED
      BY <2>1, <2>2, QuietStep
  <1> QED
    BY <1>1, <1>2, <1>3, <1>4, <1>5, <1>6, <1>7, <1>8, <1>9, <1>10, <1>11, <1>12,
       <1>13, <1>14, <1>15, <1>16, <1>17
    DEF Next, RequestStep, JobStep

\* Nothing runs at first and nothing is stored.
LEMMA ApplyInitInv == Init => ApplyInv
  <1> SUFFICES ASSUME Init PROVE ApplyInv
    OBVIOUS
  <1>1. LockInv
    BY LockInitInv DEF Init
  <1>2. ApplyTypeOK
    BY <1>1, NoJobType DEF Init, ApplyTypeOK, LockInv, ServiceMaps, NoService, Stored, Places
  <1>3. \A m \in Members : job[m].from \notin Requests
    BY ApplyAssumption DEF Init, NoJob
  <1>4. \A r \in Requests : at[r] = "none" /\ phase[r] = "idle"
    BY DEF Init, LockInit
  <1> QED
    BY <1>1, <1>2, <1>3, <1>4 DEF ApplyInv, HandlerInv, StoredMatchesApply, Reconciling

\* Every step of the engine, of a member's job or of the cluster keeps ApplyInv.
LEMMA ApplyStepInv == ApplyInv /\ [Next]_vars => ApplyInv'
  <1> SUFFICES ASSUME ApplyInv, [Next]_vars PROVE ApplyInv'
    OBVIOUS
  <1>1. LockInv'
    BY EngineLockStep, LockStepInv DEF ApplyInv
  <1>2. CASE Next
    <2>1. ApplyTypeOK'
      BY <1>1, <1>2, TypeStep DEF ApplyInv, LockInv
    <2> QED
      BY <1>1, <1>2, <2>1, HandlerStep DEF ApplyInv
  <1>3. CASE UNCHANGED vars
    <2>1. UNCHANGED <<phase, kind, policy, at, stored, job>>
      BY <1>3 DEF vars, lockVars, rowVars, localVars
    <2>2. HandlerInv' /\ StoredMatchesApply'
      BY <2>1, QuietStep
    <2>3. ApplyTypeOK'
      BY <1>1, <1>3 DEF ApplyInv, ApplyTypeOK, LockInv, vars, rowVars, cephVars, localVars
    <2> QED
      BY <1>1, <2>2, <2>3 DEF ApplyInv
  <1> QED
    BY <1>2, <1>3

\* ApplyInv holds in every reachable state of the engine.
THEOREM ApplyInvariance == Spec => []ApplyInv
  BY ApplyInitInv, ApplyStepInv, PTL DEF Spec

\* Every variable of the engine keeps its type; in particular what is stored
\* is always a policy without TLS material, or none.
THEOREM ApplyTypeCorrect == Spec => []ApplyTypeOK
  <1>1. ApplyInv => ApplyTypeOK
    BY DEF ApplyInv
  <1> QED
    BY <1>1, ApplyInvariance, PTL

\* While a PUT reconciles, the stored policy is its own, whatever other PUTs
\* and DELETEs, crashes, lost answers and lease takeovers happen meanwhile.
THEOREM StoredIsApplied == Spec => []StoredMatchesApply
  <1>1. ApplyInv => StoredMatchesApply
    BY DEF ApplyInv
  <1> QED
    BY <1>1, ApplyInvariance, PTL

\* Two requests are never inside the engine together.
THEOREM EngineMutualExclusion == Spec => []MutualExclusion
  <1>1. ApplyInv => MutualExclusion
    BY DEF ApplyInv, LockInv
  <1> QED
    BY <1>1, ApplyInvariance, PTL

-----------------------------------------------------------------------------
(* The engine implements PlacementIntent *)

\* The owner PlacementIntent sees is the one request that holds the apply lock.
LEMMA OwnerHolds ==
    ASSUME LockInv, NEW r \in Requests, Holding(r)
    PROVE  Owner = r
  BY DEF LockInv, MutualExclusion, Owner

\* Without a holder of the apply lock PlacementIntent sees no owner.
LEMMA NobodyOwns ==
    ASSUME \A r \in Requests : ~Holding(r)
    PROVE  Owner = NoRequest
  BY DEF Owner

\* The stored policy and refusal are a row PlacementIntent allows.
LEMMA RowType == ApplyTypeOK => Row \in Stored \X SUBSET Causes
  BY DEF ApplyTypeOK, Row

\* A step that changes no phase keeps the owner and the finished requests.
LEMMA SamePhase ==
    ASSUME phase' = phase
    PROVE  Owner' = Owner /\ Over' = Over
  BY DEF Owner, Over, Holding

\* A write by the request that holds the lock.
LEMMA WriteStep ==
    ASSUME ApplyInv, ApplyInv', NEW r \in Requests, Holding(r), Holding(r)',
           Over' = Over
    PROVE  Intent!IntentNext
  <1>1. Owner = r /\ Owner' = r
    BY OwnerHolds DEF ApplyInv, LockInv, LockInv, MutualExclusion, Owner
  <1>2. Row' \in Stored \X SUBSET Causes
    BY DEF ApplyInv, ApplyTypeOK, Row
  <1> QED
    BY <1>1, <1>2 DEF Intent!IntentNext, Intent!Write

\* A request's phase goes to "done" and the row stays.
LEMMA OverStep ==
    ASSUME ApplyInv, NEW r \in Requests, InFlight(r),
           phase' = [phase EXCEPT ![r] = "done"], Row' = Row
    PROVE  Intent!IntentNext
  <1>1. phase \in [Requests -> Phases] /\ phase[r] # "done"
    BY DEF ApplyInv, ApplyTypeOK, LockTypeOK, InFlight
  <1>2. phase'[r] = "done" /\ \A q \in Requests : q # r => phase'[q] = phase[q]
    BY <1>1
  <1>3. r \notin Over /\ Over' = Over \cup {r}
    BY <1>1, <1>2 DEF Over
  <1>4. CASE Holding(r)
    <2>1. Owner = r
      BY <1>4, OwnerHolds DEF ApplyInv
    <2>2. \A q \in Requests : ~Holding(q)'
      BY <1>2, <1>4 DEF ApplyInv, LockInv, MutualExclusion, Holding
    <2>3. Owner' = NoRequest
      BY <2>2 DEF Owner
    <2> QED
      BY <1>3, <2>1, <2>3 DEF Intent!IntentNext, Intent!Leave
  <1>5. CASE ~Holding(r)
    <2>1. \A q \in Requests : Holding(q)' <=> Holding(q)
      BY <1>2, <1>5 DEF Holding
    <2>2. Owner' = Owner
      BY <2>1 DEF Owner
    <2>3. Owner # r
      <3>1. CASE \E q \in Requests : Holding(q)
        BY <3>1, <1>5, OwnerHolds DEF ApplyInv
      <3>2. CASE \A q \in Requests : ~Holding(q)
        BY <3>2, NobodyOwns, ApplyAssumption
      <3> QED
        BY <3>1, <3>2
    <2> QED
      BY <1>3, <2>2, <2>3 DEF Intent!IntentNext, Intent!TurnedAway
  <1> QED
    BY <1>4, <1>5

\* Every step is a step of PlacementIntent or leaves its variables alone.
LEMMA IntentStep ==
    ASSUME ApplyInv, ApplyInv', [Next]_vars
    PROVE  [Intent!IntentNext]_(Intent!intentVars)
  <1>a. phase \in [Requests -> Phases]
    BY DEF ApplyInv, ApplyTypeOK, LockTypeOK
  <1>1. CASE phase' = phase /\ Row' = Row
    BY <1>1, SamePhase DEF Intent!intentVars
  <1>2. ASSUME NEW r \in Requests, Store(r) \/ StoreError(r)
        PROVE  Intent!IntentNext
    <2>1. at[r] = "store" /\ phase' = phase
      BY <1>2 DEF Store, StoreError, lockVars
    <2>2. Holding(r) /\ Holding(r)'
      BY <2>1 DEF ApplyInv, HandlerInv, Holding
    <2> QED
      BY <2>1, <2>2, SamePhase, WriteStep
  <1>3. ASSUME NEW r \in Requests, Clear(r) \/ Record(r)
        PROVE  Intent!IntentNext
    <2>1. phase[r] = "held" /\ phase' = [phase EXCEPT ![r] = "releasing"]
      BY <1>3 DEF Clear, Record, Finish
    <2>2. Holding(r) /\ Holding(r)' /\ Over' = Over
      BY <2>1, <1>a DEF Holding, Over
    <2> QED
      BY <2>2, WriteStep
  <1>4. ASSUME NEW r \in Requests, LockTaken(r)
        PROVE  Intent!IntentNext
    <2>1. /\ phase[r] = "starting" /\ phase' = [phase EXCEPT ![r] = "held"]
          /\ Available(r) /\ Row' = Row
      BY <1>4 DEF LockTaken, Acquire, rowVars, Row
    <2>2. \A q \in Requests : ~Holding(q)
      BY <2>1, HeldIsUnavailable DEF ApplyInv, InFlight
    <2>3. Owner = NoRequest
      BY <2>2, NobodyOwns
    <2>4. \A q \in Requests : Holding(q)' <=> q = r
      BY <2>1, <2>2, <1>a DEF Holding
    <2>5. Owner' = r
      BY <2>4 DEF Owner
    <2>6. r \notin Over /\ Over' = Over
      BY <2>1, <1>a DEF Over
    <2> QED
      BY <2>1, <2>3, <2>5, <2>6 DEF Intent!IntentNext, Intent!Enter
  <1>5. ASSUME NEW r \in Requests, LockRefused(r) \/ Unlock(r) \/ Die(r)
        PROVE  Intent!IntentNext
    <2>1. InFlight(r) /\ phase' = [phase EXCEPT ![r] = "done"] /\ Row' = Row
      BY <1>5 DEF LockRefused, Unlock, Die, AcquireBusy, AcquireError, Release,
         ReleaseError, Crash, InFlight, rowVars, Row
    <2> QED
      BY <2>1, OverStep
  <1>6. ASSUME NEW r \in Requests,
               DeleteBegin(r) \/ \E p \in Policies : PutBegin(r, p)
        PROVE  UNCHANGED Intent!intentVars
    <2>1. phase[r] = "idle" /\ phase' = [phase EXCEPT ![r] = "starting"] /\ Row' = Row
      BY <1>6 DEF DeleteBegin, PutBegin, Begin, rowVars, Row
    <2>2. Over' = Over /\ \A q \in Requests : Holding(q)' <=> Holding(q)
      BY <2>1, <1>a DEF Over, Holding
    <2>3. Owner' = Owner
      BY <2>2 DEF Owner
    <2> QED
      BY <2>1, <2>2, <2>3 DEF Intent!intentVars
  <1>7. ASSUME NEW r \in Requests,
               \/ Validate(r) \/ Fail(r) \/ Observe(r) \/ Viability(r)
               \/ RemovalsDone(r) \/ RgwEnabled(r) \/ RgwDone(r) \/ CallTimesOut(r)
               \/ \E s \in Services, m \in Members :
                    AddService(r, s, m) \/ RefuseRemoval(r, s, m) \/ RemoveService(r, s, m)
               \/ \E m \in Members : EnableRgw(r, m) \/ DisableRgw(r, m)
        PROVE  phase' = phase /\ Row' = Row
    BY <1>7 DEF Validate, Fail, Observe, Viability, RemovalsDone, RgwEnabled, RgwDone,
                CallTimesOut, AddService, RefuseRemoval, RemoveService, EnableRgw,
                DisableRgw, RgwCall, lockVars, rowVars, Row
  <1>8. ASSUME NEW m \in Members, JobStep(m)
        PROVE  phase' = phase /\ Row' = Row
    BY <1>8 DEF JobStep, StartDaemon, StopDaemon, JobDone, JobFails, lockVars, rowVars, Row
  <1>9. CASE ClusterStep \/ Time \/ UNCHANGED vars
    <2>1. phase' = phase /\ Row' = Row
      BY <1>9 DEF ClusterStep, Bootstrap, OperatorDelete, DaemonReady, DaemonDies,
         DaemonRestarts, Time, Tick, vars, lockVars, rowVars, Row
    <2> QED
      BY <2>1, <1>1
  <1> QED
    BY <1>1, <1>2, <1>3, <1>4, <1>5, <1>6, <1>7, <1>8, <1>9 DEF Next, RequestStep

\* PUT and DELETE /1.0/placement serialize on the apply lock: the stored
\* policy and refusal are written by one request at a time, and never by a
\* request that was turned away or is over.
THEOREM EngineImplementsIntent == Spec => IntentImplemented
  <1>1. Init => Intent!IntentInit
    <2> SUFFICES ASSUME Init PROVE Intent!IntentInit
      OBVIOUS
    <2>1. \A r \in Requests : phase[r] = "idle"
      BY DEF Init, LockInit
    <2>2. Owner = NoRequest /\ Over = {}
      BY <2>1 DEF Owner, Over, Holding
    <2>3. Row \in Stored \X SUBSET Causes
      BY ApplyInitInv, RowType DEF ApplyInv
    <2> QED
      BY <2>2, <2>3 DEF Intent!IntentInit
  <1>2. ApplyInv /\ ApplyInv' /\ [Next]_vars => [Intent!IntentNext]_(Intent!intentVars)
    BY IntentStep
  <1> QED
    BY <1>1, <1>2, ApplyInvariance, PTL DEF Spec, IntentImplemented, Intent!IntentSpec
===============================================================================
