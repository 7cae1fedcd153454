------------------------- MODULE PlacementLockProofs -------------------------
(***************************************************************************)
(* For any number of requests, any timeouts, any clock skew and any lease  *)
(* that satisfies LockAssumption, the placement apply lock is mutually     *)
(* exclusive and is never reclaimed from a live holder.                    *)
(***************************************************************************)
EXTENDS PlacementLock, TLAPS

\* What a live request's own clock reading and contexts say about the time:
\* it has not outlived its phase, and its token is its start up to the skew.
Timing(r) ==
    /\ Skew + 1 <= start[r]
    /\ start[r] <= clock
    /\ clock <= Expiry(r)
    /\ start[r] - Skew <= token[r]
    /\ token[r] <= start[r] + Skew

\* The inductive invariant: the two safety properties need each other and the
\* timing of the live requests.
LockInv ==
    /\ LockTypeOK
    /\ Skew + 1 <= clock
    /\ \A r \in Requests : InFlight(r) => Timing(r)
    /\ LiveHolderKeepsLock
    /\ MutualExclusion

\* A holder's token is live for every other requester: neither disjunct of
\* the conditional UPDATE of TryAcquirePlacementApplyLock can match the row.
LEMMA HeldIsUnavailable ==
    ASSUME LockInv, NEW h \in Requests, Holding(h),
           NEW r \in Requests, InFlight(r)
    PROVE  ~Available(r)
  <1>1. InFlight(h)
    BY DEF Holding, InFlight
  <1>2. Timing(h) /\ Timing(r) /\ lockToken = token[h]
    BY <1>1 DEF LockInv, LiveHolderKeepsLock
  <1>3. Budget(h) <= PutTimeout /\ Budget(h) \in Nat
    BY LockAssumption DEF Budget
  <1>4. Expiry(h) <= start[h] + PutTimeout + QueryTimeout + 2 * WriteTimeout
    BY <1>3, LockAssumption DEF Expiry, LockInv, LockTypeOK, Holding
  <1>5. /\ start[h] \in Nat /\ start[r] \in Nat /\ token[h] \in Nat
        /\ token[r] \in Nat /\ clock \in Nat
    BY DEF LockInv, LockTypeOK
  <1>6. Expiry(h) \in Nat
    BY <1>3, <1>5, LockAssumption DEF Expiry
  <1> QED
    BY <1>2, <1>4, <1>5, <1>6, LockAssumption DEF Timing, Available

\* Every step of the lock, whoever takes it, keeps the inductive invariant.
LEMMA LockStepInv == LockInv /\ [LockNext]_lockVars => LockInv'
  <1> SUFFICES ASSUME LockInv, [LockNext]_lockVars
               PROVE  LockInv'
    OBVIOUS
  <1> USE DEF LockInv, LockTypeOK
  <1>1. CASE UNCHANGED lockVars
    BY <1>1 DEF lockVars, Timing, Expiry, Budget, InFlight, Holding,
                LiveHolderKeepsLock, MutualExclusion
  <1>2. CASE Tick
    <2>1. /\ clock' = clock + 1
          /\ \A r \in Requests : InFlight(r) => clock < Expiry(r)
          /\ UNCHANGED <<lockToken, phase, kind, start, token>>
      BY <1>2 DEF Tick
    <2>2. \A r \in Requests : Expiry(r)' = Expiry(r) /\ (InFlight(r)' <=> InFlight(r))
      BY <2>1 DEF Expiry, Budget, InFlight
    <2>3. \A r \in Requests : Expiry(r) \in Nat
      BY LockAssumption DEF Expiry, Budget
    <2>4. \A r \in Requests : InFlight(r)' => Timing(r)'
      BY <2>1, <2>2, <2>3, LockAssumption DEF Timing
    <2>5. (LiveHolderKeepsLock /\ MutualExclusion)'
      BY <2>1 DEF Holding, LiveHolderKeepsLock, MutualExclusion
    <2> QED
      BY <2>1, <2>4, <2>5, LockAssumption
  <1>3. ASSUME NEW r \in Requests, LockStep(r)
        PROVE  LockInv'
    <2>1. ASSUME NEW k \in Kinds, Begin(r, k)
          PROVE  LockInv'
      <3>1. PICK t \in (clock - Skew)..(clock + Skew) :
               /\ phase[r] = "idle"
               /\ phase' = [phase EXCEPT ![r] = "starting"]
               /\ kind' = [kind EXCEPT ![r] = k]
               /\ start' = [start EXCEPT ![r] = clock]
               /\ token' = [token EXCEPT ![r] = t]
               /\ UNCHANGED <<clock, lockToken>>
        BY <2>1 DEF Begin
      <3>2. t \in Nat
        BY <3>1, LockAssumption
      <3>3. LockTypeOK' /\ Skew + 1 <= clock'
        BY <3>1, <3>2, <2>1 DEF Phases, Kinds
      <3>4. Timing(r)'
        BY <3>1, <3>2, LockAssumption DEF Timing, Expiry, Budget
      <3>5. \A q \in Requests \ {r} :
               /\ Timing(q) => Timing(q)'
               /\ InFlight(q)' <=> InFlight(q)
        BY <3>1 DEF Timing, Expiry, Budget, InFlight
      <3>6. (LiveHolderKeepsLock /\ MutualExclusion)'
        BY <3>1 DEF Holding, LiveHolderKeepsLock, MutualExclusion
      <3> QED
        BY <3>3, <3>4, <3>5, <3>6
    <2>2. ASSUME phase[r] = "starting", Available(r), lockToken' = token[r],
                 phase' \in {[phase EXCEPT ![r] = "held"], [phase EXCEPT ![r] = "done"]},
                 UNCHANGED <<clock, kind, start, token>>
          PROVE  LockInv'
      <3>1. \A h \in Requests : ~Holding(h)
        BY <2>2, HeldIsUnavailable DEF InFlight
      <3>2. LockTypeOK' /\ Skew + 1 <= clock'
        BY <2>2 DEF Phases
      <3>3. \A q \in Requests : InFlight(q)' => InFlight(q)
        BY <2>2 DEF InFlight
      <3>4. \A q \in Requests : InFlight(q)' /\ Timing(q) => Timing(q)'
        BY <2>2, LockAssumption DEF InFlight, Timing, Expiry, Budget
      <3>5. (LiveHolderKeepsLock /\ MutualExclusion)'
        BY <2>2, <3>1 DEF Holding, LiveHolderKeepsLock, MutualExclusion
      <3> QED
        BY <3>2, <3>3, <3>4, <3>5
    <2>3. ASSUME phase' = [phase EXCEPT ![r] = "done"],
                 UNCHANGED <<clock, kind, start, token>>,
                 \/ lockToken' = lockToken
                 \/ Holding(r) /\ lockToken' = IF lockToken = token[r] THEN 0 ELSE lockToken
          PROVE  LockInv'
      <3>1. LockTypeOK' /\ Skew + 1 <= clock'
        BY <2>3 DEF Phases
      <3>2. \A q \in Requests : InFlight(q)' => InFlight(q) /\ q # r
        BY <2>3 DEF InFlight
      <3>3. \A q \in Requests : q # r /\ Timing(q) => Timing(q)'
        BY <2>3 DEF Timing, Expiry, Budget
      <3>4. (LiveHolderKeepsLock /\ MutualExclusion)'
        BY <2>3 DEF Holding, LiveHolderKeepsLock, MutualExclusion
      <3> QED
        BY <3>1, <3>2, <3>3, <3>4
    <2>4. CASE Finish(r)
      <3>1. LockTypeOK' /\ Skew + 1 <= clock'
        BY <2>4 DEF Finish, Phases
      <3>2. \A q \in Requests : InFlight(q)' => InFlight(q)
        BY <2>4 DEF Finish, InFlight
      <3>3. \A q \in Requests : InFlight(q)' /\ Timing(q) => Timing(q)'
        BY <2>4, LockAssumption DEF Finish, InFlight, Timing, Expiry, Budget
      <3>4. (LiveHolderKeepsLock /\ MutualExclusion)'
        BY <2>4 DEF Finish, Holding, LiveHolderKeepsLock, MutualExclusion
      <3> QED
        BY <3>1, <3>2, <3>3, <3>4
    <2> QED
      BY <1>3, <2>1, <2>2, <2>3, <2>4
      DEF LockStep, Acquire, AcquireBusy, AcquireError, Release, ReleaseError,
          Crash, Holding
  <1> QED
    BY <1>1, <1>2, <1>3 DEF LockNext

\* The initial row is unlocked and nothing is in flight.
LEMMA LockInitInv == LockInit => LockInv
  BY LockAssumption
  DEF LockInit, LockInv, LockTypeOK, Phases, Kinds, InFlight, Holding,
      LiveHolderKeepsLock, MutualExclusion

\* LockInv holds in every reachable state of the lock.
THEOREM LockInvariance == LockSpec => []LockInv
  BY LockInitInv, LockStepInv, PTL DEF LockSpec

\* The lock of LockPlacementApply is mutually exclusive for every number of
\* requests, every skew and every lease that outlasts the handlers' contexts.
THEOREM LockMutualExclusion == LockSpec => []MutualExclusion
  <1>1. LockInv => MutualExclusion
    BY DEF LockInv
  <1> QED
    BY <1>1, LockInvariance, PTL

\* A live apply never has its lock reclaimed underneath it.
THEOREM LockNeverReclaimedLive == LockSpec => []LiveHolderKeepsLock
  <1>1. LockInv => LiveHolderKeepsLock
    BY DEF LockInv
  <1> QED
    BY <1>1, LockInvariance, PTL
=============================================================================
