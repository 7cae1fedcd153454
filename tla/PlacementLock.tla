---------------------------- MODULE PlacementLock ----------------------------
(***************************************************************************)
(* The cluster-wide placement apply lock: the apply_lock_token column of   *)
(* the single placement_policy row, taken by every PUT and DELETE of       *)
(* /1.0/placement.  A token is the requester's wall-clock time when it     *)
(* asked for the lock, so the same number says who holds the lock and      *)
(* since when; a token older than the lease may be taken over.             *)
(*                                                                         *)
(* One request is one run of cmdPlacementPut or cmdPlacementDelete on some *)
(* member.  Every database transaction is one step.  Time is the variable  *)
(* clock; a member's own clock is off by at most Skew.  A request never    *)
(* outlives the contexts the handler gives it, which is what Tick says:    *)
(* time cannot pass the moment at which a context ends the phase a request *)
(* is in.                                                                  *)
(***************************************************************************)
EXTENDS Integers

CONSTANTS
    Requests,       \* the placement requests served by the members
    PutTimeout,     \* placementPutTimeout: the context of a whole PUT
    DeleteTimeout,  \* the context of a whole DELETE
    QueryTimeout,   \* clusterQueryTimeout: a member listing ignores the
                    \* request's context and runs under one of its own
    WriteTimeout,   \* the detached context of a refusal write, and of the unlock
    Lease,          \* placementApplyLease
    Skew,           \* how far a member's clock may be off
    MaxClock        \* bound: how far time runs

VARIABLES
    clock,      \* real time
    lockToken,  \* placement_policy.apply_lock_token, 0 when free
    phase,      \* where each request stands with the lock
    kind,       \* "put" or "delete"
    start,      \* when each request began: its contexts count from here
    token       \* the token each request computed when it began

lockVars == <<clock, lockToken, phase, kind, start, token>>

Phases == {"idle", "starting", "held", "releasing", "done"}
Kinds == {"put", "delete"}

\* The lease outlasts everything a live request may still do, whatever the skew.
ASSUME LockAssumption ==
    /\ PutTimeout \in Nat /\ DeleteTimeout \in Nat /\ DeleteTimeout <= PutTimeout
    /\ QueryTimeout \in Nat /\ WriteTimeout \in Nat /\ Skew \in Nat
    /\ MaxClock \in Nat /\ Lease \in Nat
    /\ PutTimeout + QueryTimeout + 2 * WriteTimeout + 2 * Skew <= Lease

Budget(r) == IF kind[r] = "put" THEN PutTimeout ELSE DeleteTimeout

\* The latest moment at which request r can still be in the phase it is in:
\* waiting for the acquiring transaction, applying (with the refusal write at
\* the end, under its own context), or releasing.
Expiry(r) ==
    start[r] + Budget(r) +
        (IF phase[r] = "starting" THEN 0
         ELSE IF phase[r] = "held" THEN QueryTimeout + WriteTimeout
         ELSE QueryTimeout + 2 * WriteTimeout)

InFlight(r) == phase[r] \in {"starting", "held", "releasing"}

\* Request r is between a successful acquire and the end of its release.
Holding(r) == phase[r] \in {"held", "releasing"}

LockInit ==
    /\ clock = Skew + 1
    /\ lockToken = 0
    /\ phase = [r \in Requests |-> "idle"]
    /\ kind = [r \in Requests |-> "put"]
    /\ start = [r \in Requests |-> 0]
    /\ token = [r \in Requests |-> 0]

\* The handler creates its context and reads its clock for the token; the
\* transaction that tries to take the lock comes later.
Begin(r, k) ==
    /\ phase[r] = "idle"
    /\ phase' = [phase EXCEPT ![r] = "starting"]
    /\ kind' = [kind EXCEPT ![r] = k]
    /\ start' = [start EXCEPT ![r] = clock]
    /\ \E t \in (clock - Skew)..(clock + Skew) : token' = [token EXCEPT ![r] = t]
    /\ UNCHANGED <<clock, lockToken>>

\* Variants: no lease at all; a lease as short as a PUT.
AvailableNoLease(r) == lockToken = 0 \/ lockToken < token[r]

\* The conditional UPDATE of TryAcquirePlacementApplyLock matches the row.
Available(r) == lockToken = 0 \/ lockToken < token[r] - Lease

Acquire(r) ==
    /\ phase[r] = "starting"
    /\ Available(r)
    /\ lockToken' = token[r]
    /\ phase' = [phase EXCEPT ![r] = "held"]
    /\ UNCHANGED <<clock, kind, start, token>>

\* A live holder exists: the request is answered 409 Conflict.
AcquireBusy(r) ==
    /\ phase[r] = "starting"
    /\ ~Available(r)
    /\ phase' = [phase EXCEPT ![r] = "done"]
    /\ UNCHANGED <<clock, lockToken, kind, start, token>>

\* The transaction fails, or its commit is lost to the caller: the request
\* ends without the deferred unlock, and the row may hold its token.
AcquireError(r) ==
    /\ phase[r] = "starting"
    /\ \/ lockToken' = lockToken
       \/ Available(r) /\ lockToken' = token[r]
    /\ phase' = [phase EXCEPT ![r] = "done"]
    /\ UNCHANGED <<clock, kind, start, token>>

\* The apply, or the clear, is over; the deferred unlock comes next.
Finish(r) ==
    /\ phase[r] = "held"
    /\ phase' = [phase EXCEPT ![r] = "releasing"]
    /\ UNCHANGED <<clock, lockToken, kind, start, token>>

\* ReleasePlacementApplyLock clears the token only while it is still this
\* request's own.
Release(r) ==
    /\ phase[r] = "releasing"
    /\ lockToken' = IF lockToken = token[r] THEN 0 ELSE lockToken
    /\ phase' = [phase EXCEPT ![r] = "done"]
    /\ UNCHANGED <<clock, kind, start, token>>

\* A failed unlock is only logged: the lease frees the lock later.
ReleaseError(r) ==
    /\ phase[r] = "releasing"
    /\ phase' = [phase EXCEPT ![r] = "done"]
    /\ UNCHANGED <<clock, lockToken, kind, start, token>>

\* The daemon serving r dies; the row keeps whatever token it holds.
Crash(r) ==
    /\ InFlight(r)
    /\ phase' = [phase EXCEPT ![r] = "done"]
    /\ UNCHANGED <<clock, lockToken, kind, start, token>>

Tick ==
    /\ clock < MaxClock
    /\ \A r \in Requests : InFlight(r) => clock < Expiry(r)
    /\ clock' = clock + 1
    /\ UNCHANGED <<lockToken, phase, kind, start, token>>

LockStep(r) ==
    \/ \E k \in Kinds : Begin(r, k)
    \/ Acquire(r)
    \/ AcquireBusy(r)
    \/ AcquireError(r)
    \/ Finish(r)
    \/ Release(r)
    \/ ReleaseError(r)
    \/ Crash(r)

LockNext == Tick \/ \E r \in Requests : LockStep(r)

LockSpec == LockInit /\ [][LockNext]_lockVars

-----------------------------------------------------------------------------
(* Properties *)

\* The types of the variables.
LockTypeOK ==
    /\ clock \in Nat
    /\ lockToken \in Nat
    /\ phase \in [Requests -> Phases]
    /\ kind \in [Requests -> Kinds]
    /\ start \in [Requests -> Nat]
    /\ token \in [Requests -> Nat]

\* LockPlacementApply "makes the read-modify cycle mutually exclusive across
\* all cluster members": at no time are two requests between a successful
\* acquire and the end of their release, crashes, lost answers, failed
\* unlocks, takeovers of expired tokens and skewed clocks included.
MutualExclusion ==
    \A r1, r2 \in Requests : Holding(r1) /\ Holding(r2) => r1 = r2

\* "a live apply can never have its lock reclaimed underneath it": while a
\* request is applying or releasing, the row still carries its own token, so
\* the conditional release always finds the lock it took.
LiveHolderKeepsLock ==
    \A r \in Requests : Holding(r) => lockToken = token[r]
=============================================================================
