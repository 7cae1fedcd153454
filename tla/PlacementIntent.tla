--------------------------- MODULE PlacementIntent ---------------------------
(***************************************************************************)
(* What the placement API promises about the stored intent: requests       *)
(* write the placement_policy row one at a time.  A request enters, may    *)
(* write the row while it is in, and leaves; nobody else writes the row    *)
(* meanwhile, and nobody writes it after it was turned away or has left.   *)
(***************************************************************************)
CONSTANTS
    Requests,   \* the placement requests
    Rows,       \* the contents the row can have
    NoRequest   \* the owner when no request is in

VARIABLES
    owner,  \* the request that is in, or NoRequest
    over,   \* the requests that were turned away or have left
    row     \* the stored policy and the stored refusal

intentVars == <<owner, over, row>>

IntentInit ==
    /\ owner = NoRequest
    /\ over = {}
    /\ row \in Rows

Enter(r) ==
    /\ owner = NoRequest
    /\ r \notin over
    /\ owner' = r
    /\ UNCHANGED <<over, row>>

TurnedAway(r) ==
    /\ owner # r
    /\ r \notin over
    /\ over' = over \cup {r}
    /\ UNCHANGED <<owner, row>>

Write(r) ==
    /\ owner = r
    /\ row' \in Rows
    /\ UNCHANGED <<owner, over>>

Leave(r) ==
    /\ owner = r
    /\ owner' = NoRequest
    /\ over' = over \cup {r}
    /\ UNCHANGED row

IntentNext ==
    \E r \in Requests : Enter(r) \/ TurnedAway(r) \/ Write(r) \/ Leave(r)

IntentSpec == IntentInit /\ [][IntentNext]_intentVars
=============================================================================
