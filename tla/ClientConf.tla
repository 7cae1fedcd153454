----------------------------- MODULE ClientConf -----------------------------
(***************************************************************************)
(* Client configuration (api/client_configs.go, ceph/client_config.go and  *)
(* database/client_config*.go): keys are set and reset for one host or for *)
(* all of them, and every member renders its ceph.conf again, one after    *)
(* the other, the member that took the request last. A rendering reads the *)
(* global rows in one transaction and those of the host in a second one.   *)
(***************************************************************************)
EXTENDS Naturals, Sequences, SequencesExt, FiniteSets

CONSTANTS
    CcHosts,       \* names of hosts
    CcKeys, CcValues,
    MaxCcRuns,     \* requests altogether
    MaxCcTroubles  \* requests to a member that fail, and renderings that fail

VARIABLES
    ccMembers,   \* rows of core_cluster_members
    ccRows,      \* rows of client_config in the order of their ids
    ccConf,      \* values in a host's ceph.conf
    ccStep, ccTodo, ccRead,  \* a member's request: step, members to render, values read
    ccRuns, ccTroubles,
    \* What happened, for the properties only.
    asked,       \* the last value asked for a host or for all of them
    misfiled,    \* keys that were set for a host that is not a member
    blurred      \* hosts whose rendering failed, was skipped or met another one

ccCall == <<ccStep, ccTodo, ccRead>>
ccSeen == <<asked, misfiled, blurred>>
ccVars == <<ccMembers, ccRows, ccConf, ccCall, ccRuns, ccTroubles, ccSeen>>

All == "*"      \* constants.ClientConfigGlobalHostConst
Unset == "unset"
NoValues == [k \in CcKeys |-> Unset]

CcInit ==
    /\ ccMembers = CcHosts /\ ccRows = <<>> /\ ccConf = [h \in CcHosts |-> NoValues]
    /\ ccStep = [h \in CcHosts |-> "idle"] /\ ccTodo = [h \in CcHosts |-> <<>>]
    /\ ccRead = [h \in CcHosts |-> NoValues]
    /\ ccRuns = 0 /\ ccTroubles = 0
    /\ asked = [h \in CcHosts \cup {All} |-> NoValues] /\ misfiled = {} /\ blurred = {}

CcTrouble == ccTroubles < MaxCcTroubles /\ ccTroubles' = ccTroubles + 1
Rendering(h) == {n \in CcHosts : ccStep[n] \in {"host", "write"} /\ Head(ccTodo[n]) = h}
-----------------------------------------------------------------------------
(* database/client_config_extras.go and client_config.mapper.go *)

\* The value of the last row, in the order of ids, wins.
LastValue(rows) == IF rows = <<>> THEN Unset ELSE rows[Len(rows)].val
GetClientConfigItems(h, k) == SelectSeq(ccRows, LAMBDA r : r.host = h /\ r.key = k)
GetGlobalConfigs == [k \in CcKeys |-> LastValue(GetClientConfigItems(All, k))]
GetAllForFilter(h) == [k \in CcKeys |-> LastValue(GetClientConfigItems(h, k))]
squashClientConfigs(global, host) ==
    [k \in CcKeys |-> IF host[k] # Unset THEN host[k] ELSE global[k]]

\* INSERT OR REPLACE: schemaUpdate4 drops the unique index with the old table,
\* so that a row is added each time. The id of a host that is not a member is
\* NULL, which is what global rows have.
createOrUpdateClientConfigItem(h, k, v) ==
    Append(ccRows, [host |-> IF h \in ccMembers THEN h ELSE All, key |-> k, val |-> v])
\* Mutant: only the global rows of the key go.
DeleteGlobalItems(k) == SelectSeq(ccRows, LAMBDA r : r.key # k \/ r.host # All)
DeleteClientConfigItems(k) == SelectSeq(ccRows, LAMBDA r : r.key # k)
\* "Query deleted %d ClientConfigItem rows instead of 1": rolled back.
DeleteClientConfigItem(h, k) ==
    IF h \in ccMembers /\ Len(GetClientConfigItems(h, k)) = 1
    THEN SelectSeq(ccRows, LAMBDA r : r.key # k \/ r.host # h) ELSE ccRows
-----------------------------------------------------------------------------
(* The requests. *)

\* Mutant: the member that took the request is left out.
OthersOnly(n) == SetToSeq(ccMembers \ {n})
\* SendUpdateClientConfRequestToClusterMembers, and then this host.
clientConfigUpdate(n) == Append(SetToSeq(ccMembers \ {n}), n)
Take(n) ==
    /\ n \in ccMembers /\ ccStep[n] = "idle" /\ ccRuns < MaxCcRuns /\ ccRuns' = ccRuns + 1
    /\ ccStep' = [ccStep EXCEPT ![n] = "next"]
    /\ ccTodo' = [ccTodo EXCEPT ![n] = clientConfigUpdate(n)]
    /\ UNCHANGED <<ccMembers, ccConf, ccRead, ccTroubles, blurred>>

clientConfigsKeyPut(n, h, k, v) ==
    /\ Take(n)
    /\ ccRows' = IF h = All THEN Append(ccRows, [host |-> All, key |-> k, val |-> v])
                 ELSE createOrUpdateClientConfigItem(h, k, v)
    /\ asked' = [asked EXCEPT ![h][k] = v]
    /\ misfiled' = IF h \in ccMembers \cup {All} THEN misfiled ELSE misfiled \cup {k}

\* A request for one host that deletes no row, or more than one, is refused.
clientConfigsKeyDelete(n, h, k) ==
    \/ /\ h = All /\ Take(n) /\ ccRows' = DeleteClientConfigItems(k)
       /\ asked' = [i \in DOMAIN asked |-> [asked[i] EXCEPT ![k] = Unset]]
       /\ misfiled' = misfiled \ {k}
    \/ /\ h # All /\ DeleteClientConfigItem(h, k) # ccRows /\ Take(n)
       /\ ccRows' = DeleteClientConfigItem(h, k)
       /\ asked' = [asked EXCEPT ![h][k] = Unset] /\ UNCHANGED misfiled

\* The request to a member cannot be sent, or the own rendering fails: a waiting
\* request (--wait) ends with the error, any other goes on with its own host.
SendFails(n, wait) ==
    /\ ccStep[n] = "next" /\ CcTrouble
    /\ blurred' = blurred \cup
          (IF wait THEN Range(ccTodo[n]) ELSE Range(ccTodo[n]) \ ({n} \ {Head(ccTodo[n])}))
    /\ LET rest == IF wait \/ Len(ccTodo[n]) = 1 THEN <<>> ELSE <<n>> IN
       /\ ccTodo' = [ccTodo EXCEPT ![n] = rest]
       /\ ccStep' = [ccStep EXCEPT ![n] = IF rest = <<>> THEN "idle" ELSE "next"]
    /\ UNCHANGED <<ccMembers, ccRows, ccConf, ccRead, ccRuns, asked, misfiled>>

\* UpdateConfig on the next member: GetClientConfigForHost reads twice and
\* WriteConfig writes. cmdClientConfigsPut answers the same when it fails.
ReadGlobal(n) ==
    LET h == Head(ccTodo[n]) IN
    /\ ccStep[n] = "next"
    /\ ccStep' = [ccStep EXCEPT ![n] = "host"] /\ ccRead' = [ccRead EXCEPT ![n] = GetGlobalConfigs]
    /\ blurred' = IF Rendering(h) # {} THEN blurred \cup {h} ELSE blurred \ {h}
    /\ UNCHANGED <<ccMembers, ccRows, ccConf, ccTodo, ccRuns, ccTroubles, asked, misfiled>>
ReadHost(n) ==
    LET h == Head(ccTodo[n]) IN
    /\ ccStep[n] = "host"
    /\ ccStep' = [ccStep EXCEPT ![n] = "write"]
    /\ ccRead' = [ccRead EXCEPT ![n] = squashClientConfigs(@, GetAllForFilter(h))]
    /\ UNCHANGED <<ccMembers, ccRows, ccConf, ccTodo, ccRuns, ccTroubles, ccSeen>>
WriteConf(n) ==
    LET h == Head(ccTodo[n]) IN
    /\ ccStep[n] = "write"
    /\ \/ ccConf' = [ccConf EXCEPT ![h] = ccRead[n]] /\ UNCHANGED <<ccTroubles, blurred>>
       \/ CcTrouble /\ blurred' = blurred \cup {h} /\ UNCHANGED ccConf
    /\ ccTodo' = [ccTodo EXCEPT ![n] = Tail(@)] /\ ccRead' = [ccRead EXCEPT ![n] = NoValues]
    /\ ccStep' = [ccStep EXCEPT ![n] = IF Len(ccTodo[n]) = 1 THEN "idle" ELSE "next"]
    /\ UNCHANGED <<ccMembers, ccRows, ccRuns, asked, misfiled>>

\* A member leaves, its rows with it (ON DELETE CASCADE).
CcLeave(h) ==
    /\ h \in ccMembers /\ Cardinality(ccMembers) > 1 /\ ccStep[h] = "idle"
    /\ \A n \in CcHosts : h \notin Range(ccTodo[n])
    /\ ccMembers' = ccMembers \ {h} /\ ccRows' = SelectSeq(ccRows, LAMBDA r : r.host # h)
    /\ asked' = [asked EXCEPT ![h] = NoValues]
    /\ UNCHANGED <<ccConf, ccCall, ccRuns, ccTroubles, misfiled, blurred>>

CcNext ==
    \/ \E n \in CcHosts :
          \/ \E h \in CcHosts \cup {All}, k \in CcKeys :
                \/ \E v \in CcValues : clientConfigsKeyPut(n, h, k, v)
                \/ clientConfigsKeyDelete(n, h, k)
          \/ (\E w \in BOOLEAN : SendFails(n, w)) \/ ReadGlobal(n) \/ ReadHost(n) \/ WriteConf(n)
    \/ \E h \in CcHosts : CcLeave(h)

CcSpec == CcInit /\ [][CcNext]_ccVars
-----------------------------------------------------------------------------
\* Types; a row of a host is of a member.
CcTypeOK ==
    /\ ccMembers \subseteq CcHosts /\ ccConf \in [CcHosts -> [CcKeys -> CcValues \cup {Unset}]]
    /\ \A i \in DOMAIN ccRows :
          ccRows[i].host \in ccMembers \cup {All} /\ ccRows[i].key \in CcKeys /\ ccRows[i].val \in CcValues
    /\ \A n \in CcHosts : (ccStep[n] = "idle") = (ccTodo[n] = <<>>)
    /\ ccStep \in [CcHosts -> {"idle", "next", "host", "write"}]
    /\ \A n \in CcHosts : ccTodo[n] # <<>> => n = ccTodo[n][Len(ccTodo[n])]

\* What the rows mean for a member is what was last asked for it, or else for
\* all hosts, although a row is added each time; a key that was set for a host
\* which is not a member has become a global one.
RowsMeanWhatWasAsked ==
    \A h \in ccMembers, k \in CcKeys \ misfiled :
        squashClientConfigs(GetGlobalConfigs, GetAllForFilter(h))[k]
            = (IF asked[h][k] # Unset THEN asked[h][k] ELSE asked[All][k])

\* "Wait for configs to propagate across the cluster": when requests have
\* ended, every member's ceph.conf has the values of the rows, unless its last
\* rendering failed, was skipped or met another one.
EndedIsRendered ==
    (\A n \in CcHosts : ccStep[n] = "idle") =>
        \A h \in ccMembers \ blurred :
            ccConf[h] = squashClientConfigs(GetGlobalConfigs, GetAllForFilter(h))
=============================================================================
