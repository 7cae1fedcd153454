------------------------------ MODULE Remotes -------------------------------
(***************************************************************************)
(* Remote clusters (api/remote.go, client/remote.go,                       *)
(* database/remote_extras.go, database/remote.mapper.go). An import writes *)
(* the remote's .conf and .keyring on the member that takes the request,   *)
(* records the remote, and has the other members write them in the         *)
(* background. A removal deletes the row and this member's two files.      *)
(***************************************************************************)
EXTENDS Naturals, FiniteSets

CONSTANTS
    RmHosts, RmNames,  \* members, and names of remotes
    RmSlots,           \* requests that can run at once, at any member
    MaxRmRuns,         \* requests altogether
    MaxRmTroubles      \* steps that fail

ASSUME RmConstants == "-" \notin RmNames

VARIABLES
    rmRows,      \* rows of the table remote
    rmConf, rmKeyring,  \* remotes whose file a member has
    rmTrusted,   \* remotes whose client key this cluster has
    rmPeers,     \* remotes that are peers of a mirrored pool
    rmReq,       \* requests: step, member, remote, members still to be told
    rmRuns, rmTroubles,
    \* For the properties only.
    rmVague,     \* remotes whose files were not written on some member
    rmCrossed    \* remotes with overlapping requests

rmFiles == <<rmConf, rmKeyring>>
rmSeen == <<rmVague, rmCrossed>>
rmVars == <<rmRows, rmFiles, rmTrusted, rmPeers, rmReq, rmRuns, rmTroubles, rmSeen>>

NoOne == "-"
RmIdle == [step |-> "idle", at |-> NoOne, name |-> NoOne, fwd |-> {}]

RmInit ==
    /\ rmRows = {} /\ rmConf = [h \in RmHosts |-> {}] /\ rmKeyring = [h \in RmHosts |-> {}]
    /\ rmTrusted = RmNames /\ rmPeers = {} /\ rmReq = [r \in RmSlots |-> RmIdle]
    /\ rmRuns = 0 /\ rmTroubles = 0 /\ rmVague = {} /\ rmCrossed = {}

RmTrouble == rmTroubles < MaxRmTroubles /\ rmTroubles' = rmTroubles + 1
RmGo(r, st) == rmReq' = [rmReq EXCEPT ![r].step = st]
RmEnds(r) == rmReq' = [rmReq EXCEPT ![r] = RmIdle]
RmIs(r, st) == rmReq[r].step = st
RmBusy(n) == \E r \in RmSlots : rmReq[r].name = n

\* Member h takes a request for remote n; its name has been validated.
RmTake(r, h, n, st) ==
    /\ RmIs(r, "idle") /\ rmRuns < MaxRmRuns /\ rmRuns' = rmRuns + 1
    /\ rmReq' = [rmReq EXCEPT ![r] = [step |-> st, at |-> h, name |-> n, fwd |-> {}]]
    /\ rmCrossed' = IF RmBusy(n) THEN rmCrossed \cup {n} ELSE rmCrossed
    /\ UNCHANGED <<rmRows, rmFiles, rmTrusted, rmPeers, rmTroubles, rmVague>>
cmdRemotePut(r, h, n) == RmTake(r, h, n, "render")
cmdRemoteDelete(r, h, n) == RmTake(r, h, n, "check")

\* Replication makes a remote a peer of a pool, or no longer one.
RmMirror(n) ==
    /\ n \in rmRows \/ n \in rmPeers
    /\ rmPeers' = IF n \in rmPeers THEN rmPeers \ {n} ELSE rmPeers \cup {n}
    /\ UNCHANGED <<rmRows, rmFiles, rmTrusted, rmReq, rmRuns, rmTroubles, rmSeen>>
-----------------------------------------------------------------------------
\* Both files are written on member m, or an error comes before either of them.
renderConfAndKeyringFiles(m, n) ==
    \/ /\ rmConf' = [rmConf EXCEPT ![m] = @ \cup {n}]
       /\ \/ rmKeyring' = [rmKeyring EXCEPT ![m] = @ \cup {n}] /\ UNCHANGED <<rmTroubles, rmVague>>
          \/ RmTrouble /\ rmVague' = rmVague \cup {n} /\ UNCHANGED rmKeyring
    \/ RmTrouble /\ rmVague' = rmVague \cup {n} /\ UNCHANGED rmFiles

RenderHere(r) ==
    /\ RmIs(r, "render") /\ renderConfAndKeyringFiles(rmReq[r].at, rmReq[r].name)
    /\ IF rmTroubles' = rmTroubles THEN RmGo(r, "persist") ELSE RmEnds(r)
    /\ UNCHANGED <<rmRows, rmTrusted, rmPeers, rmRuns, rmCrossed>>

\* Mutants: the request goes to nobody else, or to this member too.
forwardNobody(h) == {}
\* SendRemoteImportToClusterMembers: every other member.
forwardReq(h) == RmHosts \ {h}
\* A remote that is recorded is not recorded again, and the request ends.
PersistRemoteDb(r) ==
    LET n == rmReq[r].name
        h == rmReq[r].at IN
    /\ RmIs(r, "persist")
    /\ \/ /\ n \notin rmRows /\ rmRows' = rmRows \cup {n}
          /\ rmReq' = [rmReq EXCEPT ![r] = [step |-> "forward", at |-> h, name |-> n, fwd |-> forwardReq(h)]]
          /\ rmVague' = rmVague \ {n} /\ UNCHANGED rmTroubles
       \/ n \in rmRows /\ RmEnds(r) /\ UNCHANGED <<rmRows, rmTroubles, rmVague>>
       \/ RmTrouble /\ RmEnds(r) /\ UNCHANGED <<rmRows, rmVague>>
    /\ UNCHANGED <<rmFiles, rmTrusted, rmPeers, rmRuns, rmCrossed>>
\* In the background; the first member that fails is the last one that is asked.
SendRemoteImportRequest(r, m) ==
    /\ RmIs(r, "forward") /\ m \in rmReq[r].fwd /\ renderConfAndKeyringFiles(m, rmReq[r].name)
    /\ rmReq' = [rmReq EXCEPT ![r].fwd = IF rmTroubles' = rmTroubles THEN @ \ {m} ELSE {}]
    /\ UNCHANGED <<rmRows, rmTrusted, rmPeers, rmRuns, rmCrossed>>
Forwarded(r) ==
    /\ RmIs(r, "forward") /\ rmReq[r].fwd = {} /\ RmEnds(r)
    /\ UNCHANGED <<rmRows, rmFiles, rmTrusted, rmPeers, rmRuns, rmTroubles, rmSeen>>
-----------------------------------------------------------------------------
\* IsRemoteConfiguredForRbdMirror: a failed reading means that it is not.
isRemoteConfigured(r) ==
    /\ RmIs(r, "check")
    /\ \/ rmReq[r].name \in rmPeers /\ RmEnds(r) /\ UNCHANGED rmTroubles
       \/ rmReq[r].name \notin rmPeers /\ RmGo(r, "delete") /\ UNCHANGED rmTroubles
       \/ rmReq[r].name \in rmPeers /\ RmTrouble /\ RmGo(r, "delete")
    /\ UNCHANGED <<rmRows, rmFiles, rmTrusted, rmPeers, rmRuns, rmSeen>>
DeleteRemote(r) ==
    LET n == rmReq[r].name IN
    /\ RmIs(r, "delete")
    /\ \/ n \in rmRows /\ rmRows' = rmRows \ {n} /\ RmGo(r, "unlink") /\ UNCHANGED rmTroubles
       \/ n \notin rmRows /\ RmEnds(r) /\ UNCHANGED <<rmRows, rmTroubles>>
       \/ RmTrouble /\ RmEnds(r) /\ UNCHANGED rmRows
    /\ UNCHANGED <<rmFiles, rmTrusted, rmPeers, rmRuns, rmSeen>>
\* Mutant: a file that cannot be removed is only reported.
DeleteRegardless(r) ==
    LET n == rmReq[r].name
        h == rmReq[r].at IN
    /\ RmIs(r, "unlink") /\ RmGo(r, "key")
    /\ \/ rmConf' = [rmConf EXCEPT ![h] = @ \ {n}] /\ rmKeyring' = [rmKeyring EXCEPT ![h] = @ \ {n}]
          /\ UNCHANGED rmTroubles
       \/ RmTrouble /\ UNCHANGED rmFiles
    /\ UNCHANGED <<rmRows, rmTrusted, rmPeers, rmRuns, rmSeen>>
\* The .conf, then the .keyring; a file that is missing or stays ends the request,
\* and the key stays too.
DeleteRemoteDb(r) ==
    LET n == rmReq[r].name
        h == rmReq[r].at IN
    /\ RmIs(r, "unlink")
    /\ \/ /\ rmConf' = [rmConf EXCEPT ![h] = @ \ {n}]
          /\ \/ /\ rmKeyring' = IF n \in rmConf[h] THEN [rmKeyring EXCEPT ![h] = @ \ {n}] ELSE rmKeyring
                /\ IF n \in rmConf[h] \cap rmKeyring[h] THEN RmGo(r, "key") ELSE RmEnds(r)
                /\ UNCHANGED rmTroubles
             \/ n \in rmConf[h] /\ RmTrouble /\ RmEnds(r) /\ UNCHANGED rmKeyring
       \/ RmTrouble /\ RmEnds(r) /\ UNCHANGED rmFiles
    /\ UNCHANGED <<rmRows, rmTrusted, rmPeers, rmRuns, rmSeen>>
DeleteClientKey(r) ==
    /\ RmIs(r, "key") /\ RmEnds(r)
    /\ \/ rmTrusted' = rmTrusted \ {rmReq[r].name} /\ UNCHANGED rmTroubles
       \/ RmTrouble /\ UNCHANGED rmTrusted
    /\ UNCHANGED <<rmRows, rmFiles, rmPeers, rmRuns, rmSeen>>

RmNext ==
    \/ \E n \in RmNames : RmMirror(n)
    \/ \E r \in RmSlots :
          \/ \E h \in RmHosts, n \in RmNames : cmdRemotePut(r, h, n) \/ cmdRemoteDelete(r, h, n)
          \/ RenderHere(r) \/ PersistRemoteDb(r) \/ Forwarded(r)
          \/ \E m \in RmHosts : SendRemoteImportRequest(r, m)
          \/ isRemoteConfigured(r) \/ DeleteRemote(r) \/ DeleteRemoteDb(r) \/ DeleteClientKey(r)

RmSpec == RmInit /\ [][RmNext]_rmVars
-----------------------------------------------------------------------------
\* Types; only a request that forwards has members to tell, never its own.
RmTypeOK ==
    /\ rmRows \cup rmTrusted \cup rmPeers \subseteq RmNames
    /\ \A h \in RmHosts : rmConf[h] \cup rmKeyring[h] \subseteq RmNames
    /\ \A r \in RmSlots :
          /\ rmReq[r].name \in (IF RmIs(r, "idle") THEN {NoOne} ELSE RmNames)
          /\ rmReq[r].fwd # {} => RmIs(r, "forward") /\ rmReq[r].at \notin rmReq[r].fwd

\* A recorded remote can be used from every member once its import has been
\* forwarded, unless writing a file failed or another request for it overlapped.
RecordedIsUsable ==
    \A n \in rmRows \ (rmVague \cup rmCrossed) :
        ~RmBusy(n) => \A h \in RmHosts : n \in rmConf[h] \cap rmKeyring[h]

\* A cluster stops trusting a remote last: when cmdRemoteDelete removes the key,
\* the row is gone and so are the handling member's files, unless the remote was
\* being imported again at that time.
KeyGoesLast ==
    [][\A n \in rmTrusted \ (rmTrusted' \cup rmCrossed) :
          /\ n \notin rmRows
          /\ \E r \in RmSlots : /\ RmIs(r, "key") /\ rmReq[r].name = n
                                /\ n \notin rmConf[rmReq[r].at] \cup rmKeyring[rmReq[r].at]]_rmVars
=============================================================================
