--------------------------- MODULE RemotesProofs ----------------------------
(***************************************************************************)
(* Proofs about Remotes, for any number of members, remotes, requests and  *)
(* failures.                                                               *)
(***************************************************************************)
EXTENDS Remotes, TLAPS

RmSteps == {"idle", "render", "persist", "forward", "check", "delete", "unlink", "key"}
RmReqType == [step : RmSteps, at : RmHosts \cup {NoOne}, name : RmNames \cup {NoOne}, fwd : SUBSET RmHosts]

RmType ==
    /\ rmRows \subseteq RmNames /\ rmTrusted \subseteq RmNames /\ rmPeers \subseteq RmNames
    /\ rmConf \in [RmHosts -> SUBSET RmNames] /\ rmKeyring \in [RmHosts -> SUBSET RmNames]
    /\ rmReq \in [RmSlots -> RmReqType]
    /\ rmTroubles \in Nat

\* A request has a member and a remote; only a forwarding one has members to tell.
RmShape ==
    \A r \in RmSlots :
        /\ RmIs(r, "idle") => rmReq[r] = RmIdle
        /\ ~RmIs(r, "idle") => rmReq[r].at \in RmHosts /\ rmReq[r].name \in RmNames
        /\ rmReq[r].fwd # {} => RmIs(r, "forward") /\ rmReq[r].at \notin rmReq[r].fwd

\* A remote that no two requests have been about at once.
Plain(n) == n \in RmNames \ rmCrossed
RmApart ==
    \A r, q \in RmSlots : Plain(rmReq[r].name) /\ rmReq[r].name = rmReq[q].name => r = q

Has(h, n) == n \in rmConf[h] /\ n \in rmKeyring[h]
\* What a request has done so far.
RmDone ==
    \A r \in RmSlots : Plain(rmReq[r].name) =>
        /\ RmIs(r, "persist") => Has(rmReq[r].at, rmReq[r].name)
        /\ RmIs(r, "unlink") \/ RmIs(r, "key") => rmReq[r].name \notin rmRows
        /\ RmIs(r, "key") => /\ rmReq[r].name \notin rmConf[rmReq[r].at]
                             /\ rmReq[r].name \notin rmKeyring[rmReq[r].at]
\* A member that lacks a recorded remote is still to be told.
RmTold ==
    \A n \in rmRows, h \in RmHosts : Plain(n) /\ n \notin rmVague =>
        Has(h, n) \/ \E r \in RmSlots : rmReq[r].name = n /\ h \in rmReq[r].fwd

RmInv == RmType /\ RmShape /\ RmApart /\ RmDone /\ RmTold

\* RmInv holds before the first request.
LEMMA RmInitInv == RmInit => RmInv
  BY RmConstants DEF RmInit, RmInv, RmType, RmShape, RmApart, Plain, RmDone, RmTold, RmIs, RmIdle, NoOne,
      RmReqType, RmSteps

\* cmdRemotePut and cmdRemoteDelete preserve RmInv: a second request for the same
\* remote makes it a crossed one.
LEMMA RmTakeInv ==
  ASSUME RmInv, NEW r \in RmSlots, NEW h \in RmHosts, NEW n \in RmNames, NEW st \in {"render", "check"},
         RmTake(r, h, n, st)
  PROVE  RmInv'
<1>1. /\ \A q \in RmSlots \ {r} : rmReq'[q] = rmReq[q]
      /\ rmReq'[r] = [step |-> st, at |-> h, name |-> n, fwd |-> {}]
      /\ rmReq[r] = RmIdle
  BY DEF RmInv, RmType, RmShape, RmTake
<1>2. RmType'
  BY <1>1 DEF RmInv, RmType, RmTake, RmReqType, RmSteps, rmFiles
<1>3. RmShape'
  BY <1>1 DEF RmInv, RmShape, RmIs
<1>4. \A m \in RmNames : Plain(m)' => Plain(m) /\ (m = n => ~RmBusy(n))
  BY DEF RmTake, Plain
<1>5. RmApart'
  BY <1>1, <1>4, RmConstants DEF RmInv, RmApart, RmBusy, Plain, NoOne
<1>6. RmDone'
  BY <1>1, <1>4 DEF RmInv, RmDone, RmTake, RmIs, Has, rmFiles, Plain
<1>7. RmTold'
  BY <1>1, <1>4 DEF RmInv, RmType, RmTold, RmTake, Has, rmFiles, RmIdle
<1> QED
  BY <1>2, <1>3, <1>5, <1>6, <1>7 DEF RmInv

\* What a step of request r, at member h for remote n, may do: it moves r to req
\* and touches nothing that belongs to other remotes.
RmOwn(r, h, n, req) ==
    /\ ~RmIs(r, "idle") /\ rmReq[r].at = h /\ rmReq[r].name = n
    /\ rmReq' = [rmReq EXCEPT ![r] = req]
    /\ rmCrossed' = rmCrossed
    /\ \A k \in RmNames \ {n} :
          /\ k \in rmRows' <=> k \in rmRows
          /\ k \in rmVague' <=> k \in rmVague
          /\ \A g \in RmHosts : /\ k \in rmConf'[g] <=> k \in rmConf[g]
                                /\ k \in rmKeyring'[g] <=> k \in rmKeyring[g]
RmTypes ==
    /\ rmRows \subseteq RmNames /\ rmTrusted \subseteq RmNames /\ rmPeers \subseteq RmNames
    /\ rmConf \in [RmHosts -> SUBSET RmNames] /\ rmKeyring \in [RmHosts -> SUBSET RmNames]
    /\ rmTroubles \in Nat
\* The parts of RmInv that are about r and n, after the step.
RmNext1(h, n, req) ==
    /\ req = RmIdle \/ /\ req \in RmReqType /\ req.at = h /\ req.name = n /\ req.step # "idle"
                       /\ req.fwd # {} => req.step = "forward" /\ h \notin req.fwd
    /\ n \notin rmCrossed => 
          /\ req.step = "persist" => n \in rmConf'[h] /\ n \in rmKeyring'[h]
          /\ req.step \in {"unlink", "key"} => n \notin rmRows'
          /\ req.step = "key" => n \notin rmConf'[h] /\ n \notin rmKeyring'[h]
          /\ n \in rmRows' /\ n \notin rmVague' =>
                \A g \in RmHosts : (n \in rmConf'[g] /\ n \in rmKeyring'[g]) \/ g \in req.fwd

\* A step of one request that does its own part right preserves RmInv.
LEMMA RmOwnInv ==
  ASSUME RmInv, NEW r \in RmSlots, NEW h \in RmHosts, NEW n \in RmNames, NEW req,
         RmOwn(r, h, n, req), RmTypes', RmNext1(h, n, req)
  PROVE  RmInv'
<1>1. /\ \A q \in RmSlots \ {r} : rmReq'[q] = rmReq[q]
      /\ rmReq'[r] = req
      /\ rmReq[r].name = n /\ rmReq[r].at = h
  BY DEF RmInv, RmType, RmOwn
<1>2. rmReq' \in [RmSlots -> RmReqType]
  <2>1. RmIdle \in RmReqType
    BY DEF RmIdle, RmReqType, RmSteps
  <2> QED
    BY <2>1 DEF RmInv, RmType, RmOwn, RmNext1
<1>3. RmType'
  BY <1>2 DEF RmType, RmTypes
<1>4. RmShape'
  <2>2. CASE req = RmIdle
    BY <1>1, <2>2, SMTT(60) DEF RmInv, RmShape, RmIs, RmIdle
  <2>3. CASE req # RmIdle
    BY <1>1, <2>3 DEF RmInv, RmShape, RmIs, RmNext1
  <2> QED
    BY <2>2, <2>3
<1>5. req.name \in {n, NoOne} /\ NoOne \notin RmNames
  BY RmConstants DEF RmNext1, RmIdle, NoOne
<1>6. RmApart'
  BY <1>1, <1>5 DEF RmInv, RmApart, Plain, RmOwn
<1>7. \A q \in RmSlots \ {r} : Plain(rmReq[q].name) =>
         /\ rmReq[q].name \in RmNames \ {n}
         /\ rmReq[q].at \in RmHosts
  <2>1. \A q \in RmSlots : rmReq[q].name \in RmNames => rmReq[q].at \in RmHosts
    BY <1>5 DEF RmInv, RmShape, RmIs, RmIdle
  <2> QED
    BY <1>1, <2>1 DEF RmInv, RmApart, Plain
<1>8. RmDone'
  <2>1. ASSUME NEW q \in RmSlots \ {r}, rmReq[q].name \in RmNames \ rmCrossed
        PROVE  /\ rmReq[q].step = "persist" => /\ rmReq[q].name \in rmConf'[rmReq[q].at]
                                               /\ rmReq[q].name \in rmKeyring'[rmReq[q].at]
               /\ rmReq[q].step \in {"unlink", "key"} => rmReq[q].name \notin rmRows'
               /\ rmReq[q].step = "key" => /\ rmReq[q].name \notin rmConf'[rmReq[q].at]
                                           /\ rmReq[q].name \notin rmKeyring'[rmReq[q].at]
    BY <1>7, <2>1 DEF RmInv, RmDone, RmIs, Has, Plain, RmOwn
  <2>2. n \notin rmCrossed /\ req # RmIdle =>
           /\ req.step = "persist" => n \in rmConf'[h] /\ n \in rmKeyring'[h]
           /\ req.step \in {"unlink", "key"} => n \notin rmRows'
           /\ req.step = "key" => n \notin rmConf'[h] /\ n \notin rmKeyring'[h]
           /\ req.at = h /\ req.name = n
    BY DEF RmNext1
  <2>3. rmCrossed' = rmCrossed
    BY DEF RmOwn
  <2>4. req = RmIdle => req.name \notin RmNames
    BY <1>5 DEF RmIdle
  <2>5. req = RmIdle \/ req.name = n
    BY DEF RmNext1
  <2> QED
    BY <1>1, <2>1, <2>2, <2>3, <2>4, <2>5 DEF RmDone, RmIs, Plain, Has
<1>9. RmTold'
  <2> SUFFICES ASSUME NEW k \in rmRows', NEW g \in RmHosts, k \in RmNames, k \notin rmCrossed,
                      k \notin rmVague'
               PROVE  \/ k \in rmConf'[g] /\ k \in rmKeyring'[g]
                      \/ \E q \in RmSlots : rmReq'[q].name = k /\ g \in rmReq'[q].fwd
    BY DEF RmTold, Plain, Has, RmOwn
  <2>1. CASE k = n
    <3>1. req = RmIdle => req.fwd = {}
      BY DEF RmIdle
    <3> QED
      BY <1>1, <2>1, <3>1 DEF RmNext1
  <2>2. CASE k # n
    BY <1>1, <2>2 DEF RmInv, RmTold, Plain, Has, RmOwn
  <2> QED
    BY <2>1, <2>2
<1> QED
  BY <1>3, <1>4, <1>6, <1>8, <1>9 DEF RmInv

RmOne(r, n, h, st, F) ==
    /\ rmReq[r] = [step |-> st, at |-> h, name |-> n, fwd |-> F]
    /\ st # "idle" /\ (F # {} => st = "forward") /\ h \notin F
    /\ n \notin rmCrossed =>
          /\ st = "persist" => n \in rmConf[h] /\ n \in rmKeyring[h]
          /\ st \in {"unlink", "key"} => n \notin rmRows
          /\ st = "key" => n \notin rmConf[h] /\ n \notin rmKeyring[h]
          /\ n \in rmRows /\ n \notin rmVague =>
                \A g \in RmHosts : (n \in rmConf[g] /\ n \in rmKeyring[g]) \/ g \in F
\* What RmInv says of one running request.
LEMMA RmRunning ==
  ASSUME RmInv, NEW r \in RmSlots, ~RmIs(r, "idle")
  PROVE  \E n \in RmNames, h \in RmHosts, st \in RmSteps, F \in SUBSET RmHosts : RmOne(r, n, h, st, F)
<1>1. /\ rmReq[r] \in RmReqType /\ rmReq[r].name \in RmNames /\ rmReq[r].at \in RmHosts
      /\ rmReq[r].fwd # {} => rmReq[r].step = "forward" /\ rmReq[r].at \notin rmReq[r].fwd
      /\ rmReq[r].step # "idle"
  BY DEF RmInv, RmType, RmShape, RmIs
<1>2. /\ rmReq[r] = [step |-> rmReq[r].step, at |-> rmReq[r].at, name |-> rmReq[r].name, fwd |-> rmReq[r].fwd]
      /\ rmReq[r].step \in RmSteps /\ rmReq[r].fwd \in SUBSET RmHosts
  BY <1>1 DEF RmReqType
<1>3. PICK n \in RmNames, h \in RmHosts, st \in RmSteps, F \in SUBSET RmHosts :
         /\ rmReq[r] = [step |-> st, at |-> h, name |-> n, fwd |-> F]
         /\ rmReq[r].step = st /\ rmReq[r].at = h /\ rmReq[r].name = n /\ rmReq[r].fwd = F
  BY <1>1, <1>2, ZenonT(60)
<1>4. n \notin rmCrossed =>
         /\ st = "persist" => n \in rmConf[h] /\ n \in rmKeyring[h]
         /\ st \in {"unlink", "key"} => n \notin rmRows
         /\ st = "key" => n \notin rmConf[h] /\ n \notin rmKeyring[h]
  BY <1>3 DEF RmInv, RmDone, RmIs, Plain, Has
<1>5. n \notin rmCrossed /\ n \in rmRows /\ n \notin rmVague =>
         \A g \in RmHosts : (n \in rmConf[g] /\ n \in rmKeyring[g]) \/ g \in F
  <2>1. n \notin rmCrossed => \A q \in RmSlots : rmReq[q].name = n => q = r
    BY <1>3 DEF RmInv, RmApart, Plain
  <2> QED
    BY <1>3, <2>1 DEF RmInv, RmTold, Plain, Has
<1> QED
  <2>1. st # "idle" /\ (F # {} => st = "forward") /\ h \notin F
    BY <1>1, <1>3
  <2>2. RmOne(r, n, h, st, F)
    BY <1>3, <1>4, <1>5, <2>1 DEF RmOne
  <2> QED
    BY <2>2

\* renderConfAndKeyringFiles only adds the files of n; without an error member m
\* has both of them, and with one n is vague.
LEMMA RenderFacts ==
  ASSUME RmInv, NEW m \in RmHosts, NEW n \in RmNames, renderConfAndKeyringFiles(m, n)
  PROVE  /\ rmConf' \in [RmHosts -> SUBSET RmNames] /\ rmKeyring' \in [RmHosts -> SUBSET RmNames]
         /\ rmTroubles' \in Nat
         /\ \A g \in RmHosts : rmConf[g] \subseteq rmConf'[g] /\ rmKeyring[g] \subseteq rmKeyring'[g]
         /\ \A k \in RmNames \ {n}, g \in RmHosts : /\ k \in rmConf'[g] <=> k \in rmConf[g]
                                                    /\ k \in rmKeyring'[g] <=> k \in rmKeyring[g]
         /\ rmTroubles' = rmTroubles => n \in rmConf'[m] /\ n \in rmKeyring'[m] /\ rmVague' = rmVague
         /\ rmTroubles' # rmTroubles => rmVague' = rmVague \cup {n}
<1>1. CASE /\ rmConf' = [rmConf EXCEPT ![m] = @ \cup {n}]
           /\ rmKeyring' = [rmKeyring EXCEPT ![m] = @ \cup {n}] /\ UNCHANGED <<rmTroubles, rmVague>>
  BY <1>1 DEF RmInv, RmType
<1>2. CASE /\ rmConf' = [rmConf EXCEPT ![m] = @ \cup {n}]
           /\ RmTrouble /\ rmVague' = rmVague \cup {n} /\ UNCHANGED rmKeyring
  BY <1>2 DEF RmInv, RmType, RmTrouble
<1>3. CASE RmTrouble /\ rmVague' = rmVague \cup {n} /\ UNCHANGED rmFiles
  BY <1>3 DEF RmInv, RmType, RmTrouble, rmFiles
<1> QED
  BY <1>1, <1>2, <1>3 DEF renderConfAndKeyringFiles

\* How RmGo moves a request.
LEMMA RmGoes ==
  ASSUME RmInv, NEW r \in RmSlots, NEW st, NEW h, NEW n, NEW F, NEW to,
         rmReq[r] = [step |-> st, at |-> h, name |-> n, fwd |-> F], RmGo(r, to)
  PROVE  rmReq' = [rmReq EXCEPT ![r] = [step |-> to, at |-> h, name |-> n, fwd |-> F]]
<1>1. [rmReq[r] EXCEPT !.step = to] = [step |-> to, at |-> h, name |-> n, fwd |-> F]
  OBVIOUS
<1>2. rmReq' = [rmReq EXCEPT ![r] = [rmReq[r] EXCEPT !.step = to]]
  BY DEF RmGo
<1> QED
  BY <1>1, <1>2, ZenonT(60)

\* Writing the files on the member that takes the import preserves RmInv.
LEMMA RmRenderInv ==
  ASSUME RmInv, NEW r \in RmSlots, RenderHere(r)
  PROVE  RmInv'
<1>1. RmIs(r, "render") /\ ~RmIs(r, "idle")
  BY DEF RenderHere, RmIs
<1>2. PICK n \in RmNames, h \in RmHosts, st \in RmSteps, F \in SUBSET RmHosts : RmOne(r, n, h, st, F)
  BY <1>1, RmRunning
<1>3. st = "render" /\ F = {} /\ rmReq[r].name = n /\ rmReq[r].at = h
  BY <1>1, <1>2 DEF RmOne, RmIs
<1>4. renderConfAndKeyringFiles(h, n)
  BY <1>3 DEF RenderHere
<1>5. PICK req : /\ rmReq' = [rmReq EXCEPT ![r] = req]
                 /\ \/ rmTroubles' = rmTroubles /\ req = [step |-> "persist", at |-> h, name |-> n, fwd |-> {}]
                    \/ rmTroubles' # rmTroubles /\ req = RmIdle
  <2>1. CASE rmTroubles' = rmTroubles
    <3>1. RmGo(r, "persist") /\ rmReq[r] = [step |-> st, at |-> h, name |-> n, fwd |-> {}]
      BY <1>2, <1>3, <2>1 DEF RenderHere, RmOne
    <3>2. rmReq' = [rmReq EXCEPT ![r] = [step |-> "persist", at |-> h, name |-> n, fwd |-> {}]]
      BY <3>1, RmGoes
    <3> QED
      BY <2>1, <3>2, ZenonT(60)
  <2>2. CASE rmTroubles' # rmTroubles
    BY <2>2 DEF RenderHere, RmEnds
  <2> QED
    BY <2>1, <2>2
<1>6. RmTypes'
  BY <1>4, RenderFacts DEF RmTypes, RenderHere, RmInv, RmType
<1>7. RmOwn(r, h, n, req)
  BY <1>1, <1>3, <1>4, <1>5, RenderFacts DEF RmOwn, RenderHere
<1>8. RmNext1(h, n, req)
  BY <1>2, <1>3, <1>4, <1>5, RenderFacts DEF RmNext1, RmOne, RenderHere, RmReqType, RmSteps, RmIdle
<1> QED
  BY <1>6, <1>7, <1>8, RmOwnInv

\* A step that only ends a request, or moves one that has nobody to tell to the
\* deletion of the row, preserves RmInv.
LEMMA RmQuietInv ==
  ASSUME RmInv, NEW r \in RmSlots, ~RmIs(r, "idle"), rmReq[r].fwd = {},
         RmEnds(r) \/ RmGo(r, "delete"),
         UNCHANGED <<rmRows, rmFiles, rmPeers, rmSeen>>,
         rmTrusted' \subseteq rmTrusted, rmTroubles' \in Nat
  PROVE  RmInv'
<1>1. PICK n \in RmNames, h \in RmHosts, st \in RmSteps, F \in SUBSET RmHosts : RmOne(r, n, h, st, F)
  BY RmRunning
<1>2. F = {} /\ rmReq[r].name = n /\ rmReq[r].at = h
  BY <1>1 DEF RmOne
<1>3. PICK req : /\ rmReq' = [rmReq EXCEPT ![r] = req]
                 /\ req = RmIdle \/ req = [step |-> "delete", at |-> h, name |-> n, fwd |-> {}]
  <2>1. CASE RmGo(r, "delete")
    <3>1. rmReq[r] = [step |-> st, at |-> h, name |-> n, fwd |-> {}]
      BY <1>1, <1>2 DEF RmOne
    <3>2. rmReq' = [rmReq EXCEPT ![r] = [step |-> "delete", at |-> h, name |-> n, fwd |-> {}]]
      BY <2>1, <3>1, RmGoes
    <3> QED
      BY <3>2, ZenonT(60)
  <2>2. CASE RmEnds(r)
    BY <2>2, ZenonT(60) DEF RmEnds
  <2> QED
    BY <2>1, <2>2
<1>4. UNCHANGED <<rmRows, rmConf, rmKeyring, rmPeers, rmVague, rmCrossed>>
  BY DEF rmFiles, rmSeen
<1>5. RmTypes'
  BY <1>4 DEF RmTypes, RmInv, RmType
<1>6. RmOwn(r, h, n, req)
  BY <1>2, <1>3, <1>4 DEF RmOwn
<1>7. RmNext1(h, n, req)
  BY <1>1, <1>2, <1>3, <1>4 DEF RmNext1, RmOne, RmReqType, RmSteps, RmIdle
<1> QED
  BY <1>5, <1>6, <1>7, RmOwnInv

\* Recording the remote preserves RmInv: the other members are still to be told.
LEMMA RmPersistInv ==
  ASSUME RmInv, NEW r \in RmSlots, PersistRemoteDb(r)
  PROVE  RmInv'
<1>1. RmIs(r, "persist") /\ ~RmIs(r, "idle") /\ rmReq[r].fwd = {} /\ rmTroubles \in Nat
  BY DEF PersistRemoteDb, RmIs, RmInv, RmShape, RmType
<1>2. CASE /\ rmReq[r].name \notin rmRows /\ rmRows' = rmRows \cup {rmReq[r].name}
           /\ rmReq' = [rmReq EXCEPT ![r] = [step |-> "forward", at |-> rmReq[r].at, name |-> rmReq[r].name,
                                            fwd |-> forwardReq(rmReq[r].at)]]
           /\ rmVague' = rmVague \ {rmReq[r].name} /\ UNCHANGED rmTroubles
  <2>1. PICK n \in RmNames, h \in RmHosts, st \in RmSteps, F \in SUBSET RmHosts : RmOne(r, n, h, st, F)
    BY <1>1, RmRunning
  <2>2. F = {} /\ rmReq[r].name = n /\ rmReq[r].at = h /\ st = "persist"
    BY <1>1, <2>1 DEF RmOne, RmIs
  <2> DEFINE req == [step |-> "forward", at |-> h, name |-> n, fwd |-> RmHosts \ {h}]
  <2>3. /\ rmReq' = [rmReq EXCEPT ![r] = req]
        /\ rmVague' = rmVague \ {n} /\ UNCHANGED <<rmConf, rmKeyring, rmTrusted, rmPeers, rmTroubles, rmCrossed>>
    BY <1>2, <2>2 DEF PersistRemoteDb, forwardReq, rmFiles
  <2>5. RmTypes'
    BY <1>2, <2>2, <2>3 DEF RmTypes, RmInv, RmType
  <2>6. RmOwn(r, h, n, req)
    BY <1>1, <1>2, <2>2, <2>3, ZenonT(60) DEF RmOwn
  <2>7. req \in RmReqType /\ req # RmIdle
    BY DEF RmReqType, RmSteps, RmIdle
  <2>8. RmNext1(h, n, req)
    BY <2>1, <2>2, <2>3, <2>7 DEF RmNext1, RmOne
  <2> QED
    BY <2>5, <2>6, <2>8, RmOwnInv
<1>3. CASE RmEnds(r) /\ UNCHANGED <<rmRows, rmVague>>
  BY <1>1, <1>3, RmQuietInv DEF PersistRemoteDb, RmTrouble, rmSeen
<1> QED
  BY <1>2, <1>3 DEF PersistRemoteDb

\* Telling one member preserves RmInv: it has the files then, or the remote is vague.
LEMMA RmSendInv ==
  ASSUME RmInv, NEW r \in RmSlots, NEW m \in RmHosts, SendRemoteImportRequest(r, m)
  PROVE  RmInv'
<1>1. RmIs(r, "forward") /\ ~RmIs(r, "idle")
  BY DEF SendRemoteImportRequest, RmIs
<1>2. PICK n \in RmNames, h \in RmHosts, st \in RmSteps, F \in SUBSET RmHosts : RmOne(r, n, h, st, F)
  BY <1>1, RmRunning
<1>3. st = "forward" /\ rmReq[r].name = n /\ rmReq[r].at = h /\ rmReq[r].fwd = F /\ h \notin F
  BY <1>1, <1>2 DEF RmOne, RmIs
<1>4. renderConfAndKeyringFiles(m, n) /\ m \in F
  BY <1>3 DEF SendRemoteImportRequest
<1> DEFINE left == IF rmTroubles' = rmTroubles THEN F \ {m} ELSE {}
<1>G. PICK G \in SUBSET RmHosts : G = left
  BY ZenonT(60)
<1>5. /\ rmReq' = [rmReq EXCEPT ![r] = [rmReq[r] EXCEPT !.fwd = G]]
      /\ h \notin G
      /\ rmTroubles' = rmTroubles => G = F \ {m}
  BY <1>3, <1>G DEF SendRemoteImportRequest
<1> HIDE DEF left
<1> DEFINE req == [step |-> "forward", at |-> h, name |-> n, fwd |-> G]
<1>6. rmReq' = [rmReq EXCEPT ![r] = req]
  <2>1. rmReq[r] = [step |-> "forward", at |-> h, name |-> n, fwd |-> F]
    BY <1>2, <1>3 DEF RmOne
  <2>2. [rmReq[r] EXCEPT !.fwd = G] = req
    BY ONLY <2>1
  <2> QED
    BY <1>5, <2>2, ZenonT(60)
<1>7. RmTypes'
  BY <1>4, RenderFacts DEF RmTypes, SendRemoteImportRequest, RmInv, RmType
<1>8. RmOwn(r, h, n, req)
  <2>1. rmRows' = rmRows /\ rmCrossed' = rmCrossed
    BY DEF SendRemoteImportRequest
  <2>2. /\ \A k \in RmNames \ {n}, g \in RmHosts :
              /\ k \in rmConf'[g] <=> k \in rmConf[g]
              /\ k \in rmKeyring'[g] <=> k \in rmKeyring[g]
        /\ rmVague' = rmVague \/ rmVague' = rmVague \cup {n}
    BY <1>4, RenderFacts
  <2>3. \A k \in RmNames \ {n} : (k \in rmRows' <=> k \in rmRows) /\ (k \in rmVague' <=> k \in rmVague)
    BY <2>1, <2>2
  <2> HIDE DEF req
  <2> QED
    BY <1>1, <1>3, <1>6, <2>1, <2>2, <2>3 DEF RmOwn
<1>9. req \in RmReqType /\ req # RmIdle
  BY DEF RmReqType, RmSteps, RmIdle
<1>10. RmNext1(h, n, req)
  <2>1. rmRows' = rmRows
    BY DEF SendRemoteImportRequest
  <2>2. /\ \A g \in RmHosts : rmConf[g] \subseteq rmConf'[g] /\ rmKeyring[g] \subseteq rmKeyring'[g]
        /\ rmTroubles' = rmTroubles => n \in rmConf'[m] /\ n \in rmKeyring'[m] /\ rmVague' = rmVague
        /\ rmTroubles' # rmTroubles => rmVague' = rmVague \cup {n}
    BY <1>4, RenderFacts
  <2>3. ASSUME n \notin rmCrossed, n \in rmRows', n \notin rmVague', NEW g \in RmHosts
        PROVE  (n \in rmConf'[g] /\ n \in rmKeyring'[g]) \/ g \in G
    BY <1>2, <1>3, <1>4, <1>5, <2>1, <2>2, <2>3 DEF RmOne
  <2> QED
    BY <1>5, <1>9, <2>3 DEF RmNext1
<1> QED
  BY <1>7, <1>8, <1>10, RmOwnInv

\* Deleting the row preserves RmInv.
LEMMA RmDeleteInv ==
  ASSUME RmInv, NEW r \in RmSlots, DeleteRemote(r)
  PROVE  RmInv'
<1>1. RmIs(r, "delete") /\ ~RmIs(r, "idle") /\ rmReq[r].fwd = {} /\ rmTroubles \in Nat
  BY DEF DeleteRemote, RmIs, RmInv, RmShape, RmType
<1>2. CASE rmRows' = rmRows \ {rmReq[r].name} /\ RmGo(r, "unlink") /\ UNCHANGED rmTroubles
  <2>1. PICK n \in RmNames, h \in RmHosts, st \in RmSteps, F \in SUBSET RmHosts : RmOne(r, n, h, st, F)
    BY <1>1, RmRunning
  <2>2. F = {} /\ rmReq[r].name = n /\ rmReq[r].at = h
    BY <1>1, <2>1 DEF RmOne, RmIs
  <2> DEFINE req == [step |-> "unlink", at |-> h, name |-> n, fwd |-> {}]
  <2>3. rmReq' = [rmReq EXCEPT ![r] = req]
    <3>1. rmReq[r] = [step |-> st, at |-> h, name |-> n, fwd |-> {}]
      BY <2>1, <2>2 DEF RmOne
    <3> QED
      BY <1>2, <3>1, RmGoes
  <2>4. UNCHANGED <<rmConf, rmKeyring, rmTrusted, rmPeers, rmVague, rmCrossed>>
    BY DEF DeleteRemote, rmFiles, rmSeen
  <2>5. RmTypes'
    BY <1>1, <1>2, <2>4 DEF RmTypes, RmInv, RmType
  <2>6. RmOwn(r, h, n, req)
    BY <1>1, <1>2, <2>2, <2>3, <2>4 DEF RmOwn
  <2>7. req \in RmReqType /\ req # RmIdle
    BY SMTT(60) DEF RmReqType, RmSteps, RmIdle
  <2>8. RmNext1(h, n, req)
    BY <1>2, <2>2, <2>7 DEF RmNext1
  <2> QED
    BY <2>5, <2>6, <2>8, RmOwnInv
<1>3. CASE RmEnds(r) /\ UNCHANGED rmRows
  BY <1>1, <1>3, RmQuietInv DEF DeleteRemote, RmTrouble
<1> QED
  BY <1>2, <1>3 DEF DeleteRemote

\* Removing the member's own files preserves RmInv.
LEMMA RmUnlinkInv ==
  ASSUME RmInv, NEW r \in RmSlots, DeleteRemoteDb(r)
  PROVE  RmInv'
<1>1. RmIs(r, "unlink") /\ ~RmIs(r, "idle")
  BY DEF DeleteRemoteDb, RmIs
<1>2. PICK n \in RmNames, h \in RmHosts, st \in RmSteps, F \in SUBSET RmHosts : RmOne(r, n, h, st, F)
  BY <1>1, RmRunning
<1>3. F = {} /\ rmReq[r].name = n /\ rmReq[r].at = h /\ st = "unlink"
  BY <1>1, <1>2 DEF RmOne, RmIs
<1>4. n \notin rmCrossed => n \notin rmRows
  BY <1>2, <1>3 DEF RmOne
<1>5. UNCHANGED <<rmRows, rmTrusted, rmPeers, rmVague, rmCrossed>>
  BY DEF DeleteRemoteDb, rmSeen
<1>6. /\ rmTroubles' \in Nat
      /\ rmConf' = rmConf \/ rmConf' = [rmConf EXCEPT ![h] = @ \ {n}]
      /\ rmKeyring' = rmKeyring \/ rmKeyring' = [rmKeyring EXCEPT ![h] = @ \ {n}]
      /\ \/ RmEnds(r)
         \/ /\ RmGo(r, "key")
            /\ rmConf' = [rmConf EXCEPT ![h] = @ \ {n}] /\ rmKeyring' = [rmKeyring EXCEPT ![h] = @ \ {n}]
  BY <1>3 DEF DeleteRemoteDb, RmTrouble, rmFiles, RmInv, RmType
<1>7. PICK req : /\ rmReq' = [rmReq EXCEPT ![r] = req]
                 /\ \/ req = RmIdle
                    \/ /\ req = [step |-> "key", at |-> h, name |-> n, fwd |-> {}]
                       /\ rmConf' = [rmConf EXCEPT ![h] = @ \ {n}]
                       /\ rmKeyring' = [rmKeyring EXCEPT ![h] = @ \ {n}]
  <2>1. CASE RmEnds(r)
    BY <2>1, ZenonT(60) DEF RmEnds
  <2>2. CASE /\ RmGo(r, "key") /\ rmConf' = [rmConf EXCEPT ![h] = @ \ {n}]
             /\ rmKeyring' = [rmKeyring EXCEPT ![h] = @ \ {n}]
    <3>1. rmReq[r] = [step |-> st, at |-> h, name |-> n, fwd |-> {}]
      BY <1>2, <1>3 DEF RmOne
    <3>2. rmReq' = [rmReq EXCEPT ![r] = [step |-> "key", at |-> h, name |-> n, fwd |-> {}]]
      BY <2>2, <3>1, RmGoes
    <3> QED
      BY <2>2, <3>2, ZenonT(60)
  <2> QED
    BY <1>6, <2>1, <2>2
<1>8. RmTypes'
  BY <1>5, <1>6 DEF RmTypes, RmInv, RmType
<1>9. \A k \in RmNames \ {n}, g \in RmHosts : /\ k \in rmConf'[g] <=> k \in rmConf[g]
                                              /\ k \in rmKeyring'[g] <=> k \in rmKeyring[g]
  BY <1>6 DEF RmInv, RmType
<1>10. RmOwn(r, h, n, req)
  BY <1>1, <1>3, <1>5, <1>7, <1>9 DEF RmOwn
<1>11. RmNext1(h, n, req)
  <2>1. CASE req = RmIdle
    BY <1>4, <1>5, <2>1 DEF RmNext1, RmIdle
  <2>2. CASE /\ req = [step |-> "key", at |-> h, name |-> n, fwd |-> {}]
             /\ rmConf' = [rmConf EXCEPT ![h] = @ \ {n}]
             /\ rmKeyring' = [rmKeyring EXCEPT ![h] = @ \ {n}]
    <3>1. n \notin rmConf'[h] /\ n \notin rmKeyring'[h]
      BY <2>2 DEF RmInv, RmType
    <3>2. req \in RmReqType /\ req.at = h /\ req.name = n /\ req.step = "key" /\ req.fwd = {}
      BY <2>2 DEF RmReqType, RmSteps
    <3> QED
      BY <1>4, <1>5, <3>1, <3>2 DEF RmNext1
  <2> QED
    BY <1>7, <2>1, <2>2
<1> QED
  BY <1>8, <1>10, <1>11, RmOwnInv

\* Every step preserves RmInv.
LEMMA RmNextInv == RmInv /\ [RmNext]_rmVars => RmInv'
<1> SUFFICES ASSUME RmInv, [RmNext]_rmVars
             PROVE  RmInv'
  BY SMTT(60)
<1>1. CASE UNCHANGED rmVars
  BY <1>1, SMTT(60) DEF rmVars, rmFiles, rmSeen, RmInv, RmType, RmShape, RmApart, RmDone, RmTold, RmIs, Plain, Has
<1>2. ASSUME NEW n \in RmNames, RmMirror(n)
      PROVE  RmInv'
  <2>1. rmPeers' \subseteq RmNames
    BY <1>2 DEF RmMirror, RmInv, RmType
  <2> QED
    BY <1>2, <2>1
       DEF RmMirror, rmFiles, rmSeen, RmInv, RmType, RmShape, RmApart, RmDone, RmTold, RmIs, Plain, Has
<1>3. ASSUME NEW r \in RmSlots, NEW h \in RmHosts, NEW n \in RmNames,
             cmdRemotePut(r, h, n) \/ cmdRemoteDelete(r, h, n)
      PROVE  RmInv'
  BY <1>3, RmTakeInv DEF cmdRemotePut, cmdRemoteDelete
<1>4. ASSUME NEW r \in RmSlots, Forwarded(r) \/ isRemoteConfigured(r) \/ DeleteClientKey(r)
      PROVE  RmInv'
  <2>1. ~RmIs(r, "idle") /\ rmReq[r].fwd = {} /\ (RmEnds(r) \/ RmGo(r, "delete"))
    BY <1>4 DEF Forwarded, isRemoteConfigured, DeleteClientKey, RmIs, RmInv, RmShape
  <2>2. /\ UNCHANGED <<rmRows, rmFiles, rmPeers, rmSeen>>
        /\ rmTrusted' \subseteq rmTrusted /\ rmTroubles' \in Nat
    BY <1>4 DEF Forwarded, isRemoteConfigured, DeleteClientKey, RmTrouble, RmInv, RmType
  <2> QED
    BY <2>1, <2>2, RmQuietInv, SMTT(60)
<1> QED
  BY <1>1, <1>2, <1>3, <1>4, RmRenderInv, RmPersistInv, RmSendInv, RmDeleteInv, RmUnlinkInv DEF RmNext

\* A recorded remote can be used from every member, and a cluster stops trusting
\* a remote only after its row and the handling member's files are gone.
THEOREM RemotesCorrect == RmSpec => []RecordedIsUsable /\ KeyGoesLast
<1>1. RmInv => RecordedIsUsable
  BY DEF RmInv, RmTold, RmType, RecordedIsUsable, RmBusy, Plain, Has
<1>2. RmInv /\ [RmNext]_rmVars =>
        [\A n \in rmTrusted \ (rmTrusted' \cup rmCrossed) :
            /\ n \notin rmRows
            /\ \E r \in RmSlots : /\ RmIs(r, "key") /\ rmReq[r].name = n
                                  /\ n \notin rmConf[rmReq[r].at] \cup rmKeyring[rmReq[r].at]]_rmVars
  <2> SUFFICES ASSUME RmInv, RmNext, NEW n \in rmTrusted, n \notin rmTrusted', n \notin rmCrossed
               PROVE  /\ n \notin rmRows
                      /\ \E r \in RmSlots : /\ RmIs(r, "key") /\ rmReq[r].name = n
                                            /\ n \notin rmConf[rmReq[r].at] \cup rmKeyring[rmReq[r].at]
    BY SMTT(60)
  <2>1. PICK r \in RmSlots : DeleteClientKey(r)
    BY DEF RmNext, RmMirror, cmdRemotePut, cmdRemoteDelete, RmTake, RenderHere, PersistRemoteDb, Forwarded,
           SendRemoteImportRequest, isRemoteConfigured, DeleteRemote, DeleteRemoteDb
  <2>2. RmIs(r, "key") /\ rmReq[r].name = n /\ n \in RmNames
    BY <2>1 DEF DeleteClientKey, RmInv, RmType
  <2> QED
    BY <2>2 DEF RmInv, RmDone, Plain
<1> QED
  BY <1>1, <1>2, RmInitInv, RmNextInv, PTL DEF RmSpec, KeyGoesLast

\* cmdRemotePut's forwarding reaches every member, whatever their number.
THEOREM RemotesAreUsable == RmSpec => []RecordedIsUsable
  BY RemotesCorrect, PTL

\* cmdRemoteDelete removes the key after everything else.
THEOREM RemotesKeyGoesLast == RmSpec => KeyGoesLast
  BY RemotesCorrect, PTL
=============================================================================
