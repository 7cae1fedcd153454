---------------------- MODULE CephfsReplicationProofs ----------------------
(***************************************************************************)
(* Proofs about CephfsReplication, for any number of requests, paths and   *)
(* remotes, and any number of failing commands.                            *)
(***************************************************************************)
EXTENDS CephfsReplication, TLAPS

Enabling == {"verify", "peer", "volume", "token", "import", "add"}
CfSteps == {"idle", "status", "list", "remove", "removeAll", "ok", "failed"} \cup Enabling
CfRunType ==
    [step : CfSteps, op : {"enable", "disable"}, path : CfPaths \cup {Volume},
     remote : CfRemotes \cup {Volume}, force : BOOLEAN, up : BOOLEAN, list : SUBSET CfPaths]

CfType ==
    /\ cfMirrored \in BOOLEAN /\ cfPaths \subseteq CfPaths /\ cfClean \subseteq CfSlots
    /\ cfPeers \subseteq {LocalName(rem) : rem \in CfRemotes}
    /\ cfDaemon \in BOOLEAN
    /\ cfFor \in [CfPaths -> SUBSET CfRemotes] /\ cfRun \in [CfSlots -> CfRunType]

\* A request is at a step of its own kind, for something it can be asked for.
CfKinds ==
    \A s \in CfSlots :
        /\ cfRun[s].op = "enable" => cfRun[s].path \in CfPaths /\ cfRun[s].remote \in CfRemotes
        /\ cfRun[s].step \in Enabling => cfRun[s].op = "enable"
        /\ CfIs(s, "remove") => cfRun[s].op = "disable" /\ cfRun[s].path \in CfPaths
        /\ CfIs(s, "removeAll") => cfRun[s].op = "disable" /\ cfRun[s].path = Volume

\* How far an enabling request has come.
CfProgress ==
    \A s \in CfSlots :
        /\ cfRun[s].step \in {"token", "import", "add"} => cfMirrored
        /\ CfIs(s, "add") => LocalName(cfRun[s].remote) \in cfPeers

\* A clean request is alone, and knows the mirrored paths.
CfAlone ==
    \A s \in cfClean :
        /\ ~CfIs(s, "idle") /\ \A o \in CfSlots \ {s} : CfIs(o, "idle")
        /\ CfIs(s, "removeAll") => cfPaths \subseteq cfRun[s].list
CfServed == \A p \in cfPaths : cfMirrored /\ \E rem \in cfFor[p] : LocalName(rem) \in cfPeers

CfInv == CfType /\ CfKinds /\ CfProgress /\ CfAlone /\ CfServed /\ RepeatedEnableSucceeds /\ DisabledIsGone

\* CfInv holds before the first request.
LEMMA CfInitInv == CfInit => CfInv
<1> SUFFICES ASSUME CfInit PROVE CfInv
  OBVIOUS
<1>1. CfIdle \in CfRunType
  BY DEF CfIdle, CfAsk, CfRunType, CfSteps
<1>2. \A s \in CfSlots : cfRun[s] = CfIdle
  BY DEF CfInit
<1>3. CfType
  BY <1>1, ZenonT(60) DEF CfInit, CfType
<1>4. CfIdle.step = "idle" /\ CfIdle.op = "disable"
  BY DEF CfIdle, CfAsk
<1> QED
  BY <1>2, <1>3, <1>4 DEF CfInit, CfInv, CfKinds, CfProgress, CfAlone, CfServed,
      RepeatedEnableSucceeds, DisabledIsGone, CfIs, Enabling

\* A request that arrives changes nothing but its own slot.
LEMMA CfBeginInv ==
  ASSUME CfInv, NEW s \in CfSlots, NEW ask \in CfRunType, ask.step = "status",
         ask.op = "enable" => ask.path \in CfPaths /\ ask.remote \in CfRemotes, CfBegin(s, ask)
  PROVE  CfInv'
  BY CfConstants DEF CfInv, CfType, CfKinds, CfProgress, CfAlone, CfServed, RepeatedEnableSucceeds,
      DisabledIsGone, CfIs, CfRunType, CfSteps, Enabling, CfBegin

\* A request goes from one step to another, and nothing else changes: what the
\* new step requires is all there is to show.
LEMMA CfStepInv ==
  ASSUME CfInv, NEW s \in CfSlots, NEW st \in CfSteps \ {"idle"},
         CfGo(s, st), ~CfIs(s, "idle"), UNCHANGED <<cfMirrored, cfPeers, cfPaths, cfFor, cfDaemon>>,
         cfClean' = cfClean \/ cfClean' = cfClean \ {s},
         st \in Enabling => cfRun[s].op = "enable",
         st = "remove" => cfRun[s].op = "disable" /\ cfRun[s].path \in CfPaths,
         st # "removeAll",
         st \in {"token", "import", "add"} => cfMirrored,
         st = "add" => LocalName(cfRun[s].remote) \in cfPeers,
         s \in cfClean' /\ st = "failed" /\ cfRun[s].op = "enable" => cfRun[s].path \in cfPaths,
         s \in cfClean' /\ st = "ok" /\ cfRun[s].op = "disable" =>
            cfPaths \cap (IF cfRun[s].path = Volume THEN CfPaths ELSE {cfRun[s].path}) = {}
  PROVE  CfInv'
<1>1. /\ \A o \in CfSlots \ {s} : cfRun'[o] = cfRun[o]
      /\ cfRun'[s] = [cfRun[s] EXCEPT !.step = st]
      /\ CfType'
  BY DEF CfInv, CfType, CfRunType, CfGo
<1>2. /\ cfRun'[s].step = st /\ cfRun'[s].op = cfRun[s].op /\ cfRun'[s].path = cfRun[s].path
      /\ cfRun'[s].remote = cfRun[s].remote /\ cfRun'[s].list = cfRun[s].list
  BY <1>1 DEF CfInv, CfType, CfRunType
<1>3. CfKinds'
  BY <1>1, <1>2, ZenonT(60) DEF CfInv, CfKinds, CfIs
<1>4. CfProgress'
  BY <1>1, <1>2, ZenonT(60) DEF CfInv, CfProgress, CfIs, LocalName
<1>5. CfAlone'
  <2> SUFFICES ASSUME NEW t \in cfClean'
               PROVE  (/\ ~CfIs(t, "idle") /\ \A o \in CfSlots \ {t} : CfIs(o, "idle")
                       /\ CfIs(t, "removeAll") => cfPaths \subseteq cfRun[t].list)'
    BY DEF CfAlone
  <2>1. t \in cfClean /\ t \in CfSlots
    BY DEF CfInv, CfType
  <2>2. t = s
    BY <2>1 DEF CfInv, CfAlone, CfIs
  <2>3. \A o \in CfSlots \ {s} : cfRun[o].step = "idle"
    BY <2>1, <2>2 DEF CfInv, CfAlone, CfIs
  <2> QED
    BY <1>1, <1>2, <2>2, <2>3, ZenonT(60) DEF CfIs
<1>6. CfServed'
  BY DEF CfInv, CfServed, LocalName
<1>7. RepeatedEnableSucceeds'
  BY <1>1, <1>2, ZenonT(60) DEF CfInv, RepeatedEnableSucceeds, CfIs
<1>8. DisabledIsGone'
  BY <1>1, <1>2, ZenonT(60) DEF CfInv, DisabledIsGone, CfIs
<1> QED
  BY <1>1, <1>3, <1>4, <1>5, <1>6, <1>7, <1>8 DEF CfInv

\* A command that fails ends its request, which is not clean any more.
LEMMA CfBreaksInv ==
  ASSUME CfInv, NEW s \in CfSlots, ~CfIs(s, "idle"), CfBreaks(s), CfKeep
  PROVE  CfInv'
<1>1. CfGo(s, "failed") /\ cfClean' = cfClean \ {s} /\ s \notin cfClean'
  BY DEF CfBreaks
<1>2. UNCHANGED <<cfMirrored, cfPeers, cfPaths, cfFor, cfDaemon>>
  BY DEF CfBreaks, CfKeep
<1> QED
  BY <1>1, <1>2, CfStepInv DEF CfSteps, Enabling

\* PreFill preserves CfInv.
LEMMA CfPreFillInv ==
  ASSUME CfInv, NEW s \in CfSlots, PreFill(s)
  PROVE  CfInv'
<1>1. CASE CfBreaks(s)
  BY <1>1, CfBreaksInv DEF PreFill, CfIs
<1>2. CASE ~CfBreaks(s)
  BY <1>2, SMTT(60) DEF CfInv, CfType, CfKinds, CfProgress, CfAlone, CfServed, RepeatedEnableSucceeds,
      DisabledIsGone, CfIs, CfRunType, CfSteps, Enabling, CfKeep, CfGo, PreFill, GetCephFSSnapshotMirrorDaemonStatus
<1> QED
  BY <1>1, <1>2

\* GetCephFSVolumeMirrorList preserves CfInv: what it reads decides the event that fires.
LEMMA CfListInv ==
  ASSUME CfInv, NEW s \in CfSlots, GetCephFSVolumeMirrorList(s)
  PROVE  CfInv'
<1>1. CASE CfBreaks(s)
  BY <1>1, CfBreaksInv DEF GetCephFSVolumeMirrorList, CfIs
<1>2. CASE ~CfBreaks(s)
  <2> DEFINE fired == CfFired(cfRun[s], cfPaths)
  <2>1. /\ cfRun' = [cfRun EXCEPT ![s].step = fired, ![s].up = FALSE,
                                    ![s].list = IF fired = "removeAll" THEN cfPaths ELSE {}]
        /\ UNCHANGED <<cfMirrored, cfPeers, cfPaths, cfFor, cfDaemon, cfClean>> /\ CfIs(s, "list")
    BY <1>2 DEF GetCephFSVolumeMirrorList, CfKeep
  <2>2. PICK next \in {"verify", "failed", "remove", "removeAll"} :
        /\ next = fired
        /\ next = "verify" => cfRun[s].op = "enable"
        /\ next \in {"remove", "removeAll"} => cfRun[s].op # "enable"
        /\ next = "remove" => cfRun[s].path # Volume
        /\ next = "removeAll" => cfRun[s].path = Volume
        /\ next = "failed" /\ cfRun[s].op = "enable" => cfRun[s].path = Volume \/ cfRun[s].path \in cfPaths
    BY DEF CfFired, CfState
  <2>3. cfRun[s] \in CfRunType
    BY DEF CfInv, CfType
  <2> HIDE DEF fired
  <2>4. \A o \in CfSlots \ {s} : cfRun'[o] = cfRun[o]
    BY <2>1 DEF CfInv, CfType
  <2>5. /\ cfRun'[s].step = next /\ cfRun'[s].op = cfRun[s].op /\ cfRun'[s].path = cfRun[s].path
        /\ cfRun'[s].remote = cfRun[s].remote
        /\ next = "removeAll" => cfRun'[s].list = cfPaths
        /\ cfRun' \in [CfSlots -> CfRunType]
    BY <2>1, <2>2, <2>3, ZenonT(60) DEF CfInv, CfType, CfRunType, CfSteps, Enabling
  <2>0. UNCHANGED <<cfMirrored, cfPeers, cfPaths, cfFor, cfDaemon, cfClean>>
    BY <2>1
  <2>6. CfType'
    BY <2>0, <2>5 DEF CfInv, CfType, LocalName
  <2>7. CfKinds'
    BY <2>2, <2>3, <2>4, <2>5 DEF CfInv, CfKinds, CfIs, CfRunType, Enabling
  <2>8. CfProgress' /\ CfServed'
    BY <2>0, <2>2, <2>4, <2>5 DEF CfInv, CfProgress, CfServed, CfIs, LocalName
  <2>9. CfAlone'
    <3> SUFFICES ASSUME NEW t \in cfClean
                 PROVE  (/\ ~CfIs(t, "idle") /\ \A o \in CfSlots \ {t} : CfIs(o, "idle")
                         /\ CfIs(t, "removeAll") => cfPaths \subseteq cfRun[t].list)'
      BY <2>0 DEF CfAlone
    <3>1. t = s /\ \A o \in CfSlots \ {s} : cfRun[o].step = "idle"
      BY <2>1 DEF CfInv, CfType, CfAlone, CfIs
    <3> QED
      BY <2>0, <2>2, <2>4, <2>5, <3>1 DEF CfIs
  <2>10. RepeatedEnableSucceeds'
    BY <2>0, <2>2, <2>4, <2>5, CfConstants DEF CfInv, CfKinds, RepeatedEnableSucceeds, CfIs
  <2>11. DisabledIsGone'
    BY <2>0, <2>2, <2>4, <2>5 DEF CfInv, DisabledIsGone, CfIs
  <2> QED
    BY <2>6, <2>7, <2>8, <2>9, <2>10, <2>11 DEF CfInv
<1> QED
  BY <1>1, <1>2

\* verifyEnableRequestData preserves CfInv.
LEMMA CfVerifyInv ==
  ASSUME CfInv, NEW s \in CfSlots, verifyEnableRequestData(s)
  PROVE  CfInv'
<1>1. CASE CfBreaks(s)
  BY <1>1, CfBreaksInv DEF verifyEnableRequestData, CfIs
<1>2. CASE ~CfBreaks(s)
  BY <1>2, CfStepInv DEF verifyEnableRequestData, CfIs, CfInv, CfKinds, CfSteps, Enabling, CfKeep
<1> QED
  BY <1>1, <1>2

\* cephFSSnapshotMirrorPeerExists preserves CfInv: a path is added only where a peer is.
LEMMA CfPeerInv ==
  ASSUME CfInv, NEW s \in CfSlots, cephFSSnapshotMirrorPeerExists(s)
  PROVE  CfInv'
<1>1. ASSUME NEW p \in cfPeers, p[2] = cfRun[s].remote
      PROVE  LocalName(cfRun[s].remote) \in cfPeers
  <2>1. PICK rem \in CfRemotes : p = LocalName(rem)
    BY DEF CfInv, CfType
  <2>2. cfRun[s].remote \in CfRemotes
    BY DEF CfInv, CfKinds, cephFSSnapshotMirrorPeerExists, CfIs, Enabling
  <2>3. p[2] = IF rem \in Namesakes THEN rem ELSE "local"
    BY <2>1 DEF LocalName
  <2>4. rem = cfRun[s].remote
    BY <1>1, <2>2, <2>3, CfConstants
  <2> QED
    BY <2>1, <2>4
<1>2. CASE CfBreaks(s)
  BY <1>2, CfBreaksInv DEF cephFSSnapshotMirrorPeerExists, CfIs
<1>3. CASE ~CfBreaks(s)
  <2>1. PICK st \in {"volume", "add", "token"} :
            /\ CfGo(s, st)
            /\ st # "volume" => cfMirrored
            /\ st = "add" => LocalName(cfRun[s].remote) \in cfPeers
    BY <1>1, <1>3 DEF cephFSSnapshotMirrorPeerExists
  <2> QED
    BY <2>1, <1>3, CfStepInv DEF cephFSSnapshotMirrorPeerExists, CfIs, CfInv, CfKinds, CfSteps, Enabling, CfKeep
<1> QED
  BY <1>2, <1>3

\* cephFSSnapshotMirrorEnableVolume preserves CfInv.
LEMMA CfVolumeInv ==
  ASSUME CfInv, NEW s \in CfSlots, cephFSSnapshotMirrorEnableVolume(s)
  PROVE  CfInv'
<1>1. CASE CfBreaks(s)
  BY <1>1, CfBreaksInv DEF cephFSSnapshotMirrorEnableVolume, CfIs
<1>2. CASE ~CfBreaks(s)
  <2>1. CfServed'
    BY <1>2 DEF CfInv, CfServed, LocalName, cephFSSnapshotMirrorEnableVolume
  <2>2. CfType'
    <3>1. cfMirrored' \in BOOLEAN
      BY <1>2, ZenonT(60) DEF cephFSSnapshotMirrorEnableVolume
    <3>2. cfRun' \in [CfSlots -> CfRunType]
      BY <1>2 DEF CfInv, CfType, CfRunType, CfSteps, Enabling, CfGo, cephFSSnapshotMirrorEnableVolume
    <3>3. UNCHANGED <<cfPeers, cfPaths, cfFor, cfClean, cfDaemon>>
      BY <1>2 DEF CfKeep, cephFSSnapshotMirrorEnableVolume
    <3> QED
      BY <3>1, <3>2, <3>3 DEF CfInv, CfType, LocalName
  <2>4. CfKinds' /\ RepeatedEnableSucceeds' /\ DisabledIsGone'
    BY <1>2 DEF CfInv, CfType, CfRunType, CfSteps, CfKeep, CfGo, CfIs, cephFSSnapshotMirrorEnableVolume,
      CfKinds, Enabling, RepeatedEnableSucceeds, DisabledIsGone
  <2>5. CfAlone'
    BY <1>2 DEF CfInv, CfType, CfRunType, CfSteps, CfKeep, CfGo, CfIs, cephFSSnapshotMirrorEnableVolume, CfAlone
  <2>3. CfProgress'
    BY <1>2 DEF CfInv, CfType, CfKinds, CfProgress, CfAlone, CfServed, RepeatedEnableSucceeds,
      DisabledIsGone, CfIs, CfRunType, CfSteps, Enabling, CfKeep, CfGo, cephFSSnapshotMirrorEnableVolume
  <2> QED
    BY <2>1, <2>2, <2>3, <2>4, <2>5 DEF CfInv
<1> QED
  BY <1>1, <1>2

\* cephFSSnapshotMirrorPeerCreate preserves CfInv.
LEMMA CfTokenInv ==
  ASSUME CfInv, NEW s \in CfSlots, cephFSSnapshotMirrorPeerCreate(s)
  PROVE  CfInv'
<1>1. CASE CfBreaks(s)
  BY <1>1, CfBreaksInv DEF cephFSSnapshotMirrorPeerCreate, CfIs
<1>2. CASE ~CfBreaks(s)
  BY <1>2, CfStepInv DEF cephFSSnapshotMirrorPeerCreate, CfIs, CfInv, CfKinds, CfProgress, CfSteps, Enabling, CfKeep
<1> QED
  BY <1>1, <1>2

\* cephFSSnapshotMirrorPeerImport preserves CfInv: the volume is mirrored by then.
LEMMA CfImportInv ==
  ASSUME CfInv, NEW s \in CfSlots, cephFSSnapshotMirrorPeerImport(s)
  PROVE  CfInv'
<1>1. CASE CfBreaks(s)
  BY <1>1, CfBreaksInv DEF cephFSSnapshotMirrorPeerImport, CfIs
<1>2. CASE ~CfBreaks(s)
  BY <1>2, CfConstants DEF CfInv, CfType, CfKinds, CfProgress, CfAlone, CfServed, RepeatedEnableSucceeds,
      DisabledIsGone, CfIs, CfRunType, CfSteps, Enabling, CfKeep, CfGo, cephFSSnapshotMirrorPeerImport
<1> QED
  BY <1>1, <1>2

\* cephFSSnapshotMirrorAddPath preserves CfInv.
LEMMA CfAddInv ==
  ASSUME CfInv, NEW s \in CfSlots, cephFSSnapshotMirrorAddPath(s)
  PROVE  CfInv'
<1>1. CASE CfBreaks(s)
  BY <1>1, CfBreaksInv DEF cephFSSnapshotMirrorAddPath, CfIs
<1>2. CASE ~CfBreaks(s)
  BY <1>2, CfConstants DEF CfInv, CfType, CfKinds, CfProgress, CfAlone, CfServed, RepeatedEnableSucceeds,
      DisabledIsGone, CfIs, CfRunType, CfSteps, Enabling, CfKeep, CfGo, cephFSSnapshotMirrorAddPath
<1> QED
  BY <1>1, <1>2

\* cephFSSnapshotMirrorRemovePath preserves CfInv.
LEMMA CfRemoveInv ==
  ASSUME CfInv, NEW s \in CfSlots, cephFSSnapshotMirrorRemovePath(s)
  PROVE  CfInv'
<1>1. CASE CfBreaks(s)
  BY <1>1, CfBreaksInv DEF cephFSSnapshotMirrorRemovePath, CfIs
<1>2. CASE ~CfBreaks(s)
  BY <1>2, CfConstants DEF CfInv, CfType, CfKinds, CfProgress, CfAlone, CfServed, RepeatedEnableSucceeds,
      DisabledIsGone, CfIs, CfRunType, CfSteps, Enabling, CfKeep, CfGo, cephFSSnapshotMirrorRemovePath, Untrack
<1> QED
  BY <1>1, <1>2

\* disableCephFSVolumeMirror preserves CfInv.
LEMMA CfRemoveAllInv ==
  ASSUME CfInv, NEW s \in CfSlots, disableCephFSVolumeMirror(s)
  PROVE  CfInv'
<1>1. CASE CfBreaks(s)
  BY <1>1, CfBreaksInv DEF disableCephFSVolumeMirror, CfIs
<1>2. CASE ~CfBreaks(s)
  BY <1>2, CfConstants DEF CfInv, CfType, CfKinds, CfProgress, CfAlone, CfServed, RepeatedEnableSucceeds,
      DisabledIsGone, CfIs, CfRunType, CfSteps, Enabling, CfKeep, CfGo, disableCephFSVolumeMirror, Untrack
<1> QED
  BY <1>1, <1>2

\* The answer of handleReplicationRequest preserves CfInv.
LEMMA CfAnswerInv ==
  ASSUME CfInv, NEW s \in CfSlots, handleReplicationRequest(s)
  PROVE  CfInv'
  BY DEF CfInv, CfType, CfKinds, CfProgress, CfAlone, CfServed, RepeatedEnableSucceeds,
      DisabledIsGone, CfIs, CfRunType, CfSteps, Enabling, CfKeep, CfGo, handleReplicationRequest, CfIdle, CfAsk

\* The three properties hold of every request, whatever fails and however
\* requests interleave: an added path is replicated somewhere, a failed enable
\* can be repeated, and what was disabled is gone.
THEOREM CephfsCorrect == CfSpec => [](PathHasPeer /\ RepeatedEnableSucceeds /\ DisabledIsGone)
<1>1. ASSUME CfInv, [CfNext]_cfVars
      PROVE  CfInv'
  <2>1. CASE UNCHANGED cfVars
    BY <1>1, <2>1 DEF cfVars, CfInv, CfType, CfKinds, CfProgress, CfAlone, CfServed, RepeatedEnableSucceeds,
      DisabledIsGone, CfIs, CfRunType, CfSteps, Enabling, CfKeep, CfGo, LocalName
  <2>2. CASE CfNext
    <3>1. PICK s \in CfSlots :
            \/ \E p \in CfPaths, rem \in CfRemotes : CfBegin(s, CfAsk("status", "enable", p, rem, FALSE))
            \/ \E p \in CfPaths \cup {Volume}, force \in BOOLEAN :
                  CfBegin(s, CfAsk("status", "disable", p, Volume, p = Volume /\ force))
            \/ PreFill(s) \/ GetCephFSVolumeMirrorList(s)
            \/ verifyEnableRequestData(s) \/ cephFSSnapshotMirrorPeerExists(s)
            \/ cephFSSnapshotMirrorEnableVolume(s) \/ cephFSSnapshotMirrorPeerCreate(s)
            \/ cephFSSnapshotMirrorPeerImport(s) \/ cephFSSnapshotMirrorAddPath(s)
            \/ cephFSSnapshotMirrorRemovePath(s) \/ disableCephFSVolumeMirror(s)
            \/ handleReplicationRequest(s)
      BY <2>2, ZenonT(60) DEF CfNext
    <3>2. ASSUME NEW p \in CfPaths, NEW rem \in CfRemotes, CfBegin(s, CfAsk("status", "enable", p, rem, FALSE))
          PROVE  CfInv'
      <4> DEFINE ask == CfAsk("status", "enable", p, rem, FALSE)
      <4>1. ask \in CfRunType /\ ask.step = "status" /\ ask.path = p /\ ask.remote = rem
        BY DEF CfAsk, CfRunType, CfSteps
      <4> QED
        BY <1>1, <3>2, <4>1, CfBeginInv, ZenonT(60)
    <3>3. ASSUME NEW p \in CfPaths \cup {Volume}, NEW force \in BOOLEAN,
                 CfBegin(s, CfAsk("status", "disable", p, Volume, p = Volume /\ force))
          PROVE  CfInv'
      <4> DEFINE ask == CfAsk("status", "disable", p, Volume, p = Volume /\ force)
      <4>1. ask \in CfRunType /\ ask.step = "status" /\ ask.op = "disable"
        BY DEF CfAsk, CfRunType, CfSteps
      <4> QED
        BY <1>1, <3>3, <4>1, CfBeginInv
    <3> QED
      BY <1>1, <3>1, <3>2, <3>3, CfPreFillInv, CfListInv, CfVerifyInv, CfPeerInv, ZenonT(60),
         CfVolumeInv, CfTokenInv, CfImportInv, CfAddInv, CfRemoveInv, CfRemoveAllInv, CfAnswerInv
  <2> QED
    BY <1>1, <2>1, <2>2
<1>2. CfInv => PathHasPeer /\ RepeatedEnableSucceeds /\ DisabledIsGone
  BY DEF CfInv, CfType, CfRunType, CfServed, PathHasPeer
<1> QED
  BY <1>1, <1>2, CfInitInv, PTL DEF CfSpec

\* enableCephFSResourceMirror adds a path last: it always has its peer.
THEOREM CephfsPathHasPeer == CfSpec => []PathHasPeer
  BY CephfsCorrect, PTL

\* EnableHandler can be repeated after any failure of an earlier request.
THEOREM CephfsEnableRepeats == CfSpec => []RepeatedEnableSucceeds
  BY CephfsCorrect, PTL

\* DisableHandler that succeeds has removed what its request names.
THEOREM CephfsDisabledIsGone == CfSpec => []DisabledIsGone
  BY CephfsCorrect, PTL
=============================================================================
