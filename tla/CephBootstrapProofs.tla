------------------------ MODULE CephBootstrapProofs ------------------------
(***************************************************************************)
(* For any number of members and attempts: one Ceph cluster, no racing     *)
(* attempts without --force, and no success without Ceph.                  *)
(***************************************************************************)
EXTENDS CephBootstrap, TLAPS

\* There is a monitor of the recorded cluster.
CephUp == fsid # 0 /\ \E m \in Members : running[m] = fsid

\* The attempt on m got its monitor up and has not failed since.
Succeeding(m) == at[m] \in {"build", "mark"} \/ (at[m] = "record" /\ ~failed[m])

\* What a call's place says about the database and the hosts.
CallInv(m) ==
    /\ failed[m] => at[m] = "record"
    /\ at[m] \in Attempting => mine[m] # 0
    /\ at[m] = "mon" => fsid = mine[m]
    /\ Succeeding(m) => fsid = mine[m] /\ running[m] = fsid
    /\ at[m] = "heal" => CephUp

\* A --force in use has been noted.
ForceIsNoted == \A m \in Members : forced[m] => everForced

\* While nobody forces, an attempt that has no config rows yet owns in_progress.
RowIsTaken ==
    ~everForced /\ fsid = 0 =>
        \A m \in Members : at[m] \in Attempting => lifecycle = "in_progress"

\* The inductive invariant.
BootInv ==
    /\ BootTypeOK
    /\ \A m \in Members : CallInv(m)
    /\ ForceIsNoted
    /\ OneClusterRuns
    /\ RowIsTaken
    /\ OneAttempt
    /\ SuccessMeansCeph
    /\ InProgressIsOwned

\* The types of what a call holds.
CallTypeOK ==
    /\ at \in [Members -> Places] /\ answer \in [Members -> Answers]
    /\ forced \in [Members -> BOOLEAN] /\ failed \in [Members -> BOOLEAN]
    /\ mine \in [Members -> 0..MaxTries]

\* Moving on, failing and returning keep the types of the call.
LEMMA CallTypes ==
    ASSUME CallTypeOK, NEW m \in Members
    PROVE  /\ \A p \in Places : Go(m, p) /\ UNCHANGED callVars => CallTypeOK'
           /\ StepsFail(m) => CallTypeOK'
           /\ \A a \in Answers : Return(m, a) => CallTypeOK'
  <1> USE DEF CallTypeOK
  <1>1. "idle" \in Places /\ "record" \in Places
    BY DEF Places, Attempting
  <1>2. 0 \in 0..MaxTries
    BY BootAssumption
  <1>3. ASSUME NEW p \in Places, Go(m, p), UNCHANGED callVars PROVE CallTypeOK'
    BY <1>3 DEF Go, callVars
  <1>4. ASSUME StepsFail(m) PROVE CallTypeOK'
    <2>1. at' \in [Members -> Places] /\ answer' \in [Members -> Answers]
      BY <1>1, <1>4 DEF StepsFail, Go
    <2>2. failed' \in [Members -> BOOLEAN]
      BY <1>4, Zenon DEF StepsFail
    <2> QED
      BY <1>4, <2>1, <2>2 DEF StepsFail
  <1>5. ASSUME NEW a \in Answers, Return(m, a) PROVE CallTypeOK'
    <2>1. at' \in [Members -> Places] /\ answer' \in [Members -> Answers]
      BY <1>1, <1>5 DEF Return
    <2>2. forced' \in [Members -> BOOLEAN]
      BY <1>5, Zenon DEF Return
    <2>3. failed' \in [Members -> BOOLEAN]
      BY <1>5, Zenon DEF Return
    <2>4. mine' \in [Members -> 0..MaxTries]
      BY <1>2, <1>5 DEF Return
    <2> QED
      BY <2>1, <2>2, <2>3, <2>4
  <1> QED
    BY <1>3, <1>4, <1>5

\* Every step keeps the type invariant.
LEMMA BootTypeStep == BootTypeOK /\ [Next]_vars => BootTypeOK'
  <1> SUFFICES ASSUME BootTypeOK, [Next]_vars
               PROVE  BootTypeOK'
    OBVIOUS
  <1> USE BootAssumption
  <1>1. CASE UNCHANGED vars
    BY <1>1 DEF vars, dbVars, hostVars, callVars, BootTypeOK
  <1>2. ASSUME NEW m \in Members,
               \/ \E f \in Flags : Begin(m, f)
               \/ CallStep(m) \/ Crash(m) \/ Refresh(m)
        PROVE  BootTypeOK'
    <2> DEFINE HostTypeOK ==
                 /\ lifecycle \in States
                 /\ fsid \in 0..MaxTries
                 /\ conf \in [Members -> 0..MaxTries] /\ running \in [Members -> 0..MaxTries]
                 /\ refreshed \in [Members -> BOOLEAN] /\ ready \in BOOLEAN
                 /\ tries \in 0..MaxTries
                 /\ lost \in BOOLEAN /\ everForced \in BOOLEAN
    <2>1. CallTypeOK /\ HostTypeOK
      BY DEF BootTypeOK, CallTypeOK
    <2>2. CallTypeOK' /\ HostTypeOK' => BootTypeOK'
      BY DEF BootTypeOK, CallTypeOK
    <2>3. CallTypeOK'
      <3>1. ASSUME NEW f \in Flags, Begin(m, f) PROVE CallTypeOK'
        <4>0. f \in BOOLEAN
          BY BootAssumption
        <4>1. forced' \in [Members -> BOOLEAN]
          BY <2>1, <3>1, <4>0, Zenon DEF Begin, CallTypeOK
        <4> QED
          BY <2>1, <3>1, <4>1 DEF Begin, CallTypeOK, Places, Answers
      <3>2. CASE Start(m)
        BY <2>1, <3>2 DEF Start, Go, CallTypeOK, HostTypeOK, Places, Attempting, Steps
      <3>3. CASE Refresh(m)
        BY <2>1, <3>3 DEF Refresh, callVars, CallTypeOK
      <3>4. CASE /\ CallStep(m) \/ Crash(m)
                 /\ ~Start(m)
        <4>1. \/ \E p \in Places : Go(m, p) /\ UNCHANGED callVars
              \/ StepsFail(m)
              \/ \E a \in Answers : Return(m, a)
          BY <3>4, Zenon
          DEF CallStep, ReadStale, Verify, Heal, StartRefused, StartError, WriteFiles,
              Populate, StartMon, Build, Mark, Record, RecordError, Crash, Places,
              Attempting, Steps, Answers
        <4> QED
          BY <2>1, <4>1, CallTypes
      <3> QED
        BY <1>2, <3>1, <3>2, <3>3, <3>4
    <2>4. HostTypeOK'
      <3> USE <2>1 DEF dbVars, hostVars
      <3>1. ASSUME NEW f \in Flags, Begin(m, f) PROVE HostTypeOK'
        BY <3>1 DEF Begin
      <3>2. CASE ReadStale(m) \/ Verify(m) \/ StartRefused(m)
        BY <3>2 DEF ReadStale, Verify, StartRefused
      <3>3. CASE Heal(m) \/ Mark(m) \/ Record(m)
        BY <3>3 DEF Heal, Mark, Record, States
      <3>4. CASE Start(m)
        BY <3>4 DEF Start, States
      <3>5. CASE StartError(m)
        BY <3>5 DEF StartError, States
      <3>6. CASE WriteFiles(m)
        BY <3>6 DEF WriteFiles, CallTypeOK
      <3>7. CASE Populate(m)
        BY <3>7 DEF Populate, CallTypeOK
      <3>8. CASE StartMon(m)
        BY <3>8 DEF StartMon, CallTypeOK
      <3>9. CASE Build(m)
        BY <3>9 DEF Build
      <3>10. CASE RecordError(m)
        BY <3>10 DEF RecordError, States
      <3>11. CASE Crash(m)
        <4>1. refreshed' \in [Members -> BOOLEAN] /\ lost' \in BOOLEAN
          BY <3>11, Zenon DEF Crash
        <4> QED
          BY <3>11, <4>1 DEF Crash
      <3>12. CASE Refresh(m)
        <4>1. refreshed' \in [Members -> BOOLEAN]
          BY <3>12, Zenon DEF Refresh
        <4> QED
          BY <3>12, <4>1 DEF Refresh
      <3> QED
        BY <1>2, <3>1, <3>2, <3>3, <3>4, <3>5, <3>6, <3>7, <3>8, <3>9, <3>10, <3>11,
           <3>12 DEF CallStep
    <2> QED
      BY <2>2, <2>3, <2>4
  <1>3. CASE Next
    <2>1. PICK m \in Members : \/ \E f \in Flags : Begin(m, f)
                              \/ CallStep(m) \/ Crash(m) \/ Refresh(m)
      BY <1>3 DEF Next
    <2> QED
      BY <1>2, <2>1
  <1> QED
    BY <1>1, <1>3

\* One member's step, whichever it is.
StepOf(m) == (\E f \in Flags : Begin(m, f)) \/ CallStep(m) \/ Crash(m) \/ Refresh(m)

\* A step of m leaves the other calls alone, never changes config rows that
\* exist, and starts a monitor only for the cluster they name.
Frame(m) ==
    /\ \A k \in Members \ {m} :
         /\ at'[k] = at[k] /\ answer'[k] = answer[k] /\ running'[k] = running[k]
         /\ forced'[k] = forced[k] /\ mine'[k] = mine[k] /\ failed'[k] = failed[k]
    /\ everForced => everForced'
    /\ forced'[m] => forced[m] \/ everForced'
    /\ fsid # 0 => fsid' = fsid
    /\ fsid' # fsid => at[m] = "populate" /\ fsid' = mine[m]
    /\ running'[m] # running[m] => at[m] = "mon" /\ running'[m] = mine[m]

\* Who changes the lifecycle row, who answers success, and how attempts end.
RowFrame(m) ==
    /\ ~Start(m) /\ at'[m] \in Attempting => at[m] \in Attempting
    /\ lifecycle' # lifecycle =>
         \/ lifecycle' = "bootstrapped" /\ (at[m] = "heal" \/ Succeeding(m))
         \/ lifecycle' = "failed" /\ at[m] = "record" /\ at'[m] = "idle"
         \/ lifecycle' = "in_progress" /\ (at'[m] \in Attempting \/ lost')
    /\ answer'[m] = "ok" =>
         \/ answer[m] = "ok" \/ lifecycle = "bootstrapped"
         \/ at[m] = "heal" \/ Succeeding(m)
    /\ lost => lost'
    /\ at[m] \in Attempting /\ at'[m] \notin Attempting =>
         lost' \/ lifecycle' # "in_progress"

\* Every step of a member has that frame.
LEMMA StepFrame ==
    ASSUME BootTypeOK, NEW m \in Members, StepOf(m), CallInv(m)
    PROVE  Frame(m)
  <1> USE DEF Frame, dbVars, hostVars, callVars, Go, Return, StepsFail, BootTypeOK
  <1>1. CASE \E f \in Flags : Begin(m, f)
    BY <1>1 DEF Begin
  <1>2. CASE ReadStale(m) \/ Verify(m)
    BY <1>2 DEF ReadStale, Verify
  <1>3. CASE Heal(m) \/ Mark(m) \/ Record(m)
    BY <1>3 DEF Heal, Mark, Record
  <1>4. CASE Start(m)
    BY <1>4 DEF Start
  <1>5. CASE StartRefused(m) \/ StartError(m)
    BY <1>5 DEF StartRefused, StartError
  <1>6. CASE WriteFiles(m)
    BY <1>6 DEF WriteFiles
  <1>7. CASE Populate(m)
    BY <1>7 DEF Populate
  <1>8. CASE StartMon(m)
    BY <1>8 DEF StartMon
  <1>9. CASE Build(m)
    BY <1>9 DEF Build
  <1>10. CASE RecordError(m) \/ Crash(m)
    BY <1>10 DEF RecordError, Crash
  <1>11. CASE Refresh(m)
    BY <1>11 DEF Refresh
  <1> QED
    BY <1>1, <1>2, <1>3, <1>4, <1>5, <1>6, <1>7, <1>8, <1>9, <1>10, <1>11
    DEF StepOf, CallStep

\* The member that takes the step keeps what its place says.
LEMMA CallKept ==
    ASSUME BootInv, NEW m \in Members, StepOf(m), BootTypeOK'
    PROVE  CallInv(m)'
  <1> USE DEF dbVars, hostVars, callVars
  <1>a. /\ at \in [Members -> Places] /\ forced \in [Members -> BOOLEAN]
        /\ failed \in [Members -> BOOLEAN] /\ mine \in [Members -> 0..MaxTries]
        /\ running \in [Members -> 0..MaxTries]
    BY DEF BootInv, BootTypeOK
  <1>b. CallInv(m)
    BY DEF BootInv
  <1>r. ASSUME NEW a, Return(m, a)
        PROVE  CallInv(m)'
    <2>1. at'[m] = "idle" /\ forced'[m] = FALSE /\ failed'[m] = FALSE
      BY <1>a, <1>r DEF Return
    <2> QED
      BY <2>1 DEF CallInv, Succeeding, Attempting, Steps
  <1>f. ASSUME StepsFail(m), at[m] \in Attempting
        PROVE  CallInv(m)'
    <2>1. /\ at'[m] = "record" /\ failed'[m] = TRUE
          /\ forced'[m] = forced[m] /\ mine'[m] = mine[m]
      BY <1>a, <1>f DEF StepsFail, Go
    <2> QED
      BY <1>b, <1>f, <2>1 DEF CallInv, Succeeding
  <1>1. CASE \E f \in Flags : Begin(m, f)
    <2>1. PICK f \in Flags : Begin(m, f)
      BY <1>1
    <2>2. /\ at[m] = "idle" /\ at'[m] = "recover" /\ forced'[m] = f
          /\ failed'[m] = failed[m]
      BY <1>a, <2>1 DEF Begin
    <2> QED
      BY <1>b, <2>2 DEF CallInv, Succeeding, Attempting, Steps
  <1>2. CASE ReadStale(m)
    <2>1. CASE Return(m, "error")
      BY <1>r, <2>1
    <2>2. ASSUME NEW place \in {"verify", "start"}, Go(m, place), UNCHANGED callVars
          PROVE  CallInv(m)'
      <3>1. /\ at[m] = "recover" /\ at'[m] = place
            /\ failed'[m] = failed[m] /\ forced'[m] = forced[m]
        BY <1>a, <1>2, <2>2 DEF ReadStale, Go
      <3> QED
        BY <1>b, <2>2, <3>1 DEF CallInv, Succeeding, Attempting, Steps
    <2> QED
      BY <1>2, <2>1, <2>2 DEF ReadStale
  <1>3. CASE Verify(m)
    <2>1. CASE Reachable(m) /\ Go(m, "heal") /\ UNCHANGED callVars
      <3>1. CephUp'
        BY <1>3, <2>1 DEF Verify, Reachable, OneClusterRuns, BootInv, CephUp
      <3>2. /\ at'[m] = "heal" /\ at[m] = "verify"
            /\ failed'[m] = failed[m] /\ forced'[m] = forced[m]
        BY <1>a, <1>3, <2>1 DEF Verify, Go
      <3> QED
        BY <1>b, <3>1, <3>2 DEF CallInv, Succeeding, Attempting, Steps
    <2>2. CASE Return(m, "partial")
      BY <1>r, <2>2
    <2> QED
      BY <1>3, <2>1, <2>2 DEF Verify
  <1>4. CASE Heal(m) \/ StartRefused(m) \/ StartError(m) \/ Record(m)
             \/ RecordError(m) \/ Crash(m)
    <2>1. \E a \in Answers : Return(m, a)
      BY <1>4 DEF Heal, StartRefused, StartError, Record, RecordError, Crash, Answers
    <2> QED
      BY <1>r, <2>1
  <1>5. CASE Start(m)
    <2>1. /\ mine'[m] # 0 /\ at'[m] = "files" /\ at[m] = "start"
          /\ failed'[m] = failed[m] /\ forced'[m] = forced[m]
      BY <1>a, <1>5, BootAssumption DEF Start, Go, BootInv, BootTypeOK
    <2> QED
      BY <1>b, <2>1 DEF CallInv, Succeeding
  <1>6. CASE StepsFail(m) /\ (WriteFiles(m) \/ Populate(m) \/ StartMon(m) \/ Build(m))
    <2>1. at[m] \in Attempting
      BY <1>6 DEF WriteFiles, Populate, StartMon, Build, Attempting, Steps
    <2> QED
      BY <1>6, <2>1, <1>f
  <1>7. CASE WriteFiles(m) /\ Go(m, "populate") /\ UNCHANGED callVars
    <2>1. /\ at[m] = "files" /\ at'[m] = "populate" /\ failed'[m] = failed[m]
          /\ forced'[m] = forced[m] /\ mine'[m] = mine[m]
      BY <1>a, <1>7 DEF WriteFiles, Go
    <2> QED
      BY <1>b, <2>1 DEF CallInv, Succeeding, Attempting, Steps
  <1>8. CASE Populate(m) /\ fsid' = mine[m] /\ Go(m, "mon") /\ UNCHANGED callVars
    <2>1. /\ at[m] = "populate" /\ at'[m] = "mon" /\ failed'[m] = failed[m]
          /\ forced'[m] = forced[m] /\ mine'[m] = mine[m] /\ fsid' = mine[m]
      BY <1>a, <1>8 DEF Populate, Go
    <2> QED
      BY <1>b, <2>1 DEF CallInv, Succeeding, Attempting, Steps
  <1>9. CASE /\ StartMon(m) /\ running' = [running EXCEPT ![m] = mine[m]]
             /\ Go(m, "build") /\ UNCHANGED callVars
    <2>1. /\ at[m] = "mon" /\ at'[m] = "build" /\ failed'[m] = failed[m]
          /\ forced'[m] = forced[m] /\ mine'[m] = mine[m] /\ fsid' = fsid
          /\ running'[m] = mine[m]
      BY <1>a, <1>9 DEF StartMon, Go
    <2> QED
      BY <1>b, <2>1 DEF CallInv, Succeeding, Attempting, Steps
  <1>10. CASE (Build(m) /\ Go(m, "mark") /\ UNCHANGED callVars) \/ Mark(m)
    <2>1. /\ at[m] \in {"build", "mark"} /\ at'[m] \in {"mark", "record"}
          /\ failed'[m] = failed[m] /\ forced'[m] = forced[m] /\ mine'[m] = mine[m]
          /\ fsid' = fsid /\ running'[m] = running[m]
      BY <1>a, <1>10 DEF Build, Mark, Go
    <2> QED
      BY <1>b, <2>1 DEF CallInv, Succeeding, Attempting, Steps
  <1>11. CASE Refresh(m)
    <2>1. UNCHANGED <<at, forced, failed, mine, fsid, running>>
      BY <1>11 DEF Refresh
    <2> QED
      BY <1>b, <2>1 DEF CallInv, Succeeding, CephUp
  <1> QED
    <2>1. CASE WriteFiles(m)
      BY <2>1, <1>6, <1>7 DEF WriteFiles
    <2>2. CASE Populate(m)
      BY <2>2, <1>6, <1>8 DEF Populate
    <2>3. CASE StartMon(m)
      BY <2>3, <1>6, <1>9 DEF StartMon
    <2>4. CASE Build(m)
      BY <2>4, <1>6, <1>10 DEF Build
    <2> QED
      BY <1>1, <1>2, <1>3, <1>4, <1>5, <1>10, <1>11, <2>1, <2>2, <2>3, <2>4
      DEF StepOf, CallStep

\* Every step of a member treats the lifecycle row that way.
LEMMA StepRow ==
    ASSUME BootTypeOK, NEW m \in Members, StepOf(m), CallInv(m)
    PROVE  RowFrame(m)
  <1> USE DEF RowFrame, dbVars, hostVars, callVars, Go, Return, StepsFail, BootTypeOK,
              Attempting, Steps, Succeeding
  <1>1. CASE \E f \in Flags : Begin(m, f)
    BY <1>1 DEF Begin
  <1>2. CASE ReadStale(m) \/ Verify(m)
    BY <1>2 DEF ReadStale, Verify
  <1>3. CASE Heal(m)
    BY <1>3 DEF Heal
  <1>4. CASE Start(m)
    BY <1>4 DEF Start
  <1>5. CASE StartRefused(m)
    BY <1>5 DEF StartRefused, Found
  <1>6. CASE StartError(m)
    BY <1>6 DEF StartError
  <1>7. CASE WriteFiles(m)
    BY <1>7 DEF WriteFiles
  <1>8. CASE Populate(m)
    BY <1>8 DEF Populate
  <1>9. CASE StartMon(m)
    BY <1>9 DEF StartMon
  <1>10. CASE Build(m)
    BY <1>10 DEF Build
  <1>11. CASE Mark(m)
    BY <1>11 DEF Mark
  <1>12. CASE Record(m)
    BY <1>12 DEF Record
  <1>13. CASE RecordError(m) \/ Crash(m)
    BY <1>13 DEF RecordError, Crash
  <1>14. CASE Refresh(m)
    BY <1>14 DEF Refresh
  <1> QED
    BY <1>1, <1>2, <1>3, <1>4, <1>5, <1>6, <1>7, <1>8, <1>9, <1>10, <1>11, <1>12,
       <1>13, <1>14 DEF StepOf, CallStep

\* Every step of Next keeps the inductive invariant.
LEMMA BootStepInv == BootInv /\ [Next]_vars => BootInv'
  <1> SUFFICES ASSUME BootInv, [Next]_vars
               PROVE  BootInv'
    OBVIOUS
  <1>1. CASE UNCHANGED vars
    BY <1>1 DEF vars, dbVars, hostVars, callVars, BootInv, BootTypeOK, CallInv,
       OneClusterRuns, ForceIsNoted, RowIsTaken, OneAttempt, SuccessMeansCeph,
       InProgressIsOwned,
       Succeeding, CephUp
  <1>2. ASSUME NEW m \in Members, StepOf(m)
        PROVE  BootInv'
    <2>1. BootTypeOK'
      BY BootTypeStep DEF BootInv
    <2>2. CallInv(m)'
      BY <1>2, <2>1, CallKept
    <2>3. Frame(m)
      BY <1>2, StepFrame DEF BootInv
    <2>4. OneClusterRuns'
      BY <2>3 DEF Frame, OneClusterRuns, BootInv, CallInv, Attempting, Steps
    <2>5. CephUp => CephUp'
      BY <2>3 DEF Frame, CephUp, OneClusterRuns, BootInv, CallInv, Attempting, Steps
    <2>6. \A k \in Members : CallInv(k)'
      <3> SUFFICES ASSUME NEW k \in Members \ {m}
                   PROVE  CallInv(k)'
        BY <2>2
      <3> QED
        BY <2>3, <2>5 DEF Frame, BootInv, CallInv, Succeeding, Attempting, Steps
    <2>7. RowFrame(m)
      BY <1>2, StepRow DEF BootInv
    <2>8. at[m] = "heal" \/ Succeeding(m) => CephUp
      BY DEF BootInv, CallInv, Succeeding, CephUp, Attempting, Steps
    <2>9. Start(m) /\ ~everForced' =>
             /\ fsid = 0 /\ \A k \in Members : at[k] \notin Attempting
             /\ lifecycle' = "in_progress"
      <3> SUFFICES ASSUME Start(m), ~everForced'
                   PROVE  /\ fsid = 0 /\ \A k \in Members : at[k] \notin Attempting
                          /\ lifecycle' = "in_progress"
        OBVIOUS
      <3>1. ~everForced /\ ~forced[m]
        BY <2>3 DEF BootInv, Frame, ForceIsNoted
      <3>2. fsid = 0 /\ lifecycle # "in_progress" /\ lifecycle' = "in_progress"
        BY <3>1 DEF Start, MayStart, Found
      <3> QED
        BY <3>1, <3>2 DEF BootInv, RowIsTaken
    <2>10. RowIsTaken'
      <3> SUFFICES ASSUME ~everForced', fsid' = 0,
                          NEW k \in Members, at'[k] \in Attempting
                   PROVE  lifecycle' = "in_progress"
        BY DEF RowIsTaken
      <3>1. CASE Start(m)
        BY <2>9, <3>1
      <3>2. CASE ~Start(m)
        <4>1. at[k] \in Attempting /\ fsid = 0 /\ lifecycle = "in_progress" /\ ~everForced
          BY <2>3, <2>7, <3>2 DEF Frame, RowFrame, BootInv, RowIsTaken
        <4>2. ~(at[m] = "heal" \/ Succeeding(m))
          BY <2>8, <4>1 DEF CephUp
        <4>3. ~(at[m] = "record" /\ at'[m] = "idle")
          BY <4>1 DEF BootInv, OneAttempt, Attempting, Steps
        <4> QED
          BY <2>7, <4>1, <4>2, <4>3 DEF RowFrame
      <3> QED
        BY <3>1, <3>2
    <2>11. OneAttempt'
      BY <2>3, <2>7, <2>9 DEF Frame, RowFrame, BootInv, OneAttempt
    <2>0. ForceIsNoted'
      BY <2>3 DEF Frame, BootInv, ForceIsNoted
    <2>12. SuccessMeansCeph'
      <3>1. lifecycle' = "bootstrapped" \/ (\E k \in Members : answer'[k] = "ok") => CephUp
        BY <2>3, <2>7, <2>8 DEF Frame, RowFrame, BootInv, SuccessMeansCeph, CephUp
      <3> QED
        BY <2>5, <3>1 DEF SuccessMeansCeph, CephUp
    <2>13. InProgressIsOwned'
      BY <2>3, <2>7 DEF Frame, RowFrame, BootInv, InProgressIsOwned
    <2> QED
      BY <2>0, <2>1, <2>4, <2>6, <2>10, <2>11, <2>12, <2>13 DEF BootInv
  <1>3. CASE Next
    <2>1. PICK m \in Members : StepOf(m)
      BY <1>3 DEF Next, StepOf
    <2> QED
      BY <1>2, <2>1
  <1> QED
    BY <1>1, <1>3

\* Nothing has started.
LEMMA BootInitInv == Init => BootInv
  <1> SUFFICES ASSUME Init PROVE BootInv
    OBVIOUS
  <1> USE BootAssumption DEF Init
  <1>1. BootTypeOK
    <2>1. /\ refreshed \in [Members -> BOOLEAN] /\ ready \in BOOLEAN /\ lost \in BOOLEAN
          /\ everForced \in BOOLEAN /\ forced \in [Members -> BOOLEAN] /\ failed \in [Members -> BOOLEAN]
      BY Zenon
    <2> QED
      BY <2>1 DEF BootTypeOK, States, Places, Answers
  <1>2. \A m \in Members : CallInv(m)
    BY DEF CallInv, Succeeding, Attempting, Steps
  <1> QED
    BY <1>1, <1>2
    DEF BootInv, OneClusterRuns, ForceIsNoted, RowIsTaken, OneAttempt, SuccessMeansCeph,
        InProgressIsOwned, Attempting, Steps

\* BootInv holds in every reachable state.
THEOREM BootInvariance == Spec => []BootInv
  BY BootInitInv, BootStepInv, PTL DEF Spec

\* The types of the database rows, the hosts and the calls.
THEOREM BootTypeCorrect == Spec => []BootTypeOK
  <1>1. BootInv => BootTypeOK
    BY DEF BootInv
  <1> QED
    BY <1>1, BootInvariance, PTL

\* PopulateBootstrapDatabase before the first monitor, and rows that cannot be
\* created twice: there is one Ceph cluster for any number of members,
\* attempts, crashes and uses of --force.
THEOREM OneCephCluster == Spec => []OneClusterRuns
  <1>1. BootInv => OneClusterRuns
    BY DEF BootInv
  <1> QED
    BY <1>1, BootInvariance, PTL

\* The conditional UPDATE of atomicStartBootstrap serializes the attempts of
\* any number of members as long as nobody uses --force.
THEOREM AttemptsAreSerial == Spec => []OneAttempt
  <1>1. BootInv => OneAttempt
    BY DEF BootInv
  <1> QED
    BY <1>1, BootInvariance, PTL

\* Neither BootstrapCeph nor the lifecycle row claims a Ceph that is not there.
THEOREM SuccessIsReal == Spec => []SuccessMeansCeph
  <1>1. BootInv => SuccessMeansCeph
    BY DEF BootInv
  <1> QED
    BY <1>1, BootInvariance, PTL

\* A stranded in_progress row is always the trace of a lost result.
THEOREM StrandedWasLost == Spec => []InProgressIsOwned
  <1>1. BootInv => InProgressIsOwned
    BY DEF BootInv
  <1> QED
    BY <1>1, BootInvariance, PTL

\* cephIsBootstrappedFunc is stable: the lifecycle row may fall back, the
\* config rows behind it do not.
THEOREM BootstrappedIsStable == Spec => StaysBootstrapped
  <1>1. BootInv /\ [Next]_vars => [cephIsBootstrapped => cephIsBootstrapped']_vars
    <2> SUFFICES ASSUME BootInv, [Next]_vars, cephIsBootstrapped
                 PROVE  cephIsBootstrapped'
      OBVIOUS
    <2>1. fsid # 0
      BY DEF BootInv, SuccessMeansCeph, cephIsBootstrapped
    <2>2. CASE UNCHANGED vars
      BY <2>1, <2>2 DEF vars, dbVars, cephIsBootstrapped
    <2>3. CASE Next
      <3>1. PICK m \in Members : StepOf(m)
        BY <2>3 DEF Next, StepOf
      <3>2. Frame(m)
        BY <3>1, StepFrame DEF BootInv
      <3> QED
        BY <2>1, <3>2 DEF Frame, cephIsBootstrapped
    <2> QED
      BY <2>2, <2>3
  <1> QED
    BY <1>1, BootInvariance, PTL DEF Spec, StaysBootstrapped
=============================================================================
