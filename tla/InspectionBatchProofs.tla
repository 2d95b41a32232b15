----------------------- MODULE InspectionBatchProofs -----------------------
(***************************************************************************)
(* What TLAPS proves of InspectionBatch, for any batches, targets,         *)
(* proposers, cancel requests and crashes.                                 *)
(*                                                                         *)
(* The properties of batches, targets and workers follow from              *)
(* InspectionInv.  A cancel may report a target as cancelled because of    *)
(* what it has seen of its session (CancelKnows), which no worker undoes:  *)
(* the batch is cancelled and the gate held before the first target is     *)
(* looked at (GateKnows), and a launch and a kill exclude each other       *)
(* (LifecycleKnows).  One lemma for each conjunct shows that every step    *)
(* of the system keeps it.                                                 *)
(*                                                                         *)
(* What is said of the proposers' processes holds only as long as no two   *)
(* proposals are generated for one session at once: generate_proposal      *)
(* does not exclude it, and then two processes share one place in the      *)
(* registry.                                                               *)
(***************************************************************************)
EXTENDS InspectionBatch, TLAPS

\* A run of a proposer and a run of a worker go on at different places.
LEMMA WhereRunsGo ==
  ASSUME NEW t, NEW o, NEW next \in After(t, o)
  PROVE  /\ next \in {"spawning", "reporting", "fallback", "failing", "proposing"}
         /\ t \in Proposers => next \in {"failing", "proposing"}
         /\ t \notin Proposers => next # "proposing"
BY DEF After

-----------------------------------------------------------------------------
(* Types.                                                                  *)

\* Every step keeps the types of what is on disk,
LEMMA DiskTypeStep == ASSUME InspectionInv, Next PROVE DiskType'
<1> USE ThreadsAssumption, TargetsAssumption
    DEF disk, work, cancel, kill, bounds, At, Go, ControlAt, EndCancel, Taken,
        Threads, TypeOK, DiskType, ProcessType, WorkType, ControlType, WorkerKnows,
        KillKnows, ProposerKnows, CancelKnows, SessionStatus, TERMINAL,
        VALID_REPORT, ActiveBatch, TERMINAL_BATCH_STATUSES
<1>0. TypeOK /\ WorkerKnows /\ KillKnows /\ ProposerKnows /\ CancelKnows
  BY DEF InspectionInv
<1>1. ASSUME NEW b \in Batches, Create(b) \/ BatchThread(b) PROVE DiskType'
  <2>1. CASE Create(b)  BY <1>0, <2>1 DEF Create, Creatable
  <2>2. CASE RunStart(b)  BY <1>0, <2>2 DEF RunStart, TargetsOf
  <2>3. CASE RunFinish(b)
    BY <1>0, <2>3 DEF RunFinish, Finished, PoolDone, TargetsOf
  <2> QED BY <1>1, <2>1, <2>2, <2>3 DEF BatchThread
<1>2. ASSUME NEW s \in Sessions, Worker(s) PROVE DiskType'
  <2>1. CASE InspectSkip(s)  BY <1>0, <2>1 DEF InspectSkip
  <2>2. CASE InspectRefuse(s)
    BY <1>0, <2>2 DEF InspectRefuse, UpdateTarget, FailureStatus
  <2>3. CASE InspectClaim(s)  BY <1>0, <2>3 DEF InspectClaim, UpdateTarget
  <2>4. CASE InspectCreate(s)  BY <1>0, <2>4 DEF InspectCreate
  <2>5. CASE InspectCreateFails(s)
    <3>1. status' \in [Sessions -> SessionStatus]
      BY <1>0, <2>5 DEF InspectCreateFails
    <3>2. target' \in [Sessions -> {"NONE", "QUEUED", "DIAGNOSING"} \cup TERMINAL]
      BY <1>0, <2>5 DEF InspectCreateFails, UpdateTarget, FailureStatus
    <3> QED BY <1>0, <2>5, <3>1, <3>2 DEF InspectCreateFails
  <2>6. CASE InspectReport(s)  BY <1>0, <2>6 DEF InspectReport
  <2>7. CASE InspectFail(s)  BY <1>0, <2>7 DEF InspectFail, FailureStatus
  <2>8. CASE InspectPublish(s)  BY <1>0, <2>8 DEF InspectPublish, UpdateTarget
  <2> QED BY <1>2, <2>1, <2>2, <2>3, <2>4, <2>5, <2>6, <2>7, <2>8 DEF Worker
<1>3. ASSUME NEW t \in Threads, Run(t) \/ ChildExits(t) PROVE DiskType'
  <2>1. CASE SpawnEnter(t)  BY <1>0, <2>1 DEF SpawnEnter
  <2>2. CASE SpawnBusy(t)
    BY <1>0, <2>2, WhereRunsGo DEF SpawnBusy, EndRun, Unregister, Subject
  <2>3. CASE SpawnCheck(t)
    <3>1. CASE MaySpawn(t)
      BY <1>0, <2>3, <3>1 DEF SpawnCheck, MaySpawn, Subject, Killed
    <3>2. CASE ~MaySpawn(t)
      <4>1. PICK next \in After(t, "error") : Go(t, next)
        BY <2>3, <3>2 DEF SpawnCheck, EndRun
      <4> QED BY <1>0, <2>3, <3>2, <4>1, WhereRunsGo
        DEF SpawnCheck, EndRun, Unregister, Subject, Killed
    <3> QED BY <3>1, <3>2
  <2>4. CASE Register(t)
    <3>1. CASE MayRegister(t) /\ pc' = [pc EXCEPT ![t] = "streaming"]
      BY <1>0, <2>4, <3>1, WhereRunsGo
      DEF Register, EndRun, Unregister, Subject, MayRegister, Killed
    <3>2. CASE ~MayRegister(t)
      <4>1. PICK next \in After(t, "error") : Go(t, next)
        BY <2>4, <3>2 DEF Register, EndRun
      <4> QED BY <1>0, <2>4, <3>2, <4>1, WhereRunsGo
        DEF Register, EndRun, Unregister, Subject, Killed
    <3> QED BY <2>4, <3>1, <3>2 DEF Register
  <2>5. CASE RunEnds(t)
    <3>1. PICK o \in {"ok", "noreport", "error"} : EndRun(t, o)  BY <2>5 DEF RunEnds
    <3>2. PICK next \in After(t, o) : Go(t, next)  BY <3>1 DEF EndRun
    <3> QED BY <1>0, <2>5, <3>1, <3>2, WhereRunsGo
      DEF RunEnds, EndRun, Unregister, Subject, Killed, Killed
  <2>6. CASE ChildExits(t)  BY <1>0, <2>6 DEF ChildExits
  <2> QED BY <1>3, <2>1, <2>2, <2>3, <2>4, <2>5, <2>6 DEF Run
<1>4. ASSUME NEW p \in Proposers, Proposer(p) \/ \E s \in Sessions : ProposeRead(p, s)
      PROVE DiskType'
  <2>1. CASE ProposeClaim(p)  BY <1>0, <2>1 DEF ProposeClaim
  <2>2. CASE ProposeEnd(p)
    <3>0. PICK v \in {"PENDING_APPROVAL", "MANUAL_INTERVENTION"} :
          status' = [status EXCEPT ![about[p]] = v]
      BY <2>2 DEF ProposeEnd
    <3>1. status' \in [Sessions -> SessionStatus]  BY <1>0, <3>0
    <3> QED BY <1>0, <2>2, <3>1 DEF ProposeEnd
  <2>3. ASSUME NEW s \in Sessions, ProposeRead(p, s) PROVE DiskType'
    BY <1>0, <2>3 DEF ProposeRead
  <2> QED BY <1>4, <2>1, <2>2, <2>3 DEF Proposer
<1>5. ASSUME NEW h \in Cancellers, CancelStep(h) \/ \E b \in Batches : CancelBegin(h, b)
      PROVE DiskType'
  <2>1. ASSUME NEW s \in Sessions, CancelClaim(h, s) PROVE DiskType'
    <3>1. CASE status[s] \in ACTIVE_STATUSES
      <4>1. /\ cancelReq' = [cancelReq EXCEPT ![s] = TRUE] /\ cur' = [cur EXCEPT ![h] = s]
            /\ cpc' = [cpc EXCEPT ![h] = "killing"] /\ todo' = todo
        BY <2>1, <3>1 DEF CancelClaim
      <4> QED BY <1>0, <2>1, <4>1 DEF CancelClaim
    <3>2. CASE status[s] \notin ACTIVE_STATUSES
      BY <1>0, <2>1, <3>2 DEF CancelClaim, ACTIVE_STATUSES, Running
    <3> QED BY <3>1, <3>2
  <2>2. CASE CancelKill(h)  BY <1>0, <2>2 DEF CancelKill, Unregister, Killed
  <2>3. CASE CancelSeal(h)  BY <1>0, <2>3 DEF CancelSeal
  <2>4. CASE CancelBusy(h)  BY <1>0, <2>4 DEF CancelBusy
  <2>5. CASE CancelMark(h)  BY <1>0, <2>5 DEF CancelMark, MarkCancelled, TargetsOf
  <2>6. ASSUME NEW b \in Batches, CancelBegin(h, b) PROVE DiskType'
    BY <1>0, <2>6 DEF CancelBegin, ToCancel, TargetsOf
  <2> QED BY <1>5, <2>1, <2>2, <2>3, <2>4, <2>5, <2>6 DEF CancelStep
<1>6. ASSUME KillArm \/ KillStep PROVE DiskType'
  <2>1. CASE KillArm  BY <1>0, <2>1 DEF KillArm, Killed
  <2>2. CASE KillClaim  BY <1>0, <2>2 DEF KillClaim
  <2>3. CASE KillMark  BY <1>0, <2>3 DEF KillMark
  <2> QED BY <1>6, <2>1, <2>2, <2>3 DEF KillStep
<1>7. CASE Crash  BY <1>0, <1>7 DEF Crash
<1>8. CASE Recover
  BY <1>0, <1>8 DEF Recover, RecoverSessions, RecoverBatch, Subject, Interrupted,
  Running
<1> QED BY <1>1, <1>2, <1>3, <1>4, <1>5, <1>6, <1>7, <1>8 DEF Next

\* of the processes and of the threads' places,
LEMMA ProcessTypeStep == ASSUME InspectionInv, Next PROVE ProcessType'
<1> USE ThreadsAssumption, TargetsAssumption
    DEF disk, work, cancel, kill, bounds, At, Go, ControlAt, EndCancel, Taken,
        Threads, TypeOK, DiskType, ProcessType, WorkType, ControlType,
        ProposerKnows, CancelKnows, SessionStatus, TERMINAL, VALID_REPORT,
        ActiveBatch, TERMINAL_BATCH_STATUSES
<1>0. TypeOK /\ ProposerKnows /\ CancelKnows
  BY DEF InspectionInv
<1>1. ASSUME NEW b \in Batches, Create(b) \/ BatchThread(b) PROVE ProcessType'
  <2>1. CASE Create(b)  BY <1>0, <2>1 DEF Create, Creatable
  <2>2. CASE RunStart(b)  BY <1>0, <2>2 DEF RunStart, TargetsOf
  <2>3. CASE RunFinish(b)
    BY <1>0, <2>3 DEF RunFinish, Finished, PoolDone, TargetsOf
  <2> QED BY <1>1, <2>1, <2>2, <2>3 DEF BatchThread
<1>2. ASSUME NEW s \in Sessions, Worker(s) PROVE ProcessType'
  <2>1. CASE InspectSkip(s)  BY <1>0, <2>1 DEF InspectSkip
  <2>2. CASE InspectRefuse(s)
    BY <1>0, <2>2 DEF InspectRefuse, UpdateTarget, FailureStatus
  <2>3. CASE InspectClaim(s)  BY <1>0, <2>3 DEF InspectClaim, UpdateTarget
  <2>4. CASE InspectCreate(s)  BY <1>0, <2>4 DEF InspectCreate
  <2>5. CASE InspectCreateFails(s)
    BY <1>0, <2>5 DEF InspectCreateFails, UpdateTarget, FailureStatus
  <2>6. CASE InspectReport(s)  BY <1>0, <2>6 DEF InspectReport
  <2>7. CASE InspectFail(s)  BY <1>0, <2>7 DEF InspectFail, FailureStatus
  <2>8. CASE InspectPublish(s)  BY <1>0, <2>8 DEF InspectPublish, UpdateTarget
  <2> QED BY <1>2, <2>1, <2>2, <2>3, <2>4, <2>5, <2>6, <2>7, <2>8 DEF Worker
<1>3. ASSUME NEW t \in Threads, Run(t) \/ ChildExits(t) PROVE ProcessType'
  <2>1. CASE SpawnEnter(t)  BY <1>0, <2>1 DEF SpawnEnter
  <2>2. CASE SpawnBusy(t)
    BY <1>0, <2>2, WhereRunsGo DEF SpawnBusy, EndRun, Unregister, Subject
  <2>3. CASE SpawnCheck(t)
    <3>1. CASE MaySpawn(t)
      <4>1. /\ proc' = [proc EXCEPT ![t] = "running"] /\ registered' = registered
            /\ pc' = [pc EXCEPT ![t] = "registering"]
        BY <2>3, <3>1 DEF SpawnCheck
      <4> QED BY <1>0, <2>3, <4>1 DEF SpawnCheck
    <3>2. CASE ~MaySpawn(t)
      <4>1. PICK next \in After(t, "error") : Go(t, next)
        BY <2>3, <3>2 DEF SpawnCheck, EndRun
      <4> QED BY SMTT(30), <1>0, <2>3, <3>2, <4>1, WhereRunsGo
        DEF SpawnCheck, EndRun, Unregister, Subject
    <3> QED BY <3>1, <3>2
  <2>4. CASE Register(t)
    <3>1. CASE MayRegister(t) /\ pc' = [pc EXCEPT ![t] = "streaming"]
      BY SMTT(30), <1>0, <2>4, <3>1, WhereRunsGo
      DEF Register, EndRun, Unregister, Subject, MayRegister
    <3>2. CASE ~MayRegister(t)
      <4>1. PICK next \in After(t, "error") : Go(t, next)
        BY <2>4, <3>2 DEF Register, EndRun
      <4>2. /\ proc' = [proc EXCEPT ![t] = "none"]
            /\ next \in {"spawning", "reporting", "fallback", "failing", "proposing"}
            /\ registered' = [registered EXCEPT ![Subject(t)] = Nobody]
            /\ UNCHANGED <<phase, bpc>>
        BY <2>4, <3>2, <4>1, WhereRunsGo DEF Register, EndRun, Unregister
      <4>3. pc' = [pc EXCEPT ![t] = next]  BY <4>1
      <4> QED BY <1>0, <4>2, <4>3
    <3> QED BY <2>4, <3>1, <3>2 DEF Register
  <2>5. CASE RunEnds(t)
    <3>1. PICK o \in {"ok", "noreport", "error"} : EndRun(t, o)  BY <2>5 DEF RunEnds
    <3>2. PICK next \in After(t, o) : Go(t, next)  BY <3>1 DEF EndRun
    <3> QED BY <1>0, <2>5, <3>1, <3>2, WhereRunsGo
      DEF RunEnds, EndRun, Unregister, Subject, Killed, Killed
  <2>6. CASE ChildExits(t)  BY <1>0, <2>6 DEF ChildExits
  <2> QED BY <1>3, <2>1, <2>2, <2>3, <2>4, <2>5, <2>6 DEF Run
<1>4. ASSUME NEW p \in Proposers, Proposer(p) \/ \E s \in Sessions : ProposeRead(p, s)
      PROVE ProcessType'
  <2>1. CASE ProposeClaim(p)  BY <1>0, <2>1 DEF ProposeClaim
  <2>2. CASE ProposeEnd(p)  BY <1>0, <2>2 DEF ProposeEnd
  <2>3. ASSUME NEW s \in Sessions, ProposeRead(p, s) PROVE ProcessType'
    BY <1>0, <2>3 DEF ProposeRead
  <2> QED BY <1>4, <2>1, <2>2, <2>3 DEF Proposer
<1>5. ASSUME NEW h \in Cancellers, CancelStep(h) \/ \E b \in Batches : CancelBegin(h, b)
      PROVE ProcessType'
  <2>1. ASSUME NEW s \in Sessions, CancelClaim(h, s) PROVE ProcessType'
    <3>1. CASE status[s] \in ACTIVE_STATUSES
      <4>1. /\ cancelReq' = [cancelReq EXCEPT ![s] = TRUE] /\ cur' = [cur EXCEPT ![h] = s]
            /\ cpc' = [cpc EXCEPT ![h] = "killing"] /\ todo' = todo
        BY <2>1, <3>1 DEF CancelClaim
      <4> QED BY <1>0, <2>1, <4>1 DEF CancelClaim
    <3>2. CASE status[s] \notin ACTIVE_STATUSES
      BY <1>0, <2>1, <3>2 DEF CancelClaim, ACTIVE_STATUSES, Running
    <3> QED BY <3>1, <3>2
  <2>2. CASE CancelKill(h)  BY <1>0, <2>2 DEF CancelKill, Unregister, Killed
  <2>3. CASE CancelSeal(h)  BY <1>0, <2>3 DEF CancelSeal
  <2>4. CASE CancelBusy(h)  BY <1>0, <2>4 DEF CancelBusy
  <2>5. CASE CancelMark(h)  BY <1>0, <2>5 DEF CancelMark, MarkCancelled, TargetsOf
  <2>6. ASSUME NEW b \in Batches, CancelBegin(h, b) PROVE ProcessType'
    BY <1>0, <2>6 DEF CancelBegin, ToCancel, TargetsOf
  <2> QED BY <1>5, <2>1, <2>2, <2>3, <2>4, <2>5, <2>6 DEF CancelStep
<1>6. ASSUME KillArm \/ KillStep PROVE ProcessType'
  <2>1. CASE KillArm  BY <1>0, <2>1 DEF KillArm, Killed
  <2>2. CASE KillClaim  BY <1>0, <2>2 DEF KillClaim
  <2>3. CASE KillMark  BY <1>0, <2>3 DEF KillMark
  <2> QED BY <1>6, <2>1, <2>2, <2>3 DEF KillStep
<1>7. CASE Crash  BY <1>0, <1>7 DEF Crash
<1>8. CASE Recover
  BY <1>0, <1>8 DEF Recover, RecoverSessions, RecoverBatch, Subject, Interrupted,
  Running
<1> QED BY <1>1, <1>2, <1>3, <1>4, <1>5, <1>6, <1>7, <1>8 DEF Next

\* of what the threads know,
LEMMA WorkTypeStep == ASSUME InspectionInv, Next PROVE WorkType'
<1> USE ThreadsAssumption, TargetsAssumption
    DEF disk, work, cancel, kill, bounds, At, Go, ControlAt, EndCancel, Taken,
        Threads, TypeOK, DiskType, ProcessType, WorkType, ControlType,
        ProposerKnows, SessionStatus, TERMINAL, VALID_REPORT, ActiveBatch,
        TERMINAL_BATCH_STATUSES
<1>0. TypeOK /\ ProposerKnows
  BY DEF InspectionInv
<1>1. ASSUME NEW b \in Batches, Create(b) \/ BatchThread(b) PROVE WorkType'
  <2>1. CASE Create(b)  BY <1>0, <2>1 DEF Create, Creatable
  <2>2. CASE RunStart(b)  BY <1>0, <2>2 DEF RunStart, TargetsOf
  <2>3. CASE RunFinish(b)
    BY <1>0, <2>3 DEF RunFinish, Finished, PoolDone, TargetsOf
  <2> QED BY <1>1, <2>1, <2>2, <2>3 DEF BatchThread
<1>2. ASSUME NEW s \in Sessions, Worker(s) PROVE WorkType'
  <2>1. CASE InspectSkip(s)  BY <1>0, <2>1 DEF InspectSkip
  <2>2. CASE InspectRefuse(s)
    BY <1>0, <2>2 DEF InspectRefuse, UpdateTarget, FailureStatus
  <2>3. CASE InspectClaim(s)  BY <1>0, <2>3 DEF InspectClaim, UpdateTarget
  <2>4. CASE InspectCreate(s)  BY <1>0, <2>4 DEF InspectCreate
  <2>5. CASE InspectCreateFails(s)
    BY <1>0, <2>5 DEF InspectCreateFails, UpdateTarget, FailureStatus
  <2>6. CASE InspectReport(s)  BY <1>0, <2>6 DEF InspectReport
  <2>7. CASE InspectFail(s)  BY <1>0, <2>7 DEF InspectFail, FailureStatus
  <2>8. CASE InspectPublish(s)  BY <1>0, <2>8 DEF InspectPublish, UpdateTarget
  <2> QED BY <1>2, <2>1, <2>2, <2>3, <2>4, <2>5, <2>6, <2>7, <2>8 DEF Worker
<1>3. ASSUME NEW t \in Threads, Run(t) \/ ChildExits(t) PROVE WorkType'
  <2>1. CASE SpawnEnter(t)  BY <1>0, <2>1 DEF SpawnEnter
  <2>2. CASE SpawnBusy(t)
    BY <1>0, <2>2, WhereRunsGo DEF SpawnBusy, EndRun, Unregister, Subject
  <2>3. CASE SpawnCheck(t)
    <3>1. CASE MaySpawn(t)
      BY <1>0, <2>3, <3>1 DEF SpawnCheck, MaySpawn, Subject, Killed
    <3>2. CASE ~MaySpawn(t)
      <4>1. PICK next \in After(t, "error") : Go(t, next)
        BY <2>3, <3>2 DEF SpawnCheck, EndRun
      <4> QED BY <1>0, <2>3, <3>2, <4>1, WhereRunsGo
        DEF SpawnCheck, EndRun, Unregister, Subject, Killed
    <3> QED BY <3>1, <3>2
  <2>4. CASE Register(t)
    <3>1. CASE MayRegister(t) /\ pc' = [pc EXCEPT ![t] = "streaming"]
      BY <1>0, <2>4, <3>1, WhereRunsGo
      DEF Register, EndRun, Unregister, Subject, MayRegister, Killed
    <3>2. CASE ~MayRegister(t)
      <4>1. PICK next \in After(t, "error") : Go(t, next)
        BY <2>4, <3>2 DEF Register, EndRun
      <4> QED BY <1>0, <2>4, <3>2, <4>1, WhereRunsGo
        DEF Register, EndRun, Unregister, Subject, Killed
    <3> QED BY <2>4, <3>1, <3>2 DEF Register
  <2>5. CASE RunEnds(t)
    <3>1. PICK o \in {"ok", "noreport", "error"} : EndRun(t, o)  BY <2>5 DEF RunEnds
    <3>2. PICK next \in After(t, o) : Go(t, next)  BY <3>1 DEF EndRun
    <3> QED BY <1>0, <2>5, <3>1, <3>2, WhereRunsGo
      DEF RunEnds, EndRun, Unregister, Subject, Killed, Killed
  <2>6. CASE ChildExits(t)  BY <1>0, <2>6 DEF ChildExits
  <2> QED BY <1>3, <2>1, <2>2, <2>3, <2>4, <2>5, <2>6 DEF Run
<1>4. ASSUME NEW p \in Proposers, Proposer(p) \/ \E s \in Sessions : ProposeRead(p, s)
      PROVE WorkType'
  <2>1. CASE ProposeClaim(p)  BY <1>0, <2>1 DEF ProposeClaim
  <2>2. CASE ProposeEnd(p)  BY <1>0, <2>2 DEF ProposeEnd
  <2>3. ASSUME NEW s \in Sessions, ProposeRead(p, s) PROVE WorkType'
    BY <1>0, <2>3 DEF ProposeRead
  <2> QED BY <1>4, <2>1, <2>2, <2>3 DEF Proposer
<1>5. ASSUME NEW h \in Cancellers, CancelStep(h) \/ \E b \in Batches : CancelBegin(h, b)
      PROVE WorkType'
  <2>1. ASSUME NEW s \in Sessions, CancelClaim(h, s) PROVE WorkType'
    <3>1. CASE status[s] \in ACTIVE_STATUSES
      <4>1. /\ cancelReq' = [cancelReq EXCEPT ![s] = TRUE] /\ cur' = [cur EXCEPT ![h] = s]
            /\ cpc' = [cpc EXCEPT ![h] = "killing"] /\ todo' = todo
        BY <2>1, <3>1 DEF CancelClaim
      <4> QED BY <1>0, <2>1, <4>1 DEF CancelClaim
    <3>2. CASE status[s] \notin ACTIVE_STATUSES
      BY <1>0, <2>1, <3>2 DEF CancelClaim, ACTIVE_STATUSES, Running
    <3> QED BY <3>1, <3>2
  <2>2. CASE CancelKill(h)  BY <1>0, <2>2 DEF CancelKill, Unregister, Killed
  <2>3. CASE CancelSeal(h)  BY <1>0, <2>3 DEF CancelSeal
  <2>4. CASE CancelBusy(h)  BY <1>0, <2>4 DEF CancelBusy
  <2>5. CASE CancelMark(h)  BY <1>0, <2>5 DEF CancelMark, MarkCancelled, TargetsOf
  <2>6. ASSUME NEW b \in Batches, CancelBegin(h, b) PROVE WorkType'
    BY <1>0, <2>6 DEF CancelBegin, ToCancel, TargetsOf
  <2> QED BY <1>5, <2>1, <2>2, <2>3, <2>4, <2>5, <2>6 DEF CancelStep
<1>6. ASSUME KillArm \/ KillStep PROVE WorkType'
  <2>1. CASE KillArm  BY <1>0, <2>1 DEF KillArm, Killed
  <2>2. CASE KillClaim  BY <1>0, <2>2 DEF KillClaim
  <2>3. CASE KillMark  BY <1>0, <2>3 DEF KillMark
  <2> QED BY <1>6, <2>1, <2>2, <2>3 DEF KillStep
<1>7. CASE Crash  BY <1>0, <1>7 DEF Crash
<1>8. CASE Recover
  BY <1>0, <1>8 DEF Recover, RecoverSessions, RecoverBatch, Subject, Interrupted,
  Running
<1> QED BY <1>1, <1>2, <1>3, <1>4, <1>5, <1>6, <1>7, <1>8 DEF Next

\* and of what the cancellers and the kill switch know.
LEMMA ControlTypeStep == ASSUME InspectionInv, Next PROVE ControlType'
<1> USE ThreadsAssumption, TargetsAssumption
    DEF disk, work, cancel, kill, bounds, At, Go, ControlAt, EndCancel, Taken,
        Threads, TypeOK, DiskType, ProcessType, WorkType, ControlType, CancelKnows,
        SessionStatus, TERMINAL, VALID_REPORT, ActiveBatch, TERMINAL_BATCH_STATUSES
<1>0. TypeOK /\ CancelKnows
  BY DEF InspectionInv
<1>1. ASSUME NEW b \in Batches, Create(b) \/ BatchThread(b) PROVE ControlType'
  <2>1. CASE Create(b)  BY <1>0, <2>1 DEF Create, Creatable
  <2>2. CASE RunStart(b)  BY <1>0, <2>2 DEF RunStart, TargetsOf
  <2>3. CASE RunFinish(b)
    BY <1>0, <2>3 DEF RunFinish, Finished, PoolDone, TargetsOf
  <2> QED BY <1>1, <2>1, <2>2, <2>3 DEF BatchThread
<1>2. ASSUME NEW s \in Sessions, Worker(s) PROVE ControlType'
  <2>1. CASE InspectSkip(s)  BY <1>0, <2>1 DEF InspectSkip
  <2>2. CASE InspectRefuse(s)
    BY <1>0, <2>2 DEF InspectRefuse, UpdateTarget, FailureStatus
  <2>3. CASE InspectClaim(s)  BY <1>0, <2>3 DEF InspectClaim, UpdateTarget
  <2>4. CASE InspectCreate(s)  BY <1>0, <2>4 DEF InspectCreate
  <2>5. CASE InspectCreateFails(s)
    BY <1>0, <2>5 DEF InspectCreateFails, UpdateTarget, FailureStatus
  <2>6. CASE InspectReport(s)  BY <1>0, <2>6 DEF InspectReport
  <2>7. CASE InspectFail(s)  BY <1>0, <2>7 DEF InspectFail, FailureStatus
  <2>8. CASE InspectPublish(s)  BY <1>0, <2>8 DEF InspectPublish, UpdateTarget
  <2> QED BY <1>2, <2>1, <2>2, <2>3, <2>4, <2>5, <2>6, <2>7, <2>8 DEF Worker
<1>3. ASSUME NEW t \in Threads, Run(t) \/ ChildExits(t) PROVE ControlType'
  <2>1. CASE SpawnEnter(t)  BY <1>0, <2>1 DEF SpawnEnter
  <2>2. CASE SpawnBusy(t)
    BY <1>0, <2>2, WhereRunsGo DEF SpawnBusy, EndRun, Unregister, Subject
  <2>3. CASE SpawnCheck(t)
    <3>1. CASE MaySpawn(t)
      BY <1>0, <2>3, <3>1 DEF SpawnCheck, MaySpawn, Subject, Killed
    <3>2. CASE ~MaySpawn(t)
      <4>1. PICK next \in After(t, "error") : Go(t, next)
        BY <2>3, <3>2 DEF SpawnCheck, EndRun
      <4> QED BY <1>0, <2>3, <3>2, <4>1, WhereRunsGo
        DEF SpawnCheck, EndRun, Unregister, Subject, Killed
    <3> QED BY <3>1, <3>2
  <2>4. CASE Register(t)
    <3>1. CASE MayRegister(t) /\ pc' = [pc EXCEPT ![t] = "streaming"]
      BY <1>0, <2>4, <3>1, WhereRunsGo
      DEF Register, EndRun, Unregister, Subject, MayRegister, Killed
    <3>2. CASE ~MayRegister(t)
      <4>1. PICK next \in After(t, "error") : Go(t, next)
        BY <2>4, <3>2 DEF Register, EndRun
      <4> QED BY <1>0, <2>4, <3>2, <4>1, WhereRunsGo
        DEF Register, EndRun, Unregister, Subject, Killed
    <3> QED BY <2>4, <3>1, <3>2 DEF Register
  <2>5. CASE RunEnds(t)
    <3>1. PICK o \in {"ok", "noreport", "error"} : EndRun(t, o)  BY <2>5 DEF RunEnds
    <3>2. PICK next \in After(t, o) : Go(t, next)  BY <3>1 DEF EndRun
    <3> QED BY <1>0, <2>5, <3>1, <3>2, WhereRunsGo
      DEF RunEnds, EndRun, Unregister, Subject, Killed, Killed
  <2>6. CASE ChildExits(t)  BY <1>0, <2>6 DEF ChildExits
  <2> QED BY <1>3, <2>1, <2>2, <2>3, <2>4, <2>5, <2>6 DEF Run
<1>4. ASSUME NEW p \in Proposers, Proposer(p) \/ \E s \in Sessions : ProposeRead(p, s)
      PROVE ControlType'
  <2>1. CASE ProposeClaim(p)  BY <1>0, <2>1 DEF ProposeClaim
  <2>2. CASE ProposeEnd(p)  BY <1>0, <2>2 DEF ProposeEnd
  <2>3. ASSUME NEW s \in Sessions, ProposeRead(p, s) PROVE ControlType'
    BY <1>0, <2>3 DEF ProposeRead
  <2> QED BY <1>4, <2>1, <2>2, <2>3 DEF Proposer
<1>5. ASSUME NEW h \in Cancellers, CancelStep(h) \/ \E b \in Batches : CancelBegin(h, b)
      PROVE ControlType'
  <2>1. ASSUME NEW s \in Sessions, CancelClaim(h, s) PROVE ControlType'
    <3>1. CASE status[s] \in ACTIVE_STATUSES
      <4>1. /\ cancelReq' = [cancelReq EXCEPT ![s] = TRUE] /\ cur' = [cur EXCEPT ![h] = s]
            /\ cpc' = [cpc EXCEPT ![h] = "killing"] /\ todo' = todo
        BY <2>1, <3>1 DEF CancelClaim
      <4> QED BY <1>0, <2>1, <4>1 DEF CancelClaim
    <3>2. CASE status[s] \notin ACTIVE_STATUSES
      BY <1>0, <2>1, <3>2 DEF CancelClaim, ACTIVE_STATUSES, Running
    <3> QED BY <3>1, <3>2
  <2>2. CASE CancelKill(h)  BY <1>0, <2>2 DEF CancelKill, Unregister, Killed
  <2>3. CASE CancelSeal(h)  BY <1>0, <2>3 DEF CancelSeal
  <2>4. CASE CancelBusy(h)  BY <1>0, <2>4 DEF CancelBusy
  <2>5. CASE CancelMark(h)  BY <1>0, <2>5 DEF CancelMark, MarkCancelled, TargetsOf
  <2>6. ASSUME NEW b \in Batches, CancelBegin(h, b) PROVE ControlType'
    BY <1>0, <2>6 DEF CancelBegin, ToCancel, TargetsOf
  <2> QED BY <1>5, <2>1, <2>2, <2>3, <2>4, <2>5, <2>6 DEF CancelStep
<1>6. ASSUME KillArm \/ KillStep PROVE ControlType'
  <2>1. CASE KillArm  BY <1>0, <2>1 DEF KillArm, Killed
  <2>2. CASE KillClaim  BY <1>0, <2>2 DEF KillClaim
  <2>3. CASE KillMark  BY <1>0, <2>3 DEF KillMark
  <2> QED BY <1>6, <2>1, <2>2, <2>3 DEF KillStep
<1>7. CASE Crash  BY <1>0, <1>7 DEF Crash
<1>8. CASE Recover
  BY <1>0, <1>8 DEF Recover, RecoverSessions, RecoverBatch, Subject, Interrupted,
  Running
<1> QED BY <1>1, <1>2, <1>3, <1>4, <1>5, <1>6, <1>7, <1>8 DEF Next

-----------------------------------------------------------------------------
(* Locks, batches and workers.                                             *)

\* The gate is taken and given up with the pcs that hold it.
LEMMA GateKnowsStep == ASSUME InspectionInv, Next PROVE GateKnows'
<1> USE ThreadsAssumption, TargetsAssumption
    DEF disk, work, cancel, kill, bounds, At, Go, ControlAt, EndCancel, Taken,
        Threads, TypeOK, DiskType, ProcessType, WorkType, ControlType, GateKnows,
        BatchKnows
<1>0. TypeOK /\ GateKnows /\ BatchKnows
  BY DEF InspectionInv
<1>1. ASSUME NEW b \in Batches, Create(b) \/ BatchThread(b) PROVE GateKnows'
  <2>1. CASE Create(b)  BY <1>0, <2>1 DEF Create, Creatable
  <2>2. CASE RunStart(b)  BY <1>0, <2>2 DEF RunStart, TargetsOf
  <2>3. CASE RunFinish(b)
    BY <1>0, <2>3 DEF RunFinish, Finished, PoolDone, TargetsOf
  <2> QED BY <1>1, <2>1, <2>2, <2>3 DEF BatchThread
<1>2. ASSUME NEW s \in Sessions, Worker(s) PROVE GateKnows'
  <2>1. CASE InspectSkip(s)  BY <1>0, <2>1 DEF InspectSkip
  <2>2. CASE InspectRefuse(s)
    BY <1>0, <2>2 DEF InspectRefuse, UpdateTarget, FailureStatus
  <2>3. CASE InspectClaim(s)  BY <1>0, <2>3 DEF InspectClaim, UpdateTarget
  <2>4. CASE InspectCreate(s)  BY <1>0, <2>4 DEF InspectCreate
  <2>5. CASE InspectCreateFails(s)
    BY <1>0, <2>5 DEF InspectCreateFails, UpdateTarget, FailureStatus
  <2>6. CASE InspectReport(s)  BY <1>0, <2>6 DEF InspectReport
  <2>7. CASE InspectFail(s)  BY <1>0, <2>7 DEF InspectFail, FailureStatus
  <2>8. CASE InspectPublish(s)  BY <1>0, <2>8 DEF InspectPublish, UpdateTarget
  <2> QED BY <1>2, <2>1, <2>2, <2>3, <2>4, <2>5, <2>6, <2>7, <2>8 DEF Worker
<1>3. ASSUME NEW t \in Threads, Run(t) \/ ChildExits(t) PROVE GateKnows'
  <2>1. CASE SpawnEnter(t)  BY <1>0, <2>1 DEF SpawnEnter
  <2>2. CASE SpawnBusy(t)
    <3>1. PICK next \in After(t, "error") : Go(t, next)
      BY <2>2 DEF SpawnBusy, EndRun
    <3> QED BY <1>0, <2>2, <3>1, WhereRunsGo
      DEF SpawnBusy, EndRun, Unregister, Subject
  <2>3. CASE SpawnCheck(t)
    BY <1>0, <2>3, WhereRunsGo DEF SpawnCheck, EndRun, Unregister, Subject, MaySpawn
  <2>4. CASE Register(t)
    BY SMTT(30), <1>0, <2>4, WhereRunsGo
    DEF Register, EndRun, Unregister, Subject, MayRegister
  <2>5. CASE RunEnds(t)
    BY SMTT(30), <1>0, <2>5, WhereRunsGo DEF RunEnds, EndRun, Unregister, Subject, Killed
  <2>6. CASE ChildExits(t)  BY <1>0, <2>6 DEF ChildExits
  <2> QED BY <1>3, <2>1, <2>2, <2>3, <2>4, <2>5, <2>6 DEF Run
<1>4. ASSUME NEW p \in Proposers, Proposer(p) \/ \E s \in Sessions : ProposeRead(p, s)
      PROVE GateKnows'
  <2>1. CASE ProposeClaim(p)  BY <1>0, <2>1 DEF ProposeClaim
  <2>2. CASE ProposeEnd(p)  BY <1>0, <2>2 DEF ProposeEnd
  <2>3. ASSUME NEW s \in Sessions, ProposeRead(p, s) PROVE GateKnows'
    BY <1>0, <2>3 DEF ProposeRead
  <2> QED BY <1>4, <2>1, <2>2, <2>3 DEF Proposer
<1>5. ASSUME NEW h \in Cancellers, CancelStep(h) \/ \E b \in Batches : CancelBegin(h, b)
      PROVE GateKnows'
  <2>1. ASSUME NEW s \in Sessions, CancelClaim(h, s) PROVE GateKnows'
    BY <1>0, <2>1 DEF CancelClaim, ACTIVE_STATUSES, Running
  <2>2. CASE CancelKill(h)  BY <1>0, <2>2 DEF CancelKill, Unregister, Killed
  <2>3. CASE CancelSeal(h)  BY <1>0, <2>3 DEF CancelSeal
  <2>4. CASE CancelBusy(h)  BY <1>0, <2>4 DEF CancelBusy
  <2>5. CASE CancelMark(h)  BY <1>0, <2>5 DEF CancelMark, MarkCancelled, TargetsOf
  <2>6. ASSUME NEW b \in Batches, CancelBegin(h, b) PROVE GateKnows'
    BY <1>0, <2>6 DEF CancelBegin, ToCancel, TargetsOf
  <2> QED BY <1>5, <2>1, <2>2, <2>3, <2>4, <2>5, <2>6 DEF CancelStep
<1>6. ASSUME KillArm \/ KillStep PROVE GateKnows'
  <2>1. CASE KillArm  BY <1>0, <2>1 DEF KillArm, Killed
  <2>2. CASE KillClaim  BY <1>0, <2>2 DEF KillClaim
  <2>3. CASE KillMark  BY <1>0, <2>3 DEF KillMark
  <2> QED BY <1>6, <2>1, <2>2, <2>3 DEF KillStep
<1>7. CASE Crash  BY <1>0, <1>7 DEF Crash
<1>8. CASE Recover
  BY <1>0, <1>8 DEF Recover, RecoverSessions, RecoverBatch, Subject, Interrupted,
  Running
<1> QED BY <1>1, <1>2, <1>3, <1>4, <1>5, <1>6, <1>7, <1>8 DEF Next

\* So is the lifecycle gate.
LEMMA LifecycleKnowsStep == ASSUME InspectionInv, Next PROVE LifecycleKnows'
<1> USE ThreadsAssumption, TargetsAssumption
    DEF disk, work, cancel, kill, bounds, At, Go, ControlAt, EndCancel, Taken,
        Threads, TypeOK, DiskType, ProcessType, WorkType, ControlType,
        LifecycleKnows, BatchKnows
<1>0. TypeOK /\ LifecycleKnows /\ BatchKnows
  BY DEF InspectionInv
<1>1. ASSUME NEW b \in Batches, Create(b) \/ BatchThread(b) PROVE LifecycleKnows'
  <2>1. CASE Create(b)  BY <1>0, <2>1 DEF Create, Creatable
  <2>2. CASE RunStart(b)  BY <1>0, <2>2 DEF RunStart, TargetsOf
  <2>3. CASE RunFinish(b)
    BY <1>0, <2>3 DEF RunFinish, Finished, PoolDone, TargetsOf
  <2> QED BY <1>1, <2>1, <2>2, <2>3 DEF BatchThread
<1>2. ASSUME NEW s \in Sessions, Worker(s) PROVE LifecycleKnows'
  <2>1. CASE InspectSkip(s)  BY <1>0, <2>1 DEF InspectSkip
  <2>2. CASE InspectRefuse(s)
    BY <1>0, <2>2 DEF InspectRefuse, UpdateTarget, FailureStatus
  <2>3. CASE InspectClaim(s)  BY <1>0, <2>3 DEF InspectClaim, UpdateTarget
  <2>4. CASE InspectCreate(s)  BY <1>0, <2>4 DEF InspectCreate
  <2>5. CASE InspectCreateFails(s)
    BY <1>0, <2>5 DEF InspectCreateFails, UpdateTarget, FailureStatus
  <2>6. CASE InspectReport(s)  BY <1>0, <2>6 DEF InspectReport
  <2>7. CASE InspectFail(s)  BY <1>0, <2>7 DEF InspectFail, FailureStatus
  <2>8. CASE InspectPublish(s)  BY <1>0, <2>8 DEF InspectPublish, UpdateTarget
  <2> QED BY <1>2, <2>1, <2>2, <2>3, <2>4, <2>5, <2>6, <2>7, <2>8 DEF Worker
<1>3. ASSUME NEW t \in Threads, Run(t) \/ ChildExits(t) PROVE LifecycleKnows'
  <2>1. CASE SpawnEnter(t)  BY <1>0, <2>1 DEF SpawnEnter
  <2>2. CASE SpawnBusy(t)
    BY <1>0, <2>2, WhereRunsGo DEF SpawnBusy, EndRun, Unregister, Subject
  <2>3. CASE SpawnCheck(t)
    <3>1. CASE MaySpawn(t)
      BY <1>0, <2>3, <3>1 DEF SpawnCheck, MaySpawn, Subject
    <3>2. CASE ~MaySpawn(t)
      <4>1. PICK next \in After(t, "error") : Go(t, next)
        BY <2>3, <3>2 DEF SpawnCheck, EndRun
      <4> QED BY SMTT(30), <1>0, <2>3, <3>2, <4>1, WhereRunsGo
        DEF SpawnCheck, EndRun, Unregister, Subject
    <3> QED BY <3>1, <3>2
  <2>4. CASE Register(t)
    BY SMTT(30), <1>0, <2>4, WhereRunsGo
    DEF Register, EndRun, Unregister, Subject, MayRegister
  <2>5. CASE RunEnds(t)
    BY SMTT(30), <1>0, <2>5, WhereRunsGo DEF RunEnds, EndRun, Unregister, Subject, Killed
  <2>6. CASE ChildExits(t)  BY <1>0, <2>6 DEF ChildExits
  <2> QED BY <1>3, <2>1, <2>2, <2>3, <2>4, <2>5, <2>6 DEF Run
<1>4. ASSUME NEW p \in Proposers, Proposer(p) \/ \E s \in Sessions : ProposeRead(p, s)
      PROVE LifecycleKnows'
  <2>1. CASE ProposeClaim(p)  BY <1>0, <2>1 DEF ProposeClaim
  <2>2. CASE ProposeEnd(p)  BY <1>0, <2>2 DEF ProposeEnd
  <2>3. ASSUME NEW s \in Sessions, ProposeRead(p, s) PROVE LifecycleKnows'
    BY <1>0, <2>3 DEF ProposeRead
  <2> QED BY <1>4, <2>1, <2>2, <2>3 DEF Proposer
<1>5. ASSUME NEW h \in Cancellers, CancelStep(h) \/ \E b \in Batches : CancelBegin(h, b)
      PROVE LifecycleKnows'
  <2>1. ASSUME NEW s \in Sessions, CancelClaim(h, s) PROVE LifecycleKnows'
    BY <1>0, <2>1 DEF CancelClaim, ACTIVE_STATUSES, Running
  <2>2. CASE CancelKill(h)  BY <1>0, <2>2 DEF CancelKill, Unregister, Killed
  <2>3. CASE CancelSeal(h)  BY <1>0, <2>3 DEF CancelSeal
  <2>4. CASE CancelBusy(h)  BY <1>0, <2>4 DEF CancelBusy
  <2>5. CASE CancelMark(h)  BY <1>0, <2>5 DEF CancelMark, MarkCancelled, TargetsOf
  <2>6. ASSUME NEW b \in Batches, CancelBegin(h, b) PROVE LifecycleKnows'
    BY <1>0, <2>6 DEF CancelBegin, ToCancel, TargetsOf
  <2> QED BY <1>5, <2>1, <2>2, <2>3, <2>4, <2>5, <2>6 DEF CancelStep
<1>6. ASSUME KillArm \/ KillStep PROVE LifecycleKnows'
  <2>1. CASE KillArm  BY <1>0, <2>1 DEF KillArm, Killed
  <2>2. CASE KillClaim  BY <1>0, <2>2 DEF KillClaim
  <2>3. CASE KillMark  BY <1>0, <2>3 DEF KillMark
  <2> QED BY <1>6, <2>1, <2>2, <2>3 DEF KillStep
<1>7. CASE Crash  BY <1>0, <1>7 DEF Crash
<1>8. CASE Recover
  BY <1>0, <1>8 DEF Recover, RecoverSessions, RecoverBatch, Subject, Interrupted,
  Running
<1> QED BY <1>1, <1>2, <1>3, <1>4, <1>5, <1>6, <1>7, <1>8 DEF Next

\* Whoever takes a step other than recovery is in a live runner.
LEMMA DownKnowsStep == ASSUME InspectionInv, Next PROVE DownKnows'
<1> USE ThreadsAssumption, TargetsAssumption
    DEF disk, work, cancel, kill, bounds, At, Go, ControlAt, EndCancel, Taken,
        Threads, TypeOK, DiskType, ProcessType, WorkType, ControlType, DownKnows
<1>0. TypeOK /\ DownKnows
  BY DEF InspectionInv
<1>1. ASSUME NEW b \in Batches, Create(b) \/ BatchThread(b) PROVE DownKnows'
  <2>1. CASE Create(b)  BY <1>0, <2>1 DEF Create, Creatable
  <2>2. CASE RunStart(b)  BY <1>0, <2>2 DEF RunStart, TargetsOf
  <2>3. CASE RunFinish(b)
    BY <1>0, <2>3 DEF RunFinish, Finished, PoolDone, TargetsOf
  <2> QED BY <1>1, <2>1, <2>2, <2>3 DEF BatchThread
<1>2. ASSUME NEW s \in Sessions, Worker(s) PROVE DownKnows'
  <2>1. CASE InspectSkip(s)  BY <1>0, <2>1 DEF InspectSkip
  <2>2. CASE InspectRefuse(s)
    BY <1>0, <2>2 DEF InspectRefuse, UpdateTarget, FailureStatus
  <2>3. CASE InspectClaim(s)  BY <1>0, <2>3 DEF InspectClaim, UpdateTarget
  <2>4. CASE InspectCreate(s)  BY <1>0, <2>4 DEF InspectCreate
  <2>5. CASE InspectCreateFails(s)
    BY <1>0, <2>5 DEF InspectCreateFails, UpdateTarget, FailureStatus
  <2>6. CASE InspectReport(s)  BY <1>0, <2>6 DEF InspectReport
  <2>7. CASE InspectFail(s)  BY <1>0, <2>7 DEF InspectFail, FailureStatus
  <2>8. CASE InspectPublish(s)  BY <1>0, <2>8 DEF InspectPublish, UpdateTarget
  <2> QED BY <1>2, <2>1, <2>2, <2>3, <2>4, <2>5, <2>6, <2>7, <2>8 DEF Worker
<1>3. ASSUME NEW t \in Threads, Run(t) \/ ChildExits(t) PROVE DownKnows'
  <2>1. CASE SpawnEnter(t)  BY <1>0, <2>1 DEF SpawnEnter
  <2>2. CASE SpawnBusy(t)
    BY <1>0, <2>2, WhereRunsGo DEF SpawnBusy, EndRun, Unregister, Subject
  <2>3. CASE SpawnCheck(t)
    BY <1>0, <2>3, WhereRunsGo DEF SpawnCheck, EndRun, Unregister, Subject, MaySpawn
  <2>4. CASE Register(t)
    BY <1>0, <2>4, WhereRunsGo
    DEF Register, EndRun, Unregister, Subject, MayRegister
  <2>5. CASE RunEnds(t)
    BY <1>0, <2>5, WhereRunsGo DEF RunEnds, EndRun, Unregister, Subject, Killed
  <2>6. CASE ChildExits(t)  BY <1>0, <2>6 DEF ChildExits
  <2> QED BY <1>3, <2>1, <2>2, <2>3, <2>4, <2>5, <2>6 DEF Run
<1>4. ASSUME NEW p \in Proposers, Proposer(p) \/ \E s \in Sessions : ProposeRead(p, s)
      PROVE DownKnows'
  <2>1. CASE ProposeClaim(p)  BY <1>0, <2>1 DEF ProposeClaim
  <2>2. CASE ProposeEnd(p)  BY <1>0, <2>2 DEF ProposeEnd
  <2>3. ASSUME NEW s \in Sessions, ProposeRead(p, s) PROVE DownKnows'
    BY <1>0, <2>3 DEF ProposeRead
  <2> QED BY <1>4, <2>1, <2>2, <2>3 DEF Proposer
<1>5. ASSUME NEW h \in Cancellers, CancelStep(h) \/ \E b \in Batches : CancelBegin(h, b)
      PROVE DownKnows'
  <2>1. ASSUME NEW s \in Sessions, CancelClaim(h, s) PROVE DownKnows'
    BY <1>0, <2>1 DEF CancelClaim, ACTIVE_STATUSES, Running
  <2>2. CASE CancelKill(h)  BY <1>0, <2>2 DEF CancelKill, Unregister, Killed
  <2>3. CASE CancelSeal(h)  BY <1>0, <2>3 DEF CancelSeal
  <2>4. CASE CancelBusy(h)  BY <1>0, <2>4 DEF CancelBusy
  <2>5. CASE CancelMark(h)  BY <1>0, <2>5 DEF CancelMark, MarkCancelled, TargetsOf
  <2>6. ASSUME NEW b \in Batches, CancelBegin(h, b) PROVE DownKnows'
    BY <1>0, <2>6 DEF CancelBegin, ToCancel, TargetsOf
  <2> QED BY <1>5, <2>1, <2>2, <2>3, <2>4, <2>5, <2>6 DEF CancelStep
<1>6. ASSUME KillArm \/ KillStep PROVE DownKnows'
  <2>1. CASE KillArm  BY <1>0, <2>1 DEF KillArm, Killed
  <2>2. CASE KillClaim  BY <1>0, <2>2 DEF KillClaim
  <2>3. CASE KillMark  BY <1>0, <2>3 DEF KillMark
  <2> QED BY <1>6, <2>1, <2>2, <2>3 DEF KillStep
<1>7. CASE Crash  BY <1>0, <1>7 DEF Crash
<1>8. CASE Recover
  BY <1>0, <1>8 DEF Recover, RecoverSessions, RecoverBatch, Subject, Interrupted,
  Running
<1> QED BY <1>1, <1>2, <1>3, <1>4, <1>5, <1>6, <1>7, <1>8 DEF Next

\* A batch hands out its targets once and gets every one back.
LEMMA BatchKnowsStep == ASSUME InspectionInv, Next PROVE BatchKnows'
<1> USE ThreadsAssumption, TargetsAssumption
    DEF disk, work, cancel, kill, bounds, At, Go, ControlAt, EndCancel, Taken,
        Threads, TypeOK, DiskType, ProcessType, WorkType, ControlType, BatchKnows,
        WorkerKnows, CancelKnows, DownKnows, FailureStatus, TERMINAL, VALID_REPORT,
        ActiveBatch, TERMINAL_BATCH_STATUSES
<1>0. TypeOK /\ BatchKnows /\ WorkerKnows /\ CancelKnows /\ DownKnows
  BY DEF InspectionInv
<1>1. ASSUME NEW b \in Batches, Create(b) \/ BatchThread(b) PROVE BatchKnows'
  <2>1. CASE Create(b)  BY <1>0, <2>1 DEF Create, Creatable
  <2>2. CASE RunStart(b)  BY <1>0, <2>2 DEF RunStart, TargetsOf
  <2>3. CASE RunFinish(b)
    BY <1>0, <2>3 DEF RunFinish, Finished, PoolDone, TargetsOf
  <2> QED BY <1>1, <2>1, <2>2, <2>3 DEF BatchThread
<1>2. ASSUME NEW s \in Sessions, Worker(s) PROVE BatchKnows'
  <2>1. CASE InspectSkip(s)  BY <1>0, <2>1 DEF InspectSkip
  <2>2. CASE InspectRefuse(s)
    BY <1>0, <2>2 DEF InspectRefuse, UpdateTarget, FailureStatus
  <2>3. CASE InspectClaim(s)  BY <1>0, <2>3 DEF InspectClaim, UpdateTarget
  <2>4. CASE InspectCreate(s)  BY <1>0, <2>4 DEF InspectCreate
  <2>5. CASE InspectCreateFails(s)
    BY <1>0, <2>5 DEF InspectCreateFails, UpdateTarget, FailureStatus
  <2>6. CASE InspectReport(s)  BY <1>0, <2>6 DEF InspectReport
  <2>7. CASE InspectFail(s)  BY <1>0, <2>7 DEF InspectFail, FailureStatus
  <2>8. CASE InspectPublish(s)  BY <1>0, <2>8 DEF InspectPublish, UpdateTarget
  <2> QED BY <1>2, <2>1, <2>2, <2>3, <2>4, <2>5, <2>6, <2>7, <2>8 DEF Worker
<1>3. ASSUME NEW t \in Threads, Run(t) \/ ChildExits(t) PROVE BatchKnows'
  <2>1. CASE SpawnEnter(t)  BY <1>0, <2>1 DEF SpawnEnter
  <2>2. CASE SpawnBusy(t)
    BY <1>0, <2>2, WhereRunsGo DEF SpawnBusy, EndRun, Unregister, Subject
  <2>3. CASE SpawnCheck(t)
    <3>1. CASE MaySpawn(t)
      BY <1>0, <2>3, <3>1 DEF SpawnCheck, MaySpawn, Subject
    <3>2. CASE ~MaySpawn(t)
      <4>1. PICK next \in After(t, "error") : Go(t, next)
        BY <2>3, <3>2 DEF SpawnCheck, EndRun
      <4> QED BY <1>0, <2>3, <3>2, <4>1, WhereRunsGo
        DEF SpawnCheck, EndRun, Unregister, Subject
    <3> QED BY <3>1, <3>2
  <2>4. CASE Register(t)
    <3>1. CASE MayRegister(t) /\ pc' = [pc EXCEPT ![t] = "streaming"]
      BY <1>0, <2>4, <3>1, WhereRunsGo
      DEF Register, EndRun, Unregister, Subject, MayRegister
    <3>2. CASE ~MayRegister(t)
      <4>1. PICK next \in After(t, "error") : Go(t, next)
        BY <2>4, <3>2 DEF Register, EndRun
      <4> QED BY <1>0, <2>4, <3>2, <4>1, WhereRunsGo
        DEF Register, EndRun, Unregister, Subject
    <3> QED BY <2>4, <3>1, <3>2 DEF Register
  <2>5. CASE RunEnds(t)
    BY SMTT(30), <1>0, <2>5, WhereRunsGo DEF RunEnds, EndRun, Unregister, Subject, Killed
  <2>6. CASE ChildExits(t)  BY <1>0, <2>6 DEF ChildExits
  <2> QED BY <1>3, <2>1, <2>2, <2>3, <2>4, <2>5, <2>6 DEF Run
<1>4. ASSUME NEW p \in Proposers, Proposer(p) \/ \E s \in Sessions : ProposeRead(p, s)
      PROVE BatchKnows'
  <2>1. CASE ProposeClaim(p)  BY <1>0, <2>1 DEF ProposeClaim
  <2>2. CASE ProposeEnd(p)  BY <1>0, <2>2 DEF ProposeEnd
  <2>3. ASSUME NEW s \in Sessions, ProposeRead(p, s) PROVE BatchKnows'
    BY <1>0, <2>3 DEF ProposeRead
  <2> QED BY <1>4, <2>1, <2>2, <2>3 DEF Proposer
<1>5. ASSUME NEW h \in Cancellers, CancelStep(h) \/ \E b \in Batches : CancelBegin(h, b)
      PROVE BatchKnows'
  <2>1. ASSUME NEW s \in Sessions, CancelClaim(h, s) PROVE BatchKnows'
    BY <1>0, <2>1 DEF CancelClaim, ACTIVE_STATUSES, Running
  <2>2. CASE CancelKill(h)  BY <1>0, <2>2 DEF CancelKill, Unregister, Killed
  <2>3. CASE CancelSeal(h)  BY <1>0, <2>3 DEF CancelSeal
  <2>4. CASE CancelBusy(h)  BY <1>0, <2>4 DEF CancelBusy
  <2>5. CASE CancelMark(h)  BY <1>0, <2>5 DEF CancelMark, MarkCancelled, TargetsOf
  <2>6. ASSUME NEW b \in Batches, CancelBegin(h, b) PROVE BatchKnows'
    BY <1>0, <2>6 DEF CancelBegin, ToCancel, TargetsOf
  <2> QED BY <1>5, <2>1, <2>2, <2>3, <2>4, <2>5, <2>6 DEF CancelStep
<1>6. ASSUME KillArm \/ KillStep PROVE BatchKnows'
  <2>1. CASE KillArm  BY <1>0, <2>1 DEF KillArm, Killed
  <2>2. CASE KillClaim  BY <1>0, <2>2 DEF KillClaim
  <2>3. CASE KillMark  BY <1>0, <2>3 DEF KillMark
  <2> QED BY <1>6, <2>1, <2>2, <2>3 DEF KillStep
<1>7. CASE Crash  BY <1>0, <1>7 DEF Crash
<1>8. CASE Recover
  BY <1>0, <1>8 DEF Recover, RecoverSessions, RecoverBatch, Subject, Interrupted,
  Running
<1> QED BY <1>1, <1>2, <1>3, <1>4, <1>5, <1>6, <1>7, <1>8 DEF Next

\* Nobody but its worker moves a target that is being inspected, except to cancel
\* it.
LEMMA WorkerKnowsStep == ASSUME InspectionInv, Next PROVE WorkerKnows'
<1> USE ThreadsAssumption, TargetsAssumption
    DEF disk, work, cancel, kill, bounds, At, Go, ControlAt, EndCancel, Taken,
        Threads, TypeOK, DiskType, ProcessType, WorkType, ControlType, WorkerKnows,
        BatchKnows, CancelKnows, GateKnows, DownKnows, KillKnows, TERMINAL,
        VALID_REPORT, ActiveBatch, TERMINAL_BATCH_STATUSES
<1>0. TypeOK /\ WorkerKnows /\ BatchKnows /\ CancelKnows /\ GateKnows /\ DownKnows
      /\ KillKnows
  BY DEF InspectionInv
<1>1. ASSUME NEW b \in Batches, Create(b) \/ BatchThread(b) PROVE WorkerKnows'
  <2>1. CASE Create(b)  BY <1>0, <2>1 DEF Create, Creatable
  <2>2. CASE RunStart(b)  BY <1>0, <2>2 DEF RunStart, TargetsOf
  <2>3. CASE RunFinish(b)
    BY <1>0, <2>3 DEF RunFinish, Finished, PoolDone, TargetsOf
  <2> QED BY <1>1, <2>1, <2>2, <2>3 DEF BatchThread
<1>2. ASSUME NEW s \in Sessions, Worker(s) PROVE WorkerKnows'
  <2>1. CASE InspectSkip(s)  BY <1>0, <2>1 DEF InspectSkip
  <2>2. CASE InspectRefuse(s)
    BY <1>0, <2>2 DEF InspectRefuse, UpdateTarget, FailureStatus
  <2>3. CASE InspectClaim(s)  BY <1>0, <2>3 DEF InspectClaim, UpdateTarget
  <2>4. CASE InspectCreate(s)  BY <1>0, <2>4 DEF InspectCreate
  <2>5. CASE InspectCreateFails(s)
    BY <1>0, <2>5 DEF InspectCreateFails, UpdateTarget, FailureStatus
  <2>6. CASE InspectReport(s)  BY <1>0, <2>6 DEF InspectReport
  <2>7. CASE InspectFail(s)  BY <1>0, <2>7 DEF InspectFail, FailureStatus
  <2>8. CASE InspectPublish(s)  BY <1>0, <2>8 DEF InspectPublish, UpdateTarget
  <2> QED BY <1>2, <2>1, <2>2, <2>3, <2>4, <2>5, <2>6, <2>7, <2>8 DEF Worker
<1>3. ASSUME NEW t \in Threads, Run(t) \/ ChildExits(t) PROVE WorkerKnows'
  <2>1. CASE SpawnEnter(t)  BY <1>0, <2>1 DEF SpawnEnter
  <2>2. CASE SpawnBusy(t)
    BY <1>0, <2>2, WhereRunsGo DEF SpawnBusy, EndRun, Unregister, Subject
  <2>3. CASE SpawnCheck(t)
    BY SMTT(30), <1>0, <2>3, WhereRunsGo DEF SpawnCheck, EndRun, Unregister, Subject, MaySpawn
  <2>4. CASE Register(t)
    <3>1. CASE MayRegister(t) /\ pc' = [pc EXCEPT ![t] = "streaming"]
      BY <1>0, <2>4, <3>1, WhereRunsGo
      DEF Register, EndRun, Unregister, Subject, MayRegister
    <3>2. CASE ~MayRegister(t)
      <4>1. PICK next \in After(t, "error") : Go(t, next)
        BY <2>4, <3>2 DEF Register, EndRun
      <4>2. /\ next \in {"spawning", "reporting", "fallback", "failing", "proposing"}
            /\ t \notin Proposers => next # "proposing"
        BY <4>1, WhereRunsGo
      <4>3. pc' = [pc EXCEPT ![t] = next]  BY <4>1
      <4> QED BY <1>0, <2>4, <4>2, <4>3 DEF Register
    <3> QED BY <2>4, <3>1, <3>2 DEF Register
  <2>5. CASE RunEnds(t)
    <3>1. PICK o \in {"ok", "noreport", "error"} : EndRun(t, o)  BY <2>5 DEF RunEnds
    <3>2. PICK next \in After(t, o) : Go(t, next)  BY <3>1 DEF EndRun
    <3> QED BY SMTT(30), <1>0, <2>5, <3>1, <3>2, WhereRunsGo
      DEF RunEnds, EndRun, Unregister, Subject, Killed
  <2>6. CASE ChildExits(t)  BY <1>0, <2>6 DEF ChildExits
  <2> QED BY <1>3, <2>1, <2>2, <2>3, <2>4, <2>5, <2>6 DEF Run
<1>4. ASSUME NEW p \in Proposers, Proposer(p) \/ \E s \in Sessions : ProposeRead(p, s)
      PROVE WorkerKnows'
  <2>1. CASE ProposeClaim(p)  BY <1>0, <2>1 DEF ProposeClaim
  <2>2. CASE ProposeEnd(p)  BY <1>0, <2>2 DEF ProposeEnd
  <2>3. ASSUME NEW s \in Sessions, ProposeRead(p, s) PROVE WorkerKnows'
    BY <1>0, <2>3 DEF ProposeRead
  <2> QED BY <1>4, <2>1, <2>2, <2>3 DEF Proposer
<1>5. ASSUME NEW h \in Cancellers, CancelStep(h) \/ \E b \in Batches : CancelBegin(h, b)
      PROVE WorkerKnows'
  <2>1. ASSUME NEW s \in Sessions, CancelClaim(h, s) PROVE WorkerKnows'
    BY <1>0, <2>1 DEF CancelClaim, ACTIVE_STATUSES, Running
  <2>2. CASE CancelKill(h)  BY <1>0, <2>2 DEF CancelKill, Unregister, Killed
  <2>3. CASE CancelSeal(h)  BY <1>0, <2>3 DEF CancelSeal
  <2>4. CASE CancelBusy(h)  BY <1>0, <2>4 DEF CancelBusy
  <2>5. CASE CancelMark(h)  BY <1>0, <2>5 DEF CancelMark, MarkCancelled, TargetsOf
  <2>6. ASSUME NEW b \in Batches, CancelBegin(h, b) PROVE WorkerKnows'
    BY <1>0, <2>6 DEF CancelBegin, ToCancel, TargetsOf
  <2> QED BY <1>5, <2>1, <2>2, <2>3, <2>4, <2>5, <2>6 DEF CancelStep
<1>6. ASSUME KillArm \/ KillStep PROVE WorkerKnows'
  <2>1. CASE KillArm  BY <1>0, <2>1 DEF KillArm, Killed
  <2>2. CASE KillClaim  BY <1>0, <2>2 DEF KillClaim
  <2>3. CASE KillMark  BY <1>0, <2>3 DEF KillMark
  <2> QED BY <1>6, <2>1, <2>2, <2>3 DEF KillStep
<1>7. CASE Crash  BY <1>0, <1>7 DEF Crash
<1>8. CASE Recover
  BY <1>0, <1>8 DEF Recover, RecoverSessions, RecoverBatch, Subject, Interrupted,
  Running
<1> QED BY <1>1, <1>2, <1>3, <1>4, <1>5, <1>6, <1>7, <1>8 DEF Next

\* A worker's process dies, or its run goes on with the journal it was spawned
\* for.
LEMMA WorkerOwnsStep == ASSUME InspectionInv, Next PROVE WorkerOwns'
<1> USE ThreadsAssumption, TargetsAssumption
    DEF disk, work, cancel, kill, bounds, At, Go, ControlAt, EndCancel, Taken,
        Threads, TypeOK, DiskType, ProcessType, WorkType, ControlType, WorkerOwns,
        WorkerKnows, LifecycleKnows, ProposerKnows, CancelKnows, KillKnows, Running
<1>0. TypeOK /\ WorkerOwns /\ WorkerKnows /\ LifecycleKnows /\ ProposerKnows /\
      CancelKnows /\ KillKnows
  BY DEF InspectionInv
<1>1. ASSUME NEW b \in Batches, Create(b) \/ BatchThread(b) PROVE WorkerOwns'
  <2>1. CASE Create(b)  BY <1>0, <2>1 DEF Create, Creatable
  <2>2. CASE RunStart(b)  BY <1>0, <2>2 DEF RunStart, TargetsOf
  <2>3. CASE RunFinish(b)
    BY <1>0, <2>3 DEF RunFinish, Finished, PoolDone, TargetsOf
  <2> QED BY <1>1, <2>1, <2>2, <2>3 DEF BatchThread
<1>2. ASSUME NEW s \in Sessions, Worker(s) PROVE WorkerOwns'
  <2>1. CASE InspectSkip(s)  BY <1>0, <2>1 DEF InspectSkip
  <2>2. CASE InspectRefuse(s)
    BY <1>0, <2>2 DEF InspectRefuse, UpdateTarget, FailureStatus
  <2>3. CASE InspectClaim(s)  BY <1>0, <2>3 DEF InspectClaim, UpdateTarget
  <2>4. CASE InspectCreate(s)  BY <1>0, <2>4 DEF InspectCreate
  <2>5. CASE InspectCreateFails(s)
    BY <1>0, <2>5 DEF InspectCreateFails, UpdateTarget, FailureStatus
  <2>6. CASE InspectReport(s)  BY <1>0, <2>6 DEF InspectReport
  <2>7. CASE InspectFail(s)  BY <1>0, <2>7 DEF InspectFail, FailureStatus
  <2>8. CASE InspectPublish(s)  BY <1>0, <2>8 DEF InspectPublish, UpdateTarget
  <2> QED BY <1>2, <2>1, <2>2, <2>3, <2>4, <2>5, <2>6, <2>7, <2>8 DEF Worker
<1>3. ASSUME NEW t \in Threads, Run(t) \/ ChildExits(t) PROVE WorkerOwns'
  <2>1. CASE SpawnEnter(t)  BY <1>0, <2>1 DEF SpawnEnter
  <2>2. CASE SpawnBusy(t)
    BY <1>0, <2>2, WhereRunsGo DEF SpawnBusy, EndRun, Unregister, Subject
  <2>3. CASE SpawnCheck(t)
    <3>0. \A s \in Sessions : proc[s] = "running" => s # Subject(t)
      BY <1>0, <2>3 DEF SpawnCheck, Subject
    <3>1. CASE MaySpawn(t)
      BY <1>0, <2>3, <3>1 DEF SpawnCheck, MaySpawn, Subject
    <3>2. CASE ~MaySpawn(t)
      <4>1. PICK next \in After(t, "error") : Go(t, next)
        BY <2>3, <3>2 DEF SpawnCheck, EndRun
      <4> QED BY <1>0, <2>3, <3>0, <3>2, <4>1, WhereRunsGo
        DEF SpawnCheck, EndRun, Unregister, Subject
    <3> QED BY <3>1, <3>2
  <2>4. CASE Register(t)
    <3>0. \A s \in Sessions \ {t} : proc[s] = "running" => s # Subject(t)
      BY <1>0, <2>4 DEF Register, Subject
    <3>1. CASE MayRegister(t) /\ pc' = [pc EXCEPT ![t] = "streaming"]
      BY <1>0, <2>4, <3>1, WhereRunsGo
      DEF Register, EndRun, Unregister, Subject, MayRegister
    <3>2. CASE ~MayRegister(t)
      <4>1. PICK next \in After(t, "error") : Go(t, next)
        BY <2>4, <3>2 DEF Register, EndRun
      <4> QED BY <1>0, <2>4, <3>0, <3>2, <4>1, WhereRunsGo
        DEF Register, EndRun, Unregister, Subject
    <3> QED BY <2>4, <3>1, <3>2 DEF Register
  <2>5. CASE RunEnds(t)
    BY <1>0, <2>5, WhereRunsGo DEF RunEnds, EndRun, Unregister, Subject, Killed
  <2>6. CASE ChildExits(t)  BY <1>0, <2>6 DEF ChildExits
  <2> QED BY <1>3, <2>1, <2>2, <2>3, <2>4, <2>5, <2>6 DEF Run
<1>4. ASSUME NEW p \in Proposers, Proposer(p) \/ \E s \in Sessions : ProposeRead(p, s)
      PROVE WorkerOwns'
  <2>1. CASE ProposeClaim(p)  BY <1>0, <2>1 DEF ProposeClaim
  <2>2. CASE ProposeEnd(p)  BY SMTT(30), <1>0, <2>2 DEF ProposeEnd
  <2>3. ASSUME NEW s \in Sessions, ProposeRead(p, s) PROVE WorkerOwns'
    BY <1>0, <2>3 DEF ProposeRead
  <2> QED BY <1>4, <2>1, <2>2, <2>3 DEF Proposer
<1>5. ASSUME NEW h \in Cancellers, CancelStep(h) \/ \E b \in Batches : CancelBegin(h, b)
      PROVE WorkerOwns'
  <2>1. ASSUME NEW s \in Sessions, CancelClaim(h, s) PROVE WorkerOwns'
    BY <1>0, <2>1 DEF CancelClaim, ACTIVE_STATUSES, Running
  <2>2. CASE CancelKill(h)  BY <1>0, <2>2 DEF CancelKill, Unregister, Killed
  <2>3. CASE CancelSeal(h)  BY <1>0, <2>3 DEF CancelSeal
  <2>4. CASE CancelBusy(h)  BY <1>0, <2>4 DEF CancelBusy
  <2>5. CASE CancelMark(h)  BY <1>0, <2>5 DEF CancelMark, MarkCancelled, TargetsOf
  <2>6. ASSUME NEW b \in Batches, CancelBegin(h, b) PROVE WorkerOwns'
    BY <1>0, <2>6 DEF CancelBegin, ToCancel, TargetsOf
  <2> QED BY <1>5, <2>1, <2>2, <2>3, <2>4, <2>5, <2>6 DEF CancelStep
<1>6. ASSUME KillArm \/ KillStep PROVE WorkerOwns'
  <2>1. CASE KillArm  BY <1>0, <2>1 DEF KillArm, Killed
  <2>2. CASE KillClaim  BY <1>0, <2>2 DEF KillClaim
  <2>3. CASE KillMark  BY <1>0, <2>3 DEF KillMark
  <2> QED BY <1>6, <2>1, <2>2, <2>3 DEF KillStep
<1>7. CASE Crash  BY <1>0, <1>7 DEF Crash
<1>8. CASE Recover
  BY <1>0, <1>8 DEF Recover, RecoverSessions, RecoverBatch, Subject, Interrupted,
  Running
<1> QED BY <1>1, <1>2, <1>3, <1>4, <1>5, <1>6, <1>7, <1>8 DEF Next

-----------------------------------------------------------------------------
(* Cancellation, the kill switch, proposals.                               *)

\* What the kill switch plans to write is decided before it writes.
LEMMA KillKnowsStep == ASSUME InspectionInv, Next PROVE KillKnows'
<1> USE ThreadsAssumption, TargetsAssumption
    DEF disk, work, cancel, kill, bounds, At, Go, ControlAt, EndCancel, Taken,
        Threads, TypeOK, DiskType, ProcessType, WorkType, ControlType, KillKnows
<1>0. TypeOK /\ KillKnows
  BY DEF InspectionInv
<1>1. ASSUME NEW b \in Batches, Create(b) \/ BatchThread(b) PROVE KillKnows'
  <2>1. CASE Create(b)  BY <1>0, <2>1 DEF Create, Creatable
  <2>2. CASE RunStart(b)  BY <1>0, <2>2 DEF RunStart, TargetsOf
  <2>3. CASE RunFinish(b)
    BY <1>0, <2>3 DEF RunFinish, Finished, PoolDone, TargetsOf
  <2> QED BY <1>1, <2>1, <2>2, <2>3 DEF BatchThread
<1>2. ASSUME NEW s \in Sessions, Worker(s) PROVE KillKnows'
  <2>1. CASE InspectSkip(s)  BY <1>0, <2>1 DEF InspectSkip
  <2>2. CASE InspectRefuse(s)
    BY <1>0, <2>2 DEF InspectRefuse, UpdateTarget, FailureStatus
  <2>3. CASE InspectClaim(s)  BY <1>0, <2>3 DEF InspectClaim, UpdateTarget
  <2>4. CASE InspectCreate(s)  BY <1>0, <2>4 DEF InspectCreate
  <2>5. CASE InspectCreateFails(s)
    BY <1>0, <2>5 DEF InspectCreateFails, UpdateTarget, FailureStatus
  <2>6. CASE InspectReport(s)  BY <1>0, <2>6 DEF InspectReport
  <2>7. CASE InspectFail(s)  BY <1>0, <2>7 DEF InspectFail, FailureStatus
  <2>8. CASE InspectPublish(s)  BY <1>0, <2>8 DEF InspectPublish, UpdateTarget
  <2> QED BY <1>2, <2>1, <2>2, <2>3, <2>4, <2>5, <2>6, <2>7, <2>8 DEF Worker
<1>3. ASSUME NEW t \in Threads, Run(t) \/ ChildExits(t) PROVE KillKnows'
  <2>1. CASE SpawnEnter(t)  BY <1>0, <2>1 DEF SpawnEnter
  <2>2. CASE SpawnBusy(t)
    BY <1>0, <2>2, WhereRunsGo DEF SpawnBusy, EndRun, Unregister, Subject
  <2>3. CASE SpawnCheck(t)
    BY <1>0, <2>3, WhereRunsGo DEF SpawnCheck, EndRun, Unregister, Subject, MaySpawn
  <2>4. CASE Register(t)
    BY <1>0, <2>4, WhereRunsGo
    DEF Register, EndRun, Unregister, Subject, MayRegister
  <2>5. CASE RunEnds(t)
    BY <1>0, <2>5, WhereRunsGo DEF RunEnds, EndRun, Unregister, Subject, Killed
  <2>6. CASE ChildExits(t)  BY <1>0, <2>6 DEF ChildExits
  <2> QED BY <1>3, <2>1, <2>2, <2>3, <2>4, <2>5, <2>6 DEF Run
<1>4. ASSUME NEW p \in Proposers, Proposer(p) \/ \E s \in Sessions : ProposeRead(p, s)
      PROVE KillKnows'
  <2>1. CASE ProposeClaim(p)  BY <1>0, <2>1 DEF ProposeClaim
  <2>2. CASE ProposeEnd(p)  BY <1>0, <2>2 DEF ProposeEnd
  <2>3. ASSUME NEW s \in Sessions, ProposeRead(p, s) PROVE KillKnows'
    BY <1>0, <2>3 DEF ProposeRead
  <2> QED BY <1>4, <2>1, <2>2, <2>3 DEF Proposer
<1>5. ASSUME NEW h \in Cancellers, CancelStep(h) \/ \E b \in Batches : CancelBegin(h, b)
      PROVE KillKnows'
  <2>1. ASSUME NEW s \in Sessions, CancelClaim(h, s) PROVE KillKnows'
    BY <1>0, <2>1 DEF CancelClaim, ACTIVE_STATUSES, Running
  <2>2. CASE CancelKill(h)  BY <1>0, <2>2 DEF CancelKill, Unregister, Killed
  <2>3. CASE CancelSeal(h)  BY <1>0, <2>3 DEF CancelSeal
  <2>4. CASE CancelBusy(h)  BY <1>0, <2>4 DEF CancelBusy
  <2>5. CASE CancelMark(h)  BY <1>0, <2>5 DEF CancelMark, MarkCancelled, TargetsOf
  <2>6. ASSUME NEW b \in Batches, CancelBegin(h, b) PROVE KillKnows'
    BY <1>0, <2>6 DEF CancelBegin, ToCancel, TargetsOf
  <2> QED BY <1>5, <2>1, <2>2, <2>3, <2>4, <2>5, <2>6 DEF CancelStep
<1>6. ASSUME KillArm \/ KillStep PROVE KillKnows'
  <2>1. CASE KillArm  BY <1>0, <2>1 DEF KillArm, Killed
  <2>2. CASE KillClaim  BY <1>0, <2>2 DEF KillClaim
  <2>3. CASE KillMark  BY <1>0, <2>3 DEF KillMark
  <2> QED BY <1>6, <2>1, <2>2, <2>3 DEF KillStep
<1>7. CASE Crash  BY <1>0, <1>7 DEF Crash
<1>8. CASE Recover
  BY <1>0, <1>8 DEF Recover, RecoverSessions, RecoverBatch, Subject, Interrupted,
  Running
<1> QED BY <1>1, <1>2, <1>3, <1>4, <1>5, <1>6, <1>7, <1>8 DEF Next

\* A report that a proposal works on is not replaced.
LEMMA ProposerKnowsStep == ASSUME InspectionInv, Next PROVE ProposerKnows'
<1> USE ThreadsAssumption, TargetsAssumption
    DEF disk, work, cancel, kill, bounds, At, Go, ControlAt, EndCancel, Taken,
        Threads, TypeOK, DiskType, ProcessType, WorkType, ControlType,
        ProposerKnows, WorkerKnows, BatchKnows, TERMINAL, VALID_REPORT, ActiveBatch,
        TERMINAL_BATCH_STATUSES
<1>0. TypeOK /\ ProposerKnows /\ WorkerKnows /\ BatchKnows
  BY DEF InspectionInv
<1>1. ASSUME NEW b \in Batches, Create(b) \/ BatchThread(b) PROVE ProposerKnows'
  <2>1. CASE Create(b)  BY <1>0, <2>1 DEF Create, Creatable
  <2>2. CASE RunStart(b)  BY <1>0, <2>2 DEF RunStart, TargetsOf
  <2>3. CASE RunFinish(b)
    BY <1>0, <2>3 DEF RunFinish, Finished, PoolDone, TargetsOf
  <2> QED BY <1>1, <2>1, <2>2, <2>3 DEF BatchThread
<1>2. ASSUME NEW s \in Sessions, Worker(s) PROVE ProposerKnows'
  <2>1. CASE InspectSkip(s)  BY <1>0, <2>1 DEF InspectSkip
  <2>2. CASE InspectRefuse(s)
    BY <1>0, <2>2 DEF InspectRefuse, UpdateTarget, FailureStatus
  <2>3. CASE InspectClaim(s)  BY <1>0, <2>3 DEF InspectClaim, UpdateTarget
  <2>4. CASE InspectCreate(s)  BY <1>0, <2>4 DEF InspectCreate
  <2>5. CASE InspectCreateFails(s)
    BY <1>0, <2>5 DEF InspectCreateFails, UpdateTarget, FailureStatus
  <2>6. CASE InspectReport(s)  BY <1>0, <2>6 DEF InspectReport
  <2>7. CASE InspectFail(s)  BY <1>0, <2>7 DEF InspectFail, FailureStatus
  <2>8. CASE InspectPublish(s)  BY <1>0, <2>8 DEF InspectPublish, UpdateTarget
  <2> QED BY <1>2, <2>1, <2>2, <2>3, <2>4, <2>5, <2>6, <2>7, <2>8 DEF Worker
<1>3. ASSUME NEW t \in Threads, Run(t) \/ ChildExits(t) PROVE ProposerKnows'
  <2>1. CASE SpawnEnter(t)  BY <1>0, <2>1 DEF SpawnEnter
  <2>2. CASE SpawnBusy(t)
    BY <1>0, <2>2, WhereRunsGo DEF SpawnBusy, EndRun, Unregister, Subject
  <2>3. CASE SpawnCheck(t)
    BY <1>0, <2>3, WhereRunsGo DEF SpawnCheck, EndRun, Unregister, Subject, MaySpawn
  <2>4. CASE Register(t)
    BY <1>0, <2>4, WhereRunsGo
    DEF Register, EndRun, Unregister, Subject, MayRegister
  <2>5. CASE RunEnds(t)
    BY <1>0, <2>5, WhereRunsGo DEF RunEnds, EndRun, Unregister, Subject, Killed
  <2>6. CASE ChildExits(t)  BY <1>0, <2>6 DEF ChildExits
  <2> QED BY <1>3, <2>1, <2>2, <2>3, <2>4, <2>5, <2>6 DEF Run
<1>4. ASSUME NEW p \in Proposers, Proposer(p) \/ \E s \in Sessions : ProposeRead(p, s)
      PROVE ProposerKnows'
  <2>1. CASE ProposeClaim(p)  BY <1>0, <2>1 DEF ProposeClaim
  <2>2. CASE ProposeEnd(p)  BY <1>0, <2>2 DEF ProposeEnd
  <2>3. ASSUME NEW s \in Sessions, ProposeRead(p, s) PROVE ProposerKnows'
    BY <1>0, <2>3 DEF ProposeRead, Actionable
  <2> QED BY <1>4, <2>1, <2>2, <2>3 DEF Proposer
<1>5. ASSUME NEW h \in Cancellers, CancelStep(h) \/ \E b \in Batches : CancelBegin(h, b)
      PROVE ProposerKnows'
  <2>1. ASSUME NEW s \in Sessions, CancelClaim(h, s) PROVE ProposerKnows'
    BY <1>0, <2>1 DEF CancelClaim, ACTIVE_STATUSES, Running
  <2>2. CASE CancelKill(h)  BY <1>0, <2>2 DEF CancelKill, Unregister, Killed
  <2>3. CASE CancelSeal(h)  BY <1>0, <2>3 DEF CancelSeal
  <2>4. CASE CancelBusy(h)  BY <1>0, <2>4 DEF CancelBusy
  <2>5. CASE CancelMark(h)  BY <1>0, <2>5 DEF CancelMark, MarkCancelled, TargetsOf
  <2>6. ASSUME NEW b \in Batches, CancelBegin(h, b) PROVE ProposerKnows'
    BY <1>0, <2>6 DEF CancelBegin, ToCancel, TargetsOf
  <2> QED BY <1>5, <2>1, <2>2, <2>3, <2>4, <2>5, <2>6 DEF CancelStep
<1>6. ASSUME KillArm \/ KillStep PROVE ProposerKnows'
  <2>1. CASE KillArm  BY <1>0, <2>1 DEF KillArm, Killed
  <2>2. CASE KillClaim  BY <1>0, <2>2 DEF KillClaim
  <2>3. CASE KillMark  BY <1>0, <2>3 DEF KillMark
  <2> QED BY <1>6, <2>1, <2>2, <2>3 DEF KillStep
<1>7. CASE Crash  BY <1>0, <1>7 DEF Crash
<1>8. CASE Recover
  BY <1>0, <1>8 DEF Recover, RecoverSessions, RecoverBatch, Subject, Interrupted,
  Running
<1> QED BY <1>1, <1>2, <1>3, <1>4, <1>5, <1>6, <1>7, <1>8 DEF Next

\* No worker can spawn for a target that has been cancelled.
LEMMA CancelledIsHaltedStep == ASSUME InspectionInv, Next PROVE CancelledIsHalted'
<1> USE ThreadsAssumption, TargetsAssumption
    DEF disk, work, cancel, kill, bounds, At, Go, ControlAt, EndCancel, Taken,
        Threads, TypeOK, DiskType, ProcessType, WorkType, ControlType,
        CancelledIsHalted, Halted, WorkerKnows, CancelKnows, BatchKnows, TargetsOf,
        TERMINAL, VALID_REPORT, ActiveBatch, TERMINAL_BATCH_STATUSES
<1>0. TypeOK /\ CancelledIsHalted /\ WorkerKnows /\ CancelKnows /\ BatchKnows
  BY DEF InspectionInv
<1>1. ASSUME NEW b \in Batches, Create(b) \/ BatchThread(b) PROVE CancelledIsHalted'
  <2>1. CASE Create(b)  BY <1>0, <2>1 DEF Create, Creatable
  <2>2. CASE RunStart(b)  BY <1>0, <2>2 DEF RunStart, TargetsOf
  <2>3. CASE RunFinish(b)
    BY <1>0, <2>3 DEF RunFinish, Finished, PoolDone, TargetsOf
  <2> QED BY <1>1, <2>1, <2>2, <2>3 DEF BatchThread
<1>2. ASSUME NEW s \in Sessions, Worker(s) PROVE CancelledIsHalted'
  <2>1. CASE InspectSkip(s)  BY <1>0, <2>1 DEF InspectSkip
  <2>2. CASE InspectRefuse(s)
    BY <1>0, <2>2 DEF InspectRefuse, UpdateTarget, FailureStatus
  <2>3. CASE InspectClaim(s)  BY <1>0, <2>3 DEF InspectClaim, UpdateTarget
  <2>4. CASE InspectCreate(s)  BY <1>0, <2>4 DEF InspectCreate
  <2>5. CASE InspectCreateFails(s)
    BY <1>0, <2>5 DEF InspectCreateFails, UpdateTarget, FailureStatus
  <2>6. CASE InspectReport(s)  BY <1>0, <2>6 DEF InspectReport
  <2>7. CASE InspectFail(s)  BY <1>0, <2>7 DEF InspectFail, FailureStatus
  <2>8. CASE InspectPublish(s)  BY <1>0, <2>8 DEF InspectPublish, UpdateTarget
  <2> QED BY <1>2, <2>1, <2>2, <2>3, <2>4, <2>5, <2>6, <2>7, <2>8 DEF Worker
<1>3. ASSUME NEW t \in Threads, Run(t) \/ ChildExits(t) PROVE CancelledIsHalted'
  <2>1. CASE SpawnEnter(t)  BY <1>0, <2>1 DEF SpawnEnter
  <2>2. CASE SpawnBusy(t)
    BY <1>0, <2>2, WhereRunsGo DEF SpawnBusy, EndRun, Unregister, Subject
  <2>3. CASE SpawnCheck(t)
    BY <1>0, <2>3, WhereRunsGo DEF SpawnCheck, EndRun, Unregister, Subject, MaySpawn
  <2>4. CASE Register(t)
    BY <1>0, <2>4, WhereRunsGo
    DEF Register, EndRun, Unregister, Subject, MayRegister
  <2>5. CASE RunEnds(t)
    BY <1>0, <2>5, WhereRunsGo DEF RunEnds, EndRun, Unregister, Subject, Killed
  <2>6. CASE ChildExits(t)  BY <1>0, <2>6 DEF ChildExits
  <2> QED BY <1>3, <2>1, <2>2, <2>3, <2>4, <2>5, <2>6 DEF Run
<1>4. ASSUME NEW p \in Proposers, Proposer(p) \/ \E s \in Sessions : ProposeRead(p, s)
      PROVE CancelledIsHalted'
  <2>1. CASE ProposeClaim(p)  BY <1>0, <2>1 DEF ProposeClaim
  <2>2. CASE ProposeEnd(p)  BY <1>0, <2>2 DEF ProposeEnd
  <2>3. ASSUME NEW s \in Sessions, ProposeRead(p, s) PROVE CancelledIsHalted'
    BY <1>0, <2>3 DEF ProposeRead
  <2> QED BY <1>4, <2>1, <2>2, <2>3 DEF Proposer
<1>5. ASSUME NEW h \in Cancellers, CancelStep(h) \/ \E b \in Batches : CancelBegin(h, b)
      PROVE CancelledIsHalted'
  <2>1. ASSUME NEW s \in Sessions, CancelClaim(h, s) PROVE CancelledIsHalted'
    BY <1>0, <2>1 DEF CancelClaim, ACTIVE_STATUSES, Running
  <2>2. CASE CancelKill(h)  BY <1>0, <2>2 DEF CancelKill, Unregister, Killed
  <2>3. CASE CancelSeal(h)  BY <1>0, <2>3 DEF CancelSeal
  <2>4. CASE CancelBusy(h)  BY <1>0, <2>4 DEF CancelBusy
  <2>5. CASE CancelMark(h) 
    BY SMTT(30), <1>0, <2>5 DEF CancelMark, MarkCancelled, TargetsOf
  <2>6. ASSUME NEW b \in Batches, CancelBegin(h, b) PROVE CancelledIsHalted'
    BY <1>0, <2>6 DEF CancelBegin, ToCancel, TargetsOf
  <2> QED BY <1>5, <2>1, <2>2, <2>3, <2>4, <2>5, <2>6 DEF CancelStep
<1>6. ASSUME KillArm \/ KillStep PROVE CancelledIsHalted'
  <2>1. CASE KillArm  BY <1>0, <2>1 DEF KillArm, Killed
  <2>2. CASE KillClaim  BY <1>0, <2>2 DEF KillClaim
  <2>3. CASE KillMark  BY <1>0, <2>3 DEF KillMark
  <2> QED BY <1>6, <2>1, <2>2, <2>3 DEF KillStep
<1>7. CASE Crash  BY <1>0, <1>7 DEF Crash
<1>8. CASE Recover
  BY <1>0, <1>8 DEF Recover, RecoverSessions, RecoverBatch, Subject, Interrupted,
  Running
<1> QED BY <1>1, <1>2, <1>3, <1>4, <1>5, <1>6, <1>7, <1>8 DEF Next

\* A target a cancel has stopped is not inspected behind its back.
LEMMA CancelKnowsStep == ASSUME InspectionInv, Next PROVE CancelKnows'
<1> USE ThreadsAssumption, TargetsAssumption
    DEF disk, work, cancel, kill, bounds, At, Go, ControlAt, EndCancel, Taken,
        Threads, TypeOK, DiskType, ProcessType, WorkType, ControlType, CancelKnows,
        Halted, GateKnows, WorkerKnows, WorkerOwns, LifecycleKnows, BatchKnows,
        TargetsOf, TERMINAL, VALID_REPORT, ActiveBatch, TERMINAL_BATCH_STATUSES
<1>0. TypeOK /\ CancelKnows /\ GateKnows /\ WorkerKnows /\ WorkerOwns /\
      LifecycleKnows /\ BatchKnows
  BY DEF InspectionInv
<1>1. ASSUME NEW b \in Batches, Create(b) \/ BatchThread(b) PROVE CancelKnows'
  <2>1. CASE Create(b)  BY <1>0, <2>1 DEF Create, Creatable
  <2>2. CASE RunStart(b)  BY <1>0, <2>2 DEF RunStart, TargetsOf
  <2>3. CASE RunFinish(b)
    BY <1>0, <2>3 DEF RunFinish, Finished, PoolDone, TargetsOf
  <2> QED BY <1>1, <2>1, <2>2, <2>3 DEF BatchThread
<1>2. ASSUME NEW s \in Sessions, Worker(s) PROVE CancelKnows'
  <2>1. CASE InspectSkip(s)  BY <1>0, <2>1 DEF InspectSkip
  <2>2. CASE InspectRefuse(s)
    BY <1>0, <2>2 DEF InspectRefuse, UpdateTarget, FailureStatus
  <2>3. CASE InspectClaim(s)  BY <1>0, <2>3 DEF InspectClaim, UpdateTarget
  <2>4. CASE InspectCreate(s)  BY <1>0, <2>4 DEF InspectCreate
  <2>5. CASE InspectCreateFails(s)
    BY <1>0, <2>5 DEF InspectCreateFails, UpdateTarget, FailureStatus
  <2>6. CASE InspectReport(s)  BY <1>0, <2>6 DEF InspectReport
  <2>7. CASE InspectFail(s)  BY <1>0, <2>7 DEF InspectFail, FailureStatus
  <2>8. CASE InspectPublish(s)  BY <1>0, <2>8 DEF InspectPublish, UpdateTarget
  <2> QED BY <1>2, <2>1, <2>2, <2>3, <2>4, <2>5, <2>6, <2>7, <2>8 DEF Worker
<1>3. ASSUME NEW t \in Threads, Run(t) \/ ChildExits(t) PROVE CancelKnows'
  <2>1. CASE SpawnEnter(t)  BY <1>0, <2>1 DEF SpawnEnter
  <2>2. CASE SpawnBusy(t)
    BY <1>0, <2>2, WhereRunsGo DEF SpawnBusy, EndRun, Unregister, Subject
  <2>3. CASE SpawnCheck(t)
    BY <1>0, <2>3, WhereRunsGo DEF SpawnCheck, EndRun, Unregister, Subject, MaySpawn
  <2>4. CASE Register(t)
    BY <1>0, <2>4, WhereRunsGo
    DEF Register, EndRun, Unregister, Subject, MayRegister
  <2>5. CASE RunEnds(t)
    BY <1>0, <2>5, WhereRunsGo DEF RunEnds, EndRun, Unregister, Subject, Killed
  <2>6. CASE ChildExits(t)  BY <1>0, <2>6 DEF ChildExits
  <2> QED BY <1>3, <2>1, <2>2, <2>3, <2>4, <2>5, <2>6 DEF Run
<1>4. ASSUME NEW p \in Proposers, Proposer(p) \/ \E s \in Sessions : ProposeRead(p, s)
      PROVE CancelKnows'
  <2>1. CASE ProposeClaim(p)  BY <1>0, <2>1 DEF ProposeClaim
  <2>2. CASE ProposeEnd(p)  BY <1>0, <2>2 DEF ProposeEnd
  <2>3. ASSUME NEW s \in Sessions, ProposeRead(p, s) PROVE CancelKnows'
    BY <1>0, <2>3 DEF ProposeRead
  <2> QED BY <1>4, <2>1, <2>2, <2>3 DEF Proposer
<1>5. ASSUME NEW h \in Cancellers, CancelStep(h) \/ \E b \in Batches : CancelBegin(h, b)
      PROVE CancelKnows'
  <2>1. ASSUME NEW s \in Sessions, CancelClaim(h, s) PROVE CancelKnows'
    <3>1. CASE status[s] \in ACTIVE_STATUSES
      <4>1. /\ cancelReq' = [cancelReq EXCEPT ![s] = TRUE] /\ cur' = [cur EXCEPT ![h] = s]
            /\ cpc' = [cpc EXCEPT ![h] = "killing"] /\ todo' = todo
        BY <2>1, <3>1 DEF CancelClaim
      <4> QED BY <1>0, <2>1, <4>1 DEF CancelClaim
    <3>2. CASE status[s] \notin ACTIVE_STATUSES
      BY <1>0, <2>1, <3>2 DEF CancelClaim, ACTIVE_STATUSES, Running
    <3> QED BY <3>1, <3>2
  <2>2. CASE CancelKill(h)  BY <1>0, <2>2 DEF CancelKill, Unregister, Killed
  <2>3. CASE CancelSeal(h)  BY <1>0, <2>3 DEF CancelSeal
  <2>4. CASE CancelBusy(h)  BY <1>0, <2>4 DEF CancelBusy
  <2>5. CASE CancelMark(h)  BY <1>0, <2>5 DEF CancelMark, MarkCancelled, TargetsOf
  <2>6. ASSUME NEW b \in Batches, CancelBegin(h, b) PROVE CancelKnows'
    BY <1>0, <2>6 DEF CancelBegin, ToCancel, TargetsOf
  <2> QED BY <1>5, <2>1, <2>2, <2>3, <2>4, <2>5, <2>6 DEF CancelStep
<1>6. ASSUME KillArm \/ KillStep PROVE CancelKnows'
  <2>1. CASE KillArm  BY <1>0, <2>1 DEF KillArm, Killed
  <2>2. CASE KillClaim  BY <1>0, <2>2 DEF KillClaim
  <2>3. CASE KillMark  BY <1>0, <2>3 DEF KillMark
  <2> QED BY <1>6, <2>1, <2>2, <2>3 DEF KillStep
<1>7. CASE Crash  BY <1>0, <1>7 DEF Crash
<1>8. CASE Recover
  BY <1>0, <1>8 DEF Recover, RecoverSessions, RecoverBatch, Subject, Interrupted,
  Running
<1> QED BY <1>1, <1>2, <1>3, <1>4, <1>5, <1>6, <1>7, <1>8 DEF Next

\* A target is reported as cancelled once its process is gone, and none is
\* spawned after.
LEMMA CancelledTargetIsQuietStep == ASSUME InspectionInv, Next
PROVE CancelledTargetIsQuiet'
<1> USE ThreadsAssumption, TargetsAssumption
    DEF disk, work, cancel, kill, bounds, At, Go, ControlAt, EndCancel, Taken,
        Threads, TypeOK, DiskType, ProcessType, WorkType, ControlType,
        CancelledTargetIsQuiet, CancelledIsHalted, Halted, WorkerKnows, WorkerOwns,
        CancelKnows, DownKnows, BatchKnows, TargetsOf, TERMINAL, VALID_REPORT,
        ActiveBatch, TERMINAL_BATCH_STATUSES
<1>0. TypeOK /\ CancelledTargetIsQuiet /\ CancelledIsHalted /\ WorkerKnows /\
      WorkerOwns /\ CancelKnows /\ DownKnows /\ BatchKnows
  BY DEF InspectionInv
<1>1. ASSUME NEW b \in Batches, Create(b) \/ BatchThread(b)
      PROVE CancelledTargetIsQuiet'
  <2>1. CASE Create(b)  BY <1>0, <2>1 DEF Create, Creatable
  <2>2. CASE RunStart(b)  BY <1>0, <2>2 DEF RunStart, TargetsOf
  <2>3. CASE RunFinish(b)
    BY <1>0, <2>3 DEF RunFinish, Finished, PoolDone, TargetsOf
  <2> QED BY <1>1, <2>1, <2>2, <2>3 DEF BatchThread
<1>2. ASSUME NEW s \in Sessions, Worker(s) PROVE CancelledTargetIsQuiet'
  <2>1. CASE InspectSkip(s)  BY <1>0, <2>1 DEF InspectSkip
  <2>2. CASE InspectRefuse(s)
    BY <1>0, <2>2 DEF InspectRefuse, UpdateTarget, FailureStatus
  <2>3. CASE InspectClaim(s)  BY <1>0, <2>3 DEF InspectClaim, UpdateTarget
  <2>4. CASE InspectCreate(s)  BY <1>0, <2>4 DEF InspectCreate
  <2>5. CASE InspectCreateFails(s)
    BY <1>0, <2>5 DEF InspectCreateFails, UpdateTarget, FailureStatus
  <2>6. CASE InspectReport(s)  BY <1>0, <2>6 DEF InspectReport
  <2>7. CASE InspectFail(s)  BY <1>0, <2>7 DEF InspectFail, FailureStatus
  <2>8. CASE InspectPublish(s)  BY <1>0, <2>8 DEF InspectPublish, UpdateTarget
  <2> QED BY <1>2, <2>1, <2>2, <2>3, <2>4, <2>5, <2>6, <2>7, <2>8 DEF Worker
<1>3. ASSUME NEW t \in Threads, Run(t) \/ ChildExits(t)
      PROVE CancelledTargetIsQuiet'
  <2>1. CASE SpawnEnter(t)  BY <1>0, <2>1 DEF SpawnEnter
  <2>2. CASE SpawnBusy(t)
    BY <1>0, <2>2, WhereRunsGo DEF SpawnBusy, EndRun, Unregister, Subject
  <2>3. CASE SpawnCheck(t)
    BY <1>0, <2>3, WhereRunsGo DEF SpawnCheck, EndRun, Unregister, Subject, MaySpawn
  <2>4. CASE Register(t)
    BY <1>0, <2>4, WhereRunsGo
    DEF Register, EndRun, Unregister, Subject, MayRegister
  <2>5. CASE RunEnds(t)
    BY <1>0, <2>5, WhereRunsGo DEF RunEnds, EndRun, Unregister, Subject, Killed
  <2>6. CASE ChildExits(t)  BY <1>0, <2>6 DEF ChildExits
  <2> QED BY <1>3, <2>1, <2>2, <2>3, <2>4, <2>5, <2>6 DEF Run
<1>4. ASSUME NEW p \in Proposers, Proposer(p) \/ \E s \in Sessions : ProposeRead(p, s)
      PROVE CancelledTargetIsQuiet'
  <2>1. CASE ProposeClaim(p)  BY <1>0, <2>1 DEF ProposeClaim
  <2>2. CASE ProposeEnd(p)  BY <1>0, <2>2 DEF ProposeEnd
  <2>3. ASSUME NEW s \in Sessions, ProposeRead(p, s) PROVE CancelledTargetIsQuiet'
    BY <1>0, <2>3 DEF ProposeRead
  <2> QED BY <1>4, <2>1, <2>2, <2>3 DEF Proposer
<1>5. ASSUME NEW h \in Cancellers, CancelStep(h) \/ \E b \in Batches : CancelBegin(h, b)
      PROVE CancelledTargetIsQuiet'
  <2>1. ASSUME NEW s \in Sessions, CancelClaim(h, s) PROVE CancelledTargetIsQuiet'
    BY <1>0, <2>1 DEF CancelClaim, ACTIVE_STATUSES, Running
  <2>2. CASE CancelKill(h)  BY <1>0, <2>2 DEF CancelKill, Unregister, Killed
  <2>3. CASE CancelSeal(h)  BY <1>0, <2>3 DEF CancelSeal
  <2>4. CASE CancelBusy(h)  BY <1>0, <2>4 DEF CancelBusy
  <2>5. CASE CancelMark(h) 
    BY SMTT(30), <1>0, <2>5 DEF CancelMark, MarkCancelled, TargetsOf
  <2>6. ASSUME NEW b \in Batches, CancelBegin(h, b) PROVE CancelledTargetIsQuiet'
    BY <1>0, <2>6 DEF CancelBegin, ToCancel, TargetsOf
  <2> QED BY <1>5, <2>1, <2>2, <2>3, <2>4, <2>5, <2>6 DEF CancelStep
<1>6. ASSUME KillArm \/ KillStep PROVE CancelledTargetIsQuiet'
  <2>1. CASE KillArm  BY <1>0, <2>1 DEF KillArm, Killed
  <2>2. CASE KillClaim  BY <1>0, <2>2 DEF KillClaim
  <2>3. CASE KillMark  BY <1>0, <2>3 DEF KillMark
  <2> QED BY <1>6, <2>1, <2>2, <2>3 DEF KillStep
<1>7. CASE Crash  BY <1>0, <1>7 DEF Crash
<1>8. CASE Recover
  BY <1>0, <1>8 DEF Recover, RecoverSessions, RecoverBatch, Subject, Interrupted,
  Running
<1> QED BY <1>1, <1>2, <1>3, <1>4, <1>5, <1>6, <1>7, <1>8 DEF Next

\* The journal of an actionable report is not taken back, and only such a report
\* is proposed for.
LEMMA ProposalsHaveReportsStep == ASSUME InspectionInv, Next
PROVE ProposalsHaveReports'
<1> USE ThreadsAssumption, TargetsAssumption
    DEF disk, work, cancel, kill, bounds, At, Go, ControlAt, EndCancel, Taken,
        Threads, TypeOK, DiskType, ProcessType, WorkType, ControlType,
        ProposalsHaveReports, WorkerKnows, BatchKnows, ProposerKnows, KillKnows,
        TERMINAL, VALID_REPORT, ActiveBatch, TERMINAL_BATCH_STATUSES
<1>0. TypeOK /\ ProposalsHaveReports /\ WorkerKnows /\ BatchKnows /\ ProposerKnows
      /\ KillKnows
  BY DEF InspectionInv
<1>1. ASSUME NEW b \in Batches, Create(b) \/ BatchThread(b)
      PROVE ProposalsHaveReports'
  <2>1. CASE Create(b)  BY <1>0, <2>1 DEF Create, Creatable
  <2>2. CASE RunStart(b)  BY <1>0, <2>2 DEF RunStart, TargetsOf
  <2>3. CASE RunFinish(b)
    BY <1>0, <2>3 DEF RunFinish, Finished, PoolDone, TargetsOf
  <2> QED BY <1>1, <2>1, <2>2, <2>3 DEF BatchThread
<1>2. ASSUME NEW s \in Sessions, Worker(s) PROVE ProposalsHaveReports'
  <2>1. CASE InspectSkip(s)  BY <1>0, <2>1 DEF InspectSkip
  <2>2. CASE InspectRefuse(s)
    BY <1>0, <2>2 DEF InspectRefuse, UpdateTarget, FailureStatus
  <2>3. CASE InspectClaim(s)  BY <1>0, <2>3 DEF InspectClaim, UpdateTarget
  <2>4. CASE InspectCreate(s)  BY <1>0, <2>4 DEF InspectCreate
  <2>5. CASE InspectCreateFails(s)
    BY <1>0, <2>5 DEF InspectCreateFails, UpdateTarget, FailureStatus
  <2>6. CASE InspectReport(s)  BY <1>0, <2>6 DEF InspectReport
  <2>7. CASE InspectFail(s)  BY SMTT(30), <1>0, <2>7 DEF InspectFail, FailureStatus
  <2>8. CASE InspectPublish(s)  BY <1>0, <2>8 DEF InspectPublish, UpdateTarget
  <2> QED BY <1>2, <2>1, <2>2, <2>3, <2>4, <2>5, <2>6, <2>7, <2>8 DEF Worker
<1>3. ASSUME NEW t \in Threads, Run(t) \/ ChildExits(t) PROVE ProposalsHaveReports'
  <2>1. CASE SpawnEnter(t)  BY <1>0, <2>1 DEF SpawnEnter
  <2>2. CASE SpawnBusy(t)
    BY <1>0, <2>2, WhereRunsGo DEF SpawnBusy, EndRun, Unregister, Subject
  <2>3. CASE SpawnCheck(t)
    BY <1>0, <2>3, WhereRunsGo DEF SpawnCheck, EndRun, Unregister, Subject, MaySpawn
  <2>4. CASE Register(t)
    BY <1>0, <2>4, WhereRunsGo
    DEF Register, EndRun, Unregister, Subject, MayRegister
  <2>5. CASE RunEnds(t)
    BY <1>0, <2>5, WhereRunsGo DEF RunEnds, EndRun, Unregister, Subject, Killed
  <2>6. CASE ChildExits(t)  BY <1>0, <2>6 DEF ChildExits
  <2> QED BY <1>3, <2>1, <2>2, <2>3, <2>4, <2>5, <2>6 DEF Run
<1>4. ASSUME NEW p \in Proposers, Proposer(p) \/ \E s \in Sessions : ProposeRead(p, s)
      PROVE ProposalsHaveReports'
  <2>1. CASE ProposeClaim(p)  BY <1>0, <2>1 DEF ProposeClaim
  <2>2. CASE ProposeEnd(p)  BY <1>0, <2>2 DEF ProposeEnd
  <2>3. ASSUME NEW s \in Sessions, ProposeRead(p, s) PROVE ProposalsHaveReports'
    BY <1>0, <2>3 DEF ProposeRead
  <2> QED BY <1>4, <2>1, <2>2, <2>3 DEF Proposer
<1>5. ASSUME NEW h \in Cancellers, CancelStep(h) \/ \E b \in Batches : CancelBegin(h, b)
      PROVE ProposalsHaveReports'
  <2>1. ASSUME NEW s \in Sessions, CancelClaim(h, s) PROVE ProposalsHaveReports'
    BY <1>0, <2>1 DEF CancelClaim, ACTIVE_STATUSES, Running
  <2>2. CASE CancelKill(h)  BY <1>0, <2>2 DEF CancelKill, Unregister, Killed
  <2>3. CASE CancelSeal(h)  BY <1>0, <2>3 DEF CancelSeal
  <2>4. CASE CancelBusy(h)  BY <1>0, <2>4 DEF CancelBusy
  <2>5. CASE CancelMark(h)  BY <1>0, <2>5 DEF CancelMark, MarkCancelled, TargetsOf
  <2>6. ASSUME NEW b \in Batches, CancelBegin(h, b) PROVE ProposalsHaveReports'
    BY <1>0, <2>6 DEF CancelBegin, ToCancel, TargetsOf
  <2> QED BY <1>5, <2>1, <2>2, <2>3, <2>4, <2>5, <2>6 DEF CancelStep
<1>6. ASSUME KillArm \/ KillStep PROVE ProposalsHaveReports'
  <2>1. CASE KillArm  BY <1>0, <2>1 DEF KillArm, Killed
  <2>2. CASE KillClaim  BY <1>0, <2>2 DEF KillClaim
  <2>3. CASE KillMark  BY SMTT(30), <1>0, <2>3 DEF KillMark
  <2> QED BY <1>6, <2>1, <2>2, <2>3 DEF KillStep
<1>7. CASE Crash  BY <1>0, <1>7 DEF Crash
<1>8. CASE Recover
  BY <1>0, <1>8 DEF Recover, RecoverSessions, RecoverBatch, Subject, Interrupted,
  Running
<1> QED BY <1>1, <1>2, <1>3, <1>4, <1>5, <1>6, <1>7, <1>8 DEF Next

-----------------------------------------------------------------------------
(* The invariant and what follows from it.                                 *)

\* Nothing has happened in the initial states.
LEMMA InspectionInit == Init => InspectionInv
<1> SUFFICES ASSUME Init PROVE InspectionInv  OBVIOUS
<1> USE ThreadsAssumption, TargetsAssumption DEF Init, Threads
<1>1. DiskType /\ ProcessType
  BY DEF DiskType, ProcessType, SessionStatus
<1>2. WorkType /\ ControlType
  BY DEF WorkType, ControlType
<1>3. GateKnows /\ LifecycleKnows /\ DownKnows /\ BatchKnows
  BY DEF GateKnows, LifecycleKnows, DownKnows, BatchKnows
<1>4. WorkerKnows /\ WorkerOwns /\ CancelledIsHalted
  BY DEF WorkerKnows, WorkerOwns, CancelledIsHalted
<1>5. CancelKnows /\ KillKnows /\ ProposerKnows
  BY DEF CancelKnows, KillKnows, ProposerKnows
<1>6. CancelledTargetIsQuiet /\ ProposalsHaveReports
  BY DEF CancelledTargetIsQuiet, ProposalsHaveReports
<1> QED BY <1>1, <1>2, <1>3, <1>4, <1>5, <1>6 DEF InspectionInv, TypeOK

\* It speaks of variables only.
LEMMA InspectionStutter == InspectionInv /\ UNCHANGED vars => InspectionInv'
<1> SUFFICES ASSUME InspectionInv, UNCHANGED vars PROVE InspectionInv'  OBVIOUS
<1> USE DEF InspectionInv, vars, disk, work, cancel, kill, bounds
<1>1. TypeOK'
  BY DEF TypeOK, DiskType, ProcessType, WorkType, ControlType
<1>2. GateKnows' /\ LifecycleKnows' /\ DownKnows' /\ BatchKnows'
  BY DEF GateKnows, LifecycleKnows, DownKnows, BatchKnows
<1>3. WorkerKnows' /\ WorkerOwns' /\ CancelledIsHalted'
  BY DEF WorkerKnows, WorkerOwns, CancelledIsHalted, Halted
<1>4. CancelKnows' /\ KillKnows' /\ ProposerKnows'
  BY DEF CancelKnows, Halted, TargetsOf, KillKnows, ProposerKnows
<1>5. CancelledTargetIsQuiet' /\ ProposalsHaveReports'
  BY DEF CancelledTargetIsQuiet, ProposalsHaveReports
<1> QED BY <1>1, <1>2, <1>3, <1>4, <1>5

\* The inductive invariant of inspection batches (inspection.py): who holds which
\* gate, and what each thread knows of the batch, the target and the journal.
THEOREM InspectionInvariant == Spec => []InspectionInv
<1>1. InspectionInv /\ Next => InspectionInv'
  BY DiskTypeStep, ProcessTypeStep, WorkTypeStep, ControlTypeStep, GateKnowsStep,
     LifecycleKnowsStep, DownKnowsStep, BatchKnowsStep, WorkerKnowsStep,
     WorkerOwnsStep, KillKnowsStep, ProposerKnowsStep, CancelledIsHaltedStep,
     CancelKnowsStep, CancelledTargetIsQuietStep, ProposalsHaveReportsStep
  DEF InspectionInv, TypeOK
<1> QED BY <1>1, InspectionInit, InspectionStutter, PTL DEF Spec

\* Once a target is reported as cancelled no Claude process inspects it (cancel,
\* _mark_cancelled, and _pre_spawn of a worker that comes late).
THEOREM CancelledTargetsAreQuiet == Spec => []CancelledTargetIsQuiet
<1>1. InspectionInv => CancelledTargetIsQuiet  BY DEF InspectionInv
<1> QED BY <1>1, InspectionInvariant, PTL

\* Only an actionable report of a Linux host is proposed for, and such a report has a
\* journal that can be (_inspect_target, generate_proposal).
THEOREM ProposalsFollowReports == Spec => []ProposalsHaveReports
<1>1. InspectionInv => ProposalsHaveReports  BY DEF InspectionInv
<1> QED BY <1>1, InspectionInvariant, PTL

\* What TargetsMoveForward and FinishIsComplete say of one step.
MoveForward ==
  \A s \in Sessions : target'[s] # target[s] =>
    \/ target[s] = "NONE" /\ target'[s] = "QUEUED"
    \/ target[s] = "QUEUED" /\ target'[s] \in {"DIAGNOSING", "CANCELLED"} \cup FailureStatus
    \/ target[s] = "DIAGNOSING" /\ target'[s] \in TERMINAL
FinishComplete ==
  \A b \in Batches :
    batch[b] = "RUNNING" /\ batch'[b] \in TERMINAL_BATCH_STATUSES /\ bpc'[b] # bpc[b] =>
      b \in cancelled \/ \A s \in TargetsOf(b) : target[s] \in TERMINAL

\* Each write of a target follows from the pc of its writer.
LEMMA MovesAreForward == ASSUME InspectionInv, Next PROVE MoveForward
<1> USE ThreadsAssumption, TargetsAssumption
    DEF disk, work, cancel, kill, bounds, At, Go, ControlAt, EndCancel, Taken,
        Threads, TypeOK, DiskType, ProcessType, WorkType, ControlType, MoveForward,
        WorkerKnows, BatchKnows, CancelKnows, GateKnows, FailureStatus, TERMINAL,
        VALID_REPORT, ActiveBatch, TERMINAL_BATCH_STATUSES
<1>0. TypeOK /\ WorkerKnows /\ BatchKnows /\ CancelKnows /\ GateKnows
  BY DEF InspectionInv
<1>1. ASSUME NEW b \in Batches, Create(b) \/ BatchThread(b) PROVE MoveForward
  <2>1. CASE Create(b)  BY <1>0, <2>1 DEF Create, Creatable
  <2>2. CASE RunStart(b)  BY <1>0, <2>2 DEF RunStart, TargetsOf
  <2>3. CASE RunFinish(b)
    BY <1>0, <2>3 DEF RunFinish, Finished, PoolDone, TargetsOf
  <2> QED BY <1>1, <2>1, <2>2, <2>3 DEF BatchThread
<1>2. ASSUME NEW s \in Sessions, Worker(s) PROVE MoveForward
  <2>1. CASE InspectSkip(s)  BY <1>0, <2>1 DEF InspectSkip
  <2>2. CASE InspectRefuse(s)
    BY <1>0, <2>2 DEF InspectRefuse, UpdateTarget, FailureStatus
  <2>3. CASE InspectClaim(s)  BY <1>0, <2>3 DEF InspectClaim, UpdateTarget
  <2>4. CASE InspectCreate(s)  BY <1>0, <2>4 DEF InspectCreate
  <2>5. CASE InspectCreateFails(s)
    BY <1>0, <2>5 DEF InspectCreateFails, UpdateTarget, FailureStatus
  <2>6. CASE InspectReport(s)  BY <1>0, <2>6 DEF InspectReport
  <2>7. CASE InspectFail(s)  BY <1>0, <2>7 DEF InspectFail, FailureStatus
  <2>8. CASE InspectPublish(s)  BY <1>0, <2>8 DEF InspectPublish, UpdateTarget
  <2> QED BY <1>2, <2>1, <2>2, <2>3, <2>4, <2>5, <2>6, <2>7, <2>8 DEF Worker
<1>3. ASSUME NEW t \in Threads, Run(t) \/ ChildExits(t) PROVE MoveForward
  <2>1. CASE SpawnEnter(t)  BY <1>0, <2>1 DEF SpawnEnter
  <2>2. CASE SpawnBusy(t)
    BY <1>0, <2>2, WhereRunsGo DEF SpawnBusy, EndRun, Unregister, Subject
  <2>3. CASE SpawnCheck(t)
    BY <1>0, <2>3, WhereRunsGo DEF SpawnCheck, EndRun, Unregister, Subject, MaySpawn
  <2>4. CASE Register(t)
    BY <1>0, <2>4, WhereRunsGo
    DEF Register, EndRun, Unregister, Subject, MayRegister
  <2>5. CASE RunEnds(t)
    BY <1>0, <2>5, WhereRunsGo DEF RunEnds, EndRun, Unregister, Subject, Killed
  <2>6. CASE ChildExits(t)  BY <1>0, <2>6 DEF ChildExits
  <2> QED BY <1>3, <2>1, <2>2, <2>3, <2>4, <2>5, <2>6 DEF Run
<1>4. ASSUME NEW p \in Proposers, Proposer(p) \/ \E s \in Sessions : ProposeRead(p, s)
      PROVE MoveForward
  <2>1. CASE ProposeClaim(p)  BY <1>0, <2>1 DEF ProposeClaim
  <2>2. CASE ProposeEnd(p)  BY <1>0, <2>2 DEF ProposeEnd
  <2>3. ASSUME NEW s \in Sessions, ProposeRead(p, s) PROVE MoveForward
    BY <1>0, <2>3 DEF ProposeRead
  <2> QED BY <1>4, <2>1, <2>2, <2>3 DEF Proposer
<1>5. ASSUME NEW h \in Cancellers, CancelStep(h) \/ \E b \in Batches : CancelBegin(h, b)
      PROVE MoveForward
  <2>1. ASSUME NEW s \in Sessions, CancelClaim(h, s) PROVE MoveForward
    <3>1. CASE status[s] \in ACTIVE_STATUSES
      <4>1. /\ cancelReq' = [cancelReq EXCEPT ![s] = TRUE] /\ cur' = [cur EXCEPT ![h] = s]
            /\ cpc' = [cpc EXCEPT ![h] = "killing"] /\ todo' = todo
        BY <2>1, <3>1 DEF CancelClaim
      <4> QED BY <1>0, <2>1, <4>1 DEF CancelClaim
    <3>2. CASE status[s] \notin ACTIVE_STATUSES
      BY <1>0, <2>1, <3>2 DEF CancelClaim, ACTIVE_STATUSES, Running
    <3> QED BY <3>1, <3>2
  <2>2. CASE CancelKill(h)  BY <1>0, <2>2 DEF CancelKill, Unregister, Killed
  <2>3. CASE CancelSeal(h)  BY <1>0, <2>3 DEF CancelSeal
  <2>4. CASE CancelBusy(h)  BY <1>0, <2>4 DEF CancelBusy
  <2>5. CASE CancelMark(h)  BY <1>0, <2>5 DEF CancelMark, MarkCancelled, TargetsOf
  <2>6. ASSUME NEW b \in Batches, CancelBegin(h, b) PROVE MoveForward
    BY <1>0, <2>6 DEF CancelBegin, ToCancel, TargetsOf
  <2> QED BY <1>5, <2>1, <2>2, <2>3, <2>4, <2>5, <2>6 DEF CancelStep
<1>6. ASSUME KillArm \/ KillStep PROVE MoveForward
  <2>1. CASE KillArm  BY <1>0, <2>1 DEF KillArm, Killed
  <2>2. CASE KillClaim  BY <1>0, <2>2 DEF KillClaim
  <2>3. CASE KillMark  BY <1>0, <2>3 DEF KillMark
  <2> QED BY <1>6, <2>1, <2>2, <2>3 DEF KillStep
<1>7. CASE Crash  BY <1>0, <1>7 DEF Crash
<1>8. CASE Recover
  BY <1>0, <1>8 DEF Recover, RecoverSessions, RecoverBatch, Subject, Interrupted,
  Running
<1> QED BY <1>1, <1>2, <1>3, <1>4, <1>5, <1>6, <1>7, <1>8 DEF Next

\* No outcome of a target is replaced and no target is inspected twice (_update_target,
\* _mark_cancelled, _recover).
THEOREM TargetsOnlyMoveForward == Spec => TargetsMoveForward
<1>1. InspectionInv /\ [Next]_vars => [MoveForward]_vars
  BY MovesAreForward
<1>2. Spec => [][MoveForward]_vars
  BY <1>1, InspectionInvariant, PTL DEF Spec
<1> QED BY <1>2 DEF TargetsMoveForward, MoveForward

\* A batch thread leaves its pool when every target has come back.
LEMMA FinishStep == ASSUME InspectionInv, Next PROVE FinishComplete
<1> USE ThreadsAssumption, TargetsAssumption
    DEF disk, work, cancel, kill, bounds, At, Go, ControlAt, EndCancel, Taken,
        Threads, TypeOK, DiskType, ProcessType, WorkType, ControlType,
        FinishComplete, BatchKnows, TERMINAL, VALID_REPORT, ActiveBatch,
        TERMINAL_BATCH_STATUSES
<1>0. TypeOK /\ BatchKnows
  BY DEF InspectionInv
<1>1. ASSUME NEW b \in Batches, Create(b) \/ BatchThread(b) PROVE FinishComplete
  <2>1. CASE Create(b)  BY <1>0, <2>1 DEF Create, Creatable
  <2>2. CASE RunStart(b)  BY <1>0, <2>2 DEF RunStart, TargetsOf
  <2>3. CASE RunFinish(b)
    BY <1>0, <2>3 DEF RunFinish, Finished, PoolDone, TargetsOf
  <2> QED BY <1>1, <2>1, <2>2, <2>3 DEF BatchThread
<1>2. ASSUME NEW s \in Sessions, Worker(s) PROVE FinishComplete
  <2>1. CASE InspectSkip(s)  BY <1>0, <2>1 DEF InspectSkip
  <2>2. CASE InspectRefuse(s)
    BY <1>0, <2>2 DEF InspectRefuse, UpdateTarget, FailureStatus
  <2>3. CASE InspectClaim(s)  BY <1>0, <2>3 DEF InspectClaim, UpdateTarget
  <2>4. CASE InspectCreate(s)  BY <1>0, <2>4 DEF InspectCreate
  <2>5. CASE InspectCreateFails(s)
    BY <1>0, <2>5 DEF InspectCreateFails, UpdateTarget, FailureStatus
  <2>6. CASE InspectReport(s)  BY <1>0, <2>6 DEF InspectReport
  <2>7. CASE InspectFail(s)  BY <1>0, <2>7 DEF InspectFail, FailureStatus
  <2>8. CASE InspectPublish(s)  BY <1>0, <2>8 DEF InspectPublish, UpdateTarget
  <2> QED BY <1>2, <2>1, <2>2, <2>3, <2>4, <2>5, <2>6, <2>7, <2>8 DEF Worker
<1>3. ASSUME NEW t \in Threads, Run(t) \/ ChildExits(t) PROVE FinishComplete
  <2>1. CASE SpawnEnter(t)  BY <1>0, <2>1 DEF SpawnEnter
  <2>2. CASE SpawnBusy(t)
    BY <1>0, <2>2, WhereRunsGo DEF SpawnBusy, EndRun, Unregister, Subject
  <2>3. CASE SpawnCheck(t)
    BY <1>0, <2>3, WhereRunsGo DEF SpawnCheck, EndRun, Unregister, Subject, MaySpawn
  <2>4. CASE Register(t)
    BY <1>0, <2>4, WhereRunsGo
    DEF Register, EndRun, Unregister, Subject, MayRegister
  <2>5. CASE RunEnds(t)
    BY <1>0, <2>5, WhereRunsGo DEF RunEnds, EndRun, Unregister, Subject, Killed
  <2>6. CASE ChildExits(t)  BY <1>0, <2>6 DEF ChildExits
  <2> QED BY <1>3, <2>1, <2>2, <2>3, <2>4, <2>5, <2>6 DEF Run
<1>4. ASSUME NEW p \in Proposers, Proposer(p) \/ \E s \in Sessions : ProposeRead(p, s)
      PROVE FinishComplete
  <2>1. CASE ProposeClaim(p)  BY <1>0, <2>1 DEF ProposeClaim
  <2>2. CASE ProposeEnd(p)  BY <1>0, <2>2 DEF ProposeEnd
  <2>3. ASSUME NEW s \in Sessions, ProposeRead(p, s) PROVE FinishComplete
    BY <1>0, <2>3 DEF ProposeRead
  <2> QED BY <1>4, <2>1, <2>2, <2>3 DEF Proposer
<1>5. ASSUME NEW h \in Cancellers, CancelStep(h) \/ \E b \in Batches : CancelBegin(h, b)
      PROVE FinishComplete
  <2>1. ASSUME NEW s \in Sessions, CancelClaim(h, s) PROVE FinishComplete
    <3>1. CASE status[s] \in ACTIVE_STATUSES
      <4>1. /\ cancelReq' = [cancelReq EXCEPT ![s] = TRUE] /\ cur' = [cur EXCEPT ![h] = s]
            /\ cpc' = [cpc EXCEPT ![h] = "killing"] /\ todo' = todo
        BY <2>1, <3>1 DEF CancelClaim
      <4> QED BY <1>0, <2>1, <4>1 DEF CancelClaim
    <3>2. CASE status[s] \notin ACTIVE_STATUSES
      BY <1>0, <2>1, <3>2 DEF CancelClaim, ACTIVE_STATUSES, Running
    <3> QED BY <3>1, <3>2
  <2>2. CASE CancelKill(h)  BY <1>0, <2>2 DEF CancelKill, Unregister, Killed
  <2>3. CASE CancelSeal(h)  BY <1>0, <2>3 DEF CancelSeal
  <2>4. CASE CancelBusy(h)  BY <1>0, <2>4 DEF CancelBusy
  <2>5. CASE CancelMark(h)  BY <1>0, <2>5 DEF CancelMark, MarkCancelled, TargetsOf
  <2>6. ASSUME NEW b \in Batches, CancelBegin(h, b) PROVE FinishComplete
    BY <1>0, <2>6 DEF CancelBegin, ToCancel, TargetsOf
  <2> QED BY <1>5, <2>1, <2>2, <2>3, <2>4, <2>5, <2>6 DEF CancelStep
<1>6. ASSUME KillArm \/ KillStep PROVE FinishComplete
  <2>1. CASE KillArm  BY <1>0, <2>1 DEF KillArm, Killed
  <2>2. CASE KillClaim  BY <1>0, <2>2 DEF KillClaim
  <2>3. CASE KillMark  BY <1>0, <2>3 DEF KillMark
  <2> QED BY <1>6, <2>1, <2>2, <2>3 DEF KillStep
<1>7. CASE Crash  BY <1>0, <1>7 DEF Crash
<1>8. CASE Recover
  BY <1>0, <1>8 DEF Recover, RecoverSessions, RecoverBatch, Subject, Interrupted,
  Running
<1> QED BY <1>1, <1>2, <1>3, <1>4, <1>5, <1>6, <1>7, <1>8 DEF Next

\* A batch that ends by itself leaves no target open, unless a cancel of it has failed
\* (_run_batch: the pool is left when every worker has returned).
THEOREM FinishedBatchesAreComplete == Spec => FinishIsComplete
<1>1. InspectionInv /\ [Next]_vars => [FinishComplete]_vars
  BY FinishStep
<1>2. Spec => [][FinishComplete]_vars
  BY <1>1, InspectionInvariant, PTL DEF Spec
<1> QED BY <1>2 DEF FinishIsComplete, FinishComplete

-----------------------------------------------------------------------------
(* Proposers: as long as no two of them work on one session.               *)

\* The same holds of a proposer's process while no other proposer works on its
\* session.
LEMMA ProposerOwnsStep == ASSUME InspectionInv, NeverTwice, ProposerOwns, Next
PROVE ProposerOwns'
<1> USE ThreadsAssumption, TargetsAssumption
    DEF disk, work, cancel, kill, bounds, At, Go, ControlAt, EndCancel, Taken,
        Threads, TypeOK, DiskType, ProcessType, WorkType, ControlType, ProposerOwns,
        NeverTwice, ProposerKnows, WorkerKnows, LifecycleKnows, CancelKnows,
        KillKnows, BatchKnows, Running, TERMINAL, VALID_REPORT, ActiveBatch,
        TERMINAL_BATCH_STATUSES
<1>0. TypeOK /\ ProposerOwns /\ NeverTwice /\ ProposerKnows /\ WorkerKnows /\
      LifecycleKnows /\ CancelKnows /\ KillKnows /\ BatchKnows
  BY DEF InspectionInv
<1>1. ASSUME NEW b \in Batches, Create(b) \/ BatchThread(b) PROVE ProposerOwns'
  <2>1. CASE Create(b)  BY <1>0, <2>1 DEF Create, Creatable
  <2>2. CASE RunStart(b)  BY <1>0, <2>2 DEF RunStart, TargetsOf
  <2>3. CASE RunFinish(b)
    BY <1>0, <2>3 DEF RunFinish, Finished, PoolDone, TargetsOf
  <2> QED BY <1>1, <2>1, <2>2, <2>3 DEF BatchThread
<1>2. ASSUME NEW s \in Sessions, Worker(s) PROVE ProposerOwns'
  <2>1. CASE InspectSkip(s)  BY <1>0, <2>1 DEF InspectSkip
  <2>2. CASE InspectRefuse(s)
    BY <1>0, <2>2 DEF InspectRefuse, UpdateTarget, FailureStatus
  <2>3. CASE InspectClaim(s)  BY <1>0, <2>3 DEF InspectClaim, UpdateTarget
  <2>4. CASE InspectCreate(s)  BY <1>0, <2>4 DEF InspectCreate
  <2>5. CASE InspectCreateFails(s)
    BY <1>0, <2>5 DEF InspectCreateFails, UpdateTarget, FailureStatus
  <2>6. CASE InspectReport(s)  BY <1>0, <2>6 DEF InspectReport
  <2>7. CASE InspectFail(s)  BY <1>0, <2>7 DEF InspectFail, FailureStatus
  <2>8. CASE InspectPublish(s)  BY <1>0, <2>8 DEF InspectPublish, UpdateTarget
  <2> QED BY <1>2, <2>1, <2>2, <2>3, <2>4, <2>5, <2>6, <2>7, <2>8 DEF Worker
<1>3. ASSUME NEW t \in Threads, Run(t) \/ ChildExits(t) PROVE ProposerOwns'
  <2>1. CASE SpawnEnter(t)  BY <1>0, <2>1 DEF SpawnEnter
  <2>2. CASE SpawnBusy(t)
    BY <1>0, <2>2, WhereRunsGo DEF SpawnBusy, EndRun, Unregister, Subject
  <2>3. CASE SpawnCheck(t)
    <3>1. CASE MaySpawn(t)
      BY <1>0, <2>3, <3>1 DEF SpawnCheck, MaySpawn, Subject
    <3>2. CASE ~MaySpawn(t)
      <4>1. PICK next \in After(t, "error") : Go(t, next)
        BY <2>3, <3>2 DEF SpawnCheck, EndRun
      <4> QED BY SMTT(30), <1>0, <2>3, <3>2, <4>1, WhereRunsGo
        DEF SpawnCheck, EndRun, Unregister, Subject
    <3> QED BY <3>1, <3>2
  <2>4. CASE Register(t)
    <3>1. CASE MayRegister(t) /\ pc' = [pc EXCEPT ![t] = "streaming"]
      BY <1>0, <2>4, <3>1, WhereRunsGo
      DEF Register, EndRun, Unregister, Subject, MayRegister
    <3>2. CASE ~MayRegister(t)
      <4>1. PICK next \in After(t, "error") : Go(t, next)
        BY <2>4, <3>2 DEF Register, EndRun
      <4> QED BY SMTT(30), <1>0, <2>4, <3>2, <4>1, WhereRunsGo
        DEF Register, EndRun, Unregister, Subject
    <3> QED BY <2>4, <3>1, <3>2 DEF Register
  <2>5. CASE RunEnds(t)
    BY <1>0, <2>5, WhereRunsGo DEF RunEnds, EndRun, Unregister, Subject, Killed
  <2>6. CASE ChildExits(t)  BY <1>0, <2>6 DEF ChildExits
  <2> QED BY <1>3, <2>1, <2>2, <2>3, <2>4, <2>5, <2>6 DEF Run
<1>4. ASSUME NEW p \in Proposers, Proposer(p) \/ \E s \in Sessions : ProposeRead(p, s)
      PROVE ProposerOwns'
  <2>1. CASE ProposeClaim(p)  BY <1>0, <2>1 DEF ProposeClaim
  <2>2. CASE ProposeEnd(p)  BY <1>0, <2>2 DEF ProposeEnd
  <2>3. ASSUME NEW s \in Sessions, ProposeRead(p, s) PROVE ProposerOwns'
    BY <1>0, <2>3 DEF ProposeRead
  <2> QED BY <1>4, <2>1, <2>2, <2>3 DEF Proposer
<1>5. ASSUME NEW h \in Cancellers, CancelStep(h) \/ \E b \in Batches : CancelBegin(h, b)
      PROVE ProposerOwns'
  <2>1. ASSUME NEW s \in Sessions, CancelClaim(h, s) PROVE ProposerOwns'
    <3>1. CASE status[s] \in ACTIVE_STATUSES
      <4>1. /\ cancelReq' = [cancelReq EXCEPT ![s] = TRUE] /\ cur' = [cur EXCEPT ![h] = s]
            /\ cpc' = [cpc EXCEPT ![h] = "killing"] /\ todo' = todo
        BY <2>1, <3>1 DEF CancelClaim
      <4> QED BY <1>0, <2>1, <4>1 DEF CancelClaim
    <3>2. CASE status[s] \notin ACTIVE_STATUSES
      BY <1>0, <2>1, <3>2 DEF CancelClaim, ACTIVE_STATUSES, Running
    <3> QED BY <3>1, <3>2
  <2>2. CASE CancelKill(h)  BY <1>0, <2>2 DEF CancelKill, Unregister, Killed
  <2>3. CASE CancelSeal(h)  BY <1>0, <2>3 DEF CancelSeal
  <2>4. CASE CancelBusy(h)  BY <1>0, <2>4 DEF CancelBusy
  <2>5. CASE CancelMark(h)  BY <1>0, <2>5 DEF CancelMark, MarkCancelled, TargetsOf
  <2>6. ASSUME NEW b \in Batches, CancelBegin(h, b) PROVE ProposerOwns'
    BY <1>0, <2>6 DEF CancelBegin, ToCancel, TargetsOf
  <2> QED BY <1>5, <2>1, <2>2, <2>3, <2>4, <2>5, <2>6 DEF CancelStep
<1>6. ASSUME KillArm \/ KillStep PROVE ProposerOwns'
  <2>1. CASE KillArm  BY <1>0, <2>1 DEF KillArm, Killed
  <2>2. CASE KillClaim  BY <1>0, <2>2 DEF KillClaim
  <2>3. CASE KillMark  BY <1>0, <2>3 DEF KillMark
  <2> QED BY <1>6, <2>1, <2>2, <2>3 DEF KillStep
<1>7. CASE Crash  BY <1>0, <1>7 DEF Crash
<1>8. CASE Recover
  BY <1>0, <1>8 DEF Recover, RecoverSessions, RecoverBatch, Subject, Interrupted,
  Running
<1> QED BY <1>1, <1>2, <1>3, <1>4, <1>5, <1>6, <1>7, <1>8 DEF Next

\* Whose process a session is registered for follows from what its owner knows.
LEMMA OwnersAreRegistered ==
  ASSUME InspectionInv, ProposerOwns
  PROVE  LiveIsRegistered /\ KillSwitchQuiet
BY DEF InspectionInv, TypeOK, ProcessType, Threads, WorkerOwns, ProposerOwns,
   LiveIsRegistered, KillSwitchQuiet, Subject

\* Every live process is registered, and can be reached by a cancel and by the kill
\* switch, as long as no session is proposed for twice at once (generate_proposal
\* reads the journal and writes it later; the registry has one place per session).
THEOREM RegistryInvariant == Spec /\ []NeverTwice => []RegistryInv
<1>1. Init => RegistryInv
  <2>1. Init => ProposerOwns
    BY DEF Init, ProposerOwns, Threads
  <2> QED BY <2>1, InspectionInit, OwnersAreRegistered DEF RegistryInv
<1>2. RegistryInv /\ NeverTwice /\ [Next]_vars /\ InspectionInv' => RegistryInv'
  <2> SUFFICES ASSUME RegistryInv, NeverTwice, [Next]_vars, InspectionInv'
               PROVE  RegistryInv'
    OBVIOUS
  <2>1. ProposerOwns'
    <3>1. CASE Next  BY <3>1, ProposerOwnsStep DEF RegistryInv
    <3>2. CASE UNCHANGED vars
      BY <3>2 DEF RegistryInv, ProposerOwns, vars, disk, work, cancel, kill
    <3> QED BY <3>1, <3>2
  <2>2. LiveIsRegistered'
    BY <2>1
    DEF InspectionInv, TypeOK, ProcessType, Threads, WorkerOwns, ProposerOwns,
       LiveIsRegistered, Subject
  <2> QED BY <2>1, <2>2 DEF RegistryInv
<1> QED BY <1>1, <1>2, InspectionInvariant, PTL DEF Spec

\* After the kill switch no inspection and no proposal runs, on the same condition.
THEOREM KillSwitchIsQuiet == Spec /\ []NeverTwice => []KillSwitchQuiet
<1>1. RegistryInv => KillSwitchQuiet
  BY OwnersAreRegistered DEF RegistryInv
<1> QED BY <1>1, RegistryInvariant, PTL

\* Both hold without a condition where at most one proposal is generated at a time.
THEOREM OneProposerIsEnough ==
  ASSUME \A p, q \in Proposers : p = q
  PROVE  Spec => []RegistryInv /\ []KillSwitchQuiet
<1>1. NeverTwice  BY DEF NeverTwice
<1> QED BY <1>1, RegistryInvariant, KillSwitchIsQuiet, PTL
=============================================================================
