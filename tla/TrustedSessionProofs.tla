------------------------ MODULE TrustedSessionProofs ------------------------
(***************************************************************************)
(* What TLAPS proves of TrustedSession, for any number of sessions, HTTP   *)
(* handlers, control intents, requests and crashes.                        *)
(*                                                                         *)
(* The safety properties follow from OwnershipInv, whose conjuncts lean on *)
(* one another: a stop may seal CANCELLED because of what it knows once it *)
(* has killed (StopKnows), which holds because a launch and a kill exclude *)
(* each other through the gate (GateOwned), and because a process that is  *)
(* not lost is registered (LiveIsReachable).  One lemma for each conjunct  *)
(* shows that every step of the system keeps it; OwnershipInvariant puts   *)
(* the lemmas together.                                                    *)
(***************************************************************************)
EXTENDS TrustedSession, FiniteSetTheorems, TLAPS

\* A handler at work has an intent, which names a session and a terminal status.
LEMMA TargetType ==
  ASSUME OwnershipInv, NEW h \in Handlers, cpc[h] # "idle"
  PROVE  Target(h) \in Sessions /\ Goal(h) \in Goals /\ command[h] \in Commands
BY IntentAssumption DEF OwnershipInv, StopKnows, Target, Goal, Goals, ControlIntents

-----------------------------------------------------------------------------
(* Types.                                                                  *)


\* The journal keeps its type: a seal writes the terminal status of an intent, a
\* result is one of those the run may end in.
LEMMA JournalTypeStep == ASSUME OwnershipInv, Next PROVE JournalType'
<1> USE TargetType, ActorsAssumption
    DEF journal, process, memory, run, ctl, killer, RunAt, SetRun, StartRun,
        EndRun, Raise, Unlock, CtlAt, SetCtl, EndCtl, KillerAt, Grantable,
        MaySpawn, Refuse, StreamDone, MayPersist, Settled, MaySeal, RunPCs,
        ControlPCs, KillPCs
<1> USE DEF JournalType, RunKnows
<1>0. JournalType /\ RunKnows
  BY DEF OwnershipInv, TypeOK
<1>1. ASSUME NEW s \in Sessions, RunStep(s) PROVE JournalType'
  <2>1. CASE AcceptSession(s)  BY <1>0, <2>1 DEF AcceptSession, RepairSessionStatus
  <2>2. CASE ResumeLock(s)  BY <1>0, <2>2 DEF ResumeLock
  <2>3. CASE ResumeClaim(s)  BY <1>0, <2>3 DEF ResumeClaim, RepairSessionStatus
  <2>4. CASE SpawnGate(s)  BY <1>0, <2>4 DEF SpawnGate
  <2>5. CASE PreSpawn(s)  BY <1>0, <2>5 DEF PreSpawn, RepairSessionStatus
  <2>6. CASE Launch(s)  BY <1>0, <2>6 DEF Launch
  <2>7. CASE LaunchFails(s)  BY <1>0, <2>7 DEF LaunchFails
  <2>8. CASE RecordProcess(s)  BY <1>0, <2>8 DEF RecordProcess
  <2>9. CASE ReadCommand(s)  BY <1>0, <2>9 DEF ReadCommand
  <2>10. CASE StreamEnd(s)  BY <1>0, <2>10 DEF StreamEnd
  <2>11. CASE StreamAbort(s)  BY <1>0, <2>11 DEF StreamAbort
  <2>12. CASE PersistResult(s)
    <3>1. aim[s] \in RepairSessionStatus
      BY <1>0, <2>12 DEF PersistResult, Results, RepairSessionStatus
    <3>2. remote[s] \in BOOLEAN  BY DEF OwnershipInv, TypeOK, RunType
    <3> QED BY <1>0, <2>12, <3>1, <3>2 DEF PersistResult
  <2>13. CASE RecordUncertainLoad(s)  BY <1>0, <2>13 DEF RecordUncertainLoad
  <2>14. CASE RecordUncertainUpdate(s)
    BY <1>0, <2>14 DEF RecordUncertainUpdate, RepairSessionStatus
  <2> QED BY <1>1, <2>1, <2>2, <2>3, <2>4, <2>5, <2>6, <2>7, <2>8, <2>9, <2>10,
             <2>11, <2>12, <2>13, <2>14 DEF RunStep
<1>2. ASSUME NEW s \in Sessions, ProcessStep(s) PROVE JournalType'
  <2>1. CASE RemoteCommand(s)  BY <1>0, <2>1 DEF RemoteCommand
  <2>2. CASE ProcessExit(s)  BY <1>0, <2>2 DEF ProcessExit
  <2> QED BY <1>2, <2>1, <2>2 DEF ProcessStep
<1>3. ASSUME NEW h \in Handlers, ControlStep(h) PROVE JournalType'
  <2>1. CASE CloseLock(h)  BY <1>0, <2>1 DEF CloseLock
  <2>2. CASE CloseSeal(h)
    <3>1. /\ Goal(h) \in RepairSessionStatus /\ Target(h) \in Sessions
          /\ command[h] \in Commands
      BY <2>2 DEF CloseSeal, Goals, RepairSessionStatus
    <3> QED BY <1>0, <2>2, <3>1 DEF CloseSeal
  <2>3. CASE StopLock(h)  BY <1>0, <2>3 DEF StopLock
  <2>4. CASE StopClaim(h)
    <3>1. Target(h) \in Sessions /\ command[h] \in Commands  BY <2>4 DEF StopClaim
    <3> QED BY <1>0, <2>4, <3>1 DEF StopClaim
  <2>5. CASE StopGate(h)  BY <1>0, <2>5 DEF StopGate
  <2>6. CASE StopKill(h)  BY <1>0, <2>6 DEF StopKill
  <2>7. CASE SealLock(h)  BY <1>0, <2>7 DEF SealLock
  <2>8. CASE StopSeal(h)
    <3>1. /\ Goal(h) \in RepairSessionStatus /\ Target(h) \in Sessions
          /\ command[h] \in Commands
      BY <2>8 DEF StopSeal, Goals, RepairSessionStatus
    <3>2. "MANUAL_INTERVENTION" \in RepairSessionStatus  BY DEF RepairSessionStatus
    <3> QED BY <1>0, <2>8, <3>1, <3>2 DEF StopSeal
  <2> QED BY <1>3, <2>1, <2>2, <2>3, <2>4, <2>5, <2>6, <2>7, <2>8 DEF ControlStep
<1>4. ASSUME KillStep PROVE JournalType'
  <2>1. CASE KillWriteFile  BY <1>0, <2>1 DEF KillWriteFile
  <2>2. CASE KillProcesses  BY <1>0, <2>2 DEF KillProcesses
  <2>3. CASE KillReturn  BY <1>0, <2>3 DEF KillReturn
  <2>4. ASSUME NEW s \in Sessions, KillLock(s) PROVE JournalType'
    BY <1>0, <2>4 DEF KillLock, ToClaim, ToMark
  <2>5. ASSUME NEW s \in Sessions, KillClaim(s) PROVE JournalType'
    BY <1>0, <2>5 DEF KillClaim, ToClaim, ToMark
  <2>6. ASSUME NEW s \in Sessions, KillMark(s) PROVE JournalType'
    BY <1>0, <2>6 DEF KillMark, ToClaim, ToMark, RepairSessionStatus
  <2> QED BY <1>4, <2>1, <2>2, <2>3, <2>4, <2>5, <2>6 DEF KillStep
<1>5. ASSUME RequestStep PROVE JournalType'
  <2>1. ASSUME NEW s \in Sessions, CreateLock(s) PROVE JournalType'
    BY <1>0, <2>1 DEF CreateLock
  <2>2. ASSUME NEW s \in Sessions, NEW k \in Grants, Grant(s, k) PROVE JournalType'
    BY <1>0, <2>2 DEF Grant
  <2>3. ASSUME NEW h \in Handlers, NEW c \in Commands, ControlRequest(h, c)
         PROVE JournalType'
    BY <1>0, <2>3 DEF ControlRequest
  <2>4. CASE KillArm  BY <1>0, <2>4 DEF KillArm
  <2>5. CASE KillDeactivate  BY <1>0, <2>5 DEF KillDeactivate
  <2> QED BY <1>5, <2>1, <2>2, <2>3, <2>4, <2>5 DEF RequestStep
<1>6. ASSUME RecoverStep PROVE JournalType'
  <2>1. CASE RecoverDone  BY <1>0, <2>1 DEF RecoverDone
  <2>2. ASSUME NEW s \in Sessions, RecoverSession(s) PROVE JournalType'
    BY <1>0, <2>2 DEF RecoverSession, RepairSessionStatus
  <2> QED BY <1>6, <2>1, <2>2 DEF RecoverStep
<1>7. CASE Crash  BY <1>0, <1>7 DEF Crash
<1> QED BY <1>1, <1>2, <1>3, <1>4, <1>5, <1>6, <1>7 DEF Next

\* The processes keep their type; executions only counts up.
LEMMA ProcessTypeStep == ASSUME OwnershipInv, Next PROVE ProcessType'
<1> USE TargetType, ActorsAssumption
    DEF journal, process, memory, run, ctl, killer, RunAt, SetRun, StartRun,
        EndRun, Raise, Unlock, CtlAt, SetCtl, EndCtl, KillerAt, Grantable,
        MaySpawn, Refuse, StreamDone, MayPersist, Settled, MaySeal, RunPCs,
        ControlPCs, KillPCs
<1> USE DEF ProcessType
<1>0. ProcessType
  BY DEF OwnershipInv, TypeOK
<1>1. ASSUME NEW s \in Sessions, RunStep(s) PROVE ProcessType'
  <2>1. CASE AcceptSession(s)  BY <1>0, <2>1 DEF AcceptSession
  <2>2. CASE ResumeLock(s)  BY <1>0, <2>2 DEF ResumeLock
  <2>3. CASE ResumeClaim(s)  BY <1>0, <2>3 DEF ResumeClaim
  <2>4. CASE SpawnGate(s)  BY <1>0, <2>4 DEF SpawnGate
  <2>5. CASE PreSpawn(s)  BY <1>0, <2>5 DEF PreSpawn
  <2>6. CASE Launch(s)  BY <1>0, <2>6 DEF Launch
  <2>7. CASE LaunchFails(s)  BY <1>0, <2>7 DEF LaunchFails
  <2>8. CASE RecordProcess(s)  BY <1>0, <2>8 DEF RecordProcess
  <2>9. CASE ReadCommand(s)  BY <1>0, <2>9 DEF ReadCommand
  <2>10. CASE StreamEnd(s)  BY <1>0, <2>10 DEF StreamEnd
  <2>11. CASE StreamAbort(s)  BY <1>0, <2>11 DEF StreamAbort
  <2>12. CASE PersistResult(s)  BY <1>0, <2>12 DEF PersistResult
  <2>13. CASE RecordUncertainLoad(s)  BY <1>0, <2>13 DEF RecordUncertainLoad
  <2>14. CASE RecordUncertainUpdate(s)  BY <1>0, <2>14 DEF RecordUncertainUpdate
  <2> QED BY <1>1, <2>1, <2>2, <2>3, <2>4, <2>5, <2>6, <2>7, <2>8, <2>9, <2>10,
             <2>11, <2>12, <2>13, <2>14 DEF RunStep
<1>2. ASSUME NEW s \in Sessions, ProcessStep(s) PROVE ProcessType'
  <2>1. CASE RemoteCommand(s)  BY <1>0, <2>1 DEF RemoteCommand
  <2>2. CASE ProcessExit(s)  BY <1>0, <2>2 DEF ProcessExit
  <2> QED BY <1>2, <2>1, <2>2 DEF ProcessStep
<1>3. ASSUME NEW h \in Handlers, ControlStep(h) PROVE ProcessType'
  <2>1. CASE CloseLock(h)  BY <1>0, <2>1 DEF CloseLock
  <2>2. CASE CloseSeal(h)  BY <1>0, <2>2 DEF CloseSeal
  <2>3. CASE StopLock(h)  BY <1>0, <2>3 DEF StopLock
  <2>4. CASE StopClaim(h)  BY <1>0, <2>4 DEF StopClaim
  <2>5. CASE StopGate(h)  BY <1>0, <2>5 DEF StopGate
  <2>6. CASE StopKill(h)  BY <1>0, <2>6 DEF StopKill
  <2>7. CASE SealLock(h)  BY <1>0, <2>7 DEF SealLock
  <2>8. CASE StopSeal(h)  BY <1>0, <2>8 DEF StopSeal
  <2> QED BY <1>3, <2>1, <2>2, <2>3, <2>4, <2>5, <2>6, <2>7, <2>8 DEF ControlStep
<1>4. ASSUME KillStep PROVE ProcessType'
  <2>1. CASE KillWriteFile  BY <1>0, <2>1 DEF KillWriteFile
  <2>2. CASE KillProcesses  BY <1>0, <2>2 DEF KillProcesses
  <2>3. CASE KillReturn  BY <1>0, <2>3 DEF KillReturn
  <2>4. ASSUME NEW s \in Sessions, KillLock(s) PROVE ProcessType'
    BY <1>0, <2>4 DEF KillLock, ToClaim, ToMark
  <2>5. ASSUME NEW s \in Sessions, KillClaim(s) PROVE ProcessType'
    BY <1>0, <2>5 DEF KillClaim, ToClaim, ToMark
  <2>6. ASSUME NEW s \in Sessions, KillMark(s) PROVE ProcessType'
    BY <1>0, <2>6 DEF KillMark, ToClaim, ToMark
  <2> QED BY <1>4, <2>1, <2>2, <2>3, <2>4, <2>5, <2>6 DEF KillStep
<1>5. ASSUME RequestStep PROVE ProcessType'
  <2>1. ASSUME NEW s \in Sessions, CreateLock(s) PROVE ProcessType'
    BY <1>0, <2>1 DEF CreateLock
  <2>2. ASSUME NEW s \in Sessions, NEW k \in Grants, Grant(s, k) PROVE ProcessType'
    BY <1>0, <2>2 DEF Grant
  <2>3. ASSUME NEW h \in Handlers, NEW c \in Commands, ControlRequest(h, c)
         PROVE ProcessType'
    BY <1>0, <2>3 DEF ControlRequest
  <2>4. CASE KillArm  BY <1>0, <2>4 DEF KillArm
  <2>5. CASE KillDeactivate  BY <1>0, <2>5 DEF KillDeactivate
  <2> QED BY <1>5, <2>1, <2>2, <2>3, <2>4, <2>5 DEF RequestStep
<1>6. ASSUME RecoverStep PROVE ProcessType'
  <2>1. CASE RecoverDone  BY <1>0, <2>1 DEF RecoverDone
  <2>2. ASSUME NEW s \in Sessions, RecoverSession(s) PROVE ProcessType'
    BY <1>0, <2>2 DEF RecoverSession
  <2> QED BY <1>6, <2>1, <2>2 DEF RecoverStep
<1>7. CASE Crash  BY <1>0, <1>7 DEF Crash
<1> QED BY <1>1, <1>2, <1>3, <1>4, <1>5, <1>6, <1>7 DEF Next

\* The locks keep their type: only actors hold them.
LEMMA LockTypeStep == ASSUME OwnershipInv, Next PROVE LockType'
<1> USE TargetType, ActorsAssumption
    DEF journal, process, memory, run, ctl, killer, RunAt, SetRun, StartRun,
        EndRun, Raise, Unlock, CtlAt, SetCtl, EndCtl, KillerAt, Grantable,
        MaySpawn, Refuse, StreamDone, MayPersist, Settled, MaySeal, RunPCs,
        ControlPCs, KillPCs
<1> USE DEF LockType, JournalType
<1>0. JournalType /\ LockType
  BY DEF OwnershipInv, TypeOK
<1>1. ASSUME NEW s \in Sessions, RunStep(s) PROVE LockType'
  <2>1. CASE AcceptSession(s)  BY <1>0, <2>1 DEF AcceptSession
  <2>2. CASE ResumeLock(s)  BY <1>0, <2>2 DEF ResumeLock
  <2>3. CASE ResumeClaim(s)  BY <1>0, <2>3 DEF ResumeClaim
  <2>4. CASE SpawnGate(s)  BY <1>0, <2>4 DEF SpawnGate
  <2>5. CASE PreSpawn(s)  BY <1>0, <2>5 DEF PreSpawn
  <2>6. CASE Launch(s)  BY <1>0, <2>6 DEF Launch
  <2>7. CASE LaunchFails(s)  BY <1>0, <2>7 DEF LaunchFails
  <2>8. CASE RecordProcess(s)  BY <1>0, <2>8 DEF RecordProcess
  <2>9. CASE ReadCommand(s)  BY <1>0, <2>9 DEF ReadCommand
  <2>10. CASE StreamEnd(s)  BY <1>0, <2>10 DEF StreamEnd
  <2>11. CASE StreamAbort(s)  BY <1>0, <2>11 DEF StreamAbort
  <2>12. CASE PersistResult(s)  BY <1>0, <2>12 DEF PersistResult
  <2>13. CASE RecordUncertainLoad(s)  BY <1>0, <2>13 DEF RecordUncertainLoad
  <2>14. CASE RecordUncertainUpdate(s)  BY <1>0, <2>14 DEF RecordUncertainUpdate
  <2> QED BY <1>1, <2>1, <2>2, <2>3, <2>4, <2>5, <2>6, <2>7, <2>8, <2>9, <2>10,
             <2>11, <2>12, <2>13, <2>14 DEF RunStep
<1>2. ASSUME NEW s \in Sessions, ProcessStep(s) PROVE LockType'
  <2>1. CASE RemoteCommand(s)  BY <1>0, <2>1 DEF RemoteCommand
  <2>2. CASE ProcessExit(s)  BY <1>0, <2>2 DEF ProcessExit
  <2> QED BY <1>2, <2>1, <2>2 DEF ProcessStep
<1>3. ASSUME NEW h \in Handlers, ControlStep(h) PROVE LockType'
  <2>1. CASE CloseLock(h)  BY <1>0, <2>1 DEF CloseLock
  <2>2. CASE CloseSeal(h)  BY <1>0, <2>2 DEF CloseSeal
  <2>3. CASE StopLock(h)  BY <1>0, <2>3 DEF StopLock
  <2>4. CASE StopClaim(h)  BY <1>0, <2>4 DEF StopClaim
  <2>5. CASE StopGate(h)  BY <1>0, <2>5 DEF StopGate
  <2>6. CASE StopKill(h)  BY <1>0, <2>6 DEF StopKill
  <2>7. CASE SealLock(h)  BY <1>0, <2>7 DEF SealLock
  <2>8. CASE StopSeal(h)  BY <1>0, <2>8 DEF StopSeal
  <2> QED BY <1>3, <2>1, <2>2, <2>3, <2>4, <2>5, <2>6, <2>7, <2>8 DEF ControlStep
<1>4. ASSUME KillStep PROVE LockType'
  <2>1. CASE KillWriteFile  BY <1>0, <2>1 DEF KillWriteFile
  <2>2. CASE KillProcesses  BY <1>0, <2>2 DEF KillProcesses
  <2>3. CASE KillReturn  BY <1>0, <2>3 DEF KillReturn
  <2>4. ASSUME NEW s \in Sessions, KillLock(s) PROVE LockType'
    BY <1>0, <2>4 DEF KillLock, ToClaim, ToMark
  <2>5. ASSUME NEW s \in Sessions, KillClaim(s) PROVE LockType'
    BY <1>0, <2>5 DEF KillClaim, ToClaim, ToMark
  <2>6. ASSUME NEW s \in Sessions, KillMark(s) PROVE LockType'
    BY <1>0, <2>6 DEF KillMark, ToClaim, ToMark
  <2> QED BY <1>4, <2>1, <2>2, <2>3, <2>4, <2>5, <2>6 DEF KillStep
<1>5. ASSUME RequestStep PROVE LockType'
  <2>1. ASSUME NEW s \in Sessions, CreateLock(s) PROVE LockType'
    BY <1>0, <2>1 DEF CreateLock
  <2>2. ASSUME NEW s \in Sessions, NEW k \in Grants, Grant(s, k) PROVE LockType'
    BY <1>0, <2>2 DEF Grant
  <2>3. ASSUME NEW h \in Handlers, NEW c \in Commands, ControlRequest(h, c)
         PROVE LockType'
    BY <1>0, <2>3 DEF ControlRequest
  <2>4. CASE KillArm  BY <1>0, <2>4 DEF KillArm
  <2>5. CASE KillDeactivate  BY <1>0, <2>5 DEF KillDeactivate
  <2> QED BY <1>5, <2>1, <2>2, <2>3, <2>4, <2>5 DEF RequestStep
<1>6. ASSUME RecoverStep PROVE LockType'
  <2>1. CASE RecoverDone  BY <1>0, <2>1 DEF RecoverDone
  <2>2. ASSUME NEW s \in Sessions, RecoverSession(s) PROVE LockType'
    BY <1>0, <2>2 DEF RecoverSession
  <2> QED BY <1>6, <2>1, <2>2 DEF RecoverStep
<1>7. CASE Crash  BY <1>0, <1>7 DEF Crash
<1> QED BY <1>1, <1>2, <1>3, <1>4, <1>5, <1>6, <1>7 DEF Next

\* The run threads keep their type.
LEMMA RunTypeStep == ASSUME OwnershipInv, Next PROVE RunType'
<1> USE TargetType, ActorsAssumption
    DEF journal, process, memory, run, ctl, killer, RunAt, SetRun, StartRun,
        EndRun, Raise, Unlock, CtlAt, SetCtl, EndCtl, KillerAt, Grantable,
        MaySpawn, Refuse, StreamDone, MayPersist, Settled, MaySeal, RunPCs,
        ControlPCs, KillPCs
<1> USE DEF RunType
<1>0. RunType
  BY DEF OwnershipInv, TypeOK
<1>1. ASSUME NEW s \in Sessions, RunStep(s) PROVE RunType'
  <2>1. CASE AcceptSession(s)  BY <1>0, <2>1 DEF AcceptSession
  <2>2. CASE ResumeLock(s)  BY <1>0, <2>2 DEF ResumeLock
  <2>3. CASE ResumeClaim(s)  BY <1>0, <2>3 DEF ResumeClaim
  <2>4. CASE SpawnGate(s)  BY <1>0, <2>4 DEF SpawnGate
  <2>5. CASE PreSpawn(s)  BY <1>0, <2>5 DEF PreSpawn
  <2>6. CASE Launch(s)  BY <1>0, <2>6 DEF Launch
  <2>7. CASE LaunchFails(s)  BY <1>0, <2>7 DEF LaunchFails
  <2>8. CASE RecordProcess(s)  BY <1>0, <2>8 DEF RecordProcess
  <2>9. CASE ReadCommand(s)  BY <1>0, <2>9 DEF ReadCommand
  <2>10. CASE StreamEnd(s)
    BY <1>0, <2>10 DEF StreamEnd, Results, RepairSessionStatus
  <2>11. CASE StreamAbort(s)  BY <1>0, <2>11 DEF StreamAbort
  <2>12. CASE PersistResult(s)  BY <1>0, <2>12 DEF PersistResult
  <2>13. CASE RecordUncertainLoad(s)
    BY <1>0, <2>13 DEF RecordUncertainLoad, RepairSessionStatus
  <2>14. CASE RecordUncertainUpdate(s)  BY <1>0, <2>14 DEF RecordUncertainUpdate
  <2> QED BY <1>1, <2>1, <2>2, <2>3, <2>4, <2>5, <2>6, <2>7, <2>8, <2>9, <2>10,
             <2>11, <2>12, <2>13, <2>14 DEF RunStep
<1>2. ASSUME NEW s \in Sessions, ProcessStep(s) PROVE RunType'
  <2>1. CASE RemoteCommand(s)  BY <1>0, <2>1 DEF RemoteCommand
  <2>2. CASE ProcessExit(s)  BY <1>0, <2>2 DEF ProcessExit
  <2> QED BY <1>2, <2>1, <2>2 DEF ProcessStep
<1>3. ASSUME NEW h \in Handlers, ControlStep(h) PROVE RunType'
  <2>1. CASE CloseLock(h)  BY <1>0, <2>1 DEF CloseLock
  <2>2. CASE CloseSeal(h)  BY <1>0, <2>2 DEF CloseSeal
  <2>3. CASE StopLock(h)  BY <1>0, <2>3 DEF StopLock
  <2>4. CASE StopClaim(h)  BY <1>0, <2>4 DEF StopClaim
  <2>5. CASE StopGate(h)  BY <1>0, <2>5 DEF StopGate
  <2>6. CASE StopKill(h)  BY <1>0, <2>6 DEF StopKill
  <2>7. CASE SealLock(h)  BY <1>0, <2>7 DEF SealLock
  <2>8. CASE StopSeal(h)  BY <1>0, <2>8 DEF StopSeal
  <2> QED BY <1>3, <2>1, <2>2, <2>3, <2>4, <2>5, <2>6, <2>7, <2>8 DEF ControlStep
<1>4. ASSUME KillStep PROVE RunType'
  <2>1. CASE KillWriteFile  BY <1>0, <2>1 DEF KillWriteFile
  <2>2. CASE KillProcesses  BY <1>0, <2>2 DEF KillProcesses
  <2>3. CASE KillReturn  BY <1>0, <2>3 DEF KillReturn
  <2>4. ASSUME NEW s \in Sessions, KillLock(s) PROVE RunType'
    BY <1>0, <2>4 DEF KillLock, ToClaim, ToMark
  <2>5. ASSUME NEW s \in Sessions, KillClaim(s) PROVE RunType'
    BY <1>0, <2>5 DEF KillClaim, ToClaim, ToMark
  <2>6. ASSUME NEW s \in Sessions, KillMark(s) PROVE RunType'
    BY <1>0, <2>6 DEF KillMark, ToClaim, ToMark
  <2> QED BY <1>4, <2>1, <2>2, <2>3, <2>4, <2>5, <2>6 DEF KillStep
<1>5. ASSUME RequestStep PROVE RunType'
  <2>1. ASSUME NEW s \in Sessions, CreateLock(s) PROVE RunType'
    BY <1>0, <2>1 DEF CreateLock
  <2>2. ASSUME NEW s \in Sessions, NEW k \in Grants, Grant(s, k) PROVE RunType'
    BY <1>0, <2>2 DEF Grant
  <2>3. ASSUME NEW h \in Handlers, NEW c \in Commands, ControlRequest(h, c)
         PROVE RunType'
    BY <1>0, <2>3 DEF ControlRequest
  <2>4. CASE KillArm  BY <1>0, <2>4 DEF KillArm
  <2>5. CASE KillDeactivate  BY <1>0, <2>5 DEF KillDeactivate
  <2> QED BY <1>5, <2>1, <2>2, <2>3, <2>4, <2>5 DEF RequestStep
<1>6. ASSUME RecoverStep PROVE RunType'
  <2>1. CASE RecoverDone  BY <1>0, <2>1 DEF RecoverDone
  <2>2. ASSUME NEW s \in Sessions, RecoverSession(s) PROVE RunType'
    BY <1>0, <2>2 DEF RecoverSession
  <2> QED BY <1>6, <2>1, <2>2 DEF RecoverStep
<1>7. CASE Crash  BY <1>0, <1>7 DEF Crash
<1> QED BY <1>1, <1>2, <1>3, <1>4, <1>5, <1>6, <1>7 DEF Next

\* The handlers and the kill switch call keep their type.
LEMMA ControlTypeStep == ASSUME OwnershipInv, Next PROVE ControlType'
<1> USE TargetType, ActorsAssumption
    DEF journal, process, memory, run, ctl, killer, RunAt, SetRun, StartRun,
        EndRun, Raise, Unlock, CtlAt, SetCtl, EndCtl, KillerAt, Grantable,
        MaySpawn, Refuse, StreamDone, MayPersist, Settled, MaySeal, RunPCs,
        ControlPCs, KillPCs
<1> USE DEF ControlType
<1>0. ControlType
  BY DEF OwnershipInv, TypeOK
<1>1. ASSUME NEW s \in Sessions, RunStep(s) PROVE ControlType'
  <2>1. CASE AcceptSession(s)  BY <1>0, <2>1 DEF AcceptSession
  <2>2. CASE ResumeLock(s)  BY <1>0, <2>2 DEF ResumeLock
  <2>3. CASE ResumeClaim(s)  BY <1>0, <2>3 DEF ResumeClaim
  <2>4. CASE SpawnGate(s)  BY <1>0, <2>4 DEF SpawnGate
  <2>5. CASE PreSpawn(s)  BY <1>0, <2>5 DEF PreSpawn
  <2>6. CASE Launch(s)  BY <1>0, <2>6 DEF Launch
  <2>7. CASE LaunchFails(s)  BY <1>0, <2>7 DEF LaunchFails
  <2>8. CASE RecordProcess(s)  BY <1>0, <2>8 DEF RecordProcess
  <2>9. CASE ReadCommand(s)  BY <1>0, <2>9 DEF ReadCommand
  <2>10. CASE StreamEnd(s)  BY <1>0, <2>10 DEF StreamEnd
  <2>11. CASE StreamAbort(s)  BY <1>0, <2>11 DEF StreamAbort
  <2>12. CASE PersistResult(s)  BY <1>0, <2>12 DEF PersistResult
  <2>13. CASE RecordUncertainLoad(s)  BY <1>0, <2>13 DEF RecordUncertainLoad
  <2>14. CASE RecordUncertainUpdate(s)  BY <1>0, <2>14 DEF RecordUncertainUpdate
  <2> QED BY <1>1, <2>1, <2>2, <2>3, <2>4, <2>5, <2>6, <2>7, <2>8, <2>9, <2>10,
             <2>11, <2>12, <2>13, <2>14 DEF RunStep
<1>2. ASSUME NEW s \in Sessions, ProcessStep(s) PROVE ControlType'
  <2>1. CASE RemoteCommand(s)  BY <1>0, <2>1 DEF RemoteCommand
  <2>2. CASE ProcessExit(s)  BY <1>0, <2>2 DEF ProcessExit
  <2> QED BY <1>2, <2>1, <2>2 DEF ProcessStep
<1>3. ASSUME NEW h \in Handlers, ControlStep(h) PROVE ControlType'
  <2>1. CASE CloseLock(h)
    <3>1. SetCtl(h, "closeheld") \/ EndCtl(h)  BY <2>1 DEF CloseLock
    <3>2. UNCHANGED <<killer, requests, crashes>>  BY <2>1 DEF CloseLock
    <3> QED BY <1>0, <3>1, <3>2
  <2>2. CASE CloseSeal(h)  BY <1>0, <2>2 DEF CloseSeal
  <2>3. CASE StopLock(h)
    <3>1. SetCtl(h, "claiming") \/ EndCtl(h)  BY <2>3 DEF StopLock
    <3>2. UNCHANGED <<killer, requests, crashes>>  BY <2>3 DEF StopLock
    <3> QED BY <1>0, <3>1, <3>2
  <2>4. CASE StopClaim(h)
    <3>1. remoteSeen[Target(h)] \in BOOLEAN
      BY <2>4 DEF StopClaim, OwnershipInv, TypeOK, JournalType
    <3>2. /\ EndCtl(h) \/ /\ cpc' = [cpc EXCEPT ![h] = "gating"]
                          /\ seen' = [seen EXCEPT ![h] = remoteSeen[Target(h)]]
                          /\ UNCHANGED <<command, had>>
          /\ UNCHANGED <<killer, requests, crashes>>
      BY <2>4 DEF StopClaim
    <3> QED BY <1>0, <3>1, <3>2
  <2>5. CASE StopGate(h)
    <3>1. registered[Target(h)] \in BOOLEAN
      BY <2>5 DEF StopGate, OwnershipInv, TypeOK, LockType
    <3> QED BY <1>0, <2>5, <3>1 DEF StopGate
  <2>6. CASE StopKill(h)
    <3>1. registered[Target(h)] \in BOOLEAN
      BY <2>6 DEF StopKill, OwnershipInv, TypeOK, LockType
    <3> QED BY <1>0, <2>6, <3>1 DEF StopKill
  <2>7. CASE SealLock(h)
    <3>1. SetCtl(h, "sealing") \/ EndCtl(h)  BY <2>7 DEF SealLock
    <3>2. UNCHANGED <<killer, requests, crashes>>  BY <2>7 DEF SealLock
    <3> QED BY <1>0, <3>1, <3>2
  <2>8. CASE StopSeal(h)  BY <1>0, <2>8 DEF StopSeal
  <2> QED BY <1>3, <2>1, <2>2, <2>3, <2>4, <2>5, <2>6, <2>7, <2>8 DEF ControlStep
<1>4. ASSUME KillStep PROVE ControlType'
  <2>1. CASE KillWriteFile  BY <1>0, <2>1 DEF KillWriteFile
  <2>2. CASE KillProcesses  BY <1>0, <2>2 DEF KillProcesses
  <2>3. CASE KillReturn  BY <1>0, <2>3 DEF KillReturn
  <2>4. ASSUME NEW s \in Sessions, KillLock(s) PROVE ControlType'
    BY <1>0, <2>4 DEF KillLock, ToClaim, ToMark
  <2>5. ASSUME NEW s \in Sessions, KillClaim(s) PROVE ControlType'
    BY <1>0, <2>5 DEF KillClaim, ToClaim, ToMark
  <2>6. ASSUME NEW s \in Sessions, KillMark(s) PROVE ControlType'
    BY <1>0, <2>6 DEF KillMark, ToClaim, ToMark
  <2> QED BY <1>4, <2>1, <2>2, <2>3, <2>4, <2>5, <2>6 DEF KillStep
<1>5. ASSUME RequestStep PROVE ControlType'
  <2>1. ASSUME NEW s \in Sessions, CreateLock(s) PROVE ControlType'
    BY <1>0, <2>1 DEF CreateLock
  <2>2. ASSUME NEW s \in Sessions, NEW k \in Grants, Grant(s, k) PROVE ControlType'
    BY <1>0, <2>2 DEF Grant
  <2>3. ASSUME NEW h \in Handlers, NEW c \in Commands, ControlRequest(h, c)
         PROVE ControlType'
    BY <1>0, <2>3 DEF ControlRequest
  <2>4. CASE KillArm  BY <1>0, <2>4 DEF KillArm
  <2>5. CASE KillDeactivate  BY <1>0, <2>5 DEF KillDeactivate
  <2> QED BY <1>5, <2>1, <2>2, <2>3, <2>4, <2>5 DEF RequestStep
<1>6. ASSUME RecoverStep PROVE ControlType'
  <2>1. CASE RecoverDone  BY <1>0, <2>1 DEF RecoverDone
  <2>2. ASSUME NEW s \in Sessions, RecoverSession(s) PROVE ControlType'
    BY <1>0, <2>2 DEF RecoverSession
  <2> QED BY <1>6, <2>1, <2>2 DEF RecoverStep
<1>7. CASE Crash  BY <1>0, <1>7 DEF Crash
<1> QED BY <1>1, <1>2, <1>3, <1>4, <1>5, <1>6, <1>7 DEF Next

-----------------------------------------------------------------------------
(* What the actors know.                                                   *)


\* The gate passes from actor to actor only through Nobody, and each actor holds
\* it exactly at the pcs between its acquisition and its release.
LEMMA GateOwnedStep == ASSUME OwnershipInv, Next PROVE GateOwned'
<1> USE TargetType, ActorsAssumption
    DEF journal, process, memory, run, ctl, killer, RunAt, SetRun, StartRun,
        EndRun, Raise, Unlock, CtlAt, SetCtl, EndCtl, KillerAt, Grantable,
        MaySpawn, Refuse, StreamDone, MayPersist, Settled, MaySeal, RunPCs,
        ControlPCs, KillPCs
<1> USE DEF GateOwned, JournalType, ProcessType, LockType, RunType, ControlType,
            RestartIsEmpty, Launching
<1>0. JournalType /\ ProcessType /\ LockType /\ RunType /\ ControlType /\
      GateOwned /\ RestartIsEmpty
  BY DEF OwnershipInv, TypeOK
<1>1. ASSUME NEW s \in Sessions, RunStep(s) PROVE GateOwned'
  <2>1. CASE AcceptSession(s)  BY <1>0, <2>1 DEF AcceptSession
  <2>2. CASE ResumeLock(s)  BY <1>0, <2>2 DEF ResumeLock
  <2>3. CASE ResumeClaim(s)  BY <1>0, <2>3 DEF ResumeClaim
  <2>4. CASE SpawnGate(s)  BY <1>0, <2>4 DEF SpawnGate
  <2>5. CASE PreSpawn(s)  BY <1>0, <2>5 DEF PreSpawn
  <2>6. CASE Launch(s)  BY <1>0, <2>6 DEF Launch
  <2>7. CASE LaunchFails(s)  BY <1>0, <2>7 DEF LaunchFails
  <2>8. CASE RecordProcess(s)  BY <1>0, <2>8 DEF RecordProcess
  <2>9. CASE ReadCommand(s)  BY <1>0, <2>9 DEF ReadCommand
  <2>10. CASE StreamEnd(s)  BY <1>0, <2>10 DEF StreamEnd
  <2>11. CASE StreamAbort(s)  BY <1>0, <2>11 DEF StreamAbort
  <2>12. CASE PersistResult(s)  BY <1>0, <2>12 DEF PersistResult
  <2>13. CASE RecordUncertainLoad(s)  BY <1>0, <2>13 DEF RecordUncertainLoad
  <2>14. CASE RecordUncertainUpdate(s)  BY <1>0, <2>14 DEF RecordUncertainUpdate
  <2> QED BY <1>1, <2>1, <2>2, <2>3, <2>4, <2>5, <2>6, <2>7, <2>8, <2>9, <2>10,
             <2>11, <2>12, <2>13, <2>14 DEF RunStep
<1>2. ASSUME NEW s \in Sessions, ProcessStep(s) PROVE GateOwned'
  <2>1. CASE RemoteCommand(s)  BY <1>0, <2>1 DEF RemoteCommand
  <2>2. CASE ProcessExit(s)  BY <1>0, <2>2 DEF ProcessExit
  <2> QED BY <1>2, <2>1, <2>2 DEF ProcessStep
<1>3. ASSUME NEW h \in Handlers, ControlStep(h) PROVE GateOwned'
  <2>1. CASE CloseLock(h)  BY <1>0, <2>1 DEF CloseLock
  <2>2. CASE CloseSeal(h)  BY <1>0, <2>2 DEF CloseSeal
  <2>3. CASE StopLock(h)  BY <1>0, <2>3 DEF StopLock
  <2>4. CASE StopClaim(h)  BY <1>0, <2>4 DEF StopClaim
  <2>5. CASE StopGate(h)  BY <1>0, <2>5 DEF StopGate
  <2>6. CASE StopKill(h)  BY <1>0, <2>6 DEF StopKill
  <2>7. CASE SealLock(h)  BY <1>0, <2>7 DEF SealLock
  <2>8. CASE StopSeal(h)  BY <1>0, <2>8 DEF StopSeal
  <2> QED BY <1>3, <2>1, <2>2, <2>3, <2>4, <2>5, <2>6, <2>7, <2>8 DEF ControlStep
<1>4. ASSUME KillStep PROVE GateOwned'
  <2>1. CASE KillWriteFile  BY <1>0, <2>1 DEF KillWriteFile
  <2>2. CASE KillProcesses  BY <1>0, <2>2 DEF KillProcesses
  <2>3. CASE KillReturn  BY <1>0, <2>3 DEF KillReturn
  <2>4. ASSUME NEW s \in Sessions, KillLock(s) PROVE GateOwned'
    BY <1>0, <2>4 DEF KillLock, ToClaim, ToMark
  <2>5. ASSUME NEW s \in Sessions, KillClaim(s) PROVE GateOwned'
    BY <1>0, <2>5 DEF KillClaim, ToClaim, ToMark
  <2>6. ASSUME NEW s \in Sessions, KillMark(s) PROVE GateOwned'
    BY <1>0, <2>6 DEF KillMark, ToClaim, ToMark
  <2> QED BY <1>4, <2>1, <2>2, <2>3, <2>4, <2>5, <2>6 DEF KillStep
<1>5. ASSUME RequestStep PROVE GateOwned'
  <2>1. ASSUME NEW s \in Sessions, CreateLock(s) PROVE GateOwned'
    BY <1>0, <2>1 DEF CreateLock
  <2>2. ASSUME NEW s \in Sessions, NEW k \in Grants, Grant(s, k) PROVE GateOwned'
    BY <1>0, <2>2 DEF Grant
  <2>3. ASSUME NEW h \in Handlers, NEW c \in Commands, ControlRequest(h, c)
         PROVE GateOwned'
    BY <1>0, <2>3 DEF ControlRequest
  <2>4. CASE KillArm  BY <1>0, <2>4 DEF KillArm
  <2>5. CASE KillDeactivate  BY <1>0, <2>5 DEF KillDeactivate
  <2> QED BY <1>5, <2>1, <2>2, <2>3, <2>4, <2>5 DEF RequestStep
<1>6. ASSUME RecoverStep PROVE GateOwned'
  <2>1. CASE RecoverDone  BY <1>0, <2>1 DEF RecoverDone
  <2>2. ASSUME NEW s \in Sessions, RecoverSession(s) PROVE GateOwned'
    BY <1>0, <2>2 DEF RecoverSession
  <2> QED BY <1>6, <2>1, <2>2 DEF RecoverStep
<1>7. CASE Crash  BY <1>0, <1>7 DEF Crash
<1> QED BY <1>1, <1>2, <1>3, <1>4, <1>5, <1>6, <1>7 DEF Next

\* A crash empties the memory and marks every process as lost; recovery adds
\* nothing.
LEMMA RestartIsEmptyStep == ASSUME OwnershipInv, Next PROVE RestartIsEmpty'
<1> USE TargetType, ActorsAssumption
    DEF journal, process, memory, run, ctl, killer, RunAt, SetRun, StartRun,
        EndRun, Raise, Unlock, CtlAt, SetCtl, EndCtl, KillerAt, Grantable,
        MaySpawn, Refuse, StreamDone, MayPersist, Settled, MaySeal, RunPCs,
        ControlPCs, KillPCs
<1> USE DEF RestartIsEmpty, JournalType, ProcessType, LockType, RunType,
            ControlType, GateOwned, Live, Launching
<1>0. JournalType /\ ProcessType /\ LockType /\ RunType /\ ControlType /\
      GateOwned /\ RestartIsEmpty
  BY DEF OwnershipInv, TypeOK
<1>1. ASSUME NEW s \in Sessions, RunStep(s) PROVE RestartIsEmpty'
  <2>1. CASE AcceptSession(s)  BY <1>0, <2>1 DEF AcceptSession
  <2>2. CASE ResumeLock(s)  BY <1>0, <2>2 DEF ResumeLock
  <2>3. CASE ResumeClaim(s)  BY <1>0, <2>3 DEF ResumeClaim
  <2>4. CASE SpawnGate(s)  BY <1>0, <2>4 DEF SpawnGate
  <2>5. CASE PreSpawn(s)  BY <1>0, <2>5 DEF PreSpawn
  <2>6. CASE Launch(s)  BY <1>0, <2>6 DEF Launch
  <2>7. CASE LaunchFails(s)  BY <1>0, <2>7 DEF LaunchFails
  <2>8. CASE RecordProcess(s)  BY <1>0, <2>8 DEF RecordProcess
  <2>9. CASE ReadCommand(s)  BY <1>0, <2>9 DEF ReadCommand
  <2>10. CASE StreamEnd(s)  BY <1>0, <2>10 DEF StreamEnd
  <2>11. CASE StreamAbort(s)  BY <1>0, <2>11 DEF StreamAbort
  <2>12. CASE PersistResult(s)  BY <1>0, <2>12 DEF PersistResult
  <2>13. CASE RecordUncertainLoad(s)  BY <1>0, <2>13 DEF RecordUncertainLoad
  <2>14. CASE RecordUncertainUpdate(s)  BY <1>0, <2>14 DEF RecordUncertainUpdate
  <2> QED BY <1>1, <2>1, <2>2, <2>3, <2>4, <2>5, <2>6, <2>7, <2>8, <2>9, <2>10,
             <2>11, <2>12, <2>13, <2>14 DEF RunStep
<1>2. ASSUME NEW s \in Sessions, ProcessStep(s) PROVE RestartIsEmpty'
  <2>1. CASE RemoteCommand(s)  BY <1>0, <2>1 DEF RemoteCommand
  <2>2. CASE ProcessExit(s)  BY <1>0, <2>2 DEF ProcessExit
  <2> QED BY <1>2, <2>1, <2>2 DEF ProcessStep
<1>3. ASSUME NEW h \in Handlers, ControlStep(h) PROVE RestartIsEmpty'
  <2>1. CASE CloseLock(h)  BY <1>0, <2>1 DEF CloseLock
  <2>2. CASE CloseSeal(h)  BY <1>0, <2>2 DEF CloseSeal
  <2>3. CASE StopLock(h)  BY <1>0, <2>3 DEF StopLock
  <2>4. CASE StopClaim(h)  BY <1>0, <2>4 DEF StopClaim
  <2>5. CASE StopGate(h)  BY <1>0, <2>5 DEF StopGate
  <2>6. CASE StopKill(h)  BY <1>0, <2>6 DEF StopKill
  <2>7. CASE SealLock(h)  BY <1>0, <2>7 DEF SealLock
  <2>8. CASE StopSeal(h)  BY <1>0, <2>8 DEF StopSeal
  <2> QED BY <1>3, <2>1, <2>2, <2>3, <2>4, <2>5, <2>6, <2>7, <2>8 DEF ControlStep
<1>4. ASSUME KillStep PROVE RestartIsEmpty'
  <2>1. CASE KillWriteFile  BY <1>0, <2>1 DEF KillWriteFile
  <2>2. CASE KillProcesses  BY <1>0, <2>2 DEF KillProcesses
  <2>3. CASE KillReturn  BY <1>0, <2>3 DEF KillReturn
  <2>4. ASSUME NEW s \in Sessions, KillLock(s) PROVE RestartIsEmpty'
    BY <1>0, <2>4 DEF KillLock, ToClaim, ToMark
  <2>5. ASSUME NEW s \in Sessions, KillClaim(s) PROVE RestartIsEmpty'
    BY <1>0, <2>5 DEF KillClaim, ToClaim, ToMark
  <2>6. ASSUME NEW s \in Sessions, KillMark(s) PROVE RestartIsEmpty'
    BY <1>0, <2>6 DEF KillMark, ToClaim, ToMark
  <2> QED BY <1>4, <2>1, <2>2, <2>3, <2>4, <2>5, <2>6 DEF KillStep
<1>5. ASSUME RequestStep PROVE RestartIsEmpty'
  <2>1. ASSUME NEW s \in Sessions, CreateLock(s) PROVE RestartIsEmpty'
    BY <1>0, <2>1 DEF CreateLock
  <2>2. ASSUME NEW s \in Sessions, NEW k \in Grants, Grant(s, k) PROVE RestartIsEmpty'
    BY <1>0, <2>2 DEF Grant
  <2>3. ASSUME NEW h \in Handlers, NEW c \in Commands, ControlRequest(h, c)
         PROVE RestartIsEmpty'
    BY <1>0, <2>3 DEF ControlRequest
  <2>4. CASE KillArm  BY <1>0, <2>4 DEF KillArm
  <2>5. CASE KillDeactivate  BY <1>0, <2>5 DEF KillDeactivate
  <2> QED BY <1>5, <2>1, <2>2, <2>3, <2>4, <2>5 DEF RequestStep
<1>6. ASSUME RecoverStep PROVE RestartIsEmpty'
  <2>1. CASE RecoverDone  BY <1>0, <2>1 DEF RecoverDone
  <2>2. ASSUME NEW s \in Sessions, RecoverSession(s) PROVE RestartIsEmpty'
    BY <1>0, <2>2 DEF RecoverSession
  <2> QED BY <1>6, <2>1, <2>2 DEF RecoverStep
<1>7. CASE Crash  BY <1>0, <1>7 DEF Crash
<1> QED BY <1>1, <1>2, <1>3, <1>4, <1>5, <1>6, <1>7 DEF Next

\* A run reaches a pc only through the checks that make its knowledge true, and
\* whoever could change it since needs the gate the run holds.
LEMMA RunKnowsStep == ASSUME OwnershipInv, Next PROVE RunKnows'
<1> USE TargetType, ActorsAssumption
    DEF journal, process, memory, run, ctl, killer, RunAt, SetRun, StartRun,
        EndRun, Raise, Unlock, CtlAt, SetCtl, EndCtl, KillerAt, Grantable,
        MaySpawn, Refuse, StreamDone, MayPersist, Settled, MaySeal, RunPCs,
        ControlPCs, KillPCs
<1> USE DEF RunKnows, JournalType, ProcessType, LockType, RunType, ControlType,
            GateOwned, RestartIsEmpty, JournalKnows, StopKnows, KillKnows,
            LiveIsReachable, SettledIsQuiet, Live, Running, Waiting, ActiveStatus,
            Target, Launching
<1>0. JournalType /\ ProcessType /\ LockType /\ RunType /\ ControlType /\
      GateOwned /\ RestartIsEmpty /\ RunKnows /\ JournalKnows /\ StopKnows /\
      KillKnows /\ LiveIsReachable /\ SettledIsQuiet
  BY DEF OwnershipInv, TypeOK
<1>1. ASSUME NEW s \in Sessions, RunStep(s) PROVE RunKnows'
  <2>1. CASE AcceptSession(s)  BY <1>0, <2>1 DEF AcceptSession
  <2>2. CASE ResumeLock(s)  BY <1>0, <2>2 DEF ResumeLock
  <2>3. CASE ResumeClaim(s)  BY <1>0, <2>3 DEF ResumeClaim
  <2>4. CASE SpawnGate(s)  BY <1>0, <2>4 DEF SpawnGate
  <2>5. CASE PreSpawn(s)  BY <1>0, <2>5 DEF PreSpawn
  <2>6. CASE Launch(s)  BY <1>0, <2>6 DEF Launch
  <2>7. CASE LaunchFails(s)  BY <1>0, <2>7 DEF LaunchFails
  <2>8. CASE RecordProcess(s)  BY <1>0, <2>8 DEF RecordProcess
  <2>9. CASE ReadCommand(s)  BY <1>0, <2>9 DEF ReadCommand
  <2>10. CASE StreamEnd(s)  BY <1>0, <2>10 DEF StreamEnd
  <2>11. CASE StreamAbort(s)  BY <1>0, <2>11 DEF StreamAbort
  <2>12. CASE PersistResult(s)  BY <1>0, <2>12 DEF PersistResult
  <2>13. CASE RecordUncertainLoad(s)  BY <1>0, <2>13 DEF RecordUncertainLoad
  <2>14. CASE RecordUncertainUpdate(s)  BY <1>0, <2>14 DEF RecordUncertainUpdate
  <2> QED BY <1>1, <2>1, <2>2, <2>3, <2>4, <2>5, <2>6, <2>7, <2>8, <2>9, <2>10,
             <2>11, <2>12, <2>13, <2>14 DEF RunStep
<1>2. ASSUME NEW s \in Sessions, ProcessStep(s) PROVE RunKnows'
  <2>1. CASE RemoteCommand(s)  BY <1>0, <2>1 DEF RemoteCommand
  <2>2. CASE ProcessExit(s)  BY <1>0, <2>2 DEF ProcessExit
  <2> QED BY <1>2, <2>1, <2>2 DEF ProcessStep
<1>3. ASSUME NEW h \in Handlers, ControlStep(h) PROVE RunKnows'
  <2>1. CASE CloseLock(h)  BY <1>0, <2>1 DEF CloseLock
  <2>2. CASE CloseSeal(h)  BY <1>0, <2>2 DEF CloseSeal
  <2>3. CASE StopLock(h)  BY <1>0, <2>3 DEF StopLock
  <2>4. CASE StopClaim(h)  BY <1>0, <2>4 DEF StopClaim
  <2>5. CASE StopGate(h)  BY <1>0, <2>5 DEF StopGate
  <2>6. CASE StopKill(h)  BY <1>0, <2>6 DEF StopKill
  <2>7. CASE SealLock(h)  BY <1>0, <2>7 DEF SealLock
  <2>8. CASE StopSeal(h)  BY <1>0, <2>8 DEF StopSeal
  <2> QED BY <1>3, <2>1, <2>2, <2>3, <2>4, <2>5, <2>6, <2>7, <2>8 DEF ControlStep
<1>4. ASSUME KillStep PROVE RunKnows'
  <2>1. CASE KillWriteFile  BY <1>0, <2>1 DEF KillWriteFile
  <2>2. CASE KillProcesses  BY <1>0, <2>2 DEF KillProcesses
  <2>3. CASE KillReturn  BY <1>0, <2>3 DEF KillReturn
  <2>4. ASSUME NEW s \in Sessions, KillLock(s) PROVE RunKnows'
    BY <1>0, <2>4 DEF KillLock, ToClaim, ToMark
  <2>5. ASSUME NEW s \in Sessions, KillClaim(s) PROVE RunKnows'
    BY <1>0, <2>5 DEF KillClaim, ToClaim, ToMark
  <2>6. ASSUME NEW s \in Sessions, KillMark(s) PROVE RunKnows'
    <3>1. \A x \in Sessions : pc[x] \notin Launching
      BY <1>0, <2>6 DEF KillMark
    <3>2. UNCHANGED <<proc, registered, killSwitch, pc, aim, kind>>  BY <2>6 DEF KillMark
    <3>3. \/ status' = status
          \/ status[s] # "NONE" /\ \E to : status' = [status EXCEPT ![s] = to]
      BY <2>6 DEF KillMark, ACTIVE_STATUSES
    <3> QED BY <1>0, <3>1, <3>2, <3>3
  <2> QED BY <1>4, <2>1, <2>2, <2>3, <2>4, <2>5, <2>6 DEF KillStep
<1>5. ASSUME RequestStep PROVE RunKnows'
  <2>1. ASSUME NEW s \in Sessions, CreateLock(s) PROVE RunKnows'
    BY <1>0, <2>1 DEF CreateLock
  <2>2. ASSUME NEW s \in Sessions, NEW k \in Grants, Grant(s, k) PROVE RunKnows'
    BY <1>0, <2>2 DEF Grant, SourceStatus, Grants
  <2>3. ASSUME NEW h \in Handlers, NEW c \in Commands, ControlRequest(h, c)
         PROVE RunKnows'
    BY <1>0, <2>3 DEF ControlRequest
  <2>4. CASE KillArm  BY <1>0, <2>4 DEF KillArm
  <2>5. CASE KillDeactivate  BY <1>0, <2>5 DEF KillDeactivate
  <2> QED BY <1>5, <2>1, <2>2, <2>3, <2>4, <2>5 DEF RequestStep
<1>6. ASSUME RecoverStep PROVE RunKnows'
  <2>1. CASE RecoverDone  BY <1>0, <2>1 DEF RecoverDone
  <2>2. ASSUME NEW s \in Sessions, RecoverSession(s) PROVE RunKnows'
    BY <1>0, <2>2 DEF RecoverSession
  <2> QED BY <1>6, <2>1, <2>2 DEF RecoverStep
<1>7. CASE Crash  BY <1>0, <1>7 DEF Crash
<1> QED BY <1>1, <1>2, <1>3, <1>4, <1>5, <1>6, <1>7 DEF Next

\* A waiting session has no registered process: PersistResult writes the waiting
\* statuses, after the run has unregistered it.
LEMMA JournalKnowsStep == ASSUME OwnershipInv, Next PROVE JournalKnows'
<1> USE TargetType, ActorsAssumption
    DEF journal, process, memory, run, ctl, killer, RunAt, SetRun, StartRun,
        EndRun, Raise, Unlock, CtlAt, SetCtl, EndCtl, KillerAt, Grantable,
        MaySpawn, Refuse, StreamDone, MayPersist, Settled, MaySeal, RunPCs,
        ControlPCs, KillPCs
<1> USE DEF JournalKnows, JournalType, ProcessType, LockType, RunType,
            ControlType, RunKnows, StopKnows, RestartIsEmpty, LiveIsReachable,
            SettledIsQuiet, Running, Waiting, ACTIVE_STATUSES, Live, Launching
<1>0. JournalType /\ ProcessType /\ LockType /\ RunType /\ ControlType /\
      RestartIsEmpty /\ RunKnows /\ JournalKnows /\ StopKnows /\ LiveIsReachable
      /\ SettledIsQuiet
  BY DEF OwnershipInv, TypeOK
<1>1. ASSUME NEW s \in Sessions, RunStep(s) PROVE JournalKnows'
  <2>1. CASE AcceptSession(s)  BY <1>0, <2>1 DEF AcceptSession
  <2>2. CASE ResumeLock(s)  BY <1>0, <2>2 DEF ResumeLock
  <2>3. CASE ResumeClaim(s)  BY <1>0, <2>3 DEF ResumeClaim
  <2>4. CASE SpawnGate(s)  BY <1>0, <2>4 DEF SpawnGate
  <2>5. CASE PreSpawn(s)  BY <1>0, <2>5 DEF PreSpawn
  <2>6. CASE Launch(s)  BY <1>0, <2>6 DEF Launch
  <2>7. CASE LaunchFails(s)  BY <1>0, <2>7 DEF LaunchFails
  <2>8. CASE RecordProcess(s)  BY <1>0, <2>8 DEF RecordProcess
  <2>9. CASE ReadCommand(s)  BY <1>0, <2>9 DEF ReadCommand
  <2>10. CASE StreamEnd(s)  BY <1>0, <2>10 DEF StreamEnd
  <2>11. CASE StreamAbort(s)  BY <1>0, <2>11 DEF StreamAbort
  <2>12. CASE PersistResult(s)  BY <1>0, <2>12 DEF PersistResult
  <2>13. CASE RecordUncertainLoad(s)  BY <1>0, <2>13 DEF RecordUncertainLoad
  <2>14. CASE RecordUncertainUpdate(s)  BY <1>0, <2>14 DEF RecordUncertainUpdate
  <2> QED BY <1>1, <2>1, <2>2, <2>3, <2>4, <2>5, <2>6, <2>7, <2>8, <2>9, <2>10,
             <2>11, <2>12, <2>13, <2>14 DEF RunStep
<1>2. ASSUME NEW s \in Sessions, ProcessStep(s) PROVE JournalKnows'
  <2>1. CASE RemoteCommand(s)  BY <1>0, <2>1 DEF RemoteCommand
  <2>2. CASE ProcessExit(s)  BY <1>0, <2>2 DEF ProcessExit
  <2> QED BY <1>2, <2>1, <2>2 DEF ProcessStep
<1>3. ASSUME NEW h \in Handlers, ControlStep(h) PROVE JournalKnows'
  <2>1. CASE CloseLock(h)  BY <1>0, <2>1 DEF CloseLock
  <2>2. CASE CloseSeal(h)
    <3> DEFINE s == Target(h)
    <3>1. s \in Sessions /\ Goal(h) \in Goals  BY <2>2 DEF CloseSeal
    <3>2. \/ /\ status[s] \in Waiting /\ status'[s] \in Goals
             /\ status' = [status EXCEPT ![s] = status'[s]]
          \/ status' = status
      BY <1>0, <2>2, <3>1 DEF CloseSeal, Goals
    <3>3. UNCHANGED <<process, registered, run>>  BY <2>2 DEF CloseSeal
    <3> HIDE DEF s
    <3> QED BY <1>0, <3>1, <3>2, <3>3 DEF Goals
  <2>3. CASE StopLock(h)  BY <1>0, <2>3 DEF StopLock
  <2>4. CASE StopClaim(h)  BY <1>0, <2>4 DEF StopClaim
  <2>5. CASE StopGate(h)  BY <1>0, <2>5 DEF StopGate
  <2>6. CASE StopKill(h)  BY <1>0, <2>6 DEF StopKill
  <2>7. CASE SealLock(h)  BY <1>0, <2>7 DEF SealLock
  <2>8. CASE StopSeal(h)
    <3> DEFINE s == Target(h)
    <3>1. s \in Sessions /\ Goal(h) \in Goals  BY <2>8 DEF StopSeal
    <3>2. \/ /\ status[s] \in Running /\ status'[s] \in Goals
             /\ status' = [status EXCEPT ![s] = status'[s]]
          \/ status' = status
      BY <1>0, <2>8, <3>1 DEF StopSeal, Goals
    <3>3. UNCHANGED <<process, registered, run>>  BY <2>8 DEF StopSeal
    <3> HIDE DEF s
    <3> QED BY <1>0, <3>1, <3>2, <3>3 DEF Goals
  <2> QED BY <1>3, <2>1, <2>2, <2>3, <2>4, <2>5, <2>6, <2>7, <2>8 DEF ControlStep
<1>4. ASSUME KillStep PROVE JournalKnows'
  <2>1. CASE KillWriteFile  BY <1>0, <2>1 DEF KillWriteFile
  <2>2. CASE KillProcesses  BY <1>0, <2>2 DEF KillProcesses
  <2>3. CASE KillReturn  BY <1>0, <2>3 DEF KillReturn
  <2>4. ASSUME NEW s \in Sessions, KillLock(s) PROVE JournalKnows'
    BY <1>0, <2>4 DEF KillLock, ToClaim, ToMark
  <2>5. ASSUME NEW s \in Sessions, KillClaim(s) PROVE JournalKnows'
    BY <1>0, <2>5 DEF KillClaim, ToClaim, ToMark
  <2>6. ASSUME NEW s \in Sessions, KillMark(s) PROVE JournalKnows'
    BY <1>0, <2>6 DEF KillMark, ToClaim, ToMark
  <2> QED BY <1>4, <2>1, <2>2, <2>3, <2>4, <2>5, <2>6 DEF KillStep
<1>5. ASSUME RequestStep PROVE JournalKnows'
  <2>1. ASSUME NEW s \in Sessions, CreateLock(s) PROVE JournalKnows'
    BY <1>0, <2>1 DEF CreateLock
  <2>2. ASSUME NEW s \in Sessions, NEW k \in Grants, Grant(s, k) PROVE JournalKnows'
    BY <1>0, <2>2 DEF Grant, SourceStatus, Grants
  <2>3. ASSUME NEW h \in Handlers, NEW c \in Commands, ControlRequest(h, c)
         PROVE JournalKnows'
    BY <1>0, <2>3 DEF ControlRequest
  <2>4. CASE KillArm  BY <1>0, <2>4 DEF KillArm
  <2>5. CASE KillDeactivate  BY <1>0, <2>5 DEF KillDeactivate
  <2> QED BY <1>5, <2>1, <2>2, <2>3, <2>4, <2>5 DEF RequestStep
<1>6. ASSUME RecoverStep PROVE JournalKnows'
  <2>1. CASE RecoverDone  BY <1>0, <2>1 DEF RecoverDone
  <2>2. ASSUME NEW s \in Sessions, RecoverSession(s) PROVE JournalKnows'
    BY <1>0, <2>2 DEF RecoverSession
  <2> QED BY <1>6, <2>1, <2>2 DEF RecoverStep
<1>7. CASE Crash  BY <1>0, <1>7 DEF Crash
<1> QED BY <1>1, <1>2, <1>3, <1>4, <1>5, <1>6, <1>7 DEF Next

\* Between its kill and its seal a stop holds no lock, yet no process can start:
\* the claim it made stays in the journal, and PreSpawn reads it.
LEMMA StopKnowsStep == ASSUME OwnershipInv, Next PROVE StopKnows'
<1> USE TargetType, ActorsAssumption
    DEF journal, process, memory, run, ctl, killer, RunAt, SetRun, StartRun,
        EndRun, Raise, Unlock, CtlAt, SetCtl, EndCtl, KillerAt, Grantable,
        MaySpawn, Refuse, StreamDone, MayPersist, Settled, MaySeal, RunPCs,
        ControlPCs, KillPCs
<1> USE DEF StopKnows, JournalType, ProcessType, LockType, RunType, ControlType,
            Target, GateOwned, RestartIsEmpty, LiveIsReachable, Live, Launching
<1>0. JournalType /\ ProcessType /\ LockType /\ RunType /\ ControlType /\
      GateOwned /\ RestartIsEmpty /\ StopKnows /\ LiveIsReachable
  BY DEF OwnershipInv, TypeOK
<1>1. ASSUME NEW s \in Sessions, RunStep(s) PROVE StopKnows'
  <2>1. CASE AcceptSession(s)  BY <1>0, <2>1 DEF AcceptSession
  <2>2. CASE ResumeLock(s)  BY <1>0, <2>2 DEF ResumeLock
  <2>3. CASE ResumeClaim(s)  BY <1>0, <2>3 DEF ResumeClaim
  <2>4. CASE SpawnGate(s)  BY <1>0, <2>4 DEF SpawnGate
  <2>5. CASE PreSpawn(s)  BY <1>0, <2>5 DEF PreSpawn
  <2>6. CASE Launch(s)  BY <1>0, <2>6 DEF Launch
  <2>7. CASE LaunchFails(s)  BY <1>0, <2>7 DEF LaunchFails
  <2>8. CASE RecordProcess(s)  BY <1>0, <2>8 DEF RecordProcess
  <2>9. CASE ReadCommand(s)  BY <1>0, <2>9 DEF ReadCommand
  <2>10. CASE StreamEnd(s)  BY <1>0, <2>10 DEF StreamEnd
  <2>11. CASE StreamAbort(s)  BY <1>0, <2>11 DEF StreamAbort
  <2>12. CASE PersistResult(s)  BY <1>0, <2>12 DEF PersistResult
  <2>13. CASE RecordUncertainLoad(s)  BY <1>0, <2>13 DEF RecordUncertainLoad
  <2>14. CASE RecordUncertainUpdate(s)  BY <1>0, <2>14 DEF RecordUncertainUpdate
  <2> QED BY <1>1, <2>1, <2>2, <2>3, <2>4, <2>5, <2>6, <2>7, <2>8, <2>9, <2>10,
             <2>11, <2>12, <2>13, <2>14 DEF RunStep
<1>2. ASSUME NEW s \in Sessions, ProcessStep(s) PROVE StopKnows'
  <2>1. CASE RemoteCommand(s)  BY <1>0, <2>1 DEF RemoteCommand
  <2>2. CASE ProcessExit(s)  BY <1>0, <2>2 DEF ProcessExit
  <2> QED BY <1>2, <2>1, <2>2 DEF ProcessStep
<1>3. ASSUME NEW h \in Handlers, ControlStep(h) PROVE StopKnows'
  <2>1. CASE CloseLock(h)  BY <1>0, <2>1 DEF CloseLock
  <2>2. CASE CloseSeal(h)  BY <1>0, <2>2 DEF CloseSeal
  <2>3. CASE StopLock(h)  BY <1>0, <2>3 DEF StopLock
  <2>4. CASE StopClaim(h)  BY <1>0, <2>4 DEF StopClaim
  <2>5. CASE StopGate(h)  BY <1>0, <2>5 DEF StopGate
  <2>6. CASE StopKill(h)  BY <1>0, <2>6 DEF StopKill
  <2>7. CASE SealLock(h)  BY <1>0, <2>7 DEF SealLock
  <2>8. CASE StopSeal(h)  BY <1>0, <2>8 DEF StopSeal
  <2> QED BY <1>3, <2>1, <2>2, <2>3, <2>4, <2>5, <2>6, <2>7, <2>8 DEF ControlStep
<1>4. ASSUME KillStep PROVE StopKnows'
  <2>1. CASE KillWriteFile  BY <1>0, <2>1 DEF KillWriteFile
  <2>2. CASE KillProcesses  BY <1>0, <2>2 DEF KillProcesses
  <2>3. CASE KillReturn  BY <1>0, <2>3 DEF KillReturn
  <2>4. ASSUME NEW s \in Sessions, KillLock(s) PROVE StopKnows'
    BY <1>0, <2>4 DEF KillLock, ToClaim, ToMark
  <2>5. ASSUME NEW s \in Sessions, KillClaim(s) PROVE StopKnows'
    BY <1>0, <2>5 DEF KillClaim, ToClaim, ToMark
  <2>6. ASSUME NEW s \in Sessions, KillMark(s) PROVE StopKnows'
    BY <1>0, <2>6 DEF KillMark, ToClaim, ToMark
  <2> QED BY <1>4, <2>1, <2>2, <2>3, <2>4, <2>5, <2>6 DEF KillStep
<1>5. ASSUME RequestStep PROVE StopKnows'
  <2>1. ASSUME NEW s \in Sessions, CreateLock(s) PROVE StopKnows'
    BY <1>0, <2>1 DEF CreateLock
  <2>2. ASSUME NEW s \in Sessions, NEW k \in Grants, Grant(s, k) PROVE StopKnows'
    BY <1>0, <2>2 DEF Grant
  <2>3. ASSUME NEW h \in Handlers, NEW c \in Commands, ControlRequest(h, c)
         PROVE StopKnows'
    BY <1>0, <2>3 DEF ControlRequest
  <2>4. CASE KillArm  BY <1>0, <2>4 DEF KillArm
  <2>5. CASE KillDeactivate  BY <1>0, <2>5 DEF KillDeactivate
  <2> QED BY <1>5, <2>1, <2>2, <2>3, <2>4, <2>5 DEF RequestStep
<1>6. ASSUME RecoverStep PROVE StopKnows'
  <2>1. CASE RecoverDone  BY <1>0, <2>1 DEF RecoverDone
  <2>2. ASSUME NEW s \in Sessions, RecoverSession(s) PROVE StopKnows'
    BY <1>0, <2>2 DEF RecoverSession
  <2> QED BY <1>6, <2>1, <2>2 DEF RecoverStep
<1>7. CASE Crash  BY <1>0, <1>7 DEF Crash
<1> QED BY <1>1, <1>2, <1>3, <1>4, <1>5, <1>6, <1>7 DEF Next

\* Until it returns, the kill switch holds the gate, so what it killed stays
\* dead.
LEMMA KillKnowsStep == ASSUME OwnershipInv, Next PROVE KillKnows'
<1> USE TargetType, ActorsAssumption
    DEF journal, process, memory, run, ctl, killer, RunAt, SetRun, StartRun,
        EndRun, Raise, Unlock, CtlAt, SetCtl, EndCtl, KillerAt, Grantable,
        MaySpawn, Refuse, StreamDone, MayPersist, Settled, MaySeal, RunPCs,
        ControlPCs, KillPCs
<1> USE DEF KillKnows, JournalType, ProcessType, LockType, RunType, ControlType,
            GateOwned, RestartIsEmpty, LiveIsReachable, SettledIsQuiet, Live,
            Waiting, Launching
<1>0. JournalType /\ ProcessType /\ LockType /\ RunType /\ ControlType /\
      GateOwned /\ RestartIsEmpty /\ KillKnows /\ LiveIsReachable /\
      SettledIsQuiet
  BY DEF OwnershipInv, TypeOK
<1>1. ASSUME NEW s \in Sessions, RunStep(s) PROVE KillKnows'
  <2>1. CASE AcceptSession(s)  BY <1>0, <2>1 DEF AcceptSession
  <2>2. CASE ResumeLock(s)  BY <1>0, <2>2 DEF ResumeLock
  <2>3. CASE ResumeClaim(s)  BY <1>0, <2>3 DEF ResumeClaim
  <2>4. CASE SpawnGate(s)  BY <1>0, <2>4 DEF SpawnGate
  <2>5. CASE PreSpawn(s)  BY <1>0, <2>5 DEF PreSpawn
  <2>6. CASE Launch(s)  BY <1>0, <2>6 DEF Launch
  <2>7. CASE LaunchFails(s)  BY <1>0, <2>7 DEF LaunchFails
  <2>8. CASE RecordProcess(s)  BY <1>0, <2>8 DEF RecordProcess
  <2>9. CASE ReadCommand(s)  BY <1>0, <2>9 DEF ReadCommand
  <2>10. CASE StreamEnd(s)  BY <1>0, <2>10 DEF StreamEnd
  <2>11. CASE StreamAbort(s)  BY <1>0, <2>11 DEF StreamAbort
  <2>12. CASE PersistResult(s)  BY <1>0, <2>12 DEF PersistResult
  <2>13. CASE RecordUncertainLoad(s)  BY <1>0, <2>13 DEF RecordUncertainLoad
  <2>14. CASE RecordUncertainUpdate(s)  BY <1>0, <2>14 DEF RecordUncertainUpdate
  <2> QED BY <1>1, <2>1, <2>2, <2>3, <2>4, <2>5, <2>6, <2>7, <2>8, <2>9, <2>10,
             <2>11, <2>12, <2>13, <2>14 DEF RunStep
<1>2. ASSUME NEW s \in Sessions, ProcessStep(s) PROVE KillKnows'
  <2>1. CASE RemoteCommand(s)  BY <1>0, <2>1 DEF RemoteCommand
  <2>2. CASE ProcessExit(s)  BY <1>0, <2>2 DEF ProcessExit
  <2> QED BY <1>2, <2>1, <2>2 DEF ProcessStep
<1>3. ASSUME NEW h \in Handlers, ControlStep(h) PROVE KillKnows'
  <2>1. CASE CloseLock(h)  BY <1>0, <2>1 DEF CloseLock
  <2>2. CASE CloseSeal(h)  BY <1>0, <2>2 DEF CloseSeal
  <2>3. CASE StopLock(h)  BY <1>0, <2>3 DEF StopLock
  <2>4. CASE StopClaim(h)  BY <1>0, <2>4 DEF StopClaim
  <2>5. CASE StopGate(h)  BY <1>0, <2>5 DEF StopGate
  <2>6. CASE StopKill(h)  BY <1>0, <2>6 DEF StopKill
  <2>7. CASE SealLock(h)  BY <1>0, <2>7 DEF SealLock
  <2>8. CASE StopSeal(h)  BY <1>0, <2>8 DEF StopSeal
  <2> QED BY <1>3, <2>1, <2>2, <2>3, <2>4, <2>5, <2>6, <2>7, <2>8 DEF ControlStep
<1>4. ASSUME KillStep PROVE KillKnows'
  <2>1. CASE KillWriteFile  BY <1>0, <2>1 DEF KillWriteFile
  <2>2. CASE KillProcesses  BY <1>0, <2>2 DEF KillProcesses
  <2>3. CASE KillReturn  BY <1>0, <2>3 DEF KillReturn, ToClaim, ToMark
  <2>4. ASSUME NEW s \in Sessions, KillLock(s) PROVE KillKnows'
    BY <1>0, <2>4 DEF KillLock, ToClaim, ToMark
  <2>5. ASSUME NEW s \in Sessions, KillClaim(s) PROVE KillKnows'
    BY <1>0, <2>5 DEF KillClaim, ToClaim, ToMark
  <2>6. ASSUME NEW s \in Sessions, KillMark(s) PROVE KillKnows'
    BY <1>0, <2>6 DEF KillMark, ToClaim, ToMark
  <2> QED BY <1>4, <2>1, <2>2, <2>3, <2>4, <2>5, <2>6 DEF KillStep
<1>5. ASSUME RequestStep PROVE KillKnows'
  <2>1. ASSUME NEW s \in Sessions, CreateLock(s) PROVE KillKnows'
    BY <1>0, <2>1 DEF CreateLock
  <2>2. ASSUME NEW s \in Sessions, NEW k \in Grants, Grant(s, k) PROVE KillKnows'
    BY <1>0, <2>2 DEF Grant
  <2>3. ASSUME NEW h \in Handlers, NEW c \in Commands, ControlRequest(h, c)
         PROVE KillKnows'
    BY <1>0, <2>3 DEF ControlRequest
  <2>4. CASE KillArm  BY <1>0, <2>4 DEF KillArm
  <2>5. CASE KillDeactivate  BY <1>0, <2>5 DEF KillDeactivate
  <2> QED BY <1>5, <2>1, <2>2, <2>3, <2>4, <2>5 DEF RequestStep
<1>6. ASSUME RecoverStep PROVE KillKnows'
  <2>1. CASE RecoverDone  BY <1>0, <2>1 DEF RecoverDone
  <2>2. ASSUME NEW s \in Sessions, RecoverSession(s) PROVE KillKnows'
    BY <1>0, <2>2 DEF RecoverSession
  <2> QED BY <1>6, <2>1, <2>2 DEF RecoverStep
<1>7. CASE Crash  BY <1>0, <1>7 DEF Crash
<1> QED BY <1>1, <1>2, <1>3, <1>4, <1>5, <1>6, <1>7 DEF Next

-----------------------------------------------------------------------------
(* The safety properties.                                                  *)


\* A registration is dropped only with a process that ended, was killed, or was
\* lost.
LEMMA LiveIsReachableStep == ASSUME OwnershipInv, Next PROVE LiveIsReachable'
<1> USE TargetType, ActorsAssumption
    DEF journal, process, memory, run, ctl, killer, RunAt, SetRun, StartRun,
        EndRun, Raise, Unlock, CtlAt, SetCtl, EndCtl, KillerAt, Grantable,
        MaySpawn, Refuse, StreamDone, MayPersist, Settled, MaySeal, RunPCs,
        ControlPCs, KillPCs
<1> USE DEF LiveIsReachable, JournalType, ProcessType, LockType, RunType,
            ControlType, RestartIsEmpty, RunKnows, Live, Launching
<1>0. JournalType /\ ProcessType /\ LockType /\ RunType /\ ControlType /\
      RestartIsEmpty /\ RunKnows /\ LiveIsReachable
  BY DEF OwnershipInv, TypeOK
<1>1. ASSUME NEW s \in Sessions, RunStep(s) PROVE LiveIsReachable'
  <2>1. CASE AcceptSession(s)  BY <1>0, <2>1 DEF AcceptSession
  <2>2. CASE ResumeLock(s)  BY <1>0, <2>2 DEF ResumeLock
  <2>3. CASE ResumeClaim(s)  BY <1>0, <2>3 DEF ResumeClaim
  <2>4. CASE SpawnGate(s)  BY <1>0, <2>4 DEF SpawnGate
  <2>5. CASE PreSpawn(s)  BY <1>0, <2>5 DEF PreSpawn
  <2>6. CASE Launch(s)  BY <1>0, <2>6 DEF Launch
  <2>7. CASE LaunchFails(s)  BY <1>0, <2>7 DEF LaunchFails
  <2>8. CASE RecordProcess(s)  BY <1>0, <2>8 DEF RecordProcess
  <2>9. CASE ReadCommand(s)  BY <1>0, <2>9 DEF ReadCommand
  <2>10. CASE StreamEnd(s)  BY <1>0, <2>10 DEF StreamEnd
  <2>11. CASE StreamAbort(s)  BY <1>0, <2>11 DEF StreamAbort
  <2>12. CASE PersistResult(s)  BY <1>0, <2>12 DEF PersistResult
  <2>13. CASE RecordUncertainLoad(s)  BY <1>0, <2>13 DEF RecordUncertainLoad
  <2>14. CASE RecordUncertainUpdate(s)  BY <1>0, <2>14 DEF RecordUncertainUpdate
  <2> QED BY <1>1, <2>1, <2>2, <2>3, <2>4, <2>5, <2>6, <2>7, <2>8, <2>9, <2>10,
             <2>11, <2>12, <2>13, <2>14 DEF RunStep
<1>2. ASSUME NEW s \in Sessions, ProcessStep(s) PROVE LiveIsReachable'
  <2>1. CASE RemoteCommand(s)  BY <1>0, <2>1 DEF RemoteCommand
  <2>2. CASE ProcessExit(s)  BY <1>0, <2>2 DEF ProcessExit
  <2> QED BY <1>2, <2>1, <2>2 DEF ProcessStep
<1>3. ASSUME NEW h \in Handlers, ControlStep(h) PROVE LiveIsReachable'
  <2>1. CASE CloseLock(h)  BY <1>0, <2>1 DEF CloseLock
  <2>2. CASE CloseSeal(h)  BY <1>0, <2>2 DEF CloseSeal
  <2>3. CASE StopLock(h)  BY <1>0, <2>3 DEF StopLock
  <2>4. CASE StopClaim(h)  BY <1>0, <2>4 DEF StopClaim
  <2>5. CASE StopGate(h)  BY <1>0, <2>5 DEF StopGate
  <2>6. CASE StopKill(h)  BY <1>0, <2>6 DEF StopKill
  <2>7. CASE SealLock(h)  BY <1>0, <2>7 DEF SealLock
  <2>8. CASE StopSeal(h)  BY <1>0, <2>8 DEF StopSeal
  <2> QED BY <1>3, <2>1, <2>2, <2>3, <2>4, <2>5, <2>6, <2>7, <2>8 DEF ControlStep
<1>4. ASSUME KillStep PROVE LiveIsReachable'
  <2>1. CASE KillWriteFile  BY <1>0, <2>1 DEF KillWriteFile
  <2>2. CASE KillProcesses  BY <1>0, <2>2 DEF KillProcesses
  <2>3. CASE KillReturn  BY <1>0, <2>3 DEF KillReturn
  <2>4. ASSUME NEW s \in Sessions, KillLock(s) PROVE LiveIsReachable'
    BY <1>0, <2>4 DEF KillLock, ToClaim, ToMark
  <2>5. ASSUME NEW s \in Sessions, KillClaim(s) PROVE LiveIsReachable'
    BY <1>0, <2>5 DEF KillClaim, ToClaim, ToMark
  <2>6. ASSUME NEW s \in Sessions, KillMark(s) PROVE LiveIsReachable'
    BY <1>0, <2>6 DEF KillMark, ToClaim, ToMark
  <2> QED BY <1>4, <2>1, <2>2, <2>3, <2>4, <2>5, <2>6 DEF KillStep
<1>5. ASSUME RequestStep PROVE LiveIsReachable'
  <2>1. ASSUME NEW s \in Sessions, CreateLock(s) PROVE LiveIsReachable'
    BY <1>0, <2>1 DEF CreateLock
  <2>2. ASSUME NEW s \in Sessions, NEW k \in Grants, Grant(s, k) PROVE LiveIsReachable'
    BY <1>0, <2>2 DEF Grant
  <2>3. ASSUME NEW h \in Handlers, NEW c \in Commands, ControlRequest(h, c)
         PROVE LiveIsReachable'
    BY <1>0, <2>3 DEF ControlRequest
  <2>4. CASE KillArm  BY <1>0, <2>4 DEF KillArm
  <2>5. CASE KillDeactivate  BY <1>0, <2>5 DEF KillDeactivate
  <2> QED BY <1>5, <2>1, <2>2, <2>3, <2>4, <2>5 DEF RequestStep
<1>6. ASSUME RecoverStep PROVE LiveIsReachable'
  <2>1. CASE RecoverDone  BY <1>0, <2>1 DEF RecoverDone
  <2>2. ASSUME NEW s \in Sessions, RecoverSession(s) PROVE LiveIsReachable'
    BY <1>0, <2>2 DEF RecoverSession
  <2> QED BY <1>6, <2>1, <2>2 DEF RecoverStep
<1>7. CASE Crash  BY <1>0, <1>7 DEF Crash
<1> QED BY <1>1, <1>2, <1>3, <1>4, <1>5, <1>6, <1>7 DEF Next

\* Whoever settles a session knows that its process is gone: the run that
\* persists its result, the stop and the kill switch that killed, recovery, and
\* _record_uncertain, which writes DIAGNOSIS_FAILED only of a process that was
\* never started.
LEMMA SettledIsQuietStep == ASSUME OwnershipInv, Next PROVE SettledIsQuiet'
<1> USE TargetType, ActorsAssumption
    DEF journal, process, memory, run, ctl, killer, RunAt, SetRun, StartRun,
        EndRun, Raise, Unlock, CtlAt, SetCtl, EndCtl, KillerAt, Grantable,
        MaySpawn, Refuse, StreamDone, MayPersist, Settled, MaySeal, RunPCs,
        ControlPCs, KillPCs
<1> USE DEF SettledIsQuiet, JournalType, ProcessType, LockType, RunType,
            ControlType, RunKnows, JournalKnows, StopKnows, KillKnows,
            RestartIsEmpty, LiveIsReachable, Live, Running, Waiting,
            LOCAL_TERMINAL_STATUSES, TERMINAL_STATUSES, Launching
<1>0. JournalType /\ ProcessType /\ LockType /\ RunType /\ ControlType /\
      RestartIsEmpty /\ RunKnows /\ JournalKnows /\ StopKnows /\ KillKnows /\
      LiveIsReachable /\ SettledIsQuiet
  BY DEF OwnershipInv, TypeOK
<1>1. ASSUME NEW s \in Sessions, RunStep(s) PROVE SettledIsQuiet'
  <2>1. CASE AcceptSession(s)  BY <1>0, <2>1 DEF AcceptSession
  <2>2. CASE ResumeLock(s)  BY <1>0, <2>2 DEF ResumeLock
  <2>3. CASE ResumeClaim(s)  BY <1>0, <2>3 DEF ResumeClaim
  <2>4. CASE SpawnGate(s)  BY <1>0, <2>4 DEF SpawnGate
  <2>5. CASE PreSpawn(s)  BY <1>0, <2>5 DEF PreSpawn
  <2>6. CASE Launch(s)  BY <1>0, <2>6 DEF Launch
  <2>7. CASE LaunchFails(s)  BY <1>0, <2>7 DEF LaunchFails
  <2>8. CASE RecordProcess(s)  BY <1>0, <2>8 DEF RecordProcess
  <2>9. CASE ReadCommand(s)  BY <1>0, <2>9 DEF ReadCommand
  <2>10. CASE StreamEnd(s)  BY <1>0, <2>10 DEF StreamEnd
  <2>11. CASE StreamAbort(s)  BY <1>0, <2>11 DEF StreamAbort
  <2>12. CASE PersistResult(s)  BY <1>0, <2>12 DEF PersistResult
  <2>13. CASE RecordUncertainLoad(s)  BY <1>0, <2>13 DEF RecordUncertainLoad
  <2>14. CASE RecordUncertainUpdate(s)  BY <1>0, <2>14 DEF RecordUncertainUpdate
  <2> QED BY <1>1, <2>1, <2>2, <2>3, <2>4, <2>5, <2>6, <2>7, <2>8, <2>9, <2>10,
             <2>11, <2>12, <2>13, <2>14 DEF RunStep
<1>2. ASSUME NEW s \in Sessions, ProcessStep(s) PROVE SettledIsQuiet'
  <2>1. CASE RemoteCommand(s)  BY <1>0, <2>1 DEF RemoteCommand
  <2>2. CASE ProcessExit(s)  BY <1>0, <2>2 DEF ProcessExit
  <2> QED BY <1>2, <2>1, <2>2 DEF ProcessStep
<1>3. ASSUME NEW h \in Handlers, ControlStep(h) PROVE SettledIsQuiet'
  <2>1. CASE CloseLock(h)  BY <1>0, <2>1 DEF CloseLock
  <2>2. CASE CloseSeal(h)  BY <1>0, <2>2 DEF CloseSeal
  <2>3. CASE StopLock(h)  BY <1>0, <2>3 DEF StopLock
  <2>4. CASE StopClaim(h)  BY <1>0, <2>4 DEF StopClaim
  <2>5. CASE StopGate(h)  BY <1>0, <2>5 DEF StopGate
  <2>6. CASE StopKill(h)  BY <1>0, <2>6 DEF StopKill
  <2>7. CASE SealLock(h)  BY <1>0, <2>7 DEF SealLock
  <2>8. CASE StopSeal(h)
    <3> DEFINE s == Target(h)
    <3>1. s \in Sessions  BY <2>8 DEF StopSeal
    <3>2. \/ /\ status' = [status EXCEPT ![s] = status'[s]]
             /\ status'[s] = "MANUAL_INTERVENTION" \/ had[h]
          \/ status' = status
      BY <1>0, <2>8, <3>1 DEF StopSeal, ResultCertain
    <3>3. ~Live(s) /\ (had[h] => proc[s] # "running")
      BY <1>0, <2>8, <3>1 DEF StopSeal
    <3>4. UNCHANGED <<proc, lost>>  BY <2>8 DEF StopSeal
    <3> HIDE DEF s
    <3> QED BY <1>0, <3>1, <3>2, <3>3, <3>4
  <2> QED BY <1>3, <2>1, <2>2, <2>3, <2>4, <2>5, <2>6, <2>7, <2>8 DEF ControlStep
<1>4. ASSUME KillStep PROVE SettledIsQuiet'
  <2>1. CASE KillWriteFile  BY <1>0, <2>1 DEF KillWriteFile
  <2>2. CASE KillProcesses  BY <1>0, <2>2 DEF KillProcesses
  <2>3. CASE KillReturn  BY <1>0, <2>3 DEF KillReturn
  <2>4. ASSUME NEW s \in Sessions, KillLock(s) PROVE SettledIsQuiet'
    BY <1>0, <2>4 DEF KillLock, ToClaim, ToMark
  <2>5. ASSUME NEW s \in Sessions, KillClaim(s) PROVE SettledIsQuiet'
    BY <1>0, <2>5 DEF KillClaim, ToClaim, ToMark
  <2>6. ASSUME NEW s \in Sessions, KillMark(s) PROVE SettledIsQuiet'
    BY <1>0, <2>6 DEF KillMark, ToClaim, ToMark
  <2> QED BY <1>4, <2>1, <2>2, <2>3, <2>4, <2>5, <2>6 DEF KillStep
<1>5. ASSUME RequestStep PROVE SettledIsQuiet'
  <2>1. ASSUME NEW s \in Sessions, CreateLock(s) PROVE SettledIsQuiet'
    BY <1>0, <2>1 DEF CreateLock
  <2>2. ASSUME NEW s \in Sessions, NEW k \in Grants, Grant(s, k) PROVE SettledIsQuiet'
    BY <1>0, <2>2 DEF Grant, SourceStatus, Grants
  <2>3. ASSUME NEW h \in Handlers, NEW c \in Commands, ControlRequest(h, c)
         PROVE SettledIsQuiet'
    BY <1>0, <2>3 DEF ControlRequest
  <2>4. CASE KillArm  BY <1>0, <2>4 DEF KillArm
  <2>5. CASE KillDeactivate  BY <1>0, <2>5 DEF KillDeactivate
  <2> QED BY <1>5, <2>1, <2>2, <2>3, <2>4, <2>5 DEF RequestStep
<1>6. ASSUME RecoverStep PROVE SettledIsQuiet'
  <2>1. CASE RecoverDone  BY <1>0, <2>1 DEF RecoverDone
  <2>2. ASSUME NEW s \in Sessions, RecoverSession(s) PROVE SettledIsQuiet'
    BY <1>0, <2>2 DEF RecoverSession
  <2> QED BY <1>6, <2>1, <2>2 DEF RecoverStep
<1>7. CASE Crash  BY <1>0, <1>7 DEF Crash
<1> QED BY <1>1, <1>2, <1>3, <1>4, <1>5, <1>6, <1>7 DEF Next

\* A launch reads the switch under the gate, and the kill switch call keeps the
\* gate until what was launched before it is dead.
LEMMA KillSwitchQuietStep == ASSUME OwnershipInv, Next PROVE KillSwitchQuiet'
<1> USE TargetType, ActorsAssumption
    DEF journal, process, memory, run, ctl, killer, RunAt, SetRun, StartRun,
        EndRun, Raise, Unlock, CtlAt, SetCtl, EndCtl, KillerAt, Grantable,
        MaySpawn, Refuse, StreamDone, MayPersist, Settled, MaySeal, RunPCs,
        ControlPCs, KillPCs
<1> USE DEF KillSwitchQuiet, JournalType, ProcessType, LockType, RunType,
            ControlType, GateOwned, RestartIsEmpty, RunKnows, KillKnows, Live,
            Launching
<1>0. JournalType /\ ProcessType /\ LockType /\ RunType /\ ControlType /\
      GateOwned /\ RestartIsEmpty /\ RunKnows /\ KillKnows /\ KillSwitchQuiet
  BY DEF OwnershipInv, TypeOK
<1>1. ASSUME NEW s \in Sessions, RunStep(s) PROVE KillSwitchQuiet'
  <2>1. CASE AcceptSession(s)  BY <1>0, <2>1 DEF AcceptSession
  <2>2. CASE ResumeLock(s)  BY <1>0, <2>2 DEF ResumeLock
  <2>3. CASE ResumeClaim(s)  BY <1>0, <2>3 DEF ResumeClaim
  <2>4. CASE SpawnGate(s)  BY <1>0, <2>4 DEF SpawnGate
  <2>5. CASE PreSpawn(s)  BY <1>0, <2>5 DEF PreSpawn
  <2>6. CASE Launch(s)  BY <1>0, <2>6 DEF Launch
  <2>7. CASE LaunchFails(s)  BY <1>0, <2>7 DEF LaunchFails
  <2>8. CASE RecordProcess(s)  BY <1>0, <2>8 DEF RecordProcess
  <2>9. CASE ReadCommand(s)  BY <1>0, <2>9 DEF ReadCommand
  <2>10. CASE StreamEnd(s)  BY <1>0, <2>10 DEF StreamEnd
  <2>11. CASE StreamAbort(s)  BY <1>0, <2>11 DEF StreamAbort
  <2>12. CASE PersistResult(s)  BY <1>0, <2>12 DEF PersistResult
  <2>13. CASE RecordUncertainLoad(s)  BY <1>0, <2>13 DEF RecordUncertainLoad
  <2>14. CASE RecordUncertainUpdate(s)  BY <1>0, <2>14 DEF RecordUncertainUpdate
  <2> QED BY <1>1, <2>1, <2>2, <2>3, <2>4, <2>5, <2>6, <2>7, <2>8, <2>9, <2>10,
             <2>11, <2>12, <2>13, <2>14 DEF RunStep
<1>2. ASSUME NEW s \in Sessions, ProcessStep(s) PROVE KillSwitchQuiet'
  <2>1. CASE RemoteCommand(s)  BY <1>0, <2>1 DEF RemoteCommand
  <2>2. CASE ProcessExit(s)  BY <1>0, <2>2 DEF ProcessExit
  <2> QED BY <1>2, <2>1, <2>2 DEF ProcessStep
<1>3. ASSUME NEW h \in Handlers, ControlStep(h) PROVE KillSwitchQuiet'
  <2>1. CASE CloseLock(h)  BY <1>0, <2>1 DEF CloseLock
  <2>2. CASE CloseSeal(h)  BY <1>0, <2>2 DEF CloseSeal
  <2>3. CASE StopLock(h)  BY <1>0, <2>3 DEF StopLock
  <2>4. CASE StopClaim(h)  BY <1>0, <2>4 DEF StopClaim
  <2>5. CASE StopGate(h)  BY <1>0, <2>5 DEF StopGate
  <2>6. CASE StopKill(h)  BY <1>0, <2>6 DEF StopKill
  <2>7. CASE SealLock(h)  BY <1>0, <2>7 DEF SealLock
  <2>8. CASE StopSeal(h)  BY <1>0, <2>8 DEF StopSeal
  <2> QED BY <1>3, <2>1, <2>2, <2>3, <2>4, <2>5, <2>6, <2>7, <2>8 DEF ControlStep
<1>4. ASSUME KillStep PROVE KillSwitchQuiet'
  <2>1. CASE KillWriteFile  BY <1>0, <2>1 DEF KillWriteFile
  <2>2. CASE KillProcesses  BY <1>0, <2>2 DEF KillProcesses
  <2>3. CASE KillReturn  BY <1>0, <2>3 DEF KillReturn
  <2>4. ASSUME NEW s \in Sessions, KillLock(s) PROVE KillSwitchQuiet'
    BY <1>0, <2>4 DEF KillLock, ToClaim, ToMark
  <2>5. ASSUME NEW s \in Sessions, KillClaim(s) PROVE KillSwitchQuiet'
    BY <1>0, <2>5 DEF KillClaim, ToClaim, ToMark
  <2>6. ASSUME NEW s \in Sessions, KillMark(s) PROVE KillSwitchQuiet'
    BY <1>0, <2>6 DEF KillMark, ToClaim, ToMark
  <2> QED BY <1>4, <2>1, <2>2, <2>3, <2>4, <2>5, <2>6 DEF KillStep
<1>5. ASSUME RequestStep PROVE KillSwitchQuiet'
  <2>1. ASSUME NEW s \in Sessions, CreateLock(s) PROVE KillSwitchQuiet'
    BY <1>0, <2>1 DEF CreateLock
  <2>2. ASSUME NEW s \in Sessions, NEW k \in Grants, Grant(s, k) PROVE KillSwitchQuiet'
    BY <1>0, <2>2 DEF Grant
  <2>3. ASSUME NEW h \in Handlers, NEW c \in Commands, ControlRequest(h, c)
         PROVE KillSwitchQuiet'
    BY <1>0, <2>3 DEF ControlRequest
  <2>4. CASE KillArm  BY <1>0, <2>4 DEF KillArm
  <2>5. CASE KillDeactivate  BY <1>0, <2>5 DEF KillDeactivate
  <2> QED BY <1>5, <2>1, <2>2, <2>3, <2>4, <2>5 DEF RequestStep
<1>6. ASSUME RecoverStep PROVE KillSwitchQuiet'
  <2>1. CASE RecoverDone  BY <1>0, <2>1 DEF RecoverDone
  <2>2. ASSUME NEW s \in Sessions, RecoverSession(s) PROVE KillSwitchQuiet'
    BY <1>0, <2>2 DEF RecoverSession
  <2> QED BY <1>6, <2>1, <2>2 DEF RecoverStep
<1>7. CASE Crash  BY <1>0, <1>7 DEF Crash
<1> QED BY <1>1, <1>2, <1>3, <1>4, <1>5, <1>6, <1>7 DEF Next

-----------------------------------------------------------------------------
(* The invariant, and what follows from it.                                *)

-----------------------------------------------------------------------------
(* Runs and their journals, and the grants they spend.                     *)

\* A running session keeps its run thread: it gives the session up only with a
\* status that is not running, or to whoever has claimed it.
LEMMA RunningHasThreadStep == ASSUME OwnershipInv, Next PROVE RunningHasThread'
<1> USE TargetType, ActorsAssumption
    DEF journal, process, memory, run, ctl, killer, RunAt, SetRun, StartRun, EndRun,
        Raise, Unlock, CtlAt, SetCtl, EndCtl, KillerAt, Grantable, MaySpawn, Refuse,
        StreamDone, MayPersist, Settled, MaySeal, RunPCs, RunningHasThread,
        RunKnows, RunFits, Claimed, Goals, Running, Results, RestartIsEmpty,
        ActiveStatus, LOCAL_TERMINAL_STATUSES, TERMINAL_STATUSES, JournalType,
        RunType
<1>0. RunningHasThread /\ RunKnows /\ RunFits /\ RestartIsEmpty /\ JournalType /\
      RunType
  BY DEF OwnershipInv, TypeOK
<1>1. ASSUME NEW s \in Sessions, RunStep(s) PROVE RunningHasThread'
  <2>1. CASE AcceptSession(s)  BY <1>0, <2>1 DEF AcceptSession
  <2>2. CASE ResumeLock(s)  BY <1>0, <2>2 DEF ResumeLock
  <2>3. CASE ResumeClaim(s)
    BY <1>0, <2>3 DEF ResumeClaim, Waiting, SourceStatus, Grants
  <2>4. CASE SpawnGate(s)  BY <1>0, <2>4 DEF SpawnGate
  <2>5. CASE PreSpawn(s)  BY <1>0, <2>5 DEF PreSpawn
  <2>6. CASE Launch(s)  BY <1>0, <2>6 DEF Launch
  <2>7. CASE LaunchFails(s)  BY <1>0, <2>7 DEF LaunchFails
  <2>8. CASE RecordProcess(s)  BY <1>0, <2>8 DEF RecordProcess
  <2>9. CASE ReadCommand(s)  BY <1>0, <2>9 DEF ReadCommand
  <2>10. CASE StreamEnd(s)  BY <1>0, <2>10 DEF StreamEnd
  <2>11. CASE StreamAbort(s)  BY <1>0, <2>11 DEF StreamAbort
  <2>12. CASE PersistResult(s)  BY <1>0, <2>12 DEF PersistResult
  <2>13. CASE RecordUncertainLoad(s)  BY <1>0, <2>13 DEF RecordUncertainLoad
  <2>14. CASE RecordUncertainUpdate(s)  BY <1>0, <2>14 DEF RecordUncertainUpdate
  <2> QED BY <1>1, <2>1, <2>2, <2>3, <2>4, <2>5, <2>6, <2>7, <2>8, <2>9, <2>10,
             <2>11, <2>12, <2>13, <2>14 DEF RunStep
<1>2. ASSUME NEW s \in Sessions, ProcessStep(s) PROVE RunningHasThread'
  <2>1. CASE RemoteCommand(s)  BY <1>0, <2>1 DEF RemoteCommand
  <2>2. CASE ProcessExit(s)  BY <1>0, <2>2 DEF ProcessExit
  <2> QED BY <1>2, <2>1, <2>2 DEF ProcessStep
<1>3. ASSUME NEW h \in Handlers, ControlStep(h) PROVE RunningHasThread'
  <2>1. CASE CloseLock(h)  BY <1>0, <2>1 DEF CloseLock
  <2>2. CASE CloseSeal(h)  BY <1>0, <2>2 DEF CloseSeal
  <2>3. CASE StopLock(h)  BY <1>0, <2>3 DEF StopLock
  <2>4. CASE StopClaim(h)  BY <1>0, <2>4 DEF StopClaim
  <2>5. CASE StopGate(h)  BY <1>0, <2>5 DEF StopGate
  <2>6. CASE StopKill(h)  BY <1>0, <2>6 DEF StopKill
  <2>7. CASE SealLock(h)  BY <1>0, <2>7 DEF SealLock
  <2>8. CASE StopSeal(h)  BY <1>0, <2>8 DEF StopSeal
  <2> QED BY <1>3, <2>1, <2>2, <2>3, <2>4, <2>5, <2>6, <2>7, <2>8 DEF ControlStep
<1>4. ASSUME KillStep PROVE RunningHasThread'
  <2>1. CASE KillWriteFile  BY <1>0, <2>1 DEF KillWriteFile
  <2>2. CASE KillProcesses  BY <1>0, <2>2 DEF KillProcesses
  <2>3. CASE KillReturn  BY <1>0, <2>3 DEF KillReturn
  <2>4. ASSUME NEW s \in Sessions, KillLock(s) PROVE RunningHasThread'
    BY <1>0, <2>4 DEF KillLock
  <2>5. ASSUME NEW s \in Sessions, KillClaim(s) PROVE RunningHasThread'
    BY <1>0, <2>5 DEF KillClaim, ToClaim
  <2>6. ASSUME NEW s \in Sessions, KillMark(s) PROVE RunningHasThread'
    BY <1>0, <2>6 DEF KillMark, ToMark
  <2> QED BY <1>4, <2>1, <2>2, <2>3, <2>4, <2>5, <2>6 DEF KillStep
<1>5. ASSUME RequestStep PROVE RunningHasThread'
  <2>1. ASSUME NEW s \in Sessions, CreateLock(s) PROVE RunningHasThread'
    BY <1>0, <2>1 DEF CreateLock
  <2>2. ASSUME NEW s \in Sessions, NEW k \in Grants, Grant(s, k) PROVE RunningHasThread'
    BY <1>0, <2>2 DEF Grant
  <2>3. ASSUME NEW h \in Handlers, NEW c \in Commands, ControlRequest(h, c) PROVE RunningHasThread'
    BY <1>0, <2>3 DEF ControlRequest
  <2>4. CASE KillArm  BY <1>0, <2>4 DEF KillArm
  <2>5. CASE KillDeactivate  BY <1>0, <2>5 DEF KillDeactivate
  <2> QED BY <1>5, <2>1, <2>2, <2>3, <2>4, <2>5 DEF RequestStep
<1>6. ASSUME RecoverStep PROVE RunningHasThread'
  <2>1. CASE RecoverDone  BY <1>0, <2>1 DEF RecoverDone
  <2>2. ASSUME NEW s \in Sessions, RecoverSession(s) PROVE RunningHasThread'
    BY <1>0, <2>2 DEF RecoverSession
  <2> QED BY <1>6, <2>1, <2>2 DEF RecoverStep
<1>7. CASE Crash  BY <1>0, <1>7 DEF Crash
<1> QED BY <1>1, <1>2, <1>3, <1>4, <1>5, <1>6, <1>7 DEF Next

\* A run keeps to its journal: what others write of a session that a run has
\* claimed is a verdict.
LEMMA RunFitsStep == ASSUME OwnershipInv, Next PROVE RunFits'
<1> USE TargetType, ActorsAssumption
    DEF journal, process, memory, run, ctl, killer, RunAt, SetRun, StartRun, EndRun,
        Raise, Unlock, CtlAt, SetCtl, EndCtl, KillerAt, Grantable, MaySpawn, Refuse,
        StreamDone, MayPersist, Settled, MaySeal, RunPCs, RunFits, RunKnows,
        Claimed, Goals, Running, Waiting, Grants, Results, ActiveStatus,
        JournalType, RunType
<1>0. RunFits /\ RunKnows /\ JournalType /\ RunType
  BY DEF OwnershipInv, TypeOK
<1>1. ASSUME NEW s \in Sessions, RunStep(s) PROVE RunFits'
  <2>1. CASE AcceptSession(s)  BY <1>0, <2>1 DEF AcceptSession
  <2>2. CASE ResumeLock(s)  BY <1>0, <2>2 DEF ResumeLock
  <2>3. CASE ResumeClaim(s)  BY <1>0, <2>3 DEF ResumeClaim, SourceStatus
  <2>4. CASE SpawnGate(s)  BY <1>0, <2>4 DEF SpawnGate
  <2>5. CASE PreSpawn(s)  BY <1>0, <2>5 DEF PreSpawn
  <2>6. CASE Launch(s)  BY <1>0, <2>6 DEF Launch
  <2>7. CASE LaunchFails(s)  BY <1>0, <2>7 DEF LaunchFails
  <2>8. CASE RecordProcess(s)  BY <1>0, <2>8 DEF RecordProcess
  <2>9. CASE ReadCommand(s)  BY <1>0, <2>9 DEF ReadCommand
  <2>10. CASE StreamEnd(s)  BY <1>0, <2>10 DEF StreamEnd
  <2>11. CASE StreamAbort(s)  BY <1>0, <2>11 DEF StreamAbort
  <2>12. CASE PersistResult(s)  BY <1>0, <2>12 DEF PersistResult
  <2>13. CASE RecordUncertainLoad(s)  BY <1>0, <2>13 DEF RecordUncertainLoad
  <2>14. CASE RecordUncertainUpdate(s)  BY <1>0, <2>14 DEF RecordUncertainUpdate
  <2> QED BY <1>1, <2>1, <2>2, <2>3, <2>4, <2>5, <2>6, <2>7, <2>8, <2>9, <2>10,
             <2>11, <2>12, <2>13, <2>14 DEF RunStep
<1>2. ASSUME NEW s \in Sessions, ProcessStep(s) PROVE RunFits'
  <2>1. CASE RemoteCommand(s)  BY <1>0, <2>1 DEF RemoteCommand
  <2>2. CASE ProcessExit(s)  BY <1>0, <2>2 DEF ProcessExit
  <2> QED BY <1>2, <2>1, <2>2 DEF ProcessStep
<1>3. ASSUME NEW h \in Handlers, ControlStep(h) PROVE RunFits'
  <2>1. CASE CloseLock(h)  BY <1>0, <2>1 DEF CloseLock
  <2>2. CASE CloseSeal(h)  BY <1>0, <2>2 DEF CloseSeal
  <2>3. CASE StopLock(h)  BY <1>0, <2>3 DEF StopLock
  <2>4. CASE StopClaim(h)  BY <1>0, <2>4 DEF StopClaim
  <2>5. CASE StopGate(h)  BY <1>0, <2>5 DEF StopGate
  <2>6. CASE StopKill(h)  BY <1>0, <2>6 DEF StopKill
  <2>7. CASE SealLock(h)  BY <1>0, <2>7 DEF SealLock
  <2>8. CASE StopSeal(h)  BY <1>0, <2>8 DEF StopSeal
  <2> QED BY <1>3, <2>1, <2>2, <2>3, <2>4, <2>5, <2>6, <2>7, <2>8 DEF ControlStep
<1>4. ASSUME KillStep PROVE RunFits'
  <2>1. CASE KillWriteFile  BY <1>0, <2>1 DEF KillWriteFile
  <2>2. CASE KillProcesses  BY <1>0, <2>2 DEF KillProcesses
  <2>3. CASE KillReturn  BY <1>0, <2>3 DEF KillReturn
  <2>4. ASSUME NEW s \in Sessions, KillLock(s) PROVE RunFits'
    BY <1>0, <2>4 DEF KillLock
  <2>5. ASSUME NEW s \in Sessions, KillClaim(s) PROVE RunFits'
    BY <1>0, <2>5 DEF KillClaim
  <2>6. ASSUME NEW s \in Sessions, KillMark(s) PROVE RunFits'
    BY <1>0, <2>6 DEF KillMark, ToMark, ACTIVE_STATUSES
  <2> QED BY <1>4, <2>1, <2>2, <2>3, <2>4, <2>5, <2>6 DEF KillStep
<1>5. ASSUME RequestStep PROVE RunFits'
  <2>1. ASSUME NEW s \in Sessions, CreateLock(s) PROVE RunFits'
    BY <1>0, <2>1 DEF CreateLock
  <2>2. ASSUME NEW s \in Sessions, NEW k \in Grants, Grant(s, k) PROVE RunFits'
    BY <1>0, <2>2 DEF Grant
  <2>3. ASSUME NEW h \in Handlers, NEW c \in Commands, ControlRequest(h, c) PROVE RunFits'
    BY <1>0, <2>3 DEF ControlRequest
  <2>4. CASE KillArm  BY <1>0, <2>4 DEF KillArm
  <2>5. CASE KillDeactivate  BY <1>0, <2>5 DEF KillDeactivate
  <2> QED BY <1>5, <2>1, <2>2, <2>3, <2>4, <2>5 DEF RequestStep
<1>6. ASSUME RecoverStep PROVE RunFits'
  <2>1. CASE RecoverDone  BY <1>0, <2>1 DEF RecoverDone
  <2>2. ASSUME NEW s \in Sessions, RecoverSession(s) PROVE RunFits'
    BY <1>0, <2>2 DEF RecoverSession
  <2> QED BY <1>6, <2>1, <2>2 DEF RecoverStep
<1>7. CASE Crash  BY <1>0, <1>7 DEF Crash
<1> QED BY <1>1, <1>2, <1>3, <1>4, <1>5, <1>6, <1>7 DEF Next

\* A closed session stays closed: no run has claimed it, and none can.
LEMMA ClosedFitsStep == ASSUME OwnershipInv, Next PROVE ClosedFits'
<1> USE TargetType, ActorsAssumption
    DEF journal, process, memory, run, ctl, killer, RunAt, SetRun, StartRun, EndRun,
        Raise, Unlock, CtlAt, SetCtl, EndCtl, KillerAt, Grantable, MaySpawn, Refuse,
        StreamDone, MayPersist, Settled, MaySeal, RunPCs, ClosedFits, RunFits,
        RunKnows, Claimed, Goals, Running, Waiting, ActiveStatus, JournalType,
        RunType
<1>0. ClosedFits /\ RunFits /\ RunKnows /\ JournalType /\ RunType
  BY DEF OwnershipInv, TypeOK
<1>1. ASSUME NEW s \in Sessions, RunStep(s) PROVE ClosedFits'
  <2>1. CASE AcceptSession(s)  BY <1>0, <2>1 DEF AcceptSession
  <2>2. CASE ResumeLock(s)  BY <1>0, <2>2 DEF ResumeLock
  <2>3. CASE ResumeClaim(s)  BY <1>0, <2>3 DEF ResumeClaim, SourceStatus
  <2>4. CASE SpawnGate(s)  BY <1>0, <2>4 DEF SpawnGate
  <2>5. CASE PreSpawn(s)  BY <1>0, <2>5 DEF PreSpawn
  <2>6. CASE Launch(s)  BY <1>0, <2>6 DEF Launch
  <2>7. CASE LaunchFails(s)  BY <1>0, <2>7 DEF LaunchFails
  <2>8. CASE RecordProcess(s)  BY <1>0, <2>8 DEF RecordProcess
  <2>9. CASE ReadCommand(s)  BY <1>0, <2>9 DEF ReadCommand
  <2>10. CASE StreamEnd(s)  BY <1>0, <2>10 DEF StreamEnd
  <2>11. CASE StreamAbort(s)  BY <1>0, <2>11 DEF StreamAbort
  <2>12. CASE PersistResult(s)  BY <1>0, <2>12 DEF PersistResult
  <2>13. CASE RecordUncertainLoad(s)  BY <1>0, <2>13 DEF RecordUncertainLoad
  <2>14. CASE RecordUncertainUpdate(s)  BY <1>0, <2>14 DEF RecordUncertainUpdate
  <2> QED BY <1>1, <2>1, <2>2, <2>3, <2>4, <2>5, <2>6, <2>7, <2>8, <2>9, <2>10,
             <2>11, <2>12, <2>13, <2>14 DEF RunStep
<1>2. ASSUME NEW s \in Sessions, ProcessStep(s) PROVE ClosedFits'
  <2>1. CASE RemoteCommand(s)  BY <1>0, <2>1 DEF RemoteCommand
  <2>2. CASE ProcessExit(s)  BY <1>0, <2>2 DEF ProcessExit
  <2> QED BY <1>2, <2>1, <2>2 DEF ProcessStep
<1>3. ASSUME NEW h \in Handlers, ControlStep(h) PROVE ClosedFits'
  <2>1. CASE CloseLock(h)  BY <1>0, <2>1 DEF CloseLock
  <2>2. CASE CloseSeal(h)  BY <1>0, <2>2 DEF CloseSeal
  <2>3. CASE StopLock(h)  BY <1>0, <2>3 DEF StopLock
  <2>4. CASE StopClaim(h)  BY <1>0, <2>4 DEF StopClaim
  <2>5. CASE StopGate(h)  BY <1>0, <2>5 DEF StopGate
  <2>6. CASE StopKill(h)  BY <1>0, <2>6 DEF StopKill
  <2>7. CASE SealLock(h)  BY <1>0, <2>7 DEF SealLock
  <2>8. CASE StopSeal(h)  BY <1>0, <2>8 DEF StopSeal
  <2> QED BY <1>3, <2>1, <2>2, <2>3, <2>4, <2>5, <2>6, <2>7, <2>8 DEF ControlStep
<1>4. ASSUME KillStep PROVE ClosedFits'
  <2>1. CASE KillWriteFile  BY <1>0, <2>1 DEF KillWriteFile
  <2>2. CASE KillProcesses  BY <1>0, <2>2 DEF KillProcesses
  <2>3. CASE KillReturn  BY <1>0, <2>3 DEF KillReturn
  <2>4. ASSUME NEW s \in Sessions, KillLock(s) PROVE ClosedFits'
    BY <1>0, <2>4 DEF KillLock
  <2>5. ASSUME NEW s \in Sessions, KillClaim(s) PROVE ClosedFits'
    BY <1>0, <2>5 DEF KillClaim, ToMark
  <2>6. ASSUME NEW s \in Sessions, KillMark(s) PROVE ClosedFits'
    BY <1>0, <2>6 DEF KillMark, ToMark, ACTIVE_STATUSES
  <2> QED BY <1>4, <2>1, <2>2, <2>3, <2>4, <2>5, <2>6 DEF KillStep
<1>5. ASSUME RequestStep PROVE ClosedFits'
  <2>1. ASSUME NEW s \in Sessions, CreateLock(s) PROVE ClosedFits'
    BY <1>0, <2>1 DEF CreateLock
  <2>2. ASSUME NEW s \in Sessions, NEW k \in Grants, Grant(s, k) PROVE ClosedFits'
    BY <1>0, <2>2 DEF Grant, SourceStatus, Grants
  <2>3. ASSUME NEW h \in Handlers, NEW c \in Commands, ControlRequest(h, c) PROVE ClosedFits'
    BY <1>0, <2>3 DEF ControlRequest
  <2>4. CASE KillArm  BY <1>0, <2>4 DEF KillArm
  <2>5. CASE KillDeactivate  BY <1>0, <2>5 DEF KillDeactivate
  <2> QED BY <1>5, <2>1, <2>2, <2>3, <2>4, <2>5 DEF RequestStep
<1>6. ASSUME RecoverStep PROVE ClosedFits'
  <2>1. CASE RecoverDone  BY <1>0, <2>1 DEF RecoverDone
  <2>2. ASSUME NEW s \in Sessions, RecoverSession(s) PROVE ClosedFits'
    BY <1>0, <2>2 DEF RecoverSession
  <2> QED BY <1>6, <2>1, <2>2 DEF RecoverStep
<1>7. CASE Crash  BY <1>0, <1>7 DEF Crash
<1> QED BY <1>1, <1>2, <1>3, <1>4, <1>5, <1>6, <1>7 DEF Next

\* A run that could not be spawned is registered nowhere, and nobody counts it as
\* stopped.
LEMMA UnspawnedFitsStep == ASSUME OwnershipInv, Next PROVE UnspawnedFits'
<1> USE TargetType, ActorsAssumption
    DEF journal, process, memory, run, ctl, killer, RunAt, SetRun, StartRun, EndRun,
        Raise, Unlock, CtlAt, SetCtl, EndCtl, KillerAt, Grantable, MaySpawn, Refuse,
        StreamDone, MayPersist, Settled, MaySeal, RunPCs, UnspawnedFits, Unspawned,
        RunFits, RunKnows, Claimed, Goals, Running, Waiting, ActiveStatus,
        JournalType, RunType, ControlType, LockType
<1>0. LockType /\ UnspawnedFits /\ RunFits /\ RunKnows /\ JournalType /\ RunType /\
      ControlType
  BY DEF OwnershipInv, TypeOK
<1>1. ASSUME NEW s \in Sessions, RunStep(s) PROVE UnspawnedFits'
  <2>1. CASE AcceptSession(s)  BY <1>0, <2>1 DEF AcceptSession
  <2>2. CASE ResumeLock(s)  BY <1>0, <2>2 DEF ResumeLock
  <2>3. CASE ResumeClaim(s)  BY <1>0, <2>3 DEF ResumeClaim
  <2>4. CASE SpawnGate(s)  BY <1>0, <2>4 DEF SpawnGate
  <2>5. CASE PreSpawn(s)  BY <1>0, <2>5 DEF PreSpawn
  <2>6. CASE Launch(s)  BY <1>0, <2>6 DEF Launch
  <2>7. CASE LaunchFails(s)
    BY <1>0, <2>7 DEF LaunchFails, OwnershipInv, GateOwned, KillKnows, Launching
  <2>8. CASE RecordProcess(s)  BY <1>0, <2>8 DEF RecordProcess
  <2>9. CASE ReadCommand(s)  BY <1>0, <2>9 DEF ReadCommand
  <2>10. CASE StreamEnd(s)  BY <1>0, <2>10 DEF StreamEnd
  <2>11. CASE StreamAbort(s)  BY <1>0, <2>11 DEF StreamAbort
  <2>12. CASE PersistResult(s)  BY <1>0, <2>12 DEF PersistResult
  <2>13. CASE RecordUncertainLoad(s)  BY <1>0, <2>13 DEF RecordUncertainLoad
  <2>14. CASE RecordUncertainUpdate(s)  BY <1>0, <2>14 DEF RecordUncertainUpdate
  <2> QED BY <1>1, <2>1, <2>2, <2>3, <2>4, <2>5, <2>6, <2>7, <2>8, <2>9, <2>10,
             <2>11, <2>12, <2>13, <2>14 DEF RunStep
<1>2. ASSUME NEW s \in Sessions, ProcessStep(s) PROVE UnspawnedFits'
  <2>1. CASE RemoteCommand(s)  BY <1>0, <2>1 DEF RemoteCommand
  <2>2. CASE ProcessExit(s)  BY <1>0, <2>2 DEF ProcessExit
  <2> QED BY <1>2, <2>1, <2>2 DEF ProcessStep
<1>3. ASSUME NEW h \in Handlers, ControlStep(h) PROVE UnspawnedFits'
  <2>1. CASE CloseLock(h)  BY <1>0, <2>1 DEF CloseLock
  <2>2. CASE CloseSeal(h)  BY <1>0, <2>2 DEF CloseSeal
  <2>3. CASE StopLock(h)  BY <1>0, <2>3 DEF StopLock
  <2>4. CASE StopClaim(h)  BY <1>0, <2>4 DEF StopClaim
  <2>5. CASE StopGate(h)  BY <1>0, <2>5 DEF StopGate
  <2>6. CASE StopKill(h)  BY SMTT(30), <1>0, <2>6 DEF StopKill
  <2>7. CASE SealLock(h)  BY <1>0, <2>7 DEF SealLock
  <2>8. CASE StopSeal(h)
    BY <1>0, <2>8 DEF StopSeal, ResultCertain, OwnershipInv, StoppedFits
  <2> QED BY <1>3, <2>1, <2>2, <2>3, <2>4, <2>5, <2>6, <2>7, <2>8 DEF ControlStep
<1>4. ASSUME KillStep PROVE UnspawnedFits'
  <2>1. CASE KillWriteFile  BY <1>0, <2>1 DEF KillWriteFile
  <2>2. CASE KillProcesses  BY <1>0, <2>2 DEF KillProcesses
  <2>3. CASE KillReturn  BY <1>0, <2>3 DEF KillReturn
  <2>4. ASSUME NEW s \in Sessions, KillLock(s) PROVE UnspawnedFits'
    BY <1>0, <2>4 DEF KillLock
  <2>5. ASSUME NEW s \in Sessions, KillClaim(s) PROVE UnspawnedFits'
    BY <1>0, <2>5 DEF KillClaim
  <2>6. ASSUME NEW s \in Sessions, KillMark(s) PROVE UnspawnedFits'
    BY <1>0, <2>6 DEF KillMark, ToMark, ACTIVE_STATUSES
  <2> QED BY <1>4, <2>1, <2>2, <2>3, <2>4, <2>5, <2>6 DEF KillStep
<1>5. ASSUME RequestStep PROVE UnspawnedFits'
  <2>1. ASSUME NEW s \in Sessions, CreateLock(s) PROVE UnspawnedFits'
    BY <1>0, <2>1 DEF CreateLock
  <2>2. ASSUME NEW s \in Sessions, NEW k \in Grants, Grant(s, k) PROVE UnspawnedFits'
    BY <1>0, <2>2 DEF Grant
  <2>3. ASSUME NEW h \in Handlers, NEW c \in Commands, ControlRequest(h, c) PROVE UnspawnedFits'
    BY <1>0, <2>3 DEF ControlRequest
  <2>4. CASE KillArm  BY <1>0, <2>4 DEF KillArm
  <2>5. CASE KillDeactivate  BY <1>0, <2>5 DEF KillDeactivate
  <2> QED BY <1>5, <2>1, <2>2, <2>3, <2>4, <2>5 DEF RequestStep
<1>6. ASSUME RecoverStep PROVE UnspawnedFits'
  <2>1. CASE RecoverDone  BY <1>0, <2>1 DEF RecoverDone
  <2>2. ASSUME NEW s \in Sessions, RecoverSession(s) PROVE UnspawnedFits'
    BY <1>0, <2>2 DEF RecoverSession
  <2> QED BY <1>6, <2>1, <2>2 DEF RecoverStep
<1>7. CASE Crash  BY <1>0, <1>7 DEF Crash
<1> QED BY <1>1, <1>2, <1>3, <1>4, <1>5, <1>6, <1>7 DEF Next

\* A stop that found a process has a run that could be spawned.
LEMMA StoppedFitsStep == ASSUME OwnershipInv, Next PROVE StoppedFits'
<1> USE TargetType, ActorsAssumption
    DEF journal, process, memory, run, ctl, killer, RunAt, SetRun, StartRun, EndRun,
        Raise, Unlock, CtlAt, SetCtl, EndCtl, KillerAt, Grantable, MaySpawn, Refuse,
        StreamDone, MayPersist, Settled, MaySeal, RunPCs, StoppedFits, Unspawned,
        Target, ControlType, RunType
<1>0. StoppedFits /\ ControlType /\ RunType
  BY DEF OwnershipInv, TypeOK
<1>1. ASSUME NEW s \in Sessions, RunStep(s) PROVE StoppedFits'
  <2>1. CASE AcceptSession(s)  BY <1>0, <2>1 DEF AcceptSession
  <2>2. CASE ResumeLock(s)  BY <1>0, <2>2 DEF ResumeLock
  <2>3. CASE ResumeClaim(s)  BY <1>0, <2>3 DEF ResumeClaim
  <2>4. CASE SpawnGate(s)  BY <1>0, <2>4 DEF SpawnGate
  <2>5. CASE PreSpawn(s)  BY <1>0, <2>5 DEF PreSpawn
  <2>6. CASE Launch(s)  BY <1>0, <2>6 DEF Launch
  <2>7. CASE LaunchFails(s)
    BY <1>0, <2>7 DEF LaunchFails, OwnershipInv, GateOwned, StopKnows, Launching
  <2>8. CASE RecordProcess(s)  BY <1>0, <2>8 DEF RecordProcess
  <2>9. CASE ReadCommand(s)  BY <1>0, <2>9 DEF ReadCommand
  <2>10. CASE StreamEnd(s)  BY <1>0, <2>10 DEF StreamEnd
  <2>11. CASE StreamAbort(s)  BY <1>0, <2>11 DEF StreamAbort
  <2>12. CASE PersistResult(s)  BY <1>0, <2>12 DEF PersistResult
  <2>13. CASE RecordUncertainLoad(s)  BY <1>0, <2>13 DEF RecordUncertainLoad
  <2>14. CASE RecordUncertainUpdate(s)  BY <1>0, <2>14 DEF RecordUncertainUpdate
  <2> QED BY <1>1, <2>1, <2>2, <2>3, <2>4, <2>5, <2>6, <2>7, <2>8, <2>9, <2>10,
             <2>11, <2>12, <2>13, <2>14 DEF RunStep
<1>2. ASSUME NEW s \in Sessions, ProcessStep(s) PROVE StoppedFits'
  <2>1. CASE RemoteCommand(s)  BY <1>0, <2>1 DEF RemoteCommand
  <2>2. CASE ProcessExit(s)  BY <1>0, <2>2 DEF ProcessExit
  <2> QED BY <1>2, <2>1, <2>2 DEF ProcessStep
<1>3. ASSUME NEW h \in Handlers, ControlStep(h) PROVE StoppedFits'
  <2>1. CASE CloseLock(h)  BY <1>0, <2>1 DEF CloseLock
  <2>2. CASE CloseSeal(h)  BY <1>0, <2>2 DEF CloseSeal
  <2>3. CASE StopLock(h)  BY <1>0, <2>3 DEF StopLock
  <2>4. CASE StopClaim(h)  BY <1>0, <2>4 DEF StopClaim
  <2>5. CASE StopGate(h)  BY <1>0, <2>5 DEF StopGate, OwnershipInv, UnspawnedFits
  <2>6. CASE StopKill(h)  BY <1>0, <2>6 DEF StopKill
  <2>7. CASE SealLock(h)  BY <1>0, <2>7 DEF SealLock
  <2>8. CASE StopSeal(h)  BY <1>0, <2>8 DEF StopSeal
  <2> QED BY <1>3, <2>1, <2>2, <2>3, <2>4, <2>5, <2>6, <2>7, <2>8 DEF ControlStep
<1>4. ASSUME KillStep PROVE StoppedFits'
  <2>1. CASE KillWriteFile  BY <1>0, <2>1 DEF KillWriteFile
  <2>2. CASE KillProcesses  BY <1>0, <2>2 DEF KillProcesses
  <2>3. CASE KillReturn  BY <1>0, <2>3 DEF KillReturn
  <2>4. ASSUME NEW s \in Sessions, KillLock(s) PROVE StoppedFits'
    BY <1>0, <2>4 DEF KillLock
  <2>5. ASSUME NEW s \in Sessions, KillClaim(s) PROVE StoppedFits'
    BY <1>0, <2>5 DEF KillClaim
  <2>6. ASSUME NEW s \in Sessions, KillMark(s) PROVE StoppedFits'
    BY <1>0, <2>6 DEF KillMark
  <2> QED BY <1>4, <2>1, <2>2, <2>3, <2>4, <2>5, <2>6 DEF KillStep
<1>5. ASSUME RequestStep PROVE StoppedFits'
  <2>1. ASSUME NEW s \in Sessions, CreateLock(s) PROVE StoppedFits'
    BY <1>0, <2>1 DEF CreateLock
  <2>2. ASSUME NEW s \in Sessions, NEW k \in Grants, Grant(s, k) PROVE StoppedFits'
    BY <1>0, <2>2 DEF Grant
  <2>3. ASSUME NEW h \in Handlers, NEW c \in Commands, ControlRequest(h, c) PROVE StoppedFits'
    BY <1>0, <2>3 DEF ControlRequest
  <2>4. CASE KillArm  BY <1>0, <2>4 DEF KillArm
  <2>5. CASE KillDeactivate  BY <1>0, <2>5 DEF KillDeactivate
  <2> QED BY <1>5, <2>1, <2>2, <2>3, <2>4, <2>5 DEF RequestStep
<1>6. ASSUME RecoverStep PROVE StoppedFits'
  <2>1. CASE RecoverDone  BY <1>0, <2>1 DEF RecoverDone
  <2>2. ASSUME NEW s \in Sessions, RecoverSession(s) PROVE StoppedFits'
    BY <1>0, <2>2 DEF RecoverSession
  <2> QED BY <1>6, <2>1, <2>2 DEF RecoverStep
<1>7. CASE Crash  BY <1>0, <1>7 DEF Crash
<1> QED BY <1>1, <1>2, <1>3, <1>4, <1>5, <1>6, <1>7 DEF Next

\* The idempotency keys a session has claimed are finitely many, and a new one is one more.
LEMMA GrantsCount ==
  ASSUME NEW K \in SUBSET Grants
  PROVE  /\ Cardinality(K) \in Nat
         /\ \A k \in Grants \ K : Cardinality(K \cup {k}) = Cardinality(K) + 1
<1>1. IsFiniteSet(Grants)
  <2>1. IsFiniteSet({}) BY FS_EmptySet
  <2>2. IsFiniteSet({} \cup {"initial"})  BY <2>1, FS_AddElement
  <2>3. IsFiniteSet(({} \cup {"initial"}) \cup {"risk"})  BY <2>2, FS_AddElement
  <2>4. Grants = ({} \cup {"initial"}) \cup {"risk"}  BY DEF Grants
  <2> QED BY <2>3, <2>4
<1>2. IsFiniteSet(K)  BY <1>1, FS_Subset
<1>3. Cardinality(K) \in Nat  BY <1>2, FS_CardinalityType
<1>4. \A k \in Grants \ K : Cardinality(K \cup {k}) = Cardinality(K) + 1
  BY <1>2, FS_AddElement
<1> QED BY <1>3, <1>4

\* A grant is spent by the one launch of the run that was started for it.
LEMMA GrantsUnspentStep == ASSUME OwnershipInv, Next PROVE GrantsUnspent'
<1> USE DEF journal, process, memory, run, ctl, killer, RunAt, SetRun, StartRun,
            EndRun, Raise, Unlock, CtlAt, SetCtl, EndCtl, KillerAt, Grantable,
            MaySpawn, Refuse, StreamDone, MayPersist, Settled, MaySeal, RunPCs,
            GrantsUnspent, Unspent, JournalType, ProcessType, RunType
<1>0. GrantsUnspent /\ JournalType /\ ProcessType /\ RunType /\ RunFits
  BY DEF OwnershipInv, TypeOK
<1>c. \A s \in Sessions : Cardinality(granted[s]) \in Nat
  BY <1>0, GrantsCount DEF JournalType
<1>1. ASSUME NEW s \in Sessions, RunStep(s) PROVE GrantsUnspent'
  <2>1. CASE AcceptSession(s)  BY <1>0, <1>c, <2>1 DEF AcceptSession, RunFits, Grants
  <2>2. CASE ResumeLock(s)  BY <1>0, <1>c, <2>2 DEF ResumeLock
  <2>3. CASE ResumeClaim(s)  BY <1>0, <1>c, <2>3 DEF ResumeClaim
  <2>4. CASE SpawnGate(s)  BY <1>0, <1>c, <2>4 DEF SpawnGate
  <2>5. CASE PreSpawn(s)  BY <1>0, <1>c, <2>5 DEF PreSpawn
  <2>6. CASE Launch(s)  BY <1>0, <1>c, <2>6 DEF Launch
  <2>7. CASE LaunchFails(s)  BY <1>0, <1>c, <2>7 DEF LaunchFails
  <2>8. CASE RecordProcess(s)  BY <1>0, <1>c, <2>8 DEF RecordProcess
  <2>9. CASE ReadCommand(s)  BY <1>0, <1>c, <2>9 DEF ReadCommand
  <2>10. CASE StreamEnd(s)  BY <1>0, <1>c, <2>10 DEF StreamEnd
  <2>11. CASE StreamAbort(s)  BY <1>0, <1>c, <2>11 DEF StreamAbort
  <2>12. CASE PersistResult(s)  BY <1>0, <1>c, <2>12 DEF PersistResult
  <2>13. CASE RecordUncertainLoad(s)  BY <1>0, <1>c, <2>13 DEF RecordUncertainLoad
  <2>14. CASE RecordUncertainUpdate(s)  BY <1>0, <1>c, <2>14 DEF RecordUncertainUpdate
  <2> QED BY <1>1, <2>1, <2>2, <2>3, <2>4, <2>5, <2>6, <2>7, <2>8, <2>9, <2>10,
             <2>11, <2>12, <2>13, <2>14 DEF RunStep
<1>2. ASSUME NEW s \in Sessions, ProcessStep(s) PROVE GrantsUnspent'
  <2>1. CASE RemoteCommand(s)  BY <1>0, <1>c, <2>1 DEF RemoteCommand
  <2>2. CASE ProcessExit(s)  BY <1>0, <1>c, <2>2 DEF ProcessExit
  <2> QED BY <1>2, <2>1, <2>2 DEF ProcessStep
<1>3. ASSUME NEW h \in Handlers, ControlStep(h) PROVE GrantsUnspent'
  <2>1. CASE CloseLock(h)  BY <1>0, <1>c, <2>1 DEF CloseLock
  <2>2. CASE CloseSeal(h)  BY <1>0, <1>c, <2>2 DEF CloseSeal
  <2>3. CASE StopLock(h)  BY <1>0, <1>c, <2>3 DEF StopLock
  <2>4. CASE StopClaim(h)  BY <1>0, <1>c, <2>4 DEF StopClaim
  <2>5. CASE StopGate(h)  BY <1>0, <1>c, <2>5 DEF StopGate
  <2>6. CASE StopKill(h)  BY <1>0, <1>c, <2>6 DEF StopKill
  <2>7. CASE SealLock(h)  BY <1>0, <1>c, <2>7 DEF SealLock
  <2>8. CASE StopSeal(h)  BY <1>0, <1>c, <2>8 DEF StopSeal
  <2> QED BY <1>3, <2>1, <2>2, <2>3, <2>4, <2>5, <2>6, <2>7, <2>8 DEF ControlStep
<1>4. ASSUME KillStep PROVE GrantsUnspent'
  <2>1. CASE KillWriteFile  BY <1>0, <1>c, <2>1 DEF KillWriteFile
  <2>2. CASE KillProcesses  BY <1>0, <1>c, <2>2 DEF KillProcesses
  <2>3. CASE KillReturn  BY <1>0, <1>c, <2>3 DEF KillReturn
  <2>4. ASSUME NEW s \in Sessions, KillLock(s) PROVE GrantsUnspent'
    BY <1>0, <1>c, <2>4 DEF KillLock
  <2>5. ASSUME NEW s \in Sessions, KillClaim(s) PROVE GrantsUnspent'
    BY <1>0, <1>c, <2>5 DEF KillClaim
  <2>6. ASSUME NEW s \in Sessions, KillMark(s) PROVE GrantsUnspent'
    BY <1>0, <1>c, <2>6 DEF KillMark
  <2> QED BY <1>4, <2>1, <2>2, <2>3, <2>4, <2>5, <2>6 DEF KillStep
<1>5. ASSUME RequestStep PROVE GrantsUnspent'
  <2>1. ASSUME NEW s \in Sessions, CreateLock(s) PROVE GrantsUnspent'
    BY <1>0, <1>c, <2>1 DEF CreateLock, Grants
  <2>2. ASSUME NEW s \in Sessions, NEW k \in Grants, Grant(s, k) PROVE GrantsUnspent'
    <3>1. granted[s] \in SUBSET Grants /\ k \in Grants \ granted[s]  BY <1>0, <1>c, <2>2 DEF Grant
    <3>2. Cardinality(granted[s] \cup {k}) = Cardinality(granted[s]) + 1
      BY <3>1, GrantsCount
    <3> QED BY <1>0, <1>c, <2>2, <3>2 DEF Grant
  <2>3. ASSUME NEW h \in Handlers, NEW c \in Commands, ControlRequest(h, c) PROVE GrantsUnspent'
    BY <1>0, <1>c, <2>3 DEF ControlRequest
  <2>4. CASE KillArm  BY <1>0, <1>c, <2>4 DEF KillArm
  <2>5. CASE KillDeactivate  BY <1>0, <1>c, <2>5 DEF KillDeactivate
  <2> QED BY <1>5, <2>1, <2>2, <2>3, <2>4, <2>5 DEF RequestStep
<1>6. ASSUME RecoverStep PROVE GrantsUnspent'
  <2>1. CASE RecoverDone  BY <1>0, <1>c, <2>1 DEF RecoverDone
  <2>2. ASSUME NEW s \in Sessions, RecoverSession(s) PROVE GrantsUnspent'
    BY <1>0, <1>c, <2>2 DEF RecoverSession
  <2> QED BY <1>6, <2>1, <2>2 DEF RecoverStep
<1>7. CASE Crash  BY <1>0, <1>c, <1>7 DEF Crash
<1> QED BY <1>1, <1>2, <1>3, <1>4, <1>5, <1>6, <1>7 DEF Next

\* The initial state satisfies every conjunct of OwnershipInv.
LEMMA OwnershipInit == Init => OwnershipInv
<1> SUFFICES ASSUME Init PROVE OwnershipInv
  OBVIOUS
<1> USE DEF Init
<1>1. TypeOK
  BY BoundsAssumption DEF TypeOK, JournalType, ProcessType, LockType, RunType,
     ControlType, RunPCs, ControlPCs, KillPCs
<1>2. GateOwned /\ RestartIsEmpty
  BY ActorsAssumption DEF GateOwned, RestartIsEmpty, Launching
<1>3. RunKnows /\ JournalKnows
  BY DEF RunKnows, JournalKnows, Waiting
<1>4. StopKnows /\ KillKnows
  BY DEF StopKnows, KillKnows
<1>5. LiveIsReachable /\ SettledIsQuiet /\ KillSwitchQuiet
  BY DEF LiveIsReachable, SettledIsQuiet, KillSwitchQuiet, Live
<1>6. RunFits /\ ClosedFits /\ UnspawnedFits /\ StoppedFits
  BY DEF RunFits, ClosedFits, UnspawnedFits, StoppedFits, Unspawned, Claimed
<1>7. RunningHasThread
  BY DEF RunningHasThread, Running
<1>8. GrantsUnspent
  BY FS_EmptySet DEF GrantsUnspent, Unspent
<1> QED BY <1>1, <1>2, <1>3, <1>4, <1>5, <1>6, <1>7, <1>8 DEF OwnershipInv

\* A step that changes no variable keeps OwnershipInv.
LEMMA OwnershipStutter == OwnershipInv /\ UNCHANGED vars => OwnershipInv'
<1> SUFFICES ASSUME OwnershipInv, UNCHANGED vars PROVE OwnershipInv'
  OBVIOUS
<1> USE DEF vars, journal, process, memory, run, ctl, killer, OwnershipInv
<1>1. TypeOK'
  BY DEF TypeOK, JournalType, ProcessType, LockType, RunType, ControlType
<1>2. GateOwned' /\ RestartIsEmpty'  BY DEF GateOwned, RestartIsEmpty, Live
<1>3. RunKnows' /\ JournalKnows'  BY DEF RunKnows, JournalKnows
<1>4. StopKnows' /\ KillKnows'  BY DEF StopKnows, KillKnows, Live, Target
<1>5. LiveIsReachable' /\ SettledIsQuiet' /\ KillSwitchQuiet'
  BY DEF LiveIsReachable, SettledIsQuiet, KillSwitchQuiet, Live
<1>6. RunFits' /\ ClosedFits'  BY DEF RunFits, ClosedFits
<1>7. UnspawnedFits' /\ StoppedFits'
  BY DEF UnspawnedFits, StoppedFits, Unspawned, Target
<1>8. RunningHasThread' /\ GrantsUnspent'
  BY DEF RunningHasThread, GrantsUnspent, Unspent
<1> QED BY <1>1, <1>2, <1>3, <1>4, <1>5, <1>6, <1>7, <1>8

\* Together: the invariant is inductive.
LEMMA OwnershipStep == ASSUME OwnershipInv, Next PROVE OwnershipInv'
<1>1. TypeOK'
  BY JournalTypeStep, ProcessTypeStep, LockTypeStep, RunTypeStep, ControlTypeStep
     DEF TypeOK
<1> QED
  BY <1>1, GateOwnedStep, RestartIsEmptyStep, RunKnowsStep, JournalKnowsStep,
     StopKnowsStep, KillKnowsStep, LiveIsReachableStep, SettledIsQuietStep,
     KillSwitchQuietStep, RunFitsStep, ClosedFitsStep, UnspawnedFitsStep,
     StoppedFitsStep, RunningHasThreadStep, GrantsUnspentStep DEF OwnershipInv

\* In every reachable state the types hold, the locks have their owners, and the
\* actors know what the code relies on.
THEOREM OwnershipInvariant == Spec => []OwnershipInv
  BY OwnershipInit, OwnershipStep, OwnershipStutter, PTL DEF Spec

\* Every variable keeps its type.
THEOREM TypeCorrect == Spec => []TypeOK
<1>1. OwnershipInv => TypeOK  BY DEF OwnershipInv
<1> QED BY <1>1, OwnershipInvariant, PTL

\* No process the runner has not lost is out of reach of a stop or the kill switch.
THEOREM LiveProcessesAreReachable == Spec => []LiveIsReachable
<1>1. OwnershipInv => LiveIsReachable  BY DEF OwnershipInv
<1> QED BY <1>1, OwnershipInvariant, PTL

\* A session never has two processes, and registry.register never finds its slot
\* taken (trusted_session.py, ProcessRegistry.register).
THEOREM OneProcessPerSession == Spec => []LaunchSlotFree
<1>1. OwnershipInv => LaunchSlotFree  BY DEF OwnershipInv, RunKnows, LaunchSlotFree
<1> QED BY <1>1, OwnershipInvariant, PTL

\* No process works behind a journal that says the session has ended or waits.
THEOREM SettledSessionsAreQuiet == Spec => []SettledIsQuiet
<1>1. OwnershipInv => SettledIsQuiet  BY DEF OwnershipInv
<1> QED BY <1>1, OwnershipInvariant, PTL

\* The kill switch, once returned, leaves nothing running that it could kill.
THEOREM KillSwitchIsQuiet == Spec => []KillSwitchQuiet
<1>1. OwnershipInv => KillSwitchQuiet  BY DEF OwnershipInv
<1> QED BY <1>1, OwnershipInvariant, PTL

\* Launch is the only step that makes a process run.
LEMMA OnlyLaunchSpawns ==
  ASSUME OwnershipInv, Next, NEW s \in Sessions,
         proc[s] # "running", proc'[s] = "running"
  PROVE  Launch(s)
<1> USE DEF process, memory
<1>0. ProcessType  BY DEF OwnershipInv, TypeOK
<1>1. ASSUME NEW x \in Sessions, RunStep(x) PROVE Launch(s)
  <2>1. CASE Launch(x)  BY <1>0, <2>1 DEF Launch, ProcessType
  <2>2. CASE RecordProcess(x)  BY <1>0, <2>2 DEF RecordProcess, ProcessType
  <2>3. CASE StreamAbort(x)  BY <1>0, <2>3 DEF StreamAbort, ProcessType
  <2>4. ASSUME ~Launch(x), ~RecordProcess(x), ~StreamAbort(x) PROVE proc' = proc
    BY <1>1, <2>4 DEF RunStep, AcceptSession, ResumeLock, ResumeClaim, SpawnGate,
       PreSpawn, Refuse, LaunchFails, ReadCommand, StreamEnd, PersistResult,
       RecordUncertainLoad, RecordUncertainUpdate
  <2> QED BY <2>1, <2>2, <2>3, <2>4
<1>2. ASSUME NEW x \in Sessions, ProcessStep(x) PROVE FALSE
  BY <1>0, <1>2 DEF ProcessStep, RemoteCommand, ProcessExit, ProcessType
<1>3. ASSUME NEW h \in Handlers, ControlStep(h) PROVE FALSE
  <2>1. CASE StopKill(h)  BY <1>0, <2>1 DEF StopKill, ProcessType
  <2>2. ASSUME ~StopKill(h) PROVE proc' = proc
    BY <1>3, <2>2 DEF ControlStep, CloseLock, CloseSeal, StopLock, StopClaim,
       StopGate, SealLock, StopSeal
  <2> QED BY <2>1, <2>2
<1>4. ASSUME KillStep PROVE FALSE
  <2>1. CASE KillProcesses  BY <1>0, <2>1 DEF KillProcesses, ProcessType
  <2>2. ASSUME ~KillProcesses PROVE proc' = proc
    BY <1>4, <2>2 DEF KillStep, KillWriteFile, KillReturn, KillLock, KillClaim, KillMark
  <2> QED BY <2>1, <2>2
<1>5. ASSUME RequestStep PROVE FALSE
  BY <1>5 DEF RequestStep, CreateLock, Grant, ControlRequest, KillArm, KillDeactivate
<1>6. ASSUME RecoverStep PROVE FALSE
  BY <1>0, <1>6 DEF RecoverStep, RecoverDone, RecoverSession, ProcessType
<1>7. CASE Crash  BY <1>7 DEF Crash
<1> QED BY <1>1, <1>2, <1>3, <1>4, <1>5, <1>6, <1>7 DEF Next

\* A process is spawned only for a session in a running status, and never after
\* the kill switch was activated, even when the session was claimed before it.
THEOREM SpawnsAreAllowed == Spec => SpawnIsAllowed
<1> DEFINE Allowed ==
      \A s \in Sessions :
        proc[s] # "running" /\ proc'[s] = "running" =>
          ~killSwitch' /\ status'[s] \in Running
<1>1. OwnershipInv /\ [Next]_vars => Allowed
  <2> SUFFICES ASSUME OwnershipInv, [Next]_vars, NEW s \in Sessions,
                      proc[s] # "running", proc'[s] = "running"
               PROVE  ~killSwitch' /\ status'[s] \in Running
    OBVIOUS
  <2>1. Launch(s)  BY OnlyLaunchSpawns DEF vars, process
  <2> QED BY <2>1 DEF Launch, RunAt, OwnershipInv, RunKnows
<1>2. Spec => [][Allowed]_vars
  BY <1>1, OwnershipInvariant, PTL DEF Spec
<1> QED BY <1>2 DEF SpawnIsAllowed

\* A running session has a thread to move it on, or was claimed by a stop or the kill
\* switch (trusted_session.py: every exit of create_and_diagnose and resume).
THEOREM RunningSessionsHaveThreads == Spec => []RunningHasThread
<1>1. OwnershipInv => RunningHasThread  BY DEF OwnershipInv
<1> QED BY <1>1, OwnershipInvariant, PTL

\* Every execution was paid for by a grant of its own (_claim binds its key).
THEOREM GrantsPayForExecutions == Spec => []GrantsBoundExecutions
<1>1. OwnershipInv => GrantsBoundExecutions
  <2> SUFFICES ASSUME OwnershipInv, NEW s \in Sessions
               PROVE  executions[s] <= Cardinality(granted[s])
    BY DEF GrantsBoundExecutions
  <2>1. executions[s] \in Nat /\ Cardinality(granted[s]) \in Nat
    BY GrantsCount DEF OwnershipInv, TypeOK, ProcessType, JournalType
  <2> QED BY <2>1 DEF OwnershipInv, GrantsUnspent
<1> QED BY <1>1, OwnershipInvariant, PTL

-----------------------------------------------------------------------------
(* The lifecycle AIOps sees.                                              *)

\* The moves of the lifecycle, written out.
LegalMoves ==
  ({"DIAGNOSING"} \X {"PENDING_APPROVAL", "DIAGNOSIS_FAILED", "CANCELLED", "REJECTED",
                      "EXPIRED", "MANUAL_INTERVENTION"})
  \cup
  ({"EXECUTING"} \X {"SUCCEEDED", "FAILED", "AWAITING_RISK_CONFIRMATION", "CANCELLED",
                     "REJECTED", "EXPIRED", "MANUAL_INTERVENTION"})
  \cup
  (Waiting \X {"EXECUTING", "REJECTED", "EXPIRED", "CANCELLED", "MANUAL_INTERVENTION"})
  \cup
  ({"CANCELLED", "REJECTED", "EXPIRED"} \X {"MANUAL_INTERVENTION"})
  \cup
  {<<"NONE", "DIAGNOSING">>, <<"MANUAL_INTERVENTION", "DIAGNOSIS_FAILED">>}

\* A step that moves one session, which has no process, and leaves all processes be.
Moves(s, to) ==
  /\ status' = [status EXCEPT ![s] = to]
  /\ to = status[s] \/ <<status[s], to>> \in LegalMoves
  /\ ~Live(s)
  /\ \A x \in Sessions : Live(x)' <=> Live(x)

StatusWrite ==
  \/ \E s \in Sessions :
       \/ AcceptSession(s) \/ ResumeClaim(s) \/ PreSpawn(s) \/ PersistResult(s)
       \/ RecordUncertainUpdate(s) \/ KillMark(s) \/ RecoverSession(s)
  \/ \E h \in Handlers : CloseSeal(h) \/ StopSeal(h)

\* The other steps do not write the status of a session.
LEMMA OnlyWritesMove == ASSUME Next, ~StatusWrite PROVE status' = status
<1> USE DEF journal
<1>1. ASSUME NEW s \in Sessions, RunStep(s) PROVE status' = status
  BY <1>1 DEF StatusWrite, RunStep, ResumeLock, SpawnGate, Launch, LaunchFails,
     RecordProcess, ReadCommand, StreamEnd, StreamAbort, RecordUncertainLoad
<1>2. ASSUME NEW s \in Sessions, ProcessStep(s) PROVE status' = status
  BY <1>2 DEF ProcessStep, RemoteCommand, ProcessExit
<1>3. ASSUME NEW h \in Handlers, ControlStep(h) PROVE status' = status
  BY <1>3 DEF StatusWrite, ControlStep, CloseLock, StopLock, StopClaim, StopGate,
     StopKill, SealLock
<1>4. ASSUME KillStep PROVE status' = status
  BY <1>4 DEF StatusWrite, KillStep, KillWriteFile, KillProcesses, KillReturn,
     KillLock, KillClaim
<1>5. ASSUME RequestStep PROVE status' = status
  BY <1>5 DEF RequestStep, CreateLock, Grant, ControlRequest, KillArm, KillDeactivate
<1>6. ASSUME RecoverStep PROVE status' = status
  BY <1>6 DEF StatusWrite, RecoverStep, RecoverDone
<1>7. CASE Crash  BY <1>7 DEF Crash
<1> QED BY <1>1, <1>2, <1>3, <1>4, <1>5, <1>6, <1>7 DEF Next

\* Each write of a status is a move of the lifecycle, of a session without a process.
LEMMA WritesMove ==
  ASSUME OwnershipInv, StatusWrite
  PROVE  status' = status \/ \E s \in Sessions, to \in RepairSessionStatus : Moves(s, to)
<1> USE DEF process, memory, run, ctl, killer, RunAt, CtlAt, KillerAt, Running, Waiting,
            LegalMoves, Moves
<1> DEFINE Goal1 == \E s \in Sessions, to \in RepairSessionStatus : Moves(s, to)
<1>0. JournalType /\ ProcessType /\ LockType /\ RunType /\ RunKnows /\ RunFits /\ LiveIsReachable /\ JournalKnows
  BY DEF OwnershipInv, TypeOK
<1>1. ASSUME NEW s \in Sessions, AcceptSession(s) PROVE Goal1
  <2>1. status[s] = "NONE" /\ ~Live(s)  BY <1>0, <1>1 DEF AcceptSession, RunKnows, Live
  <2>2. Moves(s, "DIAGNOSING")  BY <1>1, <2>1 DEF AcceptSession, Live
  <2> QED BY <2>2 DEF RepairSessionStatus
<1>2. ASSUME NEW s \in Sessions, ResumeClaim(s) PROVE Goal1 \/ status' = status
  <2>1. kind[s] \in Grants /\ ~Live(s)
    BY <1>0, <1>2 DEF ResumeClaim, RunFits, RunKnows, Live
  <2>2. \/ status' = status
        \/ \E to \in {"EXECUTING", "EXPIRED", "MANUAL_INTERVENTION"} : Moves(s, to)
    BY <1>2, <2>1 DEF ResumeClaim, SourceStatus, Live
  <2> QED BY <2>2 DEF RepairSessionStatus
<1>3. ASSUME NEW s \in Sessions, PreSpawn(s) PROVE Goal1 \/ status' = status
  <2>1. ~Live(s)  BY <1>0, <1>3 DEF PreSpawn, RunKnows, Live
  <2>2. status' = status \/ Moves(s, "EXPIRED")
    BY <1>3, <2>1 DEF PreSpawn, Refuse, MaySpawn, ActiveStatus, Grants, Live
  <2> QED BY <2>2 DEF RepairSessionStatus
<1>4. ASSUME NEW s \in Sessions, PersistResult(s) PROVE Goal1 \/ status' = status
  <2>1. ~Live(s) /\ aim[s] \in Results(kind[s]) /\ kind[s] \in {"diagnosis"} \cup Grants
    BY <1>0, <1>4 DEF PersistResult, RunKnows, Live, RunType
  <2>2. status' = status \/ Moves(s, aim[s])
    BY <1>4, <2>1 DEF PersistResult, MayPersist, ActiveStatus, Results, Grants, Live
  <2>3. aim[s] \in RepairSessionStatus  BY <2>1 DEF Results, RepairSessionStatus
  <2> QED BY <2>2, <2>3
<1>5. ASSUME NEW s \in Sessions, RecordUncertainUpdate(s) PROVE Goal1
  <2>1. /\ ~Live(s) /\ aim[s] \in {"DIAGNOSIS_FAILED", "MANUAL_INTERVENTION"}
        /\ status[s] \in {ActiveStatus(kind[s])} \cup Goals
    BY <1>0, <1>5 DEF RecordUncertainUpdate, RunKnows, LiveIsReachable, RunFits, Claimed,
       RunPCs
  <2>2. aim[s] = "DIAGNOSIS_FAILED" => status[s] \in {"DIAGNOSING", "MANUAL_INTERVENTION"}
    BY <1>5 DEF RecordUncertainUpdate, OwnershipInv, UnspawnedFits, Unspawned, ActiveStatus
  <2>3. Moves(s, aim[s])
    BY <1>5, <2>1, <2>2 DEF RecordUncertainUpdate, ActiveStatus, Goals, Live
  <2> QED BY <2>1, <2>3 DEF RepairSessionStatus
<1>6. ASSUME NEW s \in Sessions, KillMark(s) PROVE Goal1 \/ status' = status
  <2>1. ~Live(s) /\ plan[s] \in {"CANCELLED", "MANUAL_INTERVENTION"}
    BY <1>6 DEF KillMark, ToMark, OwnershipInv, KillKnows
  <2>2. status' = status \/ Moves(s, plan[s])
    BY <1>6, <2>1 DEF KillMark, ACTIVE_STATUSES, Live
  <2> QED BY <2>1, <2>2 DEF RepairSessionStatus
<1>7. ASSUME NEW s \in Sessions, RecoverSession(s) PROVE Goal1
  <2>1. ~Live(s)  BY <1>7 DEF RecoverSession, OwnershipInv, RestartIsEmpty
  <2>2. Moves(s, "MANUAL_INTERVENTION")
    BY <1>0, <1>7, <2>1 DEF RecoverSession, Live, ProcessType
  <2> QED BY <2>2 DEF RepairSessionStatus
<1>8. ASSUME NEW h \in Handlers, CloseSeal(h) PROVE Goal1 \/ status' = status
  <2>1. Target(h) \in Sessions /\ Goal(h) \in Goals
    BY <1>8, TargetType DEF CloseSeal
  <2>2. status[Target(h)] \in Waiting => ~Live(Target(h))
    BY <1>0, <2>1 DEF JournalKnows, LiveIsReachable
  <2>3. status' = status \/ Moves(Target(h), Goal(h))
    BY <1>8, <2>1, <2>2 DEF CloseSeal, Goals, Live
  <2> QED BY <2>1, <2>3 DEF Goals, RepairSessionStatus
<1>9. ASSUME NEW h \in Handlers, StopSeal(h) PROVE Goal1 \/ status' = status
  <2>1. Target(h) \in Sessions /\ Goal(h) \in Goals /\ ~Live(Target(h))
    BY <1>9, TargetType DEF StopSeal, OwnershipInv, StopKnows
  <2>2. \/ status' = status
        \/ \E to \in Goals : Moves(Target(h), to)
    BY <1>9, <2>1 DEF StopSeal, MaySeal, Goals, Live
  <2> QED BY <2>1, <2>2 DEF Goals, RepairSessionStatus
<1> QED BY <1>1, <1>2, <1>3, <1>4, <1>5, <1>6, <1>7, <1>8, <1>9 DEF StatusWrite

\* Of the steps that write no status, only a launch brings a session to life.
LEMMA OnlyLaunchLives ==
  ASSUME OwnershipInv, Next, NEW s \in Sessions, ~Live(s), Live(s)'
  PROVE  Launch(s)
<1>0. ProcessType  BY DEF OwnershipInv, TypeOK
<1>1. CASE proc[s] # "running"  BY <1>1, OnlyLaunchSpawns DEF Live
<1>2. CASE proc[s] = "running" /\ lost[s]
  <2> USE DEF process, memory, Live
  <2>1. ASSUME NEW x \in Sessions, RunStep(x) PROVE Launch(s)
    <3>1. CASE Launch(x)  BY <1>0, <1>2, <2>1, <3>1 DEF Launch, ProcessType
    <3>2. CASE RecordProcess(x)
      BY <1>0, <1>2, <3>2 DEF RecordProcess, RunAt, ProcessType, OwnershipInv, LiveIsReachable
    <3>3. CASE StreamAbort(x)  BY <1>0, <1>2, <3>3 DEF StreamAbort, ProcessType
    <3>4. ASSUME ~Launch(x), ~RecordProcess(x), ~StreamAbort(x) PROVE lost' = lost
      BY <2>1, <3>4 DEF RunStep, AcceptSession, ResumeLock, ResumeClaim, SpawnGate,
         PreSpawn, Refuse, LaunchFails, ReadCommand, StreamEnd, PersistResult,
         RecordUncertainLoad, RecordUncertainUpdate
    <3> QED BY <1>2, <3>1, <3>2, <3>3, <3>4
  <2>2. ASSUME NEW x \in Sessions, ProcessStep(x) PROVE lost' = lost
    BY <2>2 DEF ProcessStep, RemoteCommand, ProcessExit
  <2>3. ASSUME NEW h \in Handlers, ControlStep(h) PROVE lost' = lost
    BY <2>3 DEF ControlStep, CloseLock, CloseSeal, StopLock, StopClaim, StopGate,
       StopKill, SealLock, StopSeal
  <2>4. ASSUME KillStep PROVE lost'[s] = lost[s]
    <3>1. CASE KillProcesses  BY <1>2, <3>1 DEF KillProcesses
    <3>2. ASSUME ~KillProcesses PROVE lost' = lost
      BY <2>4, <3>2 DEF KillStep, KillWriteFile, KillReturn, KillLock, KillClaim, KillMark
    <3> QED BY <3>1, <3>2
  <2>5. ASSUME RequestStep PROVE lost' = lost
    BY <2>5 DEF RequestStep, CreateLock, Grant, ControlRequest, KillArm, KillDeactivate
  <2>6. ASSUME RecoverStep PROVE lost' = lost
    BY <2>6 DEF RecoverStep, RecoverDone, RecoverSession
  <2>7. CASE Crash  BY <1>2, <2>7 DEF Crash
  <2> QED BY <1>2, <2>1, <2>2, <2>3, <2>4, <2>5, <2>6, <2>7 DEF Next
<1> QED BY <1>1, <1>2 DEF Live

\* The moves written out are those of the lifecycle.
LEMMA LegalIsContract ==
  ASSUME NEW from, NEW to, <<from, to>> \in LegalMoves
  PROVE  \/ from = "NONE" /\ to = "DIAGNOSING"
         \/ ContractEdge(from, to)
         \/ from = "EXECUTING" /\ to = "EXPIRED"
         \/ from = "PENDING_APPROVAL" /\ to = "MANUAL_INTERVENTION"
         \/ from \in {"CANCELLED", "REJECTED", "EXPIRED"} /\ to = "MANUAL_INTERVENTION"
         \/ from = "MANUAL_INTERVENTION" /\ to = "DIAGNOSIS_FAILED"
         \/ from \in {"DIAGNOSING", "EXECUTING"} /\ to \in {"REJECTED", "EXPIRED"}
<1>1. ASSUME NEW row \in TRANSITIONS PROVE ContractEdge(row[1], row[2][2])
  BY DEF ContractEdge
<1>2. ASSUME from = "DIAGNOSING",
             to \in {"PENDING_APPROVAL", "DIAGNOSIS_FAILED", "CANCELLED",
                     "MANUAL_INTERVENTION"}
      PROVE  ContractEdge(from, to)
  <2>1. /\ <<"DIAGNOSING", <<"proposal_created", "PENDING_APPROVAL">>>> \in TRANSITIONS
        /\ <<"DIAGNOSING", <<"diagnosis_failed", "DIAGNOSIS_FAILED">>>> \in TRANSITIONS
        /\ <<"DIAGNOSING", <<"cancel_confirmed", "CANCELLED">>>> \in TRANSITIONS
        /\ <<"DIAGNOSING", <<"cancel_uncertain", "MANUAL_INTERVENTION">>>> \in TRANSITIONS
    BY DEF TRANSITIONS
  <2> QED BY <1>1, <1>2, <2>1
<1>3. ASSUME from = "EXECUTING",
             to \in {"SUCCEEDED", "FAILED", "AWAITING_RISK_CONFIRMATION", "CANCELLED",
                     "MANUAL_INTERVENTION"}
      PROVE  ContractEdge(from, to)
  <2>1. /\ <<"EXECUTING", <<"execution_succeeded", "SUCCEEDED">>>> \in TRANSITIONS
        /\ <<"EXECUTING", <<"execution_failed", "FAILED">>>> \in TRANSITIONS
        /\ <<"EXECUTING", <<"risk_confirmation_requested", "AWAITING_RISK_CONFIRMATION">>>>
             \in TRANSITIONS
        /\ <<"EXECUTING", <<"cancel_confirmed", "CANCELLED">>>> \in TRANSITIONS
        /\ <<"EXECUTING", <<"cancel_uncertain", "MANUAL_INTERVENTION">>>> \in TRANSITIONS
    BY DEF TRANSITIONS
  <2> QED BY <1>1, <1>3, <2>1
<1>4. ASSUME from = "PENDING_APPROVAL",
             to \in {"EXECUTING", "REJECTED", "EXPIRED", "CANCELLED"}
      PROVE  ContractEdge(from, to)
  <2>1. /\ <<"PENDING_APPROVAL", <<"approval_granted", "EXECUTING">>>> \in TRANSITIONS
        /\ <<"PENDING_APPROVAL", <<"approval_rejected", "REJECTED">>>> \in TRANSITIONS
        /\ <<"PENDING_APPROVAL", <<"approval_expired", "EXPIRED">>>> \in TRANSITIONS
        /\ <<"PENDING_APPROVAL", <<"cancel_confirmed", "CANCELLED">>>> \in TRANSITIONS
    BY DEF TRANSITIONS
  <2> QED BY <1>1, <1>4, <2>1
<1>5. ASSUME from = "AWAITING_RISK_CONFIRMATION",
             to \in {"EXECUTING", "REJECTED", "EXPIRED", "CANCELLED",
                     "MANUAL_INTERVENTION"}
      PROVE  ContractEdge(from, to)
  <2> DEFINE A == "AWAITING_RISK_CONFIRMATION"
  <2>1. /\ <<A, <<"risk_confirmation_granted", "EXECUTING">>>> \in TRANSITIONS
        /\ <<A, <<"risk_confirmation_rejected", "REJECTED">>>> \in TRANSITIONS
        /\ <<A, <<"risk_confirmation_expired", "EXPIRED">>>> \in TRANSITIONS
        /\ <<A, <<"cancel_confirmed", "CANCELLED">>>> \in TRANSITIONS
        /\ <<A, <<"execution_uncertain", "MANUAL_INTERVENTION">>>> \in TRANSITIONS
    BY DEF TRANSITIONS
  <2> QED BY <1>1, <1>5, <2>1
<1>6. from \in {"NONE", "DIAGNOSING", "EXECUTING", "PENDING_APPROVAL",
                "AWAITING_RISK_CONFIRMATION", "CANCELLED", "REJECTED", "EXPIRED",
                "MANUAL_INTERVENTION"}
  BY DEF LegalMoves, Waiting
<1> QED BY <1>2, <1>3, <1>4, <1>5, <1>6 DEF LegalMoves, Waiting

\* A move of a session without a process is a move of the lifecycle, or none.
LEMMA MoveImplements ==
  ASSUME OwnershipInv, NEW s \in Sessions, NEW to \in RepairSessionStatus, Moves(s, to)
  PROVE  Lifecycle!Next
<1> DEFINE live == [x \in Sessions |-> Live(x)]
<1>1. live' = live /\ ~live[s]
  <2>1. \A x \in Sessions : Live(x)' = Live(x)  BY DEF Moves, Live
  <2> QED BY <2>1, Zenon DEF Moves
<1>2. CASE to = status[s]
  <2>1. status' = status
    BY <1>2 DEF Moves, OwnershipInv, TypeOK, JournalType
  <2>2. live' = [x \in Sessions |-> live[x] /\ x \notin {}]
    <3>1. \A x \in Sessions : Live(x)' = (Live(x) /\ x \notin {})  BY DEF Moves, Live
    <3> QED BY <3>1, Zenon
  <2>3. Lifecycle!Leave({})
    BY <2>1, <2>2 DEF Lifecycle!Leave
  <2> QED BY <2>3 DEF Lifecycle!Next
<1>3. CASE <<status[s], to>> \in LegalMoves
  <2>1. Lifecycle!Move(s, to)  BY <1>1 DEF Moves, Lifecycle!Move
  <2>2. \/ Lifecycle!Accept(s) \/ Lifecycle!Advance(s, to) \/ Lifecycle!Expire(s)
        \/ Lifecycle!HandOver(s) \/ Lifecycle!Restate(s) \/ Lifecycle!StopAs(s)
    BY <1>3, <2>1, LegalIsContract DEF Lifecycle!Accept, Lifecycle!Advance, Lifecycle!Expire,
       Lifecycle!HandOver, Lifecycle!Restate, Lifecycle!StopAs, Lifecycle!ContractEdge,
       ContractEdge, Lifecycle!TRANSITIONS, TRANSITIONS
  <2> QED BY <2>2 DEF Lifecycle!Next, Lifecycle!RepairSessionStatus, RepairSessionStatus
<1> QED BY <1>2, <1>3 DEF Moves

\* Every step of the sessions is a step of the lifecycle, or changes nothing it sees.
LEMMA StepImplements == ASSUME OwnershipInv, Next PROVE Lifecycle!Next
<1> DEFINE live == [x \in Sessions |-> Live(x)]
<1>1. CASE status' # status
  BY <1>1, OnlyWritesMove, WritesMove, MoveImplements
<1>2. ASSUME status' = status, NEW s \in Sessions, Launch(s) PROVE Lifecycle!Next
  <2>1. ~Live(s) /\ status[s] \in {"DIAGNOSING", "EXECUTING"}
    BY <1>2 DEF Launch, RunAt, OwnershipInv, RunKnows, Running, Live
  <2>2. \A x \in Sessions : Live(x)' <=> x = s \/ Live(x)
    BY <1>2 DEF Launch, Live, OwnershipInv, TypeOK, ProcessType
  <2>3. live' = [live EXCEPT ![s] = TRUE]
    <3>1. \A x \in Sessions : Live(x)' = IF x = s THEN TRUE ELSE Live(x)
      BY <2>2, Zenon DEF Live
    <3>2. live' = [x \in Sessions |-> IF x = s THEN TRUE ELSE Live(x)]
      BY <3>1, Zenon
    <3> QED BY <3>2, Zenon
  <2>4. Lifecycle!Spawn(s)
    BY <1>2, <2>1, <2>3 DEF Lifecycle!Spawn
  <2> QED BY <2>4 DEF Lifecycle!Next
<1>3. ASSUME status' = status, \A s \in Sessions : ~Launch(s) PROVE Lifecycle!Next
  <2> DEFINE S == {x \in Sessions : Live(x) /\ ~Live(x)'}
  <2>1. \A x \in Sessions : Live(x)' <=> Live(x) /\ x \notin S
    BY <1>3, OnlyLaunchLives
  <2>2. live' = [x \in Sessions |-> live[x] /\ x \notin S]
    <3>1. \A x \in Sessions : Live(x)' = (Live(x) /\ x \notin S)
      BY <2>1, Zenon DEF Live
    <3> HIDE DEF S
    <3> QED BY <3>1, Zenon
  <2>3. Lifecycle!Leave(S)  BY <1>3, <2>2 DEF Lifecycle!Leave
  <2> QED BY <2>3 DEF Lifecycle!Next
<1> QED BY <1>1, <1>2, <1>3

\* The journal and the processes of the runner, as AIOps sees them, follow the
\* lifecycle: the sessions' moves are those of the contract and the few listed there,
\* and none is made while a process works.
THEOREM SessionsImplementLifecycle == Spec => ImplementsLifecycle
<1>1. Init => Lifecycle!Init
  <2> SUFFICES ASSUME Init PROVE Lifecycle!Init  OBVIOUS
  <2>1. \A s \in Sessions : Live(s) = FALSE  BY DEF Init, Live
  <2>2. [s \in Sessions |-> Live(s)] = [s \in Sessions |-> FALSE]  BY <2>1, Zenon
  <2> QED BY <2>2 DEF Init, Lifecycle!Init
<1>2. OwnershipInv /\ [Next]_vars =>
        [Lifecycle!Next]_<<status, [s \in Sessions |-> Live(s)]>>
  <2>1. UNCHANGED vars => UNCHANGED <<status, [s \in Sessions |-> Live(s)]>>
    BY DEF vars, journal, process, Live
  <2> QED BY <2>1, StepImplements
<1> QED BY <1>1, <1>2, OwnershipInvariant, PTL DEF Spec, ImplementsLifecycle, Lifecycle!Spec

-----------------------------------------------------------------------------
(* What is final.                                                         *)

\* The moves of one step, for one session.
LEMMA SessionMoves ==
  ASSUME OwnershipInv, Next, NEW s \in Sessions
  PROVE  status'[s] = status[s] \/ <<status[s], status'[s]>> \in LegalMoves
<1>0. JournalType  BY DEF OwnershipInv, TypeOK
<1>1. CASE status' = status  BY <1>1
<1>2. ASSUME NEW x \in Sessions, NEW to \in RepairSessionStatus, Moves(x, to)
      PROVE  status'[s] = status[s] \/ <<status[s], status'[s]>> \in LegalMoves
  BY <1>0, <1>2 DEF Moves, JournalType
<1> QED BY <1>1, <1>2, OnlyWritesMove, WritesMove

\* What AIOps has closed is written by nobody: no run has claimed the session, a stop
\* and the kill switch look for an active one, and a second close for a waiting one.
LEMMA ClosedIsFinal ==
  ASSUME OwnershipInv, Next, NEW s \in Sessions, lastOutcome[s] = "CLOSED"
  PROVE  status'[s] = status[s] /\ lastOutcome'[s] = lastOutcome[s]
<1> USE DEF journal, RunAt, CtlAt, KillerAt, Goals, Running, Waiting, Grants, JournalType
<1>0. /\ JournalType
      /\ status[s] \in Goals /\ pc[s] \in {"idle", "granted", "claiming"}
      /\ pc[s] \in {"granted", "claiming"} => kind[s] \in Grants
  BY DEF OwnershipInv, TypeOK, ClosedFits, RunFits
<1>1. ASSUME NEW x \in Sessions, AcceptSession(x) PROVE status'[s] = status[s]
  BY <1>0, <1>1 DEF AcceptSession
<1>2. ASSUME NEW x \in Sessions, ResumeClaim(x) PROVE status'[s] = status[s]
  BY <1>0, <1>2 DEF ResumeClaim, SourceStatus
<1>3. ASSUME NEW x \in Sessions, PreSpawn(x) PROVE status'[s] = status[s]
  BY <1>0, <1>3 DEF PreSpawn, Refuse
<1>4. ASSUME NEW x \in Sessions, PersistResult(x) PROVE status'[s] = status[s]
  BY <1>0, <1>4 DEF PersistResult
<1>5. ASSUME NEW x \in Sessions, RecordUncertainUpdate(x) PROVE status'[s] = status[s]
  BY <1>0, <1>5 DEF RecordUncertainUpdate
<1>6. ASSUME NEW x \in Sessions, KillMark(x) PROVE status'[s] = status[s]
  BY <1>0, <1>6 DEF KillMark, ACTIVE_STATUSES
<1>7. ASSUME NEW x \in Sessions, RecoverSession(x) PROVE status'[s] = status[s]
  BY <1>0, <1>7 DEF RecoverSession
<1>8. ASSUME NEW h \in Handlers, CloseSeal(h) \/ StopSeal(h)
      PROVE  status'[s] = status[s] /\ lastOutcome'[s] = lastOutcome[s]
  BY <1>0, <1>8 DEF CloseSeal, StopSeal, MaySeal
<1>9. status'[s] = status[s]
  BY <1>1, <1>2, <1>3, <1>4, <1>5, <1>6, <1>7, <1>8, OnlyWritesMove DEF StatusWrite
<1>10. ASSUME \A h \in Handlers : ~CloseSeal(h) /\ ~StopSeal(h)
       PROVE  lastOutcome' = lastOutcome
  <2>1. ASSUME NEW x \in Sessions, RunStep(x) \/ ProcessStep(x)
        PROVE  lastOutcome' = lastOutcome
    BY <2>1 DEF RunStep, AcceptSession, ResumeLock, ResumeClaim, SpawnGate, PreSpawn,
       Launch, LaunchFails, RecordProcess, ReadCommand, StreamEnd, StreamAbort,
       PersistResult, RecordUncertainLoad, RecordUncertainUpdate, ProcessStep,
       RemoteCommand, ProcessExit
  <2>2. ASSUME NEW h \in Handlers, ControlStep(h) PROVE lastOutcome' = lastOutcome
    BY <1>10, <2>2 DEF ControlStep, CloseLock, StopLock, StopClaim, StopGate, StopKill,
       SealLock
  <2>3. ASSUME KillStep \/ RequestStep PROVE lastOutcome' = lastOutcome
    BY <2>3 DEF KillStep, KillWriteFile, KillProcesses, KillReturn, KillLock, KillClaim,
       KillMark, RequestStep, CreateLock, Grant, ControlRequest, KillArm, KillDeactivate
  <2>4. ASSUME RecoverStep \/ Crash PROVE lastOutcome' = lastOutcome
    BY <2>4 DEF RecoverStep, RecoverDone, RecoverSession, Crash
  <2> QED BY <2>1, <2>2, <2>3, <2>4 DEF Next
<1> QED BY <1>8, <1>9, <1>10

\* What the runner concluded itself, and what AIOps closed, is final; a session that
\* has ended never becomes active again.
THEOREM ConclusionsStayFinal == Spec => ConclusionsAreFinal
<1> DEFINE Final ==
      \A s \in Sessions :
        /\ status[s] \in {"SUCCEEDED", "FAILED", "DIAGNOSIS_FAILED"} => UNCHANGED status[s]
        /\ lastOutcome[s] = "CLOSED" => UNCHANGED <<status[s], lastOutcome[s]>>
        /\ status[s] \in LOCAL_TERMINAL_STATUSES => status'[s] \in LOCAL_TERMINAL_STATUSES
<1>1. OwnershipInv /\ [Next]_vars => Final
  <2>1. ASSUME OwnershipInv, Next, NEW s \in Sessions
        PROVE  /\ status[s] \in {"SUCCEEDED", "FAILED", "DIAGNOSIS_FAILED"} =>
                    UNCHANGED status[s]
               /\ lastOutcome[s] = "CLOSED" => UNCHANGED <<status[s], lastOutcome[s]>>
               /\ status[s] \in LOCAL_TERMINAL_STATUSES =>
                    status'[s] \in LOCAL_TERMINAL_STATUSES
    <3>1. status'[s] = status[s] \/ <<status[s], status'[s]>> \in LegalMoves
      BY <2>1, SessionMoves
    <3>2. lastOutcome[s] = "CLOSED" => UNCHANGED <<status[s], lastOutcome[s]>>
      BY <2>1, ClosedIsFinal
    <3> QED
      BY <3>1, <3>2 DEF LegalMoves, Waiting, LOCAL_TERMINAL_STATUSES, TERMINAL_STATUSES
  <2>2. ASSUME UNCHANGED vars PROVE Final
    BY <2>2 DEF vars, journal
  <2> QED BY <2>1, <2>2
<1>2. Spec => [][Final]_vars
  BY <1>1, OwnershipInvariant, PTL DEF Spec
<1> QED BY <1>2 DEF ConclusionsAreFinal
=============================================================================
