------------------------ MODULE ControlIntentProofs ------------------------
(***************************************************************************)
(* Proofs about ControlIntent: one receipt per intent, and what a certain  *)
(* receipt says is true, for any number of sessions, threads, intents and  *)
(* deliveries.  Every step of the intents is a step of TrustedSession or   *)
(* leaves it alone, so its OwnershipInv holds here too.                    *)
(***************************************************************************)
EXTENDS ControlIntent, TrustedSessionProofs

\* What a control does to its handler, to the other handlers and to the record of the
\* last control.
ControlEffect(h) ==
  /\ \A g \in Handlers \ {h} : cpc'[g] = cpc[g] /\ command'[g] = command[g]
  /\ \/ cpc'[h] = "idle"
     \/ cpc'[h] # "idle" /\ command'[h] = command[h]
  /\ \A s \in Sessions :
       /\ lastCommand'[s] \in {lastCommand[s], command[h]}
       /\ lastOutcome'[s] # lastOutcome[s] => status'[s] \in Goals
  /\ cpc'[h] \in {"gating", "killing", "stopped", "sealing"} =>
       \/ cpc[h] \in {"gating", "killing", "stopped", "sealing"}
       \/ status'[Target(h)] \in Running

LEMMA ControlDoes ==
  ASSUME OwnershipInv, NEW h \in Handlers, ControlStep(h) PROVE ControlEffect(h)
<1> USE DEF CtlAt, SetCtl, EndCtl, Unlock, journal, ctl
<1>0. /\ JournalType /\ ControlType
      /\ cpc[h] # "idle" => Target(h) \in Sessions /\ Goal(h) \in Goals
  BY TargetType DEF OwnershipInv, TypeOK
<1>1. CASE CloseLock(h)  BY <1>0, <1>1 DEF CloseLock, ControlEffect, ControlType
<1>2. CASE CloseSeal(h)
  BY <1>0, <1>2 DEF CloseSeal, ControlEffect, ControlType, JournalType
<1>3. CASE StopLock(h)  BY <1>0, <1>3 DEF StopLock, ControlEffect, ControlType
<1>4. CASE StopClaim(h)
  BY <1>0, <1>4 DEF StopClaim, ControlEffect, ControlType, JournalType
<1>5. CASE StopGate(h)  BY <1>0, <1>5 DEF StopGate, ControlEffect, ControlType
<1>6. CASE StopKill(h)  BY <1>0, <1>6 DEF StopKill, ControlEffect, ControlType
<1>7. CASE SealLock(h)  BY <1>0, <1>7 DEF SealLock, ControlEffect, ControlType
<1>8. CASE StopSeal(h)
  <2>1. status' # status => status'[Target(h)] \in Goals
    BY <1>0, <1>8 DEF StopSeal, JournalType, Goals
  <2> QED
    BY <1>0, <1>8, <2>1 DEF StopSeal, ControlEffect, ControlType, JournalType, Goals
<1> QED BY <1>1, <1>2, <1>3, <1>4, <1>5, <1>6, <1>7, <1>8 DEF ControlStep

\* The rest of the runner touches neither the controls nor their record.
LEMMA RunnerFrame ==
  ASSUME RunnerStep PROVE Next /\ UNCHANGED <<ctl, lastCommand, lastOutcome>>
<1> USE DEF memory, journal
<1>1. ASSUME NEW s \in Sessions, RunStep(s)
      PROVE  Next /\ UNCHANGED <<ctl, lastCommand, lastOutcome>>
  BY <1>1 DEF Next, RunStep, AcceptSession, ResumeLock, ResumeClaim, SpawnGate, PreSpawn,
     Launch, LaunchFails, RecordProcess, ReadCommand, StreamEnd, StreamAbort,
     PersistResult, RecordUncertainLoad, RecordUncertainUpdate
<1>2. ASSUME NEW s \in Sessions, ProcessStep(s) \/ CreateLock(s)
      PROVE  Next /\ UNCHANGED <<ctl, lastCommand, lastOutcome>>
  BY <1>2 DEF Next, RequestStep, ProcessStep, RemoteCommand, ProcessExit, CreateLock
<1>3. ASSUME NEW s \in Sessions, NEW k \in GrantsAsked, Grant(s, k)
      PROVE  Next /\ UNCHANGED <<ctl, lastCommand, lastOutcome>>
  BY <1>3, DeliveriesAssumption DEF Next, RequestStep, Grant
<1>4. CASE KillStep \/ KillArm \/ RecoverStep
  BY <1>4 DEF Next, RequestStep, KillStep, KillWriteFile, KillProcesses, KillReturn,
     KillLock, KillClaim, KillMark, KillArm, RecoverStep, RecoverDone, RecoverSession
<1> QED BY <1>1, <1>2, <1>3, <1>4 DEF RunnerStep

\* What is settled, closed or confirmed stays so, whatever step the runner takes.
LEMMA SettledStays ==
  ASSUME OwnershipInv, Next, NEW s \in Sessions, status[s] \in LOCAL_TERMINAL_STATUSES
  PROVE  status'[s] \in LOCAL_TERMINAL_STATUSES
  BY SessionMoves DEF LegalMoves, Waiting, LOCAL_TERMINAL_STATUSES, TERMINAL_STATUSES

LEMMA QuietStays ==
  ASSUME OwnershipInv, Next, NEW s \in Sessions, status[s] \in Goals, proc[s] # "running"
  PROVE  proc'[s] # "running"
<1> SUFFICES ASSUME proc'[s] = "running" PROVE FALSE
  OBVIOUS
<1>1. Launch(s)  BY OnlyLaunchSpawns
<1> QED BY <1>1 DEF Launch, RunAt, OwnershipInv, RunKnows, Goals, Running

LEMMA ClosedStays ==
  ASSUME OwnershipInv, Next, NEW c \in Commands, Closed(c) PROVE Closed(c)'
<1>1. Intent[c].session \in Sessions /\ Intent[c].desired_terminal \in Goals
  BY IntentAssumption DEF ControlIntents
<1> QED BY <1>1, ClosedIsFinal, QuietStays DEF Closed

\* Over what a human or a stop has concluded, only a run writes that was about to
\* record its own end.
LEMMA GoalsOnlyFall ==
  ASSUME OwnershipInv, Next, NEW s \in Sessions,
         status[s] \in Goals, status'[s] # status[s]
  PROVE  RecordUncertainUpdate(s)
<1> USE DEF journal, RunAt, CtlAt, KillerAt, Goals, Running, Waiting, Grants, JournalType
<1>0. JournalType /\ RunType /\ RunKnows /\ RunFits
  BY DEF OwnershipInv, TypeOK
<1>1. StatusWrite  BY OnlyWritesMove
<1>2. ASSUME NEW x \in Sessions,
             \/ AcceptSession(x) \/ ResumeClaim(x) \/ PreSpawn(x) \/ PersistResult(x)
             \/ RecordUncertainUpdate(x) \/ KillMark(x) \/ RecoverSession(x)
      PROVE  RecordUncertainUpdate(s)
  <2>1. CASE x # s
    BY <1>0, <1>2, <2>1 DEF AcceptSession, ResumeClaim, PreSpawn, Refuse, PersistResult,
       RecordUncertainUpdate, KillMark, RecoverSession
  <2>2. CASE x = s /\ ~RecordUncertainUpdate(s)
    <3>1. ~AcceptSession(s)  BY <1>0 DEF AcceptSession, RunKnows
    <3>2. ~ResumeClaim(s)
      BY <1>0 DEF ResumeClaim, RunFits, SourceStatus
    <3>3. ~PreSpawn(s)
      BY <1>0 DEF PreSpawn, Refuse, MaySpawn, ActiveStatus
    <3>4. ~PersistResult(s)
      BY <1>0 DEF PersistResult, MayPersist, ActiveStatus
    <3>5. ~KillMark(s) /\ ~RecoverSession(s)
      BY <1>0 DEF KillMark, RecoverSession, ACTIVE_STATUSES
    <3> QED BY <1>2, <2>2, <3>1, <3>2, <3>3, <3>4, <3>5
  <2> QED BY <2>1, <2>2
<1>3. ASSUME NEW h \in Handlers, CloseSeal(h) \/ StopSeal(h) PROVE FALSE
  <2>1. Target(h) \in Sessions  BY <1>3, TargetType DEF CloseSeal, StopSeal
  <2> QED BY <1>0, <1>3, <2>1 DEF CloseSeal, StopSeal, MaySeal
<1> QED BY <1>1, <1>2, <1>3 DEF StatusWrite

\* Nor does a session that was confirmed become one whose process could not start.
LEMMA UnspawnedIsNew ==
  ASSUME OwnershipInv, Next, NEW s \in Sessions,
         status[s] \in Goals, ~Unspawned(s)
  PROVE  ~Unspawned(s)'
<1> USE DEF memory, run, RunAt, SetRun, StartRun, EndRun, Raise, Unspawned, RunType, Goals
<1>0. /\ RunType /\ JournalType
      /\ pc[s] = "launching" => status[s] \in Running
      /\ \A x \in Sessions :
           pc[x] = "overwriting" => aim[x] \in {"DIAGNOSIS_FAILED", "MANUAL_INTERVENTION"}
  BY DEF OwnershipInv, TypeOK, RunKnows
<1>1. ASSUME NEW x \in Sessions, RunStep(x) PROVE ~Unspawned(s)'
  <2>1. CASE AcceptSession(x)  BY <1>0, <2>1 DEF AcceptSession
  <2>2. CASE ResumeLock(x)  BY <1>0, <2>2 DEF ResumeLock
  <2>3. CASE ResumeClaim(x)  BY <1>0, <2>3 DEF ResumeClaim
  <2>4. CASE SpawnGate(x)  BY <1>0, <2>4 DEF SpawnGate
  <2>5. CASE PreSpawn(x)  BY <1>0, <2>5 DEF PreSpawn, Refuse
  <2>6. CASE Launch(x)  BY <1>0, <2>6 DEF Launch
  <2>7. CASE LaunchFails(x)
    <3>1. x # s  BY <1>0, <2>7 DEF LaunchFails, Running
    <3> QED BY <1>0, <2>7, <3>1 DEF LaunchFails
  <2>8. CASE RecordProcess(x)  BY <1>0, <2>8 DEF RecordProcess
  <2>9. CASE ReadCommand(x)  BY <1>0, <2>9 DEF ReadCommand
  <2>10. CASE StreamEnd(x)  BY <1>0, <2>10 DEF StreamEnd
  <2>11. CASE StreamAbort(x)  BY <1>0, <2>11 DEF StreamAbort
  <2>12. CASE PersistResult(x)  BY <1>0, <2>12 DEF PersistResult
  <2>13. CASE RecordUncertainLoad(x)
    BY <1>0, <2>13 DEF RecordUncertainLoad
  <2>14. CASE RecordUncertainUpdate(x)  BY <1>0, <2>14 DEF RecordUncertainUpdate
  <2> QED BY <1>1, <2>1, <2>2, <2>3, <2>4, <2>5, <2>6, <2>7, <2>8, <2>9, <2>10, <2>11,
             <2>12, <2>13, <2>14 DEF RunStep
<1>2. ASSUME NEW x \in Sessions, ProcessStep(x) PROVE UNCHANGED <<pc, aim>>
  BY <1>2 DEF ProcessStep, RemoteCommand, ProcessExit
<1>3. ASSUME NEW h \in Handlers, ControlStep(h) PROVE UNCHANGED <<pc, aim>>
  BY <1>3 DEF ControlStep, CloseLock, CloseSeal, StopLock, StopClaim, StopGate, StopKill,
     SealLock, StopSeal
<1>4. ASSUME KillStep PROVE UNCHANGED <<pc, aim>>
  BY <1>4 DEF KillStep, KillWriteFile, KillProcesses, KillReturn, KillLock, KillClaim,
     KillMark
<1>5. CASE RequestStep
  <2>1. ASSUME NEW x \in Sessions, CreateLock(x) \/ \E k \in Grants : Grant(x, k)
        PROVE  ~Unspawned(s)'
    BY <1>0, <2>1 DEF CreateLock, Grant
  <2>2. ASSUME \/ \E h \in Handlers, c \in Commands : ControlRequest(h, c)
               \/ KillArm \/ KillDeactivate
        PROVE  UNCHANGED <<pc, aim>>
    BY <2>2 DEF ControlRequest, KillArm, KillDeactivate
  <2> QED BY <1>5, <2>1, <2>2 DEF RequestStep
<1>6. ASSUME RecoverStep PROVE UNCHANGED <<pc, aim>>
  BY <1>6 DEF RecoverStep, RecoverDone, RecoverSession
<1>7. CASE Crash  BY <1>7 DEF Crash
<1> QED BY <1>1, <1>2, <1>3, <1>4, <1>5, <1>6, <1>7 DEF Next

\* A stop that was confirmed stays true: what a run may still write is MANUAL_INTERVENTION.
LEMMA ConfirmedStays ==
  ASSUME OwnershipInv, Next, NEW c \in Commands, Confirmed(c) PROVE Confirmed(c)'
<1> DEFINE s == Intent[c].session
<1>1. s \in Sessions /\ Intent[c].desired_terminal \in Goals
  BY IntentAssumption DEF ControlIntents
<1>2. status[s] \in Goals /\ proc[s] # "running" /\ ~Unspawned(s)
  BY <1>1 DEF Confirmed, Goals
<1>3. proc'[s] # "running" /\ ~Unspawned(s)'
  BY <1>1, <1>2, QuietStays, UnspawnedIsNew
<1>4. status'[s] \in {status[s], "MANUAL_INTERVENTION"}
  <2>1. CASE status'[s] # status[s]
    <3>1. RecordUncertainUpdate(s)  BY <1>1, <1>2, <2>1, GoalsOnlyFall
    <3>2. aim[s] \in {"DIAGNOSIS_FAILED", "MANUAL_INTERVENTION"} /\ JournalType
      BY <1>1, <3>1 DEF RecordUncertainUpdate, RunAt, OwnershipInv, RunKnows, TypeOK
    <3>3. aim[s] = "MANUAL_INTERVENTION"
      BY <1>2, <3>1, <3>2 DEF RecordUncertainUpdate, RunAt, Unspawned
    <3> QED BY <1>1, <3>1, <3>2, <3>3 DEF RecordUncertainUpdate, JournalType
  <2> QED BY <2>1
<1> QED BY <1>3, <1>4 DEF Confirmed, Unspawned

\* A running session whose cancellation is asked for does not come to wait.
LEMMA CancelledStays ==
  ASSUME OwnershipInv, Next, NEW s \in Sessions, cancelReq[s],
         status[s] \in Running \cup LOCAL_TERMINAL_STATUSES
  PROVE  status'[s] \in Running \cup LOCAL_TERMINAL_STATUSES
<1> USE DEF journal, RunAt, CtlAt, KillerAt, Goals, Running, Grants, JournalType,
            LOCAL_TERMINAL_STATUSES, TERMINAL_STATUSES
<1>0. JournalType /\ RunType /\ RunKnows /\ KillKnows
  BY DEF OwnershipInv, TypeOK
<1>1. CASE ~StatusWrite  BY <1>1, OnlyWritesMove
<1>2. ASSUME NEW x \in Sessions, 
             \/ AcceptSession(x) \/ ResumeClaim(x) \/ PreSpawn(x) \/ PersistResult(x)
             \/ RecordUncertainUpdate(x) \/ KillMark(x) \/ RecoverSession(x)
      PROVE  status'[s] \in Running \cup LOCAL_TERMINAL_STATUSES
  <2>1. CASE AcceptSession(x)  BY <1>0, <2>1 DEF AcceptSession
  <2>2. CASE ResumeClaim(x)  BY <1>0, <2>2 DEF ResumeClaim
  <2>3. CASE PreSpawn(x)  BY <1>0, <2>3 DEF PreSpawn, Refuse
  <2>4. CASE PersistResult(x)  BY <1>0, <2>4 DEF PersistResult, MayPersist
  <2>5. CASE RecordUncertainUpdate(x)
    BY <1>0, <2>5 DEF RecordUncertainUpdate, RunKnows
  <2>6. CASE KillMark(x)  BY <1>0, <2>6 DEF KillMark, ToMark
  <2>7. CASE RecoverSession(x)  BY <1>0, <2>7 DEF RecoverSession
  <2> QED BY <1>2, <2>1, <2>2, <2>3, <2>4, <2>5, <2>6, <2>7
<1>3. ASSUME NEW h \in Handlers, CloseSeal(h) \/ StopSeal(h)
      PROVE  status'[s] \in Running \cup LOCAL_TERMINAL_STATUSES
  <2>1. Target(h) \in Sessions /\ Goal(h) \in Goals
    BY <1>3, TargetType DEF CloseSeal, StopSeal
  <2> QED BY <1>0, <1>3, <2>1 DEF CloseSeal, StopSeal
<1> QED BY <1>1, <1>2, <1>3 DEF StatusWrite

\* Every step of the intents is one of TrustedSession or leaves the sessions alone;
\* only a control that is waited for, or is asked for now, moves the controls.
ControlMoves ==
  \/ UNCHANGED <<ctl, lastCommand, lastOutcome>>
  \/ \E h \in Handlers :
       hpc[h] = "controlling" /\ ControlStep(h) /\ ControlEffect(h)
  \/ \E h \in Handlers :
       /\ hpc[h] = "applying" /\ cpc[h] = "idle"
       /\ UNCHANGED <<lastCommand, lastOutcome>>
       /\ \A g \in Handlers \ {h} : cpc'[g] = cpc[g] /\ command'[g] = command[g]
       /\ \/ UNCHANGED ctl
          \/ cpc'[h] \in {"closing", "stopping"} /\ command'[h] = asked[h]
  \/ Crash /\ \A h \in Handlers : cpc'[h] = "idle"

LEMMA IntentDoes ==
  ASSUME OwnershipInv, IntentTypeOK, HandlersKnow, IntentNext
  PROVE  (Next \/ UNCHANGED vars) /\ ControlMoves
<1>0. ControlType  BY DEF OwnershipInv, TypeOK
<1>1. CASE RunnerStep  BY <1>1, RunnerFrame DEF ControlMoves
<1>2. CASE CrashIntents
  <2>1. Crash /\ cpc' = [h \in Handlers |-> "idle"]  BY <1>2 DEF CrashIntents, Crash
  <2> QED BY <2>1 DEF Next, ControlMoves
<1>3. ASSUME NEW h \in Handlers,
             \/ LoadSession(h) \/ ClaimIntent(h) \/ RecallOutcome(h) \/ FinalizeReceipt(h)
             \/ \E c \in Commands : ReceiveIntent(h, c)
      PROVE  UNCHANGED vars /\ ControlMoves
  <2>1. UNCHANGED vars
    BY <1>3 DEF LoadSession, ClaimIntent, RecallOutcome, FinalizeReceipt, ReceiveIntent
  <2> QED BY <2>1 DEF vars, memory, journal, ControlMoves
<1>4. ASSUME NEW h \in Handlers, ApplyIntent(h) PROVE Next /\ ControlMoves
  <2>1. asked[h] \in Commands /\ hpc[h] = "applying" /\ ControlRequest(h, asked[h])
    BY <1>4 DEF ApplyIntent, HandlerAt, HandlersKnow
  <2>2. Next  BY <2>1 DEF Next, RequestStep
  <2> QED
    BY <1>0, <2>1, <2>2 DEF ControlRequest, CtlAt, ctl, journal, ControlType, ControlMoves
<1>5. ASSUME NEW h \in Handlers,
             \/ ControlRaises(h) \/ ControlContinues(h)
             \/ CloseReturns(h) \/ StopRefused(h) \/ StopReturns(h)
      PROVE  Next /\ ControlMoves
  <2>1. hpc[h] = "controlling" /\ ControlStep(h)
    BY <1>5 DEF ControlRaises, ControlContinues, CloseReturns, StopRefused, StopReturns,
       HandlerAt, Raises, ControlStep
  <2> QED BY <2>1, ControlDoes DEF Next, ControlMoves
<1> QED BY <1>1, <1>2, <1>3, <1>4, <1>5 DEF IntentNext, HandlerStep

LEMMA SessionsStep ==
  ASSUME OwnershipInv, IntentTypeOK, HandlersKnow, IntentNext PROVE OwnershipInv'
BY IntentDoes, OwnershipStep, OwnershipStutter

\* What an outcome says, said of the state after a step.
ClosedNext(c) ==
  LET s == Intent[c].session IN
  /\ lastOutcome'[s] = "CLOSED" /\ status'[s] = Intent[c].desired_terminal
  /\ proc'[s] # "running"
ConfirmedNext(c) ==
  LET s == Intent[c].session IN
  /\ status'[s] \in {Intent[c].desired_terminal, "MANUAL_INTERVENTION"}
  /\ proc'[s] # "running"
  /\ ~(pc'[s] = "failing" /\ aim'[s] = "unspawned")
  /\ ~(pc'[s] = "overwriting" /\ aim'[s] = "DIAGNOSIS_FAILED")
HoldsNext(c, outcome) ==
  /\ outcome = "CLOSED" => ClosedNext(c)
  /\ outcome = "STOPPED_CONFIRMED" => ConfirmedNext(c)
  /\ outcome \notin {"none", "INVALID_INTENT"} =>
       status'[Intent[c].session] \in LOCAL_TERMINAL_STATUSES

\* It keeps holding.
LEMMA HoldsStays ==
  ASSUME OwnershipInv, Next \/ UNCHANGED vars
  PROVE  /\ \A c \in Commands : Closed(c) => ClosedNext(c)
         /\ \A c \in Commands : Confirmed(c) => ConfirmedNext(c)
         /\ \A s \in Sessions : status[s] \in LOCAL_TERMINAL_STATUSES =>
              status'[s] \in LOCAL_TERMINAL_STATUSES
         /\ \A s \in Sessions :
              cancelReq[s] /\ status[s] \in Running \cup LOCAL_TERMINAL_STATUSES =>
                status'[s] \in Running \cup LOCAL_TERMINAL_STATUSES
<1>1. CASE Next
  BY <1>1, ClosedStays, ConfirmedStays, SettledStays, CancelledStays
     DEF Closed, Confirmed, Unspawned, ClosedNext, ConfirmedNext
<1>2. CASE UNCHANGED vars
  BY <1>2 DEF vars, journal, process, memory, run, Closed, Confirmed, Unspawned,
     ClosedNext, ConfirmedNext
<1> QED BY <1>1, <1>2

-----------------------------------------------------------------------------
(* Types.                                                                  *)

\* Verdicts are receipts, and what the journal recalls for one is another.
LEMMA VerdictTypes ==
  /\ \A o \in Outcomes \cup {"ALREADY_APPLIED"}, b \in BOOLEAN :
       /\ Verdict(o, b) \in Receipts /\ Verdict(o, b).outcome = o
  /\ Invalid \in Receipts /\ Invalid.outcome = "INVALID_INTENT"
  /\ NoVerdict.outcome = "none"
  /\ \A o \in Outcomes : Certain(o) \in BOOLEAN
  /\ \A r \in Receipts, o \in Outcomes :
       LET recalled == [r EXCEPT !.prior = o] IN
       recalled \in Receipts /\ recalled.outcome = r.outcome
<1>1. \A o \in Outcomes \cup {"ALREADY_APPLIED"}, b \in BOOLEAN :
        Verdict(o, b) \in Receipts /\ Verdict(o, b).outcome = o
  BY DEF Verdict, Receipts
<1>2. Invalid \in Receipts /\ Invalid.outcome = "INVALID_INTENT"
  BY <1>1 DEF Invalid, Outcomes
<1>3. NoVerdict.outcome = "none"  BY DEF NoVerdict, Verdict
<1>4. \A o \in Outcomes : Certain(o) \in BOOLEAN  BY DEF Certain
<1>5. ASSUME NEW r \in Receipts, NEW o \in Outcomes
      PROVE  LET recalled == [r EXCEPT !.prior = o] IN
             recalled \in Receipts /\ recalled.outcome = r.outcome
  BY <1>5 DEF Receipts
<1> QED BY <1>1, <1>2, <1>3, <1>4, <1>5

\* The verdicts that the controls return.
LEMMA ReturnedVerdicts ==
  /\ Verdict("ALREADY_APPLIED", TRUE) \in Receipts
  /\ Verdict("ALREADY_APPLIED", TRUE).outcome = "ALREADY_APPLIED"
  /\ Verdict("CLOSED", TRUE) \in Receipts
  /\ Verdict("CLOSED", TRUE).outcome = "CLOSED"
  /\ Verdict("STOPPED_CONFIRMED", TRUE) \in Receipts
  /\ Verdict("STOPPED_CONFIRMED", TRUE).outcome = "STOPPED_CONFIRMED"
  /\ Verdict("STOP_UNCERTAIN", FALSE) \in Receipts
  /\ Verdict("STOP_UNCERTAIN", FALSE).outcome = "STOP_UNCERTAIN"
BY DEF Verdict, Receipts, Outcomes

\* Each variable by itself.
EnvelopeType ==
  envelope \in [Commands -> {"absent", "processing"} \X {NoVerdict}
                            \cup {"final"} \X Receipts]
AnsweredType == answered \in [Commands -> SUBSET Receipts]
PlaceType ==
  hpc \in [Handlers -> {"idle", "loading", "claiming", "applying", "controlling",
                        "recalling", "finalizing"}]
AskedType == asked \in [Handlers -> Commands \cup {NoCommand}]
ReadType == statusRead \in [Handlers -> RepairSessionStatus \cup {"NONE"}]
GivenType == verdict \in [Handlers -> Receipts \cup {NoVerdict}]

\* What the handler h does to the places and verdicts of the handlers.
HandlerEffect(h) ==
  /\ \A g \in Handlers \ {h} :
       hpc'[g] = hpc[g] /\ asked'[g] = asked[g] /\ verdict'[g] = verdict[g]
  /\ PlaceType' /\ AskedType' /\ ReadType' /\ GivenType'

LEMMA EndRequestDoes ==
  ASSUME IntentTypeOK, NEW h \in Handlers, EndRequest(h)
  PROVE  /\ HandlerEffect(h)
         /\ hpc'[h] = "idle" /\ verdict'[h] = NoVerdict
BY DEF IntentTypeOK, EndRequest, HandlerEffect, PlaceType, AskedType, ReadType, GivenType

LEMMA ConcludeDoes ==
  ASSUME IntentTypeOK, NEW h \in Handlers, NEW v \in Receipts,
         NEW at \in {"recalling", "finalizing"}, Conclude(h, v, at), UNCHANGED statusRead
  PROVE  /\ HandlerEffect(h)
         /\ hpc'[h] = at /\ verdict'[h] = v /\ asked'[h] = asked[h]
BY DEF IntentTypeOK, Conclude, SetHandler, HandlerEffect, PlaceType, AskedType, ReadType,
   GivenType

LEMMA SetHandlerDoes ==
  ASSUME IntentTypeOK, NEW h \in Handlers,
         NEW at \in {"claiming", "applying", "controlling"},
         SetHandler(h, at), UNCHANGED verdict, ReadType'
  PROVE  /\ HandlerEffect(h)
         /\ hpc'[h] = at /\ verdict'[h] = verdict[h] /\ asked'[h] = asked[h]
BY DEF IntentTypeOK, SetHandler, HandlerEffect, PlaceType, AskedType, GivenType

-----------------------------------------------------------------------------
(* What one step of a handler does.                                        *)

\* To the envelopes and the answers: a receipt stays, AIOps is told nothing else,
\* and what a receipt says comes from the verdict of its handler.
DurableEffect(h) ==
  /\ EnvelopeType' /\ AnsweredType'
  /\ \A c \in Commands :
       /\ envelope[c][1] # "absent" => envelope'[c][1] # "absent"
       /\ envelope[c][1] = "final" => envelope'[c] = envelope[c]
       /\ \A r \in answered'[c] :
            r \in answered[c] \/ (envelope'[c][1] = "final" /\ envelope'[c][2] = r)
       /\ \/ envelope'[c] = envelope[c]
          \/ envelope'[c][2] = NoVerdict
          \/ hpc[h] # "idle" /\ c = asked[h] /\ envelope'[c][2] = verdict[h]

\* What HandlersKnow says of one handler.
KnowsAt(h) ==
  /\ hpc[h] # "idle" => asked[h] \in Commands
  /\ hpc[h] \notin {"idle", "loading", "claiming"} => envelope[asked[h]][1] # "absent"
  /\ cpc[h] # "idle" <=> hpc[h] = "controlling"
  /\ cpc[h] # "idle" => command[h] = asked[h]
  /\ IF hpc[h] \in {"recalling", "finalizing"} THEN verdict[h] \in Receipts
     ELSE verdict[h] = NoVerdict

HandlerDoes(h) ==
  /\ HandlerEffect(h) /\ DurableEffect(h) /\ sendings' \in 0..MaxDeliveries
  /\ \A g \in Handlers \ {h} : cpc'[g] = cpc[g] /\ command'[g] = command[g]
  /\ KnowsAt(h)'
  /\ hpc'[h] # "idle" => HoldsNext(asked'[h], verdict'[h].outcome)

LEMMA DurableStays ==
  ASSUME IntentTypeOK, NEW h \in Handlers, UNCHANGED durable
  PROVE  DurableEffect(h) /\ envelope' = envelope
BY DEF IntentTypeOK, durable, DurableEffect, EnvelopeType, AnsweredType

\* Without a verdict, or with an invalid one, nothing is said.
LEMMA NothingHolds ==
  ASSUME NEW c PROVE HoldsNext(c, "none") /\ HoldsNext(c, "INVALID_INTENT")
BY DEF HoldsNext

LEMMA ReceiveIntentDoes ==
  ASSUME OwnershipInv, ReceiptInv, NEW h \in Handlers, NEW c \in Commands,
         ReceiveIntent(h, c)
  PROVE  HandlerDoes(h)
<1>0. IntentTypeOK /\ HandlersKnow /\ UNCHANGED <<cpc, command>> /\ hpc[h] = "idle"
  BY DEF ReceiptInv, ReceiveIntent, vars, memory, ctl, HandlerAt
<1>1. cpc[h] = "idle" /\ verdict[h] = NoVerdict  BY <1>0 DEF HandlersKnow
<1>2. sendings' \in 0..MaxDeliveries
  BY <1>0, DeliveriesAssumption DEF ReceiveIntent, IntentTypeOK
<1>3. HandlerEffect(h)
  BY <1>0, <1>1 DEF ReceiveIntent, IntentTypeOK, HandlerEffect, PlaceType, AskedType,
     ReadType, GivenType, FirstStep
<1>4. DurableEffect(h)
  BY <1>0 DEF ReceiveIntent, IntentTypeOK, DurableEffect, EnvelopeType, AnsweredType
<1>5. KnowsAt(h)'
  BY <1>0, <1>1 DEF ReceiveIntent, IntentTypeOK, KnowsAt, FirstStep
<1>6. verdict'[h].outcome = "none"
  BY <1>1, VerdictTypes DEF ReceiveIntent
<1> QED BY <1>0, <1>2, <1>3, <1>4, <1>5, <1>6, NothingHolds DEF HandlerDoes

LEMMA LoadSessionDoes ==
  ASSUME OwnershipInv, ReceiptInv, NEW h \in Handlers, LoadSession(h)
  PROVE  HandlerDoes(h)
<1>0. /\ IntentTypeOK /\ HandlersKnow /\ UNCHANGED <<cpc, command>>
      /\ hpc[h] = "loading" /\ JournalType
  BY DEF ReceiptInv, LoadSession, vars, memory, ctl, HandlerAt, OwnershipInv, TypeOK
<1>1. /\ cpc[h] = "idle" /\ verdict[h] = NoVerdict
      /\ asked[h] \in Commands /\ Intent[asked[h]].session \in Sessions
  BY <1>0, IntentAssumption DEF HandlersKnow, ControlIntents
<1>2. ReadType'
  BY <1>0, <1>1 DEF LoadSession, IntentTypeOK, ReadType, JournalType
<1>3. /\ HandlerEffect(h)
      /\ hpc'[h] = "claiming" /\ verdict'[h] = verdict[h] /\ asked'[h] = asked[h]
  BY <1>0, <1>2, SetHandlerDoes DEF LoadSession
<1>4. DurableEffect(h)  BY <1>0, DurableStays DEF LoadSession
<1>5. KnowsAt(h)'  BY <1>0, <1>1, <1>3 DEF KnowsAt
<1>6. verdict'[h].outcome = "none" /\ sendings' \in 0..MaxDeliveries
  BY <1>0, <1>1, <1>3, VerdictTypes DEF LoadSession, IntentTypeOK
<1> QED BY <1>0, <1>3, <1>4, <1>5, <1>6, NothingHolds DEF HandlerDoes

LEMMA ClaimIntentDoes ==
  ASSUME OwnershipInv, ReceiptInv, NEW h \in Handlers, ClaimIntent(h)
  PROVE  HandlerDoes(h)
<1>0. /\ IntentTypeOK /\ HandlersKnow /\ UNCHANGED <<cpc, command, sendings>>
      /\ hpc[h] = "claiming"
  BY DEF ReceiptInv, ClaimIntent, vars, memory, ctl, HandlerAt
<1>1. /\ cpc[h] = "idle" /\ verdict[h] = NoVerdict /\ asked[h] \in Commands
      /\ sendings' \in 0..MaxDeliveries
  BY <1>0 DEF HandlersKnow, IntentTypeOK
<1>2. DurableEffect(h)
  <2>1. CASE envelope[asked[h]][1] = "final"
    BY <1>0, <1>1, <2>1 DEF ClaimIntent, Reply, IntentTypeOK, DurableEffect, EnvelopeType,
       AnsweredType
  <2>2. CASE envelope[asked[h]][1] # "final"
    BY <1>0, <1>1, <2>2 DEF ClaimIntent, IntentTypeOK, DurableEffect, EnvelopeType,
       AnsweredType
  <2> QED BY <2>1, <2>2
<1>3. CASE envelope[asked[h]][1] = "final"
  <2>1. HandlerEffect(h) /\ hpc'[h] = "idle" /\ verdict'[h] = NoVerdict
    BY <1>0, <1>3, EndRequestDoes DEF ClaimIntent
  <2>2. KnowsAt(h)'  BY <1>0, <1>1, <2>1 DEF KnowsAt
  <2> QED BY <1>0, <1>1, <1>2, <2>1, <2>2 DEF HandlerDoes
<1>4. CASE envelope[asked[h]][1] # "final"
  <2>1. /\ envelope'[asked[h]][1] = "processing" /\ UNCHANGED statusRead
        /\ \/ Conclude(h, Invalid, "finalizing")
           \/ SetHandler(h, "applying") /\ UNCHANGED verdict
    BY <1>0, <1>1, <1>4 DEF ClaimIntent, IntentTypeOK
  <2>2. CASE Conclude(h, Invalid, "finalizing")
    <3>1. /\ HandlerEffect(h)
          /\ hpc'[h] = "finalizing" /\ verdict'[h] = Invalid /\ asked'[h] = asked[h]
      BY <1>0, <2>1, <2>2, ConcludeDoes, VerdictTypes
    <3>2. KnowsAt(h)'  BY <1>0, <1>1, <2>1, <3>1, VerdictTypes DEF KnowsAt
    <3> QED BY <1>0, <1>1, <1>2, <3>1, <3>2, VerdictTypes, NothingHolds DEF HandlerDoes
  <2>3. CASE SetHandler(h, "applying") /\ UNCHANGED verdict
    <3>1. ReadType'  BY <1>0, <2>1 DEF IntentTypeOK, ReadType
    <3>2. /\ HandlerEffect(h)
          /\ hpc'[h] = "applying" /\ verdict'[h] = verdict[h] /\ asked'[h] = asked[h]
      BY <1>0, <2>3, <3>1, SetHandlerDoes
    <3>3. KnowsAt(h)'  BY <1>0, <1>1, <2>1, <3>2 DEF KnowsAt
    <3> QED BY <1>0, <1>1, <1>2, <3>2, <3>3, VerdictTypes, NothingHolds DEF HandlerDoes
  <2> QED BY <2>1, <2>2, <2>3
<1> QED BY <1>3, <1>4

LEMMA FinalizeReceiptDoes ==
  ASSUME OwnershipInv, ReceiptInv, NEW h \in Handlers, FinalizeReceipt(h)
  PROVE  HandlerDoes(h)
<1>0. /\ IntentTypeOK /\ HandlersKnow /\ UNCHANGED <<cpc, command, sendings>>
      /\ hpc[h] = "finalizing"
  BY DEF ReceiptInv, FinalizeReceipt, vars, memory, ctl, HandlerAt
<1>1. /\ cpc[h] = "idle" /\ verdict[h] \in Receipts /\ asked[h] \in Commands
      /\ sendings' \in 0..MaxDeliveries
  BY <1>0 DEF HandlersKnow, IntentTypeOK
<1>2. DurableEffect(h)
  <2>1. CASE MayFinalize(asked[h])
    BY <1>0, <1>1, <2>1 DEF FinalizeReceipt, MayFinalize, Reply, IntentTypeOK,
       DurableEffect, EnvelopeType, AnsweredType
  <2>2. CASE ~MayFinalize(asked[h])
    BY <1>0, <2>2, DurableStays DEF FinalizeReceipt
  <2> QED BY <2>1, <2>2
<1>3. HandlerEffect(h) /\ hpc'[h] = "idle" /\ verdict'[h] = NoVerdict
  BY <1>0, EndRequestDoes DEF FinalizeReceipt
<1>4. KnowsAt(h)'  BY <1>0, <1>1, <1>3 DEF KnowsAt
<1> QED BY <1>0, <1>1, <1>2, <1>3, <1>4 DEF HandlerDoes

\* A verdict takes effect where the handler concludes on it.
LEMMA ConcludesDoes ==
  ASSUME OwnershipInv, ReceiptInv, NEW h \in Handlers, NEW v \in Receipts,
         NEW at \in {"recalling", "finalizing"},
         hpc[h] \in {"applying", "controlling", "recalling"},
         Conclude(h, v, at), UNCHANGED <<durable, statusRead, sendings>>,
         cpc'[h] = "idle",
         \A g \in Handlers \ {h} : cpc'[g] = cpc[g] /\ command'[g] = command[g],
         HoldsNext(asked[h], v.outcome)
  PROVE  HandlerDoes(h)
<1>0. IntentTypeOK /\ HandlersKnow  BY DEF ReceiptInv
<1>1. /\ asked[h] \in Commands /\ envelope[asked[h]][1] # "absent"
      /\ sendings' \in 0..MaxDeliveries
  BY <1>0 DEF HandlersKnow, IntentTypeOK
<1>2. /\ HandlerEffect(h)
      /\ hpc'[h] = at /\ verdict'[h] = v /\ asked'[h] = asked[h]
  BY <1>0, ConcludeDoes
<1>3. DurableEffect(h) /\ envelope' = envelope  BY <1>0, DurableStays
<1>4. KnowsAt(h)'  BY <1>1, <1>2, <1>3 DEF KnowsAt
<1> QED BY <1>1, <1>2, <1>3, <1>4 DEF HandlerDoes

\* What the runner knows of the session that a handler's intent is about.
LEMMA AskedSession ==
  ASSUME OwnershipInv, ReceiptInv, NEW h \in Handlers, hpc[h] # "idle"
  PROVE  /\ asked[h] \in Commands
         /\ Intent[asked[h]].session \in Sessions
         /\ Intent[asked[h]].desired_terminal \in Goals
         /\ hpc[h] = "controlling" =>
              /\ command[h] = asked[h]
              /\ Target(h) = Intent[asked[h]].session
              /\ Goal(h) = Intent[asked[h]].desired_terminal
BY IntentAssumption DEF ReceiptInv, HandlersKnow, ControlIntents, Target, Goal

\* Goals are terminal, and nobody waits in them.
LEMMA GoalsEnd ==
  Goals \subseteq LOCAL_TERMINAL_STATUSES /\ Goals \cap (Waiting \cup Running) = {}
BY DEF Goals, Waiting, Running, LOCAL_TERMINAL_STATUSES, TERMINAL_STATUSES

LEMMA ApplyIntentDoes ==
  ASSUME OwnershipInv, ReceiptInv, NEW h \in Handlers, ApplyIntent(h)
  PROVE  HandlerDoes(h)
<1> DEFINE s == Intent[asked[h]].session
           recalls == lastCommand[s] = asked[h] /\ lastOutcome[s] # "none"
<1>0. /\ IntentTypeOK /\ HandlersKnow /\ OutcomesHold /\ JournalType /\ ControlType
      /\ hpc[h] = "applying" /\ cpc[h] = "idle"
      /\ UNCHANGED <<journal, durable, statusRead, sendings>>
  BY DEF ReceiptInv, ApplyIntent, HandlerAt, ControlRequest, CtlAt, OwnershipInv, TypeOK
<1>1. asked[h] \in Commands /\ s \in Sessions  BY <1>0, AskedSession
<1>2. \A g \in Handlers \ {h} : cpc'[g] = cpc[g] /\ command'[g] = command[g]
  BY <1>0 DEF ApplyIntent, ControlRequest, ctl, ControlType
<1>3. CASE recalls
  <2>1. cpc'[h] = "idle"  BY <1>0, <1>3 DEF ApplyIntent, ControlRequest, ctl
  <2>2. status'[s] \in LOCAL_TERMINAL_STATUSES
    BY <1>0, <1>1, <1>3 DEF OutcomesHold, journal
  <2>3. lastOutcome[s] \in Outcomes
    BY <1>0, <1>1, <1>3 DEF JournalType, Outcomes
  <2> DEFINE v == Verdict("ALREADY_APPLIED", Certain(lastOutcome[s]))
  <2>4. v \in Receipts /\ v.outcome = "ALREADY_APPLIED"  BY <2>3, VerdictTypes
  <2>5. Conclude(h, v, "recalling")  BY <1>3 DEF ApplyIntent
  <2>6. HoldsNext(asked[h], "ALREADY_APPLIED")  BY <2>2 DEF HoldsNext
  <2> HIDE DEF v
  <2> QED BY <1>0, <1>2, <2>1, <2>4, <2>5, <2>6, ConcludesDoes
<1>4. CASE ~recalls
  <2>1. cpc'[h] \in {"closing", "stopping"} /\ command'[h] = asked[h]
    BY <1>0, <1>4 DEF ApplyIntent, ControlRequest, ControlType
  <2>2. ReadType'  BY <1>0 DEF IntentTypeOK, ReadType
  <2>3. /\ HandlerEffect(h)
        /\ hpc'[h] = "controlling" /\ verdict'[h] = verdict[h] /\ asked'[h] = asked[h]
    BY <1>0, <1>4, <2>2, SetHandlerDoes DEF ApplyIntent
  <2>4. DurableEffect(h) /\ envelope' = envelope  BY <1>0, DurableStays
  <2>5. verdict[h] = NoVerdict /\ envelope[asked[h]][1] # "absent"
    BY <1>0 DEF HandlersKnow
  <2>6. KnowsAt(h)'  BY <1>1, <2>1, <2>3, <2>4, <2>5 DEF KnowsAt
  <2>7. verdict'[h].outcome = "none" /\ sendings' \in 0..MaxDeliveries
    BY <1>0, <2>3, <2>5, VerdictTypes DEF IntentTypeOK
  <2> QED BY <1>2, <2>3, <2>4, <2>6, <2>7, NothingHolds DEF HandlerDoes
<1> QED BY <1>3, <1>4

LEMMA ControlRaisesDoes ==
  ASSUME OwnershipInv, ReceiptInv, NEW h \in Handlers, ControlRaises(h)
  PROVE  HandlerDoes(h)
<1>0. /\ IntentTypeOK /\ cpc'[h] = "idle" /\ ControlStep(h) /\ EndRequest(h)
      /\ UNCHANGED <<durable, sendings>>
  BY DEF ReceiptInv, ControlRaises, Raises, ControlStep
<1>1. HandlerEffect(h) /\ hpc'[h] = "idle" /\ verdict'[h] = NoVerdict
  BY <1>0, EndRequestDoes
<1>2. DurableEffect(h)  BY <1>0, DurableStays
<1>3. KnowsAt(h)'  BY <1>0, <1>1 DEF KnowsAt
<1>4. sendings' \in 0..MaxDeliveries  BY <1>0 DEF IntentTypeOK
<1> QED BY <1>0, <1>1, <1>2, <1>3, <1>4, ControlDoes DEF ControlEffect, HandlerDoes

LEMMA ControlContinuesDoes ==
  ASSUME OwnershipInv, ReceiptInv, NEW h \in Handlers, ControlContinues(h)
  PROVE  HandlerDoes(h)
<1>0. /\ IntentTypeOK /\ HandlersKnow /\ ControlStep(h) /\ cpc'[h] # "idle"
      /\ hpc[h] = "controlling" /\ UNCHANGED intentVars
  BY DEF ReceiptInv, ControlContinues, HandlerAt
<1>1. ControlEffect(h)  BY <1>0, ControlDoes
<1>2. verdict[h] = NoVerdict /\ asked[h] \in Commands /\ envelope[asked[h]][1] # "absent"
      /\ command[h] = asked[h]
  BY <1>0 DEF HandlersKnow
<1>3. HandlerEffect(h)
  BY <1>0 DEF IntentTypeOK, intentVars, HandlerEffect, PlaceType, AskedType, ReadType,
     GivenType
<1>4. DurableEffect(h)  BY <1>0, DurableStays DEF intentVars, durable
<1>5. KnowsAt(h)'  BY <1>0, <1>1, <1>2 DEF KnowsAt, ControlEffect, intentVars
<1>6. verdict'[h].outcome = "none" /\ sendings' \in 0..MaxDeliveries
  BY <1>0, <1>2, VerdictTypes DEF intentVars, IntentTypeOK
<1> QED BY <1>1, <1>3, <1>4, <1>5, <1>6, NothingHolds DEF HandlerDoes, ControlEffect

LEMMA CloseReturnsDoes ==
  ASSUME OwnershipInv, ReceiptInv, NEW h \in Handlers, CloseReturns(h)
  PROVE  HandlerDoes(h)
<1> DEFINE s == Target(h)
           v == CloseOutcome(h)
<1>0. /\ hpc[h] = "controlling" /\ cpc[h] = "closeheld" /\ CloseSeal(h) /\ Returns(h, v)
      /\ JournalType /\ ControlType
  BY DEF CloseReturns, HandlerAt, CloseSeal, CtlAt, OwnershipInv, TypeOK
<1>1. /\ asked[h] \in Commands /\ s \in Sessions /\ Goal(h) \in Goals
      /\ s = Intent[asked[h]].session /\ Goal(h) = Intent[asked[h]].desired_terminal
  BY <1>0, AskedSession
<1>2. /\ cpc'[h] = "idle"
      /\ \A g \in Handlers \ {h} : cpc'[g] = cpc[g] /\ command'[g] = command[g]
  BY <1>0 DEF CloseSeal, EndCtl, ControlType
<1>3. ASSUME status[s] \in Waiting
      PROVE  ~registered[s] /\ proc[s] # "running" /\ status[s] # Goal(h)
  BY <1>1, <1>3, GoalsEnd
     DEF OwnershipInv, JournalKnows, SettledIsQuiet, Waiting
<1>4. CASE status[s] = Goal(h)
  <2>1. v = Verdict("ALREADY_APPLIED", TRUE)  BY <1>4 DEF CloseOutcome
  <2>2. status'[s] \in LOCAL_TERMINAL_STATUSES
    BY <1>0, <1>1, <1>4, GoalsEnd DEF CloseSeal
  <2>3. v \in Receipts /\ v.outcome = "ALREADY_APPLIED"  BY <2>1, ReturnedVerdicts
  <2>4. HoldsNext(asked[h], v.outcome)  BY <1>1, <2>2, <2>3 DEF HoldsNext
  <2>5. Conclude(h, v, "recalling") /\ UNCHANGED <<durable, statusRead, sendings>>
    BY <1>0, <2>3 DEF Returns
  <2> HIDE DEF v
  <2> QED BY <1>0, <1>2, <2>3, <2>4, <2>5, ConcludesDoes
<1>5. CASE status[s] # Goal(h) /\ status[s] \notin Waiting
  <2>1. v = Invalid  BY <1>5 DEF CloseOutcome
  <2>2. v \in Receipts /\ v.outcome = "INVALID_INTENT"  BY <2>1, VerdictTypes
  <2>3. HoldsNext(asked[h], v.outcome)  BY <2>2, NothingHolds
  <2>4. Conclude(h, v, "finalizing") /\ UNCHANGED <<durable, statusRead, sendings>>
    BY <1>0, <2>2 DEF Returns
  <2> HIDE DEF v
  <2> QED BY <1>0, <1>2, <2>2, <2>3, <2>4, ConcludesDoes
<1>6. CASE status[s] \in Waiting
  <2>1. v = Verdict("CLOSED", TRUE)  BY <1>3, <1>6 DEF CloseOutcome
  <2>2. v \in Receipts /\ v.outcome = "CLOSED"  BY <2>1, ReturnedVerdicts
  <2>3. /\ status'[s] = Goal(h) /\ lastOutcome'[s] = "CLOSED"
        /\ proc'[s] # "running"
    BY <1>0, <1>1, <1>3, <1>6 DEF CloseSeal, process, JournalType
  <2>4. HoldsNext(asked[h], v.outcome)
    BY <1>1, <2>2, <2>3, GoalsEnd DEF HoldsNext, ClosedNext
  <2>5. Conclude(h, v, "finalizing") /\ UNCHANGED <<durable, statusRead, sendings>>
    BY <1>0, <2>2 DEF Returns
  <2> HIDE DEF v
  <2> QED BY <1>0, <1>2, <2>2, <2>4, <2>5, ConcludesDoes
<1> QED BY <1>4, <1>5, <1>6

LEMMA StopRefusedDoes ==
  ASSUME OwnershipInv, ReceiptInv, NEW h \in Handlers, StopRefused(h)
  PROVE  HandlerDoes(h)
<1> DEFINE s == Target(h)
           applied == status[s] = Goal(h) /\ lastOutcome[s] = "STOPPED_CONFIRMED"
<1>0. /\ hpc[h] = "controlling" /\ StopClaim(h) /\ cpc'[h] = "idle"
      /\ Returns(h, IF applied THEN Verdict("ALREADY_APPLIED", TRUE) ELSE Invalid)
      /\ ControlType
  BY DEF StopRefused, HandlerAt, OwnershipInv, TypeOK
<1>1. /\ asked[h] \in Commands /\ s \in Sessions /\ Goal(h) \in Goals
      /\ s = Intent[asked[h]].session
  BY <1>0, AskedSession
<1>2. \A g \in Handlers \ {h} : cpc'[g] = cpc[g] /\ command'[g] = command[g]
  BY <1>0 DEF StopClaim, EndCtl, ControlType
<1>3. CASE applied
  <2> DEFINE v == Verdict("ALREADY_APPLIED", TRUE)
  <2>1. v \in Receipts /\ v.outcome = "ALREADY_APPLIED"  BY ReturnedVerdicts
  <2>2. HoldsNext(asked[h], v.outcome)
    BY <1>0, <1>1, <1>3, <2>1, GoalsEnd DEF StopClaim, HoldsNext
  <2>3. Conclude(h, v, "recalling") /\ UNCHANGED <<durable, statusRead, sendings>>
    BY <1>0, <1>3, <2>1 DEF Returns
  <2> HIDE DEF v
  <2> QED BY <1>0, <1>2, <2>1, <2>2, <2>3, ConcludesDoes
<1>4. CASE ~applied
  <2>1. Invalid \in Receipts /\ Invalid.outcome = "INVALID_INTENT"  BY VerdictTypes
  <2>2. Conclude(h, Invalid, "finalizing") /\ UNCHANGED <<durable, statusRead, sendings>>
    BY <1>0, <1>4, <2>1 DEF Returns
  <2> QED BY <1>0, <1>2, <2>1, <2>2, NothingHolds, ConcludesDoes
<1> QED BY <1>3, <1>4

LEMMA StopReturnsDoes ==
  ASSUME OwnershipInv, ReceiptInv, NEW h \in Handlers, StopReturns(h)
  PROVE  HandlerDoes(h)
<1> DEFINE s == Target(h)
           v == SealOutcome(h)
<1>0. /\ hpc[h] = "controlling" /\ cpc[h] = "sealing" /\ StopSeal(h) /\ Returns(h, v)
      /\ JournalType /\ ControlType
  BY DEF StopReturns, HandlerAt, StopSeal, CtlAt, OwnershipInv, TypeOK
<1>1. /\ asked[h] \in Commands /\ s \in Sessions /\ Goal(h) \in Goals
      /\ s = Intent[asked[h]].session /\ Goal(h) = Intent[asked[h]].desired_terminal
  BY <1>0, AskedSession
<1>2. /\ cpc'[h] = "idle"
      /\ \A g \in Handlers \ {h} : cpc'[g] = cpc[g] /\ command'[g] = command[g]
  BY <1>0 DEF StopSeal, EndCtl, ControlType
<1>3. /\ status[s] \in Running \cup LOCAL_TERMINAL_STATUSES /\ cancelReq[s]
      /\ had[h] => proc[s] # "running" /\ ~Unspawned(s)
  BY <1>0 DEF ReceiptInv, OutcomesHold, OwnershipInv, StopKnows, StoppedFits
<1>4. /\ MaySeal(s) => status'[s] = IF ResultCertain(h) THEN Goal(h)
                                    ELSE "MANUAL_INTERVENTION"
      /\ ~MaySeal(s) => status'[s] = status[s]
      /\ UNCHANGED <<proc, pc, aim>>
  BY <1>0, <1>1 DEF StopSeal, JournalType, process, run
<1>5. status'[s] \in LOCAL_TERMINAL_STATUSES
  BY <1>1, <1>3, <1>4, GoalsEnd DEF MaySeal, Goals
<1>6. v \in {Verdict("STOPPED_CONFIRMED", TRUE), Verdict("STOP_UNCERTAIN", FALSE)}
  BY DEF SealOutcome
<1>7. /\ v \in Receipts /\ v.outcome \in {"STOPPED_CONFIRMED", "STOP_UNCERTAIN"}
      /\ v.outcome = "STOPPED_CONFIRMED" => v = Verdict("STOPPED_CONFIRMED", TRUE)
  BY <1>6, ReturnedVerdicts
<1>8. ASSUME v.outcome = "STOPPED_CONFIRMED" PROVE ConfirmedNext(asked[h])
  <2>1. ResultCertain(h) /\ (MaySeal(s) \/ status[s] = Goal(h))
    <3>1. Verdict("STOPPED_CONFIRMED", TRUE).outcome # Verdict("STOP_UNCERTAIN", FALSE).outcome
      BY ReturnedVerdicts
    <3> QED BY <1>7, <1>8, <3>1 DEF SealOutcome
  <2>2. status'[s] = Goal(h)  BY <1>4, <2>1
  <2>3. proc'[s] # "running" /\ ~Unspawned(s)
    BY <1>3, <1>4, <2>1 DEF ResultCertain
  <2> QED BY <1>1, <1>4, <2>2, <2>3 DEF ConfirmedNext, Unspawned
<1>9. HoldsNext(asked[h], v.outcome)
  BY <1>1, <1>5, <1>7, <1>8 DEF HoldsNext
<1>10. Conclude(h, v, "finalizing") /\ UNCHANGED <<durable, statusRead, sendings>>
  BY <1>0, <1>7 DEF Returns
<1> HIDE DEF v
<1> QED BY <1>0, <1>2, <1>7, <1>9, <1>10, ConcludesDoes

LEMMA RecallOutcomeDoes ==
  ASSUME OwnershipInv, ReceiptInv, NEW h \in Handlers, RecallOutcome(h)
  PROVE  HandlerDoes(h)
<1> DEFINE s == Intent[asked[h]].session
           recalled == [verdict[h] EXCEPT !.prior = lastOutcome[s]]
<1>0. /\ IntentTypeOK /\ HandlersKnow /\ OutcomesHold /\ JournalType
      /\ hpc[h] = "recalling" /\ UNCHANGED <<vars, durable, sendings>>
  BY DEF ReceiptInv, RecallOutcome, HandlerAt, OwnershipInv, TypeOK
<1>1. /\ asked[h] \in Commands /\ s \in Sessions /\ verdict[h] \in Receipts
      /\ cpc[h] = "idle" /\ UNCHANGED <<cpc, command>>
  BY <1>0, AskedSession DEF HandlersKnow, vars, memory, ctl
<1>2. CASE Conclude(h, Invalid, "finalizing") /\ UNCHANGED statusRead
  BY <1>0, <1>1, <1>2, VerdictTypes, NothingHolds, ConcludesDoes
<1>3. CASE Conclude(h, recalled, "finalizing") /\ UNCHANGED statusRead
           /\ lastOutcome[s] # "none"
  <2>1. lastOutcome[s] \in Outcomes  BY <1>0, <1>1, <1>3 DEF JournalType, Outcomes
  <2>2. recalled \in Receipts /\ recalled.outcome = verdict[h].outcome
    BY <1>1, <2>1, VerdictTypes
  <2>3. HoldsNext(asked[h], verdict[h].outcome)
    <3>1. Holds(asked[h], verdict[h].outcome)  BY <1>0 DEF OutcomesHold
    <3> QED
      BY <1>0, <3>1 DEF Holds, HoldsNext, Closed, Confirmed, ClosedNext, ConfirmedNext,
         Unspawned, vars, journal, process, memory, run
  <2> HIDE DEF recalled
  <2> QED BY <1>0, <1>1, <1>3, <2>2, <2>3, ConcludesDoes
<1>4. CASE EndRequest(h)
  <2>1. HandlerEffect(h) /\ hpc'[h] = "idle" /\ verdict'[h] = NoVerdict
    BY <1>0, <1>4, EndRequestDoes
  <2>2. DurableEffect(h)  BY <1>0, DurableStays
  <2>3. KnowsAt(h)' /\ sendings' \in 0..MaxDeliveries
    BY <1>0, <1>1, <2>1 DEF KnowsAt, IntentTypeOK
  <2> QED BY <1>1, <2>1, <2>2, <2>3 DEF HandlerDoes
<1> QED BY <1>2, <1>3, <1>4 DEF RecallOutcome

-----------------------------------------------------------------------------
(* Every step keeps ReceiptInv.                                            *)

\* The journal's last outcome is that of a settled session, and a claimed stop finds
\* a running or a settled one, whoever takes the step.
LEMMA RecordStep ==
  ASSUME OwnershipInv, ReceiptInv, IntentNext
  PROVE  /\ \A s \in Sessions : lastOutcome'[s] # "none" =>
              status'[s] \in LOCAL_TERMINAL_STATUSES
         /\ \A g \in Handlers :
              cpc'[g] \in {"gating", "killing", "stopped", "sealing"} =>
                status'[Target(g)'] \in Running \cup LOCAL_TERMINAL_STATUSES
<1> DEFINE Late == {"gating", "killing", "stopped", "sealing"}
<1>0. /\ Next \/ UNCHANGED vars
      /\ ControlMoves /\ OutcomesHold /\ HandlersKnow
      /\ \A c \in Commands : Intent[c].session \in Sessions
  BY IntentDoes, IntentAssumption DEF ReceiptInv, ControlIntents
<1>1. ASSUME NEW s \in Sessions, lastOutcome'[s] # "none"
      PROVE  status'[s] \in LOCAL_TERMINAL_STATUSES
  <2>1. CASE lastOutcome'[s] = lastOutcome[s]
    BY <1>0, <1>1, <2>1, HoldsStays DEF OutcomesHold
  <2>2. CASE lastOutcome'[s] # lastOutcome[s]
    <3>1. ~(Crash /\ \A h \in Handlers : cpc'[h] = "idle")
      BY <2>2 DEF Crash, journal
    <3>2. status'[s] \in Goals
      BY <1>0, <2>2, <3>1 DEF ControlMoves, ControlEffect
    <3> QED BY <3>2, GoalsEnd
  <2> QED BY <2>1, <2>2
<1>2. ASSUME NEW g \in Handlers, cpc'[g] \in Late
      PROVE  status'[Target(g)'] \in Running \cup LOCAL_TERMINAL_STATUSES
  <2>1. command'[g] = command[g] /\ (cpc[g] \in Late \/ status'[Target(g)] \in Running)
        /\ cpc[g] # "idle"
    <3>1. CASE UNCHANGED <<ctl, lastCommand, lastOutcome>>
      BY <1>2, <3>1 DEF ctl
    <3>2. ASSUME NEW h \in Handlers, hpc[h] = "controlling", ControlStep(h),
                 ControlEffect(h)
          PROVE  /\ command'[g] = command[g] /\ cpc[g] # "idle"
                 /\ cpc[g] \in Late \/ status'[Target(g)] \in Running
      BY <1>0, <1>2, <3>2 DEF ControlEffect, HandlersKnow
    <3>3. CASE \E h \in Handlers :
                 /\ hpc[h] = "applying" /\ cpc[h] = "idle"
                 /\ UNCHANGED <<lastCommand, lastOutcome>>
                 /\ \A x \in Handlers \ {h} : cpc'[x] = cpc[x] /\ command'[x] = command[x]
                 /\ \/ UNCHANGED ctl
                    \/ cpc'[h] \in {"closing", "stopping"} /\ command'[h] = asked[h]
      BY <1>2, <3>3 DEF ctl
    <3>4. CASE Crash /\ \A h \in Handlers : cpc'[h] = "idle"  BY <1>2, <3>4
    <3> QED BY <1>0, <3>1, <3>2, <3>3, <3>4 DEF ControlMoves
  <2>2. Target(g) \in Sessions /\ Target(g)' = Target(g)
    BY <2>1, TargetType DEF Target
  <2>3. CASE cpc[g] \in Late
    <3>1. cancelReq[Target(g)] /\ status[Target(g)] \in Running \cup LOCAL_TERMINAL_STATUSES
      BY <1>0, <2>3 DEF OwnershipInv, StopKnows, OutcomesHold
    <3> QED BY <1>0, <2>2, <3>1, HoldsStays
  <2>4. CASE cpc[g] \notin Late  BY <2>1, <2>2, <2>4
  <2> QED BY <2>3, <2>4
<1> QED BY <1>1, <1>2

\* What one handler does leaves every conjunct true.
LEMMA HandlerKeeps ==
  ASSUME OwnershipInv, ReceiptInv, IntentNext, NEW h \in Handlers, HandlerDoes(h)
  PROVE  ReceiptInv'
<1>0. /\ IntentTypeOK /\ OneReceipt /\ ClaimBeforeEffect /\ HandlersKnow /\ OutcomesHold
      /\ Next \/ UNCHANGED vars
      /\ ControlMoves
      /\ HandlerEffect(h) /\ DurableEffect(h) /\ KnowsAt(h)'
      /\ \A g \in Handlers \ {h} : cpc'[g] = cpc[g] /\ command'[g] = command[g]
  BY IntentDoes DEF ReceiptInv, HandlerDoes
<1>1. IntentTypeOK'
  BY <1>0 DEF IntentTypeOK, HandlerEffect, DurableEffect, HandlerDoes, EnvelopeType,
     AnsweredType, PlaceType, AskedType, ReadType, GivenType
<1>2. OneReceipt'
  <2>1. ASSUME NEW c \in Commands, NEW r \in answered'[c]
        PROVE  envelope'[c][1] = "final" /\ envelope'[c][2] = r
    BY <1>0, <2>1 DEF OneReceipt, DurableEffect
  <2> QED BY <2>1 DEF OneReceipt
<1>3. HandlersKnow'
  <2>1. ASSUME NEW g \in Handlers, g # h PROVE KnowsAt(g)'
    <3>1. KnowsAt(g)  BY <1>0 DEF HandlersKnow, KnowsAt
    <3>2. /\ hpc'[g] = hpc[g] /\ asked'[g] = asked[g] /\ verdict'[g] = verdict[g]
          /\ cpc'[g] = cpc[g] /\ command'[g] = command[g]
          /\ \A c \in Commands :
               envelope[c][1] # "absent" => envelope'[c][1] # "absent"
      BY <1>0, <2>1 DEF HandlerEffect, DurableEffect
    <3> QED BY <3>1, <3>2 DEF KnowsAt
  <2> QED BY <1>0, <2>1 DEF HandlersKnow, KnowsAt
<1>4. ClaimBeforeEffect'
  <2> SUFFICES ASSUME NEW s \in Sessions, lastCommand'[s] # NoCommand
               PROVE  envelope'[lastCommand'[s]][1] # "absent"
    BY DEF ClaimBeforeEffect
  <2>1. \A c \in Commands : envelope[c][1] # "absent" => envelope'[c][1] # "absent"
    BY <1>0 DEF DurableEffect
  <2>2. lastCommand[s] \in Commands \cup {NoCommand}
    BY DEF OwnershipInv, TypeOK, JournalType
  <2>3. CASE lastCommand'[s] = lastCommand[s]
    BY <1>0, <2>1, <2>2, <2>3 DEF ClaimBeforeEffect
  <2>4. CASE lastCommand'[s] # lastCommand[s]
    <3>1. ~(Crash /\ \A g \in Handlers : cpc'[g] = "idle")
      BY <2>4 DEF Crash, journal
    <3>2. PICK g \in Handlers : hpc[g] = "controlling" /\ lastCommand'[s] = command[g]
      BY <1>0, <2>4, <3>1 DEF ControlMoves, ControlEffect
    <3>3. command[g] = asked[g] /\ asked[g] \in Commands
          /\ envelope[asked[g]][1] # "absent"
      BY <1>0, <3>2 DEF HandlersKnow
    <3> QED BY <2>1, <3>2, <3>3
  <2> QED BY <2>3, <2>4
<1>5. OutcomesHold'
  <2>0. \A c \in Commands : Intent[c].session \in Sessions
    BY IntentAssumption DEF ControlIntents
  <2>1. ASSUME NEW c \in Commands, NEW o, Holds(c, o) PROVE HoldsNext(c, o)
    BY <1>0, <2>0, <2>1, HoldsStays DEF Holds, HoldsNext
  <2>2. ASSUME NEW c \in Commands PROVE HoldsNext(c, envelope'[c][2].outcome)
    <3>1. CASE envelope'[c] = envelope[c]
      BY <1>0, <2>1, <3>1 DEF OutcomesHold
    <3>2. CASE envelope'[c][2] = NoVerdict
      BY <3>2, VerdictTypes, NothingHolds
    <3>3. CASE hpc[h] # "idle" /\ c = asked[h] /\ envelope'[c][2] = verdict[h]
      BY <1>0, <2>1, <3>3 DEF OutcomesHold
    <3> QED BY <1>0, <3>1, <3>2, <3>3 DEF DurableEffect
  <2>3. ASSUME NEW g \in Handlers, hpc'[g] # "idle"
        PROVE  HoldsNext(asked'[g], verdict'[g].outcome)
    <3>1. CASE g = h  BY <2>3, <3>1 DEF HandlerDoes
    <3>2. CASE g # h
      <4>1. hpc'[g] = hpc[g] /\ asked'[g] = asked[g] /\ verdict'[g] = verdict[g]
        BY <1>0, <3>2 DEF HandlerEffect
      <4>2. asked[g] \in Commands /\ Holds(asked[g], verdict[g].outcome)
        BY <1>0, <2>3, <4>1 DEF OutcomesHold, HandlersKnow
      <4> QED BY <2>1, <4>1, <4>2
    <3> QED BY <3>1, <3>2
  <2> QED
    BY <2>2, <2>3, RecordStep DEF OutcomesHold, Holds, HoldsNext, Closed, Confirmed,
       ClosedNext, ConfirmedNext, Unspawned
<1> QED BY <1>1, <1>2, <1>3, <1>4, <1>5 DEF ReceiptInv

\* So does the rest of the runner, which leaves the intents and the controls alone.
LEMMA RunnerKeeps ==
  ASSUME OwnershipInv, ReceiptInv, Next \/ UNCHANGED vars, UNCHANGED intentVars,
         UNCHANGED <<ctl, lastCommand, lastOutcome>>
  PROVE  ReceiptInv'
<1> USE DEF ctl, intentVars
<1>0. /\ IntentTypeOK /\ OneReceipt /\ ClaimBeforeEffect /\ HandlersKnow /\ OutcomesHold
      /\ \A c \in Commands : Intent[c].session \in Sessions
  BY IntentAssumption DEF ReceiptInv, ControlIntents
<1>1. IntentTypeOK'  BY <1>0 DEF IntentTypeOK
<1>2. OneReceipt' /\ ClaimBeforeEffect'  BY <1>0 DEF OneReceipt, ClaimBeforeEffect
<1>3. HandlersKnow'  BY <1>0 DEF HandlersKnow
<1>4. OutcomesHold'
  <2>1. ASSUME NEW c \in Commands, NEW o, Holds(c, o) PROVE HoldsNext(c, o)
    BY <1>0, <2>1, HoldsStays DEF Holds, HoldsNext
  <2>2. \A c \in Commands : HoldsNext(c, envelope[c][2].outcome)
    BY <1>0, <2>1 DEF OutcomesHold
  <2>3. \A h \in Handlers : hpc[h] # "idle" => HoldsNext(asked[h], verdict[h].outcome)
    BY <1>0, <2>1 DEF OutcomesHold, HandlersKnow
  <2>4. \A s \in Sessions :
          lastOutcome[s] # "none" => status'[s] \in LOCAL_TERMINAL_STATUSES
    BY <1>0, HoldsStays DEF OutcomesHold
  <2>5. ASSUME NEW h \in Handlers,
               cpc[h] \in {"gating", "killing", "stopped", "sealing"}
        PROVE  status'[Target(h)] \in Running \cup LOCAL_TERMINAL_STATUSES
    <3>1. Target(h) \in Sessions /\ cancelReq[Target(h)]
      BY <2>5, TargetType DEF OwnershipInv, StopKnows
    <3> QED BY <1>0, <2>5, <3>1, HoldsStays DEF OutcomesHold
  <2> QED
    BY <2>2, <2>3, <2>4, <2>5 DEF OutcomesHold, Holds, HoldsNext, Closed, Confirmed,
       ClosedNext, ConfirmedNext, Unspawned, Target
<1> QED BY <1>1, <1>2, <1>3, <1>4 DEF ReceiptInv

\* And a crash: the envelopes and the answers stay, every handler is gone.
LEMMA CrashKeeps ==
  ASSUME OwnershipInv, ReceiptInv, CrashIntents PROVE ReceiptInv'
<1>0. /\ IntentTypeOK /\ OneReceipt /\ ClaimBeforeEffect /\ OutcomesHold
      /\ UNCHANGED <<durable, sendings>> /\ Crash /\ Next
      /\ UNCHANGED <<lastCommand, lastOutcome, status>>
      /\ \A h \in Handlers : hpc'[h] = "idle" /\ cpc'[h] = "idle" /\ verdict'[h] = NoVerdict
      /\ \A c \in Commands : Intent[c].session \in Sessions
  BY IntentAssumption
     DEF ReceiptInv, CrashIntents, Crash, journal, Next, ControlIntents
<1>1. IntentTypeOK'
  BY <1>0 DEF CrashIntents, IntentTypeOK, durable
<1>2. OneReceipt' /\ ClaimBeforeEffect'
  BY <1>0 DEF OneReceipt, ClaimBeforeEffect, durable
<1>3. HandlersKnow'  BY <1>0 DEF HandlersKnow
<1>4. OutcomesHold'
  <2>1. ASSUME NEW c \in Commands, NEW o, Holds(c, o) PROVE HoldsNext(c, o)
    BY <1>0, <2>1, HoldsStays DEF Holds, HoldsNext
  <2>2. \A c \in Commands : HoldsNext(c, envelope[c][2].outcome)
    BY <1>0, <2>1 DEF OutcomesHold
  <2> QED
    BY <1>0, <2>2 DEF durable, OutcomesHold, Holds, HoldsNext, Closed, Confirmed,
       ClosedNext, ConfirmedNext, Unspawned
<1> QED BY <1>1, <1>2, <1>3, <1>4 DEF ReceiptInv

LEMMA ReceiptInit == IntentInit => ReceiptInv
<1> SUFFICES ASSUME IntentInit PROVE ReceiptInv
  OBVIOUS
<1> USE DEF IntentInit, Init
<1>1. IntentTypeOK
  BY DeliveriesAssumption DEF IntentTypeOK
<1>2. OneReceipt /\ ClaimBeforeEffect  BY DEF OneReceipt, ClaimBeforeEffect
<1>3. HandlersKnow  BY DEF HandlersKnow
<1>4. OutcomesHold  BY VerdictTypes DEF OutcomesHold, Holds
<1> QED BY <1>1, <1>2, <1>3, <1>4 DEF ReceiptInv

LEMMA ReceiptStep ==
  ASSUME OwnershipInv, ReceiptInv, IntentNext PROVE ReceiptInv'
<1>1. Next \/ UNCHANGED vars  BY IntentDoes DEF ReceiptInv
<1>2. CASE RunnerStep /\ UNCHANGED intentVars
  BY <1>1, <1>2, RunnerFrame, RunnerKeeps
<1>3. CASE CrashIntents  BY <1>3, CrashKeeps
<1>4. ASSUME NEW h \in Handlers, HandlerStep(h) PROVE HandlerDoes(h)
  BY <1>4, LoadSessionDoes, ClaimIntentDoes, ApplyIntentDoes, ControlRaisesDoes,
     ControlContinuesDoes, CloseReturnsDoes, StopRefusedDoes, StopReturnsDoes,
     RecallOutcomeDoes, FinalizeReceiptDoes DEF HandlerStep
<1>5. ASSUME NEW h \in Handlers, NEW c \in Commands, ReceiveIntent(h, c)
      PROVE  HandlerDoes(h)
  BY <1>5, ReceiveIntentDoes
<1> QED BY <1>2, <1>3, <1>4, <1>5, HandlerKeeps DEF IntentNext

-----------------------------------------------------------------------------
(* The theorems.                                                           *)

\* The sessions keep their own invariant, and the intents theirs.
THEOREM ReceiptInvariant == IntentSpec => [](OwnershipInv /\ ReceiptInv)
<1>1. IntentInit => OwnershipInv /\ ReceiptInv
  BY OwnershipInit, ReceiptInit DEF IntentInit
<1>2. OwnershipInv /\ ReceiptInv /\ [IntentNext]_<<vars, intentVars>>
        => (OwnershipInv /\ ReceiptInv)'
  <2>1. ASSUME OwnershipInv, ReceiptInv, IntentNext PROVE (OwnershipInv /\ ReceiptInv)'
    BY <2>1, SessionsStep, ReceiptStep DEF ReceiptInv
  <2>2. ASSUME OwnershipInv, ReceiptInv, UNCHANGED <<vars, intentVars>>
        PROVE  (OwnershipInv /\ ReceiptInv)'
    <3>1. UNCHANGED <<ctl, lastCommand, lastOutcome>>
      BY <2>2 DEF vars, memory, journal
    <3> QED BY <2>2, <3>1, OwnershipStutter, RunnerKeeps
  <2> QED BY <2>1, <2>2
<1> QED BY <1>1, <1>2, PTL DEF IntentSpec

\* A receipt that is certain is true of its session (trusted_api.py, cancel, and
\* trusted_session.py, apply_control_action): what was closed has the status asked
\* for, what was stopped never comes back, and no process works for either.
THEOREM CertainReceiptsAreTrue == IntentSpec => []CertainReceiptIsTrue
<1>1. OwnershipInv /\ ReceiptInv => CertainReceiptIsTrue
  BY DEF ReceiptInv, OutcomesHold, Holds, Closed, Confirmed, CertainReceiptIsTrue
<1> QED BY <1>1, ReceiptInvariant, PTL

\* Whatever receipt AIOps has but INVALID_INTENT, its session is settled and nothing
\* the runner has not lost works for it.
THEOREM AppliedSessionsAreSettled == IntentSpec => []AppliedMeansSettled
<1>1. OwnershipInv /\ ReceiptInv => AppliedMeansSettled
  <2> SUFFICES ASSUME OwnershipInv, ReceiptInv, NEW c \in Commands,
                      envelope[c][2].outcome \notin {"none", "INVALID_INTENT"}
               PROVE  /\ status[Intent[c].session] \in LOCAL_TERMINAL_STATUSES
                      /\ ~Live(Intent[c].session)
    BY DEF AppliedMeansSettled
  <2>1. Intent[c].session \in Sessions  BY IntentAssumption DEF ControlIntents
  <2>2. status[Intent[c].session] \in LOCAL_TERMINAL_STATUSES
    BY DEF ReceiptInv, OutcomesHold, Holds
  <2> QED BY <2>1, <2>2 DEF OwnershipInv, SettledIsQuiet, Live
<1> QED BY <1>1, ReceiptInvariant, PTL
=============================================================================
