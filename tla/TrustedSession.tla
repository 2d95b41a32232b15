--------------------------- MODULE TrustedSession ---------------------------
(***************************************************************************)
(* The trusted repair sessions of one runner process: the orchestrator,    *)
(* its Claude child processes, the process registry, the session journal   *)
(* and the two locks (trusted_session.py), driven by the HTTP controller   *)
(* (trusted_api.py).                                                       *)
(*                                                                         *)
(* Actors.  Every session has at most one run thread (diagnosis, or an     *)
(* approved execution), named by the session itself.  A handler is an HTTP *)
(* thread that applies one control intent; Killer is the HTTP thread of    *)
(* the kill switch.  The child process moves by itself.                    *)
(*                                                                         *)
(* Locks.  gate is the orchestrator's _lifecycle_gate, which blocks;       *)
(* flock[s] is the non-blocking file lock of a session: finding it taken   *)
(* raises TRUSTED_SESSION_BUSY.  The journal's own mutex makes each load,  *)
(* update, update_if and compare_and_update one step.                      *)
(***************************************************************************)
EXTENDS Naturals, FiniteSets, RepairContract

CONSTANTS
  Sessions, Handlers, Commands,
  Killer, Nobody, NoCommand,
  Intent,        \* the immutable ControlIntent each command id is bound to
  MaxRequests,   \* bound: control requests and kill switch calls
  MaxCrashes,    \* bound: crashes of the runner process
  KillMayFail    \* may registry.cancel raise after SIGKILL, or an orphan survive?

Goals == {"REJECTED", "EXPIRED", "CANCELLED", "MANUAL_INTERVENTION"}
ControlIntents ==
  [session : Sessions, action : {"CLOSE_WAITING_SESSION", "STOP_ACTIVE_SESSION"},
   desired_terminal : Goals]

ASSUME ActorsAssumption ==
  /\ Sessions \cap Handlers = {}
  /\ Killer \notin Sessions \cup Handlers
  /\ Nobody \notin Sessions \cup Handlers \cup {Killer}
  /\ NoCommand \notin Commands
ASSUME IntentAssumption == Intent \in [Commands -> ControlIntents]
ASSUME BoundsAssumption ==
  /\ MaxRequests \in Nat
  /\ MaxCrashes \in Nat
  /\ KillMayFail \in BOOLEAN

\* PROPOSAL_GENERATING is active too; only sessions of inspections have it.
ACTIVE_STATUSES ==
  {"DIAGNOSING", "PENDING_APPROVAL", "EXECUTING", "AWAITING_RISK_CONFIRMATION"}
LOCAL_TERMINAL_STATUSES == TERMINAL_STATUSES
Running == {"DIAGNOSING", "EXECUTING"}
Waiting == {"PENDING_APPROVAL", "AWAITING_RISK_CONFIRMATION"}

Grants == {"initial", "risk"}
SourceStatus(k) ==
  IF k = "initial" THEN "PENDING_APPROVAL" ELSE "AWAITING_RISK_CONFIRMATION"
ActiveStatus(k) == IF k = "diagnosis" THEN "DIAGNOSING" ELSE "EXECUTING"

-----------------------------------------------------------------------------
VARIABLES
  \* the journal: metadata.json of each session, and _kill_switch.json
  status,       \* "NONE" until the journal of the session exists
  cancelReq,    \* cancel_requested_at is set
  remoteSeen,   \* remote_command_seen
  granted,      \* the idempotency keys claimed: initial approval, risk grant
  lastCommand,  \* last_control_command_id
  lastOutcome,  \* last_control_outcome; result_certain and stop_confirmed follow
  pidKnown,     \* pid, pgid and fingerprint of the current process are recorded
  killFile,
  \* the child process of each session
  proc,         \* "none", "running", "exited" by itself, or "killed"
  unread,       \* its stdout holds a remote command the runner has not read
  remoteRan,    \* the current process has started a remote command
  lost,         \* it outlived a kill that failed, or the runner
  executions,   \* resumed processes ever spawned for the session
  \* the runner's memory
  phase,        \* "up", or "recovering" after a restart
  gate, flock,
  registered,   \* ProcessRegistry holds the session's process
  killSwitch,
  \* the run thread of each session: what it executes, remote_command_seen of its
  \* parser, and the status it is about to write or the error it is to record
  pc, kind, remote, aim,
  \* each handler: its intent, remote_command_seen in the metadata its stop
  \* claimed, and had_process (after the kill: had_process and stopped)
  cpc, command, seen, had,
  \* the kill switch call: its loops hold of each session first the result of
  \* cancel_all, then the status to mark it with
  kpc, plan,
  requests, crashes

journal == <<status, cancelReq, remoteSeen, granted, lastCommand, lastOutcome,
             pidKnown, killFile>>
process == <<proc, unread, remoteRan, lost, executions>>
run     == <<pc, kind, remote, aim>>
ctl     == <<cpc, command, seen, had>>
killer  == <<kpc, plan>>
memory  == <<phase, gate, flock, registered, killSwitch, run, ctl, killer>>
vars    == <<journal, process, memory, requests, crashes>>

\* Program counters, in the order they are passed through.
RunPCs == {"idle", "accepting", "granted", "claiming", "spawning", "checking",
           "launching", "registering", "streaming", "persisting", "failing",
           "overwriting"}
ControlPCs == {"idle", "closing", "closeheld", "stopping", "claiming", "gating",
               "killing", "stopped", "sealing"}
KillPCs == {"idle", "arming", "killing", "marking"}

JournalType ==
  /\ status \in [Sessions -> RepairSessionStatus \cup {"NONE"}]
  /\ cancelReq \in [Sessions -> BOOLEAN]
  /\ remoteSeen \in [Sessions -> BOOLEAN]
  /\ granted \in [Sessions -> SUBSET Grants]
  /\ lastCommand \in [Sessions -> Commands \cup {NoCommand}]
  /\ lastOutcome \in [Sessions -> {"none", "CLOSED", "STOPPED_CONFIRMED",
                                   "STOP_UNCERTAIN"}]
  /\ pidKnown \in [Sessions -> BOOLEAN]
  /\ killFile \in BOOLEAN

ProcessType ==
  /\ proc \in [Sessions -> {"none", "running", "exited", "killed"}]
  /\ unread \in [Sessions -> BOOLEAN]
  /\ remoteRan \in [Sessions -> BOOLEAN]
  /\ lost \in [Sessions -> BOOLEAN]
  /\ executions \in [Sessions -> Nat]

LockType ==
  /\ phase \in {"up", "recovering"}
  /\ gate \in Sessions \cup Handlers \cup {Killer, Nobody}
  /\ flock \in [Sessions -> Sessions \cup Handlers \cup {Killer, Nobody}]
  /\ registered \in [Sessions -> BOOLEAN]
  /\ killSwitch \in BOOLEAN

RunType ==
  /\ pc \in [Sessions -> RunPCs]
  /\ kind \in [Sessions -> {"diagnosis"} \cup Grants]
  /\ remote \in [Sessions -> BOOLEAN]
  /\ aim \in [Sessions -> RepairSessionStatus \cup {"none", "unspawned", "raised"}]

ControlType ==
  /\ cpc \in [Handlers -> ControlPCs]
  /\ command \in [Handlers -> Commands \cup {NoCommand}]
  /\ seen \in [Handlers -> BOOLEAN]
  /\ had \in [Handlers -> BOOLEAN]
  /\ kpc \in KillPCs
  /\ plan \in [Sessions -> {"none", "stopped", "unstopped", "CANCELLED",
                            "MANUAL_INTERVENTION"}]
  /\ requests \in Nat
  /\ crashes \in Nat

TypeOK == JournalType /\ ProcessType /\ LockType /\ RunType /\ ControlType

Init ==
  /\ status = [s \in Sessions |-> "NONE"]
  /\ cancelReq = [s \in Sessions |-> FALSE]
  /\ remoteSeen = [s \in Sessions |-> FALSE]
  /\ granted = [s \in Sessions |-> {}]
  /\ lastCommand = [s \in Sessions |-> NoCommand]
  /\ lastOutcome = [s \in Sessions |-> "none"]
  /\ pidKnown = [s \in Sessions |-> FALSE]
  /\ killFile = FALSE
  /\ proc = [s \in Sessions |-> "none"]
  /\ unread = [s \in Sessions |-> FALSE]
  /\ remoteRan = [s \in Sessions |-> FALSE]
  /\ lost = [s \in Sessions |-> FALSE]
  /\ executions = [s \in Sessions |-> 0]
  /\ phase = "up"
  /\ gate = Nobody
  /\ flock = [s \in Sessions |-> Nobody]
  /\ registered = [s \in Sessions |-> FALSE]
  /\ killSwitch = FALSE
  /\ pc = [s \in Sessions |-> "idle"]
  /\ kind = [s \in Sessions |-> "diagnosis"]
  /\ remote = [s \in Sessions |-> FALSE]
  /\ aim = [s \in Sessions |-> "none"]
  /\ cpc = [h \in Handlers |-> "idle"]
  /\ command = [h \in Handlers |-> NoCommand]
  /\ seen = [h \in Handlers |-> FALSE]
  /\ had = [h \in Handlers |-> FALSE]
  /\ kpc = "idle"
  /\ plan = [s \in Sessions |-> "none"]
  /\ requests = 0
  /\ crashes = 0

-----------------------------------------------------------------------------
(* Run threads: create_and_diagnose, resume and resume_after_risk_grant.   *)

RunAt(s, at) == phase = "up" /\ pc[s] = at
SetRun(s, at, to) ==
  /\ pc' = [pc EXCEPT ![s] = at]
  /\ aim' = [aim EXCEPT ![s] = to]
  /\ UNCHANGED <<kind, remote>>
StartRun(s, at, k) ==
  /\ pc' = [pc EXCEPT ![s] = at]
  /\ kind' = [kind EXCEPT ![s] = k]
  /\ UNCHANGED <<remote, aim>>
EndRun(s) ==
  /\ pc' = [pc EXCEPT ![s] = "idle"]
  /\ kind' = [kind EXCEPT ![s] = "diagnosis"]
  /\ remote' = [remote EXCEPT ![s] = FALSE]
  /\ aim' = [aim EXCEPT ![s] = "none"]
Raise(s) == SetRun(s, "failing", "raised")
Unlock(s) == flock' = [flock EXCEPT ![s] = Nobody]

\* POST /trusted-sessions: both _enabled_for checks, around taking the lock.
CreateLock(s) ==
  /\ RunAt(s, "idle") /\ status[s] = "NONE"
  /\ ~killSwitch /\ flock[s] = Nobody
  /\ flock' = [flock EXCEPT ![s] = s]
  /\ StartRun(s, "accepting", "diagnosis")
  /\ UNCHANGED <<journal, process, phase, gate, registered, killSwitch, ctl,
                 killer, requests, crashes>>

AcceptSession(s) ==
  /\ RunAt(s, "accepting")
  /\ status' = [status EXCEPT ![s] = "DIAGNOSING"]
  /\ Unlock(s)
  /\ SetRun(s, "spawning", "none")
  /\ UNCHANGED <<cancelReq, remoteSeen, granted, lastCommand, lastOutcome,
                 pidKnown, killFile, process, phase, gate, registered,
                 killSwitch, ctl, killer, requests, crashes>>

\* approve and risk_decision: _claim binds the idempotency key once and for all,
\* then a thread is started.
GrantableTwice(s, k) == status[s] = SourceStatus(k)  \* mutant: the key is not bound
Grantable(s, k) == status[s] = SourceStatus(k) /\ k \notin granted[s]

Grant(s, k) ==
  /\ RunAt(s, "idle") /\ ~killSwitch /\ Grantable(s, k)
  /\ granted' = [granted EXCEPT ![s] = @ \cup {k}]
  /\ StartRun(s, "granted", k)
  /\ UNCHANGED <<status, cancelReq, remoteSeen, lastCommand, lastOutcome,
                 pidKnown, killFile, process, phase, gate, flock, registered,
                 killSwitch, ctl, killer, requests, crashes>>

\* A busy lock or the kill switch ends the thread; the session keeps waiting.
ResumeLock(s) ==
  /\ RunAt(s, "granted")
  /\ IF killSwitch \/ flock[s] # Nobody
       THEN EndRun(s) /\ UNCHANGED flock
       ELSE /\ flock' = [flock EXCEPT ![s] = s]
            /\ SetRun(s, "claiming", "none")
  /\ UNCHANGED <<journal, process, phase, gate, registered, killSwitch, ctl,
                 killer, requests, crashes>>

\* The claim may be refused (a binding differs, a record is unreadable), find
\* the approval expired, or find the stored record corrupt.
ResumeClaim(s) ==
  /\ RunAt(s, "claiming")
  /\ Unlock(s)
  /\ \/ EndRun(s) /\ UNCHANGED status
     \/ /\ status[s] = SourceStatus(kind[s]) /\ ~cancelReq[s]
        /\ \/ /\ status' = [status EXCEPT ![s] = "EXECUTING"]
              /\ SetRun(s, "spawning", "none")
           \/ /\ \E late \in {"EXPIRED", "MANUAL_INTERVENTION"} :
                   status' = [status EXCEPT ![s] = late]
              /\ EndRun(s)
  /\ UNCHANGED <<cancelReq, remoteSeen, granted, lastCommand, lastOutcome,
                 pidKnown, killFile, process, phase, gate, registered,
                 killSwitch, ctl, killer, requests, crashes>>

\* adapter.run enters the spawn guard; _pre_spawn takes the lock under it.
SpawnGate(s) ==
  /\ RunAt(s, "spawning") /\ gate = Nobody
  /\ IF flock[s] = Nobody
       THEN /\ gate' = s
            /\ flock' = [flock EXCEPT ![s] = s]
            /\ SetRun(s, "checking", "none")
       ELSE Raise(s) /\ UNCHANGED <<gate, flock>>
  /\ UNCHANGED <<journal, process, phase, registered, killSwitch, ctl, killer,
                 requests, crashes>>

\* _pre_spawn re-reads every launch fact; a grant may have expired meanwhile.
SpawnAfterKill(s) ==      \* mutant: the kill switch is not read again
  ~cancelReq[s] /\ status[s] = ActiveStatus(kind[s])
SpawnAfterStop(s) == ~killSwitch  \* mutant: the session is not read again
MaySpawn(s) == ~killSwitch /\ ~cancelReq[s] /\ status[s] = ActiveStatus(kind[s])

RefuseAtGate(s) == Raise(s) /\ UNCHANGED <<gate, status>>  \* mutant: the gate is kept
Refuse(s) == Raise(s) /\ gate' = Nobody /\ UNCHANGED status

PreSpawn(s) ==
  /\ RunAt(s, "checking")
  /\ Unlock(s)
  /\ \/ /\ MaySpawn(s)
        /\ SetRun(s, "launching", "none")
        /\ UNCHANGED <<gate, status>>
     \/ Refuse(s)
     \/ /\ MaySpawn(s) /\ kind[s] \in Grants
        /\ status' = [status EXCEPT ![s] = "EXPIRED"]
        /\ Raise(s) /\ gate' = Nobody
  /\ UNCHANGED <<cancelReq, remoteSeen, granted, lastCommand, lastOutcome,
                 pidKnown, killFile, process, phase, registered, killSwitch, ctl,
                 killer, requests, crashes>>

\* Popen and registry.register, or OSError.  The registry slot is free
\* (LaunchSlotFree), so register does not raise.
Launch(s) ==
  /\ RunAt(s, "launching")
  /\ proc' = [proc EXCEPT ![s] = "running"]
  /\ unread' = [unread EXCEPT ![s] = FALSE]
  /\ remoteRan' = [remoteRan EXCEPT ![s] = FALSE]
  /\ lost' = [lost EXCEPT ![s] = FALSE]
  /\ executions' = [executions EXCEPT ![s] = IF kind[s] \in Grants THEN @ + 1 ELSE @]
  /\ pidKnown' = [pidKnown EXCEPT ![s] = FALSE]
  /\ registered' = [registered EXCEPT ![s] = TRUE]
  /\ SetRun(s, "registering", "none")
  /\ UNCHANGED <<status, cancelReq, remoteSeen, granted, lastCommand, lastOutcome,
                 killFile, phase, gate, flock, killSwitch, ctl, killer, requests,
                 crashes>>

LaunchFails(s) ==
  /\ RunAt(s, "launching")
  /\ gate' = Nobody
  /\ SetRun(s, "failing", "unspawned")
  /\ UNCHANGED <<journal, process, phase, flock, registered, killSwitch, ctl,
                 killer, requests, crashes>>

\* record_process: write the pid, then re-read the session; a refusal kills
\* the new process and drops its registration.
RecordProcess(s) ==
  /\ RunAt(s, "registering")
  /\ pidKnown' = [pidKnown EXCEPT ![s] = TRUE]
  /\ gate' = Nobody
  /\ IF killSwitch \/ cancelReq[s] \/ status[s] \notin Running
       THEN /\ \E dies \in BOOLEAN :
                 /\ dies \/ KillMayFail
                 /\ proc' = [proc EXCEPT ![s] =
                               IF dies /\ @ = "running" THEN "killed" ELSE @]
                 /\ lost' = [lost EXCEPT ![s] = ~dies /\ proc[s] = "running"]
            /\ registered' = [registered EXCEPT ![s] = FALSE]
            /\ Raise(s)
       ELSE /\ SetRun(s, "streaming", "none")
            /\ UNCHANGED <<proc, lost, registered>>
  /\ UNCHANGED <<status, cancelReq, remoteSeen, granted, lastCommand, lastOutcome,
                 killFile, unread, remoteRan, executions, phase, flock,
                 killSwitch, ctl, killer, requests, crashes>>

-----------------------------------------------------------------------------
(* The child process, and the stream loop of ClaudeSessionAdapter.run.     *)

\* Claude reports a command on stdout and starts it on the target.
RemoteCommand(s) ==
  /\ proc[s] = "running" /\ ~unread[s]
  /\ lost[s] \/ pc[s] # "registering"
  /\ unread' = [unread EXCEPT ![s] = TRUE]
  /\ remoteRan' = [remoteRan EXCEPT ![s] = TRUE]
  /\ UNCHANGED <<journal, proc, lost, executions, memory, requests, crashes>>

ProcessExit(s) ==
  /\ proc[s] = "running"
  /\ proc' = [proc EXCEPT ![s] = "exited"]
  /\ UNCHANGED <<journal, unread, remoteRan, lost, executions, memory, requests,
                 crashes>>

\* _persist_live_event of a command that may start a remote process.
ReadCommand(s) ==
  /\ RunAt(s, "streaming") /\ unread[s]
  /\ unread' = [unread EXCEPT ![s] = FALSE]
  /\ remoteSeen' = [remoteSeen EXCEPT ![s] = TRUE]
  /\ remote' = [remote EXCEPT ![s] = TRUE]
  /\ UNCHANGED <<status, cancelReq, granted, lastCommand, lastOutcome, pidKnown,
                 killFile, proc, remoteRan, lost, executions, phase, gate, flock,
                 registered, killSwitch, pc, kind, aim, ctl, killer, requests,
                 crashes>>

ProposalStatus(k) == {"PROPOSAL_CREATED"}  \* mutant: the event for the status

\* What a complete stream may end in: the proposal of a diagnosis, or a risk
\* pause or verification outcome.
Results(k) ==
  IF k = "diagnosis" THEN {"PENDING_APPROVAL"}
  ELSE {"AWAITING_RISK_CONFIRMATION", "SUCCEEDED", "FAILED", "MANUAL_INTERVENTION"}

StreamDoneEarly(s) == ~unread[s]  \* mutant: the exit of the process is not awaited
StreamDone(s) == proc[s] # "running" /\ ~unread[s]

\* End of the stream.  A killed process has a bad return code; an exited one
\* may have one too, or an incomplete stream, or a proposal that does not bind.
StreamEnd(s) ==
  /\ RunAt(s, "streaming") /\ StreamDone(s)
  /\ registered' = [registered EXCEPT ![s] = FALSE]
  /\ \/ proc[s] # "killed" /\ \E r \in Results(kind[s]) : SetRun(s, "persisting", r)
     \/ Raise(s)
  /\ UNCHANGED <<journal, process, phase, gate, flock, killSwitch, ctl, killer,
                 requests, crashes>>

\* TTL, command budget, provider failure or a protocol violation: the run kills
\* its own process.  A kill that raises leaves the registration behind.
StreamAbort(s) ==
  /\ RunAt(s, "streaming")
  /\ \/ /\ proc' = [proc EXCEPT ![s] = IF @ = "running" THEN "killed" ELSE @]
        /\ registered' = [registered EXCEPT ![s] = FALSE]
        /\ UNCHANGED lost
     \/ /\ KillMayFail /\ proc[s] = "running"
        /\ lost' = [lost EXCEPT ![s] = TRUE]
        /\ UNCHANGED <<proc, registered>>
  /\ Raise(s)
  /\ UNCHANGED <<journal, unread, remoteRan, executions, phase, gate, flock,
                 killSwitch, ctl, killer, requests, crashes>>

PersistAnyway(s) == TRUE  \* mutant: an update without its condition
MayPersist(s) == ~cancelReq[s] /\ status[s] = ActiveStatus(kind[s])

\* _persist_result: only a run that nobody cancelled records its result.
PersistResult(s) ==
  /\ RunAt(s, "persisting")
  /\ EndRun(s)
  /\ IF MayPersist(s)
       THEN /\ status' = [status EXCEPT ![s] = aim[s]]
            /\ remoteSeen' = [remoteSeen EXCEPT ![s] = remote[s]]
       ELSE UNCHANGED <<status, remoteSeen>>
  /\ UNCHANGED <<cancelReq, granted, lastCommand, lastOutcome, pidKnown, killFile,
                 process, phase, gate, flock, registered, killSwitch, ctl, killer,
                 requests, crashes>>

NeverExecuted(s) == status[s] # "EXECUTING"  \* mutant: only an execution is uncertain
Settled(s) == status[s] \in LOCAL_TERMINAL_STATUSES

\* _record_uncertain: the load and the update are two steps, without the lock.
RecordUncertainLoad(s) ==
  /\ RunAt(s, "failing")
  /\ IF Settled(s)
       THEN EndRun(s)
       ELSE SetRun(s, "overwriting",
                   IF status[s] = "DIAGNOSING" /\ aim[s] = "unspawned"
                     THEN "DIAGNOSIS_FAILED" ELSE "MANUAL_INTERVENTION")
  /\ UNCHANGED <<journal, process, phase, gate, flock, registered, killSwitch, ctl,
                 killer, requests, crashes>>

RecordUncertainUpdate(s) ==
  /\ RunAt(s, "overwriting")
  /\ status' = [status EXCEPT ![s] = aim[s]]
  /\ EndRun(s)
  /\ UNCHANGED <<cancelReq, remoteSeen, granted, lastCommand, lastOutcome, pidKnown,
                 killFile, process, phase, gate, flock, registered, killSwitch, ctl,
                 killer, requests, crashes>>

-----------------------------------------------------------------------------
(* apply_control_action, in the HTTP thread h.                             *)

CtlAt(h, at) == phase = "up" /\ cpc[h] = at
SetCtl(h, at) == cpc' = [cpc EXCEPT ![h] = at] /\ UNCHANGED <<command, seen, had>>
EndCtl(h) ==
  /\ cpc' = [cpc EXCEPT ![h] = "idle"]
  /\ command' = [command EXCEPT ![h] = NoCommand]
  /\ seen' = [seen EXCEPT ![h] = FALSE]
  /\ had' = [had EXCEPT ![h] = FALSE]
Target(h) == Intent[command[h]].session
Goal(h) == Intent[command[h]].desired_terminal

\* An intent already applied to this session is only answered.
ControlRequest(h, c) ==
  LET s == Intent[c].session IN
  /\ CtlAt(h, "idle") /\ requests < MaxRequests
  /\ status[s] # "NONE"
  /\ requests' = requests + 1
  /\ IF lastCommand[s] = c /\ lastOutcome[s] # "none"
       THEN UNCHANGED ctl
       ELSE /\ cpc' = [cpc EXCEPT ![h] =
                        IF Intent[c].action = "CLOSE_WAITING_SESSION"
                          THEN "closing" ELSE "stopping"]
            /\ command' = [command EXCEPT ![h] = c]
            /\ UNCHANGED <<seen, had>>
  /\ UNCHANGED <<journal, process, phase, gate, flock, registered, killSwitch, run,
                 killer, crashes>>

CloseLock(h) ==
  /\ CtlAt(h, "closing") /\ gate = Nobody
  /\ IF flock[Target(h)] = Nobody
       THEN /\ gate' = h
            /\ flock' = [flock EXCEPT ![Target(h)] = h]
            /\ SetCtl(h, "closeheld")
       ELSE EndCtl(h) /\ UNCHANGED <<gate, flock>>
  /\ UNCHANGED <<journal, process, phase, registered, killSwitch, run, killer,
                 requests, crashes>>

\* Only a waiting session without a registered process is closed.
CloseSeal(h) ==
  LET s == Target(h) IN
  /\ CtlAt(h, "closeheld")
  /\ IF status[s] \in Waiting /\ ~registered[s]
       THEN /\ status' = [status EXCEPT ![s] = Goal(h)]
            /\ lastCommand' = [lastCommand EXCEPT ![s] = command[h]]
            /\ lastOutcome' = [lastOutcome EXCEPT ![s] = "CLOSED"]
       ELSE UNCHANGED <<status, lastCommand, lastOutcome>>
  /\ gate' = Nobody
  /\ Unlock(s)
  /\ EndCtl(h)
  /\ UNCHANGED <<cancelReq, remoteSeen, granted, pidKnown, killFile, process, phase,
                 registered, killSwitch, run, killer, requests, crashes>>

\* The stop is claimed in the journal first; the metadata it read is kept.
StopLock(h) ==
  /\ CtlAt(h, "stopping")
  /\ IF flock[Target(h)] = Nobody
       THEN /\ flock' = [flock EXCEPT ![Target(h)] = h]
            /\ SetCtl(h, "claiming")
       ELSE EndCtl(h) /\ UNCHANGED flock
  /\ UNCHANGED <<journal, process, phase, gate, registered, killSwitch, run, killer,
                 requests, crashes>>

StopClaim(h) ==
  LET s == Target(h) IN
  /\ CtlAt(h, "claiming")
  /\ Unlock(s)
  /\ IF status[s] \in Running /\ (~cancelReq[s] \/ lastCommand[s] = command[h])
       THEN /\ cancelReq' = [cancelReq EXCEPT ![s] = TRUE]
            /\ lastCommand' = [lastCommand EXCEPT ![s] = command[h]]
            /\ cpc' = [cpc EXCEPT ![h] = "gating"]
            /\ seen' = [seen EXCEPT ![h] = remoteSeen[s]]
            /\ UNCHANGED <<command, had>>
       ELSE EndCtl(h) /\ UNCHANGED <<cancelReq, lastCommand>>
  /\ UNCHANGED <<status, remoteSeen, granted, lastOutcome, pidKnown, killFile,
                 process, phase, gate, registered, killSwitch, run, killer,
                 requests, crashes>>

StopGate(h) ==
  /\ CtlAt(h, "gating") /\ gate = Nobody
  /\ gate' = h
  /\ cpc' = [cpc EXCEPT ![h] = "killing"]
  /\ had' = [had EXCEPT ![h] = registered[Target(h)]]
  /\ UNCHANGED <<command, seen>>
  /\ UNCHANGED <<journal, process, phase, flock, registered, killSwitch, run,
                 killer, requests, crashes>>

\* registry.cancel; when it raises, the handler gives up with the claim made.
StopKill(h) ==
  LET s == Target(h) IN
  /\ CtlAt(h, "killing")
  /\ gate' = Nobody
  /\ \/ /\ proc' = [proc EXCEPT ![s] =
                      IF registered[s] /\ @ = "running" THEN "killed" ELSE @]
        /\ registered' = [registered EXCEPT ![s] = FALSE]
        /\ cpc' = [cpc EXCEPT ![h] = "stopped"]
        /\ had' = [had EXCEPT ![h] = @ /\ registered[s]]
        /\ UNCHANGED <<command, seen>>
     \/ /\ KillMayFail /\ registered[s] /\ proc[s] = "running"
        /\ EndCtl(h)
        /\ UNCHANGED <<proc, registered>>
  /\ UNCHANGED <<journal, unread, remoteRan, lost, executions, phase, flock,
                 killSwitch, run, killer, requests, crashes>>

\* The result is certain when the process was there, stopped, and the claimed
\* metadata knew of no remote command.
ResultCertain(h) == had[h] /\ ~seen[h]

\* Finding the lock busy here loses the verdict: the claim stays, unsealed.
SealLock(h) ==
  /\ CtlAt(h, "stopped")
  /\ IF flock[Target(h)] = Nobody
       THEN /\ flock' = [flock EXCEPT ![Target(h)] = h]
            /\ SetCtl(h, "sealing")
       ELSE EndCtl(h) /\ UNCHANGED flock
  /\ UNCHANGED <<journal, process, phase, gate, registered, killSwitch, run, killer,
                 requests, crashes>>

SealClaimed(s) == cancelReq[s]  \* mutant: the status is not read again
MaySeal(s) == status[s] \in Running /\ cancelReq[s]

StopSeal(h) ==
  LET s == Target(h) IN
  /\ CtlAt(h, "sealing")
  /\ Unlock(s)
  /\ EndCtl(h)
  /\ IF MaySeal(s)
       THEN /\ status' = [status EXCEPT ![s] =
                            IF ResultCertain(h) THEN Goal(h) ELSE "MANUAL_INTERVENTION"]
            /\ lastCommand' = [lastCommand EXCEPT ![s] = command[h]]
            /\ lastOutcome' = [lastOutcome EXCEPT ![s] =
                 IF ResultCertain(h) THEN "STOPPED_CONFIRMED" ELSE "STOP_UNCERTAIN"]
       ELSE UNCHANGED <<status, lastCommand, lastOutcome>>
  /\ UNCHANGED <<cancelReq, remoteSeen, granted, pidKnown, killFile, process, phase,
                 gate, registered, killSwitch, run, killer, requests, crashes>>

-----------------------------------------------------------------------------
(* activate_kill_switch and deactivate_kill_switch.                        *)

KillerAt(at) == phase = "up" /\ kpc = at

KillArm ==
  /\ KillerAt("idle") /\ gate = Nobody /\ requests < MaxRequests
  /\ requests' = requests + 1
  /\ gate' = Killer
  /\ killSwitch' = TRUE
  /\ kpc' = "arming"
  /\ UNCHANGED <<journal, process, phase, flock, registered, run, ctl, plan, crashes>>

KillWriteFile ==
  /\ KillerAt("arming")
  /\ killFile' = TRUE
  /\ kpc' = "killing"
  /\ UNCHANGED <<status, cancelReq, remoteSeen, granted, lastCommand, lastOutcome,
                 pidKnown, process, phase, gate, flock, registered, killSwitch, run,
                 ctl, plan, requests, crashes>>

\* registry.cancel_all, where a kill that raises counts as not stopped, and the
\* listing of the journal.
KillProcesses ==
  /\ KillerAt("killing")
  /\ \E survivors \in SUBSET {s \in Sessions : registered[s] /\ proc[s] = "running"} :
       /\ survivors = {} \/ KillMayFail
       /\ proc' = [s \in Sessions |->
                     IF registered[s] /\ proc[s] = "running" /\ s \notin survivors
                       THEN "killed" ELSE proc[s]]
       /\ registered' = [s \in Sessions |-> s \in survivors]
       /\ lost' = [s \in Sessions |-> lost[s] \/ s \in survivors]
       /\ plan' = [s \in Sessions |->
                     IF status[s] = "NONE" THEN "none"
                     ELSE IF registered[s] /\ s \notin survivors THEN "stopped"
                     ELSE "unstopped"]
  /\ kpc' = "marking"
  /\ UNCHANGED <<journal, unread, remoteRan, executions, phase, gate, flock,
                 killSwitch, run, ctl, requests, crashes>>

ToClaim == {s \in Sessions : plan[s] \in {"stopped", "unstopped"}}
ToMark == {s \in Sessions : plan[s] \in {"CANCELLED", "MANUAL_INTERVENTION"}}

\* Both loops take the lock of one session at a time; a busy lock is a record
\* tracking error and the session is left as it is.
KillLock(s) ==
  /\ KillerAt("marking")
  /\ \A x \in Sessions : flock[x] # Killer
  /\ s \in IF ToClaim # {} THEN ToClaim ELSE ToMark
  /\ IF flock[s] = Nobody
       THEN flock' = [flock EXCEPT ![s] = Killer] /\ UNCHANGED plan
       ELSE plan' = [plan EXCEPT ![s] = "none"] /\ UNCHANGED flock
  /\ UNCHANGED <<journal, process, phase, gate, registered, killSwitch, run, ctl,
                 kpc, requests, crashes>>

\* The first loop asks every active session to cancel.
KillClaim(s) ==
  /\ KillerAt("marking") /\ flock[s] = Killer /\ s \in ToClaim
  /\ Unlock(s)
  /\ IF status[s] \in ACTIVE_STATUSES
       THEN /\ cancelReq' = [cancelReq EXCEPT ![s] = TRUE]
            /\ plan' = [plan EXCEPT ![s] =
                 IF \/ status[s] \in Waiting
                    \/ plan[s] = "stopped" /\ ~remoteSeen[s]
                   THEN "CANCELLED" ELSE "MANUAL_INTERVENTION"]
       ELSE /\ plan' = [plan EXCEPT ![s] = "none"]
            /\ UNCHANGED cancelReq
  /\ UNCHANGED <<status, remoteSeen, granted, lastCommand, lastOutcome, pidKnown,
                 killFile, process, phase, gate, registered, killSwitch, run, ctl,
                 kpc, requests, crashes>>

\* The second loop seals what the first one claimed.
KillMark(s) ==
  /\ KillerAt("marking") /\ flock[s] = Killer /\ s \in ToMark
  /\ Unlock(s)
  /\ IF status[s] \in ACTIVE_STATUSES /\ cancelReq[s]
       THEN status' = [status EXCEPT ![s] = plan[s]]
       ELSE UNCHANGED status
  /\ plan' = [plan EXCEPT ![s] = "none"]
  /\ UNCHANGED <<cancelReq, remoteSeen, granted, lastCommand, lastOutcome, pidKnown,
                 killFile, process, phase, gate, registered, killSwitch, run, ctl,
                 kpc, requests, crashes>>

KillReturn ==
  /\ KillerAt("marking") /\ ToClaim = {} /\ ToMark = {}
  /\ gate' = Nobody
  /\ kpc' = "idle"
  /\ UNCHANGED <<journal, process, phase, flock, registered, killSwitch, run, ctl,
                 plan, requests, crashes>>

KillDeactivate ==
  /\ phase = "up" /\ gate = Nobody /\ killSwitch
  /\ killFile' = FALSE
  /\ killSwitch' = FALSE
  /\ UNCHANGED <<status, cancelReq, remoteSeen, granted, lastCommand, lastOutcome,
                 pidKnown, process, phase, gate, flock, registered, run, ctl, killer,
                 requests, crashes>>

-----------------------------------------------------------------------------
(* The runner process dies and is started again: the memory and the locks  *)
(* are gone, the children are orphans, the journal stays.                  *)

Crash ==
  /\ crashes < MaxCrashes
  /\ crashes' = crashes + 1
  /\ phase' = "recovering"
  /\ gate' = Nobody
  /\ flock' = [s \in Sessions |-> Nobody]
  /\ registered' = [s \in Sessions |-> FALSE]
  /\ killSwitch' = killFile
  /\ pc' = [s \in Sessions |-> "idle"]
  /\ kind' = [s \in Sessions |-> "diagnosis"]
  /\ remote' = [s \in Sessions |-> FALSE]
  /\ aim' = [s \in Sessions |-> "none"]
  /\ cpc' = [h \in Handlers |-> "idle"]
  /\ command' = [h \in Handlers |-> NoCommand]
  /\ seen' = [h \in Handlers |-> FALSE]
  /\ had' = [h \in Handlers |-> FALSE]
  /\ kpc' = "idle"
  /\ plan' = [s \in Sessions |-> "none"]
  /\ lost' = [s \in Sessions |-> lost[s] \/ proc[s] = "running"]
  /\ UNCHANGED <<journal, proc, unread, remoteRan, executions, requests>>

\* recover_active_as_uncertain: a recorded orphan is killed, and the session is
\* handed to a human whether or not it died.
RecoverSession(s) ==
  /\ phase = "recovering" /\ status[s] \in Running
  /\ status' = [status EXCEPT ![s] = "MANUAL_INTERVENTION"]
  /\ \/ pidKnown[s] /\ proc' = [proc EXCEPT ![s] = IF @ = "running" THEN "killed" ELSE @]
     \/ (~pidKnown[s] \/ KillMayFail) /\ UNCHANGED proc
  /\ UNCHANGED <<cancelReq, remoteSeen, granted, lastCommand, lastOutcome, pidKnown,
                 killFile, unread, remoteRan, lost, executions, memory, requests,
                 crashes>>

RecoverDone ==
  /\ phase = "recovering"
  /\ \A s \in Sessions : status[s] \notin Running
  /\ phase' = "up"
  /\ UNCHANGED <<journal, process, gate, flock, registered, killSwitch, run, ctl,
                 killer, requests, crashes>>

-----------------------------------------------------------------------------
RunStep(s) ==
  \/ AcceptSession(s) \/ ResumeLock(s) \/ ResumeClaim(s)
  \/ SpawnGate(s) \/ PreSpawn(s) \/ Launch(s) \/ LaunchFails(s) \/ RecordProcess(s)
  \/ ReadCommand(s) \/ StreamEnd(s) \/ StreamAbort(s) \/ PersistResult(s)
  \/ RecordUncertainLoad(s) \/ RecordUncertainUpdate(s)

ControlStep(h) ==
  \/ CloseLock(h) \/ CloseSeal(h)
  \/ StopLock(h) \/ StopClaim(h) \/ StopGate(h) \/ StopKill(h)
  \/ SealLock(h) \/ StopSeal(h)

KillStep ==
  \/ KillWriteFile \/ KillProcesses \/ KillReturn
  \/ \E s \in Sessions : KillLock(s) \/ KillClaim(s) \/ KillMark(s)

RecoverStep == RecoverDone \/ \E s \in Sessions : RecoverSession(s)

ProcessStep(s) == RemoteCommand(s) \/ ProcessExit(s)

\* What AIOps and the administrator ask for.
RequestStep ==
  \/ \E s \in Sessions : CreateLock(s) \/ \E k \in Grants : Grant(s, k)
  \/ \E h \in Handlers, c \in Commands : ControlRequest(h, c)
  \/ KillArm \/ KillDeactivate

Next ==
  \/ \E s \in Sessions : RunStep(s) \/ ProcessStep(s)
  \/ \E h \in Handlers : ControlStep(h)
  \/ KillStep \/ RequestStep \/ RecoverStep \/ Crash

\* The runner's own threads keep running; StreamAbort on its own is the TTL of
\* every run.  Nobody has to send a request, and a child never has to exit.
Fairness ==
  /\ \A s \in Sessions : WF_vars(RunStep(s)) /\ WF_vars(StreamAbort(s))
  /\ \A h \in Handlers : WF_vars(ControlStep(h))
  /\ WF_vars(KillStep) /\ WF_vars(RecoverStep)

Spec == Init /\ [][Next]_vars
FairSpec == Spec /\ Fairness

-----------------------------------------------------------------------------
(* Safety.                                                                 *)

Live(s) == proc[s] = "running" /\ ~lost[s]

\* A process the runner has not lost is registered, so a stop and the kill switch
\* can reach it, and its run thread still watches it or is about to.
LiveIsReachable ==
  \A s \in Sessions :
    Live(s) => registered[s] /\ pc[s] \in {"registering", "streaming"}

\* While a run holds the gate to launch, the session has no process and its
\* registry slot is free: one process per Claude session, and register cannot
\* raise over a slot that a failed kill left occupied.
LaunchSlotFree ==
  \A s \in Sessions :
    pc[s] \in {"spawning", "checking", "launching"} =>
      proc[s] # "running" /\ ~registered[s]

\* A journal that says the session has ended, or waits for a human, is true: no
\* process works for it.  Only MANUAL_INTERVENTION may hide a process, and only
\* one that outlived a kill or the runner.
SettledIsQuiet ==
  \A s \in Sessions :
    /\ status[s] \in (LOCAL_TERMINAL_STATUSES \cup Waiting) \ {"MANUAL_INTERVENTION"}
         => proc[s] # "running"
    /\ status[s] = "MANUAL_INTERVENTION" => ~Live(s)

\* Once activate_kill_switch has returned, and until it is deactivated, nothing
\* runs but what a kill could not stop, also across a restart.
KillSwitchQuiet ==
  killSwitch /\ gate # Killer => \A s \in Sessions : ~Live(s)

\* A resumed process was paid for by its own approval or risk grant; no retry,
\* duplicate or restart spends one twice.
GrantsBoundExecutions ==
  \A s \in Sessions : executions[s] <= Cardinality(granted[s])

\* A session in a running status has a run thread to move it on, unless a stop
\* or the kill switch has claimed it (whose own last step may have failed).
RunningHasThread ==
  \A s \in Sessions :
    phase = "up" /\ status[s] \in Running =>
      \/ pc[s] \in RunPCs \ {"idle", "granted", "claiming"}
      \/ cancelReq[s]

\* Spawning is refused by the kill switch, also one activated after the session
\* was claimed, and happens only in a running status.
SpawnIsAllowed ==
  [][\A s \in Sessions :
       proc[s] # "running" /\ proc'[s] = "running" =>
         ~killSwitch' /\ status'[s] \in Running]_vars

\* What the runner concluded itself, and what AIOps closed, is final; and a
\* terminal session never becomes active again.
ConclusionsAreFinal ==
  [][\A s \in Sessions :
       /\ status[s] \in {"SUCCEEDED", "FAILED", "DIAGNOSIS_FAILED"} => UNCHANGED status[s]
       /\ lastOutcome[s] = "CLOSED" => UNCHANGED <<status[s], lastOutcome[s]>>
       /\ status[s] \in LOCAL_TERMINAL_STATUSES => status'[s] \in LOCAL_TERMINAL_STATUSES]_vars

\* The detailed design implements the lifecycle AIOps sees.
Lifecycle == INSTANCE SessionLifecycle WITH live <- [s \in Sessions |-> Live(s)]
ImplementsLifecycle == Lifecycle!Spec

-----------------------------------------------------------------------------
(* Why the safety properties hold: an invariant that every step keeps.     *)

Launching == {"checking", "launching", "registering"}

\* Each pc that holds a lock, and nothing else, holds it.
GateOwned ==
  /\ \A s \in Sessions : (gate = s) <=> pc[s] \in Launching
  /\ \A h \in Handlers : (gate = h) <=> cpc[h] \in {"closeheld", "killing"}
  /\ (gate = Killer) <=> kpc # "idle"

\* A restart leaves nobody at work, and no process that is not lost.
RestartIsEmpty ==
  phase = "recovering" =>
    /\ gate = Nobody
    /\ \A s \in Sessions : pc[s] = "idle" /\ ~Live(s)
    /\ \A h \in Handlers : cpc[h] = "idle"

\* What a run thread knows at each pc.
RunKnows ==
  \A s \in Sessions :
    /\ pc[s] = "accepting" => status[s] = "NONE"
    /\ pc[s] \in {"accepting", "granted", "claiming", "spawning", "checking",
                       "launching", "persisting"} =>
         proc[s] # "running" /\ ~registered[s]
    /\ pc[s] \in {"launching", "registering"} => ~killSwitch
    /\ pc[s] = "launching" => status[s] \in Running
    /\ pc[s] = "persisting" => aim[s] \in Results(kind[s])
    /\ pc[s] = "overwriting" => aim[s] \in {"DIAGNOSIS_FAILED", "MANUAL_INTERVENTION"}
    /\ \/ pc[s] = "failing" /\ aim[s] = "unspawned"
       \/ pc[s] = "overwriting" /\ aim[s] = "DIAGNOSIS_FAILED"
       => proc[s] # "running"

\* What the journal says of the process.
JournalKnows ==
  \A s \in Sessions :
    /\ status[s] = "NONE" =>
         proc[s] # "running" /\ ~registered[s] /\ pc[s] \in {"idle", "accepting"}
    /\ status[s] \in Waiting => ~registered[s]

\* What a stop knows at each pc: once it has killed, no process of the session
\* works and none is about to start.
StopKnows ==
  \A h \in Handlers :
    /\ cpc[h] # "idle" => command[h] \in Commands
    /\ cpc[h] \in {"gating", "killing", "stopped", "sealing"} => cancelReq[Target(h)]
    /\ cpc[h] \in {"stopped", "sealing"} =>
         /\ pc[Target(h)] \notin {"launching", "registering"}
         /\ ~Live(Target(h))
         /\ had[h] => proc[Target(h)] # "running"

\* What the kill switch knows once it has killed.
KillKnows ==
  /\ kpc = "marking" => \A s \in Sessions : ~Live(s)
  /\ \A s \in Sessions :
       plan[s] \in {"stopped", "CANCELLED"} =>
         kpc = "marking" /\ proc[s] # "running"

\* A run that has claimed its session and has not ended yet.
Claimed == RunPCs \ {"idle", "accepting", "granted", "claiming"}

\* A run whose process could not be started.
Unspawned(s) ==
  \/ pc[s] = "failing" /\ aim[s] = "unspawned"
  \/ pc[s] = "overwriting" /\ aim[s] = "DIAGNOSIS_FAILED"

\* How a run and its journal fit: only a verdict of others can come in between.
RunFits ==
  \A s \in Sessions :
    /\ pc[s] = "accepting" => kind[s] = "diagnosis"
    /\ pc[s] \in {"granted", "claiming"} => kind[s] \in Grants
    /\ pc[s] \in Claimed => status[s] \in {ActiveStatus(kind[s])} \cup Goals

\* A session that AIOps has closed stays closed: a run that still may start finds so.
ClosedFits ==
  \A s \in Sessions :
    lastOutcome[s] = "CLOSED" =>
      status[s] \in Goals /\ pc[s] \in {"idle", "granted", "claiming"}

\* Nobody holds a run to be stopped that had no process: its verdict is uncertain.
UnspawnedFits ==
  \A s \in Sessions :
    Unspawned(s) =>
      /\ ~registered[s] /\ plan[s] \notin {"stopped", "CANCELLED"}
      /\ status[s] \in {ActiveStatus(kind[s]), "MANUAL_INTERVENTION"}
      /\ pc[s] = "overwriting" => kind[s] = "diagnosis"
StoppedFits ==
  \A h \in Handlers :
    had[h] => cpc[h] \in {"killing", "stopped", "sealing"} /\ ~Unspawned(Target(h))

\* A run that may still start an execution has a grant no execution was paid with.
Unspent(s) ==
  /\ pc[s] \in {"granted", "claiming", "spawning", "checking", "launching"}
  /\ kind[s] \in Grants
GrantsUnspent ==
  \A s \in Sessions :
    executions[s] + (IF Unspent(s) THEN 1 ELSE 0) <= Cardinality(granted[s])

OwnershipInv ==
  /\ TypeOK
  /\ GateOwned /\ RestartIsEmpty /\ RunKnows /\ JournalKnows /\ StopKnows /\ KillKnows
  /\ LiveIsReachable /\ SettledIsQuiet /\ KillSwitchQuiet
  /\ RunFits /\ ClosedFits /\ UnspawnedFits /\ StoppedFits
  /\ RunningHasThread /\ GrantsUnspent

-----------------------------------------------------------------------------
(* Liveness, under FairSpec.                                               *)

\* A running session does not stay running: its run ends, is stopped, killed,
\* timed out, or recovered after a crash.
RunningSettles ==
  \A s \in Sessions : status[s] \in Running ~> status[s] \notin Running

\* A control request is answered: whoever holds the gate gives it back, and no
\* two actors wait for each other's locks.
ControlReturns ==
  \A h \in Handlers : cpc[h] # "idle" ~> cpc[h] = "idle"

-----------------------------------------------------------------------------
(* Statements of the documents that the code does not keep.                *)

\* Contract, section 4: "terminal statuses cannot be overwritten".  The CANCELLED
\* that a confirmed stop has sealed and reported stays.
ConfirmedStopIsFinal ==
  [][\A s \in Sessions :
       status[s] = "CANCELLED" /\ lastOutcome[s] = "STOPPED_CONFIRMED" =>
         UNCHANGED status[s]]_vars

\* Contract, section 4, and the comment of _may_start_remote_process: a confirmed
\* stop says the command result is certain, so no remote command was started.
ConfirmedStopIsCertain ==
  \A s \in Sessions : lastOutcome[s] = "STOPPED_CONFIRMED" => ~remoteRan[s]
=============================================================================
