-------------------------- MODULE InspectionBatch --------------------------
(***************************************************************************)
(* Inspection batches (inspection.py): the batch file with its targets,    *)
(* the thread that runs a batch and its pool of workers, cancellation,     *)
(* proposal generation from a finished inspection, and recovery.           *)
(*                                                                         *)
(* Every target is inspected in a session of its own, so targets are named *)
(* by their sessions.  The worker of a session is named by the session,    *)
(* too; a proposer is the thread that generates one proposal.  A canceller *)
(* is the HTTP thread of a cancel request.                                 *)
(*                                                                         *)
(* Locks.  gate is the manager's _gate; lifecycle is the orchestrator's    *)
(* _lifecycle_gate.  Both block.  The session's file lock does not: it is  *)
(* held while a thread is "checking", and for an instant by the steps of a *)
(* cancel and of the kill switch (Contended).  The batch file and the      *)
(* session journal have a mutex each: every update is one step.            *)
(***************************************************************************)
EXTENDS Naturals, FiniteSets

CONSTANTS
  Batches, Sessions, Proposers, Cancellers, Killer, Nobody,
  BatchOf,       \* the batch of each target
  Clusters,      \* the targets that are Kubernetes clusters, not Linux hosts
  Concurrency,   \* effective_concurrency of every batch
  MaxCancels,    \* bound: cancel requests
  MaxCrashes,    \* bound: crashes of the runner process
  MayKill        \* may the administrator activate the kill switch?

Threads == Sessions \cup Proposers

ASSUME ThreadsAssumption ==
  /\ Sessions \cap Proposers = {}
  /\ (Sessions \cup Proposers) \cap Cancellers = {}
  /\ {Killer, Nobody} \cap (Sessions \cup Proposers \cup Cancellers) = {}
  /\ Killer # Nobody
ASSUME TargetsAssumption ==
  /\ BatchOf \in [Sessions -> Batches]
  /\ Clusters \subseteq Sessions
  /\ Nobody \notin Batches
ASSUME BoundsAssumption ==
  /\ Concurrency \in Nat \ {0}
  /\ MaxCancels \in Nat
  /\ MaxCrashes \in Nat
  /\ MayKill \in BOOLEAN

\* WARNING stands for CRITICAL too: both are actionable.
VALID_REPORT == {"HEALTHY", "WARNING", "UNKNOWN"}
TERMINAL == VALID_REPORT \cup {"FAILED", "CANCELLED"}
TERMINAL_BATCH_STATUSES == {"SUCCEEDED", "PARTIAL_SUCCESS", "FAILED", "CANCELLED"}
ActiveBatch == {"PREPARING", "RUNNING"}
FailureStatus == {"UNKNOWN", "FAILED"}

\* The statuses the journal of an inspection's session goes through.
SessionStatus ==
  {"NONE", "DIAGNOSING", "INSPECTION_COMPLETED", "DIAGNOSIS_ONLY",
   "PROPOSAL_GENERATING", "PENDING_APPROVAL", "MANUAL_INTERVENTION", "CANCELLED"}
Running == {"DIAGNOSING", "PROPOSAL_GENERATING"}
ACTIVE_STATUSES == Running \cup {"PENDING_APPROVAL"}

-----------------------------------------------------------------------------
VARIABLES
  \* on disk: the batch file, the session journal, the kill switch
  batch,       \* status of the batch, "NONE" before it is created
  target,      \* status of each target
  status, cancelReq,
  killSwitch,
  \* the Claude process of each thread
  proc,        \* "none", "running", "exited" by itself, or "killed" under its run
  \* memory
  phase,       \* "up" or "down"
  cancelled,   \* _cancelled
  gate, lifecycle,
  registered,  \* ProcessRegistry: whose process is registered for the session
  bpc,         \* the thread of each batch
  pc,          \* each worker and proposer
  retried,     \* the worker is in its second, format-only run
  verdict,     \* the target status the worker is about to publish
  about,       \* the session each proposer works on
  cpc, job, todo, cur, stopped,  \* cancellers
  kpc, plan,   \* the kill switch call: of each session what it will be marked
  cancels, crashes

disk     == <<batch, target, status, cancelReq, killSwitch>>
work     == <<pc, retried, verdict, about>>
cancel   == <<cpc, job, todo, cur, stopped>>
kill     == <<kpc, plan>>
bounds   == <<cancels, crashes>>
vars     == <<disk, proc, phase, cancelled, gate, lifecycle, registered, bpc,
              work, cancel, kill, bounds>>

Subject(t) == IF t \in Sessions THEN t ELSE about[t]
TargetsOf(b) == {s \in Sessions : BatchOf[s] = b}

DiskType ==
  /\ batch \in [Batches -> {"NONE"} \cup ActiveBatch \cup TERMINAL_BATCH_STATUSES]
  /\ target \in [Sessions -> {"NONE", "QUEUED", "DIAGNOSING"} \cup TERMINAL]
  /\ status \in [Sessions -> SessionStatus]
  /\ cancelReq \in [Sessions -> BOOLEAN]
  /\ killSwitch \in BOOLEAN
ProcessType ==
  /\ proc \in [Threads -> {"none", "running", "exited", "killed"}]
  /\ phase \in {"up", "down"}
  /\ registered \in [Sessions -> Threads \cup {Nobody}]
  /\ bpc \in [Batches -> {"none", "starting", "pooling"}]
  /\ pc \in [Threads -> {"none", "submitted", "creating", "claiming", "spawning",
                         "checking", "registering", "streaming", "reporting",
                         "fallback", "failing", "publishing", "proposing"}]
WorkType ==
  /\ gate \in Sessions \cup Cancellers \cup {Nobody}
  /\ lifecycle \in Threads \cup {Killer, Nobody}
  /\ retried \in [Sessions -> BOOLEAN]
  /\ verdict \in [Sessions -> {"none"} \cup (TERMINAL \ {"CANCELLED"})]
  /\ about \in [Proposers -> Sessions \cup {Nobody}]
ControlType ==
  /\ cancelled \subseteq Batches
  /\ cpc \in [Cancellers -> {"idle", "claiming", "killing", "sealing"}]
  /\ job \in [Cancellers -> Batches \cup {Nobody}]
  /\ todo \in [Cancellers -> SUBSET Sessions]
  /\ cur \in [Cancellers -> Sessions \cup {Nobody}]
  /\ stopped \in [Cancellers -> BOOLEAN]
  /\ kpc \in {"idle", "claiming", "marking"}
  /\ plan \in [Sessions -> {"none", "stopped", "unstopped", "CANCELLED",
                            "MANUAL_INTERVENTION"}]
  /\ cancels \in Nat
  /\ crashes \in Nat
TypeOK == DiskType /\ ProcessType /\ WorkType /\ ControlType

Init ==
  /\ batch = [b \in Batches |-> "NONE"]
  /\ target = [s \in Sessions |-> "NONE"]
  /\ status = [s \in Sessions |-> "NONE"]
  /\ cancelReq = [s \in Sessions |-> FALSE]
  /\ killSwitch = FALSE
  /\ proc = [t \in Threads |-> "none"]
  /\ phase = "up"
  /\ cancelled = {}
  /\ gate = Nobody
  /\ lifecycle = Nobody
  /\ registered = [s \in Sessions |-> Nobody]
  /\ pc = [t \in Threads |-> "none"]
  /\ retried = [s \in Sessions |-> FALSE]
  /\ verdict = [s \in Sessions |-> "none"]
  /\ cpc = [h \in Cancellers |-> "idle"]
  /\ job = [h \in Cancellers |-> Nobody]
  /\ todo = [h \in Cancellers |-> {}]
  /\ cur = [h \in Cancellers |-> Nobody]
  /\ stopped = [h \in Cancellers |-> FALSE]
  /\ kpc = "idle"
  /\ plan = [s \in Sessions |-> "none"]
  /\ bpc = [b \in Batches |-> "none"]
  /\ about = [p \in Proposers |-> Nobody]
  /\ cancels = 0
  /\ crashes = 0

-----------------------------------------------------------------------------
(* The batch thread: create and _run_batch.                                *)

\* create holds the gate throughout.  A known key or batch_id only answers the
\* record; an active batch answers TRUSTED_INSPECTION_BATCH_ACTIVE.
Creatable(b) ==
  /\ batch[b] = "NONE"
  /\ \A c \in Batches : batch[c] \notin ActiveBatch

Create(b) ==
  /\ phase = "up" /\ gate = Nobody
  /\ Creatable(b)
  /\ batch' = [batch EXCEPT ![b] = "PREPARING"]
  /\ target' = [s \in Sessions |-> IF BatchOf[s] = b THEN "QUEUED" ELSE target[s]]
  /\ bpc' = [bpc EXCEPT ![b] = "starting"]
  /\ UNCHANGED <<status, cancelReq, killSwitch, proc, phase, cancelled, gate,
                 lifecycle, registered, work, cancel, kill, bounds>>

\* RUNNING is written whatever the batch is, and without the gate.  The targets
\* handed to the pool are those of the very same snapshot.
RunStart(b) ==
  /\ phase = "up" /\ bpc[b] = "starting"
  /\ batch' = [batch EXCEPT ![b] = "RUNNING"]
  /\ pc' = [t \in Threads |->
              IF t \in TargetsOf(b) /\ target[t] = "QUEUED" THEN "submitted" ELSE pc[t]]
  /\ bpc' = [bpc EXCEPT ![b] = "pooling"]
  /\ UNCHANGED <<target, status, cancelReq, killSwitch, proc, phase, cancelled, gate,
                 lifecycle, registered, retried, verdict, about, cancel, kill, bounds>>

Finished(b) ==
  LET statuses == {target[s] : s \in TargetsOf(b)} IN
  IF batch[b] = "CANCELLED" THEN "CANCELLED"
  ELSE IF statuses \subseteq VALID_REPORT THEN "SUCCEEDED"
  ELSE IF statuses \cap VALID_REPORT # {} THEN "PARTIAL_SUCCESS" ELSE "FAILED"

\* Mutant: the first worker that returns ends the batch.
PoolHasResult(b) == \E s \in TargetsOf(b) : pc[s] = "none"

\* The pool is left once every worker has returned.
PoolDone(b) == \A s \in TargetsOf(b) : pc[s] = "none"

RunFinish(b) ==
  /\ phase = "up" /\ bpc[b] = "pooling"
  /\ PoolDone(b)
  /\ batch' = [batch EXCEPT ![b] = Finished(b)]
  /\ bpc' = [bpc EXCEPT ![b] = "none"]
  /\ UNCHANGED <<target, status, cancelReq, killSwitch, proc, phase, cancelled, gate,
                 lifecycle, registered, work, cancel, kill, bounds>>

-----------------------------------------------------------------------------
(* A worker: _inspect_target, and _inspect_kubernetes_target which holds   *)
(* the gate to its end.                                                    *)

At(t, at) == phase = "up" /\ pc[t] = at
Go(t, at) == pc' = [pc EXCEPT ![t] = at]

\* Mutant: the worker's outcome always wins.
OverwriteTarget(s, v) == [target EXCEPT ![s] = v]

\* Cancellation is terminal for the target.
UpdateTarget(s, v) ==
  [target EXCEPT ![s] = IF @ = "CANCELLED" THEN @ ELSE v]

Taken(s) ==
  /\ At(s, "submitted") /\ gate = Nobody
  /\ Cardinality({r \in TargetsOf(BatchOf[s]) : pc[r] \notin {"none", "submitted"}})
       < Concurrency

InspectSkip(s) ==
  /\ Taken(s) /\ BatchOf[s] \in cancelled
  /\ Go(s, "none")
  /\ UNCHANGED <<disk, proc, phase, cancelled, gate, lifecycle, registered, bpc,
                 retried, verdict, about, cancel, kill, bounds>>

\* The target's SSH profile cannot be read.
InspectRefuse(s) ==
  /\ Taken(s) /\ BatchOf[s] \notin cancelled /\ s \notin Clusters
  /\ \E v \in FailureStatus : target' = UpdateTarget(s, v)
  /\ Go(s, "none")
  /\ UNCHANGED <<batch, status, cancelReq, killSwitch, proc, phase, cancelled, gate,
                 lifecycle, registered, bpc, retried, verdict, about, cancel, kill,
                 bounds>>

InspectClaim(s) ==
  /\ Taken(s) /\ BatchOf[s] \notin cancelled
  /\ target' = UpdateTarget(s, "DIAGNOSING")
  /\ gate' = s
  /\ Go(s, "creating")
  /\ UNCHANGED <<batch, status, cancelReq, killSwitch, proc, phase, cancelled,
                 lifecycle, registered, bpc, retried, verdict, about, cancel, kill,
                 bounds>>

\* A cluster's checks and then its journal, a host's journal at once.
InspectCreate(s) ==
  /\ At(s, "creating")
  /\ status' = [status EXCEPT ![s] = "DIAGNOSING"]
  /\ gate' = IF s \in Clusters THEN gate ELSE Nobody
  /\ Go(s, "spawning")
  /\ UNCHANGED <<batch, target, cancelReq, killSwitch, proc, phase, cancelled,
                 lifecycle, registered, bpc, retried, verdict, about, cancel, kill,
                 bounds>>

\* The checks or the journal fail, the latter before or after its file exists.
InspectCreateFails(s) ==
  /\ At(s, "creating")
  /\ status' \in {status, [status EXCEPT ![s] = "DIAGNOSING"]}
  /\ \E v \in FailureStatus : target' = UpdateTarget(s, v)
  /\ gate' = Nobody
  /\ Go(s, "none")
  /\ UNCHANGED <<batch, cancelReq, killSwitch, proc, phase, cancelled, lifecycle,
                 registered, bpc, retried, verdict, about, cancel, kill, bounds>>

\* The journal is written whatever the session has become meanwhile.
InspectReport(s) ==
  /\ At(s, "reporting") \/ At(s, "fallback")
  /\ status' = [status EXCEPT ![s] = "INSPECTION_COMPLETED"]
  /\ \E v \in IF pc[s] = "fallback" THEN {"UNKNOWN"} ELSE VALID_REPORT :
       verdict' = [verdict EXCEPT ![s] = v]
  /\ Go(s, "publishing")
  /\ UNCHANGED <<batch, target, cancelReq, killSwitch, proc, phase, cancelled, gate,
                 lifecycle, registered, bpc, retried, about, cancel, kill, bounds>>

InspectFail(s) ==
  /\ At(s, "failing")
  /\ status' = [status EXCEPT ![s] = "DIAGNOSIS_ONLY"]
  /\ \E v \in FailureStatus : verdict' = [verdict EXCEPT ![s] = v]
  /\ Go(s, "publishing")
  /\ UNCHANGED <<batch, target, cancelReq, killSwitch, proc, phase, cancelled, gate,
                 lifecycle, registered, bpc, retried, about, cancel, kill, bounds>>

InspectPublish(s) ==
  /\ At(s, "publishing")
  /\ target' = UpdateTarget(s, verdict[s])
  /\ verdict' = [verdict EXCEPT ![s] = "none"]
  /\ retried' = [retried EXCEPT ![s] = FALSE]
  /\ gate' = IF gate = s THEN Nobody ELSE gate
  /\ Go(s, "none")
  /\ UNCHANGED <<batch, status, cancelReq, killSwitch, proc, phase, cancelled,
                 lifecycle, registered, bpc, about, cancel, kill, bounds>>

-----------------------------------------------------------------------------
(* ClaudeSessionAdapter.run, as workers and proposers call it.             *)

\* Where thread t goes on after a run that ended with outcome o: a report or a
\* proposal ("ok"), an ending without a valid one or with the command budget
\* spent ("noreport"), or an exception ("error").
After(t, o) ==
  IF t \in Proposers THEN {IF o = "ok" THEN "proposing" ELSE "failing"}
  ELSE IF o = "noreport" /\ ~retried[t] THEN {"spawning"}
  ELSE IF t \in Clusters THEN {"reporting"}
  ELSE IF o = "ok" THEN {"reporting", "failing"}
  ELSE IF o = "noreport" \/ (retried[t] /\ BatchOf[t] \notin cancelled) THEN {"fallback"}
  ELSE {"failing"}

\* Every run ends by unregistering its session, whoever is registered for it.
Unregister(s) == registered' = [registered EXCEPT ![s] = Nobody]
EndRun(t, o) ==
  /\ \E next \in After(t, o) : Go(t, next)
  /\ retried' = [s \in Sessions |->
                   IF s = t /\ o = "noreport" THEN TRUE ELSE retried[s]]
  /\ Unregister(Subject(t))

\* The file lock of the session may be found taken by a cancel.
Contended(s) == \E h \in Cancellers : cpc[h] \in {"claiming", "sealing"} /\ s \in todo[h]
Locked(s) == \E t \in Threads : pc[t] = "checking" /\ Subject(t) = s

SpawnEnter(t) ==
  /\ At(t, "spawning") /\ lifecycle = Nobody
  /\ lifecycle' = t
  /\ Go(t, "checking")
  /\ UNCHANGED <<disk, proc, phase, cancelled, gate, registered, bpc, retried,
                 verdict, about, cancel, kill, bounds>>

SpawnBusy(t) ==
  /\ At(t, "spawning") /\ lifecycle = Nobody /\ Contended(Subject(t))
  /\ EndRun(t, "error")
  /\ UNCHANGED <<disk, proc, phase, cancelled, gate, lifecycle, bpc, verdict, about,
                 cancel, kill, bounds>>

\* Mutant: the kill switch is looked at by the requests only.
SpawnAnyway(t) ==
  /\ status[Subject(t)] = IF t \in Proposers THEN "PROPOSAL_GENERATING" ELSE "DIAGNOSING"
  /\ ~cancelReq[Subject(t)]

\* _pre_spawn.
MaySpawn(t) ==
  /\ ~killSwitch
  /\ status[Subject(t)] = IF t \in Proposers THEN "PROPOSAL_GENERATING" ELSE "DIAGNOSING"
  /\ ~cancelReq[Subject(t)]

SpawnCheck(t) ==
  /\ At(t, "checking")
  /\ \/ /\ MaySpawn(t)
        /\ proc' = [proc EXCEPT ![t] = "running"]
        /\ Go(t, "registering")
        /\ UNCHANGED <<lifecycle, retried, registered>>
     \/ /\ ~MaySpawn(t)
        /\ lifecycle' = Nobody
        /\ EndRun(t, "error")
        /\ UNCHANGED proc
  /\ UNCHANGED <<disk, phase, cancelled, gate, bpc, verdict, about, cancel, kill,
                 bounds>>

\* registry.register and record_process: a failure of either kills the process.
MayRegister(t) ==
  /\ registered[Subject(t)] = Nobody
  /\ ~killSwitch
  /\ ~cancelReq[Subject(t)]
  /\ status[Subject(t)] \in Running

Register(t) ==
  /\ At(t, "registering")
  /\ lifecycle' = Nobody
  /\ \/ /\ MayRegister(t)
        /\ registered' = [registered EXCEPT ![Subject(t)] = t]
        /\ Go(t, "streaming")
        /\ UNCHANGED <<proc, retried>>
     \/ /\ ~MayRegister(t)
        /\ proc' = [proc EXCEPT ![t] = "none"]
        /\ EndRun(t, "error")
  /\ UNCHANGED <<disk, phase, cancelled, gate, bpc, verdict, about, cancel, kill,
                 bounds>>

\* Mutant: the process is forgotten, not killed.
Forgotten(ss) == proc

\* registry.cancel: kills the process registered for the session.
Killed(ss) == [t \in Threads |->
  IF proc[t] = "running" /\ \E s \in ss : registered[s] = t THEN "killed" ELSE proc[t]]

\* An exit before the registration is not noticed there: it may as well be later.
ChildExits(t) ==
  /\ proc[t] = "running" /\ pc[t] # "registering"
  /\ proc' = [proc EXCEPT ![t] = IF pc[t] = "streaming" THEN "exited" ELSE "none"]
  /\ UNCHANGED <<disk, phase, cancelled, gate, lifecycle, registered, bpc, work,
                 cancel, kill, bounds>>

\* The stream of a process that has ended, or the run gives up on a live one:
\* timeout, command budget, provider failure or an event that cannot be kept.
RunEnds(t) ==
  /\ At(t, "streaming")
  /\ \E o \in {"ok", "noreport", "error"} :
       /\ o = "ok" => proc[t] = "exited"
       /\ o = "noreport" => \/ proc[t] = "exited"
                            \/ proc[t] = "running" /\ t \notin Clusters \cup Proposers
                               /\ ~retried[t]
       /\ EndRun(t, o)
  /\ proc' = IF proc[t] = "running" /\ registered[Subject(t)] # t
             THEN Killed({Subject(t)}) ELSE [proc EXCEPT ![t] = "none"]
  /\ UNCHANGED <<disk, phase, cancelled, gate, lifecycle, bpc, verdict, about,
                 cancel, kill, bounds>>

-----------------------------------------------------------------------------
(* Proposers: generate_proposal and its thread.                            *)

\* Mutant: the report's status is not looked at.
ActionableSession(s) == s \notin Clusters /\ status[s] = "INSPECTION_COMPLETED"

Actionable(s) ==
  /\ s \notin Clusters
  /\ target[s] = "WARNING"
  /\ status[s] = "INSPECTION_COMPLETED"

\* The request reads the batch and the journal, and then writes the journal.
ProposeRead(p, s) ==
  /\ At(p, "none") /\ proc[p] # "running"
  /\ Actionable(s)
  /\ about' = [about EXCEPT ![p] = s]
  /\ Go(p, "claiming")
  /\ UNCHANGED <<disk, proc, phase, cancelled, gate, lifecycle, registered, bpc,
                 retried, verdict, cancel, kill, bounds>>

ProposeClaim(p) ==
  /\ At(p, "claiming")
  /\ status' = [status EXCEPT ![about[p]] = "PROPOSAL_GENERATING"]
  /\ Go(p, "spawning")
  /\ UNCHANGED <<batch, target, cancelReq, killSwitch, proc, phase, cancelled, gate,
                 lifecycle, registered, bpc, retried, verdict, about, cancel, kill,
                 bounds>>

\* Either outcome is written whatever the session has become.  A proposal may
\* still fail to bind, and the SSH profile is read before the run.
ProposeEnd(p) ==
  /\ \/ At(p, "proposing") /\ status' = [status EXCEPT ![about[p]] = "PENDING_APPROVAL"]
     \/ /\ At(p, "proposing") \/ At(p, "failing") \/ At(p, "spawning")
        /\ status' = [status EXCEPT ![about[p]] = "MANUAL_INTERVENTION"]
  /\ about' = [about EXCEPT ![p] = IF proc[p] = "running" THEN @ ELSE Nobody]
  /\ Go(p, "none")
  /\ UNCHANGED <<batch, target, cancelReq, killSwitch, proc, phase, cancelled, gate,
                 lifecycle, registered, bpc, retried, verdict, cancel, kill, bounds>>

-----------------------------------------------------------------------------
(* Cancellation of a batch: cancel, with orchestrator.cancel per target.   *)

ControlAt(h, at) == phase = "up" /\ cpc[h] = at

\* Mutant: the targets are marked, their processes are left alone.
MarkOnly(b) == {}

ToCancel(b) == {s \in TargetsOf(b) : target[s] = "DIAGNOSING"}

CancelBegin(h, b) ==
  /\ ControlAt(h, "idle") /\ gate = Nobody /\ cancels < MaxCancels
  /\ batch[b] \in ActiveBatch
  /\ cancels' = cancels + 1
  /\ cancelled' = cancelled \cup {b}
  /\ gate' = h
  /\ job' = [job EXCEPT ![h] = b]
  /\ todo' = [todo EXCEPT ![h] = ToCancel(b)]
  /\ cpc' = [cpc EXCEPT ![h] = "claiming"]
  /\ UNCHANGED <<disk, proc, phase, lifecycle, registered, bpc, work, cur, stopped,
                 kill, crashes>>

CancelClaim(h, s) ==
  /\ ControlAt(h, "claiming") /\ s \in todo[h]
  /\ ~Locked(s) /\ status[s] # "NONE"
  /\ \/ /\ status[s] \in ACTIVE_STATUSES
        /\ cancelReq' = [cancelReq EXCEPT ![s] = TRUE]
        /\ cur' = [cur EXCEPT ![h] = s]
        /\ cpc' = [cpc EXCEPT ![h] = "killing"]
        /\ UNCHANGED todo
     \/ /\ status[s] \notin ACTIVE_STATUSES
        /\ todo' = [todo EXCEPT ![h] = @ \ {s}]
        /\ UNCHANGED <<cancelReq, cur, cpc>>
  /\ UNCHANGED <<batch, target, status, killSwitch, proc, phase, cancelled, gate,
                 lifecycle, registered, bpc, work, job, stopped, kill, bounds>>

CancelKill(h) ==
  /\ ControlAt(h, "killing") /\ lifecycle = Nobody
  /\ stopped' = [stopped EXCEPT ![h] = registered[cur[h]] # Nobody]
  /\ proc' = Killed({cur[h]})
  /\ Unregister(cur[h])
  /\ cpc' = [cpc EXCEPT ![h] = "sealing"]
  /\ UNCHANGED <<disk, phase, cancelled, gate, lifecycle, bpc, work, job, todo, cur,
                 kill, bounds>>

\* What a stopped process had done to its target is open.
CancelSeal(h) ==
  /\ ControlAt(h, "sealing") /\ ~Locked(cur[h])
  /\ LET s == cur[h] IN
       /\ \E v \in {"CANCELLED", "MANUAL_INTERVENTION"} :
            /\ v = "CANCELLED" => stopped[h]
            /\ status' = IF status[s] \in ACTIVE_STATUSES /\ cancelReq[s]
                         THEN [status EXCEPT ![s] = v] ELSE status
       /\ todo' = [todo EXCEPT ![h] = @ \ {s}]
  /\ cur' = [cur EXCEPT ![h] = Nobody]
  /\ stopped' = [stopped EXCEPT ![h] = FALSE]
  /\ cpc' = [cpc EXCEPT ![h] = "claiming"]
  /\ UNCHANGED <<batch, target, cancelReq, killSwitch, proc, phase, cancelled, gate,
                 lifecycle, registered, bpc, work, job, kill, bounds>>

EndCancel(h) ==
  /\ gate' = Nobody
  /\ cpc' = [cpc EXCEPT ![h] = "idle"]
  /\ job' = [job EXCEPT ![h] = Nobody]
  /\ todo' = [todo EXCEPT ![h] = {}]
  /\ cur' = [cur EXCEPT ![h] = Nobody]
  /\ stopped' = [stopped EXCEPT ![h] = FALSE]

\* A session's lock is taken: the request fails, the batch stays in _cancelled.
CancelBusy(h) ==
  /\ \E s \in todo[h] :
       /\ ControlAt(h, "claiming") \/ (ControlAt(h, "sealing") /\ s = cur[h])
       /\ Locked(s) \/ kpc # "idle" \/ status[s] = "NONE"
  /\ EndCancel(h)
  /\ UNCHANGED <<disk, proc, phase, cancelled, lifecycle, registered, bpc, work, kill,
                 bounds>>

\* _mark_cancelled.
MarkCancelled(b) ==
  [s \in Sessions |->
     IF BatchOf[s] = b /\ target[s] \notin TERMINAL THEN "CANCELLED" ELSE target[s]]

CancelMark(h) ==
  /\ ControlAt(h, "claiming") /\ todo[h] = {}
  /\ target' = MarkCancelled(job[h])
  /\ batch' = [batch EXCEPT ![job[h]] = "CANCELLED"]
  /\ EndCancel(h)
  /\ UNCHANGED <<status, cancelReq, killSwitch, proc, phase, cancelled, lifecycle,
                 registered, bpc, work, kill, bounds>>

-----------------------------------------------------------------------------
(* The kill switch of the orchestrator, which holds lifecycle throughout.  *)

KillArm ==
  /\ MayKill /\ phase = "up" /\ lifecycle = Nobody /\ ~killSwitch
  /\ lifecycle' = Killer
  /\ killSwitch' = TRUE
  /\ plan' = [s \in Sessions |-> IF registered[s] # Nobody THEN "stopped" ELSE "unstopped"]
  /\ proc' = Killed(Sessions)
  /\ registered' = [s \in Sessions |-> Nobody]
  /\ kpc' = "claiming"
  /\ UNCHANGED <<batch, target, status, cancelReq, phase, cancelled, gate, bpc, work,
                 cancel, bounds>>

\* Both loops skip a session whose lock is taken.
KillClaim ==
  /\ phase = "up" /\ kpc = "claiming"
  /\ \E skipped \in SUBSET {s \in Sessions : Contended(s)} :
     \E certain \in SUBSET {s \in Sessions : plan[s] = "stopped"} :
       LET claimed == {s \in Sessions \ skipped : status[s] \in ACTIVE_STATUSES} IN
       /\ cancelReq' = [s \in Sessions |-> s \in claimed \/ cancelReq[s]]
       /\ plan' = [s \in Sessions |->
            IF s \notin claimed THEN "none"
            ELSE IF s \in certain \/ status[s] = "PENDING_APPROVAL" THEN "CANCELLED"
            ELSE "MANUAL_INTERVENTION"]
  /\ kpc' = "marking"
  /\ UNCHANGED <<batch, target, status, killSwitch, proc, phase, cancelled, gate,
                 lifecycle, registered, bpc, work, cancel, bounds>>

KillMark ==
  /\ phase = "up" /\ kpc = "marking"
  /\ \E skipped \in SUBSET {s \in Sessions : Contended(s)} :
       status' = [s \in Sessions |->
         IF plan[s] # "none" /\ s \notin skipped
            /\ status[s] \in ACTIVE_STATUSES /\ cancelReq[s]
         THEN plan[s] ELSE status[s]]
  /\ plan' = [s \in Sessions |-> "none"]
  /\ lifecycle' = Nobody
  /\ kpc' = "idle"
  /\ UNCHANGED <<batch, target, cancelReq, killSwitch, proc, phase, cancelled, gate,
                 registered, bpc, work, cancel, bounds>>

-----------------------------------------------------------------------------
(* The runner process dies and starts again.                               *)

Crash ==
  /\ phase = "up" /\ crashes < MaxCrashes
  /\ crashes' = crashes + 1
  /\ phase' = "down"
  /\ cancelled' = {}
  /\ gate' = Nobody
  /\ lifecycle' = Nobody
  /\ registered' = [s \in Sessions |-> Nobody]
  /\ pc' = [t \in Threads |-> "none"]
  /\ retried' = [s \in Sessions |-> FALSE]
  /\ verdict' = [s \in Sessions |-> "none"]
  /\ cpc' = [h \in Cancellers |-> "idle"]
  /\ job' = [h \in Cancellers |-> Nobody]
  /\ todo' = [h \in Cancellers |-> {}]
  /\ cur' = [h \in Cancellers |-> Nobody]
  /\ stopped' = [h \in Cancellers |-> FALSE]
  /\ kpc' = "idle"
  /\ plan' = [s \in Sessions |-> "none"]
  /\ bpc' = [b \in Batches |-> "none"]
  /\ about' = [p \in Proposers |-> IF proc[p] = "running" THEN about[p] ELSE Nobody]
  /\ proc' = [t \in Threads |-> IF proc[t] = "running" THEN "running" ELSE "none"]
  /\ UNCHANGED <<disk, cancels>>

\* Mutant: proposals are forgotten by recovery.
Diagnosing == {s \in Sessions : status[s] = "DIAGNOSING"}

Interrupted == {s \in Sessions : status[s] \in Running}

\* recover_active_as_uncertain, and then _recover of one active batch, the first
\* that a listing of the directory yields.
RecoverSessions ==
  /\ status' = [s \in Sessions |->
                  IF s \in Interrupted THEN "MANUAL_INTERVENTION" ELSE status[s]]
  /\ proc' = [t \in Threads |->
                IF proc[t] = "running" /\ Subject(t) \in Interrupted THEN "none"
                ELSE proc[t]]

\* Mutant: the batch is corrected on disk and never run on.
RecoverTargets(b) ==
  /\ target' = [s \in Sessions |->
       IF BatchOf[s] = b /\ target[s] = "DIAGNOSING" THEN "UNKNOWN" ELSE target[s]]
  /\ UNCHANGED bpc

RecoverBatch(b) ==
  /\ target' = [s \in Sessions |->
       IF BatchOf[s] = b /\ target[s] = "DIAGNOSING" THEN "UNKNOWN" ELSE target[s]]
  /\ bpc' = [bpc EXCEPT ![b] = "starting"]

Recover ==
  /\ phase = "down"
  /\ phase' = "up"
  /\ RecoverSessions
  /\ IF \E b \in Batches : batch[b] \in ActiveBatch
     THEN \E b \in Batches : batch[b] \in ActiveBatch /\ RecoverBatch(b)
     ELSE UNCHANGED <<target, bpc>>
  /\ UNCHANGED <<batch, cancelReq, killSwitch, cancelled, gate, lifecycle, registered,
                 work, cancel, kill, bounds>>

-----------------------------------------------------------------------------
Worker(s) ==
  \/ InspectSkip(s) \/ InspectRefuse(s) \/ InspectClaim(s)
  \/ InspectCreate(s) \/ InspectCreateFails(s)
  \/ InspectReport(s) \/ InspectFail(s) \/ InspectPublish(s)
Run(t) ==
  SpawnEnter(t) \/ SpawnBusy(t) \/ SpawnCheck(t) \/ Register(t) \/ RunEnds(t)
CancelStep(h) ==
  \/ \E s \in Sessions : CancelClaim(h, s)
  \/ CancelKill(h) \/ CancelSeal(h) \/ CancelBusy(h) \/ CancelMark(h)
BatchThread(b) == RunStart(b) \/ RunFinish(b)
Proposer(p) == ProposeClaim(p) \/ ProposeEnd(p)
KillStep == KillClaim \/ KillMark

Next ==
  \/ \E b \in Batches : Create(b) \/ BatchThread(b)
  \/ \E s \in Sessions : Worker(s)
  \/ \E t \in Threads : Run(t) \/ ChildExits(t)
  \/ \E p \in Proposers : Proposer(p) \/ \E s \in Sessions : ProposeRead(p, s)
  \/ \E h \in Cancellers : CancelStep(h) \/ \E b \in Batches : CancelBegin(h, b)
  \/ KillArm \/ KillStep
  \/ Crash \/ Recover

\* A thread that can go on does: it is never given up for the others.  Nothing is
\* assumed of requests, crashes or the child process, whose run ends by timeout.
Fairness ==
  /\ \A b \in Batches : WF_vars(BatchThread(b))
  /\ \A s \in Sessions : WF_vars(Worker(s))
  /\ \A t \in Threads : WF_vars(Run(t))
  /\ \A p \in Proposers : WF_vars(Proposer(p))
  /\ \A h \in Cancellers : WF_vars(CancelStep(h))
  /\ WF_vars(KillStep)
  /\ WF_vars(Recover)

Spec == Init /\ [][Next]_vars
FairSpec == Spec /\ Fairness

-----------------------------------------------------------------------------
(* Properties.                                                             *)

\* _update_target promises that cancellation is terminal for a target.  In fact
\* no outcome is ever replaced and no target is inspected again, whatever
\* workers, cancellations and restarts do: one way from QUEUED to the outcome.
TargetsMoveForward ==
  [][\A s \in Sessions : target'[s] # target[s] =>
       \/ target[s] = "NONE" /\ target'[s] = "QUEUED"
       \/ target[s] = "QUEUED" /\ target'[s] \in {"DIAGNOSING", "CANCELLED"} \cup FailureStatus
       \/ target[s] = "DIAGNOSING" /\ target'[s] \in TERMINAL]_vars

\* Once a target is reported as cancelled no Claude process inspects it.
CancelledTargetIsQuiet ==
  \A s \in Sessions : target[s] = "CANCELLED" => proc[s] # "running"

\* "At most one process of a session at a time" (agent-project-trusted/README.md).
OneProcess ==
  \A s \in Sessions :
    Cardinality({t \in Threads : Subject(t) = s /\ proc[t] = "running"}) <= 1

\* Every live process can be reached by a cancel and by the kill switch, except
\* while the launch holds the lifecycle gate that both of them wait for.
LiveIsRegistered ==
  \A t \in Threads :
    proc[t] = "running" /\ phase = "up" /\ pc[t] # "registering" =>
      registered[Subject(t)] = t

\* After the kill switch no inspection and no proposal runs.
KillSwitchQuiet == killSwitch => \A t \in Threads : proc[t] # "running"

\* The batch file and the session journal agree: an actionable report, and only
\* such a report, lets its session go on to a proposal.
ProposalsHaveReports ==
  \A s \in Sessions :
    /\ target[s] \in {"HEALTHY", "WARNING"} =>
         status[s] \notin {"NONE", "DIAGNOSING", "DIAGNOSIS_ONLY"}
    /\ status[s] \in {"PROPOSAL_GENERATING", "PENDING_APPROVAL"} =>
         target[s] = "WARNING" /\ s \notin Clusters

\* A batch that ends by itself leaves no target open, unless a cancellation of it
\* has failed and its workers were told to skip their targets.
FinishIsComplete ==
  [][\A b \in Batches :
       batch[b] = "RUNNING" /\ batch'[b] \in TERMINAL_BATCH_STATUSES /\ bpc'[b] # bpc[b] =>
         b \in cancelled \/ \A s \in TargetsOf(b) : target[s] \in TERMINAL]_vars

\* No batch is left RUNNING for ever, with nobody running it and every later
\* create refused.
BatchFinishes ==
  \A b \in Batches : batch[b] \in ActiveBatch ~> batch[b] \in TERMINAL_BATCH_STATUSES

\* A session in which a proposal is generated reaches an outcome.
ProposalSettles ==
  \A s \in Sessions : status[s] = "PROPOSAL_GENERATING" ~> status[s] # "PROPOSAL_GENERATING"

-----------------------------------------------------------------------------
(* Why the safety properties hold: an invariant that every step keeps.     *)

\* Each pc that holds a gate, and nothing else, holds it.
GateKnows ==
  /\ \A s \in Sessions :
       (gate = s) <=> \/ pc[s] = "creating"
                      \/ s \in Clusters /\ pc[s] \notin {"none", "submitted"}
  /\ \A h \in Cancellers : (gate = h) <=> (cpc[h] # "idle")
LifecycleKnows ==
  /\ \A t \in Threads : (lifecycle = t) <=> (pc[t] \in {"checking", "registering"})
  /\ (lifecycle = Killer) <=> (kpc # "idle")

\* A dead runner has nobody at work.
DownKnows ==
  phase = "down" =>
    /\ \A t \in Threads : pc[t] = "none"
    /\ \A h \in Cancellers : cpc[h] = "idle"
    /\ \A b \in Batches : bpc[b] = "none"
    /\ kpc = "idle"

\* A batch and its pool: targets are handed out once, and all of them come back.
BatchKnows ==
  /\ \A s \in Sessions :
       /\ (target[s] = "NONE") <=> (batch[BatchOf[s]] = "NONE")
       /\ pc[s] # "none" => bpc[BatchOf[s]] = "pooling"
       /\ bpc[BatchOf[s]] = "starting" => target[s] \in {"QUEUED"} \cup TERMINAL
       /\ bpc[BatchOf[s]] = "pooling" /\ pc[s] = "none" =>
            target[s] \in TERMINAL \/ BatchOf[s] \in cancelled
  /\ \A b \in Batches : bpc[b] # "none" => batch[b] # "NONE"

\* What a worker knows of its target at each pc.
WorkerKnows ==
  \A s \in Sessions :
    /\ pc[s] \notin {"claiming", "proposing"}
    /\ pc[s] = "submitted" =>
         target[s] = "QUEUED" \/ (target[s] = "CANCELLED" /\ BatchOf[s] \in cancelled)
    /\ pc[s] = "creating" => target[s] = "DIAGNOSING"
    /\ pc[s] \notin {"none", "submitted"} => target[s] \in {"DIAGNOSING", "CANCELLED"}
    /\ pc[s] = "publishing" =>
         /\ verdict[s] # "none"
         /\ verdict[s] \in {"HEALTHY", "WARNING"} =>
              status[s] \notin {"NONE", "DIAGNOSING", "DIAGNOSIS_ONLY"}

\* What a worker's process is: its session is being diagnosed, and a cancel or the
\* kill switch can reach it.
WorkerOwns ==
  \A s \in Sessions :
    proc[s] = "running" =>
      /\ status[s] = "DIAGNOSING" /\ ~killSwitch
      /\ phase = "up" =>
           pc[s] = "registering" \/ (pc[s] = "streaming" /\ registered[s] = s)

\* No process inspects s, and none will be spawned to.
Halted(s) == proc[s] # "running" /\ (cancelReq[s] \/ status[s] # "DIAGNOSING")
CancelledIsHalted ==
  \A s \in Sessions :
    target[s] = "CANCELLED" => Halted(s) \/ pc[s] \in {"none", "submitted"}

\* What a cancel knows: no target of its batch is being inspected but those it has
\* still to stop.
CancelKnows ==
  \A h \in Cancellers :
    /\ cpc[h] # "idle" =>
         /\ job[h] \in cancelled /\ batch[job[h]] # "NONE"
         /\ \A s \in TargetsOf(job[h]) \ todo[h] : target[s] = "DIAGNOSING" => Halted(s)
    /\ cpc[h] \in {"killing", "sealing"} =>
         cur[h] \in Sessions /\ cancelReq[cur[h]]
    /\ cpc[h] = "sealing" => proc[cur[h]] # "running"
KillKnows ==
  /\ kpc # "idle" => killSwitch
  /\ kpc = "marking" => \A s \in Sessions : plan[s] \notin {"stopped", "unstopped"}

\* A proposer works on an actionable report, whose worker has ended.
ProposerKnows ==
  \A p \in Proposers :
    /\ about[p] # Nobody => target[about[p]] = "WARNING" /\ about[p] \notin Clusters
    /\ pc[p] # "none" => about[p] # Nobody
    /\ pc[p] \notin {"submitted", "creating", "reporting", "fallback", "publishing"}

InspectionInv ==
  /\ TypeOK
  /\ GateKnows /\ LifecycleKnows /\ DownKnows /\ BatchKnows
  /\ WorkerKnows /\ WorkerOwns /\ CancelledIsHalted
  /\ CancelKnows /\ KillKnows /\ ProposerKnows
  /\ CancelledTargetIsQuiet /\ ProposalsHaveReports

\* Unless two proposals are generated for one session at once (OneProcess), the same
\* is true of a proposer and its process.
NeverTwice ==
  \A p, q \in Proposers : (about[p] = about[q] /\ about[p] # Nobody) => p = q
ProposerOwns ==
  \A p \in Proposers :
    proc[p] = "running" =>
      /\ about[p] # Nobody /\ status[about[p]] = "PROPOSAL_GENERATING" /\ ~killSwitch
      /\ \A h \in Cancellers : cpc[h] = "sealing" => cur[h] # about[p]
      /\ phase = "up" =>
           pc[p] = "registering" \/ (pc[p] = "streaming" /\ registered[about[p]] = p)

RegistryInv == InspectionInv /\ ProposerOwns /\ LiveIsRegistered
=============================================================================
