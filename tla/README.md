# TLA+ models of aiops-runner

aiops-runner is a Python service that lets an AIOps platform diagnose and repair
hosts through Claude child processes, and inspect hosts and Kubernetes clusters.
This directory holds TLA+ models of its concurrent parts, TLC configurations that
check them on small instances, and TLAPS proofs of nearly all their safety for any
instance.

Run, in this directory:

    tlc -workers 2 -config TrustedSessionOne.cfg MCTrustedSession.tla
    tlc -workers 2 -config InspectionBatchOne.cfg MCInspectionBatch.tla
    tlc -workers 2 -config ControlIntentOne.cfg MCControlIntent.tla
    tlc -workers 2 -config Channel.cfg MCChannel.tla
    tlc -workers 2 -config RunnerState.cfg MCRunnerState.tla
    for M in TrustedSession InspectionBatch Channel ControlIntent \
             Config Stream Kubernetes InstanceIdentity; do tlapm ${M}Proofs.tla; done

`PROJECT.json` lists the runs, the source lines of every definition, the mutants
(one plausible bug per property, kept in the modules next to the definition they
break), the findings and the hazards.

## 1. Inventory

| Component | Source | State it keeps | Operations | What must hold |
|---|---|---|---|---|
| Repair contract library | `trusted_repair_contract.py` | none | `next_status`, receipt and batch validation, `decide_event_ingest` | the table of legal moves; ingest accepts exactly the next new batch |
| Session orchestrator | `trusted_session.py` 1600-2649 | journal metadata, kill switch flag and file, lifecycle gate | create and diagnose, resume after approval or risk grant, apply a control action, kill switch, recovery | no process works behind a settled status; a stop tells the truth; nobody spawns under the kill switch |
| Claude adapter, process registry | `trusted_session.py` 1050-1130, 1334-1495 | child processes, registry | spawn under the gate, stream, cancel, cancel_all | every process that may work can be reached by a kill |
| Session locks | `trusted_session.py` 207-246 | one file lock per session | acquire (never blocks) | every caller survives a busy lock |
| Session journal | `trusted_session.py` 249-617 | metadata, proposals, risks, control results, event log | update, update_if, compare_and_update, claim/finalize, append, read | atomic replacement; contiguous event sequence |
| Stream parser | `trusted_session.py` 758-1047 | protocol state of one run | parse_line, finalize | only a complete stream ends a run well |
| HTTP controller | `trusted_api.py` 472-967 | active set, gate | create, approve, risk decision, stop, kill switch, deliver | idempotent requests; an intent is applied once; AIOps learns what happened |
| Callback client | `trusted_api.py` 297-394 | none | post events, terminal, receipt with retries | order and sequence of batches |
| Inspection manager | `inspection.py` | batch files, cancelled set, pools | create, cancel, inspect target, propose, callback, replay, recover | outcomes of targets are final; every batch ends; every finished batch is reported |
| Kubernetes service | `kubernetes.py` | projection, collection stream, job records | sync, cancel, collect, watch, pull, reconcile | no lost update, no hidden gap, AIOps comes to see the cluster as it is |
| Configuration wizard | `scripts/configure_wizard.py` | staged files, keys on the targets | prepare, install keys, commit, roll back, clean up | all or nothing, and the user is told the truth |
| Runner identity | `instance_identity.py` | identity file, instance lock | init, verify, acquire | one identity for good, one runner at a time |
| Host context | `host_context.py` | one index file | initialize, mark | no lost mark |
| Server, auth, audit, config, inventory, drafts, legacy callback | the other files | none or append-only | parsing, routing, validation | not modelled: functions of one request or document |

How they interact. An HTTP thread of the controller calls the orchestrator. A
diagnosis or an execution runs in a thread of its own, which spawns one Claude
process, reads its stream and writes the journal. Stops and the kill switch run in
other HTTP threads and meet the run thread in three places: the lifecycle gate (a
blocking lock, held around every spawn and every kill), the session's file lock
(which never blocks: the loser gets `TRUSTED_SESSION_BUSY`), and the journal (whose
updates are atomic, while a load followed by an update is not). The order of
acquisition is gate, then session lock. After every change of state the controller
delivers events, terminals or receipts to AIOps. Inspections share the journal, the
adapter and the gate with the repair sessions, but write the journal in their own way.

What is hard. Stops that race the spawn, the end of a run or another stop; kills that
fail; busy locks on paths that had already claimed something; a crash that leaves
orphans; approvals and intents that are delivered again; callbacks that are lost,
repeated or reordered. The hazards are listed, each at its line, in `PROJECT.json`.

## 2. Modules

| Module | Models |
|---|---|
| `RepairContract` | statuses and transition table of the contract library |
| `SessionLifecycle` | abstract specification of a repair session: its status, and whether a process works for it |
| `TrustedSession` | the orchestrator, adapter, registry, locks, journal metadata and kill switch, with crashes and failing kills |
| `MCTrustedSession` | instances of the above for TLC |
| `TrustedSessionProofs` | TLAPS proofs about `TrustedSession` |
| `InspectionBatch` | batches, their targets and sessions, cancellation, proposal generation and restart |
| `MCInspectionBatch` | instances of it for TLC |
| `InspectionBatchProofs` | proofs about it |
| `EventIngest` | how AIOps judges a batch of events (`decide_event_ingest`) |
| `LogReplica` | abstract specification of event delivery: AIOps has a prefix of the log |
| `EventDelivery` | the event log of one session, its deliveries, the network and AIOps |
| `InspectionDelivery` | the callbacks of one inspection batch |
| `MCChannel` | both deliveries for TLC |
| `ChannelProofs` | proofs about both, and the refinement of `LogReplica` |
| `ControlIntent` | claim, application and receipt of control intents; extends `TrustedSession` |
| `MCControlIntent` | instances of it for TLC |
| `ControlIntentProofs` | proofs about it, on top of `TrustedSessionProofs` |
| `ClusterCollector` | lists, watches, projection and stream of one cluster, and their reader |
| `SyncJob` | one sync job and its cancellations |
| `KubernetesProofs` | proofs about `SyncJob` and `ClusterCollector` |
| `ConfigTransaction` | several files changed together |
| `WizardRun` | a run of the wizard; extends `ConfigTransaction` |
| `ConfigProofs` | proofs about both |
| `StreamParser` | the parser of a run's output and the verdict |
| `StreamProofs` | proofs about it |
| `InstanceIdentity` | the identity file, its installers and the runner processes |
| `InstanceIdentityProofs` | proofs about it |
| `MCRunnerState` | the six models above for TLC |

### TrustedSession

The actors are one run thread per session, one HTTP thread per handler, and the
kill switch call. Each has a program counter that moves only at the points where the
code takes or releases a lock, or reads or writes shared state; what happens between
two such points is one action.

| Variables | Code |
|---|---|
| `status cancelReq remoteSeen lastCommand lastOutcome pidKnown` | `metadata.json` of the session |
| `granted` | `approval_idempotency_key`, `risk_idempotency_key` |
| `killFile`, `killSwitch` | `_kill_switch.json`, `orchestrator.kill_switch` |
| `proc unread remoteRan lost` | the child process and its stdout |
| `registered` | `ProcessRegistry._processes` |
| `gate`, `flock` | `_lifecycle_gate`, the file locks |
| `pc kind remote aim` | the run thread and its locals |
| `cpc command seen had` | `apply_control_action` and its locals |
| `kpc plan` | `activate_kill_switch`, `results` and `claimed_sessions` |
| `executions`, `requests`, `crashes` | counters for properties and bounds |

The run goes `CreateLock, AcceptSession` or `Grant, ResumeLock, ResumeClaim`, then
`SpawnGate, PreSpawn, Launch, RecordProcess`, then `ReadCommand` and `StreamEnd` or
`StreamAbort`, and ends in `PersistResult` or, in two steps,
`RecordUncertainLoad, RecordUncertainUpdate`. A stop goes `ControlRequest, StopLock,
StopClaim, StopGate, StopKill, SealLock, StopSeal`; a close `CloseLock, CloseSeal`;
the kill switch `KillArm, KillWriteFile, KillProcesses`, then `KillLock` with
`KillClaim` or `KillMark` per session, and `KillReturn`.

What is abstracted. Bindings, fingerprints and expiry times only decide whether a
claim or a launch is refused, which is a free choice. The parser decides what a run
may end in (`Results`) and whether a remote command was seen. Timeouts, budgets and
provider failures are one action (`StreamAbort`). `PROPOSAL_GENERATING` belongs to
inspections and does not occur. Failing disks are not modelled.

Atomicity assumed. The journal's mutex covers each of its operations, so each is one
step. `registry.cancel` waits up to ten seconds with the gate held by its caller; only
threads that need the gate could be seen in between, so kill and deregistration are
one step. `ResumeClaim` holds the session's lock throughout.

### SessionLifecycle

The promise to the rest of the system: a status is settled or put on hold only while
no process works for the session, a process starts only in a running status, and
statuses move along the contract's table, plus the moves the runner makes beyond it.
These extra moves are named there, because each is a deviation from the table:
`Expire` (EXECUTING to EXPIRED, `_validate_initial_launch`), `HandOver`
(PENDING_APPROVAL to MANUAL_INTERVENTION), `Restate` (the late verdict of
`_record_uncertain`) and `StopAs` (a stop that names another terminal status).
`ImplementsLifecycle` is the refinement, with `live` mapped to "running and not lost".

### InspectionBatch

The actors are the thread of each batch, one worker per target (named by the target's
session), proposers, cancel requests and the kill switch call. Workers and proposers
share `ClaudeSessionAdapter.run`, which is modelled once for both (`SpawnEnter,
SpawnCheck, Register, RunEnds`); `After` says where each goes on afterwards.

| Variables | Code |
|---|---|
| `batch target` | the batch file: its status, the status of each target |
| `status cancelReq` | `metadata.json` of the inspection's session |
| `cancelled`, `gate` | `_cancelled`, `_gate` of the manager |
| `lifecycle`, `registered`, `killSwitch` | the orchestrator's gate, registry and kill switch |
| `bpc`; `pc retried verdict about` | `_run_batch`; `_inspect_target`, `_inspect_kubernetes_target`, `_generate_proposal` and their locals |
| `cpc job todo cur stopped` | `cancel` and, per target, `orchestrator.cancel` |
| `kpc plan` | `activate_kill_switch` |

A worker goes `InspectSkip`, `InspectRefuse` or `InspectClaim, InspectCreate`, its run
or two, then `InspectReport` or `InspectFail`, and `InspectPublish`. A cluster's worker
keeps the gate from its claim to its end, so a cancel waits for it. The session's file
lock is held while a thread is `checking`; cancels and the kill switch hold it within
one step, in which others may find it busy (`Contended`).

What is simpler here than in `TrustedSession`: a kill always works, recovery finds
every orphan of an interrupted session, the kill switch and its file are one, and the
two loops of the kill switch are one step each, because sessions only meet in the
batch. What a stopped process had done to its target is a free choice. WARNING stands
for CRITICAL. Reports, their repair and the service inventory are left out: they read
what these actions write, but change nothing of it. The callbacks are `InspectionDelivery`.

### EventDelivery and InspectionDelivery

A session's events (`log`, `nextSeq`, `torn`: the `.jsonl` file and its count) are
appended by a run or by startup in two steps under the journal's mutex, and a crash may
fall between them; a torn last line makes startup raise for ever (stage `"dead"`). A
delivery (`_deliver`) reads the metadata, then the log, then posts the proposal, the
batches and the terminal status, recording each attempt before it posts. A post is
received and answered, received and not answered, lost, or received after the runner has
given up; AIOps judges it by `EventIngest`. When an answer is missing nothing is sent
again: AIOps asks for the session (`Reconcile`, `TrustedSessionController.get`). `copy` is
what AIOps has; it and `log` refine `LogReplica`, whose two steps are that the log
grows by one and that the copy grows towards it.

Deliveries of two runs of one session may overlap, because `_active` is cleared before
`_deliver`; `overlapped` remembers it. `SentOnce`, `AckedIsAccepted` and `TerminalIsLast`
are promised, and hold, only while they have not: with two at once batches are sent twice
and `acked` moves back. That the copy is a prefix of the log holds all the same, because
AIOps refuses what does not fit.

`InspectionDelivery`: each author of a change of the batch file posts the snapshot of its
revision, a few attempts each; what came of it is written into the file only if no newer
revision is there (`IsLatest`), and a failure that may pass is retried by the replay
thread once the batch has ended. `dropped` marks the one case in which the end is lost: a
restart between saving it and recording its first post.

### ControlIntent

The handlers of `TrustedSession` get the whole of `TrustedSessionController.cancel`
around `apply_control_action`: check of time and shape, claim (`envelope`), check of the
semantics, the action itself, receipt, and the answer. Two handlers may carry the same
intent. `RunnerStep` is the `Next` of `TrustedSession` with `ControlContinues` and
`CrashIntents` joined to its steps, so what a receipt says is compared with what the
session has really become.

### ClusterCollector and SyncJob

`cluster` is what the API server has, `queue` what each watch will call back with, `raw`
the projection (`raw_current`), `items` the bounded stream. A round lists one kind after
the other, in the order of `RESOURCES` (`CollectList`), so that the list is no snapshot, and
applies the whole later (`CollectApplies`); what the watches bring in between is overwritten.
A list that lacks a kind is not applied (`CollectFails`).
`Visible` leaves out workloads scaled to zero and what they own. The reader follows the
rules of the pull's answer: a gap or a new epoch makes it wait for a whole baseline, which
it checks by its count. Sequence numbers are kept relative to the end of the stream. AIOps
is modelled from the fields the answer has; it is not in this repository.

`SyncJob` has every writer of a job open the one temporary file, read the record (`text`),
write what it has read and rename the file, step by step; `handle` is the file a writer has
open, which another's rename may have made the job's file. `overlapped` marks that two were
at it at once. Then the file may be EMPTY or MIXED and a restart forgets the job, a job may
stay RUNNING until a restart, and the file may say what the memory no longer says:
`FileIsWhole`, `ActiveHasThread` and `FileAgrees` claim nothing of such states, and TLC
violates each of them without that exception. `ServedIsListed` has none: a list that is
served is whole in any interleaving.

### ConfigTransaction and WizardRun

A path names the old file, the candidate, a file of another program or nothing; a backup
is a link to the old file. Every comparison, switch and restoration of one file is one
action, any of them may fail or be interrupted, and another program may write, replace or
remove each file between any two. `unseen` marks what it did where no look follows: in the
moment between the last look and the rename, or after the last look at the file.

`WizardRun` adds the targets. The script that installs the key goes on by itself
(`ScriptCopies ... ScriptEnds`), whether the wizard waits or has given up
(`remote_operation_inflight`); an administrator may edit the file. The rollback looks at
the digest, twice on Linux and once on Windows, and takes the key out. A target is put on
the list of what to roll back when the key was added or permissions changed (`Recorded`).
Removing the work directory may fail (`RunCleanup`). What the run reports at the end, also
of what it leaves behind (`Told`), is compared with the targets and the files.

### StreamParser

The lines of a run's output are members of a small set of kinds. `AfterLine` is the
parser's state after one line, `Refused` the lines that raise, `Status` the verdict. JSON
that is no object is ignored by the code before anything is looked at, also after the end
of the stream, and is no line of the model. The
property reads the whole stream again and says, by the completion contract, what the
verdict should have been. `TrustedSession` does not use this module: there the parser may
give any of `Results`.

### InstanceIdentity

Installers create the identity file under a lock, exclusively, and tell its content only
after file and directory are synced; `disk` is what a power failure may leave. Runner
processes read it, take the instance lock, recover and serve. The administrator may remove
or replace the file, also with the inode of the old one.

## 3. Runs

| Run | Instance | Checks |
|---|---|---|
| `session_safety` | 1 session, 2 handlers (a stop and a close), kill switch, 2 requests, 1 crash, kills may fail | the safety properties, the inductive invariant `OwnershipInv`, the refinement |
| `session_pair` | 2 interchangeable sessions, kill switch, 1 request | the kill switch's loops, two runs that compete for the gate |
| `session_liveness` | 1 session, 1 handler, 1 request, 1 crash, every kill works | `RunningSettles`, `ControlReturns` |
| `stop_overwritten` | 1 session, 1 stop | finding: `ConfirmedStopIsFinal` is violated |
| `stop_not_certain` | 1 session, 1 stop | finding: `ConfirmedStopIsCertain` is violated |
| `stop_strands` | 1 session, 2 stops | finding: `RunningSettles` is violated |
| `inspection_batch` | 1 batch of a host and a cluster, 1 proposer, 2 cancel requests, kill switch, 1 crash | outcomes are final, cancelled targets are quiet, batch file and journal agree, batches and proposals end |
| `proposal_twice` | 1 host, 2 proposers | finding: `OneProcess` is violated |
| `batch_left_running` | 2 batches, 1 cancel, 1 crash | finding: `BatchFinishes` is violated |
| `channel` | 1 session with 2 runs, 2 events, 1 crash; or 1 batch of 4 revisions, 2 authors, 2 attempts each, 1 restart | what AIOps hears is a prefix of the log, once and in order, and arrives; the end of a batch is told or owed |
| `control_intents` | 1 session, 2 handlers with a stop and a rejection, 2 deliveries in total, kill switch, 1 crash | one receipt per intent, and it is true |
| `cluster_and_configuration` | one of six parts, below | the properties of the modules of `MCRunnerState` |

The invariants the runs check are the inductive ones, under the name of the component
(`OwnershipInv`, `RegistryInv`, `LogInv`, `ReceiptInv`, `SyncInv`, `IdentityInv`,
`FailureInv`, `RunInv`), so TLC tells at once when a change of a model breaks one. For three
the runs check the property they are there for instead: `EndIsOwed` follows from `PostInv`,
`VerdictIsEarned` from `ParserInv`, and `CollectorInv` from `ReaderInv`. The last two look
for a history of the stream in every state and would add to the time of their run. TLC
accepts all three in the same instances.

Bounds. `MaxRequests` bounds control requests and kill switch calls, `MaxCrashes` the
crashes; nothing else is bounded, runs repeat through approvals and risk grants as
far as the idempotency keys allow. Two requests are enough for every pair of
overlapping stop, close and kill switch call; a session never meets another one but
through the gate and the kill switch's loops, which `session_pair` covers. Symmetry is
used only there, where no intent names a session. The sessions may rest, so deadlock
is not an error.

Parts. The components in `MCChannel` and in `MCRunnerState` share no state. A behaviour
explores one of them, chosen in its first state, and the others rest, so that the states
are the sum of the parts and not their product; nothing is lost, because no action of one
reads a variable of another.

Bounds of the parts. Collector: a deployment and its pod, a stream of three items,
which a baseline of two and its end just fill, so that any change before it is read
makes a gap; two upsets (a change of the cluster, an expired watch or a restart), the
lists unbounded. Sync job: two cancellations beside the thread, one restart. Files: one
created, one replaced, one deleted, two of them touched by another program, one
interrupt. Wizard: a Linux and a Windows target, one of them with the key already, one
interrupt, and one disturbance from outside: an edit on a target, or a file touched
between two switches (`OneDisturbance`). Stream: five lines with one tool, enough for a
tool, its answer, a marker, one line too many and the end. Identity: two installers, two
runner processes, and a power failure or an act of the administrator. Outside the part of
the collector the cluster is empty, so that `ViewConverges` is a matter of that part only;
`MCFairness` is `CollectorFairness` there.

Fairness (`FairSpec`). The runner's threads keep running: weak fairness of each run
thread, handler, the kill switch call and recovery. `StreamAbort` is fair on its own,
because every run has a TTL that kills its process. AIOps, the administrator and the
child process promise nothing, and crashes are bounded, not fair. `session_liveness`
assumes that kills work and that there is one request at a time; `stop_strands` shows
that two are too many for the code as it is.

Inspections. Everything but cancels, crashes and the kill switch is bounded by the
code itself: a batch is created once, a target inspected once, a proposal ends in a
status no proposal starts from. Two cancels are enough for one that fails at a busy
lock and one that follows it; one host and one cluster are both kinds of worker, and
they meet at the gate and in the batch. Each thread is weakly fair (`FairSpec`); a run
is, too, because it ends by its timeout. The gates are taken a bounded number of
times, so weak fairness is enough to get them in the end.

Fairness of the others. `FairDeliverySpec`: the startup thread goes on, because
each of its calls ends by its timeout, and AIOps keeps asking for a session it lacks
events of; nothing is asked of the other threads, and calls may be lost any number of
times. `CollectorFairness`: the loop of the collector goes on and
AIOps goes on pulling; of the watches nothing is assumed, so `ViewConverges` shows that
the periodic lists alone are enough. The other modules state safety only.

## 4. Findings

1. `_record_uncertain` (2224-2241) reads the status and writes its verdict in two
   steps without the session's lock. A stop that seals CANCELLED in between, and has
   told AIOps so, is overwritten by MANUAL_INTERVENTION.
2. A stop decides that the result is certain from the metadata it claimed, before it
   kills. A remote command that starts in between leaves the stop confirmed, whether or
   not the run has read it from the stream by then.
3. A stop, or the kill switch's second loop, that finds the session's lock busy when
   it wants to seal loses its verdict but leaves its claim; the run's own result is
   refused because of the claim. The session stays DIAGNOSING or EXECUTING with nobody
   to move it until the next restart.

4. Two requests for the proposal of one session both find INSPECTION_COMPLETED and
   start two Claude processes; when the second cannot register, its cleanup
   unregisters the first one. With one proposer `LiveIsRegistered` holds
   (`inspection_batch`).
5. `_run_batch` writes RUNNING over a CANCELLED batch. A second batch may be active by
   then; after a restart only one of the two is run on, the other stays RUNNING and
   blocks every later create. With one batch `BatchFinishes` holds, also with a cancel
   and a restart.

Seen while modelling, without a run of their own; the models do what the code does, and
the properties name the exception where there is one:

- A second delivery of an intent whose first is PROCESSING is applied without the checks
  of time and semantics (`trusted_api.py` 690-700).
- The comment there says that a repeated intent converges to STOP_UNCERTAIN after a crash;
  recovery has made the session MANUAL_INTERVENTION by then, and the answer is
  INVALID_INTENT.
- A close to MANUAL_INTERVENTION after an uncertain stop is judged certain where the
  recorded result was not; validating the receipt raises, and the intent is never answered.
- EXPIRED, and CANCELLED by the kill switch, are written by the runner itself and reported
  by no callback and no receipt.
- A grant's event may be appended after the terminal status was posted, although the
  contract ends a session with it; `EventDelivery` refuses it at AIOps.
- A restart between saving the end of a batch and recording its first post loses the
  callback: `replay_due_callbacks` looks for recorded failures only.
- The completion contract (`trusted_session.py` 1933) forbids text before the verification
  marker; the parser ignores it there, and `VerdictIsEarned` allows it.
- An interrupt during the restoration of files, between two of them, is reported as a
  cancellation without changes; the recovery directory is kept, and not named.
- The instance lock, "service lifetime lock" by its docstring, is given back by `close`
  while the workers of an inspection pool may keep the process alive after an interrupt.
- `_run` starts with `last_reconcile = 0.0` and compares it with the monotonic clock
  (`kubernetes.py` 1755-1769): a first list of a cluster that fails is tried again in the
  next round when that clock, usually the time since boot, is past the reconciliation
  interval already, and not before it is otherwise. The model lets it be at any time.
- An item larger than a pull's byte limit stops its reader; a round longer than the interval
  and five seconds leaves a hole in the logs.

## 5. Proofs

Every theorem below is proved for all values of the constants. The assumptions on them
are those the modules name: actors of different kinds are different, intents and targets
belong to sessions that exist, a run lists each file and each target once (the wizard
keys both by their name), bounds are numbers. None says how many of anything there are.

Each argument has the same form: an invariant is strengthened by what every thread knows
at each of its pcs, until it is inductive; each conjunct has a lemma with one step per
action; the properties follow from it.

**TrustedSession** (`OwnershipInv`). That a stop may seal CANCELLED rests on what it
knows after its kill (`StopKnows`): the claim it made stays in the journal, so `PreSpawn`
refuses, and whatever was launched before is dead or lost. That in turn needs `GateOwned`
(a launch and a kill exclude each other), `LiveIsReachable` (a kill finds the process) and
`RunKnows`. `KillKnows` is the same for the kill switch, `JournalKnows` ties waiting
statuses to an empty registry slot, and `RestartIsEmpty` says what a crash leaves.
`RunFits`, `ClosedFits`, `UnspawnedFits` and `StoppedFits` tie the status to the thread
that may still change it; with them `RunningHasThread` is inductive. `GrantsUnspent` says
that a run that may still start an execution has a grant none was paid with, from which
`GrantsBoundExecutions` follows. On the same invariant rest `SpawnIsAllowed` and
`ConclusionsAreFinal`, properties of steps, and the refinement of `SessionLifecycle`:
each action is a step of the life of one session, or none.

**ControlIntent** (`ReceiptInv`). A step of the intents is a step of `TrustedSession` or
leaves its variables alone, so `OwnershipInv` carries over and is used beside
`HandlersKnow` (what a thread of the controller knows of its claim) and `OutcomesHold`
(an outcome stays true of its session from when it is concluded on, because no run is left
that would write over it). Theorems: `ReceiptInv`, `CertainReceiptIsTrue`, `AppliedMeansSettled`.

**InspectionBatch**. `InspectionInv` is inductive with any number of batches, cancels and
proposers: the two gates and their owners, and what batch threads, workers, cancels, the
kill switch and proposers know. It gives `CancelledTargetIsQuiet`, `ProposalsHaveReports`,
`TargetsMoveForward` and `FinishIsComplete`. `RegistryInv` and `KillSwitchQuiet` are
proved under `[]NeverTwice`, that no session is proposed for by two at once. The condition
is not a convenience: `proposal_twice` violates `OneProcess` without it. `OneProposerIsEnough`
drops it where at most one proposal is generated at a time, and shows that it can be met.

**EventDelivery** (`LogInv`). `WriterKnows` and `StartupKnows` carry the log over a crash
between a line and its count; `CallsKnow` says that whatever is in the network is a part
of the log, `CopyKnows` that what AIOps has is a prefix, and `AloneKnows` what one delivery
alone has sent. `SentOnce`, `AckedIsAccepted` and `TerminalIsLast` follow while deliveries
have not overlapped, the refinement of `LogReplica` always.

**InspectionDelivery** (`PostInv`). `EndIsCarried` says who still carries the end of the
batch: a post on its way, a recorded failure, or AIOps. `EndIsOwed` follows.

**SyncJob** (`SyncInv`). The properties with what each writer knows (`ThreadKnows`,
`WriterIsAlone`). Two theorems say what follows with and without a condition:
`SyncServesWholeLists`, for every interleaving, that a job said to be SUCCEEDED has its list;
`LoneWriterKeepsTheJob`, as long as no two writers have met, that the file is a whole record
at every moment, agrees with the memory when nobody writes, and an active job has its thread.

**InstanceIdentity** (`IdentityInv`). The property with `ServersLock`, `StartedValid`,
`ToldIsSafe` and `RestoredIsSafe`. A process that is closing is not counted as serving, and
an identity told before its directory was synced is not covered (`NameStays`).

**ClusterCollector** (`ReaderInv`). The invariant is a line of marks along the stream, one
before and one after each item: what a reader that missed nothing sees there, and the
baseline that is being sent, if one is (`StreamLeads`). `Leads` says what an item does from
one mark to the next, `Fits` what a reader at a mark may have: of the baseline nothing that
is not in it, and the view of the mark unless it knows of a loss. `_replace_projection`
appends items whose marks lead from the old projection to the new (`DifferencesLead`,
`BlockLeads`), dropping the oldest items cuts the line (`Cut`), and a pull goes along it
(`TakeAllFits`). That the expected count is enough to tell a whole baseline is
`PresentSame`: all a reader has is part of it, so as many are all. A loop over data is
handled without induction theorems: what holds after each item holds of a set of numbers
with no least one outside (`NatSet`, from the well-foundedness of the naturals). In the
same way `ExcludedIsLeast` shows that the loop of `_scaled_to_zero_excluded_uids` finds the
least set that holds the stopped workloads and all that its members own, for any graph of
owners, cycles included.

**ConfigTransaction and WizardRun** (`FailureInv`, `RunInv`). `LoopsKnow` says how far each
of the loops over the files has come; `OwnFits` what the transaction has made of one file,
and `OthersFits` what other programs have. A commit alone (`CommitIsExclusive`) follows. In
a run of the wizard the files move by the same actions, so `FailureInv` holds there too;
`MainKnows`, `ScriptFits`, `KeysFit` and `EditFits` tie what the run has been told to what
the scripts have done on each target, also those it no longer waits for.

**StreamParser** (`ParserInv`). The parser's few fields are related to the whole stream:
`EndIsKnown` (nothing is accepted after an end), `ToolsAreKnown` (open tools are those used
once more than answered), `MarkersAreKnown` (one marker and nothing since, or too much, or
nothing yet), `RetriesAreKnown` (503s since the last sign of life). `VerdictIsEarned`
follows, in both directions: no other stream ends a repair, and none that keeps the
contract is refused.

Only model-checked are the liveness properties: `RunningSettles`, `ControlReturns`,
`BatchFinishes`, `ProposalSettles`, `LogArrives`, `ViewConverges`. The prover has no rule for
fairness or ENABLED.

Every invariant and every property of steps that a passing run checks is proved, two of them
under the condition named above.

## 6. Not modelled

- The dialogs of the wizard (menus, prompts, parsing of answers, validation of the
  result): input and output of one process. Watched files of a transaction.
- Queries, inventory, events, metrics, logs and health rules of `kubernetes.py`: functions
  of one answer of the API server, or appends to the stream.
- Prompts, transcripts, reports of inspections and their repair, redaction, hashing,
  schema checks: they decide about one document.
- Authentication, audit, routing, configuration, inventory, proposal drafts, the legacy
  monitor and dead letters: no state that two actors share.
- `host_context.py`: one read-modify-write of hints; two initializations at once lose a
  mark, which costs one host its hints until the next initialization.
- The Claude project's hooks and `target-exec`: programs inside the child process, which is
  an external actor here. Shell scripts and unit files.

## 7. Plan

1. Sizes of items in `ClusterCollector`, so that an item larger than the byte limit of a
   pull can be told from one that is read.
2. Shorter proofs where lemmas of several modules are alike.
