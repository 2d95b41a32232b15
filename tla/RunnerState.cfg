\* A deployment and its pod behind a stream of three items, two upsets; a sync job
\* with two cancellations; a new, a replaced and a deleted file; two targets, one of
\* which has the key already; streams of five lines with one tool;
\* two installers and two runner processes with a power failure or an act of the administrator.
CONSTANTS
  deploy = deploy
  pod = pod
  created = created
  replaced = replaced
  deleted = deleted
  web = web
  db = db
  Objects = {deploy, pod}
  Workloads = {deploy}
  Owner <- MCOwner
  ListedBefore <- MCListedBefore
  Capacity = 3
  Limits = {1, 3}
  MaxUpsets = 2
  Cancellers = {cancel1, cancel2}
  MaxSyncRestarts = 1
  FileOrder <- MCFileOrder
  Kind <- MCKind
  MaxOthers = 2
  MaxInterrupts = 1
  HostOrder <- MCHostOrder
  OS <- MCOS
  Starts <- MCStarts
  MaxEdits = 1
  Tools = {tool}
  RetryLimit = 3
  MaxLines = 5
  Installers = {init1, init2}
  Services = {run1, run2}
  MaxPower = 1
  MaxDrifts = 1
SPECIFICATION MCSpec
CHECK_DEADLOCK FALSE
INVARIANT CollectorInv
INVARIANT SyncInv
INVARIANT FailureInv
INVARIANT CommitIsExclusive
INVARIANT RunInv
INVARIANT VerdictIsEarned
INVARIANT IdentityInv
PROPERTY ViewConverges
