\* One batch of a host and a cluster, a proposal, two cancel requests, the kill
\* switch and one restart.
SPECIFICATION FairSpec
CONSTANTS
  host = host
  cluster = cluster
  b1 = b1
  b2 = b2
  Batches = {b1}
  Sessions = {host, cluster}
  Clusters = {cluster}
  BatchOf <- OneBatch
  Proposers = {p}
  Cancellers = {h}
  Killer = Killer
  Nobody = Nobody
  Concurrency = 2
  MaxCancels = 2
  MaxCrashes = 1
  MayKill = TRUE
INVARIANT CancelledTargetIsQuiet
INVARIANT RegistryInv
INVARIANT KillSwitchQuiet
INVARIANT ProposalsHaveReports
PROPERTY TargetsMoveForward
PROPERTY FinishIsComplete
PROPERTY BatchFinishes
PROPERTY ProposalSettles
CHECK_DEADLOCK FALSE
