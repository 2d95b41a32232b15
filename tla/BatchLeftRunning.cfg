\* Two batches, one cancelled while its thread starts, and a restart.
SPECIFICATION FairSpec
CONSTANTS
  host = host
  cluster = cluster
  b1 = b1
  b2 = b2
  Batches = {b1, b2}
  Sessions = {host, cluster}
  Clusters = {cluster}
  BatchOf <- TwoBatches
  Proposers = {}
  Cancellers = {h}
  Killer = Killer
  Nobody = Nobody
  Concurrency = 1
  MaxCancels = 1
  MaxCrashes = 1
  MayKill = FALSE
PROPERTY BatchFinishes
CHECK_DEADLOCK FALSE
