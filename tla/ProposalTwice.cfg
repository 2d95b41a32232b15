\* One host whose proposal is asked for by two requests at once.
SPECIFICATION Spec
CONSTANTS
  host = host
  cluster = cluster
  b1 = b1
  b2 = b2
  Batches = {b1}
  Sessions = {host}
  Clusters = {}
  BatchOf <- OneHost
  Proposers = {p, q}
  Cancellers = {}
  Killer = Killer
  Nobody = Nobody
  Concurrency = 1
  MaxCancels = 0
  MaxCrashes = 0
  MayKill = FALSE
INVARIANT OneProcess
CHECK_DEADLOCK FALSE
