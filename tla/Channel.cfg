\* A session with one approved execution, two events and one crash; a batch of
\* four revisions by two authors.
CONSTANTS
  MaxRuns = 2
  MaxEvents = 2
  BatchSize = 2
  MaxDeaths = 1
  Authors = {worker1, worker2}
  Replayer = replayer
  MaxRevision = 4
  MaxAttempts = 2
  MaxRestarts = 1
SPECIFICATION ChannelSpec
CHECK_DEADLOCK FALSE
INVARIANT LogInv
INVARIANT SentOnce
INVARIANT AckedIsAccepted
INVARIANT TerminalIsLast
INVARIANT EndIsOwed
PROPERTY ImplementsReplica
PROPERTY LogArrives
