\* One session, a stop and a close by two HTTP threads, the kill switch, a crash.
CONSTANTS
  s1 = s1
  s2 = s2
  h1 = h1
  h2 = h2
  stop = stop
  again = again
  close = close
  Sessions = {s1}
  Handlers = {h1, h2}
  Commands = {stop, close}
  Killer = Killer
  Nobody = Nobody
  NoCommand = NoCommand
  Intent <- StopAndClose
  MaxRequests = 2
  MaxCrashes = 1
  KillMayFail = TRUE
SPECIFICATION Spec
CHECK_DEADLOCK FALSE
INVARIANT OwnershipInv
INVARIANT LiveIsReachable
INVARIANT LaunchSlotFree
INVARIANT SettledIsQuiet
INVARIANT KillSwitchQuiet
INVARIANT GrantsBoundExecutions
INVARIANT RunningHasThread
PROPERTY SpawnIsAllowed
PROPERTY ConclusionsAreFinal
PROPERTY ImplementsLifecycle
