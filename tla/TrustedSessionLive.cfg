\* Liveness: every kill works, one stop may be sent twice, one crash.
CONSTANTS
  s1 = s1
  s2 = s2
  h1 = h1
  h2 = h2
  stop = stop
  again = again
  close = close
  Sessions = {s1}
  Handlers = {h1}
  Commands = {stop}
  Killer = Killer
  Nobody = Nobody
  NoCommand = NoCommand
  Intent <- StopIntent
  MaxRequests = 1
  MaxCrashes = 1
  KillMayFail = FALSE
SPECIFICATION FairSpec
CHECK_DEADLOCK FALSE
PROPERTY RunningSettles
PROPERTY ControlReturns
