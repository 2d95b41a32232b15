\* A stop against one run, no failures: the verdict it seals is overwritten.
CONSTANTS
  s1 = s1
  s2 = s2
  h1 = h1
  h2 = h2
  stop = stop
  again = again
  close = close
  Sessions = {s1}
  Handlers = {h1}
  Commands = {stop}
  Killer = Killer
  Nobody = Nobody
  NoCommand = NoCommand
  Intent <- StopIntent
  MaxRequests = 1
  MaxCrashes = 0
  KillMayFail = FALSE
SPECIFICATION Spec
CHECK_DEADLOCK FALSE
PROPERTY ConfirmedStopIsFinal
