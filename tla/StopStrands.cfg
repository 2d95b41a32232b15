\* Two stops of one run by two HTTP threads, every kill works: the run is stranded.
CONSTANTS
  s1 = s1
  s2 = s2
  h1 = h1
  h2 = h2
  stop = stop
  again = again
  close = close
  Sessions = {s1}
  Handlers = {h1, h2}
  Commands = {stop, again}
  Killer = Killer
  Nobody = Nobody
  NoCommand = NoCommand
  Intent <- TwoStops
  MaxRequests = 2
  MaxCrashes = 0
  KillMayFail = FALSE
SPECIFICATION FairSpec
CHECK_DEADLOCK FALSE
PROPERTY RunningSettles
