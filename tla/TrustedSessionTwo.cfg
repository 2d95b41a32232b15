\* Two interchangeable sessions and the kill switch.
CONSTANTS
  s1 = s1
  s2 = s2
  h1 = h1
  h2 = h2
  stop = stop
  again = again
  close = close
  Sessions = {s1, s2}
  Handlers = {}
  Commands = {}
  Killer = Killer
  Nobody = Nobody
  NoCommand = NoCommand
  Intent <- NoIntent
  MaxRequests = 1
  MaxCrashes = 0
  KillMayFail = FALSE
SYMMETRY SessionSymmetry
SPECIFICATION Spec
CHECK_DEADLOCK FALSE
INVARIANT SettledIsQuiet
INVARIANT KillSwitchQuiet
