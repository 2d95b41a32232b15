\* Two deliveries of the same or of different intents, one crash or not.
CONSTANTS
  s1 = s1
  h1 = h1
  h2 = h2
  stop = stop
  close = close
  Sessions = {s1}
  Handlers = {h1, h2}
  Commands = {stop, close}
  Killer = Killer
  Nobody = Nobody
  NoCommand = NoCommand
  Intent <- StopAndClose
  Fits <- FitsApproval
  GrantsAsked = {"initial"}
  MaxRequests = 2
  MaxDeliveries = 2
  MaxCrashes = 1
  KillMayFail = FALSE
SYMMETRY HandlerSymmetry
SPECIFICATION IntentSpec
CHECK_DEADLOCK FALSE
INVARIANT ReceiptInv
INVARIANT CertainReceiptIsTrue
INVARIANT AppliedMeansSettled
