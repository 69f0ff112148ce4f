SPECIFICATION Spec
CONSTANTS
  t1 = t1
  t2 = t2
  d1 = d1
  d2 = d2
  Thread <- MCThread
  Dest <- MCDest
  Fd = {3, 4}
  SHARED = FALSE
  MaxSockets = 2
  MaxCalls = 4
SYMMETRY Alike
INVARIANTS
  EntriesMatchSockets
  NoPhantomTraffic
  ConnectedSendsReported
CHECK_DEADLOCK FALSE
