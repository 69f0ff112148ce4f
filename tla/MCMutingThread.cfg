SPECIFICATION Spec
CONSTANTS
  MaxTask = 4
  Program = {"sh", "claude", "vpnip"}
  SHELL = "sh"
  LOADS <- MCLoads
  TOOLS = {"claude"}
  VPNIP = "vpnip"
  muted_exes = {"claude"}
  PROC_CACHE_CAP = 2
  MUTED_CACHE_CAP = 1
  MUTE_DEPTH = 3
  ANCESTRY_MAX = 2
  RING = 2
  PID_PARENT_MAX = 2
  MUTED_MAX = 2
  THREADS = TRUE
  MaxSteps = 6
  Opens <- MCOpensAndWrites
INVARIANT ParentIsProcess
CHECK_DEADLOCK FALSE
