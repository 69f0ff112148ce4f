SPECIFICATION Spec
CONSTANTS
  Key = {"npm", "tool"}
  Uid = {0, 1}
  Pid = {1}
  Path = {"p"}
  Name = {}
  Cmdline = {}
  Inputs <- MCInputs
  FoundSets <- MCFoundSets
  IDLE_NS = 2
  SWEEP_NS = 2
  all_chains = FALSE
  Skew = 1
  MaxTs = 5
  MaxEvents = 4
INVARIANTS
  TypeOK
  AlertedIsBand
  ProgressionRecorded
  EveryChainAccounted
  SummaryMatchesAlerts
  SplitOnlyByIdleness
  ExfilFollowsSecret
  SilentChainsClose
PROPERTY
  KeepsFeed
CHECK_DEADLOCK FALSE
