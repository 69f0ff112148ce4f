SPECIFICATION SystemSpec
CONSTANTS
  Pid = {1, 2}
  Uid = {0, 1}
  Name <- MCName
  Path <- MCPath
  Cmdline <- MCCmdline
  base_name <- MCbase_name
  arg_names <- MCarg_names
  path_facts <- MCpath_facts
  cmd_facts <- MCcmd_facts
  secrets <- MCsecrets
  environ_of <- MCenviron_of
  compiler_names <- MCcompiler_names
  Key <- MCKey
  Image = {"sh", "env", "npm"}
  image <- MCimage
  SHELL = "sh"
  Act <- MCAct
  REEXEC <- MCREEXEC
  ANCESTRY_MAX = 2
  REUSE = FALSE
  CAP = 4
  MAX_DEPTH = 4
  IDLE_NS = 10
  SWEEP_NS = 1
  all_chains = FALSE
  MaxEvents = 3
INVARIANT
  AnchorKindCurrent
CHECK_DEADLOCK FALSE
