SPECIFICATION TableSpec
CONSTANTS
  Pid = {1, 2, 3, 4, 5}
  Uid = {1}
  Path = {"p"}
  Name = {"sh", "node", "npm"}
  Cmdline = {"c"}
  Event <- MCEvent
  base_name <- MCBaseName
  arg_names <- MCArgNames
  CAP = 4
  MAX_DEPTH = 3
INVARIANTS
  TableAgrees
  NamesCurrent
  ActorKnown
  LineageSound
