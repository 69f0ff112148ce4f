------------------------------- MODULE Events -------------------------------
(***************************************************************************)
(* The vocabulary of normalized events (event.rs), shared by the modules   *)
(* of the correlation engine.  Strings are abstract: a path, a command     *)
(* line or a name is a value of a constant set.                            *)
(***************************************************************************)
EXTENDS Integers, Sequences, FiniteSets

CONSTANTS
  Pid,      \* process ids; 0 stands for an unknown process
  Uid,      \* user ids; 0 is root
  Path,     \* files and binaries
  Name,     \* the names programs answer to; a comm is a name
  Cmdline   \* command lines

None  == "none"  \* Option::None of a path or a command line
NoUid == -1      \* Option::None of a uid
Never == -1      \* Option::None of a timestamp

ASSUME EventsAssumption ==
  /\ Pid \subseteq Nat \ {0}
  /\ Uid \subseteq Nat
  /\ None \notin Path \cup Cmdline

Action == {"Exec", "Write", "SecretRead", "Connect"}

\* A normalized event.
EventType ==
  [ts : Nat, action : Action,
   pid : Pid, ppid : Pid \cup {0}, uid : Uid, comm : Name, container : BOOLEAN,
   exe : Path \cup {None}, cmdline : Cmdline \cup {None},
   ancestry : Seq([pid : Pid, comm : Name]),  \* the parents, nearest first
   path : Path \cup {None},  \* the binary of an Exec, the file of a Write or SecretRead
   loopback : BOOLEAN,       \* whether a Connect stays on the host
   odd_port : BOOLEAN]       \* whether it goes to a port outside SAFE_PORTS
=============================================================================
