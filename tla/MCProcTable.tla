----------------------------- MODULE MCProcTable -----------------------------
(***************************************************************************)
(* The process table on its own over five pids, of which it holds four and *)
(* walks up three: parents that form cycles, and lines longer than a walk, *)
(* ancestors that fill the table and evict the process they come with,     *)
(* images and command lines learned late.                                  *)
(***************************************************************************)
EXTENDS ProcTableSpec

MCBaseName == [p \in Path |-> "sh"]
MCArgNames == [c \in Cmdline |-> {"npm"}]

\* An event names its parent, a neighbour in the ring of pids, or, of process 1,
\* all the others as ancestors; the code falls back from the one to the other.
Neighbours(pid) == {(pid % 5) + 1, ((pid + 3) % 5) + 1}
Lines           == {<<2, 3, 4, 5>>, <<5, 4, 3, 2>>}
Ancestries      == {[i \in DOMAIN line |-> [pid |-> line[i], comm |-> "sh"]] : line \in Lines}
Parentage(pid)  == [ppid : {0} \cup Neighbours(pid), ancestry : {<<>>}]
              \cup [ppid : {0}, ancestry : IF pid = 1 THEN Ancestries ELSE {}]

\* Only process 1 is told of by more than its parents, in events that name none.
Write == [action |-> "Write", comm |-> "sh", exe |-> None, cmdline |-> None]
Told  == [action : {"Exec"}, comm : {"sh", "node"}, exe : {None}, cmdline : {None} \cup Cmdline]
    \cup [action : {"Write"}, comm : {"sh"}, exe : {None} \cup Path, cmdline : {None} \cup Cmdline]

MCEventOf(pid, f, d) ==
  [ts |-> 1, action |-> d.action, pid |-> pid, ppid |-> f.ppid, uid |-> 1, comm |-> d.comm,
   exe |-> d.exe, cmdline |-> d.cmdline, container |-> FALSE, ancestry |-> f.ancestry,
   path |-> "p", loopback |-> FALSE, odd_port |-> FALSE]
MCEvent ==
  UNION {{MCEventOf(pid, f, Write) : f \in Parentage(pid)} : pid \in Pid} \cup
  {MCEventOf(1, [ppid |-> 0, ancestry |-> <<>>], d) : d \in Told}
=============================================================================
