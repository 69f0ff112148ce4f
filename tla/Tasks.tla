-------------------------------- MODULE Tasks --------------------------------
(***************************************************************************)
(* The tasks of the monitored host: processes and their threads, which     *)
(* share one space of ids.  None of this is code of the repository; it is  *)
(* the kernel as the probes and the normalizer use it.  A process is named *)
(* by its group leader's id, a fork or clone is made by a single thread,   *)
(* an exec ends the other threads of its process, and the /proc entry of   *)
(* an orphan names process 1 as the parent.  Ids are not handed out twice. *)
(*                                                                         *)
(* `above', `ran', `started' and `left' record the truth the sensor can    *)
(* only reconstruct: the processes a task descends from, whether its       *)
(* process ever ran a program to be muted, the tasks from it up to the     *)
(* tool that started it, if a tool did, and whether it was a tool that     *)
(* loaded something else.                                                  *)
(***************************************************************************)
EXTENDS Integers, FiniteSets

CONSTANTS
  MaxTask,  \* bound: tasks ever started
  Program,  \* what tasks run
  LOADS,    \* which programs load which, in the process they run in
  SHELL,    \* what process 1 runs
  TOOLS,    \* the programs $SECRISK_MUTE_EXE matches
  VPNIP     \* the panel widget

ASSUME TasksAssumption ==
  /\ MaxTask \in Nat \ {0}
  /\ SHELL \in Program \ (TOOLS \cup {VPNIP}) /\ LOADS \subseteq Program \X Program
  /\ TOOLS \subseteq Program /\ VPNIP \notin TOOLS

VARIABLE tasks

TasksInit ==
  tasks = <<[group |-> 1, parent |-> 0, exe |-> SHELL, live |-> TRUE,
             above |-> {1}, ran |-> FALSE, started |-> {}, left |-> FALSE]>>

Live      == {t \in DOMAIN tasks : tasks[t].live}
Processes == {p \in DOMAIN tasks : tasks[p].group = p}

\* A task descends from a process that ran a tool or the widget.
Beneath(t) == \E p \in tasks[t].above : tasks[p].ran

\* Task t forks a process, or clones a thread of its own process.
NextTask == Cardinality(DOMAIN tasks) + 1
Start(t, thread) ==
  /\ t \in Live /\ NextTask \in 1..MaxTask
  /\ tasks' = [u \in 1..NextTask |->
       IF u \in DOMAIN tasks THEN tasks[u]
       ELSE [tasks[t] EXCEPT
               !.group   = IF thread THEN @ ELSE u,
               !.parent  = t,
               !.above   = IF thread THEN @ ELSE @ \cup {u},
               !.ran     = FALSE, !.left = FALSE,
               !.started = IF @ = {} THEN {} ELSE @ \cup {u}]]

\* A process loads a program; a tool that loads another is one no more.
Load(p, program) ==
  /\ p \in (Processes \cap Live) \ {1}
  /\ <<tasks[p].exe, program>> \in LOADS
  /\ tasks' = [t \in DOMAIN tasks |->
       CASE t = p -> [tasks[p] EXCEPT
                        !.exe     = program,
                        !.ran     = @ \/ program \in TOOLS \cup {VPNIP},
                        !.left    = @ \/ (tasks[p].started = {p} /\ program \notin TOOLS),
                        !.started = CASE program \in TOOLS                  -> {p}
                                      [] program \notin TOOLS /\ @ = {p}    -> {}
                                      [] program \notin TOOLS /\ @ # {p}    -> @]
         [] t # p /\ tasks[t].group = p -> [tasks[t] EXCEPT !.live = FALSE]
         [] OTHER -> tasks[t]]

\* A process exits with its threads, or one thread does.
Exit(t) ==
  /\ t \in Live \ {1}
  /\ tasks' = [u \in DOMAIN tasks |->
       IF u = t \/ tasks[u].group = t THEN [tasks[u] EXCEPT !.live = FALSE] ELSE tasks[u]]

\* /proc: what reading /proc/<id> finds. Directory listings show processes only.
ParentNow(t) ==
  LET p == tasks[tasks[t].group].parent
  IN  CASE p = 0 -> 0
        [] p # 0 /\ tasks[p].group \in Live -> tasks[p].group
        [] OTHER -> 1
Proc == [t \in Live |-> [ppid |-> ParentNow(t), exe |-> tasks[t].exe]]
=============================================================================
