-------------------------------- MODULE Host --------------------------------
(***************************************************************************)
(* What the engine's events are about: a host whose processes fork, exec   *)
(* and act, and sensors that miss nothing.  None of this is code of the    *)
(* repository; it is modelled from what event.rs says of an event and from *)
(* how the normalizer fills one in.  No event tells that a process exited, *)
(* so exits are no step of their own: an exited process just acts no more, *)
(* until its pid is handed out again.  An event names the parent that      *)
(* forked the process, exited or not, and the nearest of its ancestors, no *)
(* more of them than the normalizer climbs to.                             *)
(***************************************************************************)
EXTENDS Events, SequencesExt

CONSTANTS
  Image,   \* programs
  image,   \* per program: [comm, exe, cmdline, uid]
  SHELL,   \* the session shell's program
  Act,     \* what a process can do: [action, path, loopback, odd_port]
  REEXEC,  \* which programs replace which, in the process they run in
  ANCESTRY_MAX,  \* the ancestors an event names at most
  REUSE    \* whether the pid of an exited process is handed out again

ASSUME HostAssumption ==
  /\ image \in [Image -> [comm : Name, exe : Path, cmdline : Cmdline, uid : Uid]]
  /\ SHELL \in Image
  /\ Act \subseteq [action : Action \ {"Exec"}, path : Path \cup {None},
                    loopback : BOOLEAN, odd_port : BOOLEAN]
  /\ REEXEC \subseteq Image \X Image
  /\ ANCESTRY_MAX \in Nat \ {0} /\ REUSE \in BOOLEAN
  /\ 1 \in Pid

VARIABLE host  \* the processes that have existed: [parent, runs, execed, born]

\* The session shell runs as pid 1 and has no parent.
HostInit == host = <<[parent |-> 0, runs |-> SHELL, execed |-> TRUE, born |-> 1]>>

Started == DOMAIN host \ {1}

\* The processes above p, nearest first; a pid is looked up as it is now.
Above(p) ==
  LET up[n \in 0..Cardinality(DOMAIN host)] ==
        IF n = 0 THEN <<p>>
        ELSE LET top == host[Last(up[n - 1])].parent
             IN  IF top = 0 \/ top \in ToSet(up[n - 1])
                 THEN up[n - 1] ELSE Append(up[n - 1], top)
  IN  up[Cardinality(DOMAIN host)]

\* Pids are handed out in order; when they are reused, that of any process p
\* does not descend from may be.
Free(p) == {q \in Pid : IF q \in DOMAIN host THEN REUSE /\ q \notin ToSet(Above(p))
                                             ELSE \A r \in Pid : r < q => r \in DOMAIN host}
Fork(p) ==
  \E q \in Free(p) :
    host' = [r \in DOMAIN host \cup {q} |->
               IF r = q THEN [parent |-> p, runs |-> host[p].runs, execed |-> FALSE,
                              born |-> IF q \in DOMAIN host THEN host[q].born + 1 ELSE 1]
                        ELSE host[r]]

\* A forked copy loads any program, a program only what it is known to exec.
Load(p, img) ==
  /\ host[p].execed => <<host[p].runs, img>> \in REEXEC
  /\ host' = [host EXCEPT ![p].runs = img, ![p].execed = TRUE]

\* The normalized event of process p, of a host state h.
EventOf(h, p, act, ts) ==
  LET i     == image[h[p].runs]
      above == Tail(Above(p))
  IN  [ts |-> ts, action |-> act.action, pid |-> p, ppid |-> h[p].parent, uid |-> i.uid,
       comm |-> i.comm, exe |-> i.exe, cmdline |-> i.cmdline, container |-> FALSE,
       ancestry |-> [k \in DOMAIN above \cap 1..ANCESTRY_MAX |->
                       [pid |-> above[k], comm |-> image[h[above[k]].runs].comm]],
       path |-> act.path, loopback |-> act.loopback, odd_port |-> act.odd_port]
ExecOf(img) == [action |-> "Exec", path |-> image[img].exe, loopback |-> FALSE, odd_port |-> FALSE]
=============================================================================
