------------------------------- MODULE Muting -------------------------------
(***************************************************************************)
(* The exec, fork, file and TCP probes (sensors-ebpf), the maps they share *)
(* with the loader (main.rs of sensors), and the normalizer between them:  *)
(* who is muted, by which half, and what of the host is reported.          *)
(*                                                                         *)
(* The loader seeds the mutes, attaches the fork probe, then the others,   *)
(* and drains the ring one event at a time: it normalizes the event, then  *)
(* pushes the newly muted pids to the kernel.  The host runs on between    *)
(* any two of these steps.                                                 *)
(*                                                                         *)
(* History variables: `unseen' (the processes that became tools after the  *)
(* seeding without an event of it in the ring) and `fate' (what became of  *)
(* the event the last step decided about).                                 *)
(***************************************************************************)
EXTENDS Tasks, Normalizer

CONSTANTS
  RING,            \* events the ring holds
  PID_PARENT_MAX,  \* entries of PID_PARENT, which keeps what it has
  MUTED_MAX,       \* entries of MUTED, which evicts
  Opens,           \* the opens tasks make: [write, tmpfile, path]
  THREADS,         \* whether tasks clone threads
  MaxSteps         \* bound: steps the host takes

ASSUME MutingAssumption ==
  /\ RING \in Nat \ {0} /\ PID_PARENT_MAX \in Nat /\ MUTED_MAX \in Nat \ {0}
  /\ Opens \subseteq [write : BOOLEAN, tmpfile : BOOLEAN,
                      path : {"plain", "secret", "environ", "pseudo", "relative", "desktop"}]
  /\ THREADS \in BOOLEAN /\ MaxSteps \in Nat
  /\ muted_exes = TOOLS

VARIABLES probes, PID_PARENT, MUTED, EVENTS, pc, normalizer, steps, unseen, fate

vars == <<tasks, steps, probes, PID_PARENT, MUTED, EVENTS, pc, normalizer, unseen, fate>>

\* Nothing was decided.
Undecided == [is |-> "none"]

Init == /\ TasksInit /\ steps = 0
        /\ probes = "none" /\ PID_PARENT = <<>> /\ MUTED = {} /\ EVENTS = <<>>
        /\ pc = "seed" /\ normalizer = New
        /\ unseen = {} /\ fate = Undecided

-----------------------------------------------------------------------------
(* The maps.                                                               *)

\* A BPF hash map refuses a new key when it is full.
Put(map, key, value) ==
  IF key \in DOMAIN map \/ Cardinality(DOMAIN map) < PID_PARENT_MAX
  THEN [k \in DOMAIN map \cup {key} |-> IF k = key THEN value ELSE map[k]]
  ELSE map

\* The LRU map takes new keys at the cost of any others.
Into(map, keys) ==
  {m \in SUBSET (map \cup keys) :
     /\ Cardinality(m) = IF Cardinality(map \cup keys) <= MUTED_MAX
                         THEN Cardinality(map \cup keys) ELSE MUTED_MAX
     /\ keys \subseteq m \/ m \subseteq keys}

ParentOf(pid) == IF pid \in DOMAIN PID_PARENT THEN PID_PARENT[pid] ELSE 0

\* reserve and submit, or drop the event when the ring is full.
Emit(event) == EVENTS' = IF Len(EVENTS) < RING THEN Append(EVENTS, event) ELSE EVENTS

-----------------------------------------------------------------------------
(* The probes, each run by the task whose step fires it.                   *)

try_fork_Swapped(parent, child) ==
  /\ PID_PARENT' = Put(PID_PARENT, parent, child)
  /\ MUTED' \in IF parent \in MUTED THEN Into(MUTED, {child}) ELSE {MUTED}
try_fork(parent, child) ==
  /\ PID_PARENT' = Put(PID_PARENT, child, parent)
  /\ MUTED' \in IF parent \in MUTED THEN Into(MUTED, {child}) ELSE {MUTED}

\* An event; `from', which tasks up to a tool started its process, is history.
Event(pid, kind, exe, reason, path) ==
  [pid |-> pid, ppid |-> ParentOf(pid), kind |-> kind,
   exe |-> exe, reason |-> reason, path |-> path, from |-> tasks'[pid].started]

\* What a probe says nothing of, because its process is muted or the event is
\* of no interest.
Silence(pid, watched) == fate' = [is |-> "silenced", pid |-> pid, watched |-> watched]

try_exec(pid, program) ==
  \/ /\ pid \in MUTED
     /\ Silence(pid, TRUE)
     /\ UNCHANGED <<MUTED, EVENTS>>
  \/ /\ pid \notin MUTED /\ program = VPNIP
     /\ MUTED' \in Into(MUTED, {pid})
     /\ Silence(pid, TRUE)
     /\ UNCHANGED EVENTS
  \/ /\ pid \notin MUTED /\ program # VPNIP
     /\ Emit(Event(pid, "exec", program, "", ""))
     /\ fate' = Undecided /\ UNCHANGED MUTED

\* Why an open is reported.
Reason_NoiseFirst(open) ==
  CASE open.path \in {"pseudo", "environ"} \/ open.tmpfile -> "none"
    [] ~(open.path \in {"pseudo", "environ"} \/ open.tmpfile) ->
         IF open.write THEN "write" ELSE IF open.path = "secret" THEN "secret_read" ELSE "none"
Reason(open) ==
  CASE ~open.write /\ open.path \in {"secret", "environ"} -> "secret_read"
    [] open.write /\ open.path \notin {"pseudo", "environ"} /\ ~open.tmpfile -> "write"
    [] OTHER -> "none"

\* Whether a reviewer of the capture would miss the open.
Watched(open) == IF open.write THEN open.path \in {"plain", "secret"} /\ ~open.tmpfile
                               ELSE open.path \in {"secret", "environ"}

try_open(pid, open) ==
  \/ /\ pid \in MUTED \/ Reason(open) = "none"
     /\ Silence(pid, Watched(open))
     /\ UNCHANGED EVENTS
  \/ /\ pid \notin MUTED /\ Reason(open) # "none"
     /\ Emit(Event(pid, "file", "", Reason(open), open.path))
     /\ fate' = Undecided

try_connect(pid) ==
  \/ /\ pid \in MUTED
     /\ Silence(pid, TRUE)
     /\ UNCHANGED EVENTS
  \/ /\ pid \notin MUTED
     /\ Emit(Event(pid, "net", "", "", ""))
     /\ fate' = Undecided

-----------------------------------------------------------------------------
(* The host's steps, with the probes that are attached.                    *)

Fork(t) ==
  /\ \E thread \in {FALSE} \cup {THREADS} : Start(t, thread)
  /\ IF probes = "none" THEN UNCHANGED <<PID_PARENT, MUTED>> ELSE try_fork(t, NextTask)
  /\ fate' = Undecided
  /\ UNCHANGED <<probes, EVENTS, pc, normalizer, unseen>>

Exec(p) ==
  /\ \E program \in Program :
       /\ Load(p, program)
       /\ IF probes = "all" THEN try_exec(p, program)
          ELSE fate' = Undecided /\ UNCHANGED <<MUTED, EVENTS>>
  /\ unseen' = IF pc # "seed" /\ EVENTS' = EVENTS /\ tasks'[p].exe \in TOOLS
               THEN unseen \cup {p} ELSE unseen
  /\ UNCHANGED <<probes, PID_PARENT, pc, normalizer>>

Leave(t) == Exit(t) /\ fate' = Undecided
            /\ UNCHANGED <<probes, PID_PARENT, MUTED, EVENTS, pc, normalizer, unseen>>

Open(t) ==
  /\ probes = "all" /\ t \in Live /\ UNCHANGED tasks
  /\ \E open \in Opens : try_open(tasks[t].group, open)
  /\ UNCHANGED <<probes, PID_PARENT, MUTED, pc, normalizer, unseen>>

Connect(t) ==
  /\ probes = "all" /\ t \in Live /\ UNCHANGED tasks
  /\ try_connect(tasks[t].group)
  /\ UNCHANGED <<probes, PID_PARENT, MUTED, pc, normalizer, unseen>>

Host == /\ steps < MaxSteps /\ steps' = steps + 1
        /\ \E t \in DOMAIN tasks : Fork(t) \/ Exec(t) \/ Leave(t) \/ Open(t) \/ Connect(t)

-----------------------------------------------------------------------------
(* The loader.                                                             *)

\* push_muted: the pids newly muted go to the kernel.
Pushed(n) == Into(MUTED, ToSet(n.newly_muted))
Taken(n)  == [n EXCEPT !.newly_muted = <<>>]

\* The tools already running are muted before any probe is attached.
Seed ==
  LET listed == [t \in DOMAIN tasks |-> t \in Live \cap Processes]
      n      == SeedMuted(normalizer, listed, Proc)
  IN  /\ pc = "seed" /\ pc' = "attach_fork"
      /\ MUTED' \in Pushed(n)
      /\ normalizer' = Taken(n)
      /\ fate' = Undecided
      /\ UNCHANGED <<tasks, steps, probes, PID_PARENT, EVENTS, unseen>>

AttachFork == /\ pc = "attach_fork" /\ pc' = "attach_rest"
              /\ probes' = "fork" /\ fate' = Undecided
              /\ UNCHANGED <<tasks, steps, PID_PARENT, MUTED, EVENTS, normalizer, unseen>>

AttachRest == /\ pc = "attach_rest" /\ pc' = "drain"
              /\ probes' = "all" /\ fate' = Undecided
              /\ UNCHANGED <<tasks, steps, PID_PARENT, MUTED, EVENTS, normalizer, unseen>>

\* drain takes the next event out of the ring and normalizes it...
Drain ==
  LET event   == Head(EVENTS)
      outcome == Normalize(normalizer, event, Proc)
  IN  /\ pc = "drain" /\ EVENTS # <<>>
      /\ pc' = "push"
      /\ EVENTS' = Tail(EVENTS)
      /\ normalizer' = outcome.n
      /\ fate' = IF outcome.line = NoLine
                 THEN [is |-> "silenced", pid |-> event.pid,
                       watched |-> event.kind # "file" \/ event.reason = "secret_read"
                                                       \/ event.path \in {"plain", "secret"}]
                 ELSE [is |-> "captured", line |-> outcome.line, from |-> event.from]
      /\ UNCHANGED <<tasks, steps, probes, PID_PARENT, MUTED, unseen>>

\* ... then tells the kernel whom the event showed to be muted.
Push == /\ pc = "push" /\ pc' = "drain"
        /\ MUTED' \in Pushed(normalizer)
        /\ normalizer' = Taken(normalizer)
        /\ fate' = Undecided
        /\ UNCHANGED <<tasks, steps, probes, PID_PARENT, EVENTS, unseen>>

Loader == Seed \/ AttachFork \/ AttachRest \/ Drain \/ Push

Next == Host \/ Loader
Spec == Init /\ [][Next]_vars

-----------------------------------------------------------------------------
(* Properties.                                                             *)

IsFate(f) ==
  \/ f = Undecided
  \/ /\ f.is = "silenced" /\ f.pid \in DOMAIN tasks /\ f.watched \in BOOLEAN
  \/ /\ f.is = "captured"
     /\ f.from \subseteq DOMAIN tasks /\ f.line.pid \in DOMAIN tasks /\ f.line.ppid \in {0} \cup DOMAIN tasks
     /\ f.line.ancestry \in Seq(DOMAIN tasks) /\ Len(f.line.ancestry) <= ANCESTRY_MAX

\* Types, and the bounds the caches and maps promise to keep.
TypeOK ==
  /\ probes \in {"none", "fork", "all"}
  /\ pc \in {"seed", "attach_fork", "attach_rest", "drain", "push"}
  /\ DOMAIN PID_PARENT \subseteq DOMAIN tasks /\ Cardinality(DOMAIN PID_PARENT) <= PID_PARENT_MAX
  /\ \A c \in DOMAIN PID_PARENT : PID_PARENT[c] \in DOMAIN tasks
  /\ MUTED \subseteq DOMAIN tasks /\ Cardinality(MUTED) <= MUTED_MAX
  /\ Len(EVENTS) <= RING
  /\ \A i \in DOMAIN EVENTS : EVENTS[i].pid \in Processes
  /\ ToSet(normalizer.order) = DOMAIN normalizer.procs
  /\ IsInjective(normalizer.order) /\ Len(normalizer.order) <= PROC_CACHE_CAP
  /\ normalizer.muted \subseteq DOMAIN tasks
  /\ Cardinality(normalizer.muted) <= MUTED_CACHE_CAP
  /\ ToSet(normalizer.newly_muted) \subseteq DOMAIN tasks
  /\ unseen \subseteq Processes /\ IsFate(fate)

\* No mute is unearned: whoever the kernel or the normalizer holds muted
\* descends from a process that ran a tool or the widget, however the fork
\* propagation, the walks, the caches and /proc reads interleaved with forks,
\* execs and exits (process.rs:133-137, normalize.rs:297-334).
MutesEarned ==
  \A t \in MUTED \cup normalizer.muted \cup ToSet(normalizer.newly_muted) : Beneath(t)

\* Nothing a reviewer would look for is kept silent about a process that is
\* no tool's: execs, connections, secret reads and writes of ordinary files
\* are silenced for muted processes only (file.rs:195-203, normalize.rs:121).
SilenceEarned == fate.is = "silenced" /\ fate.watched => Beneath(fate.pid)

\* While everything between a process and the tool that started it is alive,
\* the probes saw the tool start and it has not loaded another program, nothing of
\* it is captured, at any point of the start-up or of the drain (normalize.rs:66-69).
OnlyOrphansLeak ==
  fate.is = "captured" /\ fate.from # {} =>
    \/ fate.from \cap unseen # {}
    \/ \E t \in fate.from : t \notin Live \/ tasks[t].left
    \/ Cardinality(fate.from) > MUTE_DEPTH

\* The lineage of a captured event names only tasks the process descends from,
\* each above the one before it, though its links were learnt at different
\* times and from three sources: fork events, exec events and /proc
\* (normalize.rs:359-376).
AncestryTrue ==
  fate.is = "captured" =>
    LET line == <<fate.line.pid>> \o fate.line.ancestry
    IN  \A i, j \in DOMAIN line :
          i < j => tasks[line[j]].group \in tasks[line[i]].above

\* A parent in the record is a process.
ParentIsProcess ==
  fate.is = "captured" => fate.line.ppid \in {0} \cup Processes

\* Everything a tool starts is muted.
EverythingMuted ==
  fate.is = "captured" => fate.from = {}
=============================================================================
