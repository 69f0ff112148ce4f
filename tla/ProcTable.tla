------------------------------ MODULE ProcTable ------------------------------
(***************************************************************************)
(* The engine's own view of the process tree (proctable.rs): a bounded     *)
(* table of processes, filled from what events say about their process     *)
(* and its ancestors, and the lineage walk over it.                        *)
(*                                                                         *)
(* names_of reads the names a process answers to out of its comm, binary   *)
(* and command line; the constants base_name and arg_names say what it     *)
(* finds there.                                                            *)
(***************************************************************************)
EXTENDS Events, SequencesExt

CONSTANTS
  base_name,  \* the last component of a binary's path
  arg_names,  \* the names in a command line: argv[0] and an interpreter's script
  CAP,        \* processes remembered at once
  MAX_DEPTH   \* furthest a lineage walk goes

ASSUME ProcTableAssumption ==
  /\ base_name \in [Path -> Name]
  /\ arg_names \in [Cmdline -> SUBSET Name]
  /\ CAP \in Nat \ {0} /\ MAX_DEPTH \in Nat \ {0}

VARIABLES map,   \* the known processes, by pid
          order  \* their pids, in order of insertion

tableVars == <<map, order>>

\* names_of.
NamesOf(comm, exe, cmdline) ==
  {comm} \cup (IF exe = None THEN {} ELSE {base_name[exe]})
         \cup (IF cmdline = None THEN {} ELSE arg_names[cmdline])

\* refresh_names.
Named_Once(p) ==
  IF p.names = {} THEN [p EXCEPT !.names = NamesOf(p.comm, p.exe, p.cmdline)] ELSE p
Named(p) == [p EXCEPT !.names = NamesOf(p.comm, p.exe, p.cmdline)]

Knows(t, pid) == pid \in DOMAIN t.map

\* insert: the oldest entry makes room for a new one.
Insert_NoEviction(t, pid, p) ==
  [map |-> [q \in DOMAIN t.map \cup {pid} |-> IF q = pid THEN Named(p) ELSE t.map[q]],
   order |-> Append(t.order, pid)]
Insert(t, pid, p) ==
  LET queue   == Append(t.order, pid)
      evicted == IF Len(queue) > CAP THEN {Head(queue)} ELSE {}
  IN  [map   |-> [q \in (DOMAIN t.map \cup {pid}) \ evicted |->
                    IF q = pid THEN Named(p) ELSE t.map[q]],
       order |-> IF evicted = {} THEN queue ELSE Tail(queue)]

\* An ancestry entry links a known process that has no parent yet, or adds one.
ObserveAncestor(t, ancestry, i) ==
  LET pid    == ancestry[i].pid
      parent == IF i < Len(ancestry) THEN ancestry[i + 1].pid ELSE 0
  IN  IF ~Knows(t, pid)
      THEN Insert(t, pid,
                  [pid |-> pid, ppid |-> parent, comm |-> ancestry[i].comm, exe |-> None,
                   cmdline |-> None, uid |-> NoUid, container |-> FALSE,
                   start_ts |-> 0, names |-> {}])
      ELSE IF t.map[pid].ppid = 0 THEN [t EXCEPT !.map[pid].ppid = parent] ELSE t

ObserveAncestry(t, ancestry) ==
  LET upto[n \in 0..Len(ancestry)] ==
        IF n = 0 THEN t ELSE ObserveAncestor(upto[n - 1], ancestry, n)
  IN  upto[Len(ancestry)]

\* What an event says of its own process.
ParentOf(ev) ==
  IF ev.ppid # 0 THEN ev.ppid
  ELSE IF ev.ancestry = <<>> THEN 0 ELSE ev.ancestry[1].pid
ExeOf(ev) ==
  IF ev.exe = None /\ ev.action = "Exec" THEN ev.path ELSE ev.exe

\* A new image keeps the process's identity unless its parent changed.
StartOf_Exec(p, ev) == ev.ts
StartOf(p, ev) ==
  IF p.ppid # 0 /\ ParentOf(ev) # 0 /\ p.ppid # ParentOf(ev) THEN ev.ts ELSE p.start_ts
Reimaged(p, ev) ==
  LET ppid == ParentOf(ev)
  IN  Named([p EXCEPT
        !.start_ts  = StartOf(p, ev),
        !.ppid      = IF ppid # 0 THEN ppid ELSE @,
        !.comm      = ev.comm,
        !.exe       = ExeOf(ev),
        !.cmdline   = ev.cmdline,
        !.uid       = ev.uid,
        !.container = ev.container])

\* Any other event only fills in what is not known yet.
FilledIn(p, ev) ==
  [p EXCEPT !.ppid      = IF @ = 0 THEN ParentOf(ev) ELSE @,
            !.uid       = ev.uid,
            !.exe       = IF @ = None THEN ExeOf(ev) ELSE @,
            !.cmdline   = IF @ = None THEN ev.cmdline ELSE @,
            !.container = @ \/ ev.container]
Filled_ByExe(p, ev) ==
  LET q == FilledIn(p, ev) IN IF q.exe # p.exe THEN Named(q) ELSE q
Filled(p, ev) ==
  LET q == FilledIn(p, ev)
  IN  IF q.exe # p.exe \/ q.cmdline # p.cmdline THEN Named(q) ELSE q

Fresh(ev) ==
  [pid |-> ev.pid, ppid |-> ParentOf(ev), comm |-> ev.comm, exe |-> ExeOf(ev),
   cmdline |-> ev.cmdline, uid |-> ev.uid, container |-> ev.container,
   start_ts |-> IF ev.action = "Exec" THEN ev.ts ELSE 0, names |-> {}]

ObserveSelf(t, ev) ==
  IF ~Knows(t, ev.pid) THEN Insert(t, ev.pid, Fresh(ev))
  ELSE IF ev.action = "Exec" THEN [t EXCEPT !.map[ev.pid] = Reimaged(@, ev)]
  ELSE [t EXCEPT !.map[ev.pid] = Filled(@, ev)]

\* ProcTable::observe, ancestors first.
Observed_SelfFirst(t, ev) == ObserveAncestry(ObserveSelf(t, ev), ev.ancestry)
Observed(t, ev) == ObserveSelf(ObserveAncestry(t, ev.ancestry), ev)

Observe(ev) == LET t == Observed([map |-> map, order |-> order], ev)
               IN  map' = t.map /\ order' = t.order

TableInit == map = <<>> /\ order = <<>>

-----------------------------------------------------------------------------
\* The walk from `pid' stops at a process whose parent is unknown or already in
\* it, and at MAX_DEPTH. m is the table's map.
Onward_SelfParent(m, walk) ==
  LET p == Last(walk) IN p.ppid \in DOMAIN m /\ p.ppid # p.pid
Onward(m, walk) ==
  LET p == Last(walk)
  IN  p.ppid \in DOMAIN m /\ \A i \in DOMAIN walk : walk[i].pid # p.ppid

Further(m, walk) ==
  IF Onward(m, walk) THEN Append(walk, m[Last(walk).ppid]) ELSE walk

\* ProcTable::lineage: pid and its known ancestors, nearest first.
Lineage(m, pid) ==
  IF pid \notin DOMAIN m THEN <<>>
  ELSE LET walk[n \in 0..(MAX_DEPTH - 1)] ==
             IF n = 0 THEN <<m[pid]>> ELSE Further(m, walk[n - 1])
       IN  walk[MAX_DEPTH - 1]
=============================================================================
