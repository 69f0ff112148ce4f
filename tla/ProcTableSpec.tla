---------------------------- MODULE ProcTableSpec ----------------------------
(***************************************************************************)
(* The process table on its own, whatever the events: their processes and  *)
(* ancestries need not fit each other, let alone a host.                   *)
(***************************************************************************)
EXTENDS ProcTable

CONSTANT Event  \* the events that may come

ASSUME ProcTableSpecAssumption == \A ev \in Event : ev \in EventType

VARIABLE last  \* history: the pid of the last event, 0 before the first

tableSpecVars == <<map, order, last>>

TableSpecInit == TableInit /\ last = 0
TableSpecNext == \E ev \in Event : Observe(ev) /\ last' = ev.pid
TableSpec == TableSpecInit /\ [][TableSpecNext]_tableSpecVars

-----------------------------------------------------------------------------
\* The queue that decides who is evicted lists exactly the processes in the
\* map, each once, and no more than CAP of them (proctable.rs:187-198).
TableAgrees ==
  /\ DOMAIN map = ToSet(order) /\ Len(order) = Cardinality(DOMAIN map)
  /\ Len(order) <= CAP
  /\ \A pid \in DOMAIN map : map[pid].pid = pid

\* The names a process is matched by are never those of an image or a command
\* line it no longer has, nor short of one learned since (proctable.rs:41-43).
NamesCurrent ==
  \A pid \in DOMAIN map :
    map[pid].names = NamesOf(map[pid].comm, map[pid].exe, map[pid].cmdline)

\* Observing an event never loses the process that caused it, even when its own
\* ancestors fill the table: the engine always gets a lineage that starts at it
\* (lib.rs:60-66).
ActorKnown ==
  last # 0 => Lineage(map, last) # <<>> /\ Lineage(map, last)[1].pid = last

\* A lineage walk visits no process twice and is bounded, even when the parents
\* recorded form a cycle (proctable.rs:171-185).
LineageSound ==
  \A pid \in DOMAIN map :
    LET walk == Lineage(map, pid)
    IN  /\ Len(walk) <= MAX_DEPTH
        /\ \A i, j \in DOMAIN walk : walk[i].pid = walk[j].pid => i = j
=============================================================================
