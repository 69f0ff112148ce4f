------------------------------- MODULE Engine -------------------------------
(***************************************************************************)
(* Engine::process (lib.rs) as a whole: the process table learns from the  *)
(* event, the lineage gives the anchor, the anchor gives the chain and the *)
(* rules are evaluated against it.                                         *)
(*                                                                         *)
(* The early return on an empty lineage is left out: ProcTableSpec's       *)
(* ActorKnown shows that there is none.                                    *)
(***************************************************************************)
EXTENDS Chains, Rules

engineVars == <<vars, tableVars>>

EngineInit == Init /\ TableInit

\* A seeded fault, used only as a mutant of the definition that follows it.
Resolution_ByActor(ev, lineage) ==
  [action |-> ev.action, path |-> ev.path,
   key |-> <<ev.pid, lineage[1].start_ts>>, kind |-> FindAnchor(lineage).kind,
   uid |-> lineage[1].uid, build |-> Is(lineage[1], BUILD_TOOLS)]

\* The chain an event belongs to: its anchor's identity and what it is.
Resolution(ev, lineage) ==
  LET found  == FindAnchor(lineage)
      anchor == lineage[found.idx]
  IN  [action |-> ev.action, path |-> ev.path,
       key |-> <<anchor.pid, anchor.start_ts>>, kind |-> found.kind, uid |-> anchor.uid,
       build |-> \E i \in 1..found.idx : Is(lineage[i], BUILD_TOOLS)]

LineageAfter(ev) == Lineage(Observed([map |-> map, order |-> order], ev).map, ev.pid)

\* Engine::process.
ProcessEvent(ev) ==
  LET lineage == LineageAfter(ev)
      in      == Resolution(ev, lineage)
      ctx     == [ev |-> ev, lineage |-> lineage, idx |-> FindAnchor(lineage).idx,
                  chain |-> Attributed(in, ev.ts)]
  IN  Handle(in, Evaluate(ctx), ev.ts) /\ Observe(ev)
=============================================================================
