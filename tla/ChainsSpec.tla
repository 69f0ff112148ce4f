----------------------------- MODULE ChainsSpec -----------------------------
(***************************************************************************)
(* Chains fed any event that resolves to one of Inputs, with any findings  *)
(* of FoundSets the rules allow it: every stream of events the engine can  *)
(* be given, timestamps that lag (sensor CPUs race for the ring buffer)    *)
(* included.                                                               *)
(***************************************************************************)
EXTENDS Chains

CONSTANTS
  Inputs,     \* what events can resolve to
  FoundSets,  \* what the rules can make of one event
  Skew,       \* how far an event's timestamp may lag an earlier event's
  MaxTs       \* bound: timestamps are 1..MaxTs

ASSUME ChainsSpecAssumption ==
  /\ Inputs \subseteq Resolved
  /\ \A f \in FoundSets : IsFound(f)
  /\ Skew \in 0..IDLE_NS /\ MaxTs \in Nat

\* The rules evaluate asks of each kind of event.
RulesOf(action) ==
  {"C2"} \cup
  CASE action = "Exec"       -> {"P1", "P2", "P3", "L1", "L3", "L5", "L8", "L12", "L9"}
    [] action = "Write"      -> {"F2", "F3", "F4", "F5", "F6", "L6", "L7", "L10", "L11"}
    [] action = "SecretRead" -> {"L8", "F1"}
    [] action = "Connect"    -> {"N1", "N2", "N3", "L2"}

\* What can be found given the chain's state: N2 takes a secret read no later
\* than the event, L1 a path written in the chain, C2 a non-root anchor.
Admissible(chain, in, found, ts) ==
  /\ DOMAIN found \subseteq RulesOf(in.action)
  /\ "N2" \in DOMAIN found => chain.first_secret \in 0..ts
  /\ "L1" \in DOMAIN found => in.path \in chain.written
  /\ "C2" \in DOMAIN found => chain.uid \notin {0, NoUid}

Process(in, found, ts) ==
  /\ ts + Skew >= clock
  /\ Admissible(Attributed(in, ts), in, found, ts)
  /\ Handle(in, found, ts)

Next == \/ \E in \in Inputs, found \in FoundSets, ts \in 1..MaxTs : Process(in, found, ts)
        \/ Finish
        \/ Fail

Spec == Init /\ [][Next]_vars

\* An anchor's evidence is split over two chains only by a silence longer than
\* IDLE_NS, less what the timestamps may lag: a sweep closes the chain on the
\* newest timestamp and a lagging event then opens the next one
\* (lib.rs:135-147).
SplitOnlyByIdleness ==
  LET spans == ended \cup {Summary(k, chains[k]) : k \in DOMAIN chains}
  IN  \A d, e \in spans :
        d.key = e.key /\ d.id < e.id => e.first_ts + Skew > d.last_ts + IDLE_NS
=============================================================================
