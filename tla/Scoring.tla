------------------------------- MODULE Scoring -------------------------------
(***************************************************************************)
(* What a chain's hits are worth: the rules' points and tactics            *)
(* (rules/mod.rs, mitre.rs) and the score, bands and kill-chain            *)
(* progression computed from them (score.rs).                              *)
(*                                                                         *)
(* `hits' is a function from the rules that fired in a chain to            *)
(* [ts, tactic]: when each fired first and the tactic it was mapped to.    *)
(* The sums are written out, rule by rule, and nothing here is RECURSIVE,  *)
(* so that ScoringProofs can reason about them.                            *)
(***************************************************************************)
EXTENDS Integers, Sequences, FiniteSets, SequencesExt

ProcessRules == {"P1", "P2", "P3", "L1", "L3", "L5", "L12"}
FileRules    == {"F1", "F2", "F3", "F4", "F5", "F6", "L6", "L7", "L8", "L10", "L11"}
NetworkRules == {"N1", "N2", "N3", "L2"}
ContextRules == {"C1", "C2", "L9", "C3"}
RuleId == ProcessRules \cup FileRules \cup NetworkRules \cup ContextRules

Points(r) ==
  CASE r \in {"N1", "N3"} -> 5
    [] r \in {"P1", "P2", "L3", "F2", "C2", "C3"} -> 10
    [] r \in {"P3", "L1", "L5", "C1", "L9"} -> 15
    [] r = "F1" -> 25
    [] r = "L12" -> 30
    [] OTHER -> 20

\* ATT&CK tactics in kill-chain order; the order is what C3 reads.
InitialAccess       == 1
Execution           == 2
Persistence         == 3
PrivilegeEscalation == 4
DefenseEvasion      == 5
CredentialAccess    == 6
Collection          == 7
CommandAndControl   == 8
Exfiltration        == 9
Tactic   == 1..9
NoTactic == 0

\* The tactic a rule's Finding starts with; L10 may override its own.
TacticOf(r) ==
  CASE r \in {"L6", "L11"} -> InitialAccess
    [] r \in {"P1", "L2"} -> Execution
    [] r \in {"L12", "F3", "F4", "F5", "F6", "L7", "L10"} -> Persistence
    [] r \in {"L3", "L5"} -> DefenseEvasion
    [] r \in {"F1", "L8"} -> CredentialAccess
    [] r = "F2" -> Collection
    [] r \in {"P2", "L1", "N1", "N3"} -> CommandAndControl
    [] r = "N2" -> Exfiltration
    [] OTHER -> NoTactic

-----------------------------------------------------------------------------
CAP_PROCESS == 30
CAP_FILE    == 25
CAP_NETWORK == 25
CAP_CONTEXT == 20

AtMost(cap, n) == IF n < cap THEN n ELSE cap

\* Seeded faults, used only as mutants of the definition that follows them.
Counted_C1Alone(fired) ==
  LET ungated == fired \ {"C1"} IN IF ungated = {} THEN fired ELSE ungated
Counted_C1Ungated(fired) ==
  {r \in fired : r = "N3" => fired \cap {"N1", "N2"} # {}}

\* N3 is a modifier of N1 and N2, and C1 of any other counted rule.
Counted(fired) ==
  LET ungated == {r \in fired : /\ r # "C1"
                                /\ r = "N3" => fired \cap {"N1", "N2"} # {}}
  IN  ungated \cup (IF ungated = {} THEN {} ELSE fired \cap {"C1"})

Worth(r, counted) == IF r \in counted THEN Points(r) ELSE 0

ProcessScore(c) ==
  AtMost(CAP_PROCESS,
         Worth("P1", c) + Worth("P2", c) + Worth("P3", c) + Worth("L1", c)
           + Worth("L3", c) + Worth("L5", c) + Worth("L12", c))
FileScore_Uncapped(c) ==
  Worth("F1", c) + Worth("F2", c) + Worth("F3", c) + Worth("F4", c)
    + Worth("F5", c) + Worth("F6", c) + Worth("L6", c) + Worth("L7", c)
    + Worth("L8", c) + Worth("L10", c) + Worth("L11", c)
FileScore(c) ==
  AtMost(CAP_FILE,
         Worth("F1", c) + Worth("F2", c) + Worth("F3", c) + Worth("F4", c)
           + Worth("F5", c) + Worth("F6", c) + Worth("L6", c) + Worth("L7", c)
           + Worth("L8", c) + Worth("L10", c) + Worth("L11", c))
NetworkScore(c) ==
  AtMost(CAP_NETWORK,
         Worth("N1", c) + Worth("N2", c) + Worth("N3", c) + Worth("L2", c))
ContextScore(c) ==
  AtMost(CAP_CONTEXT,
         Worth("C1", c) + Worth("C2", c) + Worth("L9", c) + Worth("C3", c))

\* Score::of(hits).total, of the set of rules that fired.
Total(fired) ==
  LET c == Counted(fired)
  IN  ProcessScore(c) + FileScore(c) + NetworkScore(c) + ContextScore(c)

\* The bands, in their order.
Low      == 0
Medium   == 1
High     == 2
Critical == 3
Severity == 0..3

SeverityOf(score) ==
  CASE score <= 30 -> Low
    [] score \in 31..60 -> Medium
    [] score \in 61..80 -> High
    [] OTHER -> Critical

\* The band of a set of fired rules.
Band(fired) == SeverityOf(Total(fired))

-----------------------------------------------------------------------------
PROGRESSION_LEN == 3

\* When each tactic of a counted, non-context hit was first seen, as <<ts, tactic>>.
FirstSeen(hits) ==
  LET mapped == {r \in Counted(DOMAIN hits) \ ContextRules :
                   hits[r].tactic # NoTactic}
      seen   == {<<hits[r].ts, hits[r].tactic>> : r \in mapped}
  IN  {p \in seen : \A q \in seen : q[2] = p[2] => p[1] <= q[1]}

\* Tactics by first sighting; those first seen together, in kill-chain order.
InOrderSeen(first) ==
  LET before(p) == {q \in first : q[1] < p[1] \/ (q[1] = p[1] /\ q[2] < p[2])}
      at(i)     == CHOOSE p \in first : Cardinality(before(p)) = i - 1
  IN  [i \in 1..Cardinality(first) |-> at(i)[2]]

Extend_Greedy(runs, t) ==
  IF runs # <<>> /\ Last(Last(runs)) < t THEN Append(Last(runs), t) ELSE <<t>>

\* The longest rising run ending at t: t appended to the first of the longest
\* runs found so far that end on a lesser tactic.
Extend(runs, t) ==
  LET below == {j \in DOMAIN runs : Last(runs[j]) < t}
      best  == CHOOSE j \in below : \A k \in below :
                 \/ Len(runs[k]) < Len(runs[j])
                 \/ Len(runs[k]) = Len(runs[j]) /\ j <= k
  IN  IF below = {} THEN <<t>> ELSE Append(runs[best], t)

With(runs, t) == Append(runs, Extend(runs, t))

\* For each tactic of `seq', in order, the longest rising run that ends there.
RisingRuns(seq) ==
  LET upto[n \in 0..Len(seq)] == IF n = 0 THEN <<>> ELSE With(upto[n - 1], seq[n])
  IN  upto[Len(seq)]

\* C3's tactics, <<>> when there is no progression. Of equally long runs the
\* last counts.
Progression(hits) ==
  LET runs == RisingRuns(InOrderSeen(FirstSeen(hits)))
      end  == CHOOSE i \in DOMAIN runs : \A k \in DOMAIN runs :
                \/ Len(runs[k]) < Len(runs[i])
                \/ Len(runs[k]) = Len(runs[i]) /\ k <= i
  IN  IF runs = <<>> \/ Len(runs[end]) < PROGRESSION_LEN THEN <<>> ELSE runs[end]
=============================================================================
