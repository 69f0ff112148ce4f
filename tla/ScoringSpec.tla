----------------------------- MODULE ScoringSpec -----------------------------
(***************************************************************************)
(* Scoring fed one first hit at a time, in any order and with any of a few *)
(* timestamps, so that TLC visits every set of hits over the Rules of the  *)
(* configuration and every order in which they can have been seen.         *)
(***************************************************************************)
EXTENDS Scoring

CONSTANTS Rules,   \* the rules that may fire
          MaxTs    \* hits are timestamped 0..MaxTs

ASSUME MCAssumption == Rules \subseteq RuleId /\ MaxTs \in Nat

VARIABLE hits

\* L10's tactic depends on the file it fired on (lists.rs SYSTEM_FILES).
Tactics(r) == IF r = "L10" THEN {Persistence, PrivilegeEscalation, NoTactic}
                           ELSE {TacticOf(r)}

Hit(r) == \E ts \in 0..MaxTs, t \in Tactics(r) :
            hits' = [q \in DOMAIN hits \cup {r} |->
                       IF q = r THEN [ts |-> ts, tactic |-> t] ELSE hits[q]]

Init == hits = <<>>
Next == \E r \in Rules \ DOMAIN hits : Hit(r)
Spec == Init /\ [][Next]_hits

-----------------------------------------------------------------------------
\* A further hit never lowers the score, gates and caps included: the bands a
\* chain can still enter are above those it has been in (score.rs:56-91).
ScoreNeverDrops == [][Total(DOMAIN hits') >= Total(DOMAIN hits)]_hits

\* A clean install scores 0 (score.rs:67): a chain scores 0 exactly while
\* nothing fired but the two gated rules.
OnlyGatedScoresZero == (Total(DOMAIN hits) = 0) <=> (DOMAIN hits \subseteq {"C1", "N3"})

\* The caps force breadth: Medium takes hits of two components, High of three
\* and Critical of all four, however many rules of one component fired.
BandsNeedBreadth ==
  LET c == Counted(DOMAIN hits)
      scoring == {S \in {ProcessRules, FileRules, NetworkRules, ContextRules} :
                    S \cap c # {}}
  IN  Band(DOMAIN hits) # Low => Cardinality(scoring) > Band(DOMAIN hits)

\* The tactics of the sightings T rise in the order they were seen.
Rises(T) == \A p, q \in T : p[2] < q[2] => p[1] <= q[1]

\* C3's tactics (score.rs:94-142) are a largest set of tactics that rises in the
\* order they were first seen, and there are none exactly when no three rise.
ProgressionIsLongest ==
  LET rising == {T \in SUBSET FirstSeen(hits) : Rises(T)}
      run    == Progression(hits)
  IN  IF run = <<>>
      THEN \A T \in rising : Cardinality(T) < PROGRESSION_LEN
      ELSE /\ \E T \in rising : ToSet(run) = {p[2] : p \in T}
           /\ \A T \in rising : Cardinality(T) <= Len(run)
           /\ \A i \in 1..(Len(run) - 1) : run[i] < run[i + 1]
=============================================================================
