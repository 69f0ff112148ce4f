------------------------------ MODULE MCChains ------------------------------
(***************************************************************************)
(* Two anchors, one a dependency, with findings chosen so that few events  *)
(* cross several bands, gates open late and tactics progress in and out of *)
(* order.                                                                  *)
(***************************************************************************)
EXTENDS ChainsSpec

MCInputs ==
  [action : Action, path : {None}, key : {"npm"},
   kind : {"Dependency"}, uid : {1}, build : {FALSE}]
    \cup
  [action : {"Connect"}, path : {None}, key : {"tool"},
   kind : {"User"}, uid : {NoUid}, build : {TRUE}]

Finds(R) == [r \in R |-> TacticOf(r)]

MCFoundSets == {Finds(R) : R \in {{}, {"P1", "P2"}, {"L6"}, {"F1"}, {"N2"}, {"N1", "N3"}}}
=============================================================================
