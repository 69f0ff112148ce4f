------------------------------- MODULE Anchors -------------------------------
(***************************************************************************)
(* Which process of a lineage anchors the chain an event belongs to        *)
(* (find_anchor in chain.rs).                                              *)
(***************************************************************************)
EXTENDS ProcTable, Lists

Is(p, list) == p.names \cap list # {}
IsShell(p)  == Is(p, SHELLS)
\* C4: an interpreter running a script of an installed dependency.
IsRuntimeDependency(p) == CmdIs(p.cmdline, "in_dependency")

\* The lineage's package managers, build tools and runtime dependencies.
DependencyAnchors(lineage) ==
  {i \in DOMAIN lineage : Is(lineage[i], DEPENDENCY_TOOLS) \/ IsRuntimeDependency(lineage[i])}

\* Its session shells: shells whose own parent is not one.
SessionShells(lineage) ==
  {i \in DOMAIN lineage : /\ IsShell(lineage[i])
                          /\ i < Len(lineage) => ~IsShell(lineage[i + 1])}

\* The processes from the acting one up that run its binary.
SameBinary(lineage) ==
  {i \in DOMAIN lineage : \A j \in 1..i : /\ lineage[j].exe = lineage[1].exe
                                          /\ j > 1 => lineage[j].exe # None}

\* The outermost dependency; else the command the nearest session shell
\* started; else the topmost process of the same binary. Index 1 is the
\* acting process.
FindAnchor_Nearest(lineage) ==
  LET tools == DependencyAnchors(lineage)
  IN  IF tools # {} THEN [idx |-> Min(tools), kind |-> "Dependency"]
                    ELSE [idx |-> 1, kind |-> "User"]
FindAnchor(lineage) ==
  LET tools  == DependencyAnchors(lineage)
      shells == SessionShells(lineage)
  IN  CASE tools # {} ->
             [idx  |-> Max(tools),
              kind |-> IF Is(lineage[Max(tools)], DEPENDENCY_TOOLS)
                       THEN "Dependency" ELSE "RuntimeDependency"]
        [] tools = {} /\ shells # {} ->
             [idx |-> IF Min(shells) = 1 THEN 1 ELSE Min(shells) - 1, kind |-> "User"]
        [] OTHER ->
             [idx |-> Max(SameBinary(lineage)), kind |-> "User"]
=============================================================================
