------------------------------ MODULE AlertFeed ------------------------------
(***************************************************************************)
(* What a reader of the engine's report stream is promised (the module     *)
(* comments of lib.rs and report.rs): chains are numbered 1, 2, ... as     *)
(* they open; an alert about a chain names a severity of Medium or above,  *)
(* higher than any it was alerted to before; a chain that is closed is     *)
(* never heard of again; and every chain is closed when the feed ends,     *)
(* unless it fails, after which nothing more is heard.                     *)
(***************************************************************************)
EXTENDS Integers, FiniteSets

CONSTANTS Low, Medium, Critical   \* severities are Low..Critical, Low < Medium

VARIABLES opened,   \* how many chains have been opened
          level,    \* the last severity alerted, per chain; Low if none
          raised,   \* how many alerts were sent
          closed,   \* the chains closed
          phase     \* "running", or how the feed ended: "finished", "failed"

feedVars == <<opened, level, raised, closed, phase>>

FeedInit == /\ opened = 0 /\ level = <<>> /\ raised = 0
            /\ closed = {} /\ phase = "running"

\* One event closes any number of open chains, opens at most one, and raises
\* the level of at most one that is open afterwards.
Keep(new)     == [i \in 1..new |-> IF i \in 1..opened THEN level[i] ELSE Low]
Raise(new, i) ==
  \E s \in Medium..Critical :
    /\ i \in (1..new) \ closed'
    /\ s > Keep(new)[i]
    /\ level' = [Keep(new) EXCEPT ![i] = s]
    /\ raised' = raised + 1

Deliver ==
  /\ phase = "running" /\ UNCHANGED phase
  /\ opened' \in {opened, opened + 1}
  /\ closed \subseteq closed' /\ closed' \subseteq 1..opened
  /\ \/ level' = Keep(opened') /\ raised' = raised
     \/ \E i \in 1..opened' : Raise(opened', i)

\* The feed ends by closing every chain.
End == /\ phase = "running" /\ phase' = "finished"
       /\ closed' = 1..opened
       /\ UNCHANGED <<opened, level, raised>>

\* Or it is cut short, with any of them closed.
Cut == /\ phase = "running" /\ phase' = "failed"
       /\ closed \subseteq closed' /\ closed' \subseteq 1..opened
       /\ UNCHANGED <<opened, level, raised>>

FeedNext == Deliver \/ End \/ Cut
FeedSpec == FeedInit /\ [][FeedNext]_feedVars
=============================================================================
