------------------------------ MODULE EventLog ------------------------------
(***************************************************************************)
(* What the sensor's capture file is to whoever reads it: the events the   *)
(* ring accepted, numbered as they were, leave it one at a time and in     *)
(* order.  Each is logged or left out, and none waits for ever while the   *)
(* log is kept.  When the log ends, whatever was not taken is not in it,   *)
(* and it may lose its tail.                                               *)
(***************************************************************************)
EXTENDS Integers

VARIABLES offered,  \* events so far
          pending,  \* accepted, not taken yet
          log,      \* logged
          open      \* whether the log is still kept

logVars == <<offered, pending, log, open>>

LogInit == offered = 0 /\ pending = {} /\ log = {} /\ open = TRUE

Offer == /\ open /\ UNCHANGED <<log, open>>
         /\ offered' = offered + 1
         /\ pending' \in {pending, pending \cup {offered'}}

Take == /\ open /\ UNCHANGED <<offered, open>>
        /\ \E i \in pending :
             /\ \A j \in pending : i <= j
             /\ pending' = pending \ {i}
             /\ log' \in {log, log \cup {i}}

End == /\ open /\ open' = FALSE
       /\ UNCHANGED offered
       /\ pending' \subseteq pending
       /\ log' \subseteq log
       /\ \A i \in log', j \in log \ log' : i < j

LogNext == Offer \/ Take \/ End
LogSpec == LogInit /\ [][LogNext]_logVars /\ WF_logVars(Take)
=============================================================================
