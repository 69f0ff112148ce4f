------------------------------ MODULE Pipeline ------------------------------
(***************************************************************************)
(* The way of an event from a probe to the capture file: reserve and       *)
(* submit in the shared ring (sensors-ebpf), the wakeup of the loader, its *)
(* select loop, drain, the last pass and the flush (main.rs of sensors).   *)
(*                                                                         *)
(* Events are numbered in the order their slots are reserved, which is the *)
(* order of the ring, and `at' tells where each is.  What the normalizer   *)
(* makes of an event is a choice.  The ring's wakeup rule, the readiness   *)
(* AsyncFd keeps and BufWriter are modelled from how main.rs uses them:    *)
(* a submit wakes the loader when its slot is the one to be read next, a   *)
(* readiness seen is cleared unless a newer one came, and a panic flushes  *)
(* the buffer as it unwinds.                                               *)
(*                                                                         *)
(* History variable: `due', the events the last pass must get to.          *)
(***************************************************************************)
EXTENDS Integers, FiniteSets

CONSTANTS
  RING,      \* slots of the ring
  BUFFER,    \* lines BufWriter holds
  CPUS,      \* probes that can run at once
  MaxEvents  \* bound: events the probes offer

ASSUME PipelineAssumption ==
  /\ RING \in Nat \ {0} /\ BUFFER \in Nat \ {0}
  /\ CPUS \in Nat \ {0} /\ MaxEvents \in Nat

VARIABLES
  made,     \* events offered
  at,       \* where each of them is
  wake,     \* a wakeup is on its way to the loader
  ready,    \* AsyncFd holds a readiness
  fresh,    \* ... which came after the one select saw
  pc,       \* the loader's place
  last,     \* whether this is the last pass
  told,     \* SIGTERM or Ctrl-C was delivered
  disk,     \* whether the capture file can be written
  stdout,   \* whether stdout can
  written,  \* lines drain has counted
  due

ringVars   == <<made, at, wake>>
loaderVars == <<ready, fresh, pc, last, written, due>>
worldVars  == <<told, disk, stdout>>
vars == <<ringVars, loaderVars, worldVars>>

Events == 1..made
Where  == {"refused",             \* the ring was full
           "busy", "submitted",   \* in the ring
           "silent",              \* normalized to no line
           "failed",              \* its line could not be written
           "buffered", "filed",   \* on its way to the capture file, and in it
           "gone"}                \* lost with the buffer
Are(S)   == {i \in Events : at[i] \in S}
Ring     == Are({"busy", "submitted"})
IsHead(i) == i \in Ring /\ \A j \in Ring : i <= j

Running == pc \in {"open", "select", "next", "item", "clear", "flush"}

Init == /\ made = 0 /\ at = <<>> /\ wake = FALSE
        /\ ready = FALSE /\ fresh = FALSE /\ pc = "open" /\ last = FALSE
        /\ written = 0 /\ due = {}
        /\ told = FALSE /\ disk = TRUE /\ stdout = TRUE

-----------------------------------------------------------------------------
(* The probes.                                                             *)

\* reserve: a slot, or the event is dropped.
Reserve_Unchecked ==
  /\ Running /\ made < MaxEvents /\ Cardinality(Are({"busy"})) < CPUS
  /\ made' = made + 1
  /\ at' = [i \in 1..made' |-> IF i < made' THEN at[i] ELSE "busy"]
  /\ UNCHANGED <<wake, loaderVars, worldVars>>
Reserve ==
  /\ Running /\ made < MaxEvents /\ Cardinality(Are({"busy"})) < CPUS
  /\ made' = made + 1
  /\ at' = [i \in 1..made' |->
              CASE i < made' -> at[i]
                [] i = made' /\ Cardinality(Ring) < RING -> "busy"
                [] OTHER -> "refused"]
  /\ UNCHANGED <<wake, loaderVars, worldVars>>

\* submit: the slot may be read, and the reader is woken if it is next.
Submit(i) ==
  /\ Running /\ i \in Events /\ at[i] = "busy"
  /\ at' = [at EXCEPT ![i] = "submitted"]
  /\ wake' = (wake \/ IsHead(i))
  /\ UNCHANGED <<made, loaderVars, worldVars>>

-----------------------------------------------------------------------------
(* The loader.                                                             *)

\* AsyncFd::with_interest: a ring that holds data already counts as woken.
Register ==
  /\ pc = "open" /\ pc' = "select"
  /\ wake' = (Ring # {})
  /\ UNCHANGED <<made, at, ready, fresh, last, written, due, worldVars>>

\* The runtime's driver turns a wakeup into readiness, if there is data.
Driver ==
  /\ Running /\ pc # "open" /\ wake
  /\ wake' = FALSE
  /\ ready' = (ready \/ Ring # {}) /\ fresh' = (fresh \/ Ring # {})
  /\ UNCHANGED <<made, at, pc, last, written, due, worldVars>>

\* select!: the ring is readable, or a signal came. Both may hold.
Readable ==
  /\ pc = "select" /\ ready
  /\ pc' = "next" /\ fresh' = FALSE
  /\ UNCHANGED <<ringVars, ready, last, written, due, worldVars>>

Signalled_NoLastPass ==
  /\ pc = "select" /\ told
  /\ pc' = "flush" /\ last' = TRUE
  /\ due' = {i \in Ring : \A j \in Ring : j <= i => at[j] = "submitted"}
  /\ UNCHANGED <<ringVars, ready, fresh, written, worldVars>>
Signalled ==
  /\ pc = "select" /\ told
  /\ pc' = "next" /\ last' = TRUE
  /\ due' = {i \in Ring : \A j \in Ring : j <= i => at[j] = "submitted"}
  /\ UNCHANGED <<ringVars, ready, fresh, written, worldVars>>

\* drain: the next sample, unless there is none or it is still being filled.
HasNext == \E i \in Are({"submitted"}) : IsHead(i)
NextItem_NoBreak ==
  /\ pc = "next"
  /\ pc' = IF HasNext THEN "item" ELSE "clear"
  /\ UNCHANGED <<ringVars, ready, fresh, last, written, due, worldVars>>
NextItem ==
  /\ pc = "next"
  /\ pc' = CASE HasNext -> "item"
             [] ~HasNext /\ last -> "flush"
             [] OTHER -> "clear"
  /\ UNCHANGED <<ringVars, ready, fresh, last, written, due, worldVars>>

\* The normalizer makes no line of it. Whatever becomes of a sample, its slot
\* is free when the round is over.
Skip == /\ pc = "item" /\ pc' = "next"
        /\ at' = [i \in Events |-> IF IsHead(i) THEN "silent" ELSE at[i]]
        /\ UNCHANGED <<made, wake, ready, fresh, last, written, due, worldVars>>

\* println!, then writeln! into the buffer, which is written out when full.
Full == Cardinality(Are({"buffered"})) = BUFFER
LineOf(i) == IF Full /\ ~disk THEN "failed" ELSE "buffered"
WrittenOut_Never(i) == FALSE
WrittenOut(i) == at[i] = "buffered" /\ Full /\ disk
Emit_DropsBuffer ==
  /\ pc = "item" /\ stdout /\ pc' = "next"
  /\ written' = written + 1
  /\ at' = [i \in Events |-> CASE IsHead(i) -> "buffered"
                              [] Full /\ at[i] = "buffered" -> IF disk THEN "filed" ELSE "gone"
                              [] OTHER -> at[i]]
  /\ UNCHANGED <<made, wake, ready, fresh, last, due, worldVars>>
Emit ==
  /\ pc = "item" /\ stdout /\ pc' = "next"
  /\ written' = written + 1
  /\ at' = [i \in Events |-> CASE IsHead(i)     -> LineOf(i)
                              [] WrittenOut(i) -> "filed"
                              [] OTHER         -> at[i]]
  /\ UNCHANGED <<made, wake, ready, fresh, last, due, worldVars>>

\* println! panics when stdout is closed; unwinding drops the buffer, which
\* writes it out if it can.
End(how, buffered) ==
  /\ pc' = how
  /\ at' = [i \in Events |-> IF at[i] = "buffered" THEN buffered ELSE at[i]]
  /\ UNCHANGED <<made, wake, ready, fresh, last, written, due, worldVars>>

Panic == pc = "item" /\ ~stdout /\ End("panicked", IF disk THEN "filed" ELSE "gone")

\* clear_ready, which keeps a readiness that came since.
Clear_Always ==
  /\ pc = "clear" /\ pc' = "select"
  /\ ready' = FALSE
  /\ UNCHANGED <<ringVars, fresh, last, written, due, worldVars>>
Clear ==
  /\ pc = "clear" /\ pc' = "select"
  /\ ready' = fresh
  /\ UNCHANGED <<ringVars, fresh, last, written, due, worldVars>>

\* capture.flush()?
Flush == pc = "flush" /\ IF disk THEN End("done", "filed") ELSE End("failed", "gone")

Loader == \/ Register \/ Readable \/ Signalled \/ NextItem \/ Skip \/ Emit
          \/ Panic \/ Clear \/ Flush

-----------------------------------------------------------------------------
(* The world.                                                              *)

\* The handlers are installed just before the loop.
Signal == /\ Running /\ pc # "open" /\ ~told /\ told' = TRUE
          /\ UNCHANGED <<ringVars, loaderVars, disk, stdout>>
Disk   == /\ Running /\ disk' = ~disk
          /\ UNCHANGED <<ringVars, loaderVars, told, stdout>>
CloseStdout == /\ Running /\ stdout /\ stdout' = FALSE
               /\ UNCHANGED <<ringVars, loaderVars, told, disk>>
Kill   == Running /\ End("killed", "gone")

World == Signal \/ Disk \/ CloseStdout \/ Kill

Next == Reserve \/ (\E i \in Events : Submit(i)) \/ Driver \/ Loader \/ World

\* A probe that has reserved a slot runs on to its submit (preemption is off
\* in between), the runtime polls its driver and its ready task, and select!
\* takes the branches in random order, so that a signal wins in the end.
Fairness ==
  /\ WF_vars(\E i \in Events : Submit(i))
  /\ WF_vars(Driver)
  /\ WF_vars(Register \/ Readable \/ NextItem \/ Skip \/ Emit \/ Panic \/ Clear \/ Flush)
  /\ SF_vars(Signalled)

Spec == Init /\ [][Next]_vars
FairSpec == Spec /\ Fairness

-----------------------------------------------------------------------------
(* Properties.                                                             *)

\* Types, and the bounds of the ring, the buffer and the probes at work.
TypeOK ==
  /\ made \in 0..MaxEvents /\ at \in [Events -> Where]
  /\ pc \in {"open", "select", "next", "item", "clear", "flush",
            "done", "failed", "panicked", "killed"}
  /\ wake \in BOOLEAN /\ ready \in BOOLEAN /\ fresh \in BOOLEAN
  /\ last \in BOOLEAN /\ told \in BOOLEAN /\ disk \in BOOLEAN /\ stdout \in BOOLEAN
  /\ written \in Nat /\ due \subseteq Events
  /\ Cardinality(Ring) <= RING
  /\ Cardinality(Are({"buffered"})) <= BUFFER
  /\ Cardinality(Are({"busy"})) <= CPUS

\* The capture is a log: an event is not dealt with before one that was
\* reserved earlier, and a line is not written out, nor kept in the buffer,
\* when an earlier one is not (main.rs:186-207).
Stages == <<{"busy", "submitted"}, {"buffered", "gone"}, {"filed"}>>
InOrder ==
  \A i, j \in Events, m, n \in DOMAIN Stages :
    i < j /\ at[i] \in Stages[m] /\ at[j] \in Stages[n] => m >= n

\* After a clean exit the file has every line of every event that was ready
\* to be read when the signal was taken; the buffer is not left behind, and
\* the count told to the user is of the lines made, written or failed
\* (main.rs:135-142, 163-170, 204).
CleanExitComplete ==
  pc = "done" => /\ due \cap Ring = {}
                 /\ Are({"buffered", "gone"}) = {}
                 /\ written = Cardinality(Are({"filed", "failed"}))

\* However the sensor ends, the file misses no more lines than the buffer
\* holds, those that failed to be written aside.
BoundedLoss == Cardinality(Are({"gone"})) <= BUFFER

\* The sensor is an event log: nothing that got into the ring waits there for
\* ever, no wakeup being lost between the drain and the clearing of the
\* readiness.
Log == INSTANCE EventLog WITH
         offered <- made, pending <- Ring,
         log <- Are({"buffered", "filed"}), open <- Running
KeepsLog == Log!LogSpec

\* Told to stop, the sensor stops, once the host lets a drain come to its end.
StopsWhenTold == told ~> ~Running
=============================================================================
