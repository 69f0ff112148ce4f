--------------------------- MODULE PipelineProofs ---------------------------
(***************************************************************************)
(* The way of an event to the capture file, for every size of the ring and *)
(* the buffer, any number of probes at once and any number of events.      *)
(***************************************************************************)
EXTENDS Pipeline, FiniteSetTheorems, WellFoundedInduction, TLAPS

-----------------------------------------------------------------------------
(* Counting.                                                               *)

\* The events of `n', placed by `f', that are in one of S.
Placed(n, f, S) == {i \in 1..n : f[i] \in S}

LEMMA ArePlaced == \A S : Are(S) = Placed(made, at, S) /\ Are(S)' = Placed(made', at', S)
BY DEF Are, Events, Placed

LEMMA PlacedFinite ==
  ASSUME NEW n \in Nat, NEW f, NEW S
  PROVE  /\ IsFiniteSet(Placed(n, f, S)) /\ Cardinality(Placed(n, f, S)) \in Nat
         /\ Placed(n, f, S) \in SUBSET Nat
<1>1. IsFiniteSet(1..n)
  BY FS_Interval
<1>2. Placed(n, f, S) \in SUBSET (1..n)
  BY DEF Placed
<1>3. IsFiniteSet(Placed(n, f, S))
  BY <1>1, <1>2, FS_Subset
<1>4. QED
  BY <1>2, <1>3, FS_CardinalityType

LEMMA AtMostOneMore ==
  ASSUME NEW S, IsFiniteSet(S), NEW x, NEW m \in Nat, Cardinality(S) < m,
         NEW T \in SUBSET (S \cup {x})
  PROVE  Cardinality(T) <= m
<1>1. /\ IsFiniteSet(S \cup {x}) /\ Cardinality(S) \in Nat
      /\ Cardinality(S \cup {x}) = IF x \in S THEN Cardinality(S) ELSE Cardinality(S) + 1
  BY FS_AddElement, FS_CardinalityType
<1>2. IsFiniteSet(T) /\ Cardinality(T) <= Cardinality(S \cup {x})
  BY <1>1, FS_Subset
<1>3. Cardinality(T) \in Nat
  BY <1>2, FS_CardinalityType
<1>4. QED
  BY <1>1, <1>2, <1>3

LEMMA NoMore ==
  ASSUME NEW S, IsFiniteSet(S), NEW m \in Nat, Cardinality(S) <= m, NEW T \in SUBSET S
  PROVE  Cardinality(T) <= m
<1>1. IsFiniteSet(T) /\ Cardinality(T) <= Cardinality(S)
  BY FS_Subset
<1>2. Cardinality(T) \in Nat /\ Cardinality(S) \in Nat
  BY <1>1, FS_CardinalityType
<1>3. QED
  BY <1>1, <1>2

\* A set of events that is not empty has a first.
LEMMA First ==
  ASSUME NEW S \in SUBSET Nat, S # {}
  PROVE  \E i \in S : \A j \in S : i <= j
<1> DEFINE R == OpToRel(<, Nat)
<1>1. IsWellFoundedOn(R, Nat)
  BY NatLessThanWellFounded
<1>2. \A i, j \in Nat : i < j => <<i, j>> \in R
  BY DEF OpToRel
<1> HIDE DEF R
<1>3. \E i \in S : \A j \in S : <<j, i>> \notin R
  BY <1>1, WFMin
<1>4. \E i \in S : \A j \in S : ~(j < i)
  BY <1>2, <1>3
<1>5. QED
  BY <1>4

-----------------------------------------------------------------------------
(* The inductive invariant.                                                *)

Places == {"open", "select", "next", "item", "clear", "flush",
           "done", "failed", "panicked", "killed"}

\* The shape of the state, without the bounds.
Shape ==
  /\ made \in 0..MaxEvents /\ at \in [1..made -> Where] /\ pc \in Places
  /\ wake \in BOOLEAN /\ ready \in BOOLEAN /\ fresh \in BOOLEAN
  /\ last \in BOOLEAN /\ told \in BOOLEAN /\ disk \in BOOLEAN /\ stdout \in BOOLEAN
  /\ written \in Nat /\ due \subseteq 1..made

Bounds ==
  /\ Cardinality(Are({"busy", "submitted"})) <= RING
  /\ Cardinality(Are({"buffered"})) <= BUFFER
  /\ Cardinality(Are({"busy"})) <= CPUS

\* InOrder, stage by stage.
Ordered ==
  \A i, j \in 1..made : i < j =>
    /\ at[i] \in {"busy", "submitted"} => at[j] \notin {"buffered", "gone", "filed"}
    /\ at[i] \in {"buffered", "gone"} => at[j] # "filed"

\* Lines are lost only when the sensor ends, and then those in the buffer.
NothingGone == Running => Are({"gone"}) = {}
FewGone     == Cardinality(Are({"gone"})) <= BUFFER

\* The sample that drain has taken is still at the head of the ring.
ItemThere == pc = "item" => HasNext

\* What the last pass must get to is not behind a slot still being filled, and
\* the pass goes on until all of it was taken.
DueReady ==
  /\ \A i \in due \cap Ring, j \in Ring : j <= i => at[j] = "submitted"
  /\ pc \in {"flush", "done"} => due \cap Ring = {}

\* The count is of the lines made, and a clean exit leaves none behind.
Counted ==
  /\ Running \/ pc = "done" =>
       written = Cardinality(Are({"buffered", "filed", "failed"}))
  /\ pc = "done" => Are({"buffered", "gone"}) = {}

IInv == /\ Shape /\ Bounds /\ Ordered /\ NothingGone /\ FewGone
        /\ ItemThere /\ DueReady /\ Counted

LEMMA OrderedInOrder == Shape /\ Ordered => InOrder
<1> SUFFICES ASSUME Shape, Ordered,
                    NEW i \in Events, NEW j \in Events,
                    NEW m \in DOMAIN Stages, NEW n \in DOMAIN Stages,
                    i < j, at[i] \in Stages[m], at[j] \in Stages[n]
             PROVE  m >= n
  BY DEF InOrder
<1>1. /\ DOMAIN Stages = 1..3
      /\ Stages[1] = {"busy", "submitted"} /\ Stages[2] = {"buffered", "gone"} /\ Stages[3] = {"filed"}
  BY DEF Stages
<1>2. i \in 1..made /\ j \in 1..made
  BY DEF Events
<1>3. m \in {1, 2, 3} /\ n \in {1, 2, 3}
  BY <1>1
<1>4. CASE m = 1
  BY <1>1, <1>2, <1>3, <1>4 DEF Ordered
<1>5. CASE m = 2
  BY <1>1, <1>2, <1>3, <1>5 DEF Ordered
<1>6. CASE m = 3
  BY <1>3, <1>6
<1>7. QED
  BY <1>3, <1>4, <1>5, <1>6

-----------------------------------------------------------------------------
(* The steps, by what they do to the events.                               *)

\* Steps that leave the events where they are.
Still == \/ Register \/ Driver \/ Readable \/ Signalled \/ NextItem \/ Clear
         \/ Signal \/ Disk \/ CloseStdout

\* The three ways the sensor ends, and what becomes of the buffer.
Ending ==
  \/ Running /\ End("killed", "gone")
  \/ pc = "item" /\ End("panicked", IF disk THEN "filed" ELSE "gone")
  \/ pc = "flush" /\ disk /\ End("done", "filed")
  \/ pc = "flush" /\ ~disk /\ End("failed", "gone")

LEMMA Steps ==
  [Next]_vars => \/ Still /\ UNCHANGED <<made, at>>
                 \/ Reserve
                 \/ \E i \in Events : Submit(i)
                 \/ Skip \/ Emit \/ Ending
                 \/ UNCHANGED vars
<1>1. Register \/ Driver \/ Readable \/ Signalled => UNCHANGED <<made, at>>
  BY DEF Register, Driver, Readable, Signalled, ringVars
<1>2. NextItem \/ Clear \/ Signal \/ Disk \/ CloseStdout => UNCHANGED <<made, at>>
  BY DEF NextItem, Clear, Signal, Disk, CloseStdout, ringVars
<1>3. Kill \/ Panic \/ Flush => Ending
  BY DEF Kill, Panic, Flush, Ending
<1>4. QED
  BY <1>1, <1>2, <1>3 DEF Next, Loader, World, Still

LEMMA ShapeInit == Init => Shape
<1> SUFFICES ASSUME Init PROVE Shape
  OBVIOUS
<1>1. at \in [{} -> Where]
  BY DEF Init
<1>2. 1..0 = {} /\ made = 0
  BY DEF Init
<1>3. at \in [1..made -> Where]
  BY <1>1, <1>2
<1>4. /\ wake \in BOOLEAN /\ ready \in BOOLEAN /\ fresh \in BOOLEAN /\ last \in BOOLEAN
      /\ told \in BOOLEAN /\ disk \in BOOLEAN /\ stdout \in BOOLEAN
  BY Zenon DEF Init
<1>5. made \in 0..MaxEvents /\ written \in Nat /\ due \subseteq 1..made /\ pc \in Places
  BY PipelineAssumption DEF Init, Places
<1>6. QED
  BY <1>3, <1>4, <1>5, Zenon DEF Shape

LEMMA StillShape == ASSUME Shape, Still, UNCHANGED <<made, at>> PROVE Shape'
<1>1. pc' \in Places
  BY DEF Still, Register, Driver, Readable, Signalled, NextItem, Clear, Signal, Disk, CloseStdout,
         Shape, Places, ringVars, loaderVars, worldVars
<1>2. wake' \in BOOLEAN /\ ready' \in BOOLEAN /\ fresh' \in BOOLEAN /\ last' \in BOOLEAN
  <2>1. CASE Register \/ Driver \/ Readable
    BY <2>1 DEF Register, Driver, Readable, Shape, ringVars
  <2>2. CASE Signalled \/ NextItem \/ Clear
    BY <2>2 DEF Signalled, NextItem, Clear, Shape, ringVars
  <2>3. CASE Signal \/ Disk \/ CloseStdout
    BY <2>3 DEF Signal, Disk, CloseStdout, Shape, ringVars, loaderVars
  <2>4. QED
    BY <2>1, <2>2, <2>3 DEF Still
<1>3. told' \in BOOLEAN /\ disk' \in BOOLEAN /\ stdout' \in BOOLEAN
  BY DEF Still, Register, Driver, Readable, Signalled, NextItem, Clear, Signal, Disk, CloseStdout,
         Shape, worldVars
<1>4. written' \in Nat /\ due' \subseteq 1..made
  BY DEF Still, Register, Driver, Readable, Signalled, NextItem, Clear, Signal, Disk, CloseStdout,
         Shape, ringVars, loaderVars, Ring, Are, Events
<1>5. QED
  BY <1>1, <1>2, <1>3, <1>4 DEF Shape

LEMMA ShapeStep == ASSUME Shape, [Next]_vars PROVE Shape'
<1>1. CASE Still /\ UNCHANGED <<made, at>>
  BY <1>1, StillShape
<1>2. CASE Reserve
  <2>1. made' = made + 1 /\ made' \in 0..MaxEvents
    BY <1>2, PipelineAssumption DEF Reserve, Shape
  <2>2. at' \in [1..made' -> Where]
    BY <1>2, <2>1 DEF Reserve, Shape, Where
  <2>3. QED
    BY <1>2, <2>1, <2>2 DEF Reserve, Shape, loaderVars, worldVars
<1>3. CASE \E i \in Events : Submit(i)
  <2>1. made' = made /\ at' \in [1..made -> Where] /\ wake' \in BOOLEAN
    BY <1>3 DEF Submit, Shape, Where, IsHead
  <2>2. QED
    BY <1>3, <2>1 DEF Submit, Shape, loaderVars, worldVars
<1>4. CASE Skip \/ Emit
  <2>1. at' \in [1..made -> Where]
    <3>1. CASE Skip
      BY <3>1 DEF Skip, Shape, Where, Events
    <3>2. CASE Emit
      BY <3>2 DEF Emit, Shape, Where, Events, LineOf
    <3>3. QED
      BY <1>4, <3>1, <3>2
  <2>2. pc' \in Places /\ made' = made /\ written' \in Nat
    BY <1>4 DEF Skip, Emit, Shape, Places
  <2>3. QED
    BY <1>4, <2>1, <2>2 DEF Skip, Emit, Shape, worldVars
<1>5. CASE Ending
  <2>1. \E how \in Places, b \in {"filed", "gone"} : End(how, b)
    BY <1>5 DEF Ending, Places
  <2>2. PICK how \in Places, b \in {"filed", "gone"} : End(how, b)
    BY <2>1
  <2>3. at' \in [1..made -> Where]
    BY <2>2 DEF End, Shape, Where, Events
  <2>4. QED
    BY <2>2, <2>3 DEF End, Shape, worldVars
<1>6. CASE UNCHANGED vars
  BY <1>6 DEF vars, ringVars, loaderVars, worldVars, Shape
<1>7. QED
  BY <1>1, <1>2, <1>3, <1>4, <1>5, <1>6, Steps

-----------------------------------------------------------------------------
(* What a step does to the sets of events.                                 *)

LEMMA AreFinite ==
  ASSUME Shape
  PROVE  \A S : /\ IsFiniteSet(Are(S)) /\ Cardinality(Are(S)) \in Nat
               /\ Are(S) \in SUBSET Nat
<1>1. made \in Nat
  BY DEF Shape
<1>2. QED
  BY <1>1, ArePlaced, PlacedFinite

LEMMA Unmoved ==
  ASSUME UNCHANGED <<made, at>>
  PROVE  /\ \A S : Are(S)' = Are(S)
         /\ Ring' = Ring /\ HasNext' = HasNext
<1>1. \A S : Are(S)' = Are(S)
  BY DEF Are, Events
<1>2. Ring' = Ring
  BY <1>1 DEF Ring
<1>3. QED
  BY <1>1, <1>2 DEF HasNext, IsHead

\* A new event is the last, and only a slot that is free is taken.
LEMMA ReserveMoves ==
  ASSUME Shape, Reserve
  PROVE  /\ made' = made + 1 /\ made + 1 \notin Ring
         /\ \A i \in 1..made : at'[i] = at[i]
         /\ \A S : \/ Are(S)' = Are(S)
                   \/ /\ Are(S)' = Are(S) \cup {made + 1}
                      /\ "busy" \in S \/ "refused" \in S
                      /\ "busy" \in S /\ "refused" \notin S => Cardinality(Ring) < RING
         /\ Ring' = Ring \/ Ring' = Ring \cup {made + 1}
<1>1. /\ made' = made + 1 /\ made \in Nat
      /\ \A i \in 1..made : at'[i] = at[i]
      /\ at'[made + 1] = IF Cardinality(Ring) < RING THEN "busy" ELSE "refused"
  BY DEF Reserve, Shape
<1>2. made + 1 \notin Ring
  BY <1>1 DEF Ring, Are, Events
<1>3. 1..(made + 1) = (1..made) \cup {made + 1}
  BY <1>1
<1>4. ASSUME NEW S
      PROVE  Are(S)' = Are(S) \cup (IF at'[made + 1] \in S THEN {made + 1} ELSE {})
  BY <1>1, <1>3 DEF Are, Events
<1>5. ASSUME NEW S
      PROVE  \/ Are(S)' = Are(S)
             \/ /\ Are(S)' = Are(S) \cup {made + 1}
                /\ "busy" \in S \/ "refused" \in S
                /\ "busy" \in S /\ "refused" \notin S => Cardinality(Ring) < RING
  BY <1>1, <1>4
<1>6. Ring' = Ring \/ Ring' = Ring \cup {made + 1}
  BY <1>5 DEF Ring
<1>7. QED
  BY <1>1, <1>2, <1>5, <1>6

\* A submit moves one event within the ring.
LEMMA SubmitMoves ==
  ASSUME Shape, NEW i \in Events, Submit(i)
  PROVE  /\ made' = made /\ at[i] = "busy" /\ at'[i] = "submitted"
         /\ \A j \in 1..made : j # i => at'[j] = at[j]
         /\ Ring' = Ring
         /\ Are({"busy"})' \subseteq Are({"busy"})
         /\ \A S : "busy" \notin S /\ "submitted" \notin S => Are(S)' = Are(S)
<1>1. /\ made' = made /\ at[i] = "busy" /\ at'[i] = "submitted"
      /\ \A j \in 1..made : j # i => at'[j] = at[j]
      /\ i \in 1..made
  BY DEF Submit, Shape, Events
<1>2. QED
  BY <1>1 DEF Ring, Are, Events

\* There is one head.
LEMMA OneHead ==
  ASSUME Shape, NEW i \in Events, NEW j \in Events, IsHead(i), IsHead(j)
  PROVE  i = j
BY DEF IsHead, Ring, Are, Events, Shape

\* Drain takes the head, if there is one, out of the ring, and may write out the
\* buffer.
LEMMA TakeMoves ==
  ASSUME Shape, Skip \/ Emit
  PROVE  /\ made' = made
         /\ \A i \in 1..made :
              /\ IsHead(i) => at'[i] \in {"silent", "failed", "buffered"}
              /\ ~IsHead(i) => at'[i] = at[i] \/ (at[i] = "buffered" /\ at'[i] = "filed")
         /\ Ring' = {i \in Ring : ~IsHead(i)}
         /\ \A S : S \subseteq {"busy", "submitted"} => Are(S)' = {i \in Are(S) : ~IsHead(i)}
         /\ Are({"gone"})' = Are({"gone"})
<1>1. /\ made' = made /\ made \in Nat
      /\ \A i \in 1..made :
           /\ IsHead(i) => at'[i] \in {"silent", "failed", "buffered"}
           /\ ~IsHead(i) => at'[i] = at[i] \/ (at[i] = "buffered" /\ at'[i] = "filed")
  <2>1. CASE Skip
    BY <2>1 DEF Skip, Shape, Events
  <2>2. CASE Emit
    <3>1. made' = made /\ made \in Nat
      BY <2>2 DEF Emit, Shape
    <3>2. \A i \in 1..made : at'[i] = CASE IsHead(i)     -> LineOf(i)
                                      [] WrittenOut(i) -> "filed"
                                      [] OTHER         -> at[i]
      BY <2>2 DEF Emit, Events
    <3>3. \A i : LineOf(i) \in {"failed", "buffered"} /\ (WrittenOut(i) => at[i] = "buffered")
      BY DEF LineOf, WrittenOut
    <3>4. ASSUME NEW i \in 1..made, IsHead(i)
          PROVE  at'[i] \in {"silent", "failed", "buffered"}
      <4>1. at'[i] = LineOf(i)
        <5>1. ~WrittenOut(i)
          BY <3>4 DEF IsHead, Ring, Are, WrittenOut
        <5>2. QED
          BY <3>2, <3>4, <5>1
      <4>2. LineOf(i) \in {"failed", "buffered"}
        BY <3>3
      <4>3. QED
        BY <4>1, <4>2
    <3>5. ASSUME NEW i \in 1..made, ~IsHead(i)
          PROVE  at'[i] = at[i] \/ (at[i] = "buffered" /\ at'[i] = "filed")
      <4>1. CASE WrittenOut(i)
        BY <3>2, <3>3, <3>5, <4>1
      <4>2. CASE ~WrittenOut(i)
        BY <3>2, <3>5, <4>2
      <4>3. QED
        BY <4>1, <4>2
    <3>6. QED
      BY <3>1, <3>4, <3>5
  <2>3. QED
    BY <2>1, <2>2
<1>2. \A i : IsHead(i) => at[i] \in {"busy", "submitted"} /\ i \in 1..made
  BY DEF IsHead, Ring, Are, Events
<1>3. ASSUME NEW S, S \subseteq {"busy", "submitted"}
      PROVE  Are(S)' = {i \in Are(S) : ~IsHead(i)}
  BY <1>1, <1>3 DEF Are, Events
<1>4. Ring' = {i \in Ring : ~IsHead(i)}
  BY <1>3 DEF Ring
<1>5. Are({"gone"})' = Are({"gone"})
  BY <1>1, <1>2 DEF Are, Events
<1>6. QED
  BY <1>1, <1>3, <1>4, <1>5

\* The end of the sensor empties the buffer, one way or the other.
LEMMA EndMoves ==
  ASSUME Shape, Running, Ending
  PROVE  \E b \in {"filed", "gone"} :
           /\ made' = made
           /\ \A i \in 1..made : at'[i] = IF at[i] = "buffered" THEN b ELSE at[i]
           /\ Ring' = Ring /\ Are({"busy"})' = Are({"busy"})
           /\ Are({"buffered"})' = {}
           /\ Are({"gone"})' = Are({"gone"}) \cup (IF b = "gone" THEN Are({"buffered"}) ELSE {})
           /\ pc' = "done" => b = "filed"
           /\ pc' \in {"killed", "panicked", "done", "failed"}
           /\ written' = written /\ due' = due
           /\ pc' = "done" => pc = "flush"
<1>1. \E how \in {"killed", "panicked", "done", "failed"}, b \in {"filed", "gone"} :
        End(how, b) /\ (how = "done" => b = "filed" /\ pc = "flush")
  BY DEF Ending
<1>2. PICK how \in {"killed", "panicked", "done", "failed"}, b \in {"filed", "gone"} :
        End(how, b) /\ (how = "done" => b = "filed" /\ pc = "flush")
  BY <1>1
<1>3. /\ made' = made /\ pc' = how /\ written' = written /\ due' = due
      /\ \A i \in 1..made : at'[i] = IF at[i] = "buffered" THEN b ELSE at[i]
  BY <1>2 DEF End, Events
<1>4. /\ Ring' = Ring /\ Are({"busy"})' = Are({"busy"}) /\ Are({"buffered"})' = {}
      /\ Are({"gone"})' = Are({"gone"}) \cup (IF b = "gone" THEN Are({"buffered"}) ELSE {})
  BY <1>3 DEF Ring, Are, Events
<1>5. QED
  BY <1>2, <1>3, <1>4

-----------------------------------------------------------------------------
(* The invariant is inductive, part by part.                               *)

\* Every action is taken while the sensor runs.
LEMMA OnlyWhileRunning ==
  [Next]_vars => Running \/ UNCHANGED vars
BY DEF Next, Reserve, Submit, Driver, Loader, Register, Readable, Signalled, NextItem, Skip,
       Emit, Panic, Clear, Flush, World, Signal, Disk, CloseStdout, Kill, Running

\* Reserve checks for room, and a full buffer is written out before it takes
\* another line.
LEMMA BoundsStep ==
  ASSUME Shape, Bounds, [Next]_vars
  PROVE  Bounds'
<1>0. /\ IsFiniteSet(Are({"busy", "submitted"})) /\ IsFiniteSet(Are({"buffered"})) /\ IsFiniteSet(Are({"busy"}))
      /\ Cardinality(Are({"busy", "submitted"})) \in Nat
      /\ Cardinality(Are({"buffered"})) \in Nat /\ Cardinality(Are({"busy"})) \in Nat
      /\ RING \in Nat /\ BUFFER \in Nat /\ 1 <= BUFFER /\ CPUS \in Nat
  BY AreFinite, PipelineAssumption
<1>1. CASE UNCHANGED <<made, at>>
  <2>1. \A S : Are(S)' = Are(S)
    BY <1>1, Unmoved
  <2>2. QED
    BY <2>1 DEF Bounds
<1>2. CASE Reserve
  <2>1. Cardinality(Are({"busy"})) < CPUS
    BY <1>2 DEF Reserve
  <2>2. \/ Are({"busy", "submitted"})' = Are({"busy", "submitted"})
        \/ /\ Are({"busy", "submitted"})' = Are({"busy", "submitted"}) \cup {made + 1}
           /\ Cardinality(Are({"busy", "submitted"})) < RING
    BY <1>2, ReserveMoves DEF Ring
  <2>3. Are({"buffered"})' = Are({"buffered"})
    BY <1>2, ReserveMoves
  <2>4. Are({"busy"})' = Are({"busy"}) \/ Are({"busy"})' = Are({"busy"}) \cup {made + 1}
    BY <1>2, ReserveMoves
  <2>5. Cardinality(Are({"busy", "submitted"})') <= RING
    BY <1>0, <2>2, AtMostOneMore DEF Bounds
  <2>6. Cardinality(Are({"busy"})') <= CPUS
    BY <1>0, <2>1, <2>4, AtMostOneMore DEF Bounds
  <2>7. QED
    BY <2>3, <2>5, <2>6 DEF Bounds
<1>3. CASE \E i \in Events : Submit(i)
  <2>1. PICK i \in Events : Submit(i)
    BY <1>3
  <2>2. /\ Ring' = Ring /\ Are({"busy"})' \in SUBSET Are({"busy"})
        /\ Are({"buffered"})' = Are({"buffered"})
    BY <2>1, SubmitMoves
  <2>3. Cardinality(Are({"busy"})') <= CPUS
    BY <1>0, <2>2, NoMore DEF Bounds
  <2>4. QED
    BY <2>2, <2>3 DEF Bounds, Ring
<1>4. CASE Skip \/ Emit
  <2>1. /\ Are({"busy", "submitted"})' \in SUBSET Are({"busy", "submitted"})
        /\ Are({"busy"})' \in SUBSET Are({"busy"})
    BY <1>4, TakeMoves
  <2>2. /\ Cardinality(Are({"busy", "submitted"})') <= RING
        /\ Cardinality(Are({"busy"})') <= CPUS
    BY <1>0, <2>1, NoMore DEF Bounds
  <2>3. Cardinality(Are({"buffered"})') <= BUFFER
    <3>1. CASE Skip
      <4>1. \A i \in 1..made : at'[i] = (IF IsHead(i) THEN "silent" ELSE at[i])
        BY <3>1 DEF Skip, Events
      <4>2. \A i : IsHead(i) => at[i] # "buffered"
        BY DEF IsHead, Ring, Are
      <4>3. made' = made
        BY <3>1 DEF Skip
      <4>4. Are({"buffered"})' = Are({"buffered"})
        BY <4>1, <4>2, <4>3 DEF Are, Events
      <4>5. QED
        BY <4>4 DEF Bounds
    <3>2. CASE Emit /\ ~Full
      <4>1. Cardinality(Are({"buffered"})) < BUFFER
        BY <1>0, <3>2 DEF Full, Bounds
      <4>2. \A i \in 1..made : ~IsHead(i) /\ at'[i] = "buffered" => at[i] = "buffered"
        BY <1>4, TakeMoves
      <4>3. \E h : Are({"buffered"})' \in SUBSET (Are({"buffered"}) \cup {h})
        <5>1. CASE \E i \in Events : IsHead(i)
          <6>1. PICK h \in Events : IsHead(h)
            BY <5>1
          <6>2. \A i \in Events : IsHead(i) => i = h
            BY <6>1, OneHead
          <6>3. Are({"buffered"})' \in SUBSET (Are({"buffered"}) \cup {h})
            BY <1>4, <4>2, <6>2, TakeMoves DEF Are, Events
          <6>4. QED
            BY <6>3
        <5>2. CASE ~\E i \in Events : IsHead(i)
          <6>1. Are({"buffered"})' \in SUBSET Are({"buffered"})
            BY <1>4, <4>2, <5>2, TakeMoves DEF Are, Events
          <6>2. QED
            BY <6>1
        <5>3. QED
          BY <5>1, <5>2
      <4>4. PICK h : Are({"buffered"})' \in SUBSET (Are({"buffered"}) \cup {h})
        BY <4>3
      <4>5. QED
        BY <1>0, <4>1, <4>4, AtMostOneMore
    <3>3. CASE Emit /\ Full /\ disk
      <4>1. \A i \in 1..made : ~IsHead(i) => at'[i] # "buffered"
        <5>1. \A i \in 1..made : at'[i] = CASE IsHead(i)     -> LineOf(i)
                                          [] WrittenOut(i) -> "filed"
                                          [] OTHER         -> at[i]
          BY <3>3 DEF Emit, Events
        <5>2. \A i : at[i] = "buffered" <=> WrittenOut(i)
          BY <3>3 DEF WrittenOut
        <5>3. QED
          BY <5>1, <5>2
      <4>2. \E h : Are({"buffered"})' \in SUBSET {h}
        <5>1. Are({"buffered"})' \in SUBSET {i \in Events : IsHead(i)}
          BY <1>4, <4>1, TakeMoves DEF Are, Events
        <5>2. CASE \E i \in Events : IsHead(i)
          BY <5>1, <5>2, OneHead
        <5>3. CASE ~\E i \in Events : IsHead(i)
          BY <5>1, <5>3
        <5>4. QED
          BY <5>2, <5>3
      <4>3. PICK h : Are({"buffered"})' \in SUBSET ({} \cup {h})
        BY <4>2
      <4>4. IsFiniteSet({}) /\ Cardinality({}) < BUFFER
        BY <1>0, FS_EmptySet
      <4>5. QED
        BY <1>0, <4>3, <4>4, AtMostOneMore
    <3>4. CASE Emit /\ Full /\ ~disk
      <4>1. \A i \in 1..made : at'[i] = "buffered" => at[i] = "buffered"
        <5>1. \A i \in 1..made : at'[i] = CASE IsHead(i)     -> LineOf(i)
                                          [] WrittenOut(i) -> "filed"
                                          [] OTHER         -> at[i]
          BY <3>4 DEF Emit, Events
        <5>2. \A i : LineOf(i) = "failed" /\ ~WrittenOut(i)
          BY <3>4 DEF LineOf, WrittenOut
        <5>3. QED
          BY <5>1, <5>2
      <4>2. Are({"buffered"})' \in SUBSET Are({"buffered"})
        BY <1>4, <4>1, TakeMoves DEF Are, Events
      <4>3. QED
        BY <1>0, <4>2, NoMore DEF Bounds
    <3>5. QED
      BY <1>4, <3>1, <3>2, <3>3, <3>4
  <2>4. QED
    BY <2>2, <2>3 DEF Bounds
<1>5. CASE Running /\ Ending
  <2>1. Ring' = Ring /\ Are({"busy"})' = Are({"busy"}) /\ Are({"buffered"})' = {}
    BY <1>5, EndMoves
  <2>2. QED
    BY <1>0, <2>1, FS_EmptySet DEF Bounds, Ring
<1>6. QED
  BY <1>1, <1>2, <1>3, <1>4, <1>5, Steps, OnlyWhileRunning DEF vars, ringVars

\* Drain takes the events from the front, and what it writes out is all of the
\* buffer.
LEMMA OrderedStep ==
  ASSUME Shape, Ordered, NothingGone, [Next]_vars
  PROVE  Ordered'
<1>1. CASE UNCHANGED <<made, at>>
  BY <1>1 DEF Ordered
<1>2. CASE Reserve
  <2>1. /\ made' = made + 1 /\ made \in Nat /\ \A i \in 1..made : at'[i] = at[i]
        /\ at'[made + 1] \in {"busy", "refused"}
    BY <1>2, ReserveMoves DEF Reserve, Shape
  <2>2. QED
    BY <2>1 DEF Ordered
<1>3. CASE \E i \in Events : Submit(i)
  <2>1. PICK e \in Events : Submit(e)
    BY <1>3
  <2>2. /\ made' = made /\ at[e] = "busy" /\ at'[e] = "submitted"
        /\ \A j \in 1..made : j # e => at'[j] = at[j]
    BY <2>1, SubmitMoves
  <2>3. QED
    BY <2>2 DEF Ordered
<1>4. CASE Skip \/ Emit
  <2> USE DEF Events
  <2>1. made' = made /\ made \in Nat
    BY <1>4, TakeMoves DEF Shape
  <2>2. SUFFICES ASSUME NEW i \in 1..made, NEW j \in 1..made, i < j
                 PROVE  /\ at'[i] \in {"busy", "submitted"} => at'[j] \notin {"buffered", "gone", "filed"}
                        /\ at'[i] \in {"buffered", "gone"} => at'[j] # "filed"
    BY <2>1 DEF Ordered
  <2>3. \A k \in 1..made :
          /\ IsHead(k) => at'[k] \in {"silent", "failed", "buffered"}
                          /\ at[k] \in {"busy", "submitted"}
          /\ ~IsHead(k) => at'[k] = at[k] \/ (at[k] = "buffered" /\ at'[k] = "filed")
    BY <1>4, TakeMoves DEF IsHead, Ring, Are
  <2>4. IsHead(j) => at[i] \notin {"busy", "submitted"}
    BY <2>2 DEF IsHead, Ring, Are
  <2>5. at'[i] \in {"busy", "submitted"} => at'[j] \notin {"buffered", "gone", "filed"}
    BY <2>2, <2>3, <2>4 DEF Ordered
  <2>6. at'[i] \in {"buffered", "gone"} => at'[j] # "filed"
    <3>1. SUFFICES ASSUME at'[i] \in {"buffered", "gone"}, at'[j] = "filed"
                   PROVE  FALSE
      OBVIOUS
    <3>2. ~IsHead(j) /\ (at[j] = "filed" \/ at[j] = "buffered")
      BY <2>3, <3>1
    <3>3. CASE IsHead(i)
      BY <2>2, <2>3, <3>2, <3>3 DEF Ordered
    <3>4. CASE ~IsHead(i)
      <4>1. at'[i] = at[i] /\ at[i] = "buffered" /\ at[j] = "buffered"
        <5>1. at[i] # "gone"
          BY <1>4 DEF NothingGone, Are, Skip, Emit, Running
        <5>2. at[i] = "buffered" /\ at'[i] = "buffered"
          BY <2>3, <3>1, <3>4, <5>1
        <5>3. QED
          BY <2>2, <3>2, <5>2 DEF Ordered
      <4>2. Emit /\ WrittenOut(j)
        <5>1. CASE Skip
          BY <3>1, <3>2, <4>1, <5>1 DEF Skip
        <5>2. CASE Emit
          BY <3>1, <3>2, <4>1, <5>2 DEF Emit
        <5>3. QED
          BY <1>4, <5>1, <5>2
      <4>3. WrittenOut(i)
        BY <4>1, <4>2 DEF WrittenOut
      <4>4. at'[i] = "filed"
        BY <3>4, <4>2, <4>3 DEF Emit
      <4>5. QED
        BY <4>1, <4>4
    <3>5. QED
      BY <3>3, <3>4
  <2>7. QED
    BY <2>5, <2>6
<1>5. CASE Running /\ Ending
  <2>1. PICK b \in {"filed", "gone"} :
          /\ made' = made
          /\ \A i \in 1..made : at'[i] = IF at[i] = "buffered" THEN b ELSE at[i]
    BY <1>5, EndMoves
  <2>2. \A i \in 1..made : at[i] # "gone"
    BY <1>5 DEF NothingGone, Are, Events
  <2>3. QED
    BY <2>1, <2>2 DEF Ordered
<1>6. QED
  BY <1>1, <1>2, <1>3, <1>4, <1>5, Steps, OnlyWhileRunning DEF vars, ringVars

\* Only the end loses lines, and it loses what the buffer holds.
LEMMA GoneStep ==
  ASSUME Shape, Bounds, NothingGone, FewGone, [Next]_vars
  PROVE  NothingGone' /\ FewGone'
<1>1. CASE UNCHANGED vars
  BY <1>1 DEF vars, ringVars, loaderVars, NothingGone, FewGone, Are, Events, Running
<1>2. CASE Running /\ ~Ending
  <2>1. Are({"gone"})' = Are({"gone"})
    <3>1. CASE Still /\ UNCHANGED <<made, at>>
      BY <3>1, Unmoved
    <3>2. CASE Reserve
      BY <3>2, ReserveMoves
    <3>3. CASE \E i \in Events : Submit(i)
      BY <3>3, SubmitMoves
    <3>4. CASE Skip \/ Emit
      BY <3>4, TakeMoves
    <3>5. CASE UNCHANGED vars
      BY <3>5, Unmoved DEF vars, ringVars
    <3>6. QED
      BY <1>2, <3>1, <3>2, <3>3, <3>4, <3>5, Steps
  <2>2. QED
    BY <1>2, <2>1 DEF NothingGone, FewGone
<1>3. CASE Running /\ Ending
  <2>1. PICK b \in {"filed", "gone"} :
          /\ Are({"gone"})' = Are({"gone"}) \cup (IF b = "gone" THEN Are({"buffered"}) ELSE {})
          /\ pc' \in {"killed", "panicked", "done", "failed"}
    BY <1>3, EndMoves
  <2>2. Are({"gone"})' = {} \/ Are({"gone"})' = Are({"buffered"})
    BY <1>3, <2>1 DEF NothingGone
  <2>3. Cardinality({}) <= BUFFER
    BY FS_EmptySet, PipelineAssumption
  <2>4. FewGone'
    BY <2>2, <2>3 DEF FewGone, Bounds
  <2>5. QED
    BY <2>1, <2>4 DEF NothingGone, Running
<1>4. QED
  BY <1>1, <1>2, <1>3, OnlyWhileRunning

\* The head of the ring stays the head until drain takes it.
LEMMA ItemStep ==
  ASSUME Shape, ItemThere, [Next]_vars
  PROVE  ItemThere'
<1>1. CASE Still /\ UNCHANGED <<made, at>>
  <2>1. HasNext' = HasNext
    BY <1>1, Unmoved
  <2>2. pc' = "item" => HasNext
    <3>1. CASE NextItem
      BY <3>1 DEF NextItem
    <3>2. CASE ~NextItem
      BY <1>1, <3>2 DEF Still, Register, Driver, Readable, Signalled, Clear, Signal, Disk, CloseStdout,
                        loaderVars, ItemThere
    <3>3. QED
      BY <3>1, <3>2
  <2>3. QED
    BY <2>1, <2>2 DEF ItemThere
<1>2. CASE Reserve
  <2>1. pc' = pc
    BY <1>2 DEF Reserve, loaderVars
  <2>2. HasNext => HasNext'
    <3>1. /\ made' = made + 1 /\ made \in Nat /\ \A i \in 1..made : at'[i] = at[i]
          /\ Ring' = Ring \/ Ring' = Ring \cup {made + 1}
      BY <1>2, ReserveMoves DEF Shape
    <3>2. SUFFICES ASSUME HasNext PROVE HasNext'
      OBVIOUS
    <3>3. PICK h \in Are({"submitted"}) : IsHead(h)
      BY <3>2 DEF HasNext
    <3>4. h \in 1..made /\ at[h] = "submitted" /\ h \in Ring /\ \A j \in Ring : h <= j
      BY <3>3 DEF IsHead, Are, Events
    <3>5. h \in Are({"submitted"})'
      BY <3>1, <3>4 DEF Are, Events
    <3>6. h \in Ring' /\ \A j \in Ring' : h <= j
      <4>1. h <= made + 1
        BY <3>1, <3>4
      <4>2. CASE Ring' = Ring
        BY <3>4, <4>2
      <4>3. CASE Ring' = Ring \cup {made + 1}
        BY <3>4, <4>1, <4>3
      <4>4. QED
        BY <3>1, <4>2, <4>3
    <3>7. QED
      BY <3>5, <3>6 DEF HasNext, IsHead
  <2>3. QED
    BY <2>1, <2>2 DEF ItemThere
<1>3. CASE \E i \in Events : Submit(i)
  <2>1. PICK e \in Events : Submit(e)
    BY <1>3
  <2>2. /\ made' = made /\ at[e] = "busy" /\ Ring' = Ring
        /\ \A j \in 1..made : j # e => at'[j] = at[j]
    BY <2>1, SubmitMoves
  <2>3. HasNext => HasNext'
    BY <2>2 DEF HasNext, IsHead, Are, Events
  <2>4. QED
    BY <2>1, <2>3 DEF ItemThere, Submit, loaderVars
<1>4. CASE Skip \/ Emit
  BY <1>4 DEF Skip, Emit, ItemThere
<1>5. CASE Ending
  BY <1>5 DEF Ending, End, ItemThere
<1>6. CASE UNCHANGED vars
  <2>1. HasNext' = HasNext
    BY <1>6, Unmoved DEF vars, ringVars
  <2>2. QED
    BY <1>6, <2>1 DEF vars, loaderVars, ItemThere
<1>7. QED
  BY <1>1, <1>2, <1>3, <1>4, <1>5, <1>6, Steps

\* The last pass does not stop at a slot still being filled before it has taken
\* all that is due: when it stops, nothing due is in the ring.
LEMMA PassComplete ==
  ASSUME Shape, DueReady, ~HasNext
  PROVE  due \cap Ring = {}
<1>1. SUFFICES ASSUME NEW i \in due \cap Ring
               PROVE  FALSE
  OBVIOUS
<1>2. Ring \in SUBSET Nat /\ Ring # {}
  BY <1>1, AreFinite DEF Ring
<1>3. PICK h \in Ring : \A j \in Ring : h <= j
  BY <1>2, First
<1>4. at[h] = "submitted"
  BY <1>1, <1>3 DEF DueReady
<1>5. IsHead(h) /\ h \in Are({"submitted"})
  BY <1>3, <1>4 DEF IsHead, Ring, Are
<1>6. QED
  BY <1>5 DEF HasNext

LEMMA DueStep ==
  ASSUME Shape, DueReady, [Next]_vars
  PROVE  DueReady'
<1>1. CASE Still /\ UNCHANGED <<made, at>>
  <2>1. Ring' = Ring
    BY <1>1, Unmoved
  <2>2. CASE Signalled
    BY <1>1, <2>1, <2>2 DEF Signalled, DueReady
  <2>3. CASE NextItem
    <3>1. due' = due /\ (pc' = "flush" => ~HasNext) /\ pc' # "done"
      BY <2>3 DEF NextItem
    <3>2. QED
      BY <1>1, <2>1, <3>1, PassComplete DEF DueReady
  <2>4. CASE ~Signalled /\ ~NextItem
    <3>1. due' = due /\ (pc' \in {"flush", "done"} => pc' = pc)
      BY <1>1, <2>4 DEF Still, Register, Driver, Readable, Clear, Signal, Disk, CloseStdout, loaderVars
    <3>2. QED
      BY <1>1, <2>1, <3>1 DEF DueReady
  <2>5. QED
    BY <2>2, <2>3, <2>4
<1>2. CASE Reserve
  <2>1. /\ made \in Nat /\ due \subseteq 1..made /\ Ring \subseteq 1..made
        /\ \A i \in 1..made : at'[i] = at[i]
        /\ Ring' = Ring \/ Ring' = Ring \cup {made + 1}
    BY <1>2, ReserveMoves DEF Shape, Ring, Are, Events
  <2>2. due' = due /\ pc' = pc
    BY <1>2 DEF Reserve, loaderVars
  <2>3. due' \cap Ring' = due \cap Ring
    BY <2>1, <2>2
  <2>4. ASSUME NEW i \in due' \cap Ring', NEW j \in Ring', j <= i
        PROVE  at'[j] = "submitted"
    <3>1. i \in due \cap Ring /\ i \in 1..made
      BY <2>1, <2>2, <2>3
    <3>2. j \in Ring
      BY <2>1, <2>4, <3>1
    <3>3. QED
      BY <2>1, <2>4, <3>1, <3>2 DEF DueReady
  <2>5. QED
    BY <2>2, <2>3, <2>4 DEF DueReady
<1>3. CASE \E i \in Events : Submit(i)
  <2>1. PICK e \in Events : Submit(e)
    BY <1>3
  <2>2. /\ Ring' = Ring /\ Ring \subseteq 1..made
        /\ \A j \in 1..made : at'[j] = at[j] \/ at'[j] = "submitted"
    BY <2>1, SubmitMoves DEF Ring, Are, Events
  <2>3. due' = due /\ pc' = pc
    BY <2>1 DEF Submit, loaderVars
  <2>4. QED
    BY <2>2, <2>3 DEF DueReady
<1>4. CASE Skip \/ Emit
  <2>1. /\ Ring' = {i \in Ring : ~IsHead(i)}
        /\ \A i \in 1..made : ~IsHead(i) => at'[i] = at[i] \/ at[i] = "buffered"
    BY <1>4, TakeMoves
  <2>2. \A i \in Ring' : i \in Ring /\ at'[i] = at[i]
    BY <2>1 DEF Ring, Are, Events
  <2>3. due' = due /\ pc' = "next"
    BY <1>4 DEF Skip, Emit
  <2>4. QED
    BY <2>2, <2>3 DEF DueReady
<1>5. CASE Running /\ Ending
  <2>1. PICK b \in {"filed", "gone"} :
           /\ \A i \in 1..made : at'[i] = IF at[i] = "buffered" THEN b ELSE at[i]
           /\ Ring' = Ring /\ due' = due
           /\ pc' \in {"killed", "panicked", "done", "failed"}
           /\ pc' = "done" => pc = "flush"
    BY <1>5, EndMoves
  <2>2. \A i \in Ring : at'[i] = at[i]
    BY <2>1 DEF Ring, Are, Events
  <2>3. pc' \in {"flush", "done"} => pc = "flush"
    BY <2>1
  <2>4. \A i \in due' \cap Ring', j \in Ring' : j <= i => at'[j] = "submitted"
    BY <2>1, <2>2 DEF DueReady
  <2>5. due' \cap Ring' = due \cap Ring
    BY <2>1
  <2>6. QED
    BY <2>3, <2>4, <2>5 DEF DueReady
<1>6. CASE UNCHANGED vars
  <2>1. Ring' = Ring
    BY <1>6, Unmoved DEF vars, ringVars
  <2>2. QED
    BY <1>6, <2>1 DEF vars, ringVars, loaderVars, DueReady
<1>7. QED
  BY <1>1, <1>2, <1>3, <1>4, <1>5, <1>6, Steps, OnlyWhileRunning

\* Every line made is counted once, when it is made.
Lines == {"buffered", "filed", "failed"}
LEMMA CountedStep ==
  ASSUME Shape, NothingGone, ItemThere, Counted, [Next]_vars
  PROVE  Counted'
<1>1. CASE UNCHANGED vars
  BY <1>1, Unmoved DEF vars, ringVars, loaderVars, Counted, Running
<1>2. CASE Running /\ ((Still /\ UNCHANGED <<made, at>>) \/ Reserve \/ (\E i \in Events : Submit(i)) \/ Skip)
  <2>1. Are(Lines)' = Are(Lines)
    <3>1. CASE Still /\ UNCHANGED <<made, at>>
      BY <3>1, Unmoved
    <3>2. CASE Reserve
      BY <3>2, ReserveMoves DEF Lines
    <3>3. CASE \E i \in Events : Submit(i)
      BY <3>3, SubmitMoves DEF Lines
    <3>4. CASE Skip
      <4>1. \A i \in 1..made : at'[i] = (IF IsHead(i) THEN "silent" ELSE at[i])
        BY <3>4 DEF Skip, Events
      <4>2. \A i : IsHead(i) => at[i] \in {"busy", "submitted"}
        BY DEF IsHead, Ring, Are
      <4>3. QED
        BY <3>4, <4>1, <4>2 DEF Skip, Are, Events, Lines
    <3>5. QED
      BY <1>2, <3>1, <3>2, <3>3, <3>4
  <2>2. written' = written /\ pc' # "done"
    <3>1. pc # "done"
      BY <1>2 DEF Running
    <3>2. QED
      BY <1>2, <3>1 DEF Still, Register, Driver, Readable, Signalled, NextItem, Clear, Signal, Disk,
                        CloseStdout, Reserve, Submit, Skip, loaderVars
  <2>3. QED
    BY <1>2, <2>1, <2>2 DEF Counted, Lines
<1>3. CASE Emit
  <2>1. PICK h \in Are({"submitted"}) : IsHead(h)
    BY <1>3 DEF Emit, ItemThere, HasNext
  <2>2. \A i \in Events : IsHead(i) <=> i = h
    BY <2>1, OneHead DEF Are
  <2>3. h \notin Are(Lines) /\ h \in Events
    BY <2>1 DEF Are, Lines
  <2>4. at'[h] \in Lines
    <3>1. at'[h] = LineOf(h)
      <4>1. ~WrittenOut(h)
        BY <2>1 DEF Are, WrittenOut
      <4>2. QED
        BY <1>3, <2>1, <2>3, <4>1 DEF Emit
    <3>2. QED
      BY <3>1 DEF LineOf, Lines
  <2>5. Are(Lines)' = Are(Lines) \cup {h}
    BY <1>3, <2>2, <2>3, <2>4, TakeMoves DEF Are, Events, Lines
  <2>6. IsFiniteSet(Are(Lines)) /\ Cardinality(Are(Lines)) \in Nat
    BY AreFinite
  <2>7. Cardinality(Are(Lines)') = Cardinality(Are(Lines)) + 1
    BY <2>3, <2>5, <2>6, FS_AddElement
  <2>8. written' = written + 1 /\ pc' = "next" /\ Running
    BY <1>3 DEF Emit, Running
  <2>9. QED
    BY <2>7, <2>8 DEF Counted, Lines
<1>4. CASE Running /\ Ending
  <2>1. PICK b \in {"filed", "gone"} :
           /\ made' = made
           /\ \A i \in 1..made : at'[i] = IF at[i] = "buffered" THEN b ELSE at[i]
           /\ Are({"buffered"})' = {}
           /\ Are({"gone"})' = Are({"gone"}) \cup (IF b = "gone" THEN Are({"buffered"}) ELSE {})
           /\ pc' = "done" => b = "filed"
           /\ pc' \in {"killed", "panicked", "done", "failed"}
           /\ written' = written
    BY <1>4, EndMoves
  <2>2. CASE pc' = "done"
    <3>1. Are(Lines)' = Are(Lines)
      BY <2>1, <2>2 DEF Are, Events, Lines
    <3>2. Are({"gone"})' = {}
      BY <1>4, <2>1, <2>2 DEF NothingGone
    <3>3. Are({"buffered", "gone"})' = Are({"buffered"})' \cup Are({"gone"})'
      BY DEF Are
    <3>4. Are({"buffered", "gone"})' = {}
      BY <2>1, <3>2, <3>3
    <3>5. QED
      BY <1>4, <2>1, <3>1, <3>4 DEF Counted, Lines
  <2>3. CASE pc' # "done"
    BY <2>1, <2>3 DEF Counted, Running
  <2>4. QED
    BY <2>2, <2>3
<1>5. QED
  BY <1>1, <1>2, <1>3, <1>4, Steps, OnlyWhileRunning

-----------------------------------------------------------------------------
(* The theorems.                                                           *)

LEMMA InitLemma == Init => IInv
<1> SUFFICES ASSUME Init PROVE IInv
  OBVIOUS
<1>1. Shape
  BY ShapeInit
<1>2. made = 0 /\ 1..made = {} /\ pc = "open" /\ due = {} /\ written = 0
  BY DEF Init
<1>3. \A S : Are(S) = {}
  BY <1>2 DEF Are, Events
<1>4. Cardinality({}) = 0
  BY FS_EmptySet
<1>5. Bounds /\ FewGone
  <2>1. RING \in Nat /\ BUFFER \in Nat /\ CPUS \in Nat
    BY PipelineAssumption
  <2>2. \A S : Cardinality(Are(S)) = 0
    BY <1>3, <1>4
  <2>3. QED
    BY <2>1, <2>2 DEF Bounds, FewGone
<1>6. Ordered /\ NothingGone /\ ItemThere /\ DueReady
  BY <1>2, <1>3 DEF Ordered, NothingGone, ItemThere, DueReady
<1>7. Counted
  BY <1>2, <1>3, <1>4 DEF Counted
<1>8. QED
  BY <1>1, <1>5, <1>6, <1>7 DEF IInv

LEMMA StepLemma == IInv /\ [Next]_vars => IInv'
<1> SUFFICES ASSUME IInv, [Next]_vars PROVE IInv'
  OBVIOUS
<1>1. /\ Shape /\ Bounds /\ Ordered /\ NothingGone /\ FewGone
      /\ ItemThere /\ DueReady /\ Counted
  BY DEF IInv
<1>2. Shape' /\ Bounds' /\ Ordered'
  BY <1>1, ShapeStep, BoundsStep, OrderedStep
<1>3. NothingGone' /\ FewGone' /\ ItemThere'
  BY <1>1, GoneStep, ItemStep
<1>4. DueReady' /\ Counted'
  BY <1>1, DueStep, CountedStep
<1>5. QED
  BY <1>2, <1>3, <1>4 DEF IInv

\* The strengthening is an invariant of the specification: the shape of the
\* state, and what drain, the last pass and the buffer rely on of it.
THEOREM Invariant == Spec => []IInv
<1>1. Init => IInv
  BY InitLemma
<1>2. IInv /\ [Next]_vars => IInv'
  BY StepLemma
<1>3. QED
  BY <1>1, <1>2, PTL DEF Spec

\* The ring never holds more than its slots, the buffer more than its lines, nor
\* are more slots being filled than there are processors, whatever their sizes
\* (main.rs:186-207 of the loader and the probes' reserve and submit).
THEOREM PipelineTyped == Spec => []TypeOK
<1>1. IInv => TypeOK
  BY DEF IInv, Shape, Bounds, TypeOK, Places, Ring, Events
<1>2. QED
  BY <1>1, Invariant, PTL

\* The capture is in the order the slots were reserved, and what is written out
\* comes before what is kept in the buffer.
THEOREM CaptureInOrder == Spec => []InOrder
<1>1. IInv => InOrder
  BY OrderedInOrder DEF IInv
<1>2. QED
  BY <1>1, Invariant, PTL

\* A clean exit leaves nothing behind that was ready when the signal was taken,
\* and the count told to the user is of the lines made, written or failed.
THEOREM CleanExit == Spec => []CleanExitComplete
<1>1. ASSUME IInv, pc = "done"
      PROVE  written = Cardinality(Are({"filed", "failed"}))
  <2>1. /\ Are({"buffered", "gone"}) = {}
        /\ written = Cardinality(Are({"buffered", "filed", "failed"}))
    BY <1>1 DEF IInv, Counted
  <2>2. Are({"buffered", "filed", "failed"}) = Are({"filed", "failed"})
    BY <2>1 DEF Are
  <2>3. QED
    BY <2>1, <2>2
<1>2. IInv => CleanExitComplete
  BY <1>1 DEF IInv, DueReady, Counted, CleanExitComplete
<1>3. QED
  BY <1>2, Invariant, PTL

\* However the sensor ends, no more lines are lost than the buffer holds.
THEOREM LossBounded == Spec => []BoundedLoss
<1>1. IInv => BoundedLoss
  BY DEF IInv, FewGone, BoundedLoss
<1>2. QED
  BY <1>1, Invariant, PTL

\* The sensor implements the event log (its safety: KeepsLog is that and the
\* fairness of Take): a reservation offers an event, drain takes the first one
\* pending, the end of the sensor ends the log, and no other step is seen.
THEOREM ImplementsLog ==
  Spec => Log!LogInit /\ [][Log!LogNext]_(Log!logVars)
<1>1. Init => Log!LogInit
  <2> SUFFICES ASSUME Init PROVE Log!LogInit
    OBVIOUS
  <2>1. made = 0 /\ 1..made = {} /\ pc = "open"
    BY DEF Init
  <2>2. Ring = {} /\ Are({"buffered", "filed"}) = {}
    BY <2>1 DEF Ring, Are, Events
  <2>3. Running = TRUE
    BY <2>1 DEF Running
  <2>4. QED
    BY <2>1, <2>2, <2>3 DEF Log!LogInit
<1>2. IInv /\ [Next]_vars => [Log!LogNext]_(Log!logVars)
  <2> SUFFICES ASSUME IInv, [Next]_vars
               PROVE  [Log!LogNext]_(Log!logVars)
    OBVIOUS
  <2> DEFINE log == Are({"buffered", "filed"})
  <2>0. Shape /\ Ordered /\ ItemThere /\ Running \in BOOLEAN /\ Running' \in BOOLEAN
    BY DEF IInv, Running
  <2>1. CASE UNCHANGED vars
    BY <2>1 DEF vars, ringVars, loaderVars, Log!logVars, Running, Ring, Are, Events
  <2>2. CASE Running /\ (Still /\ UNCHANGED <<made, at>>)
    <3>1. made' = made /\ Ring' = Ring /\ log' = log
      BY <2>2, Unmoved
    <3>2. Running'
      BY <2>2 DEF Running, Still, Register, Driver, Readable, Signalled, NextItem, Clear, Signal,
                  Disk, CloseStdout, loaderVars
    <3>3. Running' = Running
      BY <2>0, <2>2, <3>2
    <3>4. QED
      BY <3>1, <3>3 DEF Log!logVars
  <2>3. CASE Reserve
    <3>1. made' = made + 1 /\ Ring' \in {Ring, Ring \cup {made + 1}}
      BY <2>0, <2>3, ReserveMoves
    <3>2. log' = log
      BY <2>0, <2>3, ReserveMoves
    <3>3. Running /\ Running' = Running
      BY <2>3 DEF Reserve, loaderVars, Running
    <3>4. Log!Offer
      BY <3>1, <3>2, <3>3 DEF Log!Offer
    <3>5. QED
      BY <3>4 DEF Log!LogNext
  <2>4. CASE \E i \in Events : Submit(i)
    <3>1. made' = made /\ Ring' = Ring /\ log' = log
      BY <2>0, <2>4, SubmitMoves
    <3>2. Running' = Running
      BY <2>4 DEF Submit, loaderVars, Running
    <3>3. QED
      BY <3>1, <3>2 DEF Log!logVars
  <2>5. CASE Skip \/ Emit
    <3>1. pc = "item" /\ pc' = "next" /\ Running /\ Running' = Running
      BY <2>5 DEF Skip, Emit, Running
    <3>2. PICK h \in Are({"submitted"}) : IsHead(h)
      BY <2>0, <3>1 DEF ItemThere, HasNext
    <3>3. /\ h \in Events /\ h \in Ring /\ \A j \in Ring : h <= j
          /\ \A i \in Events : IsHead(i) <=> i = h
      BY <2>0, <3>2, OneHead DEF IsHead, Are
    <3>4. made' = made /\ Ring' = Ring \ {h}
      <4>1. Ring \subseteq Events
        BY DEF Ring, Are
      <4>2. QED
        BY <2>0, <2>5, <3>3, <4>1, TakeMoves
    <3>5. log' \in {log, log \cup {h}}
      <4>1. \A i \in 1..made :
              /\ i = h => at'[i] \in {"silent", "failed", "buffered"} /\ i \notin log
              /\ i # h => at'[i] = at[i] \/ (at[i] = "buffered" /\ at'[i] = "filed")
        BY <2>0, <2>5, <3>2, <3>3, TakeMoves DEF Are, Events
      <4>2. QED
        BY <3>3, <3>4, <4>1 DEF Are, Events
    <3>6. Log!Take
      BY <3>1, <3>3, <3>4, <3>5 DEF Log!Take
    <3>7. QED
      BY <3>6 DEF Log!LogNext
  <2>6. CASE Running /\ Ending
    <3>1. PICK b \in {"filed", "gone"} :
            /\ made' = made
            /\ \A i \in 1..made : at'[i] = IF at[i] = "buffered" THEN b ELSE at[i]
            /\ Ring' = Ring
            /\ pc' \in {"killed", "panicked", "done", "failed"}
      BY <2>0, <2>6, EndMoves
    <3>2. Running /\ Running' = FALSE
      BY <2>6, <3>1 DEF Running
    <3>3. log' \subseteq log
      BY <3>1 DEF Are, Events
    <3>4. ASSUME NEW i \in log', NEW j \in log \ log'
          PROVE  i < j
      <4>1. i \in 1..made /\ j \in 1..made /\ i # j /\ made \in Nat
        BY <2>0, <3>1, <3>3, <3>4 DEF Are, Events, Shape
      <4>2. at[j] = "buffered" /\ b = "gone"
        BY <3>1, <3>4 DEF Are, Events
      <4>3. at[i] = "filed"
        BY <3>1, <3>3, <3>4, <4>2 DEF Are, Events
      <4>4. ~(j < i)
        BY <2>0, <4>1, <4>2, <4>3 DEF Ordered
      <4>5. QED
        BY <4>1, <4>4
    <3>5. Log!End
      BY <3>1, <3>2, <3>3, <3>4 DEF Log!End
    <3>6. QED
      BY <3>5 DEF Log!LogNext
  <2>7. QED
    BY <2>1, <2>2, <2>3, <2>4, <2>5, <2>6, Steps, OnlyWhileRunning
<1>3. QED
  BY <1>1, <1>2, Invariant, PTL DEF Spec
=============================================================================
