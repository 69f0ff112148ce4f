---------------------------- MODULE MutingProofs ----------------------------
(***************************************************************************)
(* Who is muted, what is silenced, what may be captured of a tool's        *)
(* children, what lineage is reported and which bounds are kept, for every *)
(* host, every interleaving of it with the start-up and the drain, and     *)
(* every size of the caches and maps.                                      *)
(***************************************************************************)
EXTENDS Muting, Loops, FiniteSetTheorems

-----------------------------------------------------------------------------
(* Descent.                                                                *)

\* Task b descends from all that a descends from.
Up(a, b) == /\ a \in DOMAIN tasks /\ b \in DOMAIN tasks
            /\ tasks[a].above \subseteq tasks[b].above

Task == [group : Nat, parent : Nat, exe : Program, live : BOOLEAN,
         above : SUBSET Nat, ran : BOOLEAN, started : SUBSET Nat, left : BOOLEAN]

TaskFine(t) ==
  /\ tasks[t].group \in DOMAIN tasks /\ tasks[tasks[t].group].group = tasks[t].group
  /\ tasks[t].group \in tasks[t].above /\ tasks[t].above \subseteq DOMAIN tasks
  /\ Up(1, t) /\ Up(t, tasks[t].group) /\ Up(tasks[t].group, t)
  /\ tasks[t].parent # 0 => Up(tasks[t].parent, t)
  /\ tasks[t].exe \in TOOLS => Beneath(t)

TasksTyped == \E n \in Nat \ {0} : tasks \in [1..n -> Task]

TasksFine == TasksTyped /\ \A t \in DOMAIN tasks : TaskFine(t)

\* The tasks that may be muted.
Earned == {t \in DOMAIN tasks : Beneath(t)}

\* The steps the host takes: descent stays, and what ran has run.
Grows ==
  /\ DOMAIN tasks \subseteq DOMAIN tasks'
  /\ \A t \in DOMAIN tasks :
       /\ tasks'[t].above = tasks[t].above /\ tasks'[t].group = tasks[t].group
       /\ tasks[t].ran => tasks'[t].ran

LEMMA UpTrans == ASSUME NEW a, NEW b, NEW c, Up(a, b), Up(b, c)  PROVE Up(a, c)
BY DEF Up

LEMMA UpBeneath == ASSUME NEW a, NEW b, Up(a, b), Beneath(a)  PROVE Beneath(b)
BY DEF Up, Beneath

LEMMA UpSelf == ASSUME NEW a \in DOMAIN tasks  PROVE Up(a, a)
BY DEF Up

LEMMA UpStays == ASSUME Grows, NEW a, NEW b, Up(a, b)  PROVE Up(a, b)'
BY DEF Grows, Up

LEMMA BeneathStays ==
  ASSUME Grows, TasksFine, NEW t \in DOMAIN tasks, Beneath(t)
  PROVE  t \in DOMAIN tasks' /\ Beneath(t)'
<1>1. PICK p \in tasks[t].above : tasks[p].ran
  BY DEF Beneath
<1>2. p \in DOMAIN tasks
  BY DEF TasksFine, TaskFine
<1>3. tasks'[t].above = tasks[t].above /\ tasks'[p].ran
  BY <1>1, <1>2 DEF Grows
<1>4. QED
  BY <1>1, <1>3 DEF Beneath, Grows

LEMMA EarnedStays == ASSUME Grows, TasksFine  PROVE Earned \subseteq Earned'
<1> SUFFICES ASSUME NEW t \in Earned  PROVE t \in Earned'
  OBVIOUS
<1>1. t \in DOMAIN tasks /\ Beneath(t)
  BY DEF Earned
<1>2. QED
  BY <1>1, BeneathStays DEF Earned

\* The next task is a new one.
LEMMA NextIsNew ==
  ASSUME NEW n \in Nat \ {0}, DOMAIN tasks = 1..n
  PROVE  NextTask = n + 1
<1>1. Cardinality(1..n) = n
  BY FS_Interval
<1>2. QED
  BY <1>1 DEF NextTask

LEMMA InitFine == ASSUME TasksInit  PROVE TasksFine
<1>1. /\ DOMAIN tasks = 1..1
      /\ tasks[1] = [group |-> 1, parent |-> 0, exe |-> SHELL, live |-> TRUE,
                     above |-> {1}, ran |-> FALSE, started |-> {}, left |-> FALSE]
      /\ tasks = [t \in 1..1 |-> tasks[t]]
  BY DEF TasksInit
<1>2. tasks[1] \in Task
  BY <1>1, TasksAssumption DEF Task
<1>3. tasks \in [1..1 -> Task]
  <2>1. \A t \in 1..1 : t = 1
    OBVIOUS
  <2>2. \A t \in 1..1 : tasks[t] \in Task
    BY <1>2, <2>1
  <2> HIDE DEF Task
  <2>3. QED
    BY <1>1, <2>2
<1>4. TaskFine(1)
  <2>1. /\ tasks[1].group = 1 /\ tasks[1].parent = 0 /\ tasks[1].above = {1}
        /\ tasks[1].exe \notin TOOLS /\ 1 \in DOMAIN tasks
    BY <1>1, TasksAssumption
  <2>2. Up(1, 1)
    BY <2>1, UpSelf
  <2>3. QED
    BY <2>1, <2>2 DEF TaskFine
<1>5. QED
  BY <1>1, <1>3, <1>4 DEF TasksFine, TasksTyped

\* A task that is as before, but for being alive, stays fine.
LEMMA StaysTask ==
  ASSUME TasksFine, Grows, NEW t \in DOMAIN tasks,
         tasks'[t].parent = tasks[t].parent, tasks'[t].exe = tasks[t].exe
  PROVE  TaskFine(t)'
<1>1. TaskFine(t)
  BY DEF TasksFine
<1>2. PICK g, p : g = tasks[t].group /\ p = tasks[t].parent
  OBVIOUS
<1>3. /\ tasks'[t].group = g /\ tasks'[t].above = tasks[t].above /\ tasks'[g].group = g
  BY <1>1, <1>2 DEF Grows, TaskFine
<1>4. Up(1, t)' /\ Up(t, g)' /\ Up(g, t)' /\ (p # 0 => Up(p, t)')
  BY <1>1, <1>2, UpStays DEF TaskFine
<1>5. tasks[t].exe \in TOOLS => Beneath(t)'
  BY <1>1, BeneathStays DEF TaskFine
<1>6. g \in DOMAIN tasks' /\ tasks[t].above \subseteq DOMAIN tasks'
  BY <1>1, <1>2 DEF TaskFine, Grows
<1>7. g \in tasks[t].above
  BY <1>1, <1>2 DEF TaskFine
<1>8. QED
  BY <1>2, <1>3, <1>4, <1>5, <1>6, <1>7 DEF TaskFine

\* Task u starts beside those there are.
Started(t, thread, u) ==
  /\ u \in Nat \ {0} /\ u \notin DOMAIN tasks /\ DOMAIN tasks = 1..(u - 1)
  /\ DOMAIN tasks' = 1..u /\ u \in 1..u /\ tasks' = [v \in 1..u |-> tasks'[v]]
  /\ \A v \in DOMAIN tasks : v \in 1..u /\ tasks'[v] = tasks[v] /\ tasks[v] \in Task
  /\ \A v \in 1..u : v = u \/ v \in DOMAIN tasks
  /\ tasks[t].live /\ tasks'[u] \in Task /\ tasks'[u].parent = t
  /\ tasks'[u].group = (IF thread THEN tasks[t].group ELSE u)
  /\ tasks'[u].exe = tasks[t].exe /\ tasks'[u].live = tasks[t].live
  /\ tasks'[u].above = (IF thread THEN tasks[t].above ELSE tasks[t].above \cup {u})
  /\ tasks'[u].started = IF tasks[t].started = {} THEN {} ELSE tasks[t].started \cup {u}

LEMMA StartShape ==
  ASSUME TasksFine, NEW t \in DOMAIN tasks, NEW thread \in BOOLEAN, Start(t, thread),
         NEW u, u = NextTask
  PROVE  Started(t, thread, u)
<1>1. PICK n \in Nat \ {0} : tasks \in [1..n -> Task]
  BY DEF TasksFine, TasksTyped
<1>2. u = n + 1 /\ DOMAIN tasks = 1..n
  BY <1>1, NextIsNew
<1>3. PICK new : new = [tasks[t] EXCEPT
                          !.group   = IF thread THEN @ ELSE u,
                          !.parent  = t,
                          !.above   = IF thread THEN @ ELSE @ \cup {u},
                          !.ran     = FALSE, !.left = FALSE,
                          !.started = IF @ = {} THEN {} ELSE @ \cup {u}]
  OBVIOUS
<1>4. tasks[t] \in Task /\ u \in Nat \ {0} /\ u \notin DOMAIN tasks /\ t \in Nat
  BY <1>1, <1>2
<1>5. /\ new \in Task /\ new.group = (IF thread THEN tasks[t].group ELSE u)
      /\ new.parent = t /\ new.exe = tasks[t].exe /\ new.live = tasks[t].live
      /\ new.above = (IF thread THEN tasks[t].above ELSE tasks[t].above \cup {u})
      /\ new.started = IF tasks[t].started = {} THEN {} ELSE tasks[t].started \cup {u}
  BY <1>3, <1>4 DEF Task
<1>6. /\ \A v \in DOMAIN tasks : v \in 1..u /\ tasks[v] \in Task
      /\ \A v \in 1..u : v = u \/ v \in DOMAIN tasks
      /\ u \in 1..u
  BY <1>1, <1>2, <1>4
<1>7. /\ DOMAIN tasks' = 1..u
      /\ \A v \in 1..u : v \in DOMAIN tasks => tasks'[v] = tasks[v]
      /\ tasks' = [v \in 1..u |-> tasks'[v]]
      /\ tasks[t].live
  BY DEF Start, Live
<1>8. tasks'[u] = new
  BY <1>3, <1>4, <1>6 DEF Start
<1>9. DOMAIN tasks = 1..(u - 1)
  BY <1>2
<1>10. QED
  BY <1>4, <1>5, <1>6, <1>7, <1>8, <1>9 DEF Started

LEMMA StartFine ==
  ASSUME TasksFine, NEW t \in DOMAIN tasks, NEW thread \in BOOLEAN, Start(t, thread),
         NEW u, u = NextTask
  PROVE  /\ TasksFine' /\ Grows
         /\ u \in DOMAIN tasks' /\ Up(t, u)'
<1>1. Started(t, thread, u)
  BY StartShape
<1>3. PICK new : new = tasks'[u]
  OBVIOUS
<1>4. u \in Nat \ {0} /\ u \notin DOMAIN tasks
  BY <1>1 DEF Started
<1>5. /\ new \in Task /\ new.group = (IF thread THEN tasks[t].group ELSE u)
      /\ new.parent = t /\ new.exe = tasks[t].exe
      /\ new.above = IF thread THEN tasks[t].above ELSE tasks[t].above \cup {u}
  BY <1>1, <1>3 DEF Started
<1>6. /\ DOMAIN tasks' = 1..u /\ u \in 1..u /\ tasks'[u] = new
      /\ \A v \in DOMAIN tasks : v \in 1..u /\ tasks'[v] = tasks[v] /\ tasks[v] \in Task
      /\ \A v \in 1..u : v = u \/ v \in DOMAIN tasks
      /\ tasks' = [v \in 1..u |-> tasks'[v]]
  BY <1>1, <1>3 DEF Started
<1>7. tasks' \in [1..u -> Task]
  <2>1. \A v \in 1..u : tasks'[v] \in Task
    BY <1>5, <1>6
  <2>2. QED
    BY <1>6, <2>1
<1>8. Grows
  BY <1>6 DEF Grows
<1>9. Up(t, u)'
  BY <1>5, <1>6 DEF Up
<1>10. TaskFine(t)
  BY DEF TasksFine
<1>11. TaskFine(u)'
  <2>1. PICK g : g = new.group
    OBVIOUS
  <2>2. /\ g \in DOMAIN tasks' /\ tasks'[g].group = g /\ tasks'[g].above = new.above
        /\ g \in new.above /\ new.above \subseteq DOMAIN tasks'
    <3>1. CASE thread
      <4>1. g = tasks[t].group /\ new.above = tasks[t].above
        BY <1>5, <2>1, <3>1
      <4>2. /\ g \in DOMAIN tasks /\ tasks[g].group = g /\ tasks[g].above = tasks[t].above
            /\ g \in tasks[t].above /\ tasks[t].above \subseteq DOMAIN tasks
        BY <1>10, <4>1 DEF TaskFine, Up
      <4>3. QED
        BY <1>6, <4>1, <4>2
    <3>2. CASE ~thread
      <4>1. g = u /\ new.above = tasks[t].above \cup {u}
        BY <1>5, <2>1, <3>2
      <4>2. QED
        BY <1>6, <1>10, <2>1, <4>1 DEF TaskFine
    <3>3. QED
      BY <3>1, <3>2
  <2>3. Up(1, u)'
    <3>1. Up(1, t)'
      BY <1>8, <1>10, UpStays DEF TaskFine
    <3>2. QED
      BY <1>9, <3>1 DEF Up
  <2>4. Up(u, g)' /\ Up(g, u)'
    BY <1>6, <2>2 DEF Up
  <2>5. new.exe \in TOOLS => Beneath(u)'
    <3> SUFFICES ASSUME new.exe \in TOOLS  PROVE Beneath(u)'
      OBVIOUS
    <3>1. Beneath(t)'
      BY <1>5, <1>8, <1>10, BeneathStays DEF TaskFine
    <3>2. QED
      BY <1>9, <3>1 DEF Up, Beneath
  <2>6. QED
    BY <1>5, <1>6, <1>9, <2>1, <2>2, <2>3, <2>4, <2>5 DEF TaskFine
<1>12. \A v \in DOMAIN tasks : TaskFine(v)'
  BY <1>6, <1>8, StaysTask
<1>13. TasksFine'
  BY <1>4, <1>6, <1>7, <1>11, <1>12 DEF TasksFine, TasksTyped
<1>14. QED
  BY <1>6, <1>8, <1>9, <1>13

\* Who started process p once it has loaded the program, and whether it has
\* left a tool for another program by then.
StartedBy(p, program) ==
  CASE program \in TOOLS                                -> {p}
    [] program \notin TOOLS /\ tasks[p].started = {p} -> {}
    [] program \notin TOOLS /\ tasks[p].started # {p} -> tasks[p].started
Leaves(p, program) ==
  tasks[p].left \/ (tasks[p].started = {p} /\ program \notin TOOLS)

LEMMA LoadFine ==
  ASSUME TasksFine, NEW p, NEW program \in Program, Load(p, program)
  PROVE  /\ TasksFine' /\ Grows /\ DOMAIN tasks' = DOMAIN tasks /\ p \in DOMAIN tasks'
         /\ program \in TOOLS \cup {VPNIP} => Beneath(p)'
<1>1. PICK n \in Nat \ {0} : tasks \in [1..n -> Task]
  BY DEF TasksFine, TasksTyped
<1>0. p \in DOMAIN tasks
  BY DEF Load, Processes
<1>3. p \in Nat /\ DOMAIN tasks = 1..n /\ \A t \in DOMAIN tasks : tasks[t] \in Task
  <2>1. DOMAIN tasks = 1..n /\ \A t \in 1..n : tasks[t] \in Task
    BY <1>1
  <2>2. QED
    BY <1>0, <2>1
<1> DEFINE loaded == [tasks[p] EXCEPT
                        !.exe     = program,
                        !.ran     = @ \/ program \in TOOLS \cup {VPNIP},
                        !.left    = @ \/ (tasks[p].started = {p} /\ program \notin TOOLS),
                        !.started = CASE program \in TOOLS               -> {p}
                                      [] program \notin TOOLS /\ @ = {p} -> {}
                                      [] program \notin TOOLS /\ @ # {p} -> @]
           next(t) == IF t = p THEN loaded
                      ELSE IF tasks[t].group = p THEN [tasks[t] EXCEPT !.live = FALSE]
                      ELSE tasks[t]
<1>2. /\ p \in DOMAIN tasks /\ tasks[p].group = p
      /\ tasks' = [t \in DOMAIN tasks |-> next(t)]
  BY DEF Load, Processes
<1>4. /\ loaded.exe = program /\ loaded.group = p
      /\ loaded.above = tasks[p].above /\ loaded.parent = tasks[p].parent
      /\ loaded.ran = (tasks[p].ran \/ program \in TOOLS \cup {VPNIP})
  BY <1>2, <1>3 DEF Task
<1>5. loaded \in Task
  <2>1. (tasks[p].ran \/ program \in TOOLS \cup {VPNIP}) \in BOOLEAN
    OBVIOUS
  <2>2. PICK b \in BOOLEAN : b = (tasks[p].ran \/ program \in TOOLS \cup {VPNIP})
    BY <2>1
  <2>3. PICK s \in SUBSET Nat : s = StartedBy(p, program)
    BY <1>2, <1>3 DEF Task, StartedBy
  <2>5. PICK l \in BOOLEAN : l = Leaves(p, program)
    BY DEF Leaves
  <2>4. loaded = [tasks[p] EXCEPT !.exe = program, !.ran = b, !.left = l, !.started = s]
    BY <2>2, <2>3, <2>5 DEF StartedBy, Leaves
  <2> HIDE DEF loaded
  <2>6. QED
    BY <1>2, <1>3, <2>4 DEF Task
<1> HIDE DEF loaded
<1>6. ASSUME NEW t \in DOMAIN tasks, t # p
      PROVE  /\ next(t) \in Task /\ next(t).group = tasks[t].group
             /\ next(t).above = tasks[t].above /\ next(t).ran = tasks[t].ran
             /\ next(t).parent = tasks[t].parent /\ next(t).exe = tasks[t].exe
  BY <1>3, <1>6 DEF Task
<1>7. /\ DOMAIN tasks' = DOMAIN tasks /\ tasks'[p] = loaded
      /\ \A t \in DOMAIN tasks : tasks'[t] = next(t)
  BY <1>2
<1>8. tasks' \in [1..n -> Task]
  <2>1. \A t \in DOMAIN tasks : next(t) \in Task
    BY <1>5, <1>6
  <2> HIDE DEF next
  <2>2. QED
    BY <1>2, <1>3, <2>1
<1> HIDE DEF next
<1>9. Grows
  BY <1>2, <1>4, <1>6, <1>7 DEF Grows
<1>10. \A t \in DOMAIN tasks \ {p} : TaskFine(t)'
  BY <1>6, <1>7, <1>9, StaysTask
<1>11. TaskFine(p)
  BY <1>2 DEF TasksFine
<1>12. program \in TOOLS \cup {VPNIP} => Beneath(p)'
  <2> SUFFICES ASSUME program \in TOOLS \cup {VPNIP}  PROVE Beneath(p)'
    OBVIOUS
  <2>1. loaded.ran
    BY <1>4
  <2>2. tasks'[p].ran /\ p \in tasks'[p].above
    BY <1>2, <1>4, <1>7, <1>11, <2>1 DEF TaskFine
  <2>3. QED
    BY <2>2 DEF Beneath
<1>13. TaskFine(p)'
  <2>0. PICK q : q = tasks[p].parent
    OBVIOUS
  <2>1. Up(1, p)' /\ Up(p, p)' /\ (q # 0 => Up(q, p)')
    BY <1>2, <1>9, <1>11, <2>0, UpStays DEF TaskFine
  <2>2. p \in DOMAIN tasks' /\ p \in tasks[p].above /\ tasks[p].above \subseteq DOMAIN tasks'
    BY <1>2, <1>7, <1>11 DEF TaskFine
  <2>3. QED
    BY <1>4, <1>7, <1>12, <2>0, <2>1, <2>2 DEF TaskFine
<1>14. TasksFine'
  BY <1>7, <1>8, <1>10, <1>13 DEF TasksFine, TasksTyped
<1>15. QED
  BY <1>2, <1>7, <1>9, <1>12, <1>14

LEMMA ExitFine ==
  ASSUME TasksFine, NEW t, Exit(t)
  PROVE  TasksFine' /\ Grows
<1>1. PICK n \in Nat \ {0} : tasks \in [1..n -> Task]
  BY DEF TasksFine, TasksTyped
<1> DEFINE next(u) == IF u = t \/ tasks[u].group = t
                      THEN [tasks[u] EXCEPT !.live = FALSE] ELSE tasks[u]
<1>2. tasks' = [u \in DOMAIN tasks |-> next(u)] /\ DOMAIN tasks = 1..n
  BY <1>1 DEF Exit
<1>3. ASSUME NEW u \in DOMAIN tasks
      PROVE  /\ next(u) \in Task /\ next(u).group = tasks[u].group
             /\ next(u).above = tasks[u].above /\ next(u).ran = tasks[u].ran
             /\ next(u).parent = tasks[u].parent /\ next(u).exe = tasks[u].exe
  <2>1. tasks[u] \in Task
    BY <1>1
  <2>2. QED
    BY <2>1 DEF Task
<1>4. tasks' \in [1..n -> Task]
  BY <1>2, <1>3
<1>5. DOMAIN tasks' = DOMAIN tasks /\ \A u \in DOMAIN tasks : tasks'[u] = next(u)
  BY <1>2
<1> HIDE DEF next
<1>6. Grows
  BY <1>3, <1>5 DEF Grows
<1>7. \A u \in DOMAIN tasks : TaskFine(u)'
  BY <1>3, <1>5, <1>6, StaysTask
<1>8. QED
  BY <1>4, <1>5, <1>6, <1>7 DEF TasksFine, TasksTyped
-----------------------------------------------------------------------------
(* What the normalizer knows is true of the tasks.                         *)

Info == [ppid : Nat, exe : Program]

InfoFine(p, info) ==
  /\ p \in DOMAIN tasks
  /\ info.ppid # 0 => Up(info.ppid, p)
  /\ info.exe \in TOOLS => Beneath(p)

Procs == {f \in UNION {[D -> Info] : D \in SUBSET Nat} :
            \A p \in DOMAIN f : InfoFine(p, f[p])}

Sound == [procs : Procs, order : Seq(Nat), muted : SUBSET Earned, newly_muted : Seq(Earned)]

LEMMA ProcsAre ==
  ASSUME NEW f, NEW D \in SUBSET Nat, f = [p \in D |-> f[p]],
         \A p \in D : f[p] \in Info /\ InfoFine(p, f[p])
  PROVE  f \in Procs
<1>1. f \in [D -> Info] /\ DOMAIN f = D
  <2> HIDE DEF Info
  <2>1. QED
    OBVIOUS
<1>2. QED
  BY <1>1 DEF Procs

LEMMA ProcsHave ==
  ASSUME NEW f \in Procs
  PROVE  /\ DOMAIN f \in SUBSET Nat /\ f = [p \in DOMAIN f |-> f[p]]
         /\ \A p \in DOMAIN f : f[p] \in Info /\ InfoFine(p, f[p])
BY DEF Procs

LEMMA TaskIds ==
  ASSUME TasksFine
  PROVE  /\ DOMAIN tasks \subseteq Nat \ {0} /\ 1 \in DOMAIN tasks
         /\ \A t \in DOMAIN tasks : tasks[t] \in Task /\ TaskFine(t)
<1>1. PICK n \in Nat \ {0} : tasks \in [1..n -> Task]
  BY DEF TasksFine, TasksTyped
<1>2. DOMAIN tasks = 1..n /\ 1 \in 1..n /\ 1..n \subseteq Nat \ {0}
  BY <1>1
<1>3. QED
  BY <1>1, <1>2 DEF TasksFine

\* What /proc shows of a living task.
LEMMA ProcShows ==
  ASSUME TasksFine, NEW t \in DOMAIN Proc
  PROVE  t \in Nat /\ Proc[t] \in Info /\ InfoFine(t, Proc[t])
<1>1. /\ t \in DOMAIN tasks /\ Proc[t] = [ppid |-> ParentNow(t), exe |-> tasks[t].exe]
  BY DEF Proc, Live
<1> DEFINE g == tasks[t].group
           p == tasks[g].parent
           q == tasks[p].group
<1>2. /\ TaskFine(t) /\ tasks[t] \in Task /\ g \in DOMAIN tasks /\ TaskFine(g) /\ tasks[g] \in Task
      /\ Up(g, t) /\ Up(1, t) /\ DOMAIN tasks \subseteq Nat \ {0}
  BY <1>1, TaskIds DEF TaskFine
<1>3. p # 0 => /\ p \in DOMAIN tasks /\ Up(p, t) /\ TaskFine(p)
  BY <1>2, UpTrans, TaskIds DEF TaskFine, Up
<1>4. p # 0 => q \in DOMAIN tasks /\ Up(q, t)
  BY <1>3, UpTrans DEF TaskFine
<1>5. /\ ParentNow(t) \in Nat
      /\ ParentNow(t) # 0 => Up(ParentNow(t), t)
  <2>1. CASE p = 0
    BY <2>1 DEF ParentNow
  <2>2. CASE p # 0 /\ q \in Live
    <3>1. ParentNow(t) = q
      BY <2>2 DEF ParentNow
    <3>2. QED
      BY <1>2, <1>4, <2>2, <3>1
  <2>3. CASE p # 0 /\ q \notin Live
    <3>1. ParentNow(t) = 1
      BY <2>3 DEF ParentNow
    <3>2. QED
      BY <1>2, <3>1
  <2>4. QED
    BY <2>1, <2>2, <2>3
<1>6. tasks[t].exe \in Program /\ (tasks[t].exe \in TOOLS => Beneath(t))
  BY <1>2 DEF Task, TaskFine
<1>7. QED
  BY <1>1, <1>2, <1>5, <1>6 DEF Info, InfoFine

LEMMA InsertSound ==
  ASSUME NEW n \in Sound, NEW pid \in Nat, NEW info \in Info, InfoFine(pid, info)
  PROVE  Insert(n, pid, info) \in Sound
<1> DEFINE seen == pid \in DOMAIN n.procs
           full == ~seen /\ Len(n.order) = PROC_CACHE_CAP
           kept == IF full THEN DOMAIN n.procs \ {Head(n.order)} ELSE DOMAIN n.procs
           f == [p \in kept \cup {pid} |-> IF p = pid THEN info ELSE n.procs[p]]
           o == CASE seen -> n.order
                  [] ~seen /\ full  -> Append(Tail(n.order), pid)
                  [] ~seen /\ ~full -> Append(n.order, pid)
<1>1. /\ n.procs \in Procs /\ n.order \in Seq(Nat)
      /\ n.muted \in SUBSET Earned /\ n.newly_muted \in Seq(Earned)
  BY DEF Sound
<1>2. Insert(n, pid, info) = [n EXCEPT !.procs = f, !.order = o]
  BY DEF Insert
<1>3. o \in Seq(Nat)
  <2>1. CASE seen
    BY <1>1, <2>1
  <2>2. CASE ~seen /\ full
    <3>1. o = Append(Tail(n.order), pid) /\ n.order # <<>>
      BY <1>1, <2>2, NormalizerAssumption
    <3> HIDE DEF o
    <3>2. Tail(n.order) \in Seq(Nat)
      BY <1>1, <3>1
    <3>3. QED
      BY <3>1, <3>2
  <2>3. CASE ~seen /\ ~full
    <3>1. o = Append(n.order, pid)
      BY <2>3
    <3> HIDE DEF o
    <3>2. QED
      BY <1>1, <3>1
  <2>4. QED
    BY <2>1, <2>2, <2>3
<1>4. f \in Procs
  <2>1. kept \subseteq DOMAIN n.procs
    OBVIOUS
  <2>2. kept \cup {pid} \in SUBSET Nat
    BY <1>1, <2>1, ProcsHave
  <2> HIDE DEF kept
  <2>3. \A p \in kept \cup {pid} : f[p] \in Info /\ InfoFine(p, f[p])
    BY <1>1, <2>1, ProcsHave
  <2>4. f = [p \in kept \cup {pid} |-> f[p]]
    OBVIOUS
  <2> HIDE DEF f
  <2>5. QED
    BY <2>2, <2>3, <2>4, ProcsAre
<1> HIDE DEF f, o
<1>5. QED
  BY <1>2, <1>3, <1>4 DEF Sound

LEMMA GetSound ==
  ASSUME TasksFine, NEW n \in Sound, NEW pid
  PROVE  Get(n, pid, Proc) \in Sound
<1>1. CASE pid \notin DOMAIN n.procs /\ pid \in DOMAIN Proc
  BY <1>1, ProcShows, InsertSound DEF Get
<1>2. CASE ~(pid \notin DOMAIN n.procs /\ pid \in DOMAIN Proc)
  BY <1>2 DEF Get
<1>3. QED
  BY <1>1, <1>2

\* The entry of a process in the table.
LEMMA EntryTrue ==
  ASSUME NEW n \in Sound, NEW pid \in DOMAIN n.procs
  PROVE  /\ pid \in DOMAIN tasks
         /\ n.procs[pid].ppid \in Nat /\ n.procs[pid].exe \in Program
         /\ n.procs[pid].ppid # 0 => Up(n.procs[pid].ppid, pid)
         /\ n.procs[pid].exe \in TOOLS => Beneath(pid)
<1>1. n.procs \in Procs
  BY DEF Sound
<1>2. n.procs[pid] \in Info /\ InfoFine(pid, n.procs[pid])
  BY <1>1, ProcsHave
<1>3. QED
  BY <1>2 DEF Info, InfoFine

-----------------------------------------------------------------------------
(* is_muted: a verdict is earned.                                          *)

\* A walk from `pid' is at something `pid' descends from.
Walks(pid) == {w \in [n : Sound, cur : Nat, found : BOOLEAN, over : BOOLEAN] :
                 /\ w.over \/ Up(w.cur, pid)
                 /\ w.found => Beneath(pid)}

LEMMA RoundWalks ==
  ASSUME TasksFine, NEW pid, NEW w \in Walks(pid)
  PROVE  MuteRound(w, pid, Proc) \in Walks(pid)
<1> DEFINE n    == Get(w.n, w.cur, Proc)
           info == n.procs[w.cur]
           hit  == w.cur # pid /\ w.cur \in w.n.muted
<1>1. /\ w.n \in Sound /\ w.cur \in Nat /\ w.found \in BOOLEAN /\ w.over \in BOOLEAN
      /\ w.over \/ Up(w.cur, pid)
      /\ w.found => Beneath(pid)
      /\ w = [n |-> w.n, cur |-> w.cur, found |-> w.found, over |-> w.over]
  BY DEF Walks
<1>2. n \in Sound
  BY <1>1, GetSound
<1> HIDE DEF n
<1>3. CASE w.over
  BY <1>3 DEF MuteRound
<1>4. CASE ~w.over /\ hit
  <2>1. MuteRound(w, pid, Proc) = [w EXCEPT !.found = TRUE, !.over = TRUE]
    BY <1>4 DEF MuteRound
  <2>2. Beneath(w.cur)
    BY <1>1, <1>4 DEF Sound, Earned
  <2>3. Beneath(pid)
    BY <1>1, <1>4, <2>2, UpBeneath
  <2>4. QED
    BY <1>1, <2>1, <2>3 DEF Walks
<1>5. CASE ~w.over /\ ~hit /\ w.cur \notin DOMAIN n.procs
  <2>1. MuteRound(w, pid, Proc) = [w EXCEPT !.n = n, !.over = TRUE]
    BY <1>5 DEF MuteRound, n
  <2>2. QED
    BY <1>1, <1>2, <2>1 DEF Walks
<1>6. CASE ~w.over /\ ~hit /\ w.cur \in DOMAIN n.procs
  <2>1. /\ info.ppid \in Nat
        /\ info.exe \in TOOLS => Beneath(w.cur)
        /\ info.ppid # 0 => Up(info.ppid, w.cur)
    BY <1>2, <1>6, EntryTrue
  <2>2. PICK found \in BOOLEAN : found = (info.exe \in muted_exes)
    <3> HIDE DEF info
    <3>1. (info.exe \in muted_exes) \in BOOLEAN
      OBVIOUS
    <3>2. QED
      BY <3>1
  <2>3. PICK over \in BOOLEAN : over = (info.exe \in muted_exes \/ info.ppid \in {0, w.cur})
    OBVIOUS
  <2>4. MuteRound(w, pid, Proc) = [n |-> n, cur |-> info.ppid, found |-> found, over |-> over]
    BY <1>6, <2>2, <2>3 DEF MuteRound, n
  <2>5. Up(w.cur, pid)
    BY <1>1, <1>6
  <2>6. found => Beneath(pid)
    BY <2>1, <2>2, <2>5, UpBeneath, MutingAssumption
  <2>7. over \/ Up(info.ppid, pid)
    BY <2>1, <2>3, <2>5, UpTrans
  <2> HIDE DEF info
  <2>8. QED
    BY <1>2, <2>1, <2>4, <2>6, <2>7 DEF Walks
<1>7. QED
  BY <1>3, <1>4, <1>5, <1>6

LEMMA WalkRuns ==
  ASSUME TasksFine, NEW m \in Sound, NEW pid \in DOMAIN tasks
  PROVE  \E walk \in [0..MUTE_DEPTH -> Walks(pid)] :
           /\ walk[0] = [n |-> m, cur |-> pid, found |-> FALSE, over |-> FALSE]
           /\ \A k \in 1..MUTE_DEPTH : walk[k] = MuteRound(walk[k - 1], pid, Proc)
           /\ MuteWalk(m, pid, Proc) = walk[MUTE_DEPTH]
<1> DEFINE start == [n |-> m, cur |-> pid, found |-> FALSE, over |-> FALSE]
           S == Walks(pid)
           step == [s \in S \X (1..MUTE_DEPTH) |-> MuteRound(s[1], pid, Proc)]
           Is(f) == f = [k \in 0..MUTE_DEPTH |->
                           IF k = 0 THEN start ELSE MuteRound(f[k - 1], pid, Proc)]
           walk == CHOOSE f : Is(f)
<1>1. MUTE_DEPTH \in Nat
  BY NormalizerAssumption
<1>2. start \in S
  BY UpSelf, TaskIds DEF Walks
<1> HIDE DEF start, S
<1>3. step \in [S \X (1..MUTE_DEPTH) -> S]
  BY RoundWalks DEF S
<1>4. PICK g \in [0..MUTE_DEPTH -> S] : Runs(g, start, step, MUTE_DEPTH)
  <2> HIDE DEF step
  <2>1. QED
    BY <1>1, <1>2, <1>3, LoopExists
<1>5. Is(g)
  <2>1. \A k \in 1..MUTE_DEPTH : g[k] = MuteRound(g[k - 1], pid, Proc)
    <3> SUFFICES ASSUME NEW k \in 1..MUTE_DEPTH  PROVE g[k] = MuteRound(g[k - 1], pid, Proc)
      OBVIOUS
    <3>1. k - 1 \in 0..MUTE_DEPTH
      BY <1>1
    <3>2. g[k - 1] \in S
      BY <1>4, <3>1
    <3>3. step[<<g[k - 1], k>>] = MuteRound(g[k - 1], pid, Proc)
      BY <3>2
    <3>4. QED
      BY <1>4, <3>3 DEF Runs
  <2>2. \A k \in 0..MUTE_DEPTH : k # 0 => k \in 1..MUTE_DEPTH
    BY <1>1
  <2>3. g = [k \in 0..MUTE_DEPTH |-> g[k]] /\ g[0] = start
    BY <1>4 DEF Runs
  <2> HIDE DEF step
  <2>4. QED
    BY <2>1, <2>2, <2>3
<1>6. Is(walk)
  <2> HIDE DEF Is
  <2>1. QED
    BY <1>5, Zenon
<1>7. MuteWalk(m, pid, Proc) = walk[MUTE_DEPTH]
  BY DEF MuteWalk, start
<1> HIDE DEF walk, step
<1>8. \A k \in 0..MUTE_DEPTH : walk[k] \in S
  <2>1. walk[0] \in S
    BY <1>1, <1>2, <1>6
  <2>2. ASSUME NEW k \in 1..MUTE_DEPTH, walk[k - 1] \in S  PROVE walk[k] \in S
    <3>1. k \in 0..MUTE_DEPTH /\ k # 0
      BY <1>1
    <3>2. walk[k] = MuteRound(walk[k - 1], pid, Proc)
      BY <1>6, <3>1
    <3>3. QED
      BY <2>2, <3>2, RoundWalks DEF S
  <2>3. QED
    BY <1>1, <2>1, <2>2, LoopStays
<1>9. walk \in [0..MUTE_DEPTH -> S]
  <2> HIDE DEF S
  <2>1. QED
    BY <1>6, <1>8
<1>10. \A k \in 1..MUTE_DEPTH : walk[k] = MuteRound(walk[k - 1], pid, Proc)
  BY <1>1, <1>6
<1>11. walk[0] = start
  BY <1>1, <1>6
<1>12. QED
  BY <1>7, <1>9, <1>10, <1>11 DEF S, start

LEMMA WalkEarns ==
  ASSUME TasksFine, NEW m \in Sound, NEW pid \in DOMAIN tasks
  PROVE  MuteWalk(m, pid, Proc) \in Walks(pid)
<1>1. MUTE_DEPTH \in 0..MUTE_DEPTH
  BY NormalizerAssumption
<1>2. PICK walk \in [0..MUTE_DEPTH -> Walks(pid)] : MuteWalk(m, pid, Proc) = walk[MUTE_DEPTH]
  BY WalkRuns
<1> HIDE DEF Walks
<1>3. QED
  BY <1>1, <1>2

\* A set that a reading of /proc does not leave, a walk does not leave.
LEMMA WalkWithin ==
  ASSUME TasksFine, NEW K \in SUBSET Sound, \A n \in K : \A p : Get(n, p, Proc) \in K,
         NEW m \in K, NEW pid \in DOMAIN tasks
  PROVE  MuteWalk(m, pid, Proc).n \in K
<1>1. MUTE_DEPTH \in Nat
  BY NormalizerAssumption
<1>2. PICK walk \in [0..MUTE_DEPTH -> Walks(pid)] :
        /\ walk[0] = [n |-> m, cur |-> pid, found |-> FALSE, over |-> FALSE]
        /\ \A k \in 1..MUTE_DEPTH : walk[k] = MuteRound(walk[k - 1], pid, Proc)
        /\ MuteWalk(m, pid, Proc) = walk[MUTE_DEPTH]
  BY WalkRuns
<1> DEFINE S == {w \in Walks(pid) : w.n \in K}
<1>3. walk[0] \in S
  <2>1. 0 \in 0..MUTE_DEPTH /\ walk[0].n = m
    BY <1>1, <1>2
  <2> HIDE DEF Walks
  <2>2. QED
    BY <1>2, <2>1
<1>4. ASSUME NEW k \in 1..MUTE_DEPTH, walk[k - 1] \in S  PROVE walk[k] \in S
  <2>1. walk[k] \in Walks(pid)
    BY <1>1, <1>2
  <2>2. PICK w : w = walk[k - 1]
    OBVIOUS
  <2>3. w.n \in K /\ w = [n |-> w.n, cur |-> w.cur, found |-> w.found, over |-> w.over]
    BY <1>4, <2>2 DEF Walks
  <2>4. MuteRound(w, pid, Proc).n \in {w.n, Get(w.n, w.cur, Proc)}
    BY <2>3 DEF MuteRound
  <2>5. walk[k].n \in K
    BY <1>2, <2>2, <2>3, <2>4
  <2>6. QED
    BY <2>1, <2>5
<1> HIDE DEF S
<1>5. \A k \in 0..MUTE_DEPTH : walk[k] \in S
  BY <1>1, <1>3, <1>4, LoopStays
<1>6. QED
  BY <1>1, <1>2, <1>5 DEF S

LEMMA SoundParts ==
  ASSUME NEW n \in Sound
  PROVE  /\ n.procs \in Procs /\ n.order \in Seq(Nat)
         /\ n.muted \in SUBSET Earned /\ n.newly_muted \in Seq(Earned)
BY DEF Sound

LEMMA VerdictEarned ==
  ASSUME TasksFine, NEW n \in Sound, NEW pid \in DOMAIN tasks, NEW fresh \in BOOLEAN
  PROVE  /\ IsMuted(n, pid, fresh, Proc).n \in Sound
         /\ IsMuted(n, pid, fresh, Proc).found => Beneath(pid)
<1> DEFINE stale  == [n EXCEPT !.muted = IF fresh THEN @ \ {pid} ELSE @]
           walked == MuteWalk(stale, pid, Proc)
           full   == Cardinality(walked.n.muted) >= MUTED_CACHE_CAP
           cached == [walked.n EXCEPT !.muted = {pid} \cup IF full THEN {} ELSE @,
                                      !.newly_muted = Append(@, pid)]
           r      == IsMuted(n, pid, fresh, Proc)
<1>1. stale \in Sound /\ stale.muted \subseteq n.muted
  BY SoundParts DEF Sound
<1> HIDE DEF stale
<1>2. walked \in Walks(pid)
  BY <1>1, WalkEarns
<1>3. walked.n \in Sound /\ walked.found \in BOOLEAN /\ (walked.found => Beneath(pid))
  BY <1>2 DEF Walks
<1>4. CASE muted_exes = {}
  <2>1. r = [n |-> n, found |-> FALSE]
    BY <1>4 DEF IsMuted
  <2>2. QED
    BY <2>1
<1>5. CASE muted_exes # {} /\ pid \in stale.muted
  <2>1. r = [n |-> n, found |-> TRUE]
    BY <1>5 DEF IsMuted, stale
  <2>2. Beneath(pid)
    BY <1>1, <1>5, SoundParts DEF Earned
  <2>3. QED
    BY <2>1, <2>2
<1>6. CASE muted_exes # {} /\ pid \notin stale.muted
  <2>1. r = [found |-> walked.found, n |-> IF walked.found THEN cached ELSE walked.n]
    BY <1>6 DEF IsMuted, stale
  <2>2. r.found = walked.found /\ r.n = IF walked.found THEN cached ELSE walked.n
    BY <2>1
  <2>3. walked.found => cached \in Sound
    <3> SUFFICES ASSUME walked.found  PROVE cached \in Sound
      OBVIOUS
    <3> HIDE DEF walked, full
    <3>1. pid \in Earned
      BY <1>3 DEF Earned
    <3>2. {pid} \cup (IF full THEN {} ELSE walked.n.muted) \in SUBSET Earned
      BY <1>3, <3>1, SoundParts
    <3>3. Append(walked.n.newly_muted, pid) \in Seq(Earned)
      BY <1>3, <3>1, SoundParts
    <3>4. QED
      BY <1>3, <3>2, <3>3 DEF Sound
  <2> HIDE DEF walked, cached
  <2>4. CASE walked.found
    BY <1>3, <2>2, <2>3, <2>4
  <2>5. CASE ~walked.found
    BY <1>3, <2>2, <2>5
  <2>6. QED
    BY <2>4, <2>5
<1>7. QED
  BY <1>4, <1>5, <1>6

LEMMA SeedRuns ==
  ASSUME TasksFine, NEW m \in Sound, NEW listed \in Seq(BOOLEAN), DOMAIN listed = DOMAIN tasks
  PROVE  \E seeded \in [0..Len(listed) -> Sound] :
           /\ seeded[0] = m
           /\ \A pid \in 1..Len(listed) :
                 seeded[pid] = SeedRound(seeded[pid - 1], pid, listed, Proc)
           /\ SeedMuted(m, listed, Proc) = seeded[Len(listed)]
<1> DEFINE n == Len(listed)
           step == [s \in Sound \X (1..n) |-> SeedRound(s[1], s[2], listed, Proc)]
           Is(f) == f = [pid \in 0..n |->
                           IF pid = 0 THEN m ELSE SeedRound(f[pid - 1], pid, listed, Proc)]
           seeded == CHOOSE f : Is(f)
<1>1. n \in Nat /\ DOMAIN tasks = 1..n
  OBVIOUS
<1>2. ASSUME NEW s \in Sound, NEW pid \in 1..n
      PROVE  SeedRound(s, pid, listed, Proc) \in Sound
  BY <1>1, VerdictEarned DEF SeedRound
<1> HIDE DEF n
<1>3. step \in [Sound \X (1..n) -> Sound]
  BY <1>2
<1>4. PICK g \in [0..n -> Sound] : Runs(g, m, step, n)
  <2> HIDE DEF step
  <2>1. QED
    BY <1>1, <1>3, LoopExists
<1>5. Is(g)
  <2>1. \A pid \in 1..n : g[pid] = SeedRound(g[pid - 1], pid, listed, Proc)
    <3> SUFFICES ASSUME NEW pid \in 1..n
                 PROVE  g[pid] = SeedRound(g[pid - 1], pid, listed, Proc)
      OBVIOUS
    <3>1. pid - 1 \in 0..n
      BY <1>1
    <3>2. g[pid - 1] \in Sound
      BY <1>4, <3>1
    <3>3. step[<<g[pid - 1], pid>>] = SeedRound(g[pid - 1], pid, listed, Proc)
      BY <3>2
    <3>4. QED
      BY <1>4, <3>3 DEF Runs
  <2>2. \A pid \in 0..n : pid # 0 => pid \in 1..n
    BY <1>1
  <2>3. g = [pid \in 0..n |-> g[pid]] /\ g[0] = m
    BY <1>4 DEF Runs
  <2> HIDE DEF step
  <2>4. QED
    BY <2>1, <2>2, <2>3
<1>6. Is(seeded)
  <2> HIDE DEF Is
  <2>1. QED
    BY <1>5, Zenon
<1>7. SeedMuted(m, listed, Proc) = seeded[n]
  BY DEF SeedMuted, n
<1> HIDE DEF seeded, step
<1>8. \A pid \in 0..n : seeded[pid] \in Sound
  <2>1. seeded[0] \in Sound
    BY <1>1, <1>6
  <2>2. ASSUME NEW pid \in 1..n, seeded[pid - 1] \in Sound  PROVE seeded[pid] \in Sound
    <3>1. pid \in 0..n /\ pid # 0
      BY <1>1
    <3>2. seeded[pid] = SeedRound(seeded[pid - 1], pid, listed, Proc)
      BY <1>6, <3>1
    <3>3. QED
      BY <1>2, <2>2, <3>2
  <2>3. QED
    BY <1>1, <2>1, <2>2, LoopStays
<1>9. seeded \in [0..n -> Sound]
  <2> HIDE DEF Sound
  <2>1. QED
    BY <1>6, <1>8
<1>10. \A pid \in 1..n : seeded[pid] = SeedRound(seeded[pid - 1], pid, listed, Proc)
  BY <1>1, <1>6
<1>11. seeded[0] = m
  BY <1>1, <1>6
<1>12. QED
  BY <1>7, <1>9, <1>10, <1>11 DEF n

LEMMA SeedSound ==
  ASSUME TasksFine, NEW m \in Sound, NEW listed \in Seq(BOOLEAN), DOMAIN listed = DOMAIN tasks
  PROVE  SeedMuted(m, listed, Proc) \in Sound
<1>1. Len(listed) \in Nat
  OBVIOUS
<1>2. QED
  BY <1>1, SeedRuns

-----------------------------------------------------------------------------
(* ancestry: a line of descent.                                            *)

\* Each task of c is above b and above those before it in c.
Line(b, c) ==
  /\ \A i \in 1..Len(c) : Up(c[i], b)
  /\ \A i, j \in 1..Len(c) : i < j => Up(c[j], c[i])

Climbs(b) == {w \in [n : Sound, pid : Nat, chain : Seq(Nat)] :
                /\ Line(b, w.chain)
                /\ w.pid # 0 => /\ Up(w.pid, b)
                                /\ \A i \in 1..Len(w.chain) : Up(w.pid, w.chain[i])}

LEMMA RoundClimbs ==
  ASSUME TasksFine, NEW b, NEW w \in Climbs(b)
  PROVE  AncestryRound(w, Proc) \in Climbs(b)
<1> DEFINE n     == Get(w.n, w.pid, Proc)
           info  == n.procs[w.pid]
           above == IF info.ppid = w.pid THEN 0 ELSE info.ppid
           c     == Append(w.chain, w.pid)
<1>1. /\ w.n \in Sound /\ w.pid \in Nat /\ w.chain \in Seq(Nat) /\ Line(b, w.chain)
      /\ w.pid # 0 => /\ Up(w.pid, b)
                      /\ \A i \in 1..Len(w.chain) : Up(w.pid, w.chain[i])
  BY DEF Climbs
<1>2. n \in Sound
  BY <1>1, GetSound
<1> HIDE DEF n
<1>3. CASE w.pid = 0
  BY <1>3 DEF AncestryRound
<1>4. CASE w.pid # 0 /\ w.pid \notin DOMAIN n.procs
  <2>1. AncestryRound(w, Proc) = [w EXCEPT !.n = n, !.pid = 0]
    BY <1>4 DEF AncestryRound, n
  <2>2. AncestryRound(w, Proc) = [n |-> n, pid |-> 0, chain |-> w.chain]
    BY <2>1 DEF Climbs
  <2>3. QED
    BY <1>1, <1>2, <2>2 DEF Climbs
<1>5. CASE w.pid # 0 /\ w.pid \in DOMAIN n.procs
  <2>1. AncestryRound(w, Proc) = [n |-> n, chain |-> c, pid |-> above]
    BY <1>5 DEF AncestryRound, n
  <2>2. info.ppid \in Nat /\ (info.ppid # 0 => Up(info.ppid, w.pid)) /\ above \in Nat
    BY <1>2, <1>5, EntryTrue
  <2> HIDE DEF info
  <2>3. above # 0 => Up(above, w.pid)
    BY <2>2
  <2> HIDE DEF above
  <2>4. /\ c \in Seq(Nat) /\ Len(w.chain) \in Nat /\ Len(c) = Len(w.chain) + 1
        /\ \A i \in 1..Len(w.chain) : c[i] = w.chain[i]
        /\ c[Len(w.chain) + 1] = w.pid
    BY <1>1
  <2> HIDE DEF c
  <2>5. \A i \in 1..Len(c) : i \in 1..Len(w.chain) \/ (i = Len(w.chain) + 1 /\ c[i] = w.pid)
    BY <2>4
  <2>6. \A i \in 1..Len(c) : Up(c[i], b)
    BY <1>1, <1>5, <2>4, <2>5 DEF Line
  <2>7. ASSUME NEW i \in 1..Len(c), NEW j \in 1..Len(c), i < j  PROVE Up(c[j], c[i])
    <3>1. i \in 1..Len(w.chain) /\ c[i] = w.chain[i]
      BY <2>4, <2>7
    <3>2. CASE j \in 1..Len(w.chain)
      BY <1>1, <2>4, <2>7, <3>1, <3>2 DEF Line
    <3>3. CASE c[j] = w.pid
      BY <1>1, <1>5, <3>1, <3>3
    <3>4. QED
      BY <2>5, <3>2, <3>3
  <2>8. above # 0 => Up(above, b) /\ \A i \in 1..Len(c) : Up(above, c[i])
    <3> SUFFICES ASSUME above # 0
                 PROVE  Up(above, b) /\ \A i \in 1..Len(c) : Up(above, c[i])
      OBVIOUS
    <3>1. Up(above, w.pid) /\ Up(w.pid, b)
      BY <1>1, <1>5, <2>3
    <3>2. ASSUME NEW i \in 1..Len(c)  PROVE Up(above, c[i])
      <4>1. CASE i \in 1..Len(w.chain)
        BY <1>1, <1>5, <2>4, <3>1, <4>1, UpTrans
      <4>2. CASE c[i] = w.pid
        BY <3>1, <4>2
      <4>3. QED
        BY <2>5, <4>1, <4>2
    <3>3. QED
      BY <3>1, <3>2, UpTrans
  <2>9. Line(b, c)
    BY <2>6, <2>7 DEF Line
  <2>10. QED
    BY <1>2, <2>1, <2>2, <2>4, <2>8, <2>9 DEF Climbs
<1>6. QED
  BY <1>3, <1>4, <1>5

LEMMA AncestryRuns ==
  ASSUME TasksFine, NEW m \in Sound, NEW b, NEW pid \in Nat, pid # 0 => Up(pid, b)
  PROVE  \E walk \in [0..ANCESTRY_MAX -> Climbs(b)] :
           /\ walk[0] = [n |-> m, pid |-> pid, chain |-> <<>>]
           /\ \A k \in 1..ANCESTRY_MAX : walk[k] = AncestryRound(walk[k - 1], Proc)
           /\ Ancestry(m, pid, Proc) = walk[ANCESTRY_MAX]
<1> DEFINE start == [n |-> m, pid |-> pid, chain |-> <<>>]
           S == Climbs(b)
           step == [s \in S \X (1..ANCESTRY_MAX) |-> AncestryRound(s[1], Proc)]
           Is(f) == f = [k \in 0..ANCESTRY_MAX |->
                           IF k = 0 THEN start ELSE AncestryRound(f[k - 1], Proc)]
           walk == CHOOSE f : Is(f)
<1>1. ANCESTRY_MAX \in Nat
  BY NormalizerAssumption
<1>2. start \in S
  <2>1. Line(b, <<>>)
    BY DEF Line
  <2>2. QED
    BY <2>1 DEF Climbs
<1> HIDE DEF start, S
<1>3. step \in [S \X (1..ANCESTRY_MAX) -> S]
  BY RoundClimbs DEF S
<1>4. PICK g \in [0..ANCESTRY_MAX -> S] : Runs(g, start, step, ANCESTRY_MAX)
  <2> HIDE DEF step
  <2>1. QED
    BY <1>1, <1>2, <1>3, LoopExists
<1>5. Is(g)
  <2>1. \A k \in 1..ANCESTRY_MAX : g[k] = AncestryRound(g[k - 1], Proc)
    <3> SUFFICES ASSUME NEW k \in 1..ANCESTRY_MAX  PROVE g[k] = AncestryRound(g[k - 1], Proc)
      OBVIOUS
    <3>1. k - 1 \in 0..ANCESTRY_MAX
      BY <1>1
    <3>2. g[k - 1] \in S
      BY <1>4, <3>1
    <3>3. step[<<g[k - 1], k>>] = AncestryRound(g[k - 1], Proc)
      BY <3>2
    <3>4. QED
      BY <1>4, <3>3 DEF Runs
  <2>2. \A k \in 0..ANCESTRY_MAX : k # 0 => k \in 1..ANCESTRY_MAX
    BY <1>1
  <2>3. g = [k \in 0..ANCESTRY_MAX |-> g[k]] /\ g[0] = start
    BY <1>4 DEF Runs
  <2> HIDE DEF step
  <2>4. QED
    BY <2>1, <2>2, <2>3
<1>6. Is(walk)
  <2> HIDE DEF Is
  <2>1. QED
    BY <1>5, Zenon
<1>7. Ancestry(m, pid, Proc) = walk[ANCESTRY_MAX]
  BY DEF Ancestry, start
<1> HIDE DEF walk, step
<1>8. \A k \in 0..ANCESTRY_MAX : walk[k] \in S
  <2>1. walk[0] \in S
    BY <1>1, <1>2, <1>6
  <2>2. ASSUME NEW k \in 1..ANCESTRY_MAX, walk[k - 1] \in S  PROVE walk[k] \in S
    <3>1. k \in 0..ANCESTRY_MAX /\ k # 0
      BY <1>1
    <3>2. walk[k] = AncestryRound(walk[k - 1], Proc)
      BY <1>6, <3>1
    <3>3. QED
      BY <2>2, <3>2, RoundClimbs DEF S
  <2>3. QED
    BY <1>1, <2>1, <2>2, LoopStays
<1>9. walk \in [0..ANCESTRY_MAX -> S]
  <2> HIDE DEF S
  <2>1. QED
    BY <1>6, <1>8
<1>10. \A k \in 1..ANCESTRY_MAX : walk[k] = AncestryRound(walk[k - 1], Proc)
  BY <1>1, <1>6
<1>11. walk[0] = start
  BY <1>1, <1>6
<1>12. QED
  BY <1>7, <1>9, <1>10, <1>11 DEF S, start

LEMMA AncestryClimbs ==
  ASSUME TasksFine, NEW m \in Sound, NEW b, NEW pid \in Nat, pid # 0 => Up(pid, b)
  PROVE  Ancestry(m, pid, Proc) \in Climbs(b)
<1>1. ANCESTRY_MAX \in 0..ANCESTRY_MAX
  BY NormalizerAssumption
<1>2. PICK walk \in [0..ANCESTRY_MAX -> Climbs(b)] : Ancestry(m, pid, Proc) = walk[ANCESTRY_MAX]
  BY AncestryRuns
<1> HIDE DEF Climbs
<1>3. QED
  BY <1>1, <1>2

\* It stays where a reading of /proc does, and names no more than it may.
LEMMA AncestryWithin ==
  ASSUME TasksFine, NEW K \in SUBSET Sound, \A n \in K : \A p : Get(n, p, Proc) \in K,
         NEW m \in K, NEW b, NEW pid \in Nat, pid # 0 => Up(pid, b)
  PROVE  /\ Ancestry(m, pid, Proc).n \in K
         /\ Len(Ancestry(m, pid, Proc).chain) <= ANCESTRY_MAX
<1>1. ANCESTRY_MAX \in Nat
  BY NormalizerAssumption
<1>2. PICK walk \in [0..ANCESTRY_MAX -> Climbs(b)] :
        /\ walk[0] = [n |-> m, pid |-> pid, chain |-> <<>>]
        /\ \A k \in 1..ANCESTRY_MAX : walk[k] = AncestryRound(walk[k - 1], Proc)
        /\ Ancestry(m, pid, Proc) = walk[ANCESTRY_MAX]
  BY AncestryRuns
<1> DEFINE pairs == [k \in 0..ANCESTRY_MAX |-> <<k, walk[k]>>]
           S == {p \in (0..ANCESTRY_MAX) \X Climbs(b) :
                   p[2].n \in K /\ Len(p[2].chain) <= p[1]}
<1>3. pairs[0] \in S
  BY <1>1, <1>2
<1>4. ASSUME NEW k \in 1..ANCESTRY_MAX, pairs[k - 1] \in S  PROVE pairs[k] \in S
  <2>1. k \in 0..ANCESTRY_MAX /\ k - 1 \in 0..ANCESTRY_MAX /\ walk[k] \in Climbs(b)
    BY <1>1, <1>2
  <2>2. PICK w : w = walk[k - 1]
    OBVIOUS
  <2>3. w \in Climbs(b) /\ w.n \in K /\ Len(w.chain) <= k - 1
    BY <1>4, <2>1, <2>2
  <2>4. w.chain \in Seq(Nat) /\ w = [n |-> w.n, pid |-> w.pid, chain |-> w.chain]
    BY <2>3 DEF Climbs
  <2>5. /\ AncestryRound(w, Proc).n \in {w.n, Get(w.n, w.pid, Proc)}
        /\ AncestryRound(w, Proc).chain \in {w.chain, Append(w.chain, w.pid)}
    BY <2>4 DEF AncestryRound
  <2>6. walk[k].n \in K
    BY <1>2, <2>2, <2>3, <2>5
  <2>7. Len(walk[k].chain) <= k
    <3>1. walk[k].chain = w.chain \/ walk[k].chain = Append(w.chain, w.pid)
      BY <1>2, <2>2, <2>5
    <3>2. Len(w.chain) \in Nat /\ Len(Append(w.chain, w.pid)) = Len(w.chain) + 1
      BY <2>4
    <3>3. QED
      BY <2>1, <2>3, <3>1, <3>2
  <2>8. pairs[k] = <<k, walk[k]>>
    BY <2>1
  <2>9. QED
    BY <2>1, <2>6, <2>7, <2>8
<1>5. \A k \in 0..ANCESTRY_MAX : pairs[k] \in S
  <2> HIDE DEF S, pairs
  <2>1. QED
    BY <1>1, <1>3, <1>4, LoopStays
<1>6. pairs[ANCESTRY_MAX] \in S /\ pairs[ANCESTRY_MAX] = <<ANCESTRY_MAX, walk[ANCESTRY_MAX]>>
  BY <1>1, <1>5
<1>7. QED
  BY <1>2, <1>6

-----------------------------------------------------------------------------
(* normalize: what is dropped and what is captured.                        *)

EventFine(e) ==
  /\ e.pid \in DOMAIN tasks /\ (e.ppid # 0 => Up(e.ppid, e.pid))
  /\ e.kind = "exec" => /\ e.exe \in Program
                        /\ e.exe \in TOOLS => Beneath(e.pid)

Fine == {e \in [pid : Nat, ppid : Nat, kind : {"exec", "file", "net"},
                exe : Program \cup {""}, reason : {"", "secret_read", "write"},
                path : {"", "plain", "secret", "environ", "pseudo", "relative", "desktop"},
                from : SUBSET Nat] : EventFine(e)}

\* An event a reviewer of the capture would not miss.
Unwatched(e) == /\ e.kind = "file" /\ e.reason # "secret_read"
                /\ e.path \notin {"plain", "secret"}

\* The record made of event e.
LineFine(e, line) ==
  /\ line # NoLine /\ line.pid = e.pid
  /\ line.ppid # 0 => Up(line.ppid, e.pid)
  /\ line.ancestry \in Seq(Nat) /\ Line(e.pid, line.ancestry)
  /\ Len(line.ancestry) <= ANCESTRY_MAX

LEMMA RecordedFine ==
  ASSUME TasksFine, NEW n \in Sound, NEW e \in Fine
  PROVE  Recorded(n, e, Proc).n \in Sound /\ LineFine(e, Recorded(n, e, Proc).line)
<1> DEFINE got  == Get(n, e.pid, Proc)
           ppid == IF e.ppid = 0 /\ e.pid \in DOMAIN got.procs
                   THEN got.procs[e.pid].ppid ELSE e.ppid
           up   == Ancestry(got, ppid, Proc)
           line == [pid |-> e.pid, ppid |-> ppid, ancestry |-> up.chain]
<1>1. /\ e.pid \in DOMAIN tasks /\ e.pid \in Nat \ {0} /\ e.ppid \in Nat
      /\ e.ppid # 0 => Up(e.ppid, e.pid)
  BY TaskIds DEF Fine, EventFine
<1>2. Recorded(n, e, Proc) = [n |-> up.n, line |-> line]
  BY DEF Recorded
<1>3. got \in Sound
  BY GetSound
<1> HIDE DEF got
<1>4. ppid \in Nat /\ (ppid # 0 => Up(ppid, e.pid))
  BY <1>1, <1>3, EntryTrue
<1> HIDE DEF ppid
<1>5. up \in Climbs(e.pid) /\ Len(up.chain) <= ANCESTRY_MAX
  BY <1>3, <1>4, GetSound, AncestryClimbs, AncestryWithin
<1> HIDE DEF up
<1>6. up.n \in Sound /\ up.chain \in Seq(Nat) /\ Line(e.pid, up.chain)
  BY <1>5 DEF Climbs
<1>7. line # NoLine
  <2>1. line.pid # NoLine.pid
    BY <1>1 DEF NoLine
  <2>2. QED
    BY <2>1
<1>8. QED
  BY <1>2, <1>4, <1>5, <1>6, <1>7 DEF LineFine

\* What normalize_exec puts into the table.
ExecInfo(e) == [ppid |-> CASE e.ppid # 0 -> e.ppid
                           [] e.ppid = 0 /\ e.pid \in DOMAIN Proc -> Proc[e.pid].ppid
                           [] e.ppid = 0 /\ e.pid \notin DOMAIN Proc -> 0,
                exe  |-> e.exe]

LEMMA ExecInfoFine ==
  ASSUME TasksFine, NEW e \in Fine, e.kind = "exec"
  PROVE  ExecInfo(e) \in Info /\ InfoFine(e.pid, ExecInfo(e))
<1> DEFINE ppid == CASE e.ppid # 0 -> e.ppid
                     [] e.ppid = 0 /\ e.pid \in DOMAIN Proc -> Proc[e.pid].ppid
                     [] e.ppid = 0 /\ e.pid \notin DOMAIN Proc -> 0
<1>1. /\ e.pid \in DOMAIN tasks /\ e.ppid \in Nat /\ (e.ppid # 0 => Up(e.ppid, e.pid))
      /\ e.exe \in Program /\ (e.exe \in TOOLS => Beneath(e.pid))
  BY DEF Fine, EventFine
<1>2. ppid \in Nat /\ (ppid # 0 => Up(ppid, e.pid))
  <2>1. CASE e.ppid # 0
    BY <1>1, <2>1
  <2>2. CASE e.ppid = 0 /\ e.pid \in DOMAIN Proc
    <3>1. ppid = Proc[e.pid].ppid
      BY <2>2
    <3>2. Proc[e.pid] \in Info /\ InfoFine(e.pid, Proc[e.pid])
      BY <2>2, ProcShows
    <3> HIDE DEF ppid
    <3>3. QED
      BY <3>1, <3>2 DEF Info, InfoFine
  <2>3. CASE e.ppid = 0 /\ e.pid \notin DOMAIN Proc
    <3>1. ppid = 0
      BY <2>3
    <3> HIDE DEF ppid
    <3>2. QED
      BY <3>1
  <2>4. QED
    BY <2>1, <2>2, <2>3
<1>3. ExecInfo(e) = [ppid |-> ppid, exe |-> e.exe]
  BY DEF ExecInfo
<1> HIDE DEF ppid
<1>4. QED
  BY <1>1, <1>2, <1>3 DEF Info, InfoFine

LEMMA NormalizeFine ==
  ASSUME TasksFine, NEW n \in Sound, NEW e \in Fine
  PROVE  /\ Normalize(n, e, Proc).n \in Sound
         /\ \/ LineFine(e, Normalize(n, e, Proc).line)
            \/ /\ Normalize(n, e, Proc).line = NoLine
               /\ Beneath(e.pid) \/ Unwatched(e)
<1> DEFINE r == Normalize(n, e, Proc)
           dropped(m) == [n |-> m, line |-> NoLine]
<1>1. /\ e.pid \in DOMAIN tasks /\ e.pid \in Nat \ {0} /\ e.ppid \in Nat
      /\ e.ppid # 0 => Up(e.ppid, e.pid)
  BY TaskIds DEF Fine, EventFine
<1>2. CASE e.kind = "exec"
  <2> DEFINE in   == Insert(n, e.pid, ExecInfo(e))
             mute == IsMuted(in, e.pid, TRUE, Proc)
  <2>1. r = IF mute.found THEN dropped(mute.n) ELSE Recorded(mute.n, e, Proc)
    BY <1>2 DEF Normalize, NormalizeExec, Dropped, ExecInfo
  <2>2. in \in Sound
    BY <1>1, <1>2, ExecInfoFine, InsertSound
  <2> HIDE DEF in
  <2>3. mute.n \in Sound /\ (mute.found => Beneath(e.pid))
    BY <1>1, <2>2, VerdictEarned
  <2> HIDE DEF mute, r
  <2>4. CASE mute.found
    BY <2>1, <2>3, <2>4 DEF r
  <2>5. CASE ~mute.found
    BY <2>1, <2>3, <2>5, RecordedFine DEF r
  <2>6. QED
    BY <2>4, <2>5
<1>3. CASE e.kind # "exec"
  <2> DEFINE mute  == IsMuted(n, e.pid, FALSE, Proc)
             churn == e.kind = "file" /\ e.reason # "secret_read" /\ IsNoise(e, Proc)
  <2>1. r = IF mute.found \/ churn THEN dropped(mute.n) ELSE Recorded(mute.n, e, Proc)
    BY <1>3 DEF Normalize, NormalizeOther, Dropped
  <2>2. mute.n \in Sound /\ (mute.found => Beneath(e.pid))
    BY <1>1, VerdictEarned
  <2>3. churn => Unwatched(e)
    BY DEF IsNoise, Unwatched
  <2> HIDE DEF mute, r, churn
  <2>4. CASE mute.found \/ churn
    BY <2>1, <2>2, <2>3, <2>4 DEF r
  <2>5. CASE ~(mute.found \/ churn)
    BY <2>1, <2>2, <2>5, RecordedFine DEF r
  <2>6. QED
    BY <2>4, <2>5
<1>4. QED
  BY <1>2, <1>3

-----------------------------------------------------------------------------
(* The invariant.                                                          *)

LinksFine == \A c \in DOMAIN PID_PARENT : Up(PID_PARENT[c], c)

IInv ==
  /\ TasksFine /\ LinksFine
  /\ EVENTS \in Seq(Fine) /\ MUTED \subseteq Earned /\ normalizer \in Sound
  /\ SilenceEarned /\ AncestryTrue

\* What is known stays true as the host goes on.
LEMMA KnownStays ==
  ASSUME Grows, TasksFine
  PROVE  /\ Sound \subseteq Sound' /\ Seq(Fine) \subseteq Seq(Fine')
         /\ \A m : m \subseteq Earned => m \subseteq Earned'
<1>1. Earned \subseteq Earned'
  BY EarnedStays
<1>2. Procs \subseteq Procs'
  <2>1. ASSUME NEW p, NEW info, InfoFine(p, info)  PROVE InfoFine(p, info)'
    <3>1. p \in DOMAIN tasks' /\ (info.exe \in TOOLS => Beneath(p)')
      BY <2>1, BeneathStays DEF InfoFine, Grows
    <3>2. PICK q : q = info.ppid
      OBVIOUS
    <3>3. q # 0 => Up(q, p)'
      BY <2>1, <3>2, UpStays DEF InfoFine
    <3>4. QED
      BY <3>1, <3>2, <3>3 DEF InfoFine
  <2> HIDE DEF InfoFine, Info
  <2>2. QED
    BY <2>1 DEF Procs
<1>3. Seq(Earned) \subseteq Seq(Earned')
  BY <1>1
<1>4. Sound \subseteq Sound'
  <2> HIDE DEF Earned, Procs
  <2>1. QED
    BY <1>1, <1>2, <1>3 DEF Sound
<1>5. Fine \subseteq Fine'
  <2>1. ASSUME NEW e, EventFine(e)  PROVE EventFine(e)'
    <3>1. PICK p, q : p = e.pid /\ q = e.ppid
      OBVIOUS
    <3>2. p \in DOMAIN tasks' /\ (q # 0 => Up(q, p)')
      BY <2>1, <3>1, UpStays DEF EventFine, Grows
    <3>3. Beneath(p) => Beneath(p)'
      BY <2>1, <3>1, BeneathStays DEF EventFine
    <3>4. QED
      BY <2>1, <3>1, <3>2, <3>3 DEF EventFine
  <2> HIDE DEF EventFine
  <2>2. QED
    BY <2>1 DEF Fine
<1>6. Seq(Fine) \subseteq Seq(Fine')
  <2> HIDE DEF Fine
  <2>1. QED
    BY <1>5
<1>7. QED
  BY <1>1, <1>4, <1>6

LEMMA LinksStay ==
  ASSUME Grows, TasksFine, LinksFine, UNCHANGED PID_PARENT
  PROVE  LinksFine'
<1> SUFFICES ASSUME NEW c \in DOMAIN PID_PARENT'  PROVE Up(PID_PARENT[c], c)'
  BY DEF LinksFine
<1>1. PICK p : p = PID_PARENT[c]
  OBVIOUS
<1>2. Up(p, c)
  BY <1>1 DEF LinksFine
<1>3. Up(p, c)'
  BY <1>2, UpStays
<1>4. QED
  BY <1>1, <1>3

\* A step of the host that muted and reported nothing, and decided nothing.
LEMMA QuietStep ==
  ASSUME IInv, Grows, TasksFine', fate' = Undecided,
         UNCHANGED <<PID_PARENT, MUTED, EVENTS, normalizer>>
  PROVE  IInv'
<1>1. LinksFine'
  BY LinksStay DEF IInv
<1>2. EVENTS' \in Seq(Fine') /\ MUTED' \subseteq Earned' /\ normalizer' \in Sound'
  BY KnownStays DEF IInv
<1>3. SilenceEarned' /\ AncestryTrue'
  BY DEF Undecided, SilenceEarned, AncestryTrue
<1>4. QED
  BY <1>1, <1>2, <1>3 DEF IInv

LEMMA IntoMutes ==
  ASSUME NEW keys, NEW m \in Into(MUTED, keys), NEW E, MUTED \subseteq E, keys \subseteq E
  PROVE  m \subseteq E
BY DEF Into

LEMMA InitHolds == ASSUME Init  PROVE IInv
<1>1. TasksFine
  BY InitFine DEF Init
<1>2. LinksFine
  BY DEF Init, LinksFine
<1>3. EVENTS \in Seq(Fine) /\ MUTED \subseteq Earned
  BY DEF Init
<1>4. normalizer \in Sound
  <2>1. <<>> \in Procs
    BY DEF Procs
  <2>2. QED
    BY <2>1 DEF Init, New, Sound
<1>5. SilenceEarned /\ AncestryTrue
  BY DEF Init, Undecided, SilenceEarned, AncestryTrue
<1>6. QED
  BY <1>1, <1>2, <1>3, <1>4, <1>5 DEF IInv

LEMMA ForkHolds == ASSUME IInv, NEW t \in DOMAIN tasks, Fork(t)  PROVE IInv'
<1>1. PICK thread \in BOOLEAN : Start(t, thread)
  BY MutingAssumption DEF Fork
<1>2. PICK u : u = NextTask
  OBVIOUS
<1>3. TasksFine' /\ Grows /\ u \in DOMAIN tasks' /\ Up(t, u)'
  BY <1>1, <1>2, StartFine DEF IInv
<1>4. CASE probes = "none"
  BY <1>3, <1>4, QuietStep DEF Fork
<1>5. CASE probes # "none"
  <2>1. try_fork(t, u) /\ fate' = Undecided /\ UNCHANGED <<EVENTS, normalizer>>
    BY <1>2, <1>5 DEF Fork
  <2>2. LinksFine'
    <3>1. PID_PARENT' = Put(PID_PARENT, u, t)
      BY <2>1 DEF try_fork
    <3>2. \A c \in DOMAIN PID_PARENT' : \/ c = u /\ PID_PARENT'[c] = t
                                        \/ c \in DOMAIN PID_PARENT /\ PID_PARENT'[c] = PID_PARENT[c]
      BY <3>1 DEF Put
    <3>3. ASSUME NEW c \in DOMAIN PID_PARENT'  PROVE Up(PID_PARENT[c], c)'
      <4>1. PICK p : p = PID_PARENT'[c]
        OBVIOUS
      <4>2. CASE c = u /\ p = t
        BY <1>3, <4>1, <4>2
      <4>3. CASE c \in DOMAIN PID_PARENT /\ p = PID_PARENT[c]
        <5>1. Up(p, c)
          BY <4>3 DEF IInv, LinksFine
        <5>2. Up(p, c)'
          BY <1>3, <5>1, UpStays
        <5>3. QED
          BY <4>1, <5>2
      <4>4. QED
        BY <3>2, <4>1, <4>2, <4>3
    <3>4. QED
      BY <3>3 DEF LinksFine
  <2>3. MUTED' \subseteq Earned'
    <3>1. MUTED \subseteq Earned'
      BY <1>3, KnownStays DEF IInv
    <3>2. CASE t \in MUTED
      <4>1. Beneath(t)'
        BY <1>3, <3>2, BeneathStays DEF IInv, Earned
      <4>2. u \in Earned'
        BY <1>3, <4>1 DEF Up, Beneath, Earned
      <4>3. MUTED' \in Into(MUTED, {u})
        BY <2>1, <3>2 DEF try_fork
      <4>4. QED
        BY <3>1, <4>2, <4>3, IntoMutes
    <3>3. CASE t \notin MUTED
      BY <2>1, <3>1, <3>3 DEF try_fork
    <3>4. QED
      BY <3>2, <3>3
  <2>4. EVENTS' \in Seq(Fine') /\ normalizer' \in Sound'
    BY <1>3, <2>1, KnownStays DEF IInv
  <2>5. SilenceEarned' /\ AncestryTrue'
    BY <2>1 DEF Undecided, SilenceEarned, AncestryTrue
  <2>6. QED
    BY <1>3, <2>2, <2>3, <2>4, <2>5 DEF IInv
<1>6. QED
  BY <1>4, <1>5

\* A link the probes copy into an event.
LEMMA ParentTrue ==
  ASSUME IInv, NEW pid
  PROVE  ParentOf(pid) \in Nat /\ (ParentOf(pid) # 0 => Up(ParentOf(pid), pid))
<1>1. CASE pid \in DOMAIN PID_PARENT
  <2>1. ParentOf(pid) = PID_PARENT[pid]
    BY <1>1 DEF ParentOf
  <2>2. Up(PID_PARENT[pid], pid)
    BY <1>1 DEF IInv, LinksFine
  <2>3. PID_PARENT[pid] \in Nat
    BY <2>2, TaskIds DEF IInv, Up
  <2>4. QED
    BY <2>1, <2>2, <2>3
<1>2. CASE pid \notin DOMAIN PID_PARENT
  BY <1>2 DEF ParentOf
<1>3. QED
  BY <1>1, <1>2

\* The event a probe makes of a step of process `pid'.
LEMMA EventIsFine ==
  ASSUME IInv, Grows, TasksFine', NEW pid \in DOMAIN tasks,
         NEW kind \in {"exec", "file", "net"}, NEW exe \in Program \cup {""},
         NEW reason \in {"", "secret_read", "write"},
         NEW path \in {"", "plain", "secret", "environ", "pseudo", "relative", "desktop"},
         kind = "exec" => exe \in Program /\ (exe \in TOOLS => Beneath(pid)')
  PROVE  Event(pid, kind, exe, reason, path) \in Fine'
<1>1. PICK q : q = ParentOf(pid)
  OBVIOUS
<1>2. q \in Nat /\ (q # 0 => Up(q, pid)')
  BY <1>1, ParentTrue, UpStays
<1>3. PICK e : e = Event(pid, kind, exe, reason, path)
  OBVIOUS
<1>4. /\ e = [pid |-> pid, ppid |-> q, kind |-> kind, exe |-> exe, reason |-> reason,
              path |-> path, from |-> tasks'[pid].started]
      /\ pid \in Nat /\ pid \in DOMAIN tasks' /\ tasks'[pid].started \in SUBSET Nat
  <2>1. pid \in Nat /\ pid \in DOMAIN tasks'
    BY TaskIds DEF IInv, Grows
  <2>2. PICK n \in Nat \ {0} : tasks' \in [1..n -> Task]
    BY DEF TasksFine, TasksTyped
  <2>3. tasks'[pid] \in Task
    BY <2>1, <2>2
  <2>4. tasks'[pid].started \in SUBSET Nat
    BY <2>3 DEF Task
  <2>5. QED
    BY <1>1, <1>3, <2>1, <2>4 DEF Event
<1>5. /\ e.pid = pid /\ e.ppid = q /\ e.kind = kind /\ e.exe = exe
  BY <1>4
<1>6. EventFine(e)'
  BY <1>2, <1>4, <1>5 DEF EventFine
<1>7. e \in Fine'
  BY <1>2, <1>4, <1>6 DEF Fine
<1>8. QED
  BY <1>3, <1>7

LEMMA EmitKeeps ==
  ASSUME IInv, Grows, NEW e \in Fine', Emit(e)
  PROVE  EVENTS' \in Seq(Fine')
<1>1. EVENTS \in Seq(Fine')
  BY KnownStays DEF IInv
<1>2. QED
  BY <1>1 DEF Emit

LEMMA ExecHolds == ASSUME IInv, NEW p \in DOMAIN tasks, Exec(p)  PROVE IInv'
<1>1. PICK program \in Program :
        /\ Load(p, program)
        /\ IF probes = "all" THEN try_exec(p, program)
           ELSE fate' = Undecided /\ UNCHANGED <<MUTED, EVENTS>>
  BY DEF Exec
<1>2. UNCHANGED <<PID_PARENT, normalizer>>
  BY DEF Exec
<1>3. /\ TasksFine' /\ Grows /\ DOMAIN tasks' = DOMAIN tasks /\ p \in DOMAIN tasks'
      /\ program \in TOOLS \cup {VPNIP} => Beneath(p)'
  BY <1>1, LoadFine DEF IInv
<1>4. /\ LinksFine' /\ normalizer' \in Sound' /\ EVENTS \in Seq(Fine')
      /\ MUTED \subseteq Earned'
  BY <1>2, <1>3, LinksStay, KnownStays DEF IInv
<1>5. CASE probes # "all"
  BY <1>1, <1>2, <1>3, <1>5, QuietStep
<1>6. CASE probes = "all" /\ p \in MUTED
  <2>1. Silence(p, TRUE) /\ UNCHANGED <<MUTED, EVENTS>>
    BY <1>1, <1>6 DEF try_exec
  <2>2. Beneath(p)'
    BY <1>4, <1>6 DEF Earned
  <2>3. SilenceEarned' /\ AncestryTrue'
    BY <2>1, <2>2 DEF Silence, SilenceEarned, AncestryTrue
  <2>4. QED
    BY <1>3, <1>4, <2>1, <2>3 DEF IInv
<1>7. CASE probes = "all" /\ p \notin MUTED /\ program = VPNIP
  <2>1. Silence(p, TRUE) /\ MUTED' \in Into(MUTED, {p})
    BY <1>1, <1>7 DEF try_exec
  <2>2. EVENTS' = EVENTS
    BY <1>1, <1>7 DEF try_exec
  <2>3. Beneath(p)' /\ p \in Earned'
    BY <1>3, <1>7 DEF Earned
  <2>4. MUTED' \subseteq Earned'
    BY <1>4, <2>1, <2>3, IntoMutes
  <2>5. SilenceEarned' /\ AncestryTrue'
    BY <2>1, <2>3 DEF Silence, SilenceEarned, AncestryTrue
  <2>6. QED
    BY <1>3, <1>4, <2>2, <2>4, <2>5 DEF IInv
<1>8. CASE probes = "all" /\ p \notin MUTED /\ program # VPNIP
  <2>1. Emit(Event(p, "exec", program, "", "")) /\ fate' = Undecided /\ UNCHANGED MUTED
    BY <1>1, <1>8 DEF try_exec
  <2>2. Event(p, "exec", program, "", "") \in Fine'
    BY <1>3, EventIsFine
  <2>3. EVENTS' \in Seq(Fine')
    BY <1>3, <2>1, <2>2, EmitKeeps
  <2>4. SilenceEarned' /\ AncestryTrue'
    BY <2>1 DEF Undecided, SilenceEarned, AncestryTrue
  <2>5. QED
    BY <1>3, <1>4, <2>1, <2>3, <2>4 DEF IInv
<1>9. QED
  BY <1>5, <1>6, <1>7, <1>8

LEMMA LeaveHolds == ASSUME IInv, NEW t, Leave(t)  PROVE IInv'
<1>1. TasksFine' /\ Grows
  BY ExitFine DEF Leave, IInv
<1>2. QED
  BY <1>1, QuietStep DEF Leave

\* The tasks are as they were.
LEMMA Same == ASSUME TasksFine, UNCHANGED tasks  PROVE TasksFine' /\ Grows
<1>1. TasksFine'
  BY DEF TasksFine, TasksTyped, TaskFine, Up, Beneath
<1>2. Grows
  BY DEF Grows
<1>3. QED
  BY <1>1, <1>2

\* An open or a connection, silenced or reported.
LEMMA ReportHolds ==
  ASSUME IInv, UNCHANGED <<tasks, PID_PARENT, MUTED, normalizer>>, NEW pid \in DOMAIN tasks,
         \/ /\ fate'.is = "silenced" /\ fate'.pid = pid /\ (fate'.watched => pid \in MUTED)
            /\ UNCHANGED EVENTS
         \/ /\ \E kind \in {"file", "net"}, reason \in {"", "secret_read", "write"},
                  path \in {"", "plain", "secret", "environ", "pseudo", "relative", "desktop"} :
                  Emit(Event(pid, kind, "", reason, path))
            /\ fate' = Undecided
  PROVE  IInv'
<1>1. TasksFine' /\ Grows
  BY Same DEF IInv
<1>2. /\ LinksFine' /\ normalizer' \in Sound' /\ EVENTS \in Seq(Fine')
      /\ MUTED' \subseteq Earned'
  BY <1>1, LinksStay, KnownStays DEF IInv
<1>3. CASE /\ fate'.is = "silenced" /\ fate'.pid = pid /\ (fate'.watched => pid \in MUTED)
           /\ UNCHANGED EVENTS
  <2>1. pid \in MUTED => Beneath(pid)'
    BY <1>2 DEF Earned
  <2>2. SilenceEarned' /\ AncestryTrue'
    BY <1>3, <2>1 DEF SilenceEarned, AncestryTrue
  <2>3. QED
    BY <1>1, <1>2, <1>3, <2>2 DEF IInv
<1>4. CASE /\ \E kind \in {"file", "net"}, reason \in {"", "secret_read", "write"},
                 path \in {"", "plain", "secret", "environ", "pseudo", "relative", "desktop"} :
                 Emit(Event(pid, kind, "", reason, path))
           /\ fate' = Undecided
  <2>1. PICK kind \in {"file", "net"}, reason \in {"", "secret_read", "write"},
             path \in {"", "plain", "secret", "environ", "pseudo", "relative", "desktop"} :
             Emit(Event(pid, kind, "", reason, path))
    BY <1>4
  <2>2. Event(pid, kind, "", reason, path) \in Fine'
    BY <1>1, EventIsFine
  <2>3. EVENTS' \in Seq(Fine')
    BY <1>1, <2>1, <2>2, EmitKeeps
  <2>4. SilenceEarned' /\ AncestryTrue'
    BY <1>4 DEF Undecided, SilenceEarned, AncestryTrue
  <2>5. QED
    BY <1>1, <1>2, <2>3, <2>4 DEF IInv
<1>5. QED
  BY <1>3, <1>4

LEMMA OpenHolds == ASSUME IInv, NEW t \in DOMAIN tasks, Open(t)  PROVE IInv'
<1>1. PICK open \in Opens : try_open(tasks[t].group, open)
  BY DEF Open
<1>2. PICK pid \in DOMAIN tasks : pid = tasks[t].group
  BY DEF IInv, TasksFine, TaskFine
<1>3. open.path \in {"plain", "secret", "environ", "pseudo", "relative", "desktop"}
  BY MutingAssumption
<1>4. UNCHANGED <<tasks, PID_PARENT, MUTED, normalizer>>
  BY DEF Open
<1>5. CASE pid \in MUTED \/ Reason(open) = "none"
  <2>1. Silence(pid, Watched(open)) /\ UNCHANGED EVENTS
    BY <1>1, <1>2, <1>5 DEF try_open
  <2>2. Reason(open) = "none" => ~Watched(open)
    BY DEF Reason, Watched
  <2>3. fate'.is = "silenced" /\ fate'.pid = pid /\ (fate'.watched => pid \in MUTED)
    BY <1>5, <2>1, <2>2 DEF Silence
  <2>4. QED
    BY <1>4, <2>1, <2>3, ReportHolds
<1>6. CASE pid \notin MUTED /\ Reason(open) # "none"
  <2>1. Emit(Event(pid, "file", "", Reason(open), open.path)) /\ fate' = Undecided
    BY <1>1, <1>2, <1>6 DEF try_open
  <2>2. Reason(open) \in {"", "secret_read", "write"}
    BY <1>6 DEF Reason
  <2>3. QED
    BY <1>3, <1>4, <2>1, <2>2, ReportHolds
<1>7. QED
  BY <1>5, <1>6

LEMMA ConnectHolds == ASSUME IInv, NEW t \in DOMAIN tasks, Connect(t)  PROVE IInv'
<1>1. try_connect(tasks[t].group) /\ UNCHANGED <<tasks, PID_PARENT, MUTED, normalizer>>
  BY DEF Connect
<1>2. PICK pid \in DOMAIN tasks : pid = tasks[t].group
  BY DEF IInv, TasksFine, TaskFine
<1>3. CASE pid \in MUTED
  <2>1. Silence(pid, TRUE) /\ UNCHANGED EVENTS
    BY <1>1, <1>2, <1>3 DEF try_connect
  <2>2. fate'.is = "silenced" /\ fate'.pid = pid
    BY <2>1 DEF Silence
  <2>3. QED
    BY <1>1, <1>3, <2>1, <2>2, ReportHolds
<1>4. CASE pid \notin MUTED
  <2>1. Emit(Event(pid, "net", "", "", "")) /\ fate' = Undecided
    BY <1>1, <1>2, <1>4 DEF try_connect
  <2>2. QED
    BY <1>1, <2>1, ReportHolds
<1>5. QED
  BY <1>3, <1>4

-----------------------------------------------------------------------------
(* The loader.                                                             *)

\* The mutes pushed are earned, and what is left to push is none.
LEMMA PushHolds ==
  ASSUME IInv, NEW n \in Sound, UNCHANGED <<tasks, PID_PARENT, EVENTS>>,
         MUTED' \in Pushed(n), normalizer' = Taken(n), fate' = Undecided
  PROVE  IInv'
<1>1. TasksFine' /\ Grows
  BY Same DEF IInv
<1>2. LinksFine' /\ EVENTS' \in Seq(Fine')
  BY <1>1, LinksStay, KnownStays DEF IInv
<1>3. MUTED' \subseteq Earned'
  <2>1. ToSet(n.newly_muted) \subseteq Earned
    BY SoundParts DEF ToSet
  <2>2. MUTED' \subseteq Earned
    BY <2>1, IntoMutes DEF IInv, Pushed
  <2>3. QED
    BY <1>1, <2>2, KnownStays DEF IInv
<1>4. normalizer' \in Sound'
  <2>1. Taken(n) \in Sound
    <3>1. <<>> \in Seq(Earned)
      OBVIOUS
    <3> HIDE DEF Earned, Procs
    <3>2. QED
      BY <3>1 DEF Taken, Sound
  <2>2. QED
    BY <1>1, <2>1, KnownStays DEF IInv
<1>5. SilenceEarned' /\ AncestryTrue'
  BY DEF Undecided, SilenceEarned, AncestryTrue
<1>6. QED
  BY <1>1, <1>2, <1>3, <1>4, <1>5 DEF IInv

LEMMA SeedHolds == ASSUME IInv, Seed  PROVE IInv'
<1> DEFINE listed == [t \in DOMAIN tasks |-> t \in Live \cap Processes]
           n      == SeedMuted(normalizer, listed, Proc)
<1>1. listed \in Seq(BOOLEAN) /\ DOMAIN listed = DOMAIN tasks
  <2>1. PICK m \in Nat : DOMAIN tasks = 1..m
    BY DEF IInv, TasksFine, TasksTyped
  <2>2. \A t \in DOMAIN tasks : (t \in Live \cap Processes) \in BOOLEAN
    OBVIOUS
  <2>3. QED
    BY <2>1
<1>2. n \in Sound
  BY <1>1, SeedSound DEF IInv
<1>3. QED
  BY <1>2, PushHolds DEF Seed

LEMMA DrainHolds == ASSUME IInv, Drain  PROVE IInv'
<1> DEFINE event   == Head(EVENTS)
           outcome == Normalize(normalizer, event, Proc)
<1>1. TasksFine' /\ Grows
  BY Same DEF IInv, Drain
<1>2. LinksFine' /\ MUTED' \subseteq Earned'
  BY <1>1, LinksStay, KnownStays DEF IInv, Drain
<1>3. EVENTS \in Seq(Fine) /\ EVENTS # <<>> /\ EVENTS' = Tail(EVENTS)
  BY DEF IInv, Drain
<1>4. event \in Fine /\ EVENTS' \in Seq(Fine)
  <2> HIDE DEF Fine
  <2>1. QED
    BY <1>3
<1>5. EVENTS' \in Seq(Fine')
  BY <1>1, <1>4, KnownStays DEF IInv
<1> HIDE DEF event
<1>6. /\ outcome.n \in Sound
      /\ \/ LineFine(event, outcome.line)
         \/ /\ outcome.line = NoLine
            /\ Beneath(event.pid) \/ Unwatched(event)
  BY <1>4, NormalizeFine DEF IInv
<1>7. /\ normalizer' = outcome.n
      /\ fate' = IF outcome.line = NoLine
                 THEN [is |-> "silenced", pid |-> event.pid,
                       watched |-> event.kind # "file" \/ event.reason = "secret_read"
                                                       \/ event.path \in {"plain", "secret"}]
                 ELSE [is |-> "captured", line |-> outcome.line, from |-> event.from]
  BY DEF Drain, event
<1> HIDE DEF outcome
<1>8. normalizer' \in Sound'
  BY <1>1, <1>6, <1>7, KnownStays DEF IInv
<1>9. event.pid \in DOMAIN tasks
  BY <1>4 DEF Fine, EventFine
<1>10. CASE outcome.line = NoLine
  <2>1. Beneath(event.pid) \/ Unwatched(event)
    BY <1>6, <1>10 DEF LineFine
  <2>2. PICK p : p = event.pid
    OBVIOUS
  <2>3. PICK w \in BOOLEAN : w = (event.kind # "file" \/ event.reason = "secret_read"
                                                     \/ event.path \in {"plain", "secret"})
    OBVIOUS
  <2>4. fate' = [is |-> "silenced", pid |-> p, watched |-> w]
    BY <1>7, <1>10, <2>2, <2>3
  <2>5. w => Beneath(p)'
    BY <1>1, <1>9, <2>1, <2>2, <2>3, BeneathStays DEF Unwatched, IInv
  <2>6. SilenceEarned' /\ AncestryTrue'
    BY <2>4, <2>5 DEF SilenceEarned, AncestryTrue
  <2>7. QED
    BY <1>1, <1>2, <1>5, <1>8, <2>6 DEF IInv
<1>11. CASE outcome.line # NoLine
  <2>1. LineFine(event, outcome.line)
    BY <1>6, <1>11
  <2>2. fate' = [is |-> "captured", line |-> outcome.line, from |-> event.from]
    BY <1>7, <1>11
  <2> DEFINE b == event.pid
             c == outcome.line.ancestry
             line == <<b>> \o c
  <2>3. c \in Seq(Nat) /\ Line(b, c) /\ outcome.line.pid = b
    BY <2>1 DEF LineFine
  <2> HIDE DEF b, c
  <2>4. /\ DOMAIN line = 1..(Len(c) + 1) /\ Len(c) \in Nat /\ line[1] = b
        /\ \A i \in 2..(Len(c) + 1) : i - 1 \in 1..Len(c) /\ line[i] = c[i - 1]
    BY <2>3
  <2> HIDE DEF line
  <2>5. ASSUME NEW i \in DOMAIN line, NEW j \in DOMAIN line, i < j  PROVE Up(line[j], line[i])
    <3>1. j \in 2..(Len(c) + 1) /\ line[j] = c[j - 1] /\ j - 1 \in 1..Len(c)
      BY <2>4, <2>5
    <3>2. CASE i = 1
      BY <2>3, <2>4, <3>1, <3>2 DEF Line
    <3>3. CASE i # 1
      <4>1. i \in 2..(Len(c) + 1) /\ line[i] = c[i - 1] /\ i - 1 \in 1..Len(c) /\ i - 1 < j - 1
        BY <2>4, <2>5, <3>3
      <4>2. QED
        BY <2>3, <3>1, <4>1 DEF Line
    <3>4. QED
      BY <3>2, <3>3
  <2>6. ASSUME NEW i \in DOMAIN line, NEW j \in DOMAIN line, i < j
        PROVE  tasks[line[j]].group \in tasks[line[i]].above
    BY <2>5, <2>6, TaskIds DEF IInv, Up, TaskFine
  <2>7. tasks' = tasks
    BY DEF Drain
  <2>8. fate'.is = "captured" /\ <<fate'.line.pid>> \o fate'.line.ancestry = line
    BY <2>2, <2>3 DEF line, c
  <2>9. AncestryTrue'
    BY <2>6, <2>7, <2>8 DEF AncestryTrue
  <2>10. SilenceEarned'
    BY <2>8 DEF SilenceEarned
  <2>11. QED
    BY <1>1, <1>2, <1>5, <1>8, <2>9, <2>10 DEF IInv
<1>12. QED
  BY <1>10, <1>11

LEMMA NextHolds == ASSUME IInv, [Next]_vars  PROVE IInv'
<1>1. CASE Host
  BY <1>1, ForkHolds, ExecHolds, LeaveHolds, OpenHolds, ConnectHolds DEF Host
<1>2. CASE Seed
  BY <1>2, SeedHolds
<1>3. CASE AttachFork \/ AttachRest
  <2>1. /\ fate' = Undecided /\ UNCHANGED <<tasks, PID_PARENT, MUTED, EVENTS, normalizer>>
    BY <1>3 DEF AttachFork, AttachRest
  <2>2. QED
    BY <2>1, Same, QuietStep DEF IInv
<1>4. CASE Drain
  BY <1>4, DrainHolds
<1>5. CASE Push
  BY <1>5, PushHolds DEF Push, IInv
<1>6. CASE UNCHANGED vars
  <2>1. UNCHANGED <<tasks, PID_PARENT, MUTED, EVENTS, normalizer, fate>>
    BY <1>6 DEF vars
  <2>2. TasksFine' /\ Grows
    BY <2>1, Same DEF IInv
  <2>3. /\ LinksFine' /\ EVENTS' \in Seq(Fine') /\ MUTED' \subseteq Earned'
        /\ normalizer' \in Sound'
    BY <2>1, <2>2, LinksStay, KnownStays DEF IInv
  <2>4. SilenceEarned' /\ AncestryTrue'
    BY <2>1 DEF IInv, SilenceEarned, AncestryTrue, Beneath
  <2>5. QED
    BY <2>2, <2>3, <2>4 DEF IInv
<1>7. QED
  BY <1>1, <1>2, <1>3, <1>4, <1>5, <1>6 DEF Next, Loader

THEOREM Holds == Spec => []IInv
BY InitHolds, NextHolds, PTL DEF Spec

\* Whoever the kernel or the normalizer holds muted descends from a process
\* that ran a tool or the widget, for every host and every size of the caches
\* (process.rs:133-137, normalize.rs:297-334).
THEOREM NobodyMutedInVain == Spec => []MutesEarned
<1>1. IInv => MutesEarned
  <2> SUFFICES ASSUME IInv  PROVE MutesEarned
    OBVIOUS
  <2>1. ToSet(normalizer.newly_muted) \subseteq Earned /\ normalizer.muted \subseteq Earned
    BY SoundParts DEF IInv, ToSet
  <2>2. QED
    BY <2>1 DEF IInv, MutesEarned, Earned
<1>2. QED
  BY <1>1, Holds, PTL

\* What a reviewer would look for is silenced for the mutes' processes only
\* (file.rs:195-203, normalize.rs:121).
THEOREM NothingSilencedInVain == Spec => []SilenceEarned
BY Holds, PTL DEF IInv

\* The lineage of a captured event is a line of descent, whatever was evicted,
\* missed or read late on the way (normalize.rs:359-376).
THEOREM LineageIsDescent == Spec => []AncestryTrue
BY Holds, PTL DEF IInv

-----------------------------------------------------------------------------
(* The line from a task up to the tool that started it.                    *)

\* A tool in the process that became it.
Root(p) == /\ p \in DOMAIN tasks /\ tasks[p].exe \in TOOLS
           /\ tasks[p].started = {p} /\ tasks[p].group = p

\* F goes up from its members to a tool: each has its process in F, and that
\* is a tool, was one and has left it, or has its parent in F.
Linked(F, c) ==
  /\ tasks[c].group \in F
  /\ \/ Root(tasks[c].group) \/ tasks[tasks[c].group].left
     \/ tasks[tasks[c].group].parent \in F
LineUp(F) == F # {} /\ F \subseteq DOMAIN tasks /\ \A c \in F : Linked(F, c)

TaskLined(t) ==
  /\ tasks[t].group <= t /\ tasks[t].parent < t
  /\ tasks[t].live => /\ tasks[tasks[t].group].live
                      /\ tasks[t].exe = tasks[tasks[t].group].exe
  /\ tasks[t].started # {} => t \in tasks[t].started /\ LineUp(tasks[t].started)

Lined == TasksFine /\ \A t \in DOMAIN tasks : TaskLined(t)

\* The steps the host takes, with what they do to the lines.
Advances ==
  /\ Grows
  /\ \A t \in DOMAIN tasks : /\ tasks'[t].parent = tasks[t].parent
                             /\ tasks'[t].live => tasks[t].live
                             /\ Root(t) => Root(t)' \/ tasks'[t].left
                             /\ tasks[t].left => tasks'[t].left
                             /\ tasks'[t].started \in {tasks[t].started, {t}, {}}

LEMMA LineStays == ASSUME Advances, Lined, NEW F, LineUp(F)  PROVE LineUp(F)'
<1>1. F # {} /\ F \subseteq DOMAIN tasks'
  BY DEF LineUp, Advances, Grows
<1>2. ASSUME NEW c \in F  PROVE Linked(F, c)'
  <2>1. PICK g : g = tasks[c].group
    OBVIOUS
  <2>2. c \in DOMAIN tasks /\ g \in F /\ g \in DOMAIN tasks
        /\ (Root(g) \/ tasks[g].left \/ tasks[g].parent \in F)
    BY <2>1 DEF LineUp, Linked
  <2>3. /\ tasks'[c].group = g /\ tasks'[g].parent = tasks[g].parent
        /\ Root(g) => Root(g)' \/ tasks'[g].left
        /\ tasks[g].left => tasks'[g].left
    BY <2>1, <2>2 DEF Advances, Grows
  <2>4. QED
    BY <2>2, <2>3 DEF Linked
<1>3. QED
  BY <1>1, <1>2 DEF LineUp

LEMMA StaysLined ==
  ASSUME Advances, Lined, NEW t \in DOMAIN tasks, tasks'[t].started = tasks[t].started,
         tasks'[t].live => /\ tasks'[tasks[t].group].live
                           /\ tasks'[t].exe = tasks'[tasks[t].group].exe
  PROVE  TaskLined(t)'
<1>1. TaskLined(t)
  BY DEF Lined
<1>2. PICK g, F : g = tasks[t].group /\ F = tasks[t].started
  OBVIOUS
<1>3. tasks'[t].group = g /\ tasks'[t].parent = tasks[t].parent /\ tasks'[t].started = F
  BY <1>2 DEF Advances, Grows
<1>4. g <= t /\ tasks[t].parent < t /\ (F # {} => t \in F /\ LineUp(F)')
  BY <1>1, <1>2, LineStays DEF TaskLined
<1>5. QED
  BY <1>2, <1>3, <1>4 DEF TaskLined

LEMMA InitLined == ASSUME TasksInit  PROVE Lined
<1>1. /\ DOMAIN tasks = 1..1
      /\ tasks[1] = [group |-> 1, parent |-> 0, exe |-> SHELL, live |-> TRUE,
                     above |-> {1}, ran |-> FALSE, started |-> {}, left |-> FALSE]
  BY DEF TasksInit
<1>2. TaskLined(1)
  BY <1>1 DEF TaskLined
<1>3. QED
  BY <1>1, <1>2, InitFine DEF Lined

LEMMA StartLined ==
  ASSUME Lined, NEW t \in DOMAIN tasks, NEW thread \in BOOLEAN, Start(t, thread),
         NEW u, u = NextTask
  PROVE  /\ Lined' /\ Advances
         /\ tasks'[u].parent = t /\ u \notin DOMAIN tasks /\ DOMAIN tasks' = DOMAIN tasks \cup {u}
         /\ tasks'[u].started = IF tasks[t].started = {} THEN {} ELSE tasks[t].started \cup {u}
         /\ \A v \in DOMAIN tasks : tasks'[v] = tasks[v]
<1>1. Started(t, thread, u) /\ TasksFine' /\ Grows /\ TasksFine
  BY StartShape, StartFine DEF Lined
<1>2. /\ DOMAIN tasks' = DOMAIN tasks \cup {u} /\ u \notin DOMAIN tasks
      /\ \A v \in DOMAIN tasks : tasks'[v] = tasks[v] /\ tasks[v] \in Task /\ v < u
  BY <1>1 DEF Started
<1>3. Advances
  BY <1>1, <1>2 DEF Advances, Root
<1>4. TaskLined(t) /\ TaskFine(t) /\ t \in Nat /\ u \in Nat /\ t < u
  BY <1>1, <1>2, TaskIds DEF Lined, Started
<1>5. PICK g, F : g = tasks'[u].group /\ F = tasks'[u].started
  OBVIOUS
<1>6. /\ g = (IF thread THEN tasks[t].group ELSE u)
      /\ F = IF tasks[t].started = {} THEN {} ELSE tasks[t].started \cup {u}
      /\ tasks'[u].parent = t /\ tasks'[u].exe = tasks[t].exe /\ tasks[t].live
  BY <1>1, <1>5 DEF Started
<1>7. tasks'[u].live => tasks'[g].live /\ tasks'[u].exe = tasks'[g].exe
  <2>1. CASE thread
    <3>1. g = tasks[t].group /\ g \in DOMAIN tasks
      BY <1>4, <1>6, <2>1 DEF TaskFine
    <3>2. tasks[g].live /\ tasks[t].exe = tasks[g].exe
      BY <1>4, <1>6, <3>1 DEF TaskLined
    <3>3. QED
      BY <1>2, <1>6, <3>1, <3>2
  <2>2. CASE ~thread
    BY <1>6, <2>2
  <2>3. QED
    BY <2>1, <2>2
<1>8. g <= u
  <2>1. tasks[t].group \in Nat /\ tasks[t].group <= t
    BY <1>1, <1>4, TaskIds DEF TaskFine, TaskLined
  <2>2. QED
    BY <1>4, <1>6, <2>1
<1>9. F # {} => u \in F /\ LineUp(F)'
  <2> SUFFICES ASSUME F # {}  PROVE u \in F /\ LineUp(F)'
    OBVIOUS
  <2>1. PICK E : E = tasks[t].started
    OBVIOUS
  <2>2. F = E \cup {u} /\ E # {} /\ t \in E /\ LineUp(E) /\ LineUp(E)'
    BY <1>3, <1>4, <1>6, <2>1, LineStays DEF TaskLined
  <2>3. \A c \in E : Linked(F, c)'
    BY <2>2 DEF LineUp, Linked
  <2>4. Linked(F, u)'
    <3>1. CASE thread
      <4>1. g = tasks[t].group /\ g = tasks'[t].group
        BY <1>2, <1>6, <3>1
      <4>2. Linked(E, t)'
        BY <2>2 DEF LineUp
      <4>3. QED
        BY <1>5, <2>2, <4>1, <4>2 DEF Linked
    <3>2. CASE ~thread
      BY <1>5, <1>6, <2>2, <3>2 DEF Linked
    <3>3. QED
      BY <3>1, <3>2
  <2>5. F \subseteq DOMAIN tasks'
    BY <1>2, <2>2 DEF LineUp
  <2>6. QED
    BY <2>2, <2>3, <2>4, <2>5 DEF LineUp
<1>10. TaskLined(u)'
  BY <1>4, <1>5, <1>6, <1>7, <1>8, <1>9 DEF TaskLined
<1>11. ASSUME NEW v \in DOMAIN tasks  PROVE TaskLined(v)'
  <2>1. TaskLined(v) /\ tasks[v].group \in DOMAIN tasks
    BY <1>1 DEF Lined, TasksFine, TaskFine
  <2>2. tasks'[v].live => /\ tasks'[tasks[v].group].live
                          /\ tasks'[v].exe = tasks'[tasks[v].group].exe
    BY <1>2, <2>1 DEF TaskLined
  <2>3. QED
    BY <1>2, <1>3, <2>2, StaysLined
<1>12. QED
  BY <1>1, <1>2, <1>3, <1>5, <1>6, <1>10, <1>11 DEF Lined

\* Process p has loaded a program.
Loaded(p, program) ==
  /\ p \in DOMAIN tasks /\ tasks[p].group = p
  /\ DOMAIN tasks' = DOMAIN tasks /\ tasks'[p].exe = program
  /\ tasks'[p].parent = tasks[p].parent /\ tasks'[p].live = tasks[p].live
  /\ tasks'[p].started = StartedBy(p, program)
  /\ tasks'[p].left <=> Leaves(p, program)
  /\ \A t \in DOMAIN tasks \ {p} :
       /\ tasks'[t].parent = tasks[t].parent /\ tasks'[t].started = tasks[t].started
       /\ tasks'[t].exe = tasks[t].exe /\ tasks'[t].left = tasks[t].left
       /\ tasks'[t].live = (tasks[t].live /\ tasks[t].group # p)

LEMMA LoadShape ==
  ASSUME Lined, NEW p, NEW program \in Program, Load(p, program)
  PROVE  Loaded(p, program)
<1>1. p \in DOMAIN tasks /\ tasks[p].group = p /\ DOMAIN tasks' = DOMAIN tasks
  BY DEF Load, Processes
<1>2. \A t \in DOMAIN tasks : tasks[t] \in Task
  BY TaskIds DEF Lined
<1>3. PICK b \in BOOLEAN : b = (tasks[p].ran \/ program \in TOOLS \cup {VPNIP})
  OBVIOUS
<1>4. PICK s : s = StartedBy(p, program)
  OBVIOUS
<1>9. PICK l \in BOOLEAN : l = Leaves(p, program)
  BY DEF Leaves
<1>5. tasks'[p] = [tasks[p] EXCEPT !.exe = program, !.ran = b, !.left = l, !.started = s]
  <2>1. tasks'[p] = [tasks[p] EXCEPT
                       !.exe     = program,
                       !.ran     = @ \/ program \in TOOLS \cup {VPNIP},
                       !.left    = @ \/ (tasks[p].started = {p} /\ program \notin TOOLS),
                       !.started = CASE program \in TOOLS               -> {p}
                                     [] program \notin TOOLS /\ @ = {p} -> {}
                                     [] program \notin TOOLS /\ @ # {p} -> @]
    BY <1>1 DEF Load
  <2>2. QED
    BY <1>3, <1>4, <1>9, <2>1 DEF StartedBy, Leaves
<1>6. /\ tasks'[p].exe = program /\ tasks'[p].started = s /\ tasks'[p].left = l
      /\ tasks'[p].parent = tasks[p].parent /\ tasks'[p].live = tasks[p].live
  <2>1. tasks[p] \in Task
    BY <1>1, <1>2
  <2>2. QED
    BY <1>5, <2>1 DEF Task
<1>7. ASSUME NEW t \in DOMAIN tasks \ {p}
      PROVE  /\ tasks'[t].parent = tasks[t].parent /\ tasks'[t].started = tasks[t].started
             /\ tasks'[t].exe = tasks[t].exe /\ tasks'[t].left = tasks[t].left
             /\ tasks'[t].live = (tasks[t].live /\ tasks[t].group # p)
  <2>1. tasks'[t] = IF tasks[t].group = p THEN [tasks[t] EXCEPT !.live = FALSE] ELSE tasks[t]
    BY <1>7 DEF Load
  <2>2. tasks[t] \in Task
    BY <1>2
  <2>3. CASE tasks[t].group = p
    BY <2>1, <2>2, <2>3 DEF Task
  <2>4. CASE tasks[t].group # p
    <3>1. tasks[t].live \in BOOLEAN
      BY <2>2 DEF Task
    <3>2. QED
      BY <2>1, <2>4, <3>1
  <2>5. QED
    BY <2>3, <2>4
<1>8. QED
  BY <1>1, <1>4, <1>6, <1>7, <1>9 DEF Loaded

LEMMA LoadLined ==
  ASSUME Lined, NEW p, NEW program \in Program, Load(p, program)
  PROVE  Lined' /\ Advances
<1>0. Loaded(p, program)
  BY LoadShape
<1>1. /\ TasksFine' /\ Grows /\ TasksFine
  BY LoadFine DEF Lined
<1>2. /\ p \in DOMAIN tasks /\ tasks[p].group = p
      /\ DOMAIN tasks' = DOMAIN tasks /\ tasks'[p].exe = program
      /\ tasks'[p].parent = tasks[p].parent /\ tasks'[p].live = tasks[p].live
      /\ tasks'[p].started = StartedBy(p, program)
      /\ tasks'[p].left <=> Leaves(p, program)
  BY <1>0 DEF Loaded
<1>3. \A t \in DOMAIN tasks \ {p} :
        /\ tasks'[t].parent = tasks[t].parent /\ tasks'[t].started = tasks[t].started
        /\ tasks'[t].exe = tasks[t].exe /\ tasks'[t].left = tasks[t].left
        /\ tasks'[t].live = (tasks[t].live /\ tasks[t].group # p)
  BY <1>0 DEF Loaded
<1>4. \A t \in DOMAIN tasks : tasks'[t].group = tasks[t].group
  BY <1>1 DEF Grows
<1>5. Advances
  <2>1. \A t \in DOMAIN tasks : Root(t) => Root(t)' \/ tasks'[t].left
    BY <1>2, <1>3, <1>4 DEF Root, StartedBy, Leaves
  <2>2. \A t \in DOMAIN tasks : /\ tasks'[t].parent = tasks[t].parent
                                /\ tasks'[t].live => tasks[t].live
                                /\ tasks[t].left => tasks'[t].left
                                /\ tasks'[t].started \in {tasks[t].started, {t}, {}}
    BY <1>2, <1>3 DEF StartedBy, Leaves
  <2>3. QED
    BY <1>1, <2>1, <2>2 DEF Advances
<1>6. ASSUME NEW t \in DOMAIN tasks \ {p}  PROVE TaskLined(t)'
  <2>1. TaskLined(t) /\ tasks[t].group \in DOMAIN tasks /\ tasks[tasks[t].group].group = tasks[t].group
    BY <1>1 DEF Lined, TasksFine, TaskFine
  <2>2. tasks'[t].live => /\ tasks'[tasks[t].group].live
                          /\ tasks'[t].exe = tasks'[tasks[t].group].exe
    BY <1>2, <1>3, <2>1 DEF TaskLined
  <2>3. QED
    BY <1>3, <1>5, <2>2, StaysLined
<1>7. TaskLined(p)'
  <2>1. CASE program \in TOOLS
    <3>0. tasks'[p].started = {p}
      BY <1>2, <2>1 DEF StartedBy
    <3>1. Root(p)'
      BY <1>2, <1>4, <2>1, <3>0 DEF Root
    <3>2. LineUp({p})'
      BY <1>2, <1>4, <3>1 DEF LineUp, Linked
    <3>3. p <= p /\ tasks[p].parent < p
      BY <1>2 DEF Lined, TaskLined
    <3>4. QED
      BY <1>2, <1>4, <3>0, <3>2, <3>3 DEF TaskLined
  <2>2. CASE program \notin TOOLS /\ tasks[p].started = {p}
    <3>1. tasks'[p].started = {}
      BY <1>2, <2>2 DEF StartedBy
    <3>2. p <= p /\ tasks[p].parent < p
      BY <1>2 DEF Lined, TaskLined
    <3>3. QED
      BY <1>2, <1>4, <3>1, <3>2 DEF TaskLined
  <2>3. CASE program \notin TOOLS /\ tasks[p].started # {p}
    <3>1. tasks'[p].started = tasks[p].started
      BY <1>2, <2>3 DEF StartedBy
    <3>2. QED
      BY <1>2, <1>5, <3>1, StaysLined
  <2>4. QED
    BY <2>1, <2>2, <2>3
<1>8. QED
  BY <1>1, <1>2, <1>5, <1>6, <1>7 DEF Lined

LEMMA ExitLined ==
  ASSUME Lined, NEW t, Exit(t)
  PROVE  /\ Lined' /\ Advances /\ DOMAIN tasks' = DOMAIN tasks
         /\ \A u \in DOMAIN tasks : tasks'[u].started = tasks[u].started
<1>1. TasksFine' /\ Grows /\ TasksFine
  BY ExitFine DEF Lined
<1>2. DOMAIN tasks' = DOMAIN tasks
  BY DEF Exit
<1>3. ASSUME NEW u \in DOMAIN tasks
      PROVE  /\ tasks'[u].parent = tasks[u].parent /\ tasks'[u].started = tasks[u].started
             /\ tasks'[u].exe = tasks[u].exe /\ tasks'[u].left = tasks[u].left
             /\ tasks'[u].live = (tasks[u].live /\ u # t /\ tasks[u].group # t)
  <2>1. tasks'[u] = IF u = t \/ tasks[u].group = t
                    THEN [tasks[u] EXCEPT !.live = FALSE] ELSE tasks[u]
    BY DEF Exit
  <2>2. tasks[u] \in Task
    BY <1>1, TaskIds
  <2>3. CASE u = t \/ tasks[u].group = t
    BY <2>1, <2>2, <2>3 DEF Task
  <2>4. CASE ~(u = t \/ tasks[u].group = t)
    <3>1. tasks[u].live \in BOOLEAN
      BY <2>2 DEF Task
    <3>2. QED
      BY <2>1, <2>4, <3>1
  <2>5. QED
    BY <2>3, <2>4
<1>4. \A u \in DOMAIN tasks : tasks'[u].group = tasks[u].group
  BY <1>1 DEF Grows
<1>5. Advances
  <2>1. \A u \in DOMAIN tasks : Root(u) => Root(u)'
    BY <1>2, <1>3, <1>4 DEF Root
  <2>2. \A u \in DOMAIN tasks : /\ tasks'[u].parent = tasks[u].parent
                                /\ tasks'[u].live => tasks[u].live
                                /\ tasks[u].left => tasks'[u].left
                                /\ tasks'[u].started \in {tasks[u].started, {u}, {}}
    BY <1>3
  <2>3. QED
    BY <1>1, <2>1, <2>2 DEF Advances
<1>6. ASSUME NEW u \in DOMAIN tasks  PROVE TaskLined(u)'
  <2>1. TaskLined(u) /\ tasks[u].group \in DOMAIN tasks /\ tasks[tasks[u].group].group = tasks[u].group
    BY <1>1 DEF Lined, TasksFine, TaskFine
  <2>2. tasks'[u].live => /\ tasks'[tasks[u].group].live
                          /\ tasks'[u].exe = tasks'[tasks[u].group].exe
    BY <1>3, <2>1 DEF TaskLined
  <2>3. QED
    BY <1>3, <1>5, <2>2, StaysLined
<1>7. QED
  BY <1>1, <1>2, <1>3, <1>5, <1>6 DEF Lined

-----------------------------------------------------------------------------
(* What the normalizer knows of the line.                                  *)

\* An entry for c that shows a tool, or goes on up F.
GoodInfo(F, c, info) == info.exe \in TOOLS \/ (info.ppid \in F /\ info.ppid < c)

\* An exec event of c that does.
GoodExec(F, c, e) ==
  e.exe \in TOOLS \/ (tasks[c].parent \in F /\ e.ppid \in {0, tasks[c].parent})

\* The entries of C are good.
Keeps(F, C) == {n \in Sound : \A c \in C \cap DOMAIN n.procs : GoodInfo(F, c, n.procs[c])}

\* F is alive, all of it, and none of its tools has loaded another program.
Standing(F) == Lined /\ LineUp(F) /\ F \subseteq Live /\ \A t \in F : ~tasks[t].left

\* /proc shows of the members of a line that stands where it goes on.
LEMMA ProcLeads ==
  ASSUME NEW F, Standing(F), NEW c \in F
  PROVE  /\ c \in DOMAIN Proc /\ c \in Nat /\ GoodInfo(F, c, Proc[c])
         /\ tasks[c].group = c /\ tasks[c].parent \in F =>
              Proc[c].ppid \in F /\ Proc[c].ppid < c
<1> DEFINE g == tasks[c].group
           p == tasks[g].parent
           q == tasks[p].group
<1>1. /\ TasksFine /\ c \in Live /\ c \in DOMAIN tasks /\ g \in F /\ g \in DOMAIN tasks
      /\ Root(g) \/ p \in F
  BY DEF Standing, Lined, LineUp, Linked
<1>2. /\ TaskLined(c) /\ TaskLined(g) /\ tasks[c].live
      /\ Proc[c] = [ppid |-> ParentNow(c), exe |-> tasks[c].exe] /\ c \in DOMAIN Proc
  BY <1>1 DEF Standing, Lined, Live, Proc
<1>3. c \in Nat /\ g \in Nat /\ g <= c
  BY <1>1, <1>2, TaskIds DEF TaskLined
<1>4. ASSUME p \in F  PROVE ParentNow(c) \in F /\ ParentNow(c) < c
  <2>1. p \in DOMAIN tasks /\ p # 0 /\ p \in Nat /\ q \in F /\ q \in Live /\ TaskLined(p)
    BY <1>1, <1>4, TaskIds DEF Standing, Lined, LineUp, Linked
  <2>2. ParentNow(c) = q
    BY <2>1 DEF ParentNow
  <2>3. q \in Nat /\ q <= p /\ p < g
    BY <1>1, <1>2, <2>1, TaskIds DEF TaskLined, Live
  <2>4. QED
    BY <1>3, <2>1, <2>2, <2>3
<1>5. CASE p \in F
  BY <1>2, <1>3, <1>4, <1>5 DEF GoodInfo
<1>6. CASE Root(g) /\ p \notin F
  <2>1. tasks[c].exe \in TOOLS
    BY <1>2, <1>6 DEF TaskLined, Root
  <2>2. QED
    BY <1>2, <1>3, <1>6, <2>1 DEF GoodInfo
<1>7. QED
  BY <1>1, <1>5, <1>6

LEMMA InsertKeeps ==
  ASSUME NEW F, NEW C, NEW pid \in Nat, NEW n \in Keeps(F, C \ {pid}),
         NEW info \in Info, InfoFine(pid, info), pid \in C => GoodInfo(F, pid, info)
  PROVE  Insert(n, pid, info) \in Keeps(F, C) /\ pid \in DOMAIN Insert(n, pid, info).procs
<1>1. n \in Sound /\ \A c \in C \cap DOMAIN n.procs : c # pid => GoodInfo(F, c, n.procs[c])
  BY DEF Keeps
<1>2. PICK m : m = Insert(n, pid, info)
  OBVIOUS
<1>3. m \in Sound
  BY <1>1, <1>2, InsertSound
<1>4. /\ pid \in DOMAIN m.procs /\ m.procs[pid] = info
      /\ \A c \in DOMAIN m.procs : c # pid => c \in DOMAIN n.procs /\ m.procs[c] = n.procs[c]
  <2>1. PICK kept : /\ kept \subseteq DOMAIN n.procs
                    /\ m.procs = [p \in kept \cup {pid} |-> IF p = pid THEN info ELSE n.procs[p]]
    BY <1>1, <1>2 DEF Insert, Sound
  <2>2. QED
    BY <2>1
<1>5. \A c \in C \cap DOMAIN m.procs : GoodInfo(F, c, m.procs[c])
  BY <1>1, <1>4
<1>6. QED
  BY <1>2, <1>3, <1>4, <1>5 DEF Keeps

LEMMA GetKeeps ==
  ASSUME NEW F, Standing(F), NEW C \in SUBSET F, NEW n \in Keeps(F, C), NEW pid
  PROVE  /\ Get(n, pid, Proc) \in Keeps(F, C)
         /\ pid \in F => pid \in DOMAIN Get(n, pid, Proc).procs
<1>1. CASE pid \notin DOMAIN n.procs /\ pid \in DOMAIN Proc
  <2>1. pid \in Nat /\ Proc[pid] \in Info /\ InfoFine(pid, Proc[pid])
    BY <1>1, ProcShows DEF Standing, Lined
  <2>2. pid \in C => GoodInfo(F, pid, Proc[pid])
    BY ProcLeads
  <2>3. n \in Keeps(F, C \ {pid})
    BY DEF Keeps
  <2>4. Get(n, pid, Proc) = Insert(n, pid, Proc[pid])
    BY <1>1 DEF Get
  <2>5. QED
    BY <2>1, <2>2, <2>3, <2>4, InsertKeeps
<1>2. CASE ~(pid \notin DOMAIN n.procs /\ pid \in DOMAIN Proc)
  <2>1. Get(n, pid, Proc) = n
    BY <1>2 DEF Get
  <2>2. pid \in F => pid \in DOMAIN Proc
    BY ProcLeads
  <2>3. QED
    BY <1>2, <2>1, <2>2
<1>3. QED
  BY <1>1, <1>2

LEMMA KeepsClosed ==
  ASSUME NEW F, Standing(F), NEW C \in SUBSET F
  PROVE  /\ TasksFine /\ Keeps(F, C) \in SUBSET Sound
         /\ \A n \in Keeps(F, C) : \A p : Get(n, p, Proc) \in Keeps(F, C)
BY GetKeeps DEF Keeps, Standing, Lined

LEMMA WalkKeeps ==
  ASSUME NEW F, Standing(F), NEW C \in SUBSET F, NEW m \in Keeps(F, C),
         NEW pid \in DOMAIN tasks
  PROVE  MuteWalk(m, pid, Proc).n \in Keeps(F, C)
BY KeepsClosed, WalkWithin

LEMMA VerdictKeeps ==
  ASSUME NEW F, Standing(F), NEW C \in SUBSET F, NEW n \in Keeps(F, C),
         NEW pid \in DOMAIN tasks, NEW fresh \in BOOLEAN
  PROVE  IsMuted(n, pid, fresh, Proc).n \in Keeps(F, C)
<1> DEFINE stale  == [n EXCEPT !.muted = IF fresh THEN @ \ {pid} ELSE @]
           walked == MuteWalk(stale, pid, Proc)
           r      == IsMuted(n, pid, fresh, Proc)
<1>1. n \in Sound /\ TasksFine
  BY DEF Keeps, Standing, Lined
<1>2. stale \in Sound /\ stale.procs = n.procs
  BY <1>1, SoundParts DEF Sound
<1>3. stale \in Keeps(F, C)
  BY <1>2 DEF Keeps
<1>4. walked.n \in Keeps(F, C)
  BY <1>3, WalkKeeps
<1>5. r.n \in Sound
  BY <1>1, VerdictEarned
<1>6. r.n.procs \in {n.procs, walked.n.procs}
  <2> DEFINE full   == Cardinality(walked.n.muted) >= MUTED_CACHE_CAP
             cached == [walked.n EXCEPT !.muted = {pid} \cup IF full THEN {} ELSE @,
                                        !.newly_muted = Append(@, pid)]
  <2>1. walked.n \in Sound
    BY <1>4 DEF Keeps
  <2>2. r \in {[n |-> n, found |-> FALSE], [n |-> n, found |-> TRUE],
               [found |-> walked.found, n |-> IF walked.found THEN cached ELSE walked.n]}
    BY DEF IsMuted
  <2> HIDE DEF walked, full, stale
  <2>3. cached.procs = walked.n.procs
    BY <2>1 DEF Sound
  <2> HIDE DEF cached, r
  <2>4. r.n \in {n, cached, walked.n}
    BY <2>2
  <2>5. QED
    BY <2>3, <2>4
<1> HIDE DEF walked, stale
<1>7. PICK a, b : a = r.n /\ b = walked.n
  OBVIOUS
<1> HIDE DEF r
<1>8. a \in Keeps(F, C)
  BY <1>4, <1>5, <1>6, <1>7 DEF Keeps
<1>9. QED
  BY <1>7, <1>8 DEF r

LEMMA AncestryKeeps ==
  ASSUME NEW F, Standing(F), NEW C \in SUBSET F, NEW m \in Keeps(F, C), NEW b,
         NEW pid \in Nat, pid # 0 => Up(pid, b)
  PROVE  Ancestry(m, pid, Proc).n \in Keeps(F, C)
BY KeepsClosed, AncestryWithin

LEMMA SeedKeeps ==
  ASSUME NEW F, Standing(F), NEW C \in SUBSET F, NEW m \in Keeps(F, C),
         NEW listed \in Seq(BOOLEAN), DOMAIN listed = DOMAIN tasks
  PROVE  SeedMuted(m, listed, Proc) \in Keeps(F, C)
<1>0. m \in Sound /\ TasksFine
  BY DEF Keeps, Standing, Lined
<1> DEFINE n == Len(listed)
<1>1. n \in Nat /\ DOMAIN tasks = 1..n
  OBVIOUS
<1>2. PICK seeded \in [0..n -> Sound] :
        /\ seeded[0] = m
        /\ \A pid \in 1..n : seeded[pid] = SeedRound(seeded[pid - 1], pid, listed, Proc)
        /\ SeedMuted(m, listed, Proc) = seeded[n]
  BY <1>0, SeedRuns
<1> HIDE DEF n
<1>3. ASSUME NEW pid \in 1..n, seeded[pid - 1] \in Keeps(F, C)
      PROVE  seeded[pid] \in Keeps(F, C)
  BY <1>1, <1>2, <1>3, VerdictKeeps DEF SeedRound
<1>4. \A pid \in 0..n : seeded[pid] \in Keeps(F, C)
  BY <1>1, <1>2, <1>3, LoopStays
<1>5. QED
  BY <1>1, <1>2, <1>4

LEMMA RecordedKeeps ==
  ASSUME NEW F, Standing(F), NEW C \in SUBSET F, NEW n \in Keeps(F, C), NEW e \in Fine
  PROVE  Recorded(n, e, Proc).n \in Keeps(F, C)
<1> DEFINE got  == Get(n, e.pid, Proc)
           ppid == IF e.ppid = 0 /\ e.pid \in DOMAIN got.procs
                   THEN got.procs[e.pid].ppid ELSE e.ppid
           up   == Ancestry(got, ppid, Proc)
<1>1. e.ppid \in Nat /\ (e.ppid # 0 => Up(e.ppid, e.pid))
  BY DEF Fine, EventFine
<1>2. Recorded(n, e, Proc).n = up.n
  BY DEF Recorded
<1>3. got \in Keeps(F, C) /\ got \in Sound
  BY GetKeeps DEF Keeps
<1> HIDE DEF got
<1>4. ppid \in Nat /\ (ppid # 0 => Up(ppid, e.pid))
  BY <1>1, <1>3, EntryTrue
<1> HIDE DEF ppid
<1>5. up.n \in Keeps(F, C)
  BY <1>3, <1>4, AncestryKeeps
<1>6. QED
  BY <1>2, <1>5

-----------------------------------------------------------------------------
(* A walk that knows a line finds the tool at its end.                     *)

\* There is one.
LEMMA LineHasRoot == ASSUME NEW F, Standing(F)  PROVE TOOLS # {}
<1>1. F # {} /\ F \subseteq DOMAIN tasks /\ DOMAIN tasks \subseteq Nat /\ Lined
  BY TaskIds DEF Standing, Lined, LineUp
<1>2. PICK c \in F : \A d \in F : c <= d
  BY <1>1, Least
<1>3. PICK g, p : g = tasks[c].group /\ p = tasks[g].parent
  OBVIOUS
<1>4. g \in F /\ (Root(g) \/ p \in F)
  BY <1>3 DEF Standing, LineUp, Linked
<1>5. p < g /\ g <= c
  BY <1>1, <1>3, <1>4 DEF Lined, TaskLined
<1>6. p \in F => c <= p /\ c \in Nat /\ g \in Nat /\ p \in Nat
  BY <1>1, <1>2, <1>4
<1>7. p \notin F
  BY <1>5, <1>6
<1>8. QED
  BY <1>4, <1>7 DEF Root

LEMMA LineIsFinite ==
  ASSUME NEW F, Standing(F)
  PROVE  /\ IsFiniteSet(F) /\ Cardinality(F) \in Nat
         /\ \A c \in F : /\ Cardinality({x \in F : x <= c}) \in Nat \ {0}
                         /\ \A d \in F : d < c =>
                              Cardinality({x \in F : x <= d}) < Cardinality({x \in F : x <= c})
<1>1. PICK m \in Nat : DOMAIN tasks = 1..m
  BY DEF Standing, Lined, TasksFine, TasksTyped
<1>2. IsFiniteSet(F) /\ F \subseteq Nat
  <2>1. IsFiniteSet(1..m) /\ F \subseteq 1..m
    BY <1>1, FS_Interval DEF Standing, LineUp
  <2>2. IsFiniteSet(F)
    BY <2>1, FS_Subset
  <2>3. QED
    BY <2>1, <2>2
<1>3. ASSUME NEW c \in F
      PROVE  Cardinality({x \in F : x <= c}) \in Nat \ {0} /\ IsFiniteSet({x \in F : x <= c})
  <2>1. IsFiniteSet({x \in F : x <= c}) /\ c \in {x \in F : x <= c}
    BY <1>2, FS_Subset
  <2>2. QED
    BY <2>1, FS_CardinalityType, FS_EmptySet
<1>4. ASSUME NEW c \in F, NEW d \in F, d < c
      PROVE  Cardinality({x \in F : x <= d}) < Cardinality({x \in F : x <= c})
  <2>1. c \in Nat /\ d \in Nat
    BY <1>2
  <2>2. /\ {x \in F : x <= d} \subseteq {x \in F : x <= c}
        /\ c \in {x \in F : x <= c} /\ c \notin {x \in F : x <= d}
    <3>1. \A x \in F : x <= d => x <= c
      BY <1>2, <1>4, <2>1
    <3>2. c <= c /\ ~(c <= d)
      BY <1>4, <2>1
    <3>3. QED
      BY <3>1, <3>2
  <2>3. {x \in F : x <= d} # {x \in F : x <= c}
    BY <2>2
  <2>4. QED
    BY <1>3, <2>2, <2>3, FS_Subset
<1>5. QED
  BY <1>2, <1>3, <1>4, FS_CardinalityType

\* After k rounds the walk has found the tool or left k members of F behind.
Nears(F, w, k) ==
  /\ w.over => w.found
  /\ ~w.over => /\ w.cur \in F /\ w.n \in Keeps(F, F)
                /\ Cardinality({x \in F : x <= w.cur}) + k <= Cardinality(F)

LEMMA RoundNears ==
  ASSUME NEW F, Standing(F), NEW pid, NEW k \in Nat, NEW w \in Walks(pid), Nears(F, w, k)
  PROVE  Nears(F, MuteRound(w, pid, Proc), k + 1)
<1> DEFINE n    == Get(w.n, w.cur, Proc)
           info == n.procs[w.cur]
           hit  == w.cur # pid /\ w.cur \in w.n.muted
           r    == MuteRound(w, pid, Proc)
<1>1. /\ w = [n |-> w.n, cur |-> w.cur, found |-> w.found, over |-> w.over]
      /\ w.found \in BOOLEAN /\ w.over \in BOOLEAN
  BY DEF Walks
<1>2. CASE w.over
  BY <1>2 DEF MuteRound, Nears
<1>3. CASE ~w.over /\ hit
  <2>1. r = [w EXCEPT !.found = TRUE, !.over = TRUE]
    BY <1>3 DEF MuteRound
  <2>2. r.found /\ r.over
    BY <1>1, <2>1
  <2> HIDE DEF r
  <2>3. Nears(F, r, k + 1)
    BY <2>2 DEF Nears
  <2>4. QED
    BY <2>3 DEF r
<1>4. CASE ~w.over /\ ~hit
  <2>1. /\ w.cur \in F /\ w.n \in Keeps(F, F)
        /\ Cardinality({x \in F : x <= w.cur}) + k <= Cardinality(F)
    BY <1>4 DEF Nears
  <2>2. n \in Keeps(F, F) /\ w.cur \in DOMAIN n.procs
    BY <2>1, GetKeeps
  <2> HIDE DEF n
  <2>3. GoodInfo(F, w.cur, info)
    BY <2>1, <2>2 DEF Keeps
  <2>4. r = [n |-> n, cur |-> info.ppid, found |-> info.exe \in muted_exes,
             over |-> info.exe \in muted_exes \/ info.ppid \in {0, w.cur}]
    BY <1>4, <2>2 DEF MuteRound, n
  <2> HIDE DEF info
  <2>5. PICK q : q = info.ppid
    OBVIOUS
  <2>6. /\ r.n = n /\ r.cur = q /\ (r.found <=> info.exe \in TOOLS)
        /\ (r.over <=> (info.exe \in TOOLS \/ q \in {0, w.cur}))
    <3>1. PICK tool \in BOOLEAN : tool = (info.exe \in TOOLS)
      <4>1. (info.exe \in TOOLS) \in BOOLEAN
        OBVIOUS
      <4>2. QED
        BY <4>1
    <3>2. PICK over \in BOOLEAN : over = (info.exe \in TOOLS \/ q \in {0, w.cur})
      OBVIOUS
    <3> HIDE DEF r
    <3>3. r = [n |-> n, cur |-> q, found |-> tool, over |-> over]
      BY <2>4, <2>5, <3>1, <3>2, MutingAssumption
    <3>4. QED
      BY <3>1, <3>2, <3>3
  <2> HIDE DEF r
  <2>7. CASE info.exe \in TOOLS
    <3>1. Nears(F, r, k + 1)
      BY <2>6, <2>7 DEF Nears
    <3>2. QED
      BY <3>1 DEF r
  <2>8. CASE info.exe \notin TOOLS
    <3>1. q \in F /\ q < w.cur
      BY <2>3, <2>5, <2>8 DEF GoodInfo
    <3>2. q \in Nat \ {0} /\ w.cur \in Nat
      BY <2>1, <3>1, TaskIds DEF Standing, Lined, LineUp
    <3>3. ~r.over
      BY <2>6, <2>8, <3>1, <3>2
    <3>4. PICK a, b, c : /\ a = Cardinality({x \in F : x <= q})
                         /\ b = Cardinality({x \in F : x <= w.cur}) /\ c = Cardinality(F)
      OBVIOUS
    <3>5. a \in Nat /\ b \in Nat /\ c \in Nat /\ a < b
      BY <2>1, <3>1, <3>4, LineIsFinite
    <3>6. a + (k + 1) <= c
      BY <2>1, <3>4, <3>5
    <3>7. Nears(F, r, k + 1)
      BY <2>2, <2>6, <3>1, <3>3, <3>4, <3>6 DEF Nears
    <3>8. QED
      BY <3>7 DEF r
  <2>9. QED
    BY <2>7, <2>8
<1>5. QED
  BY <1>2, <1>3, <1>4

LEMMA WalkFinds ==
  ASSUME NEW F, Standing(F), NEW m \in Keeps(F, F), NEW pid \in F,
         Cardinality(F) <= MUTE_DEPTH
  PROVE  MuteWalk(m, pid, Proc).found
<1>0. m \in Sound /\ TasksFine /\ pid \in DOMAIN tasks
  BY DEF Keeps, Standing, Lined, LineUp
<1>1. MUTE_DEPTH \in Nat /\ MUTE_DEPTH \in 0..MUTE_DEPTH /\ 0 \in 0..MUTE_DEPTH
  BY NormalizerAssumption
<1>2. PICK walk \in [0..MUTE_DEPTH -> Walks(pid)] :
        /\ walk[0] = [n |-> m, cur |-> pid, found |-> FALSE, over |-> FALSE]
        /\ \A k \in 1..MUTE_DEPTH : walk[k] = MuteRound(walk[k - 1], pid, Proc)
        /\ MuteWalk(m, pid, Proc) = walk[MUTE_DEPTH]
  BY <1>0, WalkRuns
<1> DEFINE Ks == {k \in 0..MUTE_DEPTH : Nears(F, walk[k], k)}
           f  == [k \in 0..MUTE_DEPTH |-> k]
<1>3. Nears(F, walk[0], 0)
  <2>1. Cardinality({x \in F : x <= pid}) <= Cardinality(F)
    <3>1. {x \in F : x <= pid} \subseteq F
      OBVIOUS
    <3>2. QED
      BY <3>1, LineIsFinite, FS_Subset
  <2>2. Cardinality({x \in F : x <= pid}) + 0 <= Cardinality(F)
    BY <2>1, LineIsFinite
  <2>3. walk[0].cur = pid /\ walk[0].n = m /\ walk[0].over = FALSE
    BY <1>2
  <2>4. QED
    BY <2>2, <2>3 DEF Nears
<1>4. ASSUME NEW k \in 1..MUTE_DEPTH, Nears(F, walk[k - 1], k - 1)
      PROVE  Nears(F, walk[k], k)
  <2>1. k - 1 \in Nat /\ k - 1 \in 0..MUTE_DEPTH /\ (k - 1) + 1 = k
    BY <1>1
  <2>2. PICK j, w : j = k - 1 /\ w = walk[k - 1]
    OBVIOUS
  <2>3. w \in Walks(pid)
    <3>1. walk \in [0..MUTE_DEPTH -> Walks(pid)]
      BY <1>2
    <3>2. QED
      BY <2>1, <2>2, <3>1
  <2>4. Nears(F, MuteRound(w, pid, Proc), j + 1)
    BY <1>4, <2>1, <2>2, <2>3, RoundNears
  <2>5. QED
    BY <1>2, <2>1, <2>2, <2>4
<1>5. \A k \in 0..MUTE_DEPTH : f[k] \in Ks
  <2>1. f[0] \in Ks
    BY <1>1, <1>3
  <2>2. ASSUME NEW k \in 1..MUTE_DEPTH, f[k - 1] \in Ks  PROVE f[k] \in Ks
    <3>1. k \in 0..MUTE_DEPTH /\ k - 1 \in 0..MUTE_DEPTH
      BY <1>1
    <3>2. QED
      BY <1>4, <2>2, <3>1
  <2> HIDE DEF f, Ks
  <2>3. QED
    BY <1>1, <2>1, <2>2, LoopStays
<1>6. Nears(F, walk[MUTE_DEPTH], MUTE_DEPTH)
  BY <1>1, <1>5
<1>7. PICK w : w = walk[MUTE_DEPTH]
  OBVIOUS
<1>8. ASSUME ~w.over  PROVE FALSE
  <2>1. w.cur \in F /\ Cardinality({x \in F : x <= w.cur}) + MUTE_DEPTH <= Cardinality(F)
    BY <1>6, <1>7, <1>8 DEF Nears
  <2>2. Cardinality({x \in F : x <= w.cur}) \in Nat \ {0} /\ Cardinality(F) \in Nat
    BY <2>1, LineIsFinite
  <2>3. QED
    BY <1>1, <2>1, <2>2
<1>9. QED
  BY <1>2, <1>6, <1>7, <1>8 DEF Nears

LEMMA VerdictFound ==
  ASSUME NEW F, Standing(F), NEW n \in Keeps(F, F), NEW pid \in F,
         Cardinality(F) <= MUTE_DEPTH, NEW fresh \in BOOLEAN
  PROVE  IsMuted(n, pid, fresh, Proc).found
<1> DEFINE stale  == [n EXCEPT !.muted = IF fresh THEN @ \ {pid} ELSE @]
           walked == MuteWalk(stale, pid, Proc)
           r      == IsMuted(n, pid, fresh, Proc)
<1>1. n \in Sound
  BY DEF Keeps
<1>2. stale \in Sound /\ stale.procs = n.procs
  BY <1>1, SoundParts DEF Sound
<1>3. stale \in Keeps(F, F)
  BY <1>2 DEF Keeps
<1>4. walked.found
  BY <1>3, WalkFinds
<1>5. muted_exes # {}
  BY LineHasRoot, MutingAssumption
<1>6. CASE pid \in stale.muted
  <2>1. r = [n |-> n, found |-> TRUE]
    BY <1>5, <1>6 DEF IsMuted, stale
  <2>2. QED
    BY <2>1
<1>7. CASE pid \notin stale.muted
  <2>1. r.found = walked.found
    BY <1>5, <1>7 DEF IsMuted, stale
  <2>2. QED
    BY <1>4, <2>1
<1>8. QED
  BY <1>6, <1>7

\* Normalizing an event keeps the entries of C, and of a line known so far it
\* reports nothing.
LEMMA NormalizeKeeps ==
  ASSUME NEW F, Standing(F), NEW C \in SUBSET F, NEW e \in Fine,
         NEW n \in Keeps(F, IF e.kind = "exec" THEN C \ {e.pid} ELSE C),
         e.kind = "exec" /\ e.pid \in C =>
           GoodExec(F, e.pid, e) /\ tasks[e.pid].group = e.pid
  PROVE  /\ Normalize(n, e, Proc).n \in Keeps(F, C)
         /\ C = F /\ e.pid \in F /\ Cardinality(F) <= MUTE_DEPTH =>
              Normalize(n, e, Proc).line = NoLine
<1> DEFINE r == Normalize(n, e, Proc)
           dropped(m) == [n |-> m, line |-> NoLine]
<1>1. /\ e.pid \in DOMAIN tasks /\ e.pid \in Nat /\ TasksFine
  BY TaskIds DEF Fine, EventFine, Standing, Lined
<1>2. CASE e.kind = "exec"
  <2> DEFINE info == ExecInfo(e)
             in   == Insert(n, e.pid, info)
             mute == IsMuted(in, e.pid, TRUE, Proc)
  <2>1. r = IF mute.found THEN dropped(mute.n) ELSE Recorded(mute.n, e, Proc)
    BY <1>2 DEF Normalize, NormalizeExec, Dropped, ExecInfo
  <2>2. info \in Info /\ InfoFine(e.pid, info)
    BY <1>1, <1>2, ExecInfoFine
  <2>3. e.pid \in C => GoodInfo(F, e.pid, info)
    <3> SUFFICES ASSUME e.pid \in C  PROVE GoodInfo(F, e.pid, info)
      OBVIOUS
    <3>1. GoodExec(F, e.pid, e) /\ tasks[e.pid].group = e.pid /\ TaskLined(e.pid)
      BY <1>1, <1>2 DEF Standing, Lined
    <3>2. info.exe = e.exe
      BY DEF ExecInfo
    <3>3. CASE e.exe \in TOOLS
      BY <3>2, <3>3 DEF GoodInfo
    <3>4. CASE tasks[e.pid].parent \in F /\ e.ppid # 0
      <4>1. info.ppid = e.ppid
        BY <3>4 DEF ExecInfo
      <4> HIDE DEF info
      <4>2. CASE e.exe \in TOOLS
        BY <3>3, <4>2 DEF info
      <4>3. CASE e.exe \notin TOOLS
        <5>1. e.ppid = tasks[e.pid].parent /\ tasks[e.pid].parent < e.pid
          BY <3>1, <3>4, <4>3 DEF GoodExec, TaskLined
        <5>2. GoodInfo(F, e.pid, info)
          BY <3>4, <4>1, <5>1 DEF GoodInfo
        <5>3. QED
          BY <5>2 DEF info
      <4>4. QED
        BY <4>2, <4>3
    <3>5. CASE tasks[e.pid].parent \in F /\ e.ppid = 0
      <4>1. e.pid \in DOMAIN Proc /\ Proc[e.pid].ppid \in F /\ Proc[e.pid].ppid < e.pid
        BY <3>1, <3>5, ProcLeads
      <4>2. info.ppid = Proc[e.pid].ppid
        BY <3>5, <4>1 DEF ExecInfo
      <4>3. GoodInfo(F, e.pid, info)
        BY <4>1, <4>2 DEF GoodInfo
      <4>4. QED
        BY <4>3
    <3>6. QED
      BY <3>1, <3>3, <3>4, <3>5 DEF GoodExec
  <2>4. n \in Keeps(F, C \ {e.pid})
    BY <1>2
  <2> HIDE DEF info
  <2>5. in \in Keeps(F, C)
    BY <1>1, <2>2, <2>3, <2>4, InsertKeeps
  <2> HIDE DEF in
  <2>6. mute.n \in Keeps(F, C)
    BY <1>1, <2>5, VerdictKeeps
  <2>7. C = F /\ e.pid \in F /\ Cardinality(F) <= MUTE_DEPTH => mute.found
    BY <2>5, VerdictFound
  <2> HIDE DEF mute, r
  <2>8. CASE mute.found
    BY <2>1, <2>6, <2>8 DEF r
  <2>9. CASE ~mute.found
    BY <2>1, <2>6, <2>7, <2>9, RecordedKeeps DEF r
  <2>10. QED
    BY <2>8, <2>9
<1>3. CASE e.kind # "exec"
  <2> DEFINE mute  == IsMuted(n, e.pid, FALSE, Proc)
             churn == e.kind = "file" /\ e.reason # "secret_read" /\ IsNoise(e, Proc)
  <2>1. r = IF mute.found \/ churn THEN dropped(mute.n) ELSE Recorded(mute.n, e, Proc)
    BY <1>3 DEF Normalize, NormalizeOther, Dropped
  <2>2. n \in Keeps(F, C)
    BY <1>3
  <2>3. mute.n \in Keeps(F, C)
    BY <1>1, <2>2, VerdictKeeps
  <2>4. C = F /\ e.pid \in F /\ Cardinality(F) <= MUTE_DEPTH => mute.found
    BY <2>2, VerdictFound
  <2> HIDE DEF mute, r, churn
  <2>5. CASE mute.found \/ churn
    BY <2>1, <2>3, <2>5 DEF r
  <2>6. CASE ~(mute.found \/ churn)
    BY <2>1, <2>3, <2>4, <2>6, RecordedKeeps DEF r
  <2>7. QED
    BY <2>5, <2>6
<1>4. QED
  BY <1>2, <1>3

-----------------------------------------------------------------------------
(* What is known of a line, the events still in the ring counted in.       *)

ExecAt(ev, c, i) == ev[i].kind = "exec" /\ ev[i].pid = c

\* Of every member of F the last exec event among the first k is good, or if
\* there is none the entry.
Known(F, ev, procs, k) ==
  \A c \in F :
    /\ \A i \in 1..k :
         ExecAt(ev, c, i) /\ (\A j \in (i + 1)..k : ~ExecAt(ev, c, j)) =>
           GoodExec(F, c, ev[i]) /\ tasks[c].group = c
    /\ (\A i \in 1..k : ~ExecAt(ev, c, i)) /\ c \in DOMAIN procs => GoodInfo(F, c, procs[c])

\* All of the line is alive, and its tools were seen to start and are tools still.
Intact(F) == /\ F # {} /\ F \subseteq Live /\ F \cap unseen = {}
             /\ \A t \in F : ~tasks[t].left

LinesKnown ==
  \A t \in DOMAIN tasks :
    Intact(tasks[t].started) =>
      Known(tasks[t].started, EVENTS, normalizer.procs, Len(EVENTS))

EventKnown(j) ==
  /\ EVENTS[j].from # {} => EVENTS[j].pid \in EVENTS[j].from /\ LineUp(EVENTS[j].from)
  /\ Intact(EVENTS[j].from) => Known(EVENTS[j].from, EVENTS, normalizer.procs, j)

EventsKnown == \A j \in 1..Len(EVENTS) : EventKnown(j)

LInv ==
  /\ IInv /\ Lined
  /\ \A c \in DOMAIN PID_PARENT : PID_PARENT[c] = tasks[c].parent
  /\ pc = "seed" => EVENTS = <<>> /\ DOMAIN normalizer.procs = {} /\ probes = "none"
  /\ LinesKnown /\ EventsKnown /\ OnlyOrphansLeak

\* A line that is intact was so before.
LEMMA IntactBefore ==
  ASSUME Advances, unseen \subseteq unseen', NEW F, F \subseteq DOMAIN tasks, Intact(F)'
  PROVE  Intact(F)
BY DEF Intact, Live, Advances

LEMMA KnownOn ==
  ASSUME Advances, NEW F, F \subseteq DOMAIN tasks, NEW ev, NEW procs, NEW k,
         Known(F, ev, procs, k)
  PROVE  Known(F, ev, procs, k)'
<1>1. \A c \in F : tasks'[c].parent = tasks[c].parent /\ tasks'[c].group = tasks[c].group
  BY DEF Advances, Grows
<1>2. ASSUME NEW c \in F, NEW e  PROVE GoodExec(F, c, e)' <=> GoodExec(F, c, e)
  BY <1>1 DEF GoodExec
<1>3. ASSUME NEW c \in F, NEW e  PROVE GoodInfo(F, c, e)' <=> GoodInfo(F, c, e)
  BY DEF GoodInfo
<1>4. QED
  BY <1>1, <1>2, <1>3 DEF Known, ExecAt

\* An event more.
LEMMA KnownPast ==
  ASSUME NEW F, NEW T, NEW ev \in Seq(T), NEW procs, NEW k \in 0..Len(ev), NEW e,
         Known(F, ev, procs, k)
  PROVE  Known(F, Append(ev, e), procs, k)
<1>1. \A i \in 1..k : Append(ev, e)[i] = ev[i]
  OBVIOUS
<1>2. \A i \in 1..k : \A j \in (i + 1)..k : j \in 1..k
  OBVIOUS
<1>3. \A c, i : i \in 1..k => (ExecAt(Append(ev, e), c, i) <=> ExecAt(ev, c, i))
  BY <1>1 DEF ExecAt
<1>4. QED
  BY <1>1, <1>2, <1>3 DEF Known

LEMMA KnownMore ==
  ASSUME NEW F, NEW T, NEW ev \in Seq(T), NEW procs, NEW e, Known(F, ev, procs, Len(ev)),
         e.kind = "exec" /\ e.pid \in F => GoodExec(F, e.pid, e) /\ tasks[e.pid].group = e.pid
  PROVE  Known(F, Append(ev, e), procs, Len(ev) + 1)
<1> DEFINE k == Len(ev)
           more == Append(ev, e)
<1>1. Known(F, more, procs, k) /\ k \in Nat /\ more[k + 1] = e
  BY KnownPast
<1> HIDE DEF k, more
<1>2. \A i \in 1..(k + 1) : i \in 1..k \/ i = k + 1
  BY <1>1
<1>3. ASSUME NEW c \in F, NEW i \in 1..(k + 1), ExecAt(more, c, i),
             \A j \in (i + 1)..(k + 1) : ~ExecAt(more, c, j)
      PROVE  GoodExec(F, c, more[i]) /\ tasks[c].group = c
  <2>1. CASE i = k + 1
    BY <1>1, <1>3, <2>1 DEF ExecAt
  <2>2. CASE i \in 1..k
    <3>1. \A j \in (i + 1)..k : j \in (i + 1)..(k + 1)
      BY <1>1, <2>2
    <3>2. QED
      BY <1>1, <1>3, <2>2, <3>1 DEF Known
  <2>3. QED
    BY <1>2, <2>1, <2>2
<1>4. ASSUME NEW c \in F, \A i \in 1..(k + 1) : ~ExecAt(more, c, i), c \in DOMAIN procs
      PROVE  GoodInfo(F, c, procs[c])
  <2>1. \A i \in 1..k : i \in 1..(k + 1)
    BY <1>1
  <2>2. QED
    BY <1>1, <1>4, <2>1 DEF Known
<1>5. Known(F, more, procs, k + 1)
  BY <1>3, <1>4 DEF Known
<1>6. QED
  BY <1>5 DEF k, more

\* A step of the host that put event e into the ring, or nothing.
LEMMA HostKnown ==
  ASSUME LInv, Advances, Lined', unseen \subseteq unseen',
         normalizer'.procs = normalizer.procs,
         NEW e, EVENTS' = EVENTS \/ EVENTS' = Append(EVENTS, e),
         EVENTS' # EVENTS => e.pid \in DOMAIN tasks /\ e.from = tasks'[e.pid].started,
         EVENTS' # EVENTS /\ e.kind = "exec" =>
           \A F : e.pid \in F /\ LineUp(F)' /\ ~tasks'[e.pid].left =>
             GoodExec(F, e.pid, e)' /\ tasks'[e.pid].group = e.pid,
         \A t \in DOMAIN tasks' :
           \/ t \in DOMAIN tasks /\ tasks'[t].started = tasks[t].started
           \/ Intact(tasks[t].started)' =>
                Known(tasks[t].started, EVENTS, normalizer.procs, Len(EVENTS))'
  PROVE  LinesKnown' /\ EventsKnown'
<1>1. PICK ev, next, procs : ev = EVENTS /\ next = EVENTS' /\ procs = normalizer.procs
  OBVIOUS
<1>2. ev \in Seq(Fine) /\ (next = ev \/ next = Append(ev, e)) /\ Len(ev) \in Nat
  BY <1>1 DEF LInv, IInv
<1>3. \A t \in DOMAIN tasks : tasks[t].started # {} => LineUp(tasks[t].started)
  BY DEF LInv, Lined, TaskLined
<1>4. \A t \in DOMAIN tasks' : tasks'[t].started # {} =>
        t \in tasks'[t].started /\ LineUp(tasks[t].started)'
  BY DEF Lined, TaskLined
<1>5. ASSUME NEW t \in DOMAIN tasks'
      PROVE  Intact(tasks[t].started)' =>
               Known(tasks[t].started, EVENTS, normalizer.procs, Len(EVENTS))'
  <2>1. CASE ~(t \in DOMAIN tasks /\ tasks'[t].started = tasks[t].started)
    BY <2>1
  <2>2. CASE t \in DOMAIN tasks /\ tasks'[t].started = tasks[t].started
    <3>1. PICK F : F = tasks[t].started
      OBVIOUS
    <3> SUFFICES ASSUME Intact(F)'  PROVE Known(F, next, procs, Len(next))'
      BY <1>1, <2>2, <3>1
    <3>2. F # {} /\ LineUp(F) /\ F \subseteq DOMAIN tasks
      BY <1>3, <2>2, <3>1 DEF Intact, LineUp
    <3>3. Intact(F)
      BY <3>2, IntactBefore
    <3>4. Known(F, ev, procs, Len(ev))
      BY <1>1, <2>2, <3>1, <3>3 DEF LInv, LinesKnown
    <3>5. CASE next = ev
      BY <3>2, <3>4, <3>5, KnownOn
    <3>6. CASE next = Append(ev, e) /\ next # ev
      <4>1. LineUp(F)'
        BY <3>2, LineStays DEF LInv
      <4>2. e.kind = "exec" /\ e.pid \in F =>
              GoodExec(F, e.pid, e)' /\ tasks'[e.pid].group = e.pid
        BY <1>1, <3>6, <4>1 DEF Intact
      <4>3. e.kind = "exec" /\ e.pid \in F =>
              GoodExec(F, e.pid, e) /\ tasks[e.pid].group = e.pid
        BY <3>2, <4>2 DEF GoodExec, Advances, Grows
      <4>4. Known(F, next, procs, Len(next))
        BY <1>2, <3>4, <3>6, <4>3, KnownMore
      <4>5. QED
        BY <3>2, <4>4, KnownOn
    <3>7. QED
      BY <1>2, <3>5, <3>6
  <2>3. QED
    BY <2>1, <2>2
<1>6. LinesKnown'
  BY <1>5 DEF LinesKnown
<1>7. ASSUME NEW j \in 1..Len(EVENTS')  PROVE EventKnown(j)'
  <2>1. CASE j \in 1..Len(ev) /\ next[j] = ev[j]
    <3>1. PICK F : F = ev[j].from
      OBVIOUS
    <3>2. /\ F # {} => ev[j].pid \in F /\ LineUp(F)
          /\ Intact(F) => Known(F, ev, procs, j)
      BY <1>1, <2>1, <3>1 DEF LInv, EventsKnown, EventKnown
    <3>3. F # {} => next[j].pid \in F /\ LineUp(F)'
      BY <2>1, <3>2, LineStays DEF LInv
    <3>4. ASSUME Intact(F)'  PROVE Known(F, next, procs, j)'
      <4>1. F # {} /\ F \subseteq DOMAIN tasks
        BY <3>2, <3>4 DEF Intact, LineUp
      <4>2. Known(F, ev, procs, j)
        BY <3>2, <3>4, <4>1, IntactBefore
      <4>3. Known(F, next, procs, j)
        <5>1. j \in 0..Len(ev)
          BY <1>2, <2>1
        <5>2. Known(F, Append(ev, e), procs, j)
          BY <1>2, <4>2, <5>1, KnownPast
        <5>3. QED
          BY <1>2, <4>2, <5>2
      <4>4. QED
        BY <4>1, <4>3, KnownOn
    <3>5. QED
      BY <1>1, <2>1, <3>1, <3>3, <3>4 DEF EventKnown
  <2>2. CASE next = Append(ev, e) /\ next # ev /\ j = Len(next) /\ next[j] = e
    <3>1. e.pid \in DOMAIN tasks /\ e.from = tasks'[e.pid].started
      BY <1>1, <2>2
    <3>2. e.pid \in DOMAIN tasks'
      BY <3>1 DEF Advances, Grows
    <3>3. PICK F : F = e.from
      OBVIOUS
    <3>4. F # {} => e.pid \in F /\ LineUp(F)'
      BY <1>4, <3>1, <3>2, <3>3
    <3>5. Intact(F)' => Known(F, next, procs, j)'
      BY <1>1, <1>5, <2>2, <3>1, <3>2, <3>3
    <3>6. QED
      BY <1>1, <2>2, <3>3, <3>4, <3>5 DEF EventKnown
  <2>3. QED
    <3>1. CASE next = ev
      BY <1>1, <2>1, <3>1
    <3>2. CASE next = Append(ev, e) /\ next # ev
      <4>1. Len(next) = Len(ev) + 1 /\ next[Len(next)] = e
            /\ \A i \in 1..Len(ev) : next[i] = ev[i]
        BY <1>2, <3>2
      <4>2. j \in 1..Len(ev) \/ j = Len(next)
        BY <1>1, <1>2, <4>1
      <4>3. QED
        BY <2>1, <2>2, <3>2, <4>1, <4>2
    <3>3. QED
      BY <1>2, <3>1, <3>2
<1>8. EventsKnown'
  BY <1>7 DEF EventsKnown
<1>9. QED
  BY <1>6, <1>8

\* A step of the host that decided nothing, put nothing into the ring and
\* started no line.
LEMMA QuietKnown ==
  ASSUME LInv, IInv', Lined', Advances, DOMAIN tasks' = DOMAIN tasks,
         \A t \in DOMAIN tasks : tasks'[t].started = tasks[t].started,
         fate'.is # "captured",
         UNCHANGED <<probes, PID_PARENT, EVENTS, pc, normalizer, unseen>>
  PROVE  LInv'
<1>1. LinesKnown' /\ EventsKnown'
  BY HostKnown
<1>2. \A c \in DOMAIN PID_PARENT' : PID_PARENT'[c] = tasks'[c].parent
  BY DEF LInv, IInv, LinksFine, Up, Advances
<1>3. OnlyOrphansLeak'
  BY DEF OnlyOrphansLeak
<1>4. QED
  BY <1>1, <1>2, <1>3 DEF LInv

LEMMA ForkKnown == ASSUME LInv, NEW t \in DOMAIN tasks, Fork(t)  PROVE LInv'
<1>1. PICK thread \in BOOLEAN : Start(t, thread)
  BY MutingAssumption DEF Fork
<1>2. PICK u : u = NextTask
  OBVIOUS
<1>3. /\ Lined' /\ Advances
      /\ tasks'[u].parent = t /\ u \notin DOMAIN tasks /\ DOMAIN tasks' = DOMAIN tasks \cup {u}
      /\ tasks'[u].started = IF tasks[t].started = {} THEN {} ELSE tasks[t].started \cup {u}
      /\ \A v \in DOMAIN tasks : tasks'[v] = tasks[v]
  BY <1>1, <1>2, StartLined DEF LInv
<1>4. IInv' /\ UNCHANGED <<probes, EVENTS, pc, normalizer, unseen>> /\ fate' = Undecided
  BY ForkHolds DEF Fork, LInv
<1>5. PICK E, F, ev, procs : /\ E = tasks[t].started /\ F = tasks'[u].started
                             /\ ev = EVENTS /\ procs = normalizer.procs
  OBVIOUS
<1>6. Intact(F)' => Known(F, ev, procs, Len(ev))'
  <2> SUFFICES ASSUME Intact(F)'  PROVE Known(F, ev, procs, Len(ev))'
    OBVIOUS
  <2>1. E # {} /\ F = E \cup {u} /\ E \subseteq DOMAIN tasks
    BY <1>3, <1>5 DEF Intact, LInv, Lined, TaskLined, LineUp
  <2>2. Intact(E)'
    BY <2>1 DEF Intact
  <2>3. Intact(E)
    BY <1>3, <1>4, <2>1, <2>2, IntactBefore
  <2>4. Known(E, ev, procs, Len(ev))
    BY <1>5, <2>3 DEF LInv, LinesKnown
  <2>5. Known(E, ev, procs, Len(ev))'
    BY <1>3, <2>1, <2>4, KnownOn
  <2>6. \A i \in 1..Len(ev) : ~ExecAt(ev, u, i)
    <3>1. \A i \in 1..Len(ev) : ev[i] \in Fine
      BY <1>5 DEF LInv, IInv
    <3>2. \A i \in 1..Len(ev) : ev[i].pid \in DOMAIN tasks
      BY <3>1 DEF Fine, EventFine
    <3>3. QED
      BY <1>3, <3>2 DEF ExecAt
  <2>7. u \notin DOMAIN procs
    BY <1>3, <1>5, EntryTrue DEF LInv, IInv
  <2>8. ASSUME NEW c, NEW x  PROVE /\ GoodExec(E, c, x)' => GoodExec(F, c, x)'
                                   /\ GoodInfo(E, c, x)' => GoodInfo(F, c, x)'
    BY <2>1 DEF GoodExec, GoodInfo
  <2>9. QED
    BY <2>1, <2>5, <2>6, <2>7, <2>8 DEF Known
<1>7. LinesKnown' /\ EventsKnown'
  <2>1. \A v \in DOMAIN tasks' :
          \/ v \in DOMAIN tasks /\ tasks'[v].started = tasks[v].started
          \/ Intact(tasks[v].started)' =>
               Known(tasks[v].started, EVENTS, normalizer.procs, Len(EVENTS))'
    BY <1>3, <1>4, <1>5, <1>6
  <2>2. QED
    BY <1>3, <1>4, <2>1, HostKnown
<1>8. \A c \in DOMAIN PID_PARENT' : PID_PARENT'[c] = tasks'[c].parent
  <2>1. \A c \in DOMAIN PID_PARENT : PID_PARENT[c] = tasks'[c].parent
    BY <1>3 DEF LInv, IInv, LinksFine, Up, Advances
  <2>2. PID_PARENT' \in {PID_PARENT, Put(PID_PARENT, u, t)}
    BY <1>2 DEF Fork, try_fork
  <2>3. QED
    BY <1>3, <2>1, <2>2 DEF Put
<1>9. OnlyOrphansLeak'
  BY <1>4 DEF OnlyOrphansLeak, Undecided
<1>10. QED
  BY <1>3, <1>4, <1>7, <1>8, <1>9 DEF LInv

LEMMA ExecKnown == ASSUME LInv, NEW p \in DOMAIN tasks, Exec(p)  PROVE LInv'
<1>1. PICK program \in Program :
        /\ Load(p, program)
        /\ IF probes = "all" THEN try_exec(p, program)
           ELSE fate' = Undecided /\ UNCHANGED <<MUTED, EVENTS>>
  BY DEF Exec
<1>2. IInv' /\ UNCHANGED <<probes, PID_PARENT, pc, normalizer>>
  BY ExecHolds DEF Exec, LInv
<1>3. Loaded(p, program) /\ Lined' /\ Advances
  BY <1>1, LoadShape, LoadLined DEF LInv
<1>4. unseen' = IF pc # "seed" /\ EVENTS' = EVENTS /\ program \in TOOLS
                THEN unseen \cup {p} ELSE unseen
  BY <1>3 DEF Exec, Loaded
<1>5. PICK e : e = Event(p, "exec", program, "", "")
  OBVIOUS
<1>6. /\ e.pid = p /\ e.kind = "exec" /\ e.exe = program /\ e.from = tasks'[p].started
      /\ e.ppid = ParentOf(p)
  BY <1>5 DEF Event
<1>7. EVENTS' = EVENTS \/ (EVENTS' = Append(EVENTS, e) /\ probes = "all")
  BY <1>1, <1>5 DEF try_exec, Emit
<1>8. fate'.is # "captured"
  <2>1. fate' = Undecided \/ Silence(p, TRUE)
    BY <1>1 DEF try_exec
  <2>2. QED
    BY <2>1 DEF Silence, Undecided
<1>9. \A c \in DOMAIN PID_PARENT' : PID_PARENT'[c] = tasks'[c].parent
  BY <1>2, <1>3 DEF LInv, IInv, LinksFine, Up, Advances
<1>10. ASSUME NEW F, p \in F, LineUp(F)', ~tasks'[p].left
       PROVE  GoodExec(F, p, e)' /\ tasks'[p].group = p
  <2>1. tasks'[p].group = p /\ tasks'[p].exe = program
    BY <1>3 DEF Loaded, Advances, Grows
  <2>2. CASE program \in TOOLS
    BY <1>6, <2>1, <2>2 DEF GoodExec
  <2>3. CASE program \notin TOOLS
    <3>1. Linked(F, p)'
      BY <1>10 DEF LineUp
    <3>2. tasks'[p].parent \in F
      BY <1>10, <2>1, <2>3, <3>1 DEF Linked, Root
    <3>3. e.ppid \in {0, tasks'[p].parent}
      BY <1>3, <1>6 DEF ParentOf, LInv, Loaded
    <3>4. QED
      BY <2>1, <3>2, <3>3 DEF GoodExec
  <2>4. QED
    BY <2>2, <2>3
<1>11. program \in TOOLS /\ Intact(tasks[p].started)' =>
         Known(tasks[p].started, EVENTS, normalizer.procs, Len(EVENTS))'
  <2> SUFFICES ASSUME program \in TOOLS, Intact(tasks[p].started)'
               PROVE  Known(tasks[p].started, EVENTS, normalizer.procs, Len(EVENTS))'
    OBVIOUS
  <2>1. tasks'[p].started = {p}
    BY <1>3 DEF Loaded, StartedBy
  <2>2. p \notin unseen' /\ ~tasks'[p].left
    BY <2>1 DEF Intact
  <2>3. PICK next, procs : next = EVENTS' /\ procs = normalizer'.procs
    OBVIOUS
  <2>4. CASE EVENTS' = EVENTS
    <3>1. pc = "seed"
      BY <1>4, <2>2, <2>4
    <3>2. next = <<>> /\ DOMAIN procs = {}
      BY <1>2, <2>3, <2>4, <3>1 DEF LInv
    <3>3. Known({p}, next, procs, Len(next))'
      BY <3>2 DEF Known
    <3>4. QED
      BY <2>1, <2>3, <3>3
  <2>5. CASE EVENTS' # EVENTS
    <3>1. EVENTS \in Seq(Fine) /\ next = Append(EVENTS, e)
      BY <1>7, <2>3, <2>5 DEF LInv, IInv
    <3>2. Len(next) \in Nat \ {0} /\ next[Len(next)] = e
      BY <3>1
    <3>3. ExecAt(next, p, Len(next)) /\ Len(next) \in 1..Len(next)
      BY <1>6, <3>2 DEF ExecAt
    <3>4. \A i \in 1..Len(next) : i # Len(next) => Len(next) \in (i + 1)..Len(next)
      BY <3>2
    <3>5. GoodExec({p}, p, e)' /\ tasks'[p].group = p
      <4>1. LineUp({p})'
        <5>1. PICK F : F = tasks'[p].started
          OBVIOUS
        <5>2. F # {} => LineUp(F)'
          BY <1>3, <5>1 DEF Lined, TaskLined, Loaded
        <5>3. QED
          BY <2>1, <5>1, <5>2
      <4>2. QED
        BY <1>10, <2>2, <4>1
    <3>6. Known({p}, next, procs, Len(next))'
      BY <3>2, <3>3, <3>4, <3>5 DEF Known
    <3>7. QED
      BY <2>1, <2>3, <3>6
  <2>6. QED
    BY <2>4, <2>5
<1>12. LinesKnown' /\ EventsKnown'
  <2>1. \A t \in DOMAIN tasks' :
          \/ t \in DOMAIN tasks /\ tasks'[t].started = tasks[t].started
          \/ Intact(tasks[t].started)' =>
               Known(tasks[t].started, EVENTS, normalizer.procs, Len(EVENTS))'
    <3>1. ASSUME NEW t \in DOMAIN tasks'
          PROVE  \/ t \in DOMAIN tasks /\ tasks'[t].started = tasks[t].started
                 \/ t = p /\ (program \in TOOLS \/ tasks'[p].started = {})
      BY <1>3 DEF Loaded, StartedBy
    <3>2. ~Intact({})'
      BY DEF Intact
    <3>3. QED
      BY <1>11, <3>1, <3>2
  <2>2. unseen \subseteq unseen' /\ normalizer'.procs = normalizer.procs
    BY <1>2, <1>4
  <2>3. QED
    BY <1>3, <1>6, <1>7, <1>10, <2>1, <2>2, HostKnown
<1>13. pc' = "seed" => EVENTS' = <<>> /\ DOMAIN normalizer'.procs = {} /\ probes' = "none"
  BY <1>2, <1>7 DEF LInv
<1>14. OnlyOrphansLeak'
  BY <1>8 DEF OnlyOrphansLeak
<1>15. QED
  BY <1>2, <1>3, <1>9, <1>12, <1>13, <1>14 DEF LInv

LEMMA LeaveKnown == ASSUME LInv, NEW t, Leave(t)  PROVE LInv'
<1>1. /\ Lined' /\ Advances /\ DOMAIN tasks' = DOMAIN tasks
      /\ \A u \in DOMAIN tasks : tasks'[u].started = tasks[u].started
  BY ExitLined DEF Leave, LInv
<1>2. IInv' /\ fate' = Undecided
  BY LeaveHolds DEF Leave, LInv
<1>3. QED
  BY <1>1, <1>2, QuietKnown DEF Leave, Undecided

LEMMA StillLined == ASSUME Lined, UNCHANGED tasks  PROVE Lined' /\ Advances
<1>1. TasksFine' /\ Grows
  BY Same DEF Lined
<1>2. Advances
  BY <1>1 DEF Advances, Root
<1>3. \A t \in DOMAIN tasks : TaskLined(t)'
  BY <1>2, StaysLined DEF Lined, TaskLined
<1>4. QED
  BY <1>1, <1>2, <1>3 DEF Lined

\* An open or a connection: no exec event.
LEMMA ReportKnown ==
  ASSUME LInv, IInv', NEW pid \in DOMAIN tasks, NEW kind \in {"file", "net"},
         NEW reason, NEW path, fate'.is # "captured",
         UNCHANGED EVENTS \/ Emit(Event(pid, kind, "", reason, path)),
         UNCHANGED <<tasks, probes, PID_PARENT, pc, normalizer, unseen>>, probes = "all"
  PROVE  LInv'
<1>1. Lined' /\ Advances
  BY StillLined DEF LInv
<1>2. PICK e : e = Event(pid, kind, "", reason, path)
  OBVIOUS
<1>3. e.pid = pid /\ e.kind # "exec" /\ e.from = tasks'[pid].started
  BY <1>2 DEF Event
<1>4. EVENTS' = EVENTS \/ EVENTS' = Append(EVENTS, e)
  BY <1>2 DEF Emit
<1>5. LinesKnown' /\ EventsKnown'
  BY <1>1, <1>3, <1>4, HostKnown
<1>6. OnlyOrphansLeak'
  BY DEF OnlyOrphansLeak
<1>7. QED
  BY <1>1, <1>5, <1>6 DEF LInv

LEMMA OpenKnown == ASSUME LInv, NEW t \in DOMAIN tasks, Open(t)  PROVE LInv'
<1>1. PICK open \in Opens : try_open(tasks[t].group, open)
  BY DEF Open
<1>2. PICK pid \in DOMAIN tasks : pid = tasks[t].group
  BY DEF LInv, IInv, TasksFine, TaskFine
<1>3. fate'.is # "captured"
  <2>1. fate' = Undecided \/ Silence(tasks[t].group, Watched(open))
    BY <1>1 DEF try_open
  <2>2. QED
    BY <2>1 DEF Silence, Undecided
<1>4. UNCHANGED EVENTS \/ Emit(Event(pid, "file", "", Reason(open), open.path))
  BY <1>1, <1>2 DEF try_open
<1>5. QED
  BY <1>3, <1>4, OpenHolds, ReportKnown DEF Open, LInv

LEMMA ConnectKnown == ASSUME LInv, NEW t \in DOMAIN tasks, Connect(t)  PROVE LInv'
<1>1. try_connect(tasks[t].group)
  BY DEF Connect
<1>2. PICK pid \in DOMAIN tasks : pid = tasks[t].group
  BY DEF LInv, IInv, TasksFine, TaskFine
<1>3. fate'.is # "captured"
  <2>1. fate' = Undecided \/ Silence(tasks[t].group, TRUE)
    BY <1>1 DEF try_connect
  <2>2. QED
    BY <2>1 DEF Silence, Undecided
<1>4. UNCHANGED EVENTS \/ Emit(Event(pid, "net", "", "", ""))
  BY <1>1, <1>2 DEF try_connect
<1>5. QED
  BY <1>3, <1>4, ConnectHolds, ReportKnown DEF Connect, LInv

LEMMA LineStands ==
  ASSUME LInv, NEW F, LineUp(F), Intact(F)
  PROVE  Standing(F)
BY DEF LInv, Standing, Intact

LEMMA SeedKnown == ASSUME LInv, Seed  PROVE LInv'
<1> DEFINE listed == [t \in DOMAIN tasks |-> t \in Live \cap Processes]
           n      == SeedMuted(normalizer, listed, Proc)
<1>1. listed \in Seq(BOOLEAN) /\ DOMAIN listed = DOMAIN tasks
  <2>1. PICK m \in Nat : DOMAIN tasks = 1..m
    BY DEF LInv, IInv, TasksFine, TasksTyped
  <2>2. \A t \in DOMAIN tasks : (t \in Live \cap Processes) \in BOOLEAN
    OBVIOUS
  <2>3. QED
    BY <2>1
<1>2. n \in Sound
  BY <1>1, SeedSound DEF LInv, IInv
<1>3. /\ IInv' /\ Lined' /\ Advances
  BY SeedHolds, StillLined DEF LInv, Seed
<1>4. /\ EVENTS = <<>> /\ EVENTS' = <<>> /\ DOMAIN normalizer.procs = {} /\ pc' # "seed"
      /\ fate' = Undecided /\ UNCHANGED <<tasks, PID_PARENT, unseen>>
      /\ normalizer' = Taken(n)
  BY DEF Seed, LInv
<1> HIDE DEF listed
<1>5. normalizer'.procs = n.procs
  <2> HIDE DEF n
  <2>1. QED
    BY <1>2, <1>4 DEF Taken, Sound
<1>6. ASSUME NEW t \in DOMAIN tasks', Intact(tasks[t].started)'
      PROVE  Known(tasks[t].started, EVENTS, normalizer.procs, Len(EVENTS))'
  <2>1. PICK F, procs : F = tasks[t].started /\ procs = normalizer'.procs
    OBVIOUS
  <2>2. Intact(F) /\ F # {}
    BY <1>4, <1>6, <2>1 DEF Intact, Live
  <2>3. LineUp(F)
    BY <1>4, <2>1, <2>2 DEF LInv, Lined, TaskLined
  <2>4. Standing(F)
    BY <2>2, <2>3, LineStands
  <2>5. normalizer \in Keeps(F, F)
    BY <1>4 DEF Keeps, LInv, IInv
  <2>6. n \in Keeps(F, F)
    BY <1>1, <2>4, <2>5, SeedKeeps
  <2> HIDE DEF n
  <2>7. \A c \in F : c \in DOMAIN procs => GoodInfo(F, c, procs[c])
    BY <1>5, <2>1, <2>6 DEF Keeps
  <2>8. Known(F, <<>>, procs, 0)'
    BY <2>7 DEF Known, GoodInfo
  <2>9. QED
    BY <1>4, <2>1, <2>8
<1>7. LinesKnown' /\ EventsKnown'
  BY <1>4, <1>6 DEF LinesKnown, EventsKnown
<1>8. OnlyOrphansLeak'
  BY <1>4 DEF OnlyOrphansLeak, Undecided
<1>9. QED
  BY <1>3, <1>4, <1>7, <1>8 DEF LInv

\* A step of the loader that leaves the ring and the table as they were.
LEMMA LoaderKnown ==
  ASSUME LInv, IInv', normalizer'.procs = normalizer.procs, fate' = Undecided,
         UNCHANGED <<tasks, PID_PARENT, EVENTS, unseen>>, pc' # "seed"
  PROVE  LInv'
<1>1. Lined' /\ Advances
  BY StillLined DEF LInv
<1>2. LinesKnown' /\ EventsKnown'
  BY <1>1, HostKnown
<1>3. OnlyOrphansLeak'
  BY DEF OnlyOrphansLeak, Undecided
<1>4. QED
  BY <1>1, <1>2, <1>3 DEF LInv

LEMMA AttachKnown == ASSUME LInv, AttachFork \/ AttachRest  PROVE LInv'
<1>1. /\ fate' = Undecided /\ UNCHANGED <<tasks, PID_PARENT, EVENTS, unseen>>
      /\ normalizer' = normalizer /\ pc' # "seed"
  BY DEF AttachFork, AttachRest
<1>2. IInv'
  BY NextHolds DEF Next, Loader, LInv
<1>3. QED
  BY <1>1, <1>2, LoaderKnown

LEMMA PushKnown == ASSUME LInv, Push  PROVE LInv'
<1>1. /\ fate' = Undecided /\ UNCHANGED <<tasks, PID_PARENT, EVENTS, unseen>>
      /\ normalizer' = Taken(normalizer) /\ pc' # "seed"
  BY DEF Push
<1>2. IInv'
  BY NextHolds DEF Next, Loader, LInv
<1>3. normalizer'.procs = normalizer.procs
  BY <1>1 DEF Taken, Sound, LInv, IInv
<1>4. QED
  BY <1>1, <1>2, <1>3, LoaderKnown

\* The normalizer takes the first event out of the ring: what it learns of it
\* makes up for the event's leaving.
LEMMA KnownTaken ==
  ASSUME NEW F, Standing(F), NEW ev \in Seq(Fine), ev # <<>>, NEW k \in 1..Len(ev),
         NEW n \in Sound, Known(F, ev, n.procs, k), NEW e, e = Head(ev),
         NEW r, r = Normalize(n, e, Proc)
  PROVE  /\ Known(F, Tail(ev), r.n.procs, k - 1)
         /\ k = 1 /\ e.pid \in F /\ Cardinality(F) <= MUTE_DEPTH => r.line = NoLine
<1> DEFINE C    == {c \in F : \A i \in 2..k : ~ExecAt(ev, c, i)}
           D    == IF e.kind = "exec" THEN C \ {e.pid} ELSE C
           rest == Tail(ev)
<1>1. e \in Fine /\ ev[1] = e /\ k \in Nat /\ k >= 1
  <2> HIDE DEF Fine
  <2>1. QED
    OBVIOUS
<1>2. \A i \in 1..(k - 1) : rest[i] = ev[i + 1] /\ i + 1 \in 2..k
  <2> HIDE DEF Fine
  <2>1. QED
    OBVIOUS
<1>3. e.kind = "exec" /\ e.pid \in C => GoodExec(F, e.pid, e) /\ tasks[e.pid].group = e.pid
  <2>1. \A j \in (1 + 1)..k : j \in 2..k
    OBVIOUS
  <2>2. 1 \in 1..k
    BY <1>1
  <2>3. QED
    BY <1>1, <2>1, <2>2 DEF Known, ExecAt
<1>4. n \in Keeps(F, D)
  <2>1. ASSUME NEW c \in D, c \in DOMAIN n.procs  PROVE GoodInfo(F, c, n.procs[c])
    <3>1. c \in F /\ \A i \in 2..k : ~ExecAt(ev, c, i)
      OBVIOUS
    <3>2. ~ExecAt(ev, c, 1)
      BY <1>1 DEF ExecAt
    <3>3. \A i \in 1..k : i = 1 \/ i \in 2..k
      BY <1>1
    <3>4. QED
      BY <2>1, <3>1, <3>2, <3>3 DEF Known
  <2>2. QED
    BY <2>1 DEF Keeps
<1>5. C \in SUBSET F
  OBVIOUS
<1>6. k = 1 => C = F
  OBVIOUS
<1> HIDE DEF D
<1>7. n \in Keeps(F, IF e.kind = "exec" THEN C \ {e.pid} ELSE C)
  BY <1>4 DEF D
<1> HIDE DEF C, rest, Fine
<1>8. /\ r.n \in Keeps(F, C)
      /\ C = F /\ e.pid \in F /\ Cardinality(F) <= MUTE_DEPTH => r.line = NoLine
  BY <1>1, <1>3, <1>5, <1>7, NormalizeKeeps
<1>9. ASSUME NEW c \in F, NEW i \in 1..(k - 1), ExecAt(rest, c, i),
             \A j \in (i + 1)..(k - 1) : ~ExecAt(rest, c, j)
      PROVE  GoodExec(F, c, rest[i]) /\ tasks[c].group = c
  <2>1. i + 1 \in 1..k /\ rest[i] = ev[i + 1] /\ ExecAt(ev, c, i + 1)
    BY <1>1, <1>2, <1>9 DEF ExecAt
  <2>2. ASSUME NEW j \in (i + 1 + 1)..k  PROVE ~ExecAt(ev, c, j)
    <3>1. j - 1 \in (i + 1)..(k - 1) /\ j - 1 \in 1..(k - 1) /\ (j - 1) + 1 = j
      BY <1>1
    <3>2. QED
      BY <1>2, <1>9, <3>1 DEF ExecAt
  <2>3. QED
    BY <2>1, <2>2 DEF Known
<1>10. ASSUME NEW c \in F, \A i \in 1..(k - 1) : ~ExecAt(rest, c, i), c \in DOMAIN r.n.procs
       PROVE  GoodInfo(F, c, r.n.procs[c])
  <2>1. ASSUME NEW j \in 2..k  PROVE ~ExecAt(ev, c, j)
    <3>1. j - 1 \in 1..(k - 1) /\ (j - 1) + 1 = j
      BY <1>1
    <3>2. QED
      BY <1>2, <1>10, <3>1 DEF ExecAt
  <2>2. c \in C
    BY <2>1 DEF C
  <2>3. QED
    BY <1>8, <1>10, <2>2 DEF Keeps
<1>11. Known(F, rest, r.n.procs, k - 1)
  BY <1>9, <1>10 DEF Known
<1>12. QED
  BY <1>6, <1>8, <1>11 DEF rest

LEMMA DrainKnown == ASSUME LInv, Drain  PROVE LInv'
<1>1. IInv' /\ Lined' /\ Advances
  BY DrainHolds, StillLined DEF LInv, Drain
<1>2. PICK e, n, ev, r : /\ e = Head(EVENTS) /\ n = normalizer /\ ev = EVENTS
                         /\ r = Normalize(n, e, Proc)
  OBVIOUS
<1>3. /\ ev \in Seq(Fine) /\ ev # <<>> /\ n \in Sound
      /\ EVENTS' = Tail(ev) /\ normalizer' = r.n /\ pc' # "seed"
      /\ UNCHANGED <<tasks, PID_PARENT, unseen>>
  BY <1>2 DEF LInv, IInv, Drain
<1>4. /\ Len(ev) \in Nat \ {0} /\ Len(Tail(ev)) = Len(ev) - 1 /\ e = ev[1]
      /\ \A j \in 1..Len(Tail(ev)) : Tail(ev)[j] = ev[j + 1] /\ j + 1 \in 1..Len(ev)
  BY <1>2, <1>3
<1>5. ASSUME NEW F, NEW k \in 1..Len(ev), LineUp(F), Intact(F), Known(F, ev, n.procs, k)
      PROVE  /\ Known(F, Tail(ev), r.n.procs, k - 1)
             /\ k = 1 /\ e.pid \in F /\ Cardinality(F) <= MUTE_DEPTH => r.line = NoLine
  <2>1. Standing(F)
    BY <1>5, LineStands
  <2>2. QED
    BY <1>2, <1>3, <1>5, <2>1, KnownTaken
<1>6. ASSUME NEW F  PROVE /\ Intact(F)' <=> Intact(F)
                          /\ LineUp(F) => LineUp(F)'
  BY <1>1, <1>3, LineStays DEF Intact, Live, LInv
<1>7. ASSUME NEW F, F \subseteq DOMAIN tasks, NEW k, Known(F, Tail(ev), r.n.procs, k)
      PROVE  Known(F, Tail(ev), r.n.procs, k)'
  BY <1>1, <1>7, KnownOn
<1>8. ASSUME NEW t \in DOMAIN tasks', Intact(tasks[t].started)'
      PROVE  Known(tasks[t].started, EVENTS, normalizer.procs, Len(EVENTS))'
  <2>1. PICK F : F = tasks[t].started
    OBVIOUS
  <2>2. Intact(F)
    BY <1>3, <1>6, <1>8, <2>1
  <2>3. LineUp(F) /\ F \subseteq DOMAIN tasks /\ Known(F, ev, n.procs, Len(ev))
    BY <1>2, <1>3, <2>1, <2>2 DEF Intact, LInv, Lined, TaskLined, LineUp, LinesKnown
  <2>4. Known(F, Tail(ev), r.n.procs, Len(ev) - 1)
    BY <1>4, <1>5, <2>2, <2>3
  <2>5. QED
    BY <1>3, <1>4, <1>7, <2>1, <2>3, <2>4
<1>9. LinesKnown'
  BY <1>8 DEF LinesKnown
<1>10. ASSUME NEW j \in 1..Len(EVENTS')  PROVE EventKnown(j)'
  <2>1. PICK F : F = ev[j + 1].from
    OBVIOUS
  <2>2. j + 1 \in 1..Len(ev) /\ EVENTS'[j] = ev[j + 1] /\ j + 1 - 1 = j
    BY <1>3, <1>4
  <2>3. EventKnown(j + 1)
    BY <1>2, <2>2 DEF LInv, EventsKnown
  <2>4. /\ F # {} => ev[j + 1].pid \in F /\ LineUp(F)
        /\ Intact(F) => Known(F, ev, n.procs, j + 1)
    BY <1>2, <2>1, <2>3 DEF EventKnown
  <2>5. ASSUME Intact(F)'  PROVE Known(F, Tail(ev), r.n.procs, j)'
    <3>1. Intact(F)
      BY <1>6, <2>5
    <3>2. LineUp(F) /\ F \subseteq DOMAIN tasks /\ Known(F, ev, n.procs, j + 1)
      BY <2>4, <3>1 DEF Intact, LineUp
    <3>3. Known(F, Tail(ev), r.n.procs, j)
      BY <1>5, <2>2, <3>1, <3>2
    <3>4. QED
      BY <1>7, <3>2, <3>3
  <2>6. QED
    BY <1>3, <1>6, <2>1, <2>2, <2>4, <2>5 DEF EventKnown
<1>11. EventsKnown'
  BY <1>10 DEF EventsKnown
<1>12. OnlyOrphansLeak'
  <2>1. fate' = IF r.line = NoLine
                THEN [is |-> "silenced", pid |-> e.pid,
                      watched |-> e.kind # "file" \/ e.reason = "secret_read"
                                                  \/ e.path \in {"plain", "secret"}]
                ELSE [is |-> "captured", line |-> r.line, from |-> e.from]
    BY <1>2 DEF Drain
  <2>2. SUFFICES ASSUME fate'.is = "captured", fate'.from # {}
                 PROVE  \/ fate'.from \cap unseen # {}
                        \/ \E t \in fate'.from : t \notin Live \/ tasks[t].left
                        \/ Cardinality(fate'.from) > MUTE_DEPTH
    BY <1>3 DEF OnlyOrphansLeak, Live
  <2>3. r.line # NoLine /\ fate'.from = e.from
    BY <2>1, <2>2
  <2>4. PICK F : F = e.from
    OBVIOUS
  <2>5. 1 \in 1..Len(ev)
    BY <1>4
  <2>6. EventKnown(1)
    BY <1>2, <2>5 DEF LInv, EventsKnown
  <2>7. /\ F # {} => e.pid \in F /\ LineUp(F)
        /\ Intact(F) => Known(F, ev, n.procs, 1)
    BY <1>2, <1>4, <2>4, <2>6 DEF EventKnown
  <2>8. SUFFICES ASSUME Intact(F)  PROVE Cardinality(F) > MUTE_DEPTH
    BY <2>2, <2>3, <2>4 DEF Intact
  <2>9. LineUp(F) /\ e.pid \in F /\ Known(F, ev, n.procs, 1)
    BY <2>2, <2>3, <2>4, <2>7, <2>8
  <2>10. ~(Cardinality(F) <= MUTE_DEPTH)
    BY <1>5, <2>3, <2>5, <2>8, <2>9
  <2>11. Cardinality(F) \in Nat
    BY <2>8, <2>9, LineStands, LineIsFinite
  <2>12. QED
    BY <2>10, <2>11, NormalizerAssumption
<1>13. QED
  BY <1>1, <1>3, <1>9, <1>11, <1>12 DEF LInv

LEMMA InitKnown == ASSUME Init  PROVE LInv
<1>1. IInv /\ Lined
  BY InitHolds, InitLined DEF Init
<1>2. /\ PID_PARENT = <<>> /\ pc = "seed" /\ EVENTS = <<>> /\ probes = "none"
      /\ DOMAIN normalizer.procs = {} /\ fate = Undecided
  BY DEF Init, New
<1>3. \A t \in DOMAIN tasks : tasks[t].started = {}
  BY DEF Init, TasksInit
<1>4. LinesKnown
  BY <1>3 DEF LinesKnown, Intact
<1>5. EventsKnown
  BY <1>2 DEF EventsKnown
<1>6. OnlyOrphansLeak
  BY <1>2 DEF OnlyOrphansLeak, Undecided
<1>7. QED
  BY <1>1, <1>2, <1>4, <1>5, <1>6 DEF LInv

LEMMA StutterKnown == ASSUME LInv, UNCHANGED vars  PROVE LInv'
<1>1. /\ UNCHANGED <<tasks, probes, PID_PARENT, EVENTS, pc, unseen, fate>>
      /\ normalizer' = normalizer
  BY DEF vars
<1>2. IInv' /\ Lined' /\ Advances
  BY NextHolds, StillLined, <1>1 DEF LInv
<1>3. LinesKnown' /\ EventsKnown'
  BY <1>1, <1>2, HostKnown
<1>4. OnlyOrphansLeak'
  BY <1>1 DEF LInv, OnlyOrphansLeak, Live
<1>5. QED
  BY <1>1, <1>2, <1>3, <1>4 DEF LInv

\* Wherever the host and the loader are, what is known of every line that is
\* intact leads up it to its tool (normalize.rs:297-334).
THEOREM LinesLead == Spec => []LInv
<1>1. ASSUME LInv, [Next]_vars  PROVE LInv'
  <2>1. CASE Host
    BY <1>1, <2>1, ForkKnown, ExecKnown, LeaveKnown, OpenKnown, ConnectKnown DEF Host
  <2>2. CASE Loader
    BY <1>1, <2>2, SeedKnown, AttachKnown, DrainKnown, PushKnown DEF Loader
  <2>3. CASE UNCHANGED vars
    BY <1>1, <2>3, StutterKnown
  <2>4. QED
    BY <1>1, <2>1, <2>2, <2>3 DEF Next
<1>2. QED
  BY <1>1, InitKnown, PTL DEF Spec

\* While everything between a process and the tool that started it is alive,
\* the probes saw its tools start, none of them has loaded another program and
\* it is no deeper than the walk goes, nothing of it is captured: at any point
\* of the start-up or of the drain,
\* for every host, and whatever the ring and the maps dropped, evicted or
\* refused (normalize.rs:66-69, normalize.rs:297-334).
THEOREM OnlyOrphans == Spec => []OnlyOrphansLeak
<1>1. LInv => OnlyOrphansLeak
  BY DEF LInv
<1>2. QED
  BY <1>1, LinesLead, PTL

-----------------------------------------------------------------------------
(* The bounds of the normalizer's tables.                                  *)

\* Order lists the table's entries, once each, and the tables keep their bounds.
Listed(procs, order) ==
  /\ ToSet(order) = DOMAIN procs /\ IsInjective(order) /\ Len(order) <= PROC_CACHE_CAP

Tidy == {n \in Sound : Listed(n.procs, n.order) /\ Cardinality(n.muted) <= MUTED_CACHE_CAP}

LEMMA EarnedFinite ==
  ASSUME TasksFine
  PROVE  /\ IsFiniteSet(DOMAIN tasks)
         /\ \A m \in SUBSET Earned : IsFiniteSet(m) /\ Cardinality(m) \in Nat
<1>1. PICK n \in Nat : DOMAIN tasks = 1..n
  BY DEF TasksFine, TasksTyped
<1>2. IsFiniteSet(DOMAIN tasks)
  BY <1>1, FS_Interval
<1>3. \A m \in SUBSET Earned : m \subseteq DOMAIN tasks
  BY DEF Earned
<1>4. QED
  BY <1>2, <1>3, FS_Subset, FS_CardinalityType

\* A queue of distinct elements takes a new one, and loses its first.
LEMMA QueueGains ==
  ASSUME NEW T, NEW o \in Seq(T), IsInjective(o), NEW x \in T, x \notin ToSet(o)
  PROVE  /\ IsInjective(Append(o, x)) /\ ToSet(Append(o, x)) = ToSet(o) \cup {x}
         /\ Len(Append(o, x)) = Len(o) + 1
<1>1. PICK a : a = Append(o, x)
  OBVIOUS
<1>2. /\ Len(o) \in Nat /\ DOMAIN o = 1..Len(o) /\ DOMAIN a = 1..(Len(o) + 1)
      /\ a[Len(o) + 1] = x /\ \A i \in 1..Len(o) : a[i] = o[i]
      /\ Len(a) = Len(o) + 1
  BY <1>1
<1>3. \A i \in DOMAIN a : i \in DOMAIN o \/ i = Len(o) + 1
  BY <1>2
<1>4. \A i \in DOMAIN o : i \in DOMAIN a /\ o[i] \in ToSet(o) /\ a[i] = o[i]
  BY <1>2 DEF ToSet
<1>5. Len(o) + 1 \in DOMAIN a
  BY <1>2
<1>6. IsInjective(a)
  <2> SUFFICES ASSUME NEW i \in DOMAIN a, NEW j \in DOMAIN a, a[i] = a[j]  PROVE i = j
    BY DEF IsInjective
  <2>1. QED
    BY <1>2, <1>3, <1>4 DEF IsInjective
<1>7. ToSet(a) = ToSet(o) \cup {x}
  BY <1>2, <1>3, <1>4, <1>5 DEF ToSet
<1>8. QED
  BY <1>1, <1>2, <1>6, <1>7

LEMMA QueueLoses ==
  ASSUME NEW T, NEW o \in Seq(T), IsInjective(o), o # <<>>
  PROVE  /\ Tail(o) \in Seq(T) /\ IsInjective(Tail(o)) /\ ToSet(Tail(o)) = ToSet(o) \ {Head(o)}
         /\ Len(Tail(o)) = Len(o) - 1
<1>1. PICK a : a = Tail(o)
  OBVIOUS
<1>2. /\ Len(o) \in Nat \ {0} /\ DOMAIN o = 1..Len(o) /\ DOMAIN a = 1..(Len(o) - 1)
      /\ Head(o) = o[1] /\ \A i \in 1..(Len(o) - 1) : a[i] = o[i + 1]
      /\ Len(a) = Len(o) - 1 /\ a \in Seq(T)
  BY <1>1
<1>3. IsInjective(a)
  <2> SUFFICES ASSUME NEW i \in DOMAIN a, NEW j \in DOMAIN a, a[i] = a[j]  PROVE i = j
    BY DEF IsInjective
  <2>1. i + 1 \in DOMAIN o /\ j + 1 \in DOMAIN o /\ o[i + 1] = o[j + 1] /\ i \in Nat /\ j \in Nat
    BY <1>2
  <2>2. i + 1 = j + 1
    BY <2>1 DEF IsInjective
  <2>3. QED
    BY <2>1, <2>2
<1>4. ASSUME NEW x \in ToSet(a)  PROVE x \in ToSet(o) \ {Head(o)}
  <2>1. PICK i \in DOMAIN a : x = a[i]
    BY DEF ToSet
  <2>2. i + 1 \in DOMAIN o /\ x = o[i + 1] /\ i + 1 # 1 /\ 1 \in DOMAIN o
    BY <1>2, <2>1
  <2>3. QED
    BY <1>2, <2>2 DEF ToSet, IsInjective
<1>5. ASSUME NEW x \in ToSet(o) \ {Head(o)}  PROVE x \in ToSet(a)
  <2>1. PICK i \in DOMAIN o : x = o[i]
    BY DEF ToSet
  <2>2. i - 1 \in DOMAIN a /\ x = a[i - 1]
    <3>1. i # 1 /\ i \in 1..Len(o)
      BY <1>2, <2>1
    <3>2. i - 1 \in 1..(Len(o) - 1) /\ (i - 1) + 1 = i
      BY <1>2, <3>1
    <3>3. QED
      BY <1>2, <2>1, <3>2
  <2>3. QED
    BY <2>2 DEF ToSet
<1>6. ToSet(a) = ToSet(o) \ {Head(o)}
  BY <1>4, <1>5
<1>7. QED
  BY <1>1, <1>2, <1>3, <1>6

LEMMA InsertTidy ==
  ASSUME NEW n \in Tidy, NEW pid \in Nat, NEW info \in Info, InfoFine(pid, info)
  PROVE  Insert(n, pid, info) \in Tidy
<1> DEFINE seen == pid \in DOMAIN n.procs
           full == ~seen /\ Len(n.order) = PROC_CACHE_CAP
           kept == IF full THEN DOMAIN n.procs \ {Head(n.order)} ELSE DOMAIN n.procs
           o == CASE seen -> n.order
                  [] ~seen /\ full  -> Append(Tail(n.order), pid)
                  [] ~seen /\ ~full -> Append(n.order, pid)
<1>1. /\ n \in Sound /\ n.order \in Seq(Nat) /\ Len(n.order) \in Nat
      /\ ToSet(n.order) = DOMAIN n.procs /\ IsInjective(n.order)
      /\ Len(n.order) <= PROC_CACHE_CAP /\ Cardinality(n.muted) <= MUTED_CACHE_CAP
      /\ PROC_CACHE_CAP \in Nat \ {0}
  BY SoundParts, NormalizerAssumption DEF Tidy, Listed
<1>2. PICK m : m = Insert(n, pid, info)
  OBVIOUS
<1>3. m \in Sound
  BY <1>1, <1>2, InsertSound
<1>4. m.order = o /\ m.muted = n.muted /\ DOMAIN m.procs = kept \cup {pid}
  BY <1>1, <1>2 DEF Insert, Sound
<1>5. Cardinality(m.muted) <= MUTED_CACHE_CAP
  BY <1>1, <1>4
<1>6. ASSUME seen
      PROVE  Listed(m.procs, m.order)
  <2>1. o = n.order /\ kept \cup {pid} = DOMAIN n.procs
    BY <1>6
  <2> HIDE DEF o, kept
  <2>2. QED
    BY <1>1, <1>4, <2>1 DEF Listed
<1>7. ASSUME full
      PROVE  Listed(m.procs, m.order)
  <2>1. o = Append(Tail(n.order), pid) /\ kept = DOMAIN n.procs \ {Head(n.order)}
        /\ n.order # <<>> /\ pid \notin ToSet(n.order)
    BY <1>1, <1>7
  <2>2. PICK tail : tail = Tail(n.order)
    OBVIOUS
  <2> HIDE DEF o, kept
  <2>3. /\ tail \in Seq(Nat) /\ IsInjective(tail) /\ ToSet(tail) = kept
        /\ Len(tail) = Len(n.order) - 1
    BY <1>1, <2>1, <2>2, QueueLoses
  <2>4. pid \notin ToSet(tail)
    BY <1>1, <2>1, <2>3
  <2>5. IsInjective(o) /\ ToSet(o) = kept \cup {pid} /\ Len(o) = Len(tail) + 1
    <3>1. o = Append(tail, pid)
      BY <2>1, <2>2
    <3>2. QED
      BY <2>3, <2>4, <3>1, QueueGains
  <2>6. Len(o) <= PROC_CACHE_CAP
    BY <1>1, <2>3, <2>5
  <2>7. QED
    BY <1>4, <2>5, <2>6 DEF Listed
<1>8. ASSUME ~seen /\ ~full
      PROVE  Listed(m.procs, m.order)
  <2>1. o = Append(n.order, pid) /\ kept = DOMAIN n.procs /\ pid \notin ToSet(n.order)
        /\ Len(n.order) # PROC_CACHE_CAP
    BY <1>1, <1>8
  <2> HIDE DEF o, kept
  <2>2. IsInjective(o) /\ ToSet(o) = kept \cup {pid} /\ Len(o) = Len(n.order) + 1
    BY <1>1, <2>1, QueueGains
  <2>3. Len(o) <= PROC_CACHE_CAP
    BY <1>1, <2>1, <2>2
  <2>4. QED
    BY <1>4, <2>2, <2>3 DEF Listed
<1> HIDE DEF seen, full
<1>9. Listed(m.procs, m.order)
  BY <1>6, <1>7, <1>8
<1>10. m \in Tidy
  BY <1>3, <1>5, <1>9 DEF Tidy
<1>11. QED
  BY <1>2, <1>10

LEMMA TidyClosed ==
  ASSUME TasksFine
  PROVE  Tidy \in SUBSET Sound /\ \A n \in Tidy : \A p : Get(n, p, Proc) \in Tidy
<1>1. ASSUME NEW n \in Tidy, NEW p  PROVE Get(n, p, Proc) \in Tidy
  <2>1. CASE p \notin DOMAIN n.procs /\ p \in DOMAIN Proc
    BY <2>1, ProcShows, InsertTidy DEF Get
  <2>2. CASE ~(p \notin DOMAIN n.procs /\ p \in DOMAIN Proc)
    BY <2>2 DEF Get
  <2>3. QED
    BY <2>1, <2>2
<1>2. QED
  BY <1>1 DEF Tidy

LEMMA VerdictTidy ==
  ASSUME TasksFine, NEW n \in Tidy, NEW pid \in DOMAIN tasks, NEW fresh \in BOOLEAN
  PROVE  IsMuted(n, pid, fresh, Proc).n \in Tidy
<1> DEFINE stale  == [n EXCEPT !.muted = IF fresh THEN @ \ {pid} ELSE @]
           walked == MuteWalk(stale, pid, Proc)
           w      == walked.n
           full   == Cardinality(w.muted) >= MUTED_CACHE_CAP
           cached == [w EXCEPT !.muted = {pid} \cup IF full THEN {} ELSE @,
                               !.newly_muted = Append(@, pid)]
           r      == IsMuted(n, pid, fresh, Proc)
<1>0. n \in Sound /\ Listed(n.procs, n.order) /\ Cardinality(n.muted) <= MUTED_CACHE_CAP
      /\ MUTED_CACHE_CAP \in Nat \ {0}
  BY NormalizerAssumption DEF Tidy
<1>1. stale \in Tidy
  <2>1. /\ stale \in Sound /\ stale.procs = n.procs /\ stale.order = n.order
        /\ stale.muted \in SUBSET n.muted
    BY <1>0, SoundParts DEF Sound
  <2>2. n.muted \in SUBSET Earned /\ stale.muted \in SUBSET Earned
    BY <1>0, <2>1, SoundParts
  <2>3. PICK a, b : a = n.muted /\ b = stale.muted
    OBVIOUS
  <2> HIDE DEF stale
  <2>4. IsFiniteSet(a) /\ Cardinality(a) \in Nat /\ Cardinality(b) \in Nat
    BY <2>2, <2>3, EarnedFinite
  <2>5. Cardinality(b) <= Cardinality(a)
    BY <2>1, <2>3, <2>4, FS_Subset
  <2>6. Cardinality(b) <= MUTED_CACHE_CAP
    BY <1>0, <2>3, <2>4, <2>5
  <2>7. QED
    BY <1>0, <2>1, <2>3, <2>6 DEF Tidy
<1>2. w \in Tidy
  BY <1>1, TidyClosed, WalkWithin
<1>3. r.n \in Sound
  BY <1>0, VerdictEarned
<1>4. r.n \in {n, cached, w}
  <2>1. r \in {[n |-> n, found |-> FALSE], [n |-> n, found |-> TRUE],
               [found |-> walked.found, n |-> IF walked.found THEN cached ELSE w]}
    BY DEF IsMuted
  <2> HIDE DEF walked, cached, r
  <2>2. QED
    BY <2>1
<1> HIDE DEF r, walked
<1>5. w \in Sound /\ Listed(w.procs, w.order) /\ w.muted \in SUBSET Earned
      /\ Cardinality(w.muted) <= MUTED_CACHE_CAP
  BY <1>2, SoundParts DEF Tidy
<1> HIDE DEF w
<1>6. cached.procs = w.procs /\ cached.order = w.order
      /\ cached.muted = {pid} \cup IF full THEN {} ELSE w.muted
  BY <1>5 DEF Sound
<1>7. Cardinality(cached.muted) <= MUTED_CACHE_CAP
  <2>1. CASE full
    <3>1. cached.muted = {pid}
      BY <1>6, <2>1
    <3>2. Cardinality({pid}) = 1
      BY FS_Singleton
    <3>3. QED
      BY <1>0, <3>1, <3>2
  <2>2. CASE ~full
    <3>1. cached.muted = w.muted \cup {pid}
      BY <1>6, <2>2
    <3>2. IsFiniteSet(w.muted) /\ Cardinality(w.muted) \in Nat
      BY <1>5, EarnedFinite
    <3>3. Cardinality(w.muted \cup {pid}) \in {Cardinality(w.muted), Cardinality(w.muted) + 1}
      BY <3>2, FS_AddElement
    <3>4. Cardinality(w.muted) < MUTED_CACHE_CAP
      BY <1>0, <2>2, <3>2
    <3>5. QED
      BY <1>0, <3>1, <3>2, <3>3, <3>4
  <2>3. QED
    BY <2>1, <2>2
<1> HIDE DEF cached
<1>8. PICK a : a = r.n
  OBVIOUS
<1>9. Listed(a.procs, a.order) /\ Cardinality(a.muted) <= MUTED_CACHE_CAP
  BY <1>0, <1>4, <1>5, <1>6, <1>7, <1>8
<1>10. a \in Tidy
  BY <1>3, <1>8, <1>9 DEF Tidy
<1>11. QED
  BY <1>8, <1>10 DEF r

LEMMA SeedTidy ==
  ASSUME TasksFine, NEW m \in Tidy, NEW listed \in Seq(BOOLEAN), DOMAIN listed = DOMAIN tasks
  PROVE  SeedMuted(m, listed, Proc) \in Tidy
<1> DEFINE n == Len(listed)
<1>1. n \in Nat /\ DOMAIN tasks = 1..n /\ m \in Sound
  BY DEF Tidy
<1>2. PICK seeded \in [0..n -> Sound] :
        /\ seeded[0] = m
        /\ \A pid \in 1..n : seeded[pid] = SeedRound(seeded[pid - 1], pid, listed, Proc)
        /\ SeedMuted(m, listed, Proc) = seeded[n]
  BY <1>1, SeedRuns
<1> HIDE DEF n
<1>3. ASSUME NEW pid \in 1..n, seeded[pid - 1] \in Tidy  PROVE seeded[pid] \in Tidy
  BY <1>1, <1>2, <1>3, VerdictTidy DEF SeedRound
<1>4. \A pid \in 0..n : seeded[pid] \in Tidy
  BY <1>1, <1>2, <1>3, LoopStays
<1>5. QED
  BY <1>1, <1>2, <1>4

LEMMA RecordedTidy ==
  ASSUME TasksFine, NEW n \in Tidy, NEW e \in Fine
  PROVE  Recorded(n, e, Proc).n \in Tidy
<1> DEFINE got  == Get(n, e.pid, Proc)
           ppid == IF e.ppid = 0 /\ e.pid \in DOMAIN got.procs
                   THEN got.procs[e.pid].ppid ELSE e.ppid
           up   == Ancestry(got, ppid, Proc)
<1>1. e.ppid \in Nat /\ (e.ppid # 0 => Up(e.ppid, e.pid))
  BY DEF Fine, EventFine
<1>2. Recorded(n, e, Proc).n = up.n
  BY DEF Recorded
<1>3. got \in Tidy /\ got \in Sound
  BY TidyClosed DEF Tidy
<1> HIDE DEF got
<1>4. ppid \in Nat /\ (ppid # 0 => Up(ppid, e.pid))
  BY <1>1, <1>3, EntryTrue
<1> HIDE DEF ppid
<1>5. up.n \in Tidy
  BY <1>3, <1>4, TidyClosed, AncestryWithin
<1>6. QED
  BY <1>2, <1>5

LEMMA NormalizeTidy ==
  ASSUME TasksFine, NEW n \in Tidy, NEW e \in Fine
  PROVE  Normalize(n, e, Proc).n \in Tidy
<1> DEFINE r == Normalize(n, e, Proc)
           dropped(m) == [n |-> m, line |-> NoLine]
<1>1. e.pid \in DOMAIN tasks /\ e.pid \in Nat
  BY TaskIds DEF Fine, EventFine
<1>2. CASE e.kind = "exec"
  <2> DEFINE mute == IsMuted(Insert(n, e.pid, ExecInfo(e)), e.pid, TRUE, Proc)
  <2>1. r = IF mute.found THEN dropped(mute.n) ELSE Recorded(mute.n, e, Proc)
    BY <1>2 DEF Normalize, NormalizeExec, Dropped, ExecInfo
  <2>2. mute.n \in Tidy
    BY <1>1, <1>2, ExecInfoFine, InsertTidy, VerdictTidy
  <2> HIDE DEF mute, r
  <2>3. r.n \in {mute.n, Recorded(mute.n, e, Proc).n}
    BY <2>1
  <2>4. QED
    BY <2>2, <2>3, RecordedTidy DEF r
<1>3. CASE e.kind # "exec"
  <2> DEFINE mute  == IsMuted(n, e.pid, FALSE, Proc)
             churn == e.kind = "file" /\ e.reason # "secret_read" /\ IsNoise(e, Proc)
  <2>1. r = IF mute.found \/ churn THEN dropped(mute.n) ELSE Recorded(mute.n, e, Proc)
    BY <1>3 DEF Normalize, NormalizeOther, Dropped
  <2>2. mute.n \in Tidy
    BY <1>1, VerdictTidy
  <2> HIDE DEF mute, r, churn
  <2>3. r.n \in {mute.n, Recorded(mute.n, e, Proc).n}
    BY <2>1
  <2>4. QED
    BY <2>2, <2>3, RecordedTidy DEF r
<1>4. QED
  BY <1>2, <1>3

-----------------------------------------------------------------------------
(* Types, and the bounds of the maps.                                      *)

LEMMA EmitTyped ==
  ASSUME LInv, TypeOK, NEW e, EVENTS' = EVENTS \/ Emit(e)
  PROVE  /\ Len(EVENTS') <= RING
         /\ \A i \in DOMAIN EVENTS' :
              (\E j \in DOMAIN EVENTS : EVENTS'[i] = EVENTS[j]) \/ EVENTS'[i] = e
<1>1. PICK ev, next : ev = EVENTS /\ next = EVENTS'
  OBVIOUS
<1>2. /\ ev \in Seq(Fine) /\ Len(ev) \in Nat /\ Len(ev) <= RING /\ RING \in Nat
      /\ next = ev \/ (Len(ev) < RING /\ next = Append(ev, e))
  BY <1>1, MutingAssumption DEF LInv, IInv, TypeOK, Emit
<1>3. CASE next = ev
  BY <1>1, <1>2, <1>3
<1>4. CASE Len(ev) < RING /\ next = Append(ev, e)
  <2>1. /\ Len(next) = Len(ev) + 1 /\ DOMAIN next = 1..(Len(ev) + 1) /\ DOMAIN ev = 1..Len(ev)
        /\ next[Len(ev) + 1] = e /\ \A i \in 1..Len(ev) : next[i] = ev[i]
    BY <1>2, <1>4
  <2>2. \A i \in DOMAIN next : i \in DOMAIN ev \/ i = Len(ev) + 1
    BY <1>2, <2>1
  <2>3. Len(next) <= RING
    <3>1. PICK k \in Nat : k = Len(ev)
      BY <1>2
    <3>2. k < RING /\ Len(next) = k + 1 /\ RING \in Nat
      BY <1>2, <1>4, <2>1, <3>1
    <3>3. QED
      BY <3>2
  <2>4. QED
    BY <1>1, <2>1, <2>2, <2>3
<1>5. QED
  BY <1>2, <1>3, <1>4

\* What a step may do to the maps, the ring and the normalizer.
LEMMA StaysTyped ==
  ASSUME LInv, LInv', TypeOK, Advances,
         probes' \in {"none", "fork", "all"},
         pc' \in {"seed", "attach_fork", "attach_rest", "drain", "push"},
         NEW u, NEW t, PID_PARENT' \in {PID_PARENT, Put(PID_PARENT, u, t)},
         NEW keys, MUTED' = MUTED \/ MUTED' \in Into(MUTED, keys),
         Len(EVENTS') <= RING,
         \A i \in DOMAIN EVENTS' :
           (\E j \in DOMAIN EVENTS : EVENTS'[i] = EVENTS[j]) \/ EVENTS'[i].pid \in Processes',
         NEW n \in Tidy, normalizer' \in {n, Taken(n)},
         unseen' \subseteq Processes', IsFate(fate)'
  PROVE  TypeOK'
<1>1. Processes \subseteq Processes'
  BY DEF Advances, Grows, Processes
<1>2. /\ DOMAIN PID_PARENT' \subseteq DOMAIN tasks'
      /\ \A c \in DOMAIN PID_PARENT' : PID_PARENT'[c] \in DOMAIN tasks'
  BY DEF LInv, IInv, LinksFine, Up
<1>3. Cardinality(DOMAIN PID_PARENT') <= PID_PARENT_MAX
  <2>1. PICK map : map = PID_PARENT
    OBVIOUS
  <2>2. Cardinality(DOMAIN map) <= PID_PARENT_MAX /\ DOMAIN map \subseteq DOMAIN tasks
    BY <2>1 DEF TypeOK
  <2>3. IsFiniteSet(DOMAIN map) /\ Cardinality(DOMAIN map) \in Nat
    BY <2>2, EarnedFinite, FS_Subset, FS_CardinalityType DEF LInv, IInv
  <2>4. CASE Put(map, u, t) # map
    <3>1. u \in DOMAIN map \/ Cardinality(DOMAIN map) < PID_PARENT_MAX
      BY <2>4 DEF Put
    <3>2. DOMAIN Put(map, u, t) = DOMAIN map \cup {u}
      BY <3>1 DEF Put
    <3>3. Cardinality(DOMAIN map \cup {u}) =
            IF u \in DOMAIN map THEN Cardinality(DOMAIN map) ELSE Cardinality(DOMAIN map) + 1
      BY <2>3, FS_AddElement
    <3>4. Cardinality(DOMAIN map \cup {u}) <= PID_PARENT_MAX
      BY <2>2, <2>3, <3>1, <3>3, MutingAssumption
    <3>5. QED
      BY <2>1, <2>2, <3>2, <3>4
  <2>5. QED
    BY <2>1, <2>2, <2>4
<1>4. MUTED' \subseteq DOMAIN tasks' /\ Cardinality(MUTED') <= MUTED_MAX
  <2>1. MUTED' \subseteq DOMAIN tasks'
    BY DEF LInv, IInv, Earned
  <2>2. Cardinality(MUTED) <= MUTED_MAX
    BY DEF TypeOK
  <2>3. CASE MUTED' \in Into(MUTED, keys)
    <3>1. PICK total : total = Cardinality(MUTED \cup keys)
      OBVIOUS
    <3>2. Cardinality(MUTED') = IF total <= MUTED_MAX THEN total ELSE MUTED_MAX
      BY <2>3, <3>1 DEF Into
    <3>3. MUTED_MAX <= MUTED_MAX
      BY MutingAssumption
    <3>4. QED
      BY <2>1, <3>2, <3>3
  <2>4. QED
    BY <2>1, <2>2, <2>3
<1>5. \A i \in DOMAIN EVENTS' : EVENTS'[i].pid \in Processes'
  BY <1>1 DEF TypeOK
<1>6. /\ ToSet(normalizer'.order) = DOMAIN normalizer'.procs
      /\ IsInjective(normalizer'.order) /\ Len(normalizer'.order) <= PROC_CACHE_CAP
      /\ Cardinality(normalizer'.muted) <= MUTED_CACHE_CAP
  <2>1. n \in Sound /\ Listed(n.procs, n.order) /\ Cardinality(n.muted) <= MUTED_CACHE_CAP
    BY DEF Tidy
  <2>2. /\ normalizer'.procs = n.procs /\ normalizer'.order = n.order
        /\ normalizer'.muted = n.muted
    BY <2>1 DEF Taken, Sound
  <2>3. QED
    BY <2>1, <2>2 DEF Listed
<1>7. /\ normalizer'.muted \subseteq DOMAIN tasks'
      /\ ToSet(normalizer'.newly_muted) \subseteq DOMAIN tasks'
  <2>1. PICK E, muted, newly : /\ E = Earned' /\ muted = normalizer'.muted
                               /\ newly = normalizer'.newly_muted
    OBVIOUS
  <2>2. muted \subseteq E /\ newly \in Seq(E)
    BY <2>1 DEF LInv, IInv, Sound
  <2>3. E \subseteq DOMAIN tasks'
    BY <2>1 DEF Earned
  <2>4. ToSet(newly) \subseteq E
    BY <2>2 DEF ToSet
  <2>5. QED
    BY <2>1, <2>2, <2>3, <2>4
<1>8. QED
  BY <1>2, <1>3, <1>4, <1>5, <1>6, <1>7 DEF TypeOK

LEMMA NormalizerTidy == ASSUME LInv, TypeOK  PROVE normalizer \in Tidy
BY DEF LInv, IInv, TypeOK, Tidy, Listed

LEMMA UndecidedTyped == ASSUME fate' = Undecided  PROVE IsFate(fate)'
BY DEF IsFate, Undecided

LEMMA SilenceTyped ==
  ASSUME NEW pid \in DOMAIN tasks', NEW watched \in BOOLEAN, Silence(pid, watched)
  PROVE  IsFate(fate)'
BY DEF Silence, IsFate

LEMMA ForkTyped == ASSUME LInv, TypeOK, NEW t \in DOMAIN tasks, Fork(t)  PROVE TypeOK'
<1>1. PICK thread \in BOOLEAN : Start(t, thread)
  BY MutingAssumption DEF Fork
<1>2. PICK u : u = NextTask
  OBVIOUS
<1>3. Advances /\ LInv'
  BY <1>1, <1>2, StartLined, ForkKnown DEF LInv
<1>4. /\ PID_PARENT' \in {PID_PARENT, Put(PID_PARENT, u, t)}
      /\ MUTED' = MUTED \/ MUTED' \in Into(MUTED, {u})
  BY <1>2 DEF Fork, try_fork
<1>5. /\ UNCHANGED <<probes, EVENTS, pc, normalizer, unseen>> /\ IsFate(fate)'
  BY UndecidedTyped DEF Fork
<1>6. unseen' \subseteq Processes'
  BY <1>3, <1>5 DEF TypeOK, Advances, Grows, Processes
<1>7. QED
  BY <1>3, <1>4, <1>5, <1>6, NormalizerTidy, StaysTyped DEF TypeOK

\* A step of a task that reports an event of process p, or nothing.
LEMMA ReportTyped ==
  ASSUME LInv, LInv', TypeOK, Advances, NEW p \in Processes, NEW e, e.pid = p,
         MUTED' = MUTED \/ MUTED' \in Into(MUTED, {p}),
         EVENTS' = EVENTS \/ Emit(e), unseen' \subseteq unseen \cup {p}, IsFate(fate)',
         UNCHANGED <<probes, PID_PARENT, pc, normalizer>>
  PROVE  TypeOK'
<1>1. Processes \subseteq Processes'
  BY DEF Advances, Grows, Processes
<1>2. unseen' \subseteq Processes'
  BY <1>1 DEF TypeOK
<1>3. /\ Len(EVENTS') <= RING
      /\ \A i \in DOMAIN EVENTS' :
           (\E j \in DOMAIN EVENTS : EVENTS'[i] = EVENTS[j]) \/ EVENTS'[i].pid \in Processes'
  BY <1>1, EmitTyped
<1>4. QED
  BY <1>2, <1>3, NormalizerTidy, StaysTyped DEF TypeOK

LEMMA ExecTyped == ASSUME LInv, TypeOK, NEW p \in DOMAIN tasks, Exec(p)  PROVE TypeOK'
<1>1. PICK program \in Program :
        /\ Load(p, program)
        /\ IF probes = "all" THEN try_exec(p, program)
           ELSE fate' = Undecided /\ UNCHANGED <<MUTED, EVENTS>>
  BY DEF Exec
<1>2. Advances /\ LInv'
  BY <1>1, LoadLined, ExecKnown DEF LInv
<1>3. p \in Processes /\ p \in DOMAIN tasks'
  BY <1>1, <1>2 DEF Load, Advances, Grows
<1>4. PICK e : e = Event(p, "exec", program, "", "")
  OBVIOUS
<1>5. e.pid = p
  BY <1>4 DEF Event
<1>6. /\ MUTED' = MUTED \/ MUTED' \in Into(MUTED, {p})
      /\ EVENTS' = EVENTS \/ Emit(e)
      /\ fate' = Undecided \/ Silence(p, TRUE)
  BY <1>1, <1>4 DEF try_exec
<1>7. IsFate(fate)'
  BY <1>3, <1>6, UndecidedTyped, SilenceTyped
<1>8. unseen' \subseteq unseen \cup {p} /\ UNCHANGED <<probes, PID_PARENT, pc, normalizer>>
  BY DEF Exec
<1>9. QED
  BY <1>2, <1>3, <1>5, <1>6, <1>7, <1>8, ReportTyped

LEMMA LeaveTyped == ASSUME LInv, TypeOK, NEW t, Leave(t)  PROVE TypeOK'
<1>1. Advances /\ LInv' /\ IsFate(fate)'
  BY ExitLined, LeaveKnown, UndecidedTyped DEF Leave, LInv
<1>2. UNCHANGED <<probes, PID_PARENT, MUTED, EVENTS, pc, normalizer, unseen>>
  BY DEF Leave
<1>3. unseen' \subseteq Processes'
  BY <1>1, <1>2 DEF TypeOK, Advances, Grows, Processes
<1>4. QED
  BY <1>1, <1>2, <1>3, NormalizerTidy, StaysTyped DEF TypeOK

LEMMA LeaderIsProcess ==
  ASSUME LInv, NEW t \in DOMAIN tasks
  PROVE  tasks[t].group \in Processes /\ tasks[t].group \in DOMAIN tasks
BY DEF LInv, IInv, TasksFine, TaskFine, Processes

LEMMA OpenTyped == ASSUME LInv, TypeOK, NEW t \in DOMAIN tasks, Open(t)  PROVE TypeOK'
<1>1. PICK open \in Opens : try_open(tasks[t].group, open)
  BY DEF Open
<1>2. /\ UNCHANGED <<tasks, probes, PID_PARENT, MUTED, pc, normalizer, unseen>>
  BY DEF Open
<1>3. Advances /\ LInv'
  BY <1>2, StillLined, OpenKnown DEF LInv
<1>4. PICK p : p = tasks[t].group
  OBVIOUS
<1>5. PICK w \in BOOLEAN : w = Watched(open)
  <2>1. open.write \in BOOLEAN /\ open.tmpfile \in BOOLEAN
    BY MutingAssumption
  <2>2. CASE open.write
    <3>1. Watched(open) \in BOOLEAN
      BY <2>2 DEF Watched
    <3>2. QED
      BY <3>1
  <2>3. CASE ~open.write
    <3>1. Watched(open) \in BOOLEAN
      BY <2>3 DEF Watched
    <3>2. QED
      BY <3>1
  <2>4. QED
    BY <2>1, <2>2, <2>3
<1>6. PICK e : e = Event(p, "file", "", Reason(open), open.path)
  OBVIOUS
<1>7. e.pid = p /\ p \in Processes /\ p \in DOMAIN tasks'
  BY <1>2, <1>4, <1>6, LeaderIsProcess DEF Event
<1>8. /\ EVENTS' = EVENTS \/ Emit(e)
      /\ fate' = Undecided \/ Silence(p, w)
  BY <1>1, <1>4, <1>5, <1>6 DEF try_open
<1>9. IsFate(fate)'
  BY <1>7, <1>8, UndecidedTyped, SilenceTyped
<1>10. QED
  BY <1>2, <1>3, <1>7, <1>8, <1>9, ReportTyped

LEMMA ConnectTyped == ASSUME LInv, TypeOK, NEW t \in DOMAIN tasks, Connect(t)  PROVE TypeOK'
<1>1. try_connect(tasks[t].group)
  BY DEF Connect
<1>2. /\ UNCHANGED <<tasks, probes, PID_PARENT, MUTED, pc, normalizer, unseen>>
  BY DEF Connect
<1>3. Advances /\ LInv'
  BY <1>2, StillLined, ConnectKnown DEF LInv
<1>4. PICK p, e : p = tasks[t].group /\ e = Event(p, "net", "", "", "")
  OBVIOUS
<1>5. e.pid = p /\ p \in Processes /\ p \in DOMAIN tasks'
  BY <1>2, <1>4, LeaderIsProcess DEF Event
<1>6. /\ EVENTS' = EVENTS \/ Emit(e)
      /\ fate' = Undecided \/ Silence(p, TRUE)
  BY <1>1, <1>4 DEF try_connect
<1>7. IsFate(fate)'
  BY <1>5, <1>6, UndecidedTyped, SilenceTyped
<1>8. QED
  BY <1>2, <1>3, <1>5, <1>6, <1>7, ReportTyped

LEMMA SeedTyped == ASSUME LInv, TypeOK, Seed  PROVE TypeOK'
<1> DEFINE listed == [t \in DOMAIN tasks |-> t \in Live \cap Processes]
           n      == SeedMuted(normalizer, listed, Proc)
<1>1. listed \in Seq(BOOLEAN) /\ DOMAIN listed = DOMAIN tasks
  <2>1. PICK m \in Nat : DOMAIN tasks = 1..m
    BY DEF LInv, IInv, TasksFine, TasksTyped
  <2>2. \A t \in DOMAIN tasks : (t \in Live \cap Processes) \in BOOLEAN
    OBVIOUS
  <2>3. QED
    BY <2>1
<1>2. /\ MUTED' \in Pushed(n) /\ normalizer' = Taken(n) /\ fate' = Undecided
      /\ pc' = "attach_fork" /\ UNCHANGED <<tasks, probes, PID_PARENT, EVENTS, unseen>>
  BY DEF Seed
<1> HIDE DEF listed
<1>3. n \in Tidy
  BY <1>1, NormalizerTidy, SeedTidy DEF LInv, IInv
<1> HIDE DEF n
<1>4. Advances /\ LInv'
  BY <1>2, StillLined, SeedKnown DEF LInv
<1>5. unseen' \subseteq Processes'
  BY <1>2 DEF TypeOK, Processes
<1>6. QED
  BY <1>2, <1>3, <1>4, <1>5, UndecidedTyped, StaysTyped DEF TypeOK, Pushed

LEMMA PushTyped == ASSUME LInv, TypeOK, Push  PROVE TypeOK'
<1>1. /\ MUTED' \in Pushed(normalizer) /\ normalizer' = Taken(normalizer) /\ fate' = Undecided
      /\ pc' = "drain" /\ UNCHANGED <<tasks, probes, PID_PARENT, EVENTS, unseen>>
  BY DEF Push
<1>2. Advances /\ LInv'
  BY <1>1, StillLined, PushKnown DEF LInv
<1>3. unseen' \subseteq Processes'
  BY <1>1 DEF TypeOK, Processes
<1>4. QED
  BY <1>1, <1>2, <1>3, NormalizerTidy, UndecidedTyped, StaysTyped DEF TypeOK, Pushed

LEMMA AttachTyped == ASSUME LInv, TypeOK, AttachFork \/ AttachRest  PROVE TypeOK'
<1>1. /\ fate' = Undecided /\ UNCHANGED <<tasks, PID_PARENT, MUTED, EVENTS, normalizer, unseen>>
      /\ pc' \in {"attach_rest", "drain"} /\ probes' \in {"fork", "all"}
  BY DEF AttachFork, AttachRest
<1>2. Advances /\ LInv'
  BY <1>1, StillLined, AttachKnown DEF LInv
<1>3. unseen' \subseteq Processes'
  BY <1>1 DEF TypeOK, Processes
<1>4. QED
  BY <1>1, <1>2, <1>3, NormalizerTidy, UndecidedTyped, StaysTyped DEF TypeOK

LEMMA DrainTyped == ASSUME LInv, TypeOK, Drain  PROVE TypeOK'
<1>1. PICK e, n, ev, r : /\ e = Head(EVENTS) /\ n = normalizer /\ ev = EVENTS
                         /\ r = Normalize(n, e, Proc)
  OBVIOUS
<1>2. /\ ev \in Seq(Fine) /\ ev # <<>> /\ n \in Sound /\ TasksFine
      /\ EVENTS' = Tail(ev) /\ normalizer' = r.n /\ pc' = "push"
      /\ UNCHANGED <<tasks, probes, PID_PARENT, MUTED, unseen>>
      /\ fate' = IF r.line = NoLine
                 THEN [is |-> "silenced", pid |-> e.pid,
                       watched |-> e.kind # "file" \/ e.reason = "secret_read"
                                                   \/ e.path \in {"plain", "secret"}]
                 ELSE [is |-> "captured", line |-> r.line, from |-> e.from]
  BY <1>1 DEF LInv, IInv, Drain
<1>3. /\ Len(ev) \in Nat \ {0} /\ Len(Tail(ev)) = Len(ev) - 1 /\ e = ev[1] /\ e \in Fine
      /\ 1 \in 1..Len(ev) /\ DOMAIN ev = 1..Len(ev) /\ DOMAIN Tail(ev) = 1..(Len(ev) - 1)
      /\ \A j \in 1..(Len(ev) - 1) : Tail(ev)[j] = ev[j + 1] /\ j + 1 \in 1..Len(ev)
  <2> HIDE DEF Fine
  <2>1. QED
    BY <1>1, <1>2
<1>4. Advances /\ LInv'
  BY <1>2, StillLined, DrainKnown DEF LInv
<1>5. r.n \in Tidy
  BY <1>1, <1>2, <1>3, NormalizerTidy, NormalizeTidy
<1>6. /\ Len(EVENTS') <= RING
      /\ \A i \in DOMAIN EVENTS' : \E j \in DOMAIN EVENTS : EVENTS'[i] = EVENTS[j]
  <2>1. Len(ev) <= RING /\ RING \in Nat
    BY <1>1, MutingAssumption DEF TypeOK
  <2>2. Len(EVENTS') <= RING
    BY <1>2, <1>3, <2>1
  <2>3. QED
    BY <1>1, <1>2, <1>3, <2>2
<1>7. e.pid \in DOMAIN tasks
  BY <1>3 DEF Fine, EventFine
<1>8. IsFate(fate)'
  <2>1. CASE r.line = NoLine
    <3>1. PICK w \in BOOLEAN : w = (e.kind # "file" \/ e.reason = "secret_read"
                                                    \/ e.path \in {"plain", "secret"})
      OBVIOUS
    <3>2. Silence(e.pid, w)
      BY <1>2, <2>1, <3>1 DEF Silence
    <3>3. QED
      BY <1>2, <1>7, <3>2, SilenceTyped
  <2>2. CASE r.line # NoLine
    <3>1. LineFine(e, r.line)
      BY <1>1, <1>2, <1>3, <2>2, NormalizeFine
    <3>2. PICK c, line : line = r.line /\ c = r.line.ancestry
      OBVIOUS
    <3>3. /\ line.pid \in DOMAIN tasks /\ line.ppid \in {0} \cup DOMAIN tasks
          /\ c \in Seq(Nat) /\ Line(e.pid, c) /\ Len(c) <= ANCESTRY_MAX
      BY <1>7, <3>1, <3>2 DEF LineFine, Up
    <3>4. \A i \in 1..Len(c) : c[i] \in DOMAIN tasks
      BY <3>3 DEF Line, Up
    <3>5. c \in Seq(DOMAIN tasks)
      BY <3>3, <3>4
    <3>6. e.from \subseteq DOMAIN tasks
      <4>1. EventKnown(1)
        BY <1>1, <1>3 DEF LInv, EventsKnown
      <4>2. QED
        BY <1>1, <1>3, <4>1 DEF EventKnown, LineUp
    <3>7. /\ fate'.is = "captured" /\ fate'.line = line /\ fate'.from = e.from
          /\ tasks' = tasks
      BY <1>2, <2>2, <3>2
    <3>8. QED
      BY <3>2, <3>3, <3>5, <3>6, <3>7 DEF IsFate
  <2>3. QED
    BY <2>1, <2>2
<1>9. unseen' \subseteq Processes'
  BY <1>2 DEF TypeOK, Processes
<1>10. QED
  BY <1>2, <1>4, <1>5, <1>6, <1>8, <1>9, StaysTyped DEF TypeOK

LEMMA InitTyped == ASSUME Init  PROVE TypeOK
<1>1. /\ probes = "none" /\ PID_PARENT = <<>> /\ MUTED = {} /\ EVENTS = <<>> /\ pc = "seed"
      /\ unseen = {} /\ fate = Undecided /\ normalizer.procs = <<>> /\ normalizer.order = <<>>
      /\ normalizer.muted = {} /\ normalizer.newly_muted = <<>>
  BY DEF Init, New
<1>2. Cardinality({}) = 0
  BY FS_EmptySet
<1>3. /\ 0 <= PID_PARENT_MAX /\ 0 <= MUTED_MAX /\ 0 <= RING /\ 0 <= PROC_CACHE_CAP
      /\ 0 <= MUTED_CACHE_CAP
  BY MutingAssumption, NormalizerAssumption
<1>4. DOMAIN PID_PARENT = {} /\ DOMAIN EVENTS = {} /\ DOMAIN normalizer.procs = {}
  BY <1>1
<1>5. ToSet(<<>>) = {} /\ IsInjective(<<>>) /\ Len(<<>>) = 0
  BY DEF ToSet, IsInjective
<1>6. QED
  BY <1>1, <1>2, <1>3, <1>4, <1>5 DEF TypeOK, IsFate

\* Types, and that the ring, both maps and both caches keep their bounds, that
\* the order of eviction lists the table's entries once each, and that a
\* lineage is no longer than it may be, for every host and every size
\* (normalize.rs:424-455, normalize.rs:324-334, main.rs:24-33 of the probes).
THEOREM MutingTyped == Spec => []TypeOK
<1>1. ASSUME LInv, TypeOK, [Next]_vars  PROVE TypeOK'
  <2>1. CASE Host
    BY <1>1, <2>1, ForkTyped, ExecTyped, LeaveTyped, OpenTyped, ConnectTyped DEF Host
  <2>2. CASE Loader
    BY <1>1, <2>2, SeedTyped, AttachTyped, DrainTyped, PushTyped DEF Loader
  <2>3. CASE UNCHANGED vars
    BY <1>1, <2>3 DEF vars, TypeOK, Processes, IsFate
  <2>4. QED
    BY <1>1, <2>1, <2>2, <2>3 DEF Next
<1>2. QED
  BY <1>1, InitTyped, LinesLead, PTL DEF Spec
=============================================================================
