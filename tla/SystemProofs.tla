---------------------------- MODULE SystemProofs ----------------------------
(***************************************************************************)
(* What is proved of the process table on its own, for every capacity,     *)
(* every depth of a walk and every stream of events, and of the engine     *)
(* watching a host, for every host, program, table and timeout.            *)
(*                                                                         *)
(* The table on its own keeps TableInv.  The whole keeps Watched, as long  *)
(* as no pid is handed out twice: the host is one tree of typed processes, *)
(* the table says nothing of it that is not so, chains accuse nobody but   *)
(* installs, and none is opened anew before its key was silent.  When the  *)
(* table besides has room for every process and walks up to the top, of    *)
(* any ANCESTRY_MAX processes on a line one was started as a program, and  *)
(* a tool only makes way for a tool, it keeps Recalled: the table knows    *)
(* every program that was started and the ANCESTRY_MAX processes from it   *)
(* up, so stretch by stretch the line above every process, so the anchor   *)
(* of an event is the outermost tool above it, and the chain of that       *)
(* anchor holds the evidence of all its install did.                       *)
(***************************************************************************)
EXTENDS System, ProcTableSpec, Loops, FiniteSetTheorems

-----------------------------------------------------------------------------
(* The table.                                                              *)

Proc == [pid : Pid, ppid : Pid \cup {0}, comm : Name, exe : Path \cup {None},
         cmdline : Cmdline \cup {None}, uid : Uid \cup {NoUid}, container : BOOLEAN,
         start_ts : Nat, names : SUBSET Name]

Table == [map : UNION {[D -> Proc] : D \in SUBSET Pid}, order : Seq(Pid)]

\* TableAgrees and NamesCurrent, of any table.
Agrees(t) ==
  /\ DOMAIN t.map = {t.order[i] : i \in 1..Len(t.order)}
  /\ \A i, j \in 1..Len(t.order) : t.order[i] = t.order[j] => i = j
  /\ Len(t.order) <= CAP
  /\ \A pid \in DOMAIN t.map : t.map[pid].pid = pid
Current(t) ==
  \A pid \in DOMAIN t.map :
    t.map[pid].names = NamesOf(t.map[pid].comm, t.map[pid].exe, t.map[pid].cmdline)

Sound == {t \in Table : Agrees(t) /\ Current(t)}

LEMMA SoundTable ==
  ASSUME NEW t \in Sound
  PROVE  /\ DOMAIN t.map \subseteq Pid /\ t.map \in [DOMAIN t.map -> Proc]
         /\ t.order \in Seq(Pid) /\ Agrees(t) /\ Current(t)
         /\ t = [map |-> t.map, order |-> t.order]
BY DEF Sound, Table

LEMMA TableIs ==
  ASSUME NEW m, NEW o \in Seq(Pid), DOMAIN m \subseteq Pid, m \in [DOMAIN m -> Proc],
         Agrees([map |-> m, order |-> o]), Current([map |-> m, order |-> o])
  PROVE  [map |-> m, order |-> o] \in Sound
BY DEF Sound, Table

LEMMA NamedProc ==
  ASSUME NEW p, NEW comm \in Name, NEW exe \in Path \cup {None}, NEW cmdline \in Cmdline \cup {None}
  PROVE  NamesOf(comm, exe, cmdline) \in SUBSET Name
<1>1. exe # None => base_name[exe] \in Name
  BY ProcTableAssumption
<1>2. cmdline # None => arg_names[cmdline] \in SUBSET Name
  BY ProcTableAssumption
<1>3. QED
  BY <1>1, <1>2 DEF NamesOf

\* A process put in the place of one with its pid, or named anew.
LEMMA PutSound ==
  ASSUME NEW t \in Sound, NEW pid \in DOMAIN t.map, NEW p \in Proc, p.pid = pid,
         p.names = NamesOf(p.comm, p.exe, p.cmdline)
  PROVE  [t EXCEPT !.map[pid] = p] \in Sound
<1>1. /\ DOMAIN t.map \subseteq Pid /\ t.map \in [DOMAIN t.map -> Proc]
      /\ t.order \in Seq(Pid) /\ Agrees(t) /\ Current(t)
      /\ t = [map |-> t.map, order |-> t.order]
  BY SoundTable
<1> DEFINE m == [t.map EXCEPT ![pid] = p]
<1>2. [t EXCEPT !.map[pid] = p] = [map |-> m, order |-> t.order]
  BY <1>1
<1>3. DOMAIN m = DOMAIN t.map /\ \A q \in DOMAIN m : m[q] = IF q = pid THEN p ELSE t.map[q]
  BY <1>1
<1>4. m \in [DOMAIN m -> Proc]
  BY <1>1
<1> HIDE DEF m
<1>5. Agrees([map |-> m, order |-> t.order])
  BY <1>1, <1>3 DEF Agrees
<1>6. Current([map |-> m, order |-> t.order])
  BY <1>1, <1>3 DEF Current
<1>7. QED
  BY <1>1, <1>2, <1>3, <1>4, <1>5, <1>6, TableIs

\* A new process takes the room of the oldest.
LEMMA InsertSound ==
  ASSUME NEW t \in Sound, NEW pid \in Pid, ~Knows(t, pid), NEW p, p.pid = pid, Named(p) \in Proc,
         Named(p).pid = pid,
         Named(p).names = NamesOf(Named(p).comm, Named(p).exe, Named(p).cmdline)
  PROVE  Insert(t, pid, p) \in Sound /\ pid \in DOMAIN Insert(t, pid, p).map
<1> DEFINE queue   == Append(t.order, pid)
           evicted == IF Len(queue) > CAP THEN {Head(queue)} ELSE {}
           o == IF evicted = {} THEN queue ELSE Tail(queue)
           m == [q \in (DOMAIN t.map \cup {pid}) \ evicted |-> IF q = pid THEN Named(p) ELSE t.map[q]]
           n == Len(t.order)
<1>1. /\ DOMAIN t.map \subseteq Pid /\ t.map \in [DOMAIN t.map -> Proc]
      /\ t.order \in Seq(Pid) /\ Agrees(t) /\ Current(t)
  BY SoundTable
<1>2. Insert(t, pid, p) = [map |-> m, order |-> o]
  BY DEF Insert
<1>3. pid \notin DOMAIN t.map /\ n \in Nat /\ n <= CAP /\ CAP \in Nat \ {0}
  BY <1>1, ProcTableAssumption DEF Knows, Agrees
<1>4. /\ queue \in Seq(Pid) /\ Len(queue) = n + 1 /\ queue[n + 1] = pid
      /\ \A i \in 1..n : queue[i] = t.order[i]
      /\ Head(queue) = queue[1] /\ Tail(queue) \in Seq(Pid) /\ Len(Tail(queue)) = n
      /\ \A i \in 1..n : Tail(queue)[i] = queue[i + 1]
  BY <1>1, <1>3
<1> HIDE DEF queue
\* The queue with the new pid lists each process once.
<1>5. \A i, j \in 1..(n + 1) : queue[i] = queue[j] => i = j
  <2> SUFFICES ASSUME NEW i \in 1..(n + 1), NEW j \in 1..(n + 1), queue[i] = queue[j]
               PROVE  i = j
    OBVIOUS
  <2>1. \A k \in 1..n : queue[k] # pid
    <3>1. \A k \in 1..n : t.order[k] \in DOMAIN t.map
      BY <1>1 DEF Agrees
    <3>2. QED
      BY <1>3, <1>4, <3>1
  <2>2. (i \in 1..n \/ i = n + 1) /\ (j \in 1..n \/ j = n + 1)
    BY <1>3
  <2>3. CASE i \in 1..n /\ j \in 1..n
    BY <1>1, <1>4, <2>3 DEF Agrees
  <2>4. CASE i = n + 1 \/ j = n + 1
    BY <1>4, <2>1, <2>2, <2>4
  <2>5. QED
    BY <2>2, <2>3, <2>4
<1>6. DOMAIN t.map \cup {pid} = {queue[i] : i \in 1..(n + 1)}
  <2>1. \A q \in DOMAIN t.map : \E i \in 1..(n + 1) : queue[i] = q
    <3> SUFFICES ASSUME NEW q \in DOMAIN t.map  PROVE \E i \in 1..(n + 1) : queue[i] = q
      OBVIOUS
    <3>1. PICK i \in 1..n : t.order[i] = q
      BY <1>1 DEF Agrees
    <3>2. i \in 1..(n + 1)
      BY <1>3
    <3>3. QED
      BY <1>4, <3>1, <3>2
  <2>2. n + 1 \in 1..(n + 1)
    BY <1>3
  <2>3. \A i \in 1..(n + 1) : i \in 1..n \/ i = n + 1
    BY <1>3
  <2>4. \A i \in 1..n : queue[i] \in DOMAIN t.map
    BY <1>1, <1>4 DEF Agrees
  <2>5. ASSUME NEW q \in DOMAIN t.map \cup {pid}  PROVE \E i \in 1..(n + 1) : queue[i] = q
    <3>1. CASE q = pid
      BY <1>4, <2>2, <3>1
    <3>2. CASE q \in DOMAIN t.map
      BY <2>1, <3>2
    <3>3. QED
      BY <3>1, <3>2
  <2>6. ASSUME NEW i \in 1..(n + 1)  PROVE queue[i] \in DOMAIN t.map \cup {pid}
    <3>1. CASE i \in 1..n
      BY <2>4, <3>1
    <3>2. CASE i = n + 1
      BY <1>4, <3>2
    <3>3. QED
      BY <2>3, <3>1, <3>2
  <2>7. QED
    BY <2>5, <2>6
<1>7. /\ o \in Seq(Pid) /\ Len(o) <= CAP /\ pid \notin evicted
      /\ (DOMAIN t.map \cup {pid}) \ evicted = {o[i] : i \in 1..Len(o)}
      /\ \A i, j \in 1..Len(o) : o[i] = o[j] => i = j
  <2>1. CASE n + 1 <= CAP
    <3>1. evicted = {} /\ o = queue
      BY <1>3, <1>4, <2>1
    <3> HIDE DEF o, evicted
    <3>2. QED
      BY <1>4, <1>5, <1>6, <2>1, <3>1
  <2>2. CASE n + 1 > CAP
    <3>1. evicted = {queue[1]} /\ o = Tail(queue) /\ Len(o) = n
      BY <1>3, <1>4, <2>2
    <3> HIDE DEF o, evicted
    <3>2. \A i \in 1..n : i + 1 \in 1..(n + 1) /\ i + 1 # 1
      BY <1>3
    <3>3. 1 \in 1..(n + 1) /\ n + 1 \in 1..(n + 1) /\ n + 1 # 1
      BY <1>3, <2>2
    <3>4. pid \notin evicted
      BY <1>4, <1>5, <3>1, <3>3
    <3>5. \A i, j \in 1..n : o[i] = o[j] => i = j
      <4> SUFFICES ASSUME NEW i \in 1..n, NEW j \in 1..n, o[i] = o[j]  PROVE i = j
        OBVIOUS
      <4>1. queue[i + 1] = queue[j + 1] /\ i + 1 \in 1..(n + 1) /\ j + 1 \in 1..(n + 1)
        BY <1>4, <3>1, <3>2
      <4>2. i + 1 = j + 1
        BY <1>5, <4>1
      <4>3. QED
        BY <1>3, <4>2
    <3>6. ASSUME NEW q \in (DOMAIN t.map \cup {pid}) \ evicted  PROVE \E i \in 1..n : o[i] = q
      <4>1. PICK k \in 1..(n + 1) : queue[k] = q
        BY <1>6
      <4>2. k # 1
        BY <3>1, <4>1
      <4>3. k - 1 \in 1..n /\ (k - 1) + 1 = k
        BY <1>3, <4>2
      <4>4. QED
        BY <1>4, <3>1, <4>1, <4>3
    <3>7. ASSUME NEW i \in 1..n  PROVE o[i] \in (DOMAIN t.map \cup {pid}) \ evicted
      <4>1. o[i] = queue[i + 1] /\ i + 1 \in 1..(n + 1) /\ i + 1 # 1
        BY <1>4, <3>1, <3>2
      <4>2. o[i] # queue[1]
        BY <1>5, <3>3, <4>1
      <4>3. QED
        BY <1>6, <3>1, <4>1, <4>2
    <3>8. (DOMAIN t.map \cup {pid}) \ evicted = {o[i] : i \in 1..n}
      BY <3>6, <3>7
    <3>9. o \in Seq(Pid) /\ Len(o) = n /\ n <= CAP
      BY <1>3, <1>4, <3>1
    <3>10. QED
      BY <3>4, <3>5, <3>8, <3>9
  <2>3. n + 1 <= CAP \/ n + 1 > CAP
    BY <1>3
  <2>4. QED
    BY <2>1, <2>2, <2>3
<1> HIDE DEF o, evicted
<1>8. /\ DOMAIN m = (DOMAIN t.map \cup {pid}) \ evicted /\ pid \in DOMAIN m
      /\ \A q \in DOMAIN m : m[q] = IF q = pid THEN Named(p) ELSE t.map[q]
  BY <1>7
<1>9. DOMAIN m \subseteq Pid /\ m \in [DOMAIN m -> Proc]
  BY <1>1, <1>8
<1> HIDE DEF m
<1>10. Agrees([map |-> m, order |-> o])
  <2>1. \A q \in DOMAIN m : m[q].pid = q
    BY <1>1, <1>8 DEF Agrees
  <2>2. DOMAIN m = {o[i] : i \in 1..Len(o)}
    BY <1>7, <1>8
  <2>3. QED
    BY <1>7, <2>1, <2>2 DEF Agrees
<1>11. Current([map |-> m, order |-> o])
  BY <1>1, <1>8 DEF Current
<1>12. QED
  BY <1>2, <1>7, <1>8, <1>9, <1>10, <1>11, TableIs

-----------------------------------------------------------------------------
(* observe.                                                                *)

\* A process named from its comm, binary and command line.
LEMMA NamedFields ==
  ASSUME NEW p \in Proc
  PROVE  /\ Named(p) \in Proc /\ Named(p).pid = p.pid
         /\ Named(p).names = NamesOf(Named(p).comm, Named(p).exe, Named(p).cmdline)
<1>1. NamesOf(p.comm, p.exe, p.cmdline) \in SUBSET Name
  BY NamedProc DEF Proc
<1>2. Named(p) = [p EXCEPT !.names = NamesOf(p.comm, p.exe, p.cmdline)]
  BY DEF Named
<1>3. QED
  BY <1>1, <1>2 DEF Proc

LEMMA ElementOf ==
  ASSUME NEW S, NEW q \in Seq(S), NEW i \in 1..Len(q)
  PROVE  q[i] \in S
OBVIOUS

LEMMA AncestorSound ==
  ASSUME NEW t \in Sound, NEW ancestry \in Seq([pid : Pid, comm : Name]),
         NEW i \in 1..Len(ancestry)
  PROVE  ObserveAncestor(t, ancestry, i) \in Sound
<1> DEFINE pid    == ancestry[i].pid
           parent == IF i < Len(ancestry) THEN ancestry[i + 1].pid ELSE 0
           p == [pid |-> pid, ppid |-> parent, comm |-> ancestry[i].comm, exe |-> None,
                 cmdline |-> None, uid |-> NoUid, container |-> FALSE,
                 start_ts |-> 0, names |-> {}]
<1>1. pid \in Pid /\ ancestry[i].comm \in Name
  <2>1. ancestry[i] \in [pid : Pid, comm : Name]
    BY ElementOf
  <2>2. QED
    BY <2>1
<1>2. parent \in Pid \cup {0}
  <2>1. i < Len(ancestry) => i + 1 \in 1..Len(ancestry)
    OBVIOUS
  <2>2. i < Len(ancestry) => ancestry[i + 1] \in [pid : Pid, comm : Name]
    BY <2>1, ElementOf
  <2>3. QED
    BY <2>2
<1>3. ObserveAncestor(t, ancestry, i) =
        IF ~Knows(t, pid) THEN Insert(t, pid, p)
        ELSE IF t.map[pid].ppid = 0 THEN [t EXCEPT !.map[pid].ppid = parent] ELSE t
  BY DEF ObserveAncestor
<1>4. p \in Proc /\ p.pid = pid
  BY <1>1, <1>2 DEF Proc
<1> HIDE DEF pid, parent, p
<1>5. CASE ~Knows(t, pid)
  BY <1>1, <1>3, <1>4, <1>5, NamedFields, InsertSound
<1>6. CASE Knows(t, pid)
  <2> DEFINE q == [t.map[pid] EXCEPT !.ppid = parent]
  <2>1. /\ pid \in DOMAIN t.map /\ t.map \in [DOMAIN t.map -> Proc]
        /\ t = [map |-> t.map, order |-> t.order]
        /\ Agrees(t) /\ Current(t)
    BY <1>6, SoundTable DEF Knows
  <2>2. t.map[pid] \in Proc /\ t.map[pid].pid = pid
        /\ t.map[pid].names = NamesOf(t.map[pid].comm, t.map[pid].exe, t.map[pid].cmdline)
    BY <2>1 DEF Agrees, Current
  <2>3. q \in Proc /\ q.pid = pid /\ q.names = NamesOf(q.comm, q.exe, q.cmdline)
    BY <1>2, <2>2 DEF Proc
  <2>4. [t EXCEPT !.map[pid].ppid = parent] = [t EXCEPT !.map[pid] = q]
    BY <2>1
  <2> HIDE DEF q
  <2>5. [t EXCEPT !.map[pid] = q] \in Sound
    BY <2>1, <2>3, PutSound
  <2>6. QED
    BY <1>3, <1>6, <2>4, <2>5
<1>7. QED
  BY <1>5, <1>6

\* The loop over an event's ancestors, however many.
Learning(f, t, ancestry) ==
  /\ f[0] = t /\ ObserveAncestry(t, ancestry) = f[Len(ancestry)]
  /\ \A i \in 0..Len(ancestry) : f[i] \in Sound
  /\ \A i \in 1..Len(ancestry) : f[i] = ObserveAncestor(f[i - 1], ancestry, i)

LEMMA AncestryLoop ==
  ASSUME NEW t \in Sound, NEW ancestry \in Seq([pid : Pid, comm : Name])
  PROVE  \E f : Learning(f, t, ancestry)
<1> DEFINE n == Len(ancestry)
           step == [s \in Sound \X (1..n) |-> ObserveAncestor(s[1], ancestry, s[2])]
           Looping(f) == f = [i \in 0..n |-> IF i = 0 THEN t ELSE ObserveAncestor(f[i - 1], ancestry, i)]
           upto == CHOOSE f : Looping(f)
<1>1. n \in Nat
  OBVIOUS
<1>2. step \in [Sound \X (1..n) -> Sound]
  BY AncestorSound
<1>3. PICK g \in [0..n -> Sound] : Runs(g, t, step, n)
  <2> HIDE DEF step, n
  <2>1. QED
    BY <1>1, <1>2, LoopExists
<1>4. Looping(g)
  <2>1. \A i \in 1..n : g[i] = ObserveAncestor(g[i - 1], ancestry, i)
    <3> SUFFICES ASSUME NEW i \in 1..n  PROVE g[i] = ObserveAncestor(g[i - 1], ancestry, i)
      OBVIOUS
    <3>1. i - 1 \in 0..n
      BY <1>1
    <3>2. g[i - 1] \in Sound
      BY <1>3, <3>1
    <3>3. step[<<g[i - 1], i>>] = ObserveAncestor(g[i - 1], ancestry, i)
      BY <3>2
    <3>4. QED
      BY <1>3, <3>3 DEF Runs
  <2>2. \A i \in 0..n : i # 0 => i \in 1..n
    BY <1>1
  <2>3. g = [i \in 0..n |-> g[i]] /\ g[0] = t
    BY <1>3 DEF Runs
  <2> HIDE DEF n, step
  <2>4. QED
    BY <2>1, <2>2, <2>3
<1>5. Looping(upto)
  <2> HIDE DEF Looping
  <2>1. QED
    BY <1>4, Zenon
<1>6. ObserveAncestry(t, ancestry) = upto[n]
  BY DEF ObserveAncestry
<1> HIDE DEF upto, step
<1>7. \A i \in 0..n : upto[i] \in Sound
  <2>1. upto[0] \in Sound
    BY <1>1, <1>5
  <2>2. ASSUME NEW i \in 1..n, upto[i - 1] \in Sound  PROVE upto[i] \in Sound
    <3>1. i \in 0..n /\ i # 0
      BY <1>1
    <3>2. upto[i] = ObserveAncestor(upto[i - 1], ancestry, i)
      BY <1>5, <3>1
    <3>3. QED
      BY <2>2, <3>2, AncestorSound
  <2> HIDE DEF n
  <2>3. QED
    BY <1>1, <2>1, <2>2, LoopStays
<1>8. upto[0] = t /\ \A i \in 1..n : upto[i] = ObserveAncestor(upto[i - 1], ancestry, i)
  <2>1. 0 \in 0..n /\ \A i \in 1..n : i \in 0..n /\ i # 0
    BY <1>1
  <2>2. QED
    BY <1>5, <2>1
<1> HIDE DEF Looping
<1>9. QED
  BY <1>6, <1>7, <1>8 DEF Learning

LEMMA AncestrySound ==
  ASSUME NEW t \in Sound, NEW ancestry \in Seq([pid : Pid, comm : Name])
  PROVE  ObserveAncestry(t, ancestry) \in Sound
<1>1. PICK f : Learning(f, t, ancestry)
  BY AncestryLoop
<1>2. Len(ancestry) \in 0..Len(ancestry)
  OBVIOUS
<1>3. QED
  BY <1>1, <1>2 DEF Learning

LEMMA EventFacts ==
  ASSUME NEW ev \in EventType
  PROVE  /\ ParentOf(ev) \in Pid \cup {0} /\ ExeOf(ev) \in Path \cup {None}
         /\ ev.ancestry \in Seq([pid : Pid, comm : Name])
         /\ ev.pid \in Pid /\ ev.ts \in Nat /\ ev.uid \in Uid /\ ev.comm \in Name
         /\ ev.cmdline \in Cmdline \cup {None} /\ ev.container \in BOOLEAN
<1>1. /\ ev.ancestry \in Seq([pid : Pid, comm : Name]) /\ ev.ppid \in Pid \cup {0}
      /\ ev.pid \in Pid /\ ev.ts \in Nat /\ ev.uid \in Uid /\ ev.comm \in Name
      /\ ev.cmdline \in Cmdline \cup {None} /\ ev.container \in BOOLEAN
      /\ ev.exe \in Path \cup {None} /\ ev.path \in Path \cup {None}
  BY DEF EventType
<1>2. ev.ancestry # <<>> => ev.ancestry[1] \in [pid : Pid, comm : Name]
  <2>1. ev.ancestry # <<>> => 1 \in 1..Len(ev.ancestry)
    BY <1>1
  <2>2. QED
    BY <1>1, <2>1, ElementOf
<1>3. ParentOf(ev) \in Pid \cup {0}
  BY <1>1, <1>2 DEF ParentOf
<1>4. ExeOf(ev) \in Path \cup {None}
  BY <1>1 DEF ExeOf
<1>5. QED
  BY <1>1, <1>3, <1>4

LEMMA ReimagedProc ==
  ASSUME NEW p \in Proc, NEW ev \in EventType
  PROVE  LET q == Reimaged(p, ev) IN
         q \in Proc /\ q.pid = p.pid /\ q.names = NamesOf(q.comm, q.exe, q.cmdline)
<1> DEFINE ppid == ParentOf(ev)
           q == [p EXCEPT
                   !.start_ts  = StartOf(p, ev),
                   !.ppid      = IF ppid # 0 THEN ppid ELSE @,
                   !.comm      = ev.comm,
                   !.exe       = ExeOf(ev),
                   !.cmdline   = ev.cmdline,
                   !.uid       = ev.uid,
                   !.container = ev.container]
<1>1. Reimaged(p, ev) = Named(q)
  BY DEF Reimaged
<1>2. q \in Proc /\ q.pid = p.pid
  BY EventFacts DEF Proc, StartOf
<1> HIDE DEF q
<1>3. QED
  BY <1>1, <1>2, NamedFields

LEMMA FilledProc ==
  ASSUME NEW p \in Proc, NEW ev \in EventType, p.names = NamesOf(p.comm, p.exe, p.cmdline)
  PROVE  LET q == Filled(p, ev) IN
         q \in Proc /\ q.pid = p.pid /\ q.names = NamesOf(q.comm, q.exe, q.cmdline)
<1> DEFINE q == FilledIn(p, ev)
<1>1. /\ q \in Proc /\ q.pid = p.pid /\ q.comm = p.comm /\ q.names = p.names
  <2>1. (p.container \/ ev.container) \in BOOLEAN
    OBVIOUS
  <2>2. \E b \in BOOLEAN :
          q = [p EXCEPT !.ppid      = IF @ = 0 THEN ParentOf(ev) ELSE @,
                        !.uid       = ev.uid,
                        !.exe       = IF @ = None THEN ExeOf(ev) ELSE @,
                        !.cmdline   = IF @ = None THEN ev.cmdline ELSE @,
                        !.container = b]
    BY <2>1 DEF FilledIn
  <2> HIDE DEF q
  <2>3. QED
    BY <2>2, EventFacts DEF Proc
<1>2. Filled(p, ev) = IF q.exe # p.exe \/ q.cmdline # p.cmdline THEN Named(q) ELSE q
  BY DEF Filled
<1> HIDE DEF q
<1>3. CASE q.exe # p.exe \/ q.cmdline # p.cmdline
  BY <1>1, <1>2, <1>3, NamedFields
<1>4. CASE q.exe = p.exe /\ q.cmdline = p.cmdline
  BY <1>1, <1>2, <1>4
<1>5. QED
  BY <1>3, <1>4

LEMMA FreshProc ==
  ASSUME NEW ev \in EventType
  PROVE  Fresh(ev) \in Proc /\ Fresh(ev).pid = ev.pid
BY EventFacts DEF Fresh, Proc

LEMMA SelfSound ==
  ASSUME NEW t \in Sound, NEW ev \in EventType
  PROVE  ObserveSelf(t, ev) \in Sound /\ ev.pid \in DOMAIN ObserveSelf(t, ev).map
<1>1. ev.pid \in Pid
  BY EventFacts
<1>2. CASE ~Knows(t, ev.pid)
  BY <1>1, <1>2, FreshProc, NamedFields, InsertSound DEF ObserveSelf
<1>3. CASE Knows(t, ev.pid)
  <2> DEFINE p == t.map[ev.pid]
             q == IF ev.action = "Exec" THEN Reimaged(p, ev) ELSE Filled(p, ev)
  <2>1. /\ ev.pid \in DOMAIN t.map /\ t.map \in [DOMAIN t.map -> Proc]
        /\ t = [map |-> t.map, order |-> t.order] /\ Agrees(t) /\ Current(t)
    BY <1>3, SoundTable DEF Knows
  <2>2. p \in Proc /\ p.pid = ev.pid /\ p.names = NamesOf(p.comm, p.exe, p.cmdline)
    BY <2>1 DEF Agrees, Current
  <2>3. ObserveSelf(t, ev) = [t EXCEPT !.map[ev.pid] = q]
    BY <1>3, <2>1 DEF ObserveSelf
  <2> HIDE DEF p
  <2>4. q \in Proc /\ q.pid = ev.pid /\ q.names = NamesOf(q.comm, q.exe, q.cmdline)
    BY <2>2, ReimagedProc, FilledProc
  <2> HIDE DEF q
  <2>5. [t EXCEPT !.map[ev.pid] = q] \in Sound
    BY <2>1, <2>4, PutSound
  <2>6. DOMAIN [t EXCEPT !.map[ev.pid] = q].map = DOMAIN t.map
    BY <2>1
  <2>7. QED
    BY <2>1, <2>3, <2>5, <2>6
<1>4. QED
  BY <1>2, <1>3

LEMMA ObservedSound ==
  ASSUME NEW t \in Sound, NEW ev \in EventType
  PROVE  Observed(t, ev) \in Sound /\ ev.pid \in DOMAIN Observed(t, ev).map
<1>1. ObserveAncestry(t, ev.ancestry) \in Sound
  BY AncestrySound, EventFacts
<1>2. QED
  BY <1>1, SelfSound DEF Observed

-----------------------------------------------------------------------------
(* lineage.                                                                *)

\* The walks from a process: no pid twice.
Walks(m, pid) ==
  {w \in Seq({m[q] : q \in DOMAIN m}) :
     /\ Len(w) >= 1 /\ w[1].pid = pid
     /\ \A i, j \in 1..Len(w) : w[i].pid = w[j].pid => i = j}

LEMMA FurtherWalk ==
  ASSUME NEW m, \A q \in DOMAIN m : m[q].pid = q, NEW pid, NEW w \in Walks(m, pid)
  PROVE  Further(m, w) \in Walks(m, pid) /\ Len(Further(m, w)) <= Len(w) + 1
<1> DEFINE S == {m[q] : q \in DOMAIN m}
           next == m[Last(w).ppid]
           n == Len(w)
<1>1. /\ w \in Seq(S) /\ n \in Nat /\ n >= 1 /\ w[1].pid = pid
      /\ \A i, j \in 1..n : w[i].pid = w[j].pid => i = j
  BY DEF Walks
<1>2. CASE ~Onward(m, w)
  BY <1>1, <1>2 DEF Further
<1>3. CASE Onward(m, w)
  <2>1. /\ next \in S /\ next.pid = Last(w).ppid
        /\ \A i \in 1..n : w[i].pid # next.pid
    BY <1>1, <1>3 DEF Onward
  <2>2. Further(m, w) = Append(w, next)
    BY <1>3 DEF Further
  <2> HIDE DEF next, S
  <2> DEFINE v == Append(w, next)
  <2>3. /\ v \in Seq(S) /\ Len(v) = n + 1 /\ v[n + 1] = next
        /\ \A i \in 1..n : v[i] = w[i]
    BY <1>1, <2>1
  <2>4. \A i \in 1..(n + 1) : i \in 1..n \/ i = n + 1
    BY <1>1
  <2>5. 1 \in 1..n
    BY <1>1
  <2> HIDE DEF v
  <2>6. \A i, j \in 1..(n + 1) : v[i].pid = v[j].pid => i = j
    BY <1>1, <2>1, <2>3, <2>4
  <2>7. v[1].pid = pid /\ Len(v) >= 1 /\ Len(v) <= n + 1
    BY <1>1, <2>3, <2>5
  <2>8. v \in Walks(m, pid)
    BY <2>3, <2>6, <2>7 DEF Walks, S
  <2>9. QED
    BY <2>2, <2>7, <2>8 DEF v
<1>4. QED
  BY <1>2, <1>3

\* Whatever parents the table records, the walk over it ends.
LEMMA LineageWalk ==
  ASSUME NEW m, \A q \in DOMAIN m : m[q].pid = q, NEW pid \in DOMAIN m
  PROVE  Lineage(m, pid) \in Walks(m, pid) /\ Len(Lineage(m, pid)) <= MAX_DEPTH
<1> DEFINE n == MAX_DEPTH - 1
           W == Walks(m, pid)
           step == [s \in W \X (1..n) |-> Further(m, s[1])]
           Looping(f) == f = [i \in 0..n |-> IF i = 0 THEN <<m[pid]>> ELSE Further(m, f[i - 1])]
           walk == CHOOSE f : Looping(f)
<1>1. n \in Nat /\ n + 1 = MAX_DEPTH
  BY ProcTableAssumption
<1>2. <<m[pid]>> \in W /\ Len(<<m[pid]>>) = 1
  BY DEF Walks
<1>3. step \in [W \X (1..n) -> W]
  BY FurtherWalk
<1>4. PICK g \in [0..n -> W] : Runs(g, <<m[pid]>>, step, n)
  <2> HIDE DEF step, n, W
  <2>1. QED
    BY <1>1, <1>2, <1>3, LoopExists
<1>5. Looping(g)
  <2> HIDE DEF W
  <2>1. \A i \in 1..n : g[i] = Further(m, g[i - 1])
    <3> SUFFICES ASSUME NEW i \in 1..n  PROVE g[i] = Further(m, g[i - 1])
      OBVIOUS
    <3>1. i - 1 \in 0..n
      BY <1>1
    <3>2. g[i - 1] \in W
      BY <1>4, <3>1
    <3>3. step[<<g[i - 1], i>>] = Further(m, g[i - 1])
      BY <3>2
    <3>4. QED
      BY <1>4, <3>3 DEF Runs
  <2>2. \A i \in 0..n : i # 0 => i \in 1..n
    BY <1>1
  <2>3. g = [i \in 0..n |-> g[i]] /\ g[0] = <<m[pid]>>
    BY <1>4 DEF Runs
  <2> HIDE DEF n, step
  <2>4. QED
    BY <2>1, <2>2, <2>3
<1>6. Looping(walk)
  <2> HIDE DEF Looping
  <2>1. QED
    BY <1>5, Zenon
<1>7. Lineage(m, pid) = walk[n]
  BY DEF Lineage
<1> HIDE DEF walk, step
\* With each turn of the loop the walk is at most one longer.
<1> DEFINE S == {s \in W \X Nat : Len(s[1]) <= s[2] + 1}
           h == [i \in 0..n |-> <<walk[i], i>>]
<1>8. h[0] \in S
  <2>1. walk[0] = <<m[pid]>> /\ h[0] = <<walk[0], 0>>
    BY <1>1, <1>6
  <2> HIDE DEF W, h
  <2>2. walk[0] \in W /\ Len(walk[0]) <= 0 + 1
    BY <1>2, <2>1
  <2>3. QED
    BY <2>1, <2>2
<1>9. ASSUME NEW i \in 1..n, h[i - 1] \in S  PROVE h[i] \in S
  <2>1. i \in 0..n /\ i # 0 /\ i - 1 \in 0..n /\ (i - 1) + 1 = i /\ i \in Nat
    BY <1>1
  <2>2. walk[i] = Further(m, walk[i - 1])
    BY <1>6, <2>1
  <2>3. h[i - 1] = <<walk[i - 1], i - 1>> /\ h[i] = <<walk[i], i>>
    BY <2>1
  <2>4. walk[i - 1] \in W /\ Len(walk[i - 1]) <= (i - 1) + 1
    BY <1>9, <2>3
  <2>5. walk[i] \in W /\ Len(walk[i]) <= Len(walk[i - 1]) + 1
    BY <2>2, <2>4, FurtherWalk
  <2>6. Len(walk[i]) \in Nat /\ Len(walk[i - 1]) \in Nat
    BY <2>4, <2>5 DEF Walks
  <2>7. Len(walk[i]) <= i + 1
    BY <2>1, <2>4, <2>5, <2>6
  <2> HIDE DEF W, h
  <2>8. QED
    BY <2>1, <2>3, <2>5, <2>7
<1>10. \A i \in 0..n : h[i] \in S
  <2> HIDE DEF h, S, n
  <2>1. QED
    BY <1>1, <1>8, <1>9, LoopStays
<1>11. h[n] = <<walk[n], n>> /\ h[n] \in S
  BY <1>1, <1>10
<1> HIDE DEF h, W
<1>12. QED
  BY <1>1, <1>7, <1>11 DEF W

-----------------------------------------------------------------------------
(* The theorems of the table on its own.                                   *)

TableInv == /\ [map |-> map, order |-> order] \in Sound
            /\ last # 0 => last \in DOMAIN map

\* The table agrees with its queue, and its names with what they are read from,
\* after any stream of events (proctable.rs:88-198).
THEOREM TableInvariant == TableSpec => []TableInv
<1>1. TableSpecInit => TableInv
  <2> SUFFICES ASSUME TableSpecInit  PROVE TableInv
    OBVIOUS
  <2>1. map = <<>> /\ order = <<>> /\ last = 0
    BY DEF TableSpecInit, TableInit
  <2>2. DOMAIN map = {} /\ order \in Seq(Pid) /\ Len(order) = 0 /\ map \in [DOMAIN map -> Proc]
    BY <2>1
  <2>3. Agrees([map |-> map, order |-> order]) /\ Current([map |-> map, order |-> order])
    BY <2>2, ProcTableAssumption DEF Agrees, Current
  <2>4. QED
    BY <2>1, <2>2, <2>3, TableIs DEF TableInv
<1>2. TableInv /\ [TableSpecNext]_tableSpecVars => TableInv'
  <2> SUFFICES ASSUME TableInv, [TableSpecNext]_tableSpecVars  PROVE TableInv'
    OBVIOUS
  <2>1. CASE UNCHANGED tableSpecVars
    BY <2>1 DEF tableSpecVars, TableInv
  <2>2. ASSUME NEW ev \in Event, Observe(ev), last' = ev.pid  PROVE TableInv'
    <3> DEFINE t == Observed([map |-> map, order |-> order], ev)
    <3>1. ev \in EventType
      BY ProcTableSpecAssumption
    <3>2. map' = t.map /\ order' = t.order
      BY <2>2 DEF Observe
    <3>3. t \in Sound /\ ev.pid \in DOMAIN t.map
      BY <3>1, ObservedSound DEF TableInv
    <3> HIDE DEF t
    <3>4. t = [map |-> t.map, order |-> t.order]
      BY <3>3, SoundTable
    <3>5. QED
      BY <2>2, <3>2, <3>3, <3>4 DEF TableInv
  <2>3. QED
    BY <2>1, <2>2 DEF TableSpecNext
<1>3. QED
  BY <1>1, <1>2, PTL DEF TableSpec

LEMMA InvFacts ==
  ASSUME TableInv
  PROVE  /\ Agrees([map |-> map, order |-> order]) /\ Current([map |-> map, order |-> order])
         /\ order \in Seq(Pid) /\ \A pid \in DOMAIN map : map[pid].pid = pid
BY SoundTable DEF TableInv, Agrees

\* The queue that decides who is evicted lists exactly the processes in the
\* map, each once, and no more than CAP (proctable.rs:187-198).
THEOREM TableBounded == TableSpec => []TableAgrees
<1>1. TableInv => TableAgrees
  <2> SUFFICES ASSUME TableInv  PROVE TableAgrees
    OBVIOUS
  <2> DEFINE n == Len(order)
  <2>1. /\ DOMAIN map = {order[i] : i \in 1..n} /\ n <= CAP /\ n \in Nat
        /\ \A i, j \in 1..n : order[i] = order[j] => i = j
        /\ \A pid \in DOMAIN map : map[pid].pid = pid
        /\ order \in Seq(Pid) /\ DOMAIN order = 1..n
    BY InvFacts DEF Agrees
  <2>2. DOMAIN map = ToSet(order)
    BY <2>1 DEF ToSet
  <2>3. Cardinality(DOMAIN map) = n
    <3> DEFINE f == [i \in 1..n |-> order[i]]
    <3>1. f \in Bijection(1..n, DOMAIN map)
      BY <2>1 DEF Bijection, Injection, Surjection, IsInjective
    <3>2. ExistsBijection(1..n, DOMAIN map)
      BY <3>1 DEF ExistsBijection
    <3>3. IsFiniteSet(1..n) /\ Cardinality(1..n) = n
      <4>1. /\ IsFiniteSet(1..n)
            /\ Cardinality(1..n) = IF 1 > n THEN 0 ELSE n - 1 + 1
        BY <2>1, FS_Interval
      <4>2. QED
        BY <2>1, <4>1
    <3>4. QED
      BY <3>2, <3>3, FS_Bijection
  <2>4. QED
    BY <2>1, <2>2, <2>3 DEF TableAgrees
<1>2. QED
  BY <1>1, TableInvariant, PTL

\* The names a process is matched by are never those of an image or a command
\* line it no longer has (proctable.rs:41-43).
THEOREM NamesTrue == TableSpec => []NamesCurrent
<1>1. TableInv => NamesCurrent
  BY InvFacts DEF Current, NamesCurrent
<1>2. QED
  BY <1>1, TableInvariant, PTL

\* The engine always gets a lineage that starts at the process that acted, even
\* when its ancestors fill the table (lib.rs:60-66).
THEOREM ActorStays == TableSpec => []ActorKnown
<1>1. TableInv => ActorKnown
  <2> SUFFICES ASSUME TableInv, last # 0
               PROVE  Lineage(map, last) # <<>> /\ Lineage(map, last)[1].pid = last
    BY DEF ActorKnown
  <2>1. last \in DOMAIN map /\ \A q \in DOMAIN map : map[q].pid = q
    BY InvFacts DEF TableInv
  <2>2. Lineage(map, last) \in Walks(map, last)
    BY <2>1, LineageWalk
  <2>3. QED
    BY <2>2 DEF Walks
<1>2. QED
  BY <1>1, TableInvariant, PTL

\* A walk visits no process twice and is bounded, even when the parents
\* recorded form a cycle (proctable.rs:171-185).
THEOREM WalksEnd == TableSpec => []LineageSound
<1>1. TableInv => LineageSound
  <2> SUFFICES ASSUME TableInv, NEW pid \in DOMAIN map
               PROVE  LET walk == Lineage(map, pid)
                      IN  /\ Len(walk) <= MAX_DEPTH
                          /\ \A i, j \in DOMAIN walk : walk[i].pid = walk[j].pid => i = j
    BY DEF LineageSound
  <2>1. \A q \in DOMAIN map : map[q].pid = q
    BY InvFacts
  <2>2. Lineage(map, pid) \in Walks(map, pid) /\ Len(Lineage(map, pid)) <= MAX_DEPTH
    BY <2>1, LineageWalk
  <2>3. QED
    BY <2>2 DEF Walks
<1>2. QED
  BY <1>1, TableInvariant, PTL

-----------------------------------------------------------------------------
(* The host.                                                               *)

HostRecord == [parent : Pid \cup {0}, runs : Image, execed : BOOLEAN, born : Nat]

\* Pids are handed out in order, so a parent's is the smaller.
HostTyped ==
  /\ DOMAIN host \subseteq Pid /\ IsFiniteSet(DOMAIN host) /\ 1 \in DOMAIN host
  /\ \A p \in DOMAIN host : host[p] \in HostRecord
  /\ host[1].parent = 0 /\ host[1].runs = SHELL /\ host[1].execed
  /\ \A p \in Started : host[p].parent \in DOMAIN host /\ host[p].parent < p
  /\ \A p \in DOMAIN host : \A r \in Pid : r < p => r \in DOMAIN host

\* The lines of descent up to the session shell.
Lines(h) ==
  {u \in Seq(DOMAIN h) : /\ Len(u) >= 1 /\ h[u[Len(u)]].parent = 0
                         /\ \A i \in 1..(Len(u) - 1) : u[i + 1] = h[u[i]].parent}

HostInv == /\ HostTyped
           /\ \A p \in DOMAIN host : \E u \in Lines(host) : u[1] = p

\* Up a line the pids fall.
LEMMA LineFalls ==
  ASSUME HostTyped, NEW u \in Lines(host)
  PROVE  /\ u \in Seq(DOMAIN host) /\ Len(u) \in Nat \ {0}
         /\ \A i \in 1..Len(u) : u[i] \in DOMAIN host /\ u[i] \in Nat
         /\ \A i, j \in 1..Len(u) : i < j => u[j] < u[i]
<1> DEFINE n == Len(u)
<1>1. /\ u \in Seq(DOMAIN host) /\ n \in Nat /\ n >= 1
      /\ \A i \in 1..(n - 1) : u[i + 1] = host[u[i]].parent
  BY DEF Lines
<1>2. \A i \in 1..n : u[i] \in DOMAIN host /\ u[i] \in Nat /\ u[i] # 0
  <2>1. \A i \in 1..n : u[i] \in DOMAIN host
    BY <1>1
  <2>2. DOMAIN host \subseteq Nat \ {0}
    BY EventsAssumption DEF HostTyped
  <2>3. QED
    BY <2>1, <2>2
<1> HIDE DEF n
<1>3. \A i \in 1..(n - 1) : u[i + 1] < u[i]
  <2> SUFFICES ASSUME NEW i \in 1..(n - 1)  PROVE u[i + 1] < u[i]
    OBVIOUS
  <2>1. i \in 1..n /\ i + 1 \in 1..n
    BY <1>1
  <2>2. u[i] # 1
    BY <1>1, <1>2, <2>1 DEF HostTyped
  <2>3. QED
    BY <1>1, <1>2, <2>1, <2>2 DEF HostTyped, Started
<1>4. ASSUME NEW i \in 1..n, NEW j \in 1..n, i < j  PROVE u[j] < u[i]
  <2> DEFINE Bad == {k \in 1..n : i < k /\ ~(u[k] < u[i])}
  <2> SUFFICES ASSUME Bad # {}  PROVE FALSE
    BY <1>4
  <2>1. Bad \in SUBSET Nat
    BY <1>1
  <2>2. PICK k \in Bad : \A l \in Bad : k <= l
    BY <2>1, Least
  <2>3. k \in 1..n /\ i < k /\ ~(u[k] < u[i])
    OBVIOUS
  <2>4. k - 1 \in 1..n /\ k - 1 \in 1..(n - 1) /\ (k - 1) + 1 = k /\ ~(k <= k - 1)
    BY <1>1, <2>3
  <2>5. u[k] < u[k - 1]
    BY <1>3, <2>4
  <2>6. CASE k - 1 = i
    BY <2>3, <2>5, <2>6
  <2>7. CASE k - 1 # i
    <3>1. i < k - 1
      BY <1>1, <2>3, <2>4, <2>7
    <3>2. u[k - 1] < u[i]
      BY <2>2, <2>4, <3>1
    <3>3. u[k] \in Nat /\ u[k - 1] \in Nat /\ u[i] \in Nat
      BY <1>2, <2>3, <2>4
    <3>4. QED
      BY <2>3, <2>5, <3>2, <3>3
  <2>8. QED
    BY <2>6, <2>7
<1>5. QED
  BY <1>1, <1>2, <1>4 DEF n

\* No longer than the set its processes are drawn from.
LEMMA LineShort ==
  ASSUME HostTyped, NEW u \in Lines(host), NEW S, DOMAIN host \subseteq S, IsFiniteSet(S)
  PROVE  Len(u) <= Cardinality(S) /\ Cardinality(S) \in Nat
<1>1. PICK n \in Nat : n = Len(u)
  BY LineFalls
<1>2. /\ u \in Seq(DOMAIN host) /\ n # 0 /\ \A i \in 1..n : u[i] \in S /\ u[i] \in Nat
      /\ \A i, j \in 1..n : i < j => u[j] < u[i]
  BY <1>1, LineFalls
<1> DEFINE f == [i \in 1..n |-> u[i]]
<1>3. \A i, j \in 1..n : u[i] = u[j] => i = j
  <2> SUFFICES ASSUME NEW i \in 1..n, NEW j \in 1..n, u[i] = u[j], i # j  PROVE FALSE
    OBVIOUS
  <2>1. i < j \/ j < i
    OBVIOUS
  <2>2. u[i] < u[j] \/ u[j] < u[i]
    BY <1>2, <2>1
  <2>3. u[i] \in Nat /\ u[j] \in Nat
    BY <1>2
  <2>4. QED
    BY <2>2, <2>3
<1>4. f \in Injection(1..n, S)
  BY <1>2, <1>3 DEF Injection, IsInjective
<1>5. Cardinality(1..n) <= Cardinality(S)
  BY <1>4, FS_Injection
<1>6. Cardinality(1..n) = n
  <2>1. 1 \in Int /\ n \in Int
    OBVIOUS
  <2>2. Cardinality(1..n) = IF 1 > n THEN 0 ELSE n - 1 + 1
    BY <2>1, FS_Interval
  <2>3. QED
    BY <1>2, <2>2
<1>7. Cardinality(S) \in Nat
  BY FS_CardinalityType
<1>8. QED
  BY <1>1, <1>5, <1>6, <1>7

\* The first n + 1 of a sequence, or all of it.
Climbed(u, n) == [i \in 1..(IF n < Len(u) THEN n + 1 ELSE Len(u)) |-> u[i]]

\* The first n + 1 of it end where the climb stands, and are all of it in the end.
LEMMA ClimbedFacts ==
  ASSUME NEW S, NEW u \in Seq(S), Len(u) >= 1
  PROVE  /\ Climbed(u, 0) = <<u[1]>>
         /\ \A n \in Nat : n + 1 >= Len(u) => Climbed(u, n) = u
         /\ \A n \in Nat \ {0} :
              /\ n < Len(u) => /\ Climbed(u, n) = Append(Climbed(u, n - 1), u[n + 1])
                               /\ Last(Climbed(u, n - 1)) = u[n]
                               /\ DOMAIN Climbed(u, n - 1) = 1..n
                               /\ \A i \in 1..n : Climbed(u, n - 1)[i] = u[i]
              /\ n >= Len(u) => Climbed(u, n - 1) = u /\ Climbed(u, n) = u
<1> DEFINE l == Len(u)
<1>1. l \in Nat /\ l >= 1 /\ \A i \in 1..l : u[i] \in S
  OBVIOUS
<1>2. \A n \in Nat : n + 1 >= l => Climbed(u, n) = u
  BY <1>1 DEF Climbed
<1>3. ASSUME NEW n \in Nat, n < l
      PROVE  Climbed(u, n) \in Seq(S) /\ Len(Climbed(u, n)) = n + 1
             /\ Climbed(u, n) = [i \in 1..(n + 1) |-> u[i]]
  <2>1. Climbed(u, n) = [i \in 1..(n + 1) |-> u[i]]
    BY <1>3 DEF Climbed
  <2>2. \A i \in 1..(n + 1) : u[i] \in S
    BY <1>1, <1>3
  <2>3. QED
    BY <2>1, <2>2
<1>4. Climbed(u, 0) = <<u[1]>>
  <2>1. Climbed(u, 0) = [i \in 1..1 |-> u[i]]
    BY <1>1 DEF Climbed
  <2>2. <<u[1]>> = [i \in 1..1 |-> u[1]]
    OBVIOUS
  <2>3. QED
    BY <2>1, <2>2
<1>5. ASSUME NEW n \in Nat \ {0}, n < l
      PROVE  /\ Climbed(u, n) = Append(Climbed(u, n - 1), u[n + 1])
             /\ Last(Climbed(u, n - 1)) = u[n]
             /\ DOMAIN Climbed(u, n - 1) = 1..n
             /\ \A i \in 1..n : Climbed(u, n - 1)[i] = u[i]
  <2> DEFINE c == Climbed(u, n - 1)
  <2>1. c \in Seq(S) /\ Len(c) = n /\ c = [i \in 1..n |-> u[i]]
    BY <1>1, <1>3, <1>5
  <2>2. Climbed(u, n) = [i \in 1..(n + 1) |-> u[i]] /\ u[n + 1] \in S
    BY <1>1, <1>3, <1>5
  <2> HIDE DEF c
  <2>3. Append(c, u[n + 1]) = [i \in 1..(n + 1) |-> u[i]]
    BY <2>1, <2>2
  <2>4. Last(c) = u[n]
    BY <2>1 DEF Last
  <2>5. QED
    BY <2>1, <2>2, <2>3, <2>4 DEF c
<1>6. ASSUME NEW n \in Nat \ {0}, n >= l
      PROVE  Climbed(u, n - 1) = u /\ Climbed(u, n) = u
  BY <1>1, <1>2, <1>6
<1>7. QED
  BY <1>2, <1>4, <1>5, <1>6

\* The climb from a process reaches the session shell.
LEMMA AboveIs ==
  ASSUME HostTyped, NEW u \in Lines(host)
  PROVE  Above(u[1]) = u
<1> DEFINE p == u[1]
           m == Cardinality(DOMAIN host)
           On(c) == LET top == host[Last(c)].parent
                    IN  IF top = 0 \/ top \in ToSet(c) THEN c ELSE Append(c, top)
           Up(f) == f = [n \in 0..m |-> IF n = 0 THEN <<p>> ELSE On(f[n - 1])]
           g == [n \in 0..m |-> Climbed(u, n)]
           up == CHOOSE f : Up(f)
<1>1. /\ u \in Seq(DOMAIN host) /\ Len(u) \in Nat \ {0} /\ Len(u) <= m /\ m \in Nat
      /\ \A i, j \in 1..Len(u) : i < j => u[j] < u[i]
      /\ \A i \in 1..Len(u) : u[i] \in Nat /\ u[i] # 0
      /\ \A i \in 1..(Len(u) - 1) : u[i + 1] = host[u[i]].parent
      /\ host[u[Len(u)]].parent = 0
  <2>1. IsFiniteSet(DOMAIN host) /\ DOMAIN host \subseteq Nat \ {0}
    BY EventsAssumption DEF HostTyped
  <2>2. Len(u) <= m /\ m \in Nat
    BY <2>1, LineShort
  <2>3. /\ \A i \in 1..(Len(u) - 1) : u[i + 1] = host[u[i]].parent
        /\ host[u[Len(u)]].parent = 0
    BY DEF Lines
  <2>4. /\ u \in Seq(DOMAIN host) /\ Len(u) \in Nat \ {0}
        /\ \A i \in 1..Len(u) : u[i] \in DOMAIN host
        /\ \A i, j \in 1..Len(u) : i < j => u[j] < u[i]
    BY LineFalls
  <2>5. QED
    BY <2>1, <2>2, <2>3, <2>4
<1>2. PICK l \in Nat \ {0} : l = Len(u)
  BY <1>1
<1>3. Climbed(u, 0) = <<p>>
  BY <1>1, ClimbedFacts
<1> HIDE DEF m
<1>4. ASSUME NEW n \in 1..m, NEW c, c = Climbed(u, n - 1)
      PROVE  Climbed(u, n) = On(c)
  <2>0. n \in Nat \ {0}
    BY <1>1
  <2>1. CASE n < l
    <3>1. /\ Climbed(u, n) = Append(c, u[n + 1]) /\ Last(c) = u[n] /\ DOMAIN c = 1..n
          /\ \A i \in 1..n : c[i] = u[i]
      BY <1>1, <1>2, <1>4, <2>0, <2>1, ClimbedFacts
    <3>2. host[u[n]].parent = u[n + 1] /\ u[n + 1] # 0 /\ u[n + 1] \in Nat
      BY <1>1, <1>2, <2>0, <2>1
    <3>3. \A i \in 1..n : u[i] # u[n + 1]
      <4> SUFFICES ASSUME NEW i \in 1..n, u[i] = u[n + 1]  PROVE FALSE
        OBVIOUS
      <4>1. i \in 1..l /\ n + 1 \in 1..l /\ i < n + 1
        BY <1>2, <2>0, <2>1
      <4>2. u[n + 1] < u[i]
        BY <1>1, <1>2, <4>1
      <4>3. QED
        BY <3>2, <4>2
    <3>4. u[n + 1] \notin ToSet(c)
      BY <3>1, <3>3 DEF ToSet
    <3>5. QED
      BY <3>1, <3>2, <3>4
  <2>2. CASE n >= l
    <3>1. c = u /\ Climbed(u, n) = u
      BY <1>1, <1>2, <1>4, <2>0, <2>2, ClimbedFacts
    <3>2. Last(u) = u[l]
      BY <1>2 DEF Last
    <3>3. QED
      BY <1>1, <1>2, <3>1, <3>2
  <2>3. QED
    BY <1>2, <2>0, <2>1, <2>2
<1>5. \A n \in 1..m : n - 1 \in 0..m /\ n \in 0..m /\ n # 0
  BY <1>1
<1>6. 0 \in 0..m /\ m \in 0..m /\ \A n \in 0..m : n # 0 => n \in 1..m
  BY <1>1
<1>7. Up(g)
  <2>1. \A n \in 1..m : g[n - 1] = Climbed(u, n - 1)
    BY <1>5
  <2>2. \A n \in 0..m : g[n] = Climbed(u, n)
    OBVIOUS
  <2> HIDE DEF g
  <2> HIDE DEF On
  <2>3. ASSUME NEW n \in 1..m  PROVE g[n] = On(g[n - 1])
    BY <1>4, <1>5, <2>1, <2>2
  <2>4. g[0] = <<p>>
    BY <1>3, <1>6, <2>2
  <2>5. g = [n \in 0..m |-> g[n]]
    BY DEF g
  <2>6. QED
    BY <1>6, <2>3, <2>4, <2>5
<1>8. Up(up)
  <2> HIDE DEF Up
  <2>1. QED
    BY <1>7, Zenon
<1>9. Above(p) = up[m]
  BY DEF Above, m
<1> HIDE DEF up
<1>10. \A n \in 0..m : up[n] = g[n]
  <2>1. up[0] = g[0]
    BY <1>6, <1>7, <1>8
  <2>2. ASSUME NEW n \in 1..m, up[n - 1] = g[n - 1]  PROVE up[n] = g[n]
    <3> HIDE DEF On, g
    <3>1. up[n] = On(up[n - 1]) /\ g[n] = On(g[n - 1])
      BY <1>5, <1>7, <1>8
    <3>2. QED
      BY <2>2, <3>1
  <2> HIDE DEF g, Up
  <2>3. QED
    <3>1. SameLoop(up, g, m)
      BY <2>1, <2>2 DEF SameLoop
    <3>2. QED
      BY <1>1, <3>1, LoopIs
<1>11. g[m] = Climbed(u, m)
  BY <1>6
<1>12. Climbed(u, m) = u
  BY <1>1, ClimbedFacts
<1>13. QED
  BY <1>6, <1>9, <1>10, <1>11, <1>12

\* A line of descent that the table m holds up to its top, within the walk's depth.
WholeLine(m, u) ==
  /\ \A q \in DOMAIN m : m[q].pid = q
  /\ u \in Seq(DOMAIN m) /\ Len(u) >= 1 /\ Len(u) <= MAX_DEPTH
  /\ \A i, j \in 1..Len(u) : u[i] = u[j] => i = j
  /\ \A i \in 1..(Len(u) - 1) : m[u[i]].ppid = u[i + 1]
  /\ m[u[Len(u)]].ppid \notin DOMAIN m

\* The lineage of a process that has a whole line is that line.
LEMMA LineageIs ==
  ASSUME NEW m, NEW u, WholeLine(m, u)
  PROVE  Lineage(m, u[1]) = [i \in 1..Len(u) |-> m[u[i]]]
<1> DEFINE p == u[1]
           n == MAX_DEPTH - 1
           Up(f) == f = [i \in 0..n |-> IF i = 0 THEN <<m[p]>> ELSE Further(m, f[i - 1])]
           walk == CHOOSE f : Up(f)
           S == {m[q] : q \in DOMAIN m}
           v == [i \in 1..Len(u) |-> m[u[i]]]
           g == [i \in 0..n |-> Climbed(v, i)]
<1>0. /\ \A q \in DOMAIN m : m[q].pid = q
      /\ u \in Seq(DOMAIN m) /\ Len(u) >= 1 /\ Len(u) <= MAX_DEPTH
      /\ \A i, j \in 1..Len(u) : u[i] = u[j] => i = j
      /\ \A i \in 1..(Len(u) - 1) : m[u[i]].ppid = u[i + 1]
      /\ m[u[Len(u)]].ppid \notin DOMAIN m
  BY DEF WholeLine
<1>1. n \in Nat /\ n + 1 = MAX_DEPTH
  BY ProcTableAssumption
<1>2. PICK l \in Nat \ {0} : l = Len(u)
  BY <1>0
<1>3. \A i \in 1..l : u[i] \in DOMAIN m /\ m[u[i]] \in S /\ m[u[i]].pid = u[i]
  BY <1>0, <1>2
<1>4. v \in Seq(S) /\ Len(v) = l /\ v[1] = m[p] /\ \A i \in 1..l : v[i] = m[u[i]]
  BY <1>0, <1>2, <1>3
<1> HIDE DEF v, S
<1>5. Climbed(v, 0) = <<m[p]>>
  BY <1>0, <1>2, <1>4, ClimbedFacts
<1>6. ASSUME NEW i \in 1..n, NEW c, c = Climbed(v, i - 1)
      PROVE  Climbed(v, i) = Further(m, c)
  <2>0. i \in Nat \ {0}
    BY <1>0, <1>1
  <2>1. CASE i < l
    <3>1. /\ Climbed(v, i) = Append(c, v[i + 1]) /\ Last(c) = v[i] /\ DOMAIN c = 1..i
          /\ \A k \in 1..i : c[k] = v[k]
      BY <1>0, <1>2, <1>4, <1>6, <2>0, <2>1, ClimbedFacts
    <3>2. i \in 1..l /\ i + 1 \in 1..l /\ i \in 1..(l - 1) /\ \A k \in 1..i : k \in 1..l /\ k # i + 1
      BY <1>0, <1>2, <2>0, <2>1
    <3>3. Last(c).ppid = u[i + 1] /\ u[i + 1] \in DOMAIN m /\ v[i + 1] = m[u[i + 1]]
      BY <1>0, <1>2, <1>3, <1>4, <3>1, <3>2
    <3>4. \A k \in 1..i : c[k].pid # u[i + 1]
      <4> SUFFICES ASSUME NEW k \in 1..i, c[k].pid = u[i + 1]  PROVE FALSE
        OBVIOUS
      <4>1. c[k].pid = u[k]
        BY <1>0, <1>3, <1>4, <3>1, <3>2
      <4>2. QED
        BY <1>0, <1>2, <3>2, <4>1
    <3>5. QED
      BY <3>1, <3>3, <3>4 DEF Further, Onward
  <2>2. CASE i >= l
    <3>1. c = v /\ Climbed(v, i) = v
      BY <1>0, <1>2, <1>4, <1>6, <2>0, <2>2, ClimbedFacts
    <3>2. Last(v) = m[u[l]]
      BY <1>0, <1>2, <1>4 DEF Last
    <3>3. QED
      BY <1>0, <1>2, <3>1, <3>2 DEF Further, Onward
  <2>3. QED
    BY <1>0, <1>2, <2>0, <2>1, <2>2
<1>7. /\ \A i \in 1..n : i - 1 \in 0..n /\ i \in 0..n /\ i # 0
      /\ 0 \in 0..n /\ n \in 0..n /\ \A i \in 0..n : i # 0 => i \in 1..n
  BY <1>0, <1>1
<1> HIDE DEF n
<1>8. Up(g)
  <2>1. \A i \in 0..n : g[i] = Climbed(v, i)
    OBVIOUS
  <2>2. g = [i \in 0..n |-> g[i]]
    OBVIOUS
  <2> HIDE DEF g
  <2>3. \A i \in 1..n : g[i] = Further(m, g[i - 1])
    BY <1>0, <1>6, <1>7, <2>1
  <2>4. g[0] = <<m[p]>>
    BY <1>0, <1>5, <1>7, <2>1
  <2>5. QED
    BY <1>0, <1>7, <2>2, <2>3, <2>4
<1>9. Up(walk)
  <2> HIDE DEF Up
  <2>1. QED
    BY <1>0, <1>8, Zenon
<1>10. Lineage(m, p) = walk[n]
  BY <1>0, <1>2, <1>3 DEF Lineage, n
<1> HIDE DEF walk
<1>11. \A i \in 0..n : walk[i] = g[i]
  <2>1. walk[0] = g[0]
    BY <1>0, <1>7, <1>8, <1>9
  <2>2. ASSUME NEW i \in 1..n, walk[i - 1] = g[i - 1]  PROVE walk[i] = g[i]
    <3> HIDE DEF g
    <3>1. walk[i] = Further(m, walk[i - 1]) /\ g[i] = Further(m, g[i - 1])
      BY <1>0, <1>7, <1>8, <1>9
    <3>2. QED
      BY <2>2, <3>1
  <2> HIDE DEF g, Up
  <2>3. QED
    <3>1. SameLoop(walk, g, n)
      BY <2>1, <2>2 DEF SameLoop
    <3>2. n \in Nat
      BY <1>0, <1>1
    <3>3. QED
      BY <3>1, <3>2, LoopIs
<1>12. g[n] = Climbed(v, n)
  BY <1>0, <1>7
<1>13. Climbed(v, n) = v
  BY <1>0, <1>1, <1>2, <1>4, ClimbedFacts
<1>14. QED
  BY <1>0, <1>7, <1>10, <1>11, <1>12, <1>13 DEF v

\* A copy that answers to an install's program is below a process that was
\* started as one and still is.
Copies(h) ==
  \A u \in Lines(h) : \A i \in 1..Len(u) :
    ~h[u[i]].execed /\ Installs(h[u[i]].runs) =>
      \E j \in 1..Len(u) : j > i /\ h[u[j]].execed /\ Installs(h[u[j]].runs)

\* Before anything has happened there is the session shell.
LEMMA HostStart == HostInit => HostInv /\ Copies(host)
<1> SUFFICES ASSUME HostInit  PROVE HostInv /\ Copies(host)
  OBVIOUS
<1>1. DOMAIN host = {1} /\ host[1] = [parent |-> 0, runs |-> SHELL, execed |-> TRUE, born |-> 1]
  BY DEF HostInit
<1>2. IsFiniteSet(DOMAIN host)
  BY <1>1, FS_Singleton
<1>3. host[1] \in HostRecord
  BY <1>1, HostAssumption DEF HostRecord
<1>4. \A r \in Pid : ~(r < 1)
  BY EventsAssumption
<1>5. HostTyped
  <2>1. Started = {} /\ 1 \in Pid
    BY <1>1, HostAssumption DEF Started
  <2>2. \A p \in DOMAIN host : \A r \in Pid : r < p => r \in DOMAIN host
    BY <1>1, <1>4
  <2>3. host[1].parent = 0 /\ host[1].runs = SHELL /\ host[1].execed
    BY <1>1
  <2>4. DOMAIN host \subseteq Pid /\ 1 \in DOMAIN host /\ \A p \in DOMAIN host : host[p] \in HostRecord
    BY <1>1, <1>3, <2>1
  <2>5. QED
    BY <1>2, <2>1, <2>2, <2>3, <2>4 DEF HostTyped
<1>6. <<1>> \in Lines(host)
  BY <1>1 DEF Lines
<1>7. HostInv
  BY <1>1, <1>5, <1>6 DEF HostInv
<1>8. Copies(host)
  <2> SUFFICES ASSUME NEW u \in Lines(host), NEW i \in 1..Len(u)  PROVE host[u[i]].execed
    BY DEF Copies
  <2>1. u[i] \in DOMAIN host
    BY <1>5, LineFalls
  <2>2. QED
    BY <1>1, <2>1
<1>9. QED
  BY <1>7, <1>8

\* A fork: the new process has the next pid, and a line of its own.
LEMMA ForkFacts ==
  ASSUME HostInv, PidsFresh, NEW p \in DOMAIN host, Fork(p)
  PROVE  \E q \in Pid \ DOMAIN host :
           /\ DOMAIN host' = DOMAIN host \cup {q} /\ p < q
           /\ \A r \in Pid : r < q => r \in DOMAIN host
           /\ host'[q] = [parent |-> p, runs |-> host[p].runs, execed |-> FALSE, born |-> 1]
           /\ \A r \in DOMAIN host : host'[r] = host[r]
<1>1. PICK q \in Free(p) :
        host' = [r \in DOMAIN host \cup {q} |->
                   IF r = q THEN [parent |-> p, runs |-> host[p].runs, execed |-> FALSE,
                                  born |-> IF q \in DOMAIN host THEN host[q].born + 1 ELSE 1]
                            ELSE host[r]]
  BY DEF Fork
<1>2. q \in Pid \ DOMAIN host /\ \A r \in Pid : r < q => r \in DOMAIN host
  BY DEF Free, PidsFresh
<1>3. p \in Nat /\ q \in Nat /\ p # q /\ ~(q < p)
  <2>1. DOMAIN host \subseteq Pid /\ \A r \in Pid : r < p => r \in DOMAIN host
    BY DEF HostInv, HostTyped
  <2>2. QED
    BY <1>2, <2>1, EventsAssumption
<1>4. p < q
  BY <1>3
<1>5. /\ DOMAIN host' = DOMAIN host \cup {q}
      /\ host'[q] = [parent |-> p, runs |-> host[p].runs, execed |-> FALSE, born |-> 1]
      /\ \A r \in DOMAIN host : host'[r] = host[r]
  BY <1>1, <1>2
<1>6. QED
  BY <1>2, <1>4, <1>5

\* The lines after a fork: those before, and the new process on top of one.
LEMMA ForkLines ==
  ASSUME HostInv, NEW q \in Pid \ DOMAIN host, NEW p \in DOMAIN host,
         DOMAIN host' = DOMAIN host \cup {q}, host'[q].parent = p,
         \A r \in DOMAIN host : host'[r] = host[r]
  PROVE  /\ \A u \in Lines(host) : u \in Lines(host')
         /\ \A u \in Lines(host) : u[1] = p => \E v \in Lines(host') : v[1] = q
         /\ \A u \in Lines(host') :
              u \in Lines(host) \/
              /\ u[1] = q
              /\ \E v \in Lines(host) : /\ v[1] = p /\ Len(u) = Len(v) + 1
                                        /\ \A i \in 1..Len(v) : u[i + 1] = v[i]
<1>0. HostTyped
  BY DEF HostInv
<1>1. ASSUME NEW u \in Lines(host)  PROVE u \in Lines(host')
  <2>1. /\ u \in Seq(DOMAIN host') /\ Len(u) >= 1 /\ Len(u) \in Nat
        /\ \A i \in 1..Len(u) : u[i] \in DOMAIN host
    BY <1>0, LineFalls DEF Lines
  <2>2. /\ host[u[Len(u)]].parent = 0
        /\ \A i \in 1..(Len(u) - 1) : u[i + 1] = host[u[i]].parent
    BY DEF Lines
  <2>3. \A i \in 1..Len(u) : host'[u[i]] = host[u[i]]
    BY <2>1
  <2>4. Len(u) \in 1..Len(u) /\ \A i \in 1..(Len(u) - 1) : i \in 1..Len(u)
    BY <2>1
  <2>5. QED
    BY <2>1, <2>2, <2>3, <2>4 DEF Lines
<1>2. ASSUME NEW u \in Lines(host), u[1] = p  PROVE \E v \in Lines(host') : v[1] = q
  <2>0. PICK l \in Nat \ {0} : l = Len(u)
    BY <1>0, LineFalls
  <2> DEFINE v == [i \in 1..(l + 1) |-> IF i = 1 THEN q ELSE u[i - 1]]
  <2>1. u \in Lines(host')
    BY <1>1
  <2>2. /\ \A i \in 1..l : u[i] \in DOMAIN host'
        /\ host'[u[l]].parent = 0
        /\ \A i \in 1..(l - 1) : u[i + 1] = host'[u[i]].parent
    BY <2>0, <2>1 DEF Lines
  <2>3. \A i \in 1..(l + 1) : i # 1 => i - 1 \in 1..l /\ (i - 1) + 1 = i
    BY <2>0
  <2>4. \A i \in 1..(l + 1) : v[i] \in DOMAIN host'
    BY <2>2, <2>3
  <2>5. v \in Seq(DOMAIN host') /\ Len(v) = l + 1
    BY <2>0, <2>4
  <2>6. v[1] = q /\ \A i \in 1..l : v[i + 1] = u[i]
    BY <2>0
  <2> HIDE DEF v
  <2>7. host'[v[l + 1]].parent = 0
    BY <2>0, <2>2, <2>6
  <2>8. ASSUME NEW i \in 1..l  PROVE v[i + 1] = host'[v[i]].parent
    <3>1. CASE i = 1
      BY <1>2, <2>6, <3>1
    <3>2. CASE i # 1
      <4>1. i - 1 \in 1..(l - 1) /\ i - 1 \in 1..l /\ (i - 1) + 1 = i
        BY <2>0, <3>2
      <4>2. v[i] = u[i - 1] /\ v[i + 1] = u[i]
        BY <2>6, <4>1
      <4>3. QED
        BY <2>2, <4>1, <4>2
    <3>3. QED
      BY <3>1, <3>2
  <2>9. v \in Lines(host')
    <3>1. Len(v) >= 1 /\ Len(v) - 1 = l
      BY <2>0, <2>5
    <3>2. QED
      BY <2>5, <2>7, <2>8, <3>1 DEF Lines
  <2>10. QED
    BY <2>6, <2>9
<1>3. ASSUME NEW u \in Lines(host')
      PROVE  u \in Lines(host) \/
             /\ u[1] = q
             /\ \E v \in Lines(host) : /\ v[1] = p /\ Len(u) = Len(v) + 1
                                       /\ \A i \in 1..Len(v) : u[i + 1] = v[i]
  <2>0. PICK l \in Nat \ {0} : l = Len(u)
    BY DEF Lines
  <2>1. /\ \A i \in 1..l : u[i] \in DOMAIN host \cup {q}
        /\ host'[u[l]].parent = 0 /\ u \in Seq(DOMAIN host')
        /\ \A i \in 1..(l - 1) : u[i + 1] = host'[u[i]].parent
    BY <2>0 DEF Lines
  <2>2. 0 \notin DOMAIN host /\ q # 0 /\ p \in DOMAIN host
    BY <1>0, EventsAssumption DEF HostTyped
  <2>3. \A r \in DOMAIN host : host[r].parent \in DOMAIN host \cup {0}
    BY <1>0 DEF HostTyped, Started
  <2>4. ASSUME NEW i \in 1..(l - 1)  PROVE u[i + 1] \in DOMAIN host
    <3>1. i \in 1..l /\ i + 1 \in 1..l
      BY <2>0
    <3>2. u[i + 1] # 0
      BY <2>1, <2>2, <3>1
    <3>3. u[i + 1] = host'[u[i]].parent
      BY <2>1
    <3>4. CASE u[i] = q
      BY <3>3, <3>4
    <3>5. CASE u[i] \in DOMAIN host
      BY <2>3, <3>2, <3>3, <3>5
    <3>6. QED
      BY <2>1, <3>1, <3>4, <3>5
  <2>5. \A i \in 1..l : i # 1 => u[i] \in DOMAIN host
    <3> SUFFICES ASSUME NEW i \in 1..l, i # 1  PROVE u[i] \in DOMAIN host
      OBVIOUS
    <3>1. i - 1 \in 1..(l - 1) /\ (i - 1) + 1 = i
      BY <2>0
    <3>2. QED
      BY <2>4, <3>1
  <2>6. 1 \in 1..l /\ l \in 1..l /\ \A i \in 1..(l - 1) : i \in 1..l
    BY <2>0
  <2>7. CASE u[1] \in DOMAIN host
    <3>1. \A i \in 1..l : u[i] \in DOMAIN host /\ host'[u[i]] = host[u[i]]
      BY <2>5, <2>7
    <3>2. u \in Seq(DOMAIN host)
      BY <2>0, <2>1, <3>1
    <3>3. host[u[l]].parent = 0 /\ \A i \in 1..(l - 1) : u[i + 1] = host[u[i]].parent
      BY <2>1, <2>6, <3>1
    <3>4. QED
      BY <2>0, <3>2, <3>3 DEF Lines
  <2>8. CASE u[1] \notin DOMAIN host
    <3>1. u[1] = q
      BY <2>1, <2>6, <2>8
    <3>2. l # 1
      BY <2>1, <2>2, <3>1
    <3>3. PICK k \in Nat \ {0} : k = l - 1
      BY <2>0, <3>2
    <3> DEFINE v == [i \in 1..k |-> u[i + 1]]
    <3>4. \A i \in 1..k : i + 1 \in 1..l /\ i + 1 # 1 /\ i + 1 = i + 1
      BY <2>0, <3>3
    <3>5. \A i \in 1..k : v[i] = u[i + 1] /\ v[i] \in DOMAIN host /\ host'[v[i]] = host[v[i]]
      BY <2>5, <3>4
    <3>6. v \in Seq(DOMAIN host) /\ Len(v) = k
      <4>1. \A i \in 1..k : v[i] \in DOMAIN host
        BY <2>5, <3>4
      <4>2. k \in Nat
        BY <3>3
      <4>3. QED
        BY <4>1, <4>2
    <3> HIDE DEF v
    <3>7. host[v[k]].parent = 0
      BY <2>0, <2>1, <3>3, <3>5
    <3>8. ASSUME NEW i \in 1..(k - 1)  PROVE v[i + 1] = host[v[i]].parent
      <4>1. i \in 1..k /\ i + 1 \in 1..k /\ i + 1 \in 1..(l - 1)
        BY <2>0, <3>3
      <4>2. u[(i + 1) + 1] = host'[u[i + 1]].parent
        BY <2>1, <4>1
      <4>3. QED
        BY <3>5, <4>1, <4>2
    <3>9. v \in Lines(host)
      BY <3>3, <3>6, <3>7, <3>8 DEF Lines
    <3>10. v[1] = p
      <4>1. 1 \in 1..(l - 1) /\ 1 \in 1..k
        BY <2>0, <3>3
      <4>2. u[1 + 1] = host'[u[1]].parent
        BY <2>1, <4>1
      <4>3. QED
        BY <3>1, <3>5, <4>1, <4>2
    <3>11. Len(u) = Len(v) + 1
      BY <2>0, <3>3, <3>6
    <3>12. QED
      BY <3>1, <3>5, <3>6, <3>9, <3>10, <3>11
  <2>9. QED
    BY <2>7, <2>8
<1>4. QED
  BY <1>1, <1>2, <1>3

\* A forked copy joins the tree below the process that forked it.
LEMMA ForkHost ==
  ASSUME HostInv, PidsFresh, NEW p \in DOMAIN host, Fork(p)
  PROVE  HostInv' /\ (Copies(host) => Copies(host'))
<1>0. HostTyped
  BY DEF HostInv
<1>1. PICK q \in Pid \ DOMAIN host :
        /\ DOMAIN host' = DOMAIN host \cup {q} /\ p < q
        /\ \A r \in Pid : r < q => r \in DOMAIN host
        /\ host'[q] = [parent |-> p, runs |-> host[p].runs, execed |-> FALSE, born |-> 1]
        /\ \A r \in DOMAIN host : host'[r] = host[r]
  BY ForkFacts
<1>2. host'[q].parent = p /\ host'[q].runs = host[p].runs /\ host'[q].execed = FALSE
  BY <1>1
<1>3. /\ \A u \in Lines(host) : u \in Lines(host')
      /\ \A u \in Lines(host) : u[1] = p => \E v \in Lines(host') : v[1] = q
      /\ \A u \in Lines(host') :
           u \in Lines(host) \/
           /\ u[1] = q
           /\ \E v \in Lines(host) : /\ v[1] = p /\ Len(u) = Len(v) + 1
                                     /\ \A i \in 1..Len(v) : u[i + 1] = v[i]
  BY <1>1, <1>2, ForkLines
<1>4. HostTyped'
  <2>1. /\ DOMAIN host' \subseteq Pid /\ 1 \in DOMAIN host' /\ 1 # q /\ 1 \in DOMAIN host
        /\ IsFiniteSet(DOMAIN host')
    BY <1>0, <1>1, FS_AddElement DEF HostTyped
  <2>2. \A r \in DOMAIN host' : host'[r] \in HostRecord
    <3>1. host[p] \in HostRecord /\ p \in Pid
      BY <1>0 DEF HostTyped
    <3>2. host'[q] \in HostRecord
      BY <1>1, <3>1 DEF HostRecord
    <3>3. QED
      BY <1>0, <1>1, <3>2 DEF HostTyped
  <2>3. host'[1].parent = 0 /\ host'[1].runs = SHELL /\ host'[1].execed
    BY <1>0, <1>1 DEF HostTyped
  <2>4. \A r \in DOMAIN host' \ {1} : host'[r].parent \in DOMAIN host' /\ host'[r].parent < r
    BY <1>0, <1>1, <1>2 DEF HostTyped, Started
  <2>5. \A s \in DOMAIN host' : \A r \in Pid : r < s => r \in DOMAIN host'
    BY <1>0, <1>1 DEF HostTyped
  <2>6. QED
    BY <2>1, <2>2, <2>3, <2>4, <2>5 DEF HostTyped, Started
<1>5. \A r \in DOMAIN host' : \E u \in Lines(host') : u[1] = r
  BY <1>1, <1>3 DEF HostInv
<1>6. ASSUME Copies(host), NEW u \in Lines(host'), NEW i \in 1..Len(u),
             ~host'[u[i]].execed, Installs(host'[u[i]].runs)
      PROVE  \E j \in 1..Len(u) : j > i /\ host'[u[j]].execed /\ Installs(host'[u[j]].runs)
  <2>1. CASE u \in Lines(host)
    <3>1. \A k \in 1..Len(u) : u[k] \in DOMAIN host
      BY <1>0, <2>1, LineFalls
    <3>2. \A k \in 1..Len(u) : host'[u[k]] = host[u[k]]
      BY <1>1, <3>1
    <3>3. PICK j \in 1..Len(u) : j > i /\ host[u[j]].execed /\ Installs(host[u[j]].runs)
      BY <1>6, <2>1, <3>2 DEF Copies
    <3>4. QED
      BY <3>2, <3>3
  <2>2. CASE u \notin Lines(host)
    <3>1. PICK v \in Lines(host) : /\ u[1] = q /\ v[1] = p /\ Len(u) = Len(v) + 1
                                   /\ \A k \in 1..Len(v) : u[k + 1] = v[k]
      BY <1>3, <2>2
    <3>2. PICK l \in Nat \ {0} : l = Len(v)
      BY <1>0, LineFalls
    <3>3. \A k \in 1..l : v[k] \in DOMAIN host /\ host'[u[k + 1]] = host[v[k]] /\ k + 1 \in 1..Len(u)
      BY <1>0, <1>1, <3>1, <3>2, LineFalls
    \* Whoever is a copy of an installer, in u, is one in v, or v starts with one.
    <3>4. PICK k \in 1..l : Installs(host[v[k]].runs) /\ k >= i - 1 /\ (k = i - 1 => ~host[v[k]].execed)
      <4>1. CASE i = 1
        <5>1. Installs(host[v[1]].runs) /\ 1 \in 1..l /\ 1 >= i - 1 /\ 1 # i - 1
          BY <1>2, <1>6, <3>1, <3>2, <4>1
        <5>2. QED
          BY <5>1
      <4>2. CASE i # 1
        <5>1. i - 1 \in 1..l /\ (i - 1) + 1 = i
          BY <3>1, <3>2, <4>2
        <5>2. host'[u[i]] = host[v[i - 1]]
          BY <3>3, <5>1
        <5>3. QED
          BY <1>6, <5>1, <5>2
      <4>3. QED
        BY <4>1, <4>2
    <3>5. PICK j \in 1..l : /\ j + 1 > i
                            /\ host[v[j]].execed /\ Installs(host[v[j]].runs)
      <4>1. CASE host[v[k]].execed
        <5>1. k + 1 > i
          BY <3>4, <4>1
        <5>2. QED
          BY <3>4, <4>1, <5>1
      <4>2. CASE ~host[v[k]].execed
        <5>1. PICK j \in 1..l : j > k /\ host[v[j]].execed /\ Installs(host[v[j]].runs)
          BY <1>6, <3>2, <3>4, <4>2 DEF Copies
        <5>2. j + 1 > i
          BY <3>4, <5>1
        <5>3. QED
          BY <5>1, <5>2
      <4>3. QED
        BY <4>1, <4>2
    <3>6. QED
      BY <3>3, <3>5
  <2>3. QED
    BY <2>1, <2>2
<1>7. QED
  BY <1>4, <1>5, <1>6 DEF HostInv, Copies

\* A process loads a program: nobody's parents change.
LEMMA LoadFacts ==
  ASSUME HostTyped, NEW p \in Started, NEW img \in Image, Load(p, img)
  PROVE  /\ DOMAIN host' = DOMAIN host /\ Lines(host') = Lines(host)
         /\ p \in DOMAIN host /\ p # 1
         /\ host'[p].runs = img /\ host'[p].execed /\ host'[p].parent = host[p].parent
         /\ host'[p] \in HostRecord
         /\ \A r \in DOMAIN host : r # p => host'[r] = host[r]
<1>1. /\ p \in DOMAIN host /\ p # 1 /\ host[p] \in HostRecord
      /\ \A r \in DOMAIN host : host[r] \in HostRecord
  BY DEF HostTyped, Started
<1>2. host' = [host EXCEPT ![p].runs = img, ![p].execed = TRUE]
  BY DEF Load
<1>3. /\ DOMAIN host' = DOMAIN host
      /\ \A r \in DOMAIN host : r # p => host'[r] = host[r]
  BY <1>1, <1>2
<1>4. /\ host'[p].runs = img /\ host'[p].execed /\ host'[p].parent = host[p].parent
      /\ host'[p] \in HostRecord
  <2>1. host'[p] = [[host[p] EXCEPT !.runs = img] EXCEPT !.execed = TRUE]
    BY <1>1, <1>2
  <2>2. QED
    BY <1>1, <2>1 DEF HostRecord
<1>5. \A r \in DOMAIN host : host'[r].parent = host[r].parent
  BY <1>3, <1>4
<1>6. Lines(host') = Lines(host)
  <2>1. ASSUME NEW u \in Seq(DOMAIN host), Len(u) >= 1
        PROVE  u \in Lines(host') <=> u \in Lines(host)
    <3>1. /\ Len(u) \in 1..Len(u) /\ \A i \in 1..(Len(u) - 1) : i \in 1..Len(u)
          /\ \A i \in 1..Len(u) : u[i] \in DOMAIN host
      BY <2>1
    <3>2. \A i \in 1..Len(u) : host'[u[i]].parent = host[u[i]].parent
      BY <1>5, <3>1
    <3>3. QED
      BY <1>3, <2>1, <3>1, <3>2 DEF Lines
  <2>2. \A u \in Lines(host') : u \in Seq(DOMAIN host) /\ Len(u) >= 1
    BY <1>3 DEF Lines
  <2>3. \A u \in Lines(host) : u \in Seq(DOMAIN host) /\ Len(u) >= 1
    BY DEF Lines
  <2>4. QED
    BY <2>1, <2>2, <2>3
<1>7. QED
  BY <1>1, <1>3, <1>4, <1>6

\* A new program changes nothing about the tree.
LEMMA LoadHost ==
  ASSUME HostInv, NEW p \in Started, NEW img \in Image, Load(p, img)
  PROVE  HostInv' /\ (ToolsStay /\ Copies(host) => Copies(host'))
<1>0. HostTyped
  BY DEF HostInv
<1>1. /\ DOMAIN host' = DOMAIN host /\ Lines(host') = Lines(host)
      /\ p \in DOMAIN host /\ p # 1
      /\ host'[p].runs = img /\ host'[p].execed /\ host'[p].parent = host[p].parent
      /\ host'[p] \in HostRecord
      /\ \A r \in DOMAIN host : r # p => host'[r] = host[r]
  BY <1>0, LoadFacts
<1>2. HostTyped'
  <2>1. /\ DOMAIN host' \subseteq Pid /\ IsFiniteSet(DOMAIN host') /\ 1 \in DOMAIN host'
        /\ host'[1].parent = 0 /\ host'[1].runs = SHELL /\ host'[1].execed
    BY <1>0, <1>1 DEF HostTyped
  <2>2. \A r \in DOMAIN host' : host'[r] \in HostRecord
    BY <1>0, <1>1 DEF HostTyped
  <2>3. \A r \in DOMAIN host' \ {1} : host'[r].parent \in DOMAIN host' /\ host'[r].parent < r
    BY <1>0, <1>1 DEF HostTyped, Started
  <2>4. \A s \in DOMAIN host' : \A r \in Pid : r < s => r \in DOMAIN host'
    BY <1>0, <1>1 DEF HostTyped
  <2>5. QED
    BY <2>1, <2>2, <2>3, <2>4 DEF HostTyped, Started
<1>3. HostInv'
  BY <1>1, <1>2 DEF HostInv
<1>4. ASSUME ToolsStay, Copies(host), NEW u \in Lines(host), NEW i \in 1..Len(u),
             ~host'[u[i]].execed, Installs(host'[u[i]].runs)
      PROVE  \E j \in 1..Len(u) : j > i /\ host'[u[j]].execed /\ Installs(host'[u[j]].runs)
  <2>1. u[i] # p /\ u[i] \in DOMAIN host /\ host'[u[i]] = host[u[i]]
    BY <1>0, <1>1, <1>4, LineFalls
  <2>2. PICK j \in 1..Len(u) : j > i /\ host[u[j]].execed /\ Installs(host[u[j]].runs)
    BY <1>4, <2>1 DEF Copies
  <2>3. u[j] \in DOMAIN host
    BY <1>0, LineFalls
  <2>4. u[j] = p => Installs(img)
    <3> SUFFICES ASSUME u[j] = p  PROVE Installs(img)
      OBVIOUS
    <3>1. <<host[p].runs, img>> \in REEXEC /\ Installs(host[p].runs)
      BY <2>2 DEF Load
    <3>2. QED
      BY <1>4, <3>1 DEF ToolsStay
  <2>5. host'[u[j]].execed /\ Installs(host'[u[j]].runs)
    BY <1>1, <2>2, <2>3, <2>4
  <2>6. QED
    BY <2>2, <2>5
<1>5. ToolsStay /\ Copies(host) => Copies(host')
  BY <1>1, <1>4 DEF Copies
<1>6. QED
  BY <1>3, <1>5

-----------------------------------------------------------------------------
(* What the process table knows of the host.                               *)

TrueImage(h, q, e) ==
  LET i == image[h[q].runs]
  IN  e.comm = i.comm /\ e.exe \in {None, i.exe} /\ e.cmdline \in {None, i.cmdline}
FullImage(h, q, e) ==
  LET i == image[h[q].runs] IN e.exe = i.exe /\ e.cmdline = i.cmdline

\* All the table says is so, but for the image of process x.
TellsOf(h, t, x) ==
  \A q \in DOMAIN t.map : /\ q \in DOMAIN h /\ t.map[q].ppid \in {0, h[q].parent}
                          /\ q # x => TrueImage(h, q, t.map[q])

\* It has every program that was started, but for that of process x.
Whole(h, t, x) ==
  \A q \in DOMAIN h \ {1, x} :
    h[q].execed => q \in DOMAIN t.map /\ FullImage(h, q, t.map[q])

\* There is room for all.
Roomy(h) == IsFiniteSet(DOMAIN h) /\ Cardinality(DOMAIN h) <= CAP

\* No process is forgotten, or becomes another, or gets another parent.
Keeps(t, s) == \A q \in DOMAIN t.map : /\ q \in DOMAIN s.map
                                      /\ s.map[q].start_ts = t.map[q].start_ts
                                      /\ t.map[q].ppid \in {0, s.map[q].ppid}

\* It knows process q and its parent.
Link(h, t, q) == /\ q \in DOMAIN t.map /\ t.map[q].ppid = h[q].parent
                 /\ h[q].parent \in DOMAIN t.map \cup {0}

\* It knows the line above every program that was started as far as an event
\* tells of it, but for that of process x.
Linked(h, t, x) ==
  \A u \in Lines(h) :
    u[1] \notin {1, x} /\ h[u[1]].execed =>
      \A i \in 1..Len(u) : i <= ANCESTRY_MAX => Link(h, t, u[i])

\* What it knows it keeps.
LEMMA LinkKept ==
  ASSUME NEW t, NEW s, NEW h, NEW x, NEW q, Keeps(t, s), TellsOf(h, s, x), Link(h, t, q)
  PROVE  Link(h, s, q)
<1>1. /\ q \in DOMAIN t.map /\ t.map[q].ppid = h[q].parent
      /\ h[q].parent \in DOMAIN t.map \cup {0}
  BY DEF Link
<1>2. q \in DOMAIN s.map /\ t.map[q].ppid \in {0, s.map[q].ppid}
      /\ h[q].parent \in DOMAIN s.map \cup {0}
  BY <1>1 DEF Keeps
<1>3. s.map[q].ppid \in {0, h[q].parent}
  BY <1>2 DEF TellsOf
<1>4. QED
  BY <1>1, <1>2, <1>3 DEF Link

\* Who is in the table after an insert; nobody leaves it while it has room.
LEMMA InsertMap ==
  ASSUME NEW t \in Sound, NEW pid \in Pid, ~Knows(t, pid), NEW p,
         NEW h, DOMAIN t.map \subseteq DOMAIN h, pid \in DOMAIN h
  PROVE  /\ \A q \in DOMAIN Insert(t, pid, p).map :
              \/ q = pid /\ Insert(t, pid, p).map[q] = Named(p)
              \/ q # pid /\ q \in DOMAIN t.map /\ Insert(t, pid, p).map[q] = t.map[q]
         /\ Roomy(h) => DOMAIN Insert(t, pid, p).map = DOMAIN t.map \cup {pid}
<1> DEFINE queue   == Append(t.order, pid)
           evicted == IF Len(queue) > CAP THEN {Head(queue)} ELSE {}
           m == [q \in (DOMAIN t.map \cup {pid}) \ evicted |-> IF q = pid THEN Named(p) ELSE t.map[q]]
<1>1. Insert(t, pid, p).map = m
  BY DEF Insert
<1>2. \A q \in DOMAIN m :
        \/ q = pid /\ m[q] = Named(p)
        \/ q # pid /\ q \in DOMAIN t.map /\ m[q] = t.map[q]
  <2> HIDE DEF evicted
  <2>1. QED
    OBVIOUS
<1>3. ASSUME Roomy(h)  PROVE evicted = {}
  <2>1. /\ DOMAIN t.map \subseteq Pid /\ t.order \in Seq(Pid) /\ Agrees(t)
    BY SoundTable
  <2>2. PICK n \in Nat : n = Len(t.order)
    BY <2>1
  <2>3. /\ \A i \in 1..n : t.order[i] \in DOMAIN h /\ t.order[i] # pid
        /\ \A i, j \in 1..n : t.order[i] = t.order[j] => i = j
    BY <2>1, <2>2 DEF Agrees, Knows
  <2> DEFINE f == [i \in 1..(n + 1) |-> IF i = n + 1 THEN pid ELSE t.order[i]]
  <2>4. \A i \in 1..(n + 1) : i # n + 1 => i \in 1..n
    BY <2>2
  <2>5. f \in Injection(1..(n + 1), DOMAIN h)
    <3>1. f \in [1..(n + 1) -> DOMAIN h]
      BY <2>3, <2>4
    <3>2. \A i, j \in 1..(n + 1) : f[i] = f[j] => i = j
      BY <2>3, <2>4
    <3> HIDE DEF f
    <3>3. QED
      BY <3>1, <3>2 DEF Injection, IsInjective
  <2>6. IsFiniteSet(DOMAIN h) /\ Cardinality(DOMAIN h) <= CAP
    BY <1>3 DEF Roomy
  <2>7. Cardinality(1..(n + 1)) <= Cardinality(DOMAIN h)
    BY <2>5, <2>6, FS_Injection
  <2>8. Cardinality(1..(n + 1)) = n + 1
    <3>1. 1 \in Int /\ n + 1 \in Int
      BY <2>2
    <3>2. Cardinality(1..(n + 1)) = IF 1 > n + 1 THEN 0 ELSE (n + 1) - 1 + 1
      BY <3>1, FS_Interval
    <3>3. QED
      BY <2>2, <3>2
  <2>9. Cardinality(DOMAIN h) \in Nat /\ CAP \in Nat
    BY <2>6, FS_CardinalityType, ProcTableAssumption
  <2>10. n + 1 <= CAP
    BY <2>2, <2>6, <2>7, <2>8, <2>9
  <2>11. Len(queue) = n + 1
    BY <2>1, <2>2
  <2>12. QED
    BY <2>2, <2>9, <2>10, <2>11
<1>4. Roomy(h) => DOMAIN m = DOMAIN t.map \cup {pid}
  BY <1>3
<1> HIDE DEF m
<1>5. QED
  BY <1>1, <1>2, <1>4

\* A process that takes its place in the table, and is told of rightly.
LEMMA InsertTells ==
  ASSUME NEW t \in Sound, NEW pid \in Pid, ~Knows(t, pid), NEW p, NEW h, NEW x,
         TellsOf(h, t, x), pid \in DOMAIN h, Named(p).ppid \in {0, h[pid].parent},
         TrueImage(h, pid, Named(p))
  PROVE  LET s == Insert(t, pid, p) IN
         /\ TellsOf(h, s, x) /\ (pid \in DOMAIN s.map => s.map[pid] = Named(p))
         /\ Roomy(h) => Keeps(t, s) /\ pid \in DOMAIN s.map /\ (Whole(h, t, x) => Whole(h, s, x))
         /\ Roomy(h) /\ FullImage(h, pid, Named(p)) /\ Whole(h, t, pid) => Whole(h, s, 0)
         /\ TellsOf(h, t, pid) => TellsOf(h, s, 0)
<1> DEFINE s == Insert(t, pid, p)
<1>1. /\ \A q \in DOMAIN s.map :
           \/ q = pid /\ s.map[q] = Named(p)
           \/ q # pid /\ q \in DOMAIN t.map /\ s.map[q] = t.map[q]
      /\ Roomy(h) => DOMAIN s.map = DOMAIN t.map \cup {pid}
  <2>1. DOMAIN t.map \subseteq DOMAIN h
    BY DEF TellsOf
  <2>2. QED
    BY <2>1, InsertMap
<1>2. pid \notin DOMAIN t.map
  BY DEF Knows
<1> HIDE DEF s
<1>3. TellsOf(h, s, x)
  BY <1>1 DEF TellsOf
<1>4. Roomy(h) => Keeps(t, s)
  BY <1>1, <1>2 DEF Keeps
<1>5. Roomy(h) => (Whole(h, t, x) => Whole(h, s, x))
  BY <1>1, <1>2 DEF Whole
<1>6. Roomy(h) /\ FullImage(h, pid, Named(p)) /\ Whole(h, t, pid) => Whole(h, s, 0)
  <2> SUFFICES ASSUME Roomy(h), FullImage(h, pid, Named(p)), Whole(h, t, pid),
                      NEW q \in DOMAIN h \ {1, 0}, h[q].execed
               PROVE  q \in DOMAIN s.map /\ FullImage(h, q, s.map[q])
    BY DEF Whole
  <2>1. CASE q = pid
    BY <1>1, <1>2, <2>1
  <2>2. CASE q # pid
    BY <1>1, <1>2, <2>2 DEF Whole
  <2>3. QED
    BY <2>1, <2>2
<1>7. TellsOf(h, t, pid) => TellsOf(h, s, 0)
  BY <1>1 DEF TellsOf
<1>8. QED
  BY <1>1, <1>3, <1>4, <1>5, <1>6, <1>7 DEF s

\* A process that is told its parent, rightly.
Relinked(h, t, x, pid, parent, s) ==
  /\ TellsOf(h, s, x) /\ Keeps(t, s) /\ pid \in DOMAIN s.map /\ s.map[pid].ppid = parent
  /\ Whole(h, t, x) => Whole(h, s, x)
LEMMA RelinkTells ==
  ASSUME NEW t \in Sound, NEW h, NEW x, TellsOf(h, t, x), NEW pid \in DOMAIN t.map,
         t.map[pid].ppid = 0, NEW parent \in {0, h[pid].parent},
         NEW s, s = [t EXCEPT !.map[pid].ppid = parent]
  PROVE  Relinked(h, t, x, pid, parent, s)
<1> DEFINE p == [t.map[pid] EXCEPT !.ppid = parent]
<1>1. t.map \in [DOMAIN t.map -> Proc] /\ t = [map |-> t.map, order |-> t.order]
  BY SoundTable
<1>2. t.map[pid] \in Proc
  BY <1>1
<1>3. /\ p.ppid = parent /\ p.start_ts = t.map[pid].start_ts /\ p.comm = t.map[pid].comm
      /\ p.exe = t.map[pid].exe /\ p.cmdline = t.map[pid].cmdline
  BY <1>2 DEF Proc
<1>4. s.map = [t.map EXCEPT ![pid] = p]
  BY <1>1
<1> HIDE DEF p
<1>5. DOMAIN s.map = DOMAIN t.map /\ \A q \in DOMAIN t.map : s.map[q] = IF q = pid THEN p ELSE t.map[q]
  BY <1>1, <1>4
<1>6. TellsOf(h, s, x)
  BY <1>3, <1>5 DEF TellsOf, TrueImage
<1>7. Keeps(t, s)
  BY <1>3, <1>5 DEF Keeps
<1>8. Whole(h, t, x) => Whole(h, s, x)
  BY <1>3, <1>5 DEF Whole, FullImage
<1>9. QED
  BY <1>3, <1>5, <1>6, <1>7, <1>8 DEF Relinked

\* What a table has of the i-th of an event's ancestors.
Listed(ancestry, s, i) ==
  /\ ancestry[i].pid \in DOMAIN s.map
  /\ i < Len(ancestry) => s.map[ancestry[i].pid].ppid = ancestry[i + 1].pid

\* An ancestor learnt of an event that names it rightly.
LEMMA AncestorTells ==
  ASSUME NEW t \in Sound, NEW h, NEW x, TellsOf(h, t, x),
         NEW ancestry \in Seq([pid : Pid, comm : Name]), NEW i \in 1..Len(ancestry),
         ancestry[i].pid \in DOMAIN h,
         ancestry[i].comm = image[h[ancestry[i].pid].runs].comm,
         i < Len(ancestry) => h[ancestry[i].pid].parent = ancestry[i + 1].pid
  PROVE  LET s == ObserveAncestor(t, ancestry, i) IN
         /\ TellsOf(h, s, x)
         /\ Roomy(h) => /\ Keeps(t, s) /\ Listed(ancestry, s, i)
                        /\ (Whole(h, t, x) => Whole(h, s, x))
<1> DEFINE pid    == ancestry[i].pid
           parent == IF i < Len(ancestry) THEN ancestry[i + 1].pid ELSE 0
           p == [pid |-> pid, ppid |-> parent, comm |-> ancestry[i].comm, exe |-> None,
                 cmdline |-> None, uid |-> NoUid, container |-> FALSE,
                 start_ts |-> 0, names |-> {}]
           s == ObserveAncestor(t, ancestry, i)
<1>1. ancestry[i] \in [pid : Pid, comm : Name]
  BY ElementOf
<1>2. pid \in Pid
  BY <1>1
<1>3. s = IF ~Knows(t, pid) THEN Insert(t, pid, p)
          ELSE IF t.map[pid].ppid = 0 THEN [t EXCEPT !.map[pid].ppid = parent] ELSE t
  BY DEF ObserveAncestor
<1>4. CASE ~Knows(t, pid)
  <2>1. s = Insert(t, pid, p)
    BY <1>3, <1>4
  <2>2. /\ Named(p).ppid = parent /\ parent \in {0, h[pid].parent}
        /\ TrueImage(h, pid, Named(p))
    BY DEF Named, TrueImage
  <2>3. pid \in DOMAIN h
    OBVIOUS
  <2> HIDE DEF s, p, pid, parent
  <2>4. /\ TellsOf(h, s, x) /\ (pid \in DOMAIN s.map => s.map[pid] = Named(p))
        /\ Roomy(h) => Keeps(t, s) /\ pid \in DOMAIN s.map /\ (Whole(h, t, x) => Whole(h, s, x))
    BY <1>2, <1>4, <2>1, <2>2, <2>3, InsertTells
  <2>5. Roomy(h) => pid \in DOMAIN s.map /\ s.map[pid].ppid = parent
    BY <2>2, <2>4
  <2>6. Roomy(h) => Listed(ancestry, s, i)
    BY <2>5 DEF Listed, pid, parent
  <2>7. QED
    BY <2>4, <2>6 DEF s
<1>5. CASE Knows(t, pid)
  <2>1. pid \in DOMAIN t.map /\ t.map[pid].ppid \in {0, h[pid].parent}
    BY <1>5 DEF Knows, TellsOf
  <2>2. parent \in {0, h[pid].parent} /\ (i < Len(ancestry) => h[pid].parent = parent)
    OBVIOUS
  <2>3. CASE t.map[pid].ppid = 0
    <3>1. s = [t EXCEPT !.map[pid].ppid = parent]
      BY <1>3, <1>5, <2>3
    <3> HIDE DEF s, p, pid, parent
    <3>2. Relinked(h, t, x, pid, parent, s)
      BY <2>1, <2>2, <2>3, <3>1, RelinkTells
    <3>3. /\ TellsOf(h, s, x) /\ Keeps(t, s) /\ pid \in DOMAIN s.map /\ s.map[pid].ppid = parent
          /\ Whole(h, t, x) => Whole(h, s, x)
      BY <3>1, <3>2 DEF Relinked
    <3>4. Listed(ancestry, s, i)
      BY <3>3 DEF Listed, pid, parent
    <3>5. QED
      BY <3>3, <3>4 DEF s
  <2>4. CASE t.map[pid].ppid # 0
    <3>1. s = t
      BY <1>3, <1>5, <2>4
    <3>2. i < Len(ancestry) => t.map[pid].ppid = parent
      BY <2>1, <2>2, <2>4
    <3>3. Listed(ancestry, t, i)
      BY <2>1, <3>2 DEF Listed
    <3> HIDE DEF s, p
    <3>4. QED
      BY <3>1, <3>3 DEF Keeps, s
  <2>5. QED
    BY <2>3, <2>4
<1>6. QED
  BY <1>4, <1>5

\* The ancestors an event names, when it names them rightly.
AncestryOf(h, ancestry) ==
  \A i \in 1..Len(ancestry) :
    /\ ancestry[i].pid \in DOMAIN h /\ ancestry[i].comm = image[h[ancestry[i].pid].runs].comm
    /\ i < Len(ancestry) => h[ancestry[i].pid].parent = ancestry[i + 1].pid

\* What the table has learnt of the first n of them.
Learnt(h, x, t, ancestry, s, n) ==
  /\ s \in Sound /\ TellsOf(h, s, x)
  /\ Roomy(h) => /\ Keeps(t, s) /\ (Whole(h, t, x) => Whole(h, s, x))
                 /\ \A i \in 1..n : Listed(ancestry, s, i)

\* What a table has of an ancestor it keeps.
LEMMA ListedKept ==
  ASSUME NEW ancestry \in Seq([pid : Pid, comm : Name]), NEW r, NEW s, Keeps(r, s),
         NEW i \in 1..Len(ancestry), Listed(ancestry, r, i)
  PROVE  Listed(ancestry, s, i)
<1> DEFINE q == ancestry[i].pid
<1>1. /\ q \in DOMAIN r.map /\ (i < Len(ancestry) => r.map[q].ppid = ancestry[i + 1].pid)
  BY DEF Listed
<1>2. q \in DOMAIN s.map /\ r.map[q].ppid \in {0, s.map[q].ppid}
  BY <1>1 DEF Keeps
<1>3. i < Len(ancestry) => ancestry[i + 1].pid # 0
  <2> SUFFICES ASSUME i < Len(ancestry)  PROVE ancestry[i + 1].pid # 0
    OBVIOUS
  <2>1. i + 1 \in 1..Len(ancestry)
    OBVIOUS
  <2>2. ancestry[i + 1] \in [pid : Pid, comm : Name]
    BY <2>1, ElementOf
  <2>3. QED
    BY <2>2, EventsAssumption
<1>4. QED
  BY <1>1, <1>2, <1>3 DEF Listed

\* One ancestor more.
LEMMA LearntStep ==
  ASSUME NEW t \in Sound, NEW h, NEW x,
         NEW ancestry \in Seq([pid : Pid, comm : Name]), AncestryOf(h, ancestry),
         NEW n \in 1..Len(ancestry), NEW r, Learnt(h, x, t, ancestry, r, n - 1)
  PROVE  Learnt(h, x, t, ancestry, ObserveAncestor(r, ancestry, n), n)
<1> DEFINE s == ObserveAncestor(r, ancestry, n)
<1>1. /\ r \in Sound /\ TellsOf(h, r, x)
      /\ Roomy(h) => /\ Keeps(t, r) /\ (Whole(h, t, x) => Whole(h, r, x))
                     /\ \A i \in 1..(n - 1) : Listed(ancestry, r, i)
  BY DEF Learnt
<1>2. /\ ancestry[n].pid \in DOMAIN h /\ ancestry[n].comm = image[h[ancestry[n].pid].runs].comm
      /\ n < Len(ancestry) => h[ancestry[n].pid].parent = ancestry[n + 1].pid
  BY DEF AncestryOf
<1>3. /\ TellsOf(h, s, x)
      /\ Roomy(h) => /\ Keeps(r, s) /\ Listed(ancestry, s, n)
                     /\ (Whole(h, r, x) => Whole(h, s, x))
  BY <1>1, <1>2, AncestorTells
<1>4. s \in Sound
  BY <1>1, AncestorSound
<1> HIDE DEF s
<1>5. Roomy(h) => Keeps(t, s)
  BY <1>1, <1>3 DEF Keeps
<1>6. Roomy(h) => \A i \in 1..n : Listed(ancestry, s, i)
  <2> SUFFICES ASSUME Roomy(h), NEW i \in 1..n  PROVE Listed(ancestry, s, i)
    OBVIOUS
  <2>1. CASE i = n
    BY <1>3, <2>1
  <2>2. CASE i # n
    <3>1. i \in 1..(n - 1)
      BY <2>2
    <3>2. Listed(ancestry, r, i) /\ i \in 1..Len(ancestry)
      BY <1>1, <3>1
    <3>3. QED
      BY <1>3, <3>2, ListedKept
  <2>3. QED
    BY <2>1, <2>2
<1>7. QED
  BY <1>1, <1>3, <1>4, <1>5, <1>6 DEF Learnt, s

\* All of them.
LEMMA AncestryTells ==
  ASSUME NEW t \in Sound, NEW h, NEW x, TellsOf(h, t, x),
         NEW ancestry \in Seq([pid : Pid, comm : Name]), AncestryOf(h, ancestry)
  PROVE  Learnt(h, x, t, ancestry, ObserveAncestry(t, ancestry), Len(ancestry))
<1>1. PICK n \in Nat : n = Len(ancestry)
  OBVIOUS
<1>2. PICK f : Learning(f, t, ancestry)
  BY AncestryLoop
<1>3. /\ f[0] = t /\ ObserveAncestry(t, ancestry) = f[n]
      /\ \A i \in 1..n : f[i] = ObserveAncestor(f[i - 1], ancestry, i)
  BY <1>1, <1>2 DEF Learning
<1> DEFINE S == {i \in 0..n : Learnt(h, x, t, ancestry, f[i], i)}
<1>4. 0 \in 0..n /\ n \in 0..n /\ \A i \in 1..n : i \in 0..n /\ i - 1 \in 0..n
  BY <1>1
<1>5. 0 \in S
  <2>1. Learnt(h, x, t, ancestry, t, 0)
    BY DEF Learnt, Keeps
  <2>2. QED
    BY <1>3, <1>4, <2>1
<1>6. ASSUME NEW i \in 1..n, i - 1 \in S  PROVE i \in S
  <2>1. Learnt(h, x, t, ancestry, f[i - 1], i - 1)
    BY <1>6
  <2>2. Learnt(h, x, t, ancestry, f[i], i)
    BY <1>1, <1>3, <2>1, LearntStep
  <2>3. QED
    BY <1>4, <2>2
<1> HIDE DEF S
<1>7. n \in S
  BY <1>1, <1>4, <1>5, <1>6, CountUp
<1>8. Learnt(h, x, t, ancestry, f[n], n)
  BY <1>7 DEF S
<1>9. QED
  BY <1>1, <1>3, <1>8

\* What an event says of its own process, said rightly.
LEMMA ReimagedTells ==
  ASSUME NEW p \in Proc, NEW ev \in EventType, p.ppid \in {0, ParentOf(ev)}
  PROVE  LET q == Reimaged(p, ev) IN
         /\ q.ppid = ParentOf(ev) /\ q.start_ts = p.start_ts
         /\ q.comm = ev.comm /\ q.exe = ExeOf(ev) /\ q.cmdline = ev.cmdline
<1> DEFINE ppid == ParentOf(ev)
           q == [p EXCEPT
                   !.start_ts  = StartOf(p, ev),
                   !.ppid      = IF ppid # 0 THEN ppid ELSE @,
                   !.comm      = ev.comm,
                   !.exe       = ExeOf(ev),
                   !.cmdline   = ev.cmdline,
                   !.uid       = ev.uid,
                   !.container = ev.container]
<1>1. Reimaged(p, ev) = Named(q)
  BY DEF Reimaged
<1>2. q \in Proc /\ q.ppid = ppid /\ q.start_ts = p.start_ts
      /\ q.comm = ev.comm /\ q.exe = ExeOf(ev) /\ q.cmdline = ev.cmdline
  BY EventFacts DEF Proc, StartOf
<1> HIDE DEF q
<1>3. QED
  BY <1>1, <1>2 DEF Named, Proc

\* What an event fills in of its own process.
LEMMA FilledTells ==
  ASSUME NEW p \in Proc, NEW ev \in EventType
  PROVE  LET q == Filled(p, ev) IN
         /\ q.ppid = (IF p.ppid = 0 THEN ParentOf(ev) ELSE p.ppid)
         /\ q.start_ts = p.start_ts /\ q.comm = p.comm
         /\ q.exe = (IF p.exe = None THEN ExeOf(ev) ELSE p.exe)
         /\ q.cmdline = (IF p.cmdline = None THEN ev.cmdline ELSE p.cmdline)
<1> DEFINE q == FilledIn(p, ev)
<1>1. /\ q \in Proc
      /\ q.ppid = (IF p.ppid = 0 THEN ParentOf(ev) ELSE p.ppid)
      /\ q.start_ts = p.start_ts /\ q.comm = p.comm
      /\ q.exe = (IF p.exe = None THEN ExeOf(ev) ELSE p.exe)
      /\ q.cmdline = (IF p.cmdline = None THEN ev.cmdline ELSE p.cmdline)
  <2>1. (p.container \/ ev.container) \in BOOLEAN
    OBVIOUS
  <2>2. \E b \in BOOLEAN :
          q = [p EXCEPT !.ppid      = IF @ = 0 THEN ParentOf(ev) ELSE @,
                        !.uid       = ev.uid,
                        !.exe       = IF @ = None THEN ExeOf(ev) ELSE @,
                        !.cmdline   = IF @ = None THEN ev.cmdline ELSE @,
                        !.container = b]
    BY <2>1 DEF FilledIn
  <2> HIDE DEF q
  <2>3. QED
    BY <2>2, EventFacts DEF Proc
<1>2. Filled(p, ev) \in {Named(q), q}
  BY DEF Filled
<1> HIDE DEF q
<1>3. QED
  BY <1>1, <1>2 DEF Named, Proc

\* A table entry put in the place of another.
LEMMA PutTells ==
  ASSUME NEW t \in Sound, NEW pid \in DOMAIN t.map, NEW p, NEW h, NEW x, x \in {0, pid},
         TellsOf(h, t, x), p.ppid = h[pid].parent, p.start_ts = t.map[pid].start_ts,
         TrueImage(h, pid, p), FullImage(h, pid, p)
  PROVE  LET s == [t EXCEPT !.map[pid] = p] IN
         TellsOf(h, s, 0) /\ Keeps(t, s) /\ (Whole(h, t, x) => Whole(h, s, 0)) /\ s.map[pid] = p
<1> DEFINE s == [t EXCEPT !.map[pid] = p]
<1>1. DOMAIN s.map = DOMAIN t.map /\ \A q \in DOMAIN t.map : s.map[q] = IF q = pid THEN p ELSE t.map[q]
  BY SoundTable
<1> HIDE DEF s
<1>2. TellsOf(h, s, 0) /\ Keeps(t, s)
  BY <1>1 DEF TellsOf, Keeps
<1>3. ASSUME Whole(h, t, x), NEW q \in DOMAIN h \ {1, 0}, h[q].execed
      PROVE  q \in DOMAIN s.map /\ FullImage(h, q, s.map[q])
  <2>1. CASE q = pid
    BY <1>1, <1>3, <2>1
  <2>2. CASE q # pid
    <3>1. q \in DOMAIN t.map /\ FullImage(h, q, t.map[q])
      BY <1>3, <2>2 DEF Whole
    <3>2. QED
      BY <1>1, <2>2, <3>1
  <2>3. QED
    BY <2>1, <2>2
<1>4. Whole(h, t, x) => Whole(h, s, 0)
  BY <1>3 DEF Whole
<1>5. QED
  BY <1>1, <1>2, <1>4 DEF s

\* An event that says of its process what is so.
Truthful(h, ev) ==
  LET i == image[h[ev.pid].runs]
  IN  /\ ev.pid \in DOMAIN h /\ ParentOf(ev) = h[ev.pid].parent /\ h[ev.pid].parent # 0
      /\ ev.comm = i.comm /\ ExeOf(ev) = i.exe /\ ev.cmdline = i.cmdline

\* What an event teaches of its own process is so.
LEMMA SelfTells ==
  ASSUME NEW t \in Sound, NEW ev \in EventType, NEW h, Truthful(h, ev),
         NEW x, x = (IF ev.action = "Exec" THEN ev.pid ELSE 0), TellsOf(h, t, x)
  PROVE  LET s == ObserveSelf(t, ev) IN
         /\ TellsOf(h, s, 0)
         /\ Roomy(h) => /\ Keeps(t, s) /\ (Whole(h, t, x) => Whole(h, s, 0))
                        /\ s.map[ev.pid].ppid = h[ev.pid].parent
<1> DEFINE pid == ev.pid
<1>1. /\ pid \in DOMAIN h /\ ParentOf(ev) = h[pid].parent /\ h[pid].parent # 0
      /\ ev.comm = image[h[pid].runs].comm /\ ExeOf(ev) = image[h[pid].runs].exe
      /\ ev.cmdline = image[h[pid].runs].cmdline
  BY DEF Truthful
<1>2. pid \in Pid /\ 0 \notin Pid
  BY EventFacts, EventsAssumption
<1>3. CASE ~Knows(t, pid)
  <2> DEFINE p == Fresh(ev)
             s == Insert(t, pid, p)
  <2>1. ObserveSelf(t, ev) = s
    BY <1>3 DEF ObserveSelf
  <2>2. Named(p).ppid = h[pid].parent /\ TrueImage(h, pid, Named(p)) /\ FullImage(h, pid, Named(p))
    BY <1>1 DEF Named, TrueImage, FullImage, Fresh
  <2> HIDE DEF p
  <2>3. /\ TellsOf(h, s, x) /\ (pid \in DOMAIN s.map => s.map[pid] = Named(p))
        /\ Roomy(h) => Keeps(t, s) /\ pid \in DOMAIN s.map /\ (Whole(h, t, x) => Whole(h, s, x))
        /\ Roomy(h) /\ FullImage(h, pid, Named(p)) /\ Whole(h, t, pid) => Whole(h, s, 0)
        /\ TellsOf(h, t, pid) => TellsOf(h, s, 0)
    BY <1>1, <1>2, <1>3, <2>2, InsertTells
  <2> HIDE DEF s
  <2>4. CASE x = 0
    BY <2>1, <2>2, <2>3, <2>4
  <2>5. CASE x = pid
    BY <2>1, <2>2, <2>3, <2>5
  <2>6. QED
    BY <2>4, <2>5
<1>4. CASE Knows(t, pid)
  <2> DEFINE p == t.map[pid]
  <2>1. pid \in DOMAIN t.map /\ p \in Proc
    BY <1>4, SoundTable DEF Knows
  <2>2. p.ppid \in {0, h[pid].parent} /\ (x # pid => TrueImage(h, pid, p))
    BY <2>1 DEF TellsOf
  <2>3. CASE ev.action = "Exec"
    <3> DEFINE q == Reimaged(p, ev)
    <3>1. x = pid /\ ObserveSelf(t, ev) = [t EXCEPT !.map[pid] = q]
      BY <1>4, <2>1, <2>3, SoundTable DEF ObserveSelf
    <3>2. /\ q.ppid = h[pid].parent /\ q.start_ts = p.start_ts
          /\ q.comm = ev.comm /\ q.exe = ExeOf(ev) /\ q.cmdline = ev.cmdline
      BY <1>1, <2>1, <2>2, ReimagedTells
    <3> HIDE DEF q
    <3>3. TrueImage(h, pid, q) /\ FullImage(h, pid, q)
      BY <1>1, <3>2 DEF TrueImage, FullImage
    <3> HIDE DEF p
    <3>4. QED
      BY <2>1, <2>2, <3>1, <3>2, <3>3, PutTells DEF p
  <2>4. CASE ev.action # "Exec"
    <3> DEFINE q == Filled(p, ev)
    <3>1. x = 0 /\ x # pid /\ ObserveSelf(t, ev) = [t EXCEPT !.map[pid] = q]
      BY <1>2, <1>4, <2>1, <2>4, SoundTable DEF ObserveSelf
    <3>2. /\ q.ppid = (IF p.ppid = 0 THEN ParentOf(ev) ELSE p.ppid)
          /\ q.start_ts = p.start_ts /\ q.comm = p.comm
          /\ q.exe = (IF p.exe = None THEN ExeOf(ev) ELSE p.exe)
          /\ q.cmdline = (IF p.cmdline = None THEN ev.cmdline ELSE p.cmdline)
      BY <2>1, FilledTells
    <3> HIDE DEF q
    <3>3. TrueImage(h, pid, q) /\ FullImage(h, pid, q) /\ q.ppid = h[pid].parent
      BY <1>1, <2>2, <3>1, <3>2 DEF TrueImage, FullImage
    <3> HIDE DEF p
    <3>4. QED
      BY <2>1, <3>1, <3>2, <3>3, PutTells DEF p
  <2>5. QED
    BY <2>3, <2>4
<1>5. QED
  BY <1>3, <1>4

\* The table after an event: true of the host, and its lines complete.
Informed(h, t, ev, s, x) ==
  /\ s \in Sound /\ ev.pid \in DOMAIN s.map /\ TellsOf(h, s, 0)
  /\ Roomy(h) => /\ Keeps(t, s) /\ (Whole(h, t, x) => Whole(h, s, 0))
                 /\ s.map[ev.pid].ppid = h[ev.pid].parent
                 /\ \A i \in 1..Len(ev.ancestry) : Listed(ev.ancestry, s, i)

\* What an event teaches altogether is so.
LEMMA ObservedTells ==
  ASSUME NEW t \in Sound, NEW ev \in EventType, NEW h, Truthful(h, ev), AncestryOf(h, ev.ancestry),
         NEW x, x = (IF ev.action = "Exec" THEN ev.pid ELSE 0), TellsOf(h, t, x)
  PROVE  Informed(h, t, ev, Observed(t, ev), x)
<1> DEFINE r == ObserveAncestry(t, ev.ancestry)
           s == ObserveSelf(r, ev)
<1>1. Observed(t, ev) = s
  BY DEF Observed
<1>2. ev.ancestry \in Seq([pid : Pid, comm : Name])
  BY EventFacts
<1>3. Learnt(h, x, t, ev.ancestry, r, Len(ev.ancestry))
  BY <1>2, AncestryTells
<1>4. /\ r \in Sound /\ TellsOf(h, r, x)
      /\ Roomy(h) => /\ Keeps(t, r) /\ (Whole(h, t, x) => Whole(h, r, x))
                     /\ \A i \in 1..Len(ev.ancestry) : Listed(ev.ancestry, r, i)
  BY <1>3 DEF Learnt
<1> HIDE DEF r
<1>5. s \in Sound /\ ev.pid \in DOMAIN s.map
  BY <1>4, SelfSound
<1>6. /\ TellsOf(h, s, 0)
      /\ Roomy(h) => /\ Keeps(r, s) /\ (Whole(h, r, x) => Whole(h, s, 0))
                     /\ s.map[ev.pid].ppid = h[ev.pid].parent
  BY <1>4, SelfTells
<1> HIDE DEF s
<1>7. Roomy(h) => Keeps(t, s)
  BY <1>4, <1>6 DEF Keeps
<1>8. Roomy(h) => \A i \in 1..Len(ev.ancestry) : Listed(ev.ancestry, s, i)
  BY <1>2, <1>4, <1>6, ListedKept
<1>9. QED
  BY <1>1, <1>4, <1>5, <1>6, <1>7, <1>8 DEF Informed

-----------------------------------------------------------------------------
(* An event of the host.                                                   *)

\* The host as an event finds it: the program of the process it is about may be new.
ViewOf(h) ==
  /\ DOMAIN h = DOMAIN host
  /\ \A q \in DOMAIN host : h[q] \in HostRecord /\ h[q].parent = host[q].parent

Deed == [action : Action, path : Path \cup {None}, loopback : BOOLEAN, odd_port : BOOLEAN]

\* How many of n ancestors an event names.
Heard(n) == IF n < ANCESTRY_MAX THEN n ELSE ANCESTRY_MAX

\* What a normalized event says, and of whom.
LEMMA EventIs ==
  ASSUME HostInv, NEW h, ViewOf(h), NEW p \in Started, NEW act \in Deed, NEW ts \in Nat,
         NEW u \in Lines(host), u[1] = p
  PROVE  LET ev == EventOf(h, p, act, ts)
             i  == image[h[p].runs]
         IN  /\ ev \in EventType
             /\ ev.pid = p /\ p \in DOMAIN host /\ p \in Pid /\ p # 1
             /\ ev.ppid = h[p].parent /\ ev.ppid # 0 /\ ParentOf(ev) = h[p].parent
             /\ ev.comm = i.comm /\ ev.exe = i.exe /\ ev.cmdline = i.cmdline /\ ExeOf(ev) = i.exe
             /\ i.exe # None /\ i.cmdline # None
             /\ ev.action = act.action /\ ev.path = act.path /\ ev.loopback = act.loopback
             /\ ev.ts = ts /\ AncestryOf(h, ev.ancestry)
             /\ Len(ev.ancestry) = Heard(Len(u) - 1)
             /\ \A k \in 1..Len(ev.ancestry) : ev.ancestry[k].pid = u[k + 1]
<1> DEFINE ev == EventOf(h, p, act, ts)
           i  == image[h[p].runs]
           anc == [k \in DOMAIN Tail(u) \cap 1..ANCESTRY_MAX |->
                     [pid |-> Tail(u)[k], comm |-> image[h[Tail(u)[k]].runs].comm]]
<1>0. HostTyped
  BY DEF HostInv
<1>1. Above(p) = u
  BY <1>0, AboveIs
<1>2. ev = [ts |-> ts, action |-> act.action, pid |-> p, ppid |-> h[p].parent, uid |-> i.uid,
            comm |-> i.comm, exe |-> i.exe, cmdline |-> i.cmdline, container |-> FALSE,
            ancestry |-> anc,
            path |-> act.path, loopback |-> act.loopback, odd_port |-> act.odd_port]
  BY <1>1 DEF EventOf
<1> HIDE DEF ev
<1>3. PICK l \in Nat \ {0} : l = Len(u)
  BY <1>0, LineFalls
<1>4. /\ u \in Seq(DOMAIN host) /\ \A k \in 1..l : u[k] \in DOMAIN host
      /\ host[u[l]].parent = 0
      /\ \A k \in 1..(l - 1) : u[k + 1] = host[u[k]].parent
  BY <1>0, <1>3, LineFalls DEF Lines
<1>5. /\ p \in DOMAIN host /\ p # 1 /\ p \in Pid /\ DOMAIN host \subseteq Pid
      /\ host[p].parent \in DOMAIN host /\ 0 \notin Pid
  BY <1>0, EventsAssumption DEF HostTyped, Started
<1>6. /\ \A q \in DOMAIN host : /\ h[q] \in HostRecord /\ h[q].parent = host[q].parent
                                 /\ image[h[q].runs] \in [comm : Name, exe : Path, cmdline : Cmdline, uid : Uid]
      /\ DOMAIN h = DOMAIN host
  BY HostAssumption DEF ViewOf, HostRecord
<1>7. i \in [comm : Name, exe : Path, cmdline : Cmdline, uid : Uid] /\ i.exe # None /\ i.cmdline # None
  BY <1>5, <1>6, EventsAssumption
<1> HIDE DEF i
<1>8. PICK d \in Nat : d = l - 1 /\ l = d + 1
  BY <1>3
<1>90. DOMAIN Tail(u) = 1..d /\ \A k \in 1..d : Tail(u)[k] = u[k + 1]
  BY <1>3, <1>4, <1>8
<1>91. PICK c \in Nat : c = Heard(d)
  BY HostAssumption DEF Heard
<1>92. /\ c <= d /\ (c = d \/ c = ANCESTRY_MAX) /\ 1..d \cap 1..ANCESTRY_MAX = 1..c
       /\ \A k \in 1..c : k \in 1..d
  BY <1>91, HostAssumption DEF Heard
<1>9. DOMAIN Tail(u) \cap 1..ANCESTRY_MAX = 1..c /\ \A k \in 1..c : Tail(u)[k] = u[k + 1]
  BY <1>90, <1>92
<1>10. /\ DOMAIN anc = 1..c
       /\ \A k \in 1..c : anc[k].pid = u[k + 1] /\ anc[k].comm = image[h[u[k + 1]].runs].comm
       /\ \A k \in 1..c : k + 1 \in 1..l /\ u[k + 1] \in DOMAIN host
  <2>1. DOMAIN anc = 1..c
    BY <1>9
  <2>2. \A k \in 1..c : anc[k] = [pid |-> Tail(u)[k], comm |-> image[h[Tail(u)[k]].runs].comm]
    BY <1>9
  <2> HIDE DEF anc
  <2>3. ASSUME NEW k \in 1..c
        PROVE  anc[k].pid = u[k + 1] /\ anc[k].comm = image[h[u[k + 1]].runs].comm
    <3>1. PICK q : q = Tail(u)[k]
      OBVIOUS
    <3>2. anc[k] = [pid |-> q, comm |-> image[h[q].runs].comm]
      BY <2>2, <3>1
    <3>3. q = u[k + 1]
      BY <1>9, <3>1
    <3>4. QED
      BY <3>2, <3>3
  <2>4. \A k \in 1..c : k + 1 \in 1..l
    BY <1>8, <1>92
  <2>5. QED
    BY <1>4, <2>1, <2>3, <2>4
<1>11. anc \in Seq([pid : Pid, comm : Name]) /\ Len(anc) = c
  <2>1. \A k \in 1..c : /\ u[k + 1] \in Pid /\ image[h[u[k + 1]].runs].comm \in Name
                        /\ Tail(u)[k] = u[k + 1]
    BY <1>5, <1>6, <1>9, <1>10
  <2>2. anc = [k \in 1..c |-> [pid |-> u[k + 1], comm |-> image[h[u[k + 1]].runs].comm]]
    BY <1>9
  <2> HIDE DEF anc
  <2>3. \A k \in 1..c : [pid |-> u[k + 1], comm |-> image[h[u[k + 1]].runs].comm] \in [pid : Pid, comm : Name]
    BY <2>1
  <2>4. \A k \in 1..c : anc[k] \in [pid : Pid, comm : Name]
    BY <2>2, <2>3
  <2>5. anc = [k \in 1..c |-> anc[k]]
    BY <2>2
  <2>6. c \in Nat
    OBVIOUS
  <2> DEFINE R == [pid : Pid, comm : Name]
  <2> HIDE DEF R
  <2>7. anc \in [1..c -> R]
    BY <2>4, <2>5 DEF R
  <2>8. anc \in Seq(R) /\ Len(anc) = c
    BY <2>6, <2>7
  <2>9. QED
    BY <2>8 DEF R
<1> HIDE DEF anc
<1>12. ev \in EventType
  BY <1>2, <1>5, <1>6, <1>7, <1>11 DEF EventType, Deed, HostRecord
<1>13. AncestryOf(h, anc)
  <2> SUFFICES ASSUME NEW k \in 1..c
               PROVE  /\ anc[k].pid \in DOMAIN h /\ anc[k].comm = image[h[anc[k].pid].runs].comm
                      /\ k < c => h[anc[k].pid].parent = anc[k + 1].pid
    BY <1>11 DEF AncestryOf
  <2>1. anc[k].pid = u[k + 1] /\ anc[k].comm = image[h[u[k + 1]].runs].comm
    BY <1>10
  <2>2. u[k + 1] \in DOMAIN h /\ h[u[k + 1]].parent = host[u[k + 1]].parent
    BY <1>6, <1>10
  <2>3. CASE k < c
    <3>1. k + 1 \in 1..c /\ k + 1 \in 1..(l - 1)
      BY <1>8, <1>92, <2>3
    <3>2. host[u[k + 1]].parent = u[(k + 1) + 1] /\ anc[k + 1].pid = u[(k + 1) + 1]
      BY <1>4, <1>10, <3>1
    <3>3. QED
      BY <2>1, <2>2, <2>3, <3>2
  <2>4. CASE ~(k < c)
    BY <2>1, <2>2, <2>4
  <2>5. QED
    BY <2>3, <2>4
<1>14. ev.ppid = h[p].parent /\ ev.ppid # 0 /\ ParentOf(ev) = h[p].parent /\ ExeOf(ev) = i.exe
  BY <1>2, <1>5, <1>6, <1>7 DEF ParentOf, ExeOf
<1>15. QED
  <2>1. ev.ancestry = anc /\ Len(anc) = Heard(Len(u) - 1)
    BY <1>2, <1>3, <1>8, <1>11, <1>91
  <2>2. \A k \in 1..Len(anc) : anc[k].pid = u[k + 1]
    BY <1>10, <1>11
  <2>3. QED
    BY <1>2, <1>5, <1>7, <1>11, <1>12, <1>13, <1>14, <2>1, <2>2 DEF ev, i

-----------------------------------------------------------------------------
(* The anchor.                                                             *)

\* The greatest of some numbers.
LEMMA MaxIs ==
  ASSUME NEW n \in Nat, NEW S \in SUBSET (1..n), S # {}
  PROVE  Max(S) \in S /\ \A j \in S : j <= Max(S)
<1>1. S \in SUBSET (0..n)
  OBVIOUS
<1>2. PICK i \in S : \A j \in S : j <= i
  BY <1>1, Greatest
<1>3. \E k \in S : \A j \in S : k >= j
  <2>1. \A j \in S : i >= j
    BY <1>2
  <2>2. QED
    BY <2>1
<1>4. Max(S) \in S /\ \A j \in S : Max(S) >= j
  BY <1>3 DEF Max
<1>5. QED
  BY <1>4

\* Walks, as find_anchor reads them: sequences of known processes.
KnownWalk(m, p, w) ==
  /\ Len(w) \in Nat \ {0} /\ DOMAIN w = 1..Len(w) /\ 1 \in 1..Len(w) /\ w[1].pid = p
  /\ \A i \in 1..Len(w) : w[i] \in Proc /\ w[i].pid \in DOMAIN m /\ w[i] = m[w[i].pid]

\* Every walk is one.
LEMMA WalkIs ==
  ASSUME NEW t \in Sound, NEW p, NEW w \in Walks(t.map, p)
  PROVE  KnownWalk(t.map, p, w)
<1>1. /\ t.map \in [DOMAIN t.map -> Proc] /\ \A q \in DOMAIN t.map : t.map[q].pid = q
  BY SoundTable DEF Agrees
<1>2. /\ w \in Seq({t.map[q] : q \in DOMAIN t.map}) /\ Len(w) >= 1 /\ w[1].pid = p
  BY DEF Walks
<1>3. Len(w) \in Nat \ {0} /\ DOMAIN w = 1..Len(w) /\ 1 \in 1..Len(w)
  BY <1>2
<1>4. \A i \in 1..Len(w) : \E q \in DOMAIN t.map : w[i] = t.map[q]
  BY <1>2
<1>5. QED
  BY <1>1, <1>2, <1>3, <1>4 DEF KnownWalk

\* find_anchor's answer is a process of the lineage, and a dependency's only if
\* there is one in it, the outermost.
LEMMA AnchorFound ==
  ASSUME NEW n \in Nat \ {0}, NEW w, DOMAIN w = 1..n, Len(w) = n
  PROVE  LET found == FindAnchor(w)
             tools == DependencyAnchors(w)
         IN  /\ found.idx \in 1..n
             /\ found.kind # "User" => tools # {}
             /\ tools # {} => found.idx \in tools /\ \A i \in tools : i <= found.idx
<1> DEFINE found  == FindAnchor(w)
           tools  == DependencyAnchors(w)
           shells == SessionShells(w)
           same   == SameBinary(w)
<1>1. tools \in SUBSET (1..n) /\ shells \in SUBSET (1..n) /\ same \in SUBSET (1..n)
  BY DEF DependencyAnchors, SessionShells, SameBinary
<1>2. 1 \in same
  <2>1. 1 \in 1..n /\ \A j \in 1..1 : j = 1
    OBVIOUS
  <2>2. QED
    BY <2>1 DEF SameBinary
<1>3. found = CASE tools # {} ->
                     [idx  |-> Max(tools),
                      kind |-> IF Is(w[Max(tools)], DEPENDENCY_TOOLS)
                               THEN "Dependency" ELSE "RuntimeDependency"]
                [] tools = {} /\ shells # {} ->
                     [idx |-> IF Min(shells) = 1 THEN 1 ELSE Min(shells) - 1, kind |-> "User"]
                [] OTHER ->
                     [idx |-> Max(same), kind |-> "User"]
  BY DEF FindAnchor
<1> HIDE DEF found, tools, shells, same
<1>4. CASE tools # {}
  <2>1. Max(tools) \in tools /\ \A j \in tools : j <= Max(tools)
    BY <1>1, <1>4, MaxIs
  <2>2. found.idx = Max(tools)
    BY <1>3, <1>4
  <2>3. QED
    BY <1>1, <1>4, <2>1, <2>2 DEF found, tools
<1>5. CASE tools = {} /\ shells # {}
  <2>1. found = [idx |-> IF Min(shells) = 1 THEN 1 ELSE Min(shells) - 1, kind |-> "User"]
    BY <1>3, <1>5
  <2>2. Min(shells) \in shells
    <3>1. shells \in SUBSET Nat
      BY <1>1
    <3>2. \E i \in shells : \A j \in shells : i <= j
      BY <1>5, <3>1, Least
    <3>3. QED
      BY <3>2 DEF Min
  <2>3. Min(shells) \in 1..n
    BY <1>1, <2>2
  <2>4. found.idx \in 1..n /\ found.kind = "User"
    BY <2>1, <2>3
  <2>5. QED
    BY <1>5, <2>4 DEF found, tools
<1>6. CASE tools = {} /\ shells = {}
  <2>1. found = [idx |-> Max(same), kind |-> "User"]
    BY <1>3, <1>6
  <2>2. Max(same) \in same
    BY <1>1, <1>2, MaxIs
  <2>3. found.idx \in 1..n /\ found.kind = "User"
    BY <1>1, <2>1, <2>2
  <2>4. QED
    BY <1>6, <2>3 DEF found, tools
<1>7. QED
  BY <1>4, <1>5, <1>6

\* What the table takes for an install's program is one.
LEMMA KnownInstalls ==
  ASSUME NEW e \in Proc, e.names = NamesOf(e.comm, e.exe, e.cmdline), NEW h, NEW q,
         TrueImage(h, q, e), image[h[q].runs].exe # None, image[h[q].runs].cmdline # None
  PROVE  /\ e.names \subseteq TrueNames(h[q].runs)
         /\ Is(e, DEPENDENCY_TOOLS) \/ IsRuntimeDependency(e) => Installs(h[q].runs)
         /\ FullImage(h, q, e) /\ Installs(h[q].runs) => Is(e, DEPENDENCY_TOOLS) \/ IsRuntimeDependency(e)
<1> DEFINE i == image[h[q].runs]
<1>1. e.comm = i.comm /\ e.exe \in {None, i.exe} /\ e.cmdline \in {None, i.cmdline}
  BY DEF TrueImage
<1>2. TrueNames(h[q].runs) = NamesOf(i.comm, i.exe, i.cmdline)
  BY DEF TrueNames
<1>3. e.names \subseteq TrueNames(h[q].runs)
  BY <1>1, <1>2 DEF NamesOf
<1>4. Is(e, DEPENDENCY_TOOLS) \/ IsRuntimeDependency(e) => Installs(h[q].runs)
  BY <1>1, <1>3 DEF Is, IsRuntimeDependency, Installs, CmdIs
<1>5. ASSUME FullImage(h, q, e), Installs(h[q].runs)
      PROVE  Is(e, DEPENDENCY_TOOLS) \/ IsRuntimeDependency(e)
  <2>1. e.exe = i.exe /\ e.cmdline = i.cmdline
    BY <1>5 DEF FullImage
  <2>2. e.names = TrueNames(h[q].runs)
    BY <1>1, <1>2, <2>1
  <2>3. QED
    BY <1>5, <2>1, <2>2 DEF Is, IsRuntimeDependency, Installs
<1>6. QED
  BY <1>3, <1>4, <1>5

\* The outermost install above p, once its line is known.
LEMMA OutermostIs ==
  ASSUME HostTyped, NEW h, NEW u \in Lines(host)
  PROVE  LET tools == {i \in 1..Len(u) : h[u[i]].execed /\ Installs(h[u[i]].runs)}
         IN  /\ OutermostAbove(h, u[1]) \in Pid \cup {0}
             /\ OutermostAbove(h, u[1]) # 0 => tools # {}
             /\ \A i \in tools : (\A j \in tools : j <= i) => OutermostAbove(h, u[1]) = u[i]
<1> DEFINE tools == {i \in 1..Len(u) : h[u[i]].execed /\ Installs(h[u[i]].runs)}
<1>1. PICK n \in Nat : n = Len(u)
  BY LineFalls
<1>2. DOMAIN u = 1..n /\ \A i \in 1..n : u[i] \in Pid
  BY <1>1, LineFalls DEF HostTyped
<1>3. OutermostAbove(h, u[1]) = IF tools = {} THEN 0 ELSE u[Max(tools)]
  BY <1>1, <1>2, AboveIs DEF OutermostAbove
<1>4. tools \in SUBSET (1..n)
  BY <1>1
<1> HIDE DEF tools
<1>5. tools # {} => Max(tools) \in tools /\ \A j \in tools : j <= Max(tools)
  BY <1>4, MaxIs
<1>6. ASSUME NEW i \in tools, \A j \in tools : j <= i  PROVE Max(tools) = i
  <2>1. Max(tools) \in tools /\ \A j \in tools : j <= Max(tools)
    BY <1>5, <1>6
  <2>2. PICK m \in tools : m = Max(tools)
    BY <2>1
  <2>3. m <= i /\ i <= m
    BY <1>6, <2>1, <2>2
  <2>4. m \in Nat /\ i \in Nat
    BY <1>4, <1>6
  <2>5. m = i
    BY <2>3, <2>4
  <2>6. QED
    BY <2>2, <2>5
<1>7. QED
  BY <1>2, <1>3, <1>4, <1>5, <1>6 DEF tools

-----------------------------------------------------------------------------
(* The chain an event is filed under.                                      *)

\* A table that is true of a host of typed processes.
LEMMA HostImages ==
  ASSUME HostTyped, NEW h, ViewOf(h), NEW q \in DOMAIN host
  PROVE  /\ q \in DOMAIN h /\ h[q] \in HostRecord /\ h[q].parent = host[q].parent
         /\ image[h[q].runs].exe # None /\ image[h[q].runs].cmdline # None
<1>1. /\ DOMAIN h = DOMAIN host /\ h[q] \in HostRecord /\ h[q].parent = host[q].parent
  BY DEF ViewOf
<1>2. image[h[q].runs] \in [comm : Name, exe : Path, cmdline : Cmdline, uid : Uid]
  BY <1>1, HostAssumption DEF HostRecord
<1>3. QED
  BY <1>1, <1>2, EventsAssumption

\* It has the lines of descent of the host before.
LEMMA ViewLines ==
  ASSUME NEW h, ViewOf(h)
  PROVE  Lines(h) = Lines(host)
<1>1. DOMAIN h = DOMAIN host /\ \A q \in DOMAIN host : h[q].parent = host[q].parent
  BY DEF ViewOf
<1>2. ASSUME NEW u \in Seq(DOMAIN host), Len(u) >= 1
      PROVE  u \in Lines(h) <=> u \in Lines(host)
  <2>1. /\ Len(u) \in 1..Len(u) /\ \A i \in 1..(Len(u) - 1) : i \in 1..Len(u)
        /\ \A i \in 1..Len(u) : u[i] \in DOMAIN host
    BY <1>2
  <2>2. \A i \in 1..Len(u) : h[u[i]].parent = host[u[i]].parent
    BY <1>1, <2>1
  <2>3. QED
    BY <1>1, <1>2, <2>1, <2>2 DEF Lines
<1>3. \A u \in Lines(h) : u \in Seq(DOMAIN host) /\ Len(u) >= 1
  BY <1>1 DEF Lines
<1>4. \A u \in Lines(host) : u \in Seq(DOMAIN host) /\ Len(u) >= 1
  BY DEF Lines
<1>5. QED
  BY <1>2, <1>3, <1>4

\* A lineage, and the anchor found in it.
LEMMA Filing ==
  ASSUME HostTyped, NEW h, ViewOf(h), NEW s \in Sound, TellsOf(h, s, 0), NEW p \in DOMAIN s.map
  PROVE  LET l == Lineage(s.map, p)
             f == FindAnchor(l)
         IN  /\ Len(l) \in Nat \ {0} /\ DOMAIN l = 1..Len(l)
             /\ 1 \in 1..Len(l) /\ l[1].pid = p /\ f.idx \in 1..Len(l)
             /\ \A i \in 1..Len(l) :
                  /\ l[i] \in Proc /\ l[i].pid \in DOMAIN s.map /\ l[i] = s.map[l[i].pid]
                  /\ l[i].names \subseteq TrueNames(h[l[i].pid].runs)
             /\ f.kind # "User" => Installs(h[l[f.idx].pid].runs)
<1> DEFINE l == Lineage(s.map, p)
           f == FindAnchor(l)
<1>1. DOMAIN s.map \subseteq Pid /\ Agrees(s) /\ Current(s)
  BY SoundTable
<1>2. l \in Walks(s.map, p)
  BY <1>1, LineageWalk DEF Agrees
<1> HIDE DEF l
<1>3. /\ Len(l) \in Nat \ {0} /\ DOMAIN l = 1..Len(l) /\ 1 \in 1..Len(l) /\ l[1].pid = p
      /\ \A i \in 1..Len(l) : l[i] \in Proc /\ l[i].pid \in DOMAIN s.map /\ l[i] = s.map[l[i].pid]
  <2>1. KnownWalk(s.map, p, l)
    BY <1>2, WalkIs
  <2>2. QED
    BY <2>1 DEF KnownWalk
<1>4. ASSUME NEW i \in 1..Len(l)
      PROVE  /\ l[i].names \subseteq TrueNames(h[l[i].pid].runs)
             /\ Is(l[i], DEPENDENCY_TOOLS) \/ IsRuntimeDependency(l[i]) => Installs(h[l[i].pid].runs)
  <2>0. PICK q \in DOMAIN s.map : l[i] = s.map[q] /\ l[i].pid = q /\ l[i] \in Proc
    BY <1>3
  <2>1. l[i].names = NamesOf(l[i].comm, l[i].exe, l[i].cmdline)
    BY <1>1, <2>0 DEF Current
  <2>2. q \in DOMAIN h /\ TrueImage(h, q, l[i])
    BY <1>1, <2>0, EventsAssumption DEF TellsOf
  <2>3. q \in DOMAIN host
    BY <2>2 DEF ViewOf
  <2>4. image[h[q].runs].exe # None /\ image[h[q].runs].cmdline # None
    BY <2>3, HostImages
  <2>5. QED
    BY <2>0, <2>1, <2>2, <2>4, KnownInstalls
<1>5. PICK n \in Nat \ {0} : n = Len(l)
  BY <1>3
<1>6. /\ f.idx \in 1..n
      /\ f.kind # "User" => DependencyAnchors(l) # {}
      /\ DependencyAnchors(l) # {} => f.idx \in DependencyAnchors(l)
  BY <1>3, <1>5, AnchorFound
<1> HIDE DEF f
<1>7. f.kind # "User" => Installs(h[l[f.idx].pid].runs)
  BY <1>4, <1>5, <1>6 DEF DependencyAnchors
<1>8. QED
  BY <1>3, <1>4, <1>5, <1>6, <1>7 DEF f, l

\* Of an event the table has its process and the nearest ancestors.
LEMMA EventLinks ==
  ASSUME HostTyped, NEW h, ViewOf(h), NEW s, TellsOf(h, s, 0), NEW u \in Lines(host), u[1] # 1,
         NEW ancestry, Len(ancestry) = Heard(Len(u) - 1),
         \A k \in 1..Len(ancestry) : ancestry[k].pid = u[k + 1] /\ Listed(ancestry, s, k),
         u[1] \in DOMAIN s.map, s.map[u[1]].ppid = h[u[1]].parent,
         NEW i \in 1..Len(u), i <= ANCESTRY_MAX
  PROVE  Link(h, s, u[i])
<1>1. PICK n \in Nat \ {0} : n = Len(u)
  BY LineFalls
<1>2. /\ \A k \in 1..n : u[k] \in DOMAIN host
      /\ host[u[n]].parent = 0
      /\ \A k \in 1..(n - 1) : u[k + 1] = host[u[k]].parent
  BY <1>1, LineFalls DEF Lines
<1>3. PICK c \in Nat : c = Heard(n - 1)
  BY <1>1, HostAssumption DEF Heard
<1>4. /\ \A k \in 1..c : ancestry[k].pid = u[k + 1] /\ u[k + 1] \in DOMAIN s.map
      /\ \A k \in 1..c : k < c => s.map[u[k + 1]].ppid = ancestry[k + 1].pid
  BY <1>1, <1>3 DEF Listed
<1>5. \A k \in 1..n : h[u[k]].parent = host[u[k]].parent
  BY <1>2 DEF ViewOf
<1>6. i \in 1..n /\ i <= ANCESTRY_MAX /\ ANCESTRY_MAX \in Nat \ {0}
  BY <1>1, HostAssumption
<1>7. CASE i = n
  <2>1. u[n] \in DOMAIN s.map
    <3>1. CASE n = 1
      BY <3>1
    <3>2. CASE n # 1
      <4>1. n - 1 \in 1..c /\ (n - 1) + 1 = n
        BY <1>3, <1>6, <1>7, <3>2 DEF Heard
      <4>2. QED
        BY <1>4, <4>1
    <3>3. QED
      BY <3>1, <3>2
  <2>2. s.map[u[n]].ppid = 0 /\ h[u[n]].parent = 0
    BY <1>2, <1>5, <2>1 DEF TellsOf
  <2>3. QED
    BY <1>7, <2>1, <2>2 DEF Link
<1>8. CASE i # n
  <2>1. i \in 1..(n - 1) /\ i \in 1..c
    BY <1>3, <1>6, <1>8 DEF Heard
  <2>2. h[u[i]].parent = u[i + 1] /\ u[i + 1] \in DOMAIN s.map
    BY <1>2, <1>4, <1>5, <1>6, <2>1
  <2>3. u[i] \in DOMAIN s.map /\ s.map[u[i]].ppid = u[i + 1]
    <3>1. CASE i = 1
      BY <2>2, <3>1
    <3>2. CASE i # 1
      <4>1. PICK k \in 1..c : k = i - 1 /\ k + 1 = i /\ k < c /\ i \in 1..c
        <5>1. i - 1 \in 1..c /\ (i - 1) + 1 = i /\ i - 1 < c
          BY <1>6, <2>1, <3>2
        <5>2. QED
          BY <2>1, <5>1
      <4>2. QED
        BY <1>4, <4>1
    <3>3. QED
      BY <3>1, <3>2
  <2>4. QED
    BY <2>2, <2>3 DEF Link
<1>9. QED
  BY <1>7, <1>8

\* What is above a process on a line is that process's line.
LEMMA LineAbove ==
  ASSUME HostTyped, NEW u \in Lines(host), NEW j \in 1..Len(u)
  PROVE  \E v \in Lines(host) : /\ Len(v) = Len(u) - j + 1
                                /\ \A i \in 1..Len(v) : v[i] = u[i + j - 1]
<1>1. PICK n \in Nat \ {0} : n = Len(u)
  BY LineFalls
<1>2. /\ \A k \in 1..n : u[k] \in DOMAIN host
      /\ host[u[n]].parent = 0
      /\ \A k \in 1..(n - 1) : u[k + 1] = host[u[k]].parent
  BY <1>1, LineFalls DEF Lines
<1>3. PICK m \in Nat \ {0} : m = n - j + 1 /\ m + j - 1 = n
  BY <1>1
<1> DEFINE v == [i \in 1..m |-> u[i + j - 1]]
<1>4. \A i \in 1..m : i + j - 1 \in 1..n
  BY <1>1, <1>3
<1>5. v \in Seq(DOMAIN host) /\ Len(v) = m /\ \A i \in 1..m : v[i] = u[i + j - 1]
  <2>1. \A i \in 1..m : u[i + j - 1] \in DOMAIN host
    BY <1>2, <1>4
  <2>2. QED
    BY <2>1
<1> HIDE DEF v
<1>6. m \in 1..m /\ v[m] = u[n]
  <2>1. m \in 1..m
    OBVIOUS
  <2>2. v[m] = u[m + j - 1]
    BY <1>5, <2>1
  <2>3. QED
    BY <1>3, <2>1, <2>2
<1>7. ASSUME NEW i \in 1..(m - 1)  PROVE v[i + 1] = host[v[i]].parent
  <2>1. i \in 1..m /\ i + 1 \in 1..m /\ i + j - 1 \in 1..(n - 1) /\ (i + 1) + j - 1 = (i + j - 1) + 1
    BY <1>1, <1>3
  <2>2. v[i + 1] = u[(i + j - 1) + 1] /\ v[i] = u[i + j - 1]
    BY <1>5, <2>1
  <2>3. QED
    BY <1>2, <2>1, <2>2
<1>8. v \in Lines(host)
  BY <1>2, <1>5, <1>6, <1>7 DEF Lines
<1>9. QED
  BY <1>1, <1>3, <1>5, <1>8

\* Of as many processes on a line as an event names, one was started as a program.
Marked(h) ==
  \A u \in Lines(host) : \A i \in 1..Len(u) :
    i > ANCESTRY_MAX => \E j \in (i - ANCESTRY_MAX + 1)..i : h[u[j]].execed

\* So the table has the whole line, stretch by stretch.
LEMMA LineKnown ==
  ASSUME HostTyped, NEW h, ViewOf(h), NEW t, NEW s, Keeps(t, s), TellsOf(h, s, 0), Marked(h),
         NEW u \in Lines(host), Linked(h, t, u[1]),
         \A i \in 1..Len(u) : i <= ANCESTRY_MAX => Link(h, s, u[i])
  PROVE  \A i \in 1..Len(u) : Link(h, s, u[i])
<1>1. PICK n \in Nat \ {0} : n = Len(u)
  BY LineFalls
<1>2. /\ \A k \in 1..n : u[k] \in DOMAIN host
      /\ host[u[n]].parent = 0
      /\ \A k \in 1..(n - 1) : u[k + 1] = host[u[k]].parent
      /\ \A i, j \in 1..n : i < j => u[j] < u[i]
      /\ \A k \in 1..n : u[k] \in Nat /\ u[k] # 0
  <2>1. DOMAIN host \subseteq Nat \ {0}
    BY EventsAssumption DEF HostTyped
  <2>2. QED
    BY <1>1, <2>1, LineFalls DEF Lines
<1>3. ANCESTRY_MAX \in Nat \ {0}
  BY HostAssumption
<1>4. \A k \in 1..n : h[u[k]].parent = host[u[k]].parent
  BY <1>2 DEF ViewOf
<1>5. ASSUME NEW k \in 1..(n - 1)  PROVE Link(h, s, u[k])
  <2>1. CASE k <= ANCESTRY_MAX
    <3>1. k \in 1..Len(u)
      BY <1>1
    <3>2. QED
      BY <2>1, <3>1
  <2>2. CASE k > ANCESTRY_MAX
    <3>1. k \in 1..Len(u)
      BY <1>1
    <3>2. PICK j \in (k - ANCESTRY_MAX + 1)..k : h[u[j]].execed
      BY <2>2, <3>1 DEF Marked
    <3>3. j \in 1..n /\ j \in 1..(n - 1) /\ 1 < j /\ j <= k /\ k < j + ANCESTRY_MAX /\ 1 \in 1..n
      BY <1>1, <1>3, <2>2, <3>2
    <3>4. u[j] # u[1]
      BY <1>2, <3>3
    <3>5. u[j] # 1
      BY <1>2, <3>3 DEF HostTyped
    <3>6. PICK v \in Lines(host) : /\ Len(v) = Len(u) - j + 1
                                   /\ \A i \in 1..Len(v) : v[i] = u[i + j - 1]
      BY <1>1, <3>3, LineAbove
    <3>7. 1 \in 1..Len(v) /\ v[1] = u[j]
      <4>1. 1 \in 1..Len(v) /\ 1 + j - 1 = j
        BY <1>1, <3>3, <3>6
      <4>2. v[1] = u[1 + j - 1]
        BY <3>6, <4>1
      <4>3. QED
        BY <4>1, <4>2
    <3>8. PICK i \in 1..Len(v) : i <= ANCESTRY_MAX /\ v[i] = u[k]
      <4>1. k - j + 1 \in 1..Len(v) /\ k - j + 1 <= ANCESTRY_MAX /\ (k - j + 1) + j - 1 = k
        BY <1>1, <1>3, <3>2, <3>3, <3>6
      <4>2. v[k - j + 1] = u[(k - j + 1) + j - 1]
        BY <3>6, <4>1
      <4>3. QED
        BY <4>1, <4>2
    <3>9. v \in Lines(h)
      BY ViewLines
    <3>10. Link(h, t, v[i])
      BY <3>2, <3>4, <3>5, <3>7, <3>8, <3>9 DEF Linked
    <3>11. QED
      BY <3>8, <3>10, LinkKept
  <2>3. QED
    BY <1>3, <2>1, <2>2
<1>6. Link(h, s, u[n])
  <2>1. CASE n <= ANCESTRY_MAX
    <3>1. n \in 1..Len(u)
      BY <1>1
    <3>2. QED
      BY <2>1, <3>1
  <2>2. CASE n > ANCESTRY_MAX
    <3>1. n - 1 \in 1..(n - 1) /\ (n - 1) + 1 = n /\ n - 1 \in 1..n /\ n \in 1..n
      BY <1>3, <2>2
    <3>2. Link(h, s, u[n - 1]) /\ h[u[n - 1]].parent = u[n]
      BY <1>2, <1>4, <1>5, <3>1
    <3>3. u[n] \in DOMAIN s.map
      BY <1>2, <3>1, <3>2 DEF Link
    <3>4. s.map[u[n]].ppid = 0 /\ h[u[n]].parent = 0
      BY <1>2, <1>4, <3>1, <3>3 DEF TellsOf
    <3>5. QED
      BY <3>3, <3>4 DEF Link
  <2>3. QED
    BY <1>3, <2>1, <2>2
<1>7. QED
  <2> SUFFICES ASSUME NEW k \in 1..n  PROVE Link(h, s, u[k])
    BY <1>1
  <2>1. k = n \/ k \in 1..(n - 1)
    OBVIOUS
  <2>2. QED
    BY <1>5, <1>6, <2>1

\* It is the outermost install's, if there is one.
LEMMA FilingUnder ==
  ASSUME HostTyped, NEW h, ViewOf(h), NEW s \in Sound, TellsOf(h, s, 0), NEW u \in Lines(host),
         Shallow, Copies(h), Whole(h, s, 0), ~Installs(h[1].runs),
         \A i \in 1..Len(u) : Link(h, s, u[i])
  PROVE  LET l == Lineage(s.map, u[1])
             tool == OutermostAbove(h, u[1])
         IN  tool # 0 => l[FindAnchor(l).idx].pid = tool
<1> DEFINE l == Lineage(s.map, u[1])
           f == FindAnchor(l)
           tools == {i \in 1..Len(u) : h[u[i]].execed /\ Installs(h[u[i]].runs)}
           known == DependencyAnchors(l)
<1>1. PICK n \in Nat \ {0} : n = Len(u)
  BY LineFalls
<1>2. /\ \A i \in 1..n : u[i] \in DOMAIN host /\ u[i] \in Nat /\ u[i] \in DOMAIN s.map
      /\ \A i, j \in 1..n : i < j => u[j] < u[i]
      /\ host[u[n]].parent = 0
      /\ \A i \in 1..(n - 1) : u[i + 1] = host[u[i]].parent
      /\ u \in Seq(DOMAIN host)
  BY <1>1, LineFalls DEF Lines, Link
<1>3. DOMAIN s.map \subseteq Pid /\ Agrees(s) /\ Current(s) /\ \A q \in DOMAIN s.map : s.map[q].pid = q
  BY SoundTable DEF Agrees
<1>4. \A i \in 1..n : s.map[u[i]].ppid = host[u[i]].parent
  BY <1>1, <1>2, HostImages DEF Link
<1>5. l = [i \in 1..n |-> s.map[u[i]]]
  <2>1. u \in Seq(DOMAIN s.map)
    BY <1>1, <1>2
  <2>2. n <= MAX_DEPTH
    <3>1. Above(u[1]) = u
      BY AboveIs
    <3>2. u[1] \in DOMAIN host
      BY <1>1, <1>2
    <3>3. QED
      BY <1>1, <3>1, <3>2 DEF Shallow
  <2>3. \A i, j \in 1..n : u[i] = u[j] => i = j
    <3> SUFFICES ASSUME NEW i \in 1..n, NEW j \in 1..n, u[i] = u[j], i # j  PROVE FALSE
      OBVIOUS
    <3>1. i < j \/ j < i
      OBVIOUS
    <3>2. u[i] < u[j] \/ u[j] < u[i]
      BY <1>2, <3>1
    <3>3. QED
      BY <1>2, <3>2
  <2>4. \A i \in 1..(n - 1) : s.map[u[i]].ppid = u[i + 1]
    BY <1>2, <1>4
  <2>5. s.map[u[n]].ppid \notin DOMAIN s.map
    BY <1>2, <1>3, <1>4, EventsAssumption
  <2>6. WholeLine(s.map, u)
    BY <1>1, <1>3, <2>1, <2>2, <2>3, <2>4, <2>5 DEF WholeLine
  <2>7. QED
    BY <1>1, <2>6, LineageIs
<1>6. DOMAIN l = 1..n /\ Len(l) = n /\ \A i \in 1..n : l[i] = s.map[u[i]] /\ l[i].pid = u[i]
  <2>1. DOMAIN l = 1..n /\ \A i \in 1..n : l[i] = s.map[u[i]]
    BY <1>5
  <2>2. l \in Seq({s.map[q] : q \in DOMAIN s.map}) /\ Len(l) = n
    <3>1. \A i \in 1..n : s.map[u[i]] \in {s.map[q] : q \in DOMAIN s.map}
      BY <1>2
    <3>2. QED
      BY <1>5, <3>1
  <2>3. QED
    BY <1>2, <1>3, <2>1, <2>2
<1> HIDE DEF l
<1>7. ASSUME NEW i \in 1..n
      PROVE  /\ Is(l[i], DEPENDENCY_TOOLS) \/ IsRuntimeDependency(l[i]) => Installs(h[u[i]].runs)
             /\ FullImage(h, u[i], l[i]) /\ Installs(h[u[i]].runs)
                  => Is(l[i], DEPENDENCY_TOOLS) \/ IsRuntimeDependency(l[i])
  <2>1. l[i] \in Proc /\ l[i].names = NamesOf(l[i].comm, l[i].exe, l[i].cmdline)
    BY <1>2, <1>3, <1>6, SoundTable DEF Current
  <2>2. TrueImage(h, u[i], l[i])
    <3>1. u[i] # 0 /\ u[i] \in DOMAIN s.map /\ l[i] = s.map[u[i]]
      BY <1>2, <1>3, <1>6, EventsAssumption
    <3>2. QED
      BY <3>1 DEF TellsOf
  <2>3. image[h[u[i]].runs].exe # None /\ image[h[u[i]].runs].cmdline # None
    BY <1>2, HostImages
  <2>4. QED
    BY <2>1, <2>2, <2>3, KnownInstalls
<1>8. tools \subseteq known
  <2> SUFFICES ASSUME NEW i \in tools  PROVE i \in known
    OBVIOUS
  <2>1. i \in 1..n /\ h[u[i]].execed /\ Installs(h[u[i]].runs)
    BY <1>1
  <2>2. u[i] # 1 /\ u[i] # 0 /\ u[i] \in DOMAIN h
    BY <1>2, <1>3, <2>1, EventsAssumption, HostImages
  <2>3. FullImage(h, u[i], l[i])
    BY <1>6, <2>1, <2>2 DEF Whole
  <2>4. QED
    BY <1>6, <1>7, <2>1, <2>3 DEF DependencyAnchors
<1>9. known # {} => f.idx \in known /\ \A i \in known : i <= f.idx
  BY <1>6, AnchorFound
<1> HIDE DEF f
<1>10. known \subseteq 1..n /\ \A i \in known : Installs(h[u[i]].runs)
  BY <1>6, <1>7 DEF DependencyAnchors
<1> HIDE DEF known
<1>11. SUFFICES ASSUME OutermostAbove(h, u[1]) # 0
                PROVE  f.idx \in 1..n /\ OutermostAbove(h, u[1]) = u[f.idx]
  BY <1>6 DEF l, f
<1>12. tools # {}
  BY <1>11, OutermostIs
<1>13. f.idx \in known /\ f.idx \in 1..n /\ Installs(h[u[f.idx]].runs)
  BY <1>8, <1>9, <1>10, <1>12
<1>14. h[u[f.idx]].execed
  <2> SUFFICES ASSUME ~h[u[f.idx]].execed  PROVE FALSE
    OBVIOUS
  <2>1. u \in Lines(h)
    BY ViewLines
  <2>2. PICK j \in 1..Len(u) : j > f.idx /\ h[u[j]].execed /\ Installs(h[u[j]].runs)
    BY <1>1, <1>13, <2>1 DEF Copies
  <2>3. j <= f.idx
    BY <1>8, <1>9, <2>2
  <2>4. QED
    BY <1>1, <1>13, <2>2, <2>3
<1>15. f.idx \in tools /\ \A j \in tools : j <= f.idx
  BY <1>1, <1>8, <1>9, <1>13, <1>14
<1>16. QED
  BY <1>13, <1>15, OutermostIs

-----------------------------------------------------------------------------
(* What handling an event does to its chain.                               *)

ChainFields == {"id", "kind", "uid", "build", "hits", "written", "first_secret",
                "alerted", "first_ts", "last_ts"}

Shaped(cs) == \A k \in DOMAIN cs :
                /\ DOMAIN cs[k] = ChainFields
                /\ cs[k].first_ts \in Nat /\ cs[k].last_ts \in Nat
                /\ cs[k].first_secret \in Nat \cup {Never}

\* The chain an event comes to, opened if there is none.
Chain(in, ts) == IF IsNew(in, ts) THEN NewChain(next_id + 1, in, ts) ELSE chains[in.key]

\* What becomes of a chain c.
Became(c, in, found, ts, a) ==
  /\ DOMAIN a = ChainFields /\ a.kind = c.kind /\ a.first_ts = c.first_ts /\ a.last_ts = ts
  /\ a.written = IF in.action = "Write" THEN c.written \cup ({in.path} \ {None}) ELSE c.written
  /\ a.first_secret = IF c.first_secret = Never /\ {"F1", "L8"} \cap DOMAIN found # {}
                      THEN ts ELSE c.first_secret
  /\ DOMAIN c.hits \cup DOMAIN found \subseteq DOMAIN a.hits
  /\ DOMAIN a.hits \subseteq DOMAIN c.hits \cup DOMAIN found \cup Opening(in, ts) \cup {"C3"}

\* The chain of an event before the event is noted in it.
LEMMA ChainIs ==
  ASSUME Shaped(chains), NEW in, NEW ts \in Nat
  PROVE  LET c == Chain(in, ts)
             b == Attributed(in, ts)
         IN  /\ DOMAIN c = ChainFields /\ DOMAIN b = ChainFields
             /\ c.first_ts \in Nat /\ c.first_secret \in Nat \cup {Never}
             /\ b.kind = c.kind /\ b.hits = c.hits /\ b.written = c.written
             /\ b.first_ts = c.first_ts /\ b.first_secret = c.first_secret
             /\ IF in.key \in DOMAIN chains \ Idle(ts)
                THEN c = chains[in.key]
                ELSE /\ c.kind = in.kind /\ DOMAIN c.hits = {} /\ c.written = {}
                     /\ c.first_secret = Never /\ c.first_ts = ts
             /\ Opening(in, ts) # {} => c.kind # "User"
             /\ Opening(in, ts) \subseteq {"C1"}
<1> DEFINE c == Chain(in, ts)
           b == Attributed(in, ts)
<1>1. /\ DOMAIN c = ChainFields
      /\ c.first_ts \in Nat /\ c.first_secret \in Nat \cup {Never}
      /\ IF in.key \in DOMAIN chains \ Idle(ts)
         THEN c = chains[in.key]
         ELSE /\ c.kind = in.kind /\ DOMAIN c.hits = {} /\ c.written = {}
              /\ c.first_secret = Never /\ c.first_ts = ts
  <2>1. CASE IsNew(in, ts)
    <3>1. c = NewChain(next_id + 1, in, ts)
      BY <2>1 DEF Chain
    <3>2. in.key \notin DOMAIN chains \ Idle(ts)
      BY <2>1 DEF IsNew
    <3> HIDE DEF c
    <3>3. QED
      BY <3>1, <3>2 DEF NewChain, ChainFields
  <2>2. CASE ~IsNew(in, ts)
    <3>1. c = chains[in.key] /\ in.key \in DOMAIN chains \ Idle(ts)
      BY <2>2 DEF Chain, IsNew
    <3> HIDE DEF c
    <3>2. QED
      BY <3>1 DEF Shaped
  <2>3. QED
    BY <2>1, <2>2
<1>2. b = [c EXCEPT !.uid   = IF @ = NoUid THEN in.uid ELSE @,
                    !.build = @ \/ in.build]
  BY DEF Attributed, Chain
<1>3. Opening(in, ts) \subseteq {"C1"} /\ (Opening(in, ts) # {} => c.kind # "User")
  <2>1. Opening(in, ts) \subseteq {"C1"} /\ (Opening(in, ts) # {} => IsNew(in, ts) /\ in.kind # "User")
    BY DEF Opening
  <2>2. QED
    BY <1>1, <2>1 DEF IsNew
<1> HIDE DEF c, b
<1>4. /\ DOMAIN b = ChainFields
      /\ b.kind = c.kind /\ b.hits = c.hits /\ b.written = c.written
      /\ b.first_ts = c.first_ts /\ b.first_secret = c.first_secret
  BY <1>1, <1>2 DEF ChainFields
<1>5. QED
  BY <1>1, <1>3, <1>4 DEF c, b

\* Handle, by its stages: what is noted, C3, and the alert.
LEMMA HandleBecomes ==
  ASSUME Shaped(chains), NEW in, NEW found, NEW ts \in Nat, Handle(in, found, ts)
  PROVE  /\ DOMAIN chains' = (DOMAIN chains \ Idle(ts)) \cup {in.key}
         /\ Became(Chain(in, ts), in, found, ts, chains'[in.key])
         /\ \A k \in DOMAIN chains' \ {in.key} : k \in DOMAIN chains /\ chains'[k] = chains[k]
<1> DEFINE c == Chain(in, ts)
           b == Attributed(in, ts)
           f == [r \in DOMAIN found \cup Opening(in, ts) |->
                   IF r \in Opening(in, ts) THEN NoTactic ELSE found[r]]
           d == Noted(b, in, found, Opening(in, ts), ts)
           g == [r \in {"C3"} |-> NoTactic]
           new_hit == DOMAIN d.hits # DOMAIN b.hits
           scored  == IF new_hit THEN WithC3(d, ts) ELSE d
           alert   == new_hit /\ Raises(scored)
           a == IF alert THEN [scored EXCEPT !.alerted = Band(DOMAIN scored.hits)] ELSE scored
           kept == DOMAIN chains \ Idle(ts)
<1>1. chains' = [k \in kept \cup {in.key} |-> IF k = in.key THEN a ELSE chains[k]]
  BY DEF Handle
<1>2. /\ DOMAIN c = ChainFields /\ DOMAIN b = ChainFields
      /\ b.kind = c.kind /\ b.hits = c.hits /\ b.written = c.written
      /\ b.first_ts = c.first_ts /\ b.first_secret = c.first_secret
  BY ChainIs
<1> HIDE DEF b, c
<1>3. d = [b EXCEPT
             !.hits = Record(@, f, ts),
             !.first_secret = IF @ = Never /\ {"F1", "L8"} \cap DOMAIN found # {} THEN ts ELSE @,
             !.written = IF in.action = "Write" THEN @ \cup ({in.path} \ {None}) ELSE @,
             !.last_ts = ts]
  BY DEF Noted
<1>4. DOMAIN f = DOMAIN found \cup Opening(in, ts)
  OBVIOUS
<1> HIDE DEF d, f
<1>5. /\ DOMAIN d = ChainFields /\ d.hits = Record(b.hits, f, ts)
      /\ d.kind = b.kind /\ d.first_ts = b.first_ts /\ d.last_ts = ts
      /\ d.first_secret = IF b.first_secret = Never /\ {"F1", "L8"} \cap DOMAIN found # {}
                          THEN ts ELSE b.first_secret
      /\ d.written = IF in.action = "Write" THEN b.written \cup ({in.path} \ {None}) ELSE b.written
  BY <1>2, <1>3 DEF ChainFields
<1>6. DOMAIN d.hits = DOMAIN b.hits \cup DOMAIN found \cup Opening(in, ts)
  BY <1>4, <1>5 DEF Record
<1>7. scored = [d EXCEPT !.hits = Record(@, g, ts)] \/ scored = d
  BY DEF WithC3
<1>8. DOMAIN g = {"C3"}
  OBVIOUS
<1> HIDE DEF scored, g, new_hit
<1>9. /\ DOMAIN scored = ChainFields
      /\ scored.kind = d.kind /\ scored.first_ts = d.first_ts /\ scored.last_ts = d.last_ts
      /\ scored.first_secret = d.first_secret /\ scored.written = d.written
      /\ DOMAIN scored.hits \in {DOMAIN d.hits, DOMAIN d.hits \cup {"C3"}}
  <2>1. CASE scored = d
    BY <1>5, <2>1
  <2>2. CASE scored = [d EXCEPT !.hits = Record(@, g, ts)]
    <3>1. /\ DOMAIN scored = ChainFields
          /\ scored.kind = d.kind /\ scored.first_ts = d.first_ts /\ scored.last_ts = d.last_ts
          /\ scored.first_secret = d.first_secret /\ scored.written = d.written
          /\ scored.hits = Record(d.hits, g, ts)
      BY <1>5, <2>2 DEF ChainFields
    <3>2. DOMAIN Record(d.hits, g, ts) = DOMAIN d.hits \cup {"C3"}
      BY <1>8 DEF Record
    <3>3. QED
      BY <3>1, <3>2
  <2>3. QED
    BY <1>7, <2>1, <2>2
<1>10. a = [scored EXCEPT !.alerted = Band(DOMAIN scored.hits)] \/ a = scored
  OBVIOUS
<1> HIDE DEF a
<1>11. /\ DOMAIN a = ChainFields
       /\ a.kind = scored.kind /\ a.first_ts = scored.first_ts /\ a.last_ts = scored.last_ts
       /\ a.first_secret = scored.first_secret /\ a.written = scored.written
       /\ a.hits = scored.hits
  BY <1>9, <1>10 DEF ChainFields
<1>12. Became(c, in, found, ts, a)
  <2>1. /\ DOMAIN a = ChainFields /\ a.kind = c.kind /\ a.first_ts = c.first_ts /\ a.last_ts = ts
        /\ a.written = IF in.action = "Write" THEN c.written \cup ({in.path} \ {None}) ELSE c.written
        /\ a.first_secret = IF c.first_secret = Never /\ {"F1", "L8"} \cap DOMAIN found # {}
                            THEN ts ELSE c.first_secret
    BY <1>2, <1>5, <1>9, <1>11
  <2>2. /\ DOMAIN c.hits \cup DOMAIN found \subseteq DOMAIN a.hits
        /\ DOMAIN a.hits \subseteq DOMAIN c.hits \cup DOMAIN found \cup Opening(in, ts) \cup {"C3"}
    BY <1>2, <1>6, <1>9, <1>11
  <2>3. QED
    BY <2>1, <2>2 DEF Became
<1>13. DOMAIN chains' = kept \cup {in.key} /\ chains'[in.key] = a
  BY <1>1
<1>14. \A k \in DOMAIN chains' \ {in.key} : k \in DOMAIN chains /\ chains'[k] = chains[k]
  BY <1>1
<1>15. QED
  BY <1>12, <1>13, <1>14 DEF c

-----------------------------------------------------------------------------
(* What the rules find.                                                    *)

\* The rules that only hold for a dependency's chain.
LEMMA AccusingRules ==
  ASSUME NEW ctx, ctx.ev.action \in Action, DOMAIN Evaluate(ctx) \cap {"P1", "P2", "L3", "L10"} # {}
  PROVE  ctx.chain.kind # "User"
<1> SUFFICES ASSUME ctx.chain.kind = "User"  PROVE FALSE
  OBVIOUS
<1>1. ~InDependencyChain(ctx)
  BY DEF InDependencyChain
<1>2. DOMAIN Evaluate(ctx) = CheckContext(ctx) \cup
        CASE ctx.ev.action = "Exec"       -> CheckExec(ctx)
          [] ctx.ev.action = "Write"      -> CheckWrite(ctx)
          [] ctx.ev.action = "SecretRead" -> CheckSecret(ctx)
          [] ctx.ev.action = "Connect"    -> CheckConnect(ctx)
  BY DEF Evaluate
<1>3. CheckContext(ctx) \subseteq {"C2", "L9"}
  BY DEF CheckContext, When
<1>4. CheckExec(ctx) \subseteq {"P3", "L1", "L5", "L8", "L12"}
  BY <1>1 DEF CheckExec, When
<1>5. CheckWrite(ctx) \subseteq {"F2", "F3", "F4", "F5", "F6", "L6", "L7", "L11"}
  BY <1>1 DEF CheckWrite, When
<1>6. CheckSecret(ctx) \subseteq {"L8", "F1"}
  BY DEF CheckSecret, When
<1>7. CheckConnect(ctx) \subseteq {"N1", "N2", "N3", "L2"}
  BY DEF CheckConnect, When
<1>8. PICK r \in {"P1", "P2", "L3", "L10"} : r \in DOMAIN Evaluate(ctx)
  OBVIOUS
<1>9. r \notin CheckContext(ctx) /\ r \notin CheckExec(ctx) /\ r \notin CheckWrite(ctx)
      /\ r \notin CheckSecret(ctx) /\ r \notin CheckConnect(ctx)
  BY <1>3, <1>4, <1>5, <1>6, <1>7
<1>10. QED
  BY <1>2, <1>8, <1>9 DEF Action

\* No rule is C1 or C3: the engine records those two itself.
LEMMA NoC1Rule ==
  ASSUME NEW ctx, ctx.ev.action \in Action
  PROVE  DOMAIN Evaluate(ctx) \cap {"C1", "C3"} = {}
<1>2. DOMAIN Evaluate(ctx) = CheckContext(ctx) \cup
        CASE ctx.ev.action = "Exec"       -> CheckExec(ctx)
          [] ctx.ev.action = "Write"      -> CheckWrite(ctx)
          [] ctx.ev.action = "SecretRead" -> CheckSecret(ctx)
          [] ctx.ev.action = "Connect"    -> CheckConnect(ctx)
  BY DEF Evaluate
<1>3. CheckContext(ctx) \subseteq {"C2", "L9"}
  BY DEF CheckContext, When
<1>4. CheckExec(ctx) \subseteq {"P1", "P2", "P3", "L1", "L3", "L5", "L8", "L12"}
  BY DEF CheckExec, When
<1>5. CheckWrite(ctx) \subseteq {"F2", "F3", "F4", "F5", "F6", "L6", "L7", "L10", "L11"}
  BY DEF CheckWrite, When
<1>6. CheckSecret(ctx) \subseteq {"L8", "F1"}
  BY DEF CheckSecret, When
<1>7. CheckConnect(ctx) \subseteq {"N1", "N2", "N3", "L2"}
  BY DEF CheckConnect, When
<1>8. ASSUME NEW r \in {"C1", "C3"}  PROVE r \notin DOMAIN Evaluate(ctx)
  <2>1. r \notin CheckContext(ctx) /\ r \notin CheckExec(ctx) /\ r \notin CheckWrite(ctx)
        /\ r \notin CheckSecret(ctx) /\ r \notin CheckConnect(ctx)
    BY <1>3, <1>4, <1>5, <1>6, <1>7
  <2>2. QED
    BY <1>2, <2>1 DEF Action
<1>9. QED
  BY <1>8

\* A file written in the chain is executed.
LEMMA DroppedIsRun ==
  ASSUME NEW ctx, ctx.ev.action = "Exec", ctx.ev.path \in ctx.chain.written
  PROVE  "L1" \in DOMAIN Evaluate(ctx)
<1>1. "L1" \in CheckExec(ctx)
  BY DEF CheckExec, When
<1>2. DOMAIN Evaluate(ctx) = CheckContext(ctx) \cup CheckExec(ctx)
  BY DEF Evaluate
<1>3. QED
  BY <1>1, <1>2

\* A secret has been read in the chain before a connection off the host.
LEMMA SecretLeaves ==
  ASSUME NEW ctx, ctx.ev.action = "Connect", ~ctx.ev.loopback,
         ctx.chain.first_secret # Never, ctx.chain.first_secret <= ctx.ev.ts
  PROVE  "N2" \in DOMAIN Evaluate(ctx)
<1>1. "N2" \in CheckConnect(ctx)
  BY DEF CheckConnect, When
<1>2. DOMAIN Evaluate(ctx) = CheckContext(ctx) \cup CheckConnect(ctx)
  BY DEF Evaluate
<1>3. QED
  BY <1>1, <1>2

\* What is a secret on the host is one to the rules.
LEMMA SecretFound ==
  ASSUME NEW ctx, ctx.ev.action = "SecretRead", NEW h, Secret(h, ctx.ev.pid, ctx.ev.path),
         Actor(ctx).names \subseteq TrueNames(h[ctx.ev.pid].runs)
  PROVE  {"F1", "L8"} \cap DOMAIN Evaluate(ctx) # {}
<1> DEFINE path == ctx.ev.path
<1>1. DOMAIN Evaluate(ctx) = CheckContext(ctx) \cup CheckSecret(ctx)
  BY DEF Evaluate
<1>2. CASE path \in DOMAIN environ_of /\ environ_of[path] # ctx.ev.pid
  <2>1. CheckSecret(ctx) = {"L8"}
    BY <1>2 DEF CheckSecret, When
  <2>2. QED
    BY <1>1, <2>1
<1>3. CASE /\ path \in DOMAIN secrets \ DOMAIN environ_of
           /\ ~PathIs(path, "public_cert") /\ ~secrets[path].dependency_only
           /\ TrueNames(h[ctx.ev.pid].runs) \cap secrets[path].readers = {}
  <2>1. ~Is(Actor(ctx), secrets[path].readers)
    BY <1>3 DEF Is
  <2>2. CheckSecret(ctx) = {"F1"}
    BY <1>3, <2>1 DEF CheckSecret, When
  <2>3. QED
    BY <1>1, <2>2
<1>4. QED
  BY <1>2, <1>3 DEF Secret

-----------------------------------------------------------------------------
(* An event: what the table learns of it, where it is filed and what that  *)
(* chain becomes.                                                          *)

Known == [map |-> map, order |-> order]

\* The one process an event may find the table wrong about.
Renewed(p, act) == IF act.action = "Exec" THEN p ELSE 0

\* What it takes for an event of h to be filed under its install: room for every
\* process, a walk that reaches the top of a line the events tell all of, tools
\* that only made way for tools, and a table that knows all but process x.
Ready(h, x) == /\ Roomy(h) /\ Shallow /\ Marked(h) /\ Copies(h) /\ ~Installs(h[1].runs)
               /\ Whole(h, Known, x) /\ Linked(h, Known, x)

\* Where an event of h is filed, s being the table after it.
Filed(h, p, act, ev, s, in) ==
  LET q == in.key[1] IN
  /\ in.action = act.action /\ in.path = act.path
  /\ in.key \in Pid \X Nat /\ q \in DOMAIN s.map /\ q \in DOMAIN h /\ in.key[2] = s.map[q].start_ts
  /\ in.kind # "User" => Installs(h[q].runs)
  /\ OutermostAbove(h, p) \in Pid \cup {0}
  /\ Ready(h, Renewed(p, act)) /\ OutermostAbove(h, p) # 0 => q = OutermostAbove(h, p)
  /\ Roomy(h) /\ Linked(h, Known, Renewed(p, act)) => Linked(h, s, 0)

EventSaid(p, act, ev, ts) ==
  /\ ev \in EventType /\ ev.pid = p /\ ev.action = act.action /\ ev.path = act.path
  /\ ev.loopback = act.loopback /\ ev.ts = ts

\* What the engine makes of an event of h: what it learns and where it files it.
LEMMA EventFiled ==
  ASSUME HostInv, Known \in Sound, NEW h, ViewOf(h), NEW p \in Started, NEW act \in Deed,
         NEW ts \in Nat, TellsOf(h, Known, Renewed(p, act))
  PROVE  LET ev == EventOf(h, p, act, ts)
             s  == Observed(Known, ev)
             l  == Lineage(s.map, p)
         IN  /\ EventSaid(p, act, ev, ts) /\ Informed(h, Known, ev, s, Renewed(p, act))
             /\ l[1].names \subseteq TrueNames(h[p].runs)
             /\ Filed(h, p, act, ev, s, Resolution(ev, l))
<1> DEFINE ev == EventOf(h, p, act, ts)
           s  == Observed(Known, ev)
           l  == Lineage(s.map, p)
           in == Resolution(ev, l)
           f  == FindAnchor(l)
           x  == Renewed(p, act)
<1>0. HostTyped
  BY DEF HostInv
<1>1. PICK u \in Lines(host) : u[1] = p
  BY DEF HostInv, Started
<1>2. /\ ev \in EventType
      /\ ev.pid = p /\ p \in DOMAIN host /\ p \in Pid /\ p # 1
      /\ ev.ppid = h[p].parent /\ ev.ppid # 0 /\ ParentOf(ev) = h[p].parent
      /\ ev.comm = image[h[p].runs].comm /\ ev.cmdline = image[h[p].runs].cmdline
      /\ ExeOf(ev) = image[h[p].runs].exe
      /\ ev.action = act.action /\ ev.path = act.path /\ ev.loopback = act.loopback
      /\ ev.ts = ts /\ AncestryOf(h, ev.ancestry)
      /\ Len(ev.ancestry) = Heard(Len(u) - 1)
      /\ \A k \in 1..Len(ev.ancestry) : ev.ancestry[k].pid = u[k + 1]
  BY <1>1, EventIs
<1> HIDE DEF ev
<1>3. EventSaid(p, act, ev, ts)
  BY <1>2 DEF EventSaid
<1>4. Truthful(h, ev)
  BY <1>2 DEF Truthful, ViewOf
<1>5. x = IF ev.action = "Exec" THEN ev.pid ELSE 0
  BY <1>2 DEF Renewed
<1> HIDE DEF x
<1>6. Informed(h, Known, ev, s, x)
  BY <1>2, <1>4, <1>5, ObservedTells DEF x
<1> HIDE DEF s
<1>7. /\ s \in Sound /\ p \in DOMAIN s.map /\ TellsOf(h, s, 0)
      /\ Roomy(h) => /\ Keeps(Known, s) /\ (Whole(h, Known, x) => Whole(h, s, 0))
                     /\ s.map[p].ppid = h[p].parent
                     /\ \A i \in 1..Len(ev.ancestry) : Listed(ev.ancestry, s, i)
  BY <1>2, <1>6 DEF Informed
<1>8. /\ Len(l) \in Nat \ {0} /\ DOMAIN l = 1..Len(l)
      /\ 1 \in 1..Len(l) /\ l[1].pid = p /\ f.idx \in 1..Len(l)
      /\ \A i \in 1..Len(l) :
           /\ l[i] \in Proc /\ l[i].pid \in DOMAIN s.map /\ l[i] = s.map[l[i].pid]
           /\ l[i].names \subseteq TrueNames(h[l[i].pid].runs)
      /\ f.kind # "User" => Installs(h[l[f.idx].pid].runs)
  BY <1>0, <1>7, Filing
<1>9. /\ in.action = ev.action /\ in.path = ev.path /\ in.kind = f.kind
      /\ in.key = <<l[f.idx].pid, l[f.idx].start_ts>>
  BY DEF Resolution
<1>91. x \in {0, p} /\ \A v \in Lines(host) : v[1] \in DOMAIN host /\ v[1] # 0
  <2>1. \A v \in Lines(host) : 1 \in 1..Len(v) /\ v[1] \in DOMAIN host
    BY <1>0, LineFalls
  <2>2. QED
    BY <1>0, <2>1, EventsAssumption DEF HostTyped, x, Renewed
<1>92. ASSUME Roomy(h), NEW i \in 1..Len(u), i <= ANCESTRY_MAX  PROVE Link(h, s, u[i])
  <2>1. \A k \in 1..Len(ev.ancestry) : ev.ancestry[k].pid = u[k + 1] /\ Listed(ev.ancestry, s, k)
    BY <1>2, <1>7, <1>92
  <2>2. u[1] # 1 /\ u[1] \in DOMAIN s.map /\ s.map[u[1]].ppid = h[u[1]].parent
    BY <1>1, <1>2, <1>7, <1>92
  <2>3. Len(ev.ancestry) = Heard(Len(u) - 1)
    BY <1>2
  <2>4. QED
    BY <1>0, <1>7, <1>92, <2>1, <2>2, <2>3, EventLinks
<1>10. Ready(h, x) /\ OutermostAbove(h, p) # 0 => l[f.idx].pid = OutermostAbove(h, p)
  <2> SUFFICES ASSUME Ready(h, x), OutermostAbove(h, p) # 0
               PROVE  l[f.idx].pid = OutermostAbove(h, p)
    OBVIOUS
  <2>1. /\ Roomy(h) /\ Shallow /\ Marked(h) /\ Copies(h) /\ ~Installs(h[1].runs)
        /\ Whole(h, Known, x) /\ Linked(h, Known, x)
    BY DEF Ready
  <2>2. Linked(h, Known, u[1])
    <3>1. \A v \in Lines(h) : v[1] # 0
      BY <1>91, ViewLines
    <3>2. QED
      BY <1>1, <1>91, <2>1, <3>1 DEF Linked
  <2>3. \A i \in 1..Len(u) : i <= ANCESTRY_MAX => Link(h, s, u[i])
    BY <1>92, <2>1
  <2>4. \A i \in 1..Len(u) : Link(h, s, u[i])
    BY <1>0, <1>7, <2>1, <2>2, <2>3, LineKnown
  <2>5. Whole(h, s, 0)
    BY <1>7, <2>1
  <2>6. LET t == Lineage(s.map, u[1]) IN
        OutermostAbove(h, u[1]) # 0 => t[FindAnchor(t).idx].pid = OutermostAbove(h, u[1])
    BY <1>0, <1>7, <2>1, <2>4, <2>5, FilingUnder
  <2>7. QED
    BY <1>1, <2>6
<1>93. Roomy(h) /\ Linked(h, Known, x) => Linked(h, s, 0)
  <2> SUFFICES ASSUME Roomy(h), Linked(h, Known, x),
                      NEW v \in Lines(h), v[1] \notin {1, 0}, h[v[1]].execed,
                      NEW i \in 1..Len(v), i <= ANCESTRY_MAX
               PROVE  Link(h, s, v[i])
    BY DEF Linked
  <2>1. CASE v[1] = p
    <3>1. v \in Lines(host)
      BY ViewLines
    <3>2. v = u
      BY <1>0, <1>1, <2>1, <3>1, AboveIs
    <3>3. QED
      BY <1>92, <3>2
  <2>2. CASE v[1] # p
    <3>1. Link(h, Known, v[i])
      BY <1>91, <2>2 DEF Linked
    <3>2. QED
      BY <1>7, <3>1, LinkKept
  <2>3. QED
    BY <2>1, <2>2
<1>11. OutermostAbove(h, p) \in Pid \cup {0}
  BY <1>0, <1>1, OutermostIs
<1> HIDE DEF l, f, in
<1>12. /\ in.key \in Pid \X Nat /\ in.key[1] = l[f.idx].pid /\ in.key[1] \in DOMAIN s.map
       /\ in.key[2] = s.map[in.key[1]].start_ts
  BY <1>8, <1>9 DEF Proc
<1>13. in.key[1] \in DOMAIN h
  BY <1>7, <1>12 DEF TellsOf
<1>14. Filed(h, p, act, ev, s, in)
  BY <1>2, <1>8, <1>9, <1>10, <1>11, <1>12, <1>13, <1>93 DEF Filed, x
<1>15. l[1].names \subseteq TrueNames(h[p].runs)
  BY <1>8
<1>16. QED
  BY <1>3, <1>6, <1>14, <1>15 DEF ev, s, l, in, x

Observation ==
  [action : Action, path : Path \cup {None}, loopback : BOOLEAN, secret : BOOLEAN,
   key : Pid \X Nat, born : Nat, manager : BOOLEAN, tool : Pid \cup {0}]

\* The rules a user's own chain is not held to.
Accusing == {"C1", "P1", "P2", "L3", "L10"}

\* The event e of h has been noted and the table has learnt of it.
Told(h, p, act, e) ==
  /\ phase = "running" /\ fed' = fed + 1 /\ past' = Append(past, e) /\ e \in Observation
  /\ Known' \in Sound /\ TellsOf(h, Known', 0)
  /\ Roomy(h) => /\ Keeps(Known, Known')
                 /\ Whole(h, Known, Renewed(p, act)) => Whole(h, Known', 0)
                 /\ Linked(h, Known, Renewed(p, act)) => Linked(h, Known', 0)
  /\ e.key[1] \in DOMAIN map' /\ e.key[2] = map'[e.key[1]].start_ts
  /\ Ready(h, Renewed(p, act)) /\ e.tool # 0 => e.key[1] = e.tool

\* Its chain c has become a.
Grown(e, c, a, ts) ==
  /\ DOMAIN a = ChainFields /\ a.kind = c.kind
  /\ a.first_ts = c.first_ts /\ c.first_ts \in Nat /\ a.last_ts = ts
  /\ c.written \subseteq a.written /\ DOMAIN c.hits \subseteq DOMAIN a.hits
  /\ e.action = "Write" /\ e.path # None => e.path \in a.written
  /\ c.first_secret \in Nat \cup {Never} /\ a.first_secret \in {c.first_secret, ts}
  /\ c.first_secret # Never => a.first_secret = c.first_secret
  /\ e.secret => a.first_secret # Never
  /\ e.action = "Exec" /\ e.path \in c.written => "L1" \in DOMAIN a.hits
  /\ e.action = "Connect" /\ ~e.loopback /\ c.first_secret # Never /\ c.first_secret <= ts
       => "N2" \in DOMAIN a.hits
  /\ DOMAIN a.hits \cap Accusing # {} => DOMAIN c.hits \cap Accusing # {} \/ c.kind # "User"

Advanced(e, c, ts) ==
  /\ DOMAIN chains' = (DOMAIN chains \ Idle(ts)) \cup {e.key}
  /\ \A k \in DOMAIN chains' \ {e.key} : k \in DOMAIN chains /\ chains'[k] = chains[k]
  /\ Grown(e, c, chains'[e.key], ts)
  /\ IF e.key \in DOMAIN chains \ Idle(ts)
     THEN c = chains[e.key]
     ELSE /\ DOMAIN c.hits = {} /\ c.first_secret = Never /\ c.first_ts = ts
          /\ c.kind # "User" => e.manager

\* What noting an event in its chain adds to it.
LEMMA BecameGrown ==
  ASSUME NEW h, NEW ctx, NEW in, NEW ts \in Nat, NEW c, NEW b, NEW a, NEW e,
         ctx.chain = b, ctx.ev.action \in Action, ctx.ev.ts = ts,
         DOMAIN c = ChainFields, c.first_ts \in Nat, c.first_secret \in Nat \cup {Never},
         b.kind = c.kind, b.hits = c.hits, b.written = c.written, b.first_secret = c.first_secret,
         Opening(in, ts) # {} => c.kind # "User", Opening(in, ts) \subseteq {"C1"},
         Became(c, in, Evaluate(ctx), ts, a),
         in.action = ctx.ev.action, in.path = ctx.ev.path,
         e.action = ctx.ev.action, e.path = ctx.ev.path, e.loopback = ctx.ev.loopback,
         e.secret => ctx.ev.action = "SecretRead" /\ Secret(h, ctx.ev.pid, ctx.ev.path),
         Actor(ctx).names \subseteq TrueNames(h[ctx.ev.pid].runs)
  PROVE  Grown(e, c, a, ts)
<1> DEFINE found == Evaluate(ctx)
<1>1. /\ DOMAIN a = ChainFields /\ a.kind = c.kind /\ a.first_ts = c.first_ts /\ a.last_ts = ts
      /\ a.written = IF in.action = "Write" THEN c.written \cup ({in.path} \ {None}) ELSE c.written
      /\ a.first_secret = IF c.first_secret = Never /\ {"F1", "L8"} \cap DOMAIN found # {}
                          THEN ts ELSE c.first_secret
      /\ DOMAIN c.hits \cup DOMAIN found \subseteq DOMAIN a.hits
      /\ DOMAIN a.hits \subseteq DOMAIN c.hits \cup DOMAIN found \cup Opening(in, ts) \cup {"C3"}
  BY DEF Became
<1>2. c.written \subseteq a.written /\ (e.action = "Write" /\ e.path # None => e.path \in a.written)
  BY <1>1
<1>3. Never \notin Nat
  BY DEF Never
<1>4. e.secret => {"F1", "L8"} \cap DOMAIN found # {}
  BY SecretFound
<1>5. e.action = "Exec" /\ e.path \in c.written => "L1" \in DOMAIN found
  BY DroppedIsRun
<1>6. e.action = "Connect" /\ ~e.loopback /\ c.first_secret # Never /\ c.first_secret <= ts
        => "N2" \in DOMAIN found
  BY SecretLeaves
<1>7. DOMAIN found \cap Accusing # {} => c.kind # "User"
  <2>1. DOMAIN found \cap {"C1", "C3"} = {}
    BY NoC1Rule
  <2>2. DOMAIN found \cap {"P1", "P2", "L3", "L10"} # {} => c.kind # "User"
    BY AccusingRules
  <2> HIDE DEF found
  <2>3. QED
    BY <2>1, <2>2 DEF Accusing
<1> HIDE DEF found
<1>8. DOMAIN a.hits \cap Accusing # {} => DOMAIN c.hits \cap Accusing # {} \/ c.kind # "User"
  BY <1>1, <1>7 DEF Accusing
<1>9. /\ a.first_secret \in {c.first_secret, ts}
      /\ c.first_secret # Never => a.first_secret = c.first_secret
      /\ e.secret => a.first_secret # Never
  BY <1>1, <1>3, <1>4
<1>10. QED
  BY <1>1, <1>2, <1>5, <1>6, <1>8, <1>9 DEF Grown

\* An event as a whole.
LEMMA Observing ==
  ASSUME HostInv, Known \in Sound, Shaped(chains), fed \in Nat, NEW h, ViewOf(h),
         NEW p \in Started, NEW act \in Deed, TellsOf(h, Known, Renewed(p, act)),
         Observes(h, p, act)
  PROVE  \E e : /\ e.action = act.action /\ e.path = act.path /\ e.loopback = act.loopback
                /\ Told(h, p, act, e)
                /\ \E c : Advanced(e, c, fed + 1)
<1>1. PICK ts \in Nat : ts = fed + 1
  OBVIOUS
<1> DEFINE ev == EventOf(h, p, act, ts)
           s  == Observed(Known, ev)
           l  == Lineage(s.map, p)
           in == Resolution(ev, l)
           b  == Attributed(in, ts)
           c  == Chain(in, ts)
           ctx == [ev |-> ev, lineage |-> l, idx |-> FindAnchor(l).idx, chain |-> b]
           e  == [action |-> act.action, path |-> act.path, loopback |-> act.loopback,
                  secret |-> act.action = "SecretRead" /\ Secret(h, p, act.path),
                  key |-> in.key, born |-> h[in.key[1]].born,
                  manager |-> Installs(h[in.key[1]].runs),
                  tool |-> OutermostAbove(h, p)]
<1>2. /\ EventSaid(p, act, ev, ts) /\ Informed(h, Known, ev, s, Renewed(p, act))
      /\ l[1].names \subseteq TrueNames(h[p].runs)
      /\ Filed(h, p, act, ev, s, in)
  BY EventFiled
<1>3. /\ ev \in EventType /\ ev.pid = p /\ ev.action = act.action /\ ev.path = act.path
      /\ ev.loopback = act.loopback /\ ev.ts = ts
  BY <1>2 DEF EventSaid
<1>4. Observed([map |-> map, order |-> order], ev) = s
  BY DEF Known
<1>5. /\ Handle(in, Evaluate(ctx), ts)
      /\ map' = s.map /\ order' = s.order
      /\ past' = Append(past, e)
  <2>1. LineageAfter(ev) = l
    BY <1>3, <1>4 DEF LineageAfter
  <2>2. /\ ProcessEvent(ev)
        /\ past' = Append(past, e)
    BY <1>1, <2>1 DEF Observes
  <2>3. Handle(in, Evaluate(ctx), ts) /\ Observe(ev)
    BY <1>3, <2>1, <2>2 DEF ProcessEvent
  <2>4. map' = s.map /\ order' = s.order
    BY <1>4, <2>3 DEF Observe
  <2>5. QED
    BY <2>2, <2>3, <2>4
<1>6. ctx.ev = ev /\ ctx.chain = b /\ Actor(ctx) = l[1]
  BY DEF Actor
<1>7. phase = "running" /\ fed' = ts
  BY <1>1, <1>5 DEF Handle
<1> HIDE DEF ev, s, l, ctx
<1>8. /\ in.action = act.action /\ in.path = act.path
      /\ in.key \in Pid \X Nat /\ in.key[1] \in DOMAIN s.map /\ in.key[1] \in DOMAIN h
      /\ in.key[2] = s.map[in.key[1]].start_ts
      /\ in.kind # "User" => Installs(h[in.key[1]].runs)
      /\ OutermostAbove(h, p) \in Pid \cup {0}
      /\ Ready(h, Renewed(p, act)) /\ OutermostAbove(h, p) # 0
           => in.key[1] = OutermostAbove(h, p)
      /\ Roomy(h) /\ Linked(h, Known, Renewed(p, act)) => Linked(h, s, 0)
  BY <1>2 DEF Filed
<1> HIDE DEF in
<1>9. /\ e.action = act.action /\ e.path = act.path /\ e.loopback = act.loopback /\ e.key = in.key
      /\ e.tool = OutermostAbove(h, p)
      /\ e.secret <=> act.action = "SecretRead" /\ Secret(h, p, act.path)
      /\ e.manager <=> Installs(h[in.key[1]].runs)
      /\ e \in Observation
  <2>1. PICK secret \in BOOLEAN : secret = (act.action = "SecretRead" /\ Secret(h, p, act.path))
    OBVIOUS
  <2>2. PICK manager \in BOOLEAN : manager = Installs(h[in.key[1]].runs)
    <3>1. Installs(h[in.key[1]].runs) \in BOOLEAN
      BY DEF Installs
    <3>2. QED
      BY <3>1
  <2>3. h[in.key[1]].born \in Nat
    BY <1>8 DEF ViewOf, HostRecord
  <2>4. e = [action |-> act.action, path |-> act.path, loopback |-> act.loopback,
             secret |-> secret, key |-> in.key, born |-> h[in.key[1]].born,
             manager |-> manager, tool |-> OutermostAbove(h, p)]
    BY <2>1, <2>2
  <2> HIDE DEF e
  <2>5. /\ e.action = act.action /\ e.path = act.path /\ e.loopback = act.loopback
        /\ e.key = in.key /\ e.tool = OutermostAbove(h, p)
        /\ e.secret = secret /\ e.manager = manager
    BY <2>4
  <2>6. e \in Observation
    BY <1>8, <2>3, <2>4 DEF Observation, Deed
  <2>7. QED
    BY <2>1, <2>2, <2>5, <2>6
<1> HIDE DEF e
<1>10. Told(h, p, act, e)
  <2>1. Known' = [map |-> s.map, order |-> s.order]
    BY <1>5 DEF Known
  <2>2. /\ s \in Sound /\ TellsOf(h, s, 0)
        /\ Roomy(h) => /\ Keeps(Known, s)
                       /\ (Whole(h, Known, Renewed(p, act)) => Whole(h, s, 0))
                       /\ (Linked(h, Known, Renewed(p, act)) => Linked(h, s, 0))
    BY <1>2, <1>8 DEF Informed
  <2>3. s = [map |-> s.map, order |-> s.order]
    BY <2>2, SoundTable
  <2>4. Known' = s
    BY <2>1, <2>3
  <2>5. e.key[1] \in DOMAIN map' /\ e.key[2] = map'[e.key[1]].start_ts
    BY <1>5, <1>8, <1>9
  <2>6. QED
    BY <1>1, <1>5, <1>7, <1>8, <1>9, <2>2, <2>4, <2>5 DEF Told
<1>11. Advanced(e, c, ts)
  <2>1. /\ DOMAIN c = ChainFields /\ DOMAIN b = ChainFields
        /\ c.first_ts \in Nat /\ c.first_secret \in Nat \cup {Never}
        /\ b.kind = c.kind /\ b.hits = c.hits /\ b.written = c.written
        /\ b.first_ts = c.first_ts /\ b.first_secret = c.first_secret
        /\ IF in.key \in DOMAIN chains \ Idle(ts)
           THEN c = chains[in.key]
           ELSE /\ c.kind = in.kind /\ DOMAIN c.hits = {} /\ c.written = {}
                /\ c.first_secret = Never /\ c.first_ts = ts
        /\ Opening(in, ts) # {} => c.kind # "User"
        /\ Opening(in, ts) \subseteq {"C1"}
    BY ChainIs
  <2>2. /\ DOMAIN chains' = (DOMAIN chains \ Idle(ts)) \cup {in.key}
        /\ Became(c, in, Evaluate(ctx), ts, chains'[in.key])
        /\ \A k \in DOMAIN chains' \ {in.key} : k \in DOMAIN chains /\ chains'[k] = chains[k]
    BY <1>5, HandleBecomes
  <2> HIDE DEF b, c
  <2>3. PICK a : a = chains'[in.key]
    OBVIOUS
  <2>4. Grown(e, c, a, ts)
    <3>1. ctx.ev.action \in Action
      BY <1>3, <1>6 DEF Deed
    <3>2. Became(c, in, Evaluate(ctx), ts, a)
      BY <2>2, <2>3
    <3>3. /\ ctx.chain = b /\ ctx.ev.ts = ts
          /\ in.action = ctx.ev.action /\ in.path = ctx.ev.path
          /\ e.action = ctx.ev.action /\ e.path = ctx.ev.path /\ e.loopback = ctx.ev.loopback
      BY <1>3, <1>6, <1>8, <1>9
    <3>4. e.secret => ctx.ev.action = "SecretRead" /\ Secret(h, ctx.ev.pid, ctx.ev.path)
      BY <1>3, <1>6, <1>9
    <3>5. Actor(ctx).names \subseteq TrueNames(h[ctx.ev.pid].runs)
      BY <1>2, <1>3, <1>6
    <3>6. /\ DOMAIN c = ChainFields /\ c.first_ts \in Nat /\ c.first_secret \in Nat \cup {Never}
          /\ b.kind = c.kind /\ b.hits = c.hits /\ b.written = c.written
          /\ b.first_secret = c.first_secret
          /\ Opening(in, ts) # {} => c.kind # "User"
          /\ Opening(in, ts) \subseteq {"C1"}
      BY <2>1
    <3>7. QED
      BY <3>1, <3>2, <3>3, <3>4, <3>5, <3>6, BecameGrown
  <2>5. QED
    BY <1>8, <1>9, <2>1, <2>2, <2>3, <2>4 DEF Advanced
<1>12. QED
  <2>1. \E z : Advanced(e, z, fed + 1)
    BY <1>1, <1>11
  <2>2. QED
    BY <1>9, <1>10, <2>1

-----------------------------------------------------------------------------
(* The inductive invariants.                                               *)

\* Only a chain whose anchor was seen to run an install is a dependency's, and
\* only such a chain is accused.
Accused ==
  \A k \in DOMAIN chains :
    /\ chains[k].kind # "User" => \E i \in 1..Len(past) : past[i].key = k /\ past[i].manager
    /\ DOMAIN chains[k].hits \cap Accusing # {} => chains[k].kind # "User"

\* While the engine runs, the chain of an event is open until its key has been
\* silent for the timeout.
Recent ==
  \A m \in 1..Len(past) :
    \/ phase # "running" \/ m + IDLE_NS < fed
    \/ past[m].key \in DOMAIN chains /\ m <= chains[past[m].key].last_ts

\* So a chain is opened anew only after such a silence.
Reopened ==
  \A k \in DOMAIN chains :
    /\ chains[k].first_ts <= fed
    /\ \A m \in 1..Len(past) :
         past[m].key = k /\ m < chains[k].first_ts => m + IDLE_NS < chains[k].first_ts

\* What holds however small the table is and whatever execs what.
Watched ==
  /\ HostInv /\ Known \in Sound /\ TellsOf(host, Known, 0) /\ Shaped(chains)
  /\ fed \in Nat /\ past \in Seq(Observation) /\ Len(past) = fed
  /\ Accused /\ Recent /\ Reopened

\* An open chain remembers the files written and the secrets read in it.
Evidence ==
  /\ \A k \in DOMAIN chains : chains[k].first_secret <= fed
  /\ \A i \in 1..Len(past) :
       past[i].key \in DOMAIN chains /\ i >= chains[past[i].key].first_ts =>
         /\ past[i].action = "Write" /\ past[i].path # None
              => past[i].path \in chains[past[i].key].written
         /\ past[i].secret => chains[past[i].key].first_secret # Never

\* Two events of one open chain that tell on each other have.
Joined ==
  \A j \in 1..Len(past) : \A i \in 1..(j - 1) :
    /\ past[i].key = past[j].key /\ past[j].key \in DOMAIN chains
    /\ i >= chains[past[j].key].first_ts
    => Telltale(past[i], past[j]) \subseteq DOMAIN chains[past[j].key].hits

\* What holds when nothing is forgotten and a tool only makes way for a tool.
Recalled == /\ Copies(host) /\ Whole(host, Known, 0) /\ Linked(host, Known, 0)
            /\ FiledUnderTool /\ Evidence /\ Joined

\* One more event.
LEMMA PastGrows ==
  ASSUME NEW n \in Nat, past \in Seq(Observation), Len(past) = n, NEW e \in Observation,
         past' = Append(past, e)
  PROVE  /\ past' \in Seq(Observation) /\ Len(past') = n + 1 /\ DOMAIN past' = 1..(n + 1)
         /\ past'[n + 1] = e /\ n + 1 \in 1..(n + 1)
         /\ \A i \in 1..n : past'[i] = past[i] /\ i \in 1..(n + 1)
         /\ \A i \in 1..(n + 1) : i # n + 1 => i \in 1..n
OBVIOUS

\* One more event, of a host h, that the engine was told of.
LEMMA WatchedEvent ==
  ASSUME Watched, HostInv', NEW h, host' = h, NEW p, NEW act, NEW e, NEW c,
         Told(h, p, act, e), Advanced(e, c, fed + 1)
  PROVE  Watched'
<1>1. PICK n \in Nat : n = fed
  BY DEF Watched
<1>2. PICK ts \in Nat : ts = n + 1
  OBVIOUS
<1>3. /\ past' = Append(past, e) /\ e \in Observation /\ fed' = ts
      /\ Known' \in Sound /\ TellsOf(host', Known', 0)
  BY <1>1, <1>2 DEF Told
<1>4. /\ past' \in Seq(Observation) /\ Len(past') = ts /\ ts \in 1..ts
      /\ past'[ts] = e /\ \A i \in 1..n : past'[i] = past[i] /\ i \in 1..ts
  BY <1>1, <1>2, <1>3, PastGrows DEF Watched
<1>5. /\ DOMAIN chains' = (DOMAIN chains \ Idle(ts)) \cup {e.key}
      /\ \A k \in DOMAIN chains' \ {e.key} : k \in DOMAIN chains /\ chains'[k] = chains[k]
      /\ Grown(e, c, chains'[e.key], ts)
      /\ IF e.key \in DOMAIN chains \ Idle(ts)
         THEN c = chains[e.key]
         ELSE /\ DOMAIN c.hits = {} /\ c.first_secret = Never /\ c.first_ts = ts
              /\ c.kind # "User" => e.manager
  BY <1>1, <1>2 DEF Advanced
<1>6. PICK a : a = chains'[e.key]
  OBVIOUS
<1>7. /\ DOMAIN a = ChainFields /\ a.kind = c.kind /\ a.first_ts = c.first_ts /\ c.first_ts \in Nat
      /\ a.last_ts = ts
      /\ c.first_secret \in Nat \cup {Never} /\ a.first_secret \in {c.first_secret, ts}
      /\ DOMAIN a.hits \cap Accusing # {} => DOMAIN c.hits \cap Accusing # {} \/ c.kind # "User"
  BY <1>5, <1>6 DEF Grown
<1>8. Shaped(chains')
  BY <1>2, <1>5, <1>6, <1>7 DEF Shaped, Watched
<1>9. /\ \A k \in DOMAIN chains : chains[k].kind # "User" => \E i \in 1..n : past[i].key = k /\ past[i].manager
      /\ \A k \in DOMAIN chains : DOMAIN chains[k].hits \cap Accusing # {} => chains[k].kind # "User"
  BY <1>1 DEF Watched, Accused
<1>10. \A k \in DOMAIN chains :
         chains[k].kind # "User" => \E i \in 1..ts : past'[i].key = k /\ past'[i].manager
  <2> SUFFICES ASSUME NEW k \in DOMAIN chains, chains[k].kind # "User"
               PROVE  \E i \in 1..ts : past'[i].key = k /\ past'[i].manager
    OBVIOUS
  <2>1. PICK i \in 1..n : past[i].key = k /\ past[i].manager
    BY <1>9
  <2>2. QED
    BY <1>4, <2>1
<1>11. ASSUME NEW k \in DOMAIN chains'
       PROVE  /\ chains'[k].kind # "User" => \E i \in 1..ts : past'[i].key = k /\ past'[i].manager
              /\ DOMAIN chains'[k].hits \cap Accusing # {} => chains'[k].kind # "User"
  <2>1. CASE k # e.key
    BY <1>5, <1>9, <1>10, <2>1
  <2>2. CASE k = e.key /\ k \in DOMAIN chains \ Idle(ts)
    BY <1>5, <1>6, <1>7, <1>9, <1>10, <2>2
  <2>3. CASE k = e.key /\ k \notin DOMAIN chains \ Idle(ts)
    <3>1. DOMAIN c.hits = {} /\ (c.kind # "User" => e.manager)
      BY <1>5, <2>3
    <3>2. DOMAIN a.hits \cap Accusing # {} => a.kind # "User"
      BY <1>7, <3>1
    <3>3. a.kind # "User" => past'[ts].key = k /\ past'[ts].manager
      BY <1>4, <1>7, <2>3, <3>1
    <3>4. QED
      BY <1>4, <1>6, <2>3, <3>2, <3>3
  <2>4. QED
    BY <2>1, <2>2, <2>3
<1>12. Accused'
  BY <1>4, <1>11 DEF Accused
<1>13. Recent' /\ Reopened'
  <2> HIDE DEF Told
  <2>1. phase = "running"
    BY DEF Told
  <2>2. \A m \in 1..n : m + IDLE_NS < n \/ (past[m].key \in DOMAIN chains /\ m <= chains[past[m].key].last_ts)
    BY <1>1, <2>1 DEF Watched, Recent
  <2>3. \A k \in Idle(ts) : k \in DOMAIN chains /\ chains[k].last_ts + IDLE_NS < ts
    BY DEF Idle
  <2>4. IDLE_NS \in Nat /\ \A k \in DOMAIN chains : chains[k].last_ts \in Nat /\ chains[k].first_ts \in Nat
    BY ChainsAssumption DEF Watched, Shaped
  \* An event is remembered by its chain, or has been silent for the timeout.
  <2>5. ASSUME NEW m \in 1..n
        PROVE  m + IDLE_NS < ts \/ (past[m].key \in DOMAIN chains \ Idle(ts) /\ m <= chains[past[m].key].last_ts)
    <3>1. CASE m + IDLE_NS < n
      BY <1>2, <2>4, <3>1
    <3>2. CASE past[m].key \in Idle(ts) /\ m <= chains[past[m].key].last_ts
      <4>1. PICK l \in Nat : l = chains[past[m].key].last_ts
        BY <2>3, <2>4, <3>2
      <4>2. m <= l /\ l + IDLE_NS < ts
        BY <2>3, <3>2, <4>1
      <4>3. QED
        BY <2>4, <4>2
    <3>3. QED
      BY <2>2, <3>1, <3>2
  <2>6. Recent'
    <3>1. ASSUME NEW m \in 1..ts
          PROVE  m + IDLE_NS < ts \/ (past'[m].key \in DOMAIN chains' /\ m <= chains'[past'[m].key].last_ts)
      <4>1. CASE past'[m].key = e.key
        <5>1. chains'[past'[m].key].last_ts = ts /\ e.key \in DOMAIN chains'
          BY <1>5, <1>6, <1>7, <4>1
        <5>2. QED
          BY <4>1, <5>1
      <4>2. CASE past'[m].key # e.key
        <5>1. m # ts
          BY <1>4, <4>2
        <5>2. m \in 1..n /\ past'[m] = past[m]
          BY <1>2, <1>4, <5>1
        <5>3. QED
          BY <1>5, <2>5, <4>2, <5>2
      <4>3. QED
        BY <4>1, <4>2
    <3>2. QED
      BY <1>3, <1>4, <3>1 DEF Recent
  <2>7. Reopened'
    <3>0. ASSUME NEW k \in DOMAIN chains'  PROVE chains'[k].first_ts <= ts
      <4>1. CASE k \in DOMAIN chains \ Idle(ts) /\ chains'[k].first_ts = chains[k].first_ts
        <5>1. chains[k].first_ts <= n /\ chains[k].first_ts \in Nat
          BY <1>1, <2>4, <4>1 DEF Watched, Reopened
        <5>2. QED
          BY <1>2, <4>1, <5>1
      <4>2. CASE k = e.key /\ k \notin DOMAIN chains \ Idle(ts)
        BY <1>5, <1>6, <1>7, <4>2
      <4>3. QED
        BY <1>5, <1>6, <1>7, <4>1, <4>2
    <3> SUFFICES ASSUME NEW k \in DOMAIN chains', NEW m \in 1..ts, past'[m].key = k,
                        m < chains'[k].first_ts
                 PROVE  m + IDLE_NS < chains'[k].first_ts
      BY <1>3, <1>4, <3>0 DEF Reopened
    <3>1. CASE k # e.key
      <4>1. m # ts
        BY <1>4, <3>1
      <4>2. m \in 1..n /\ past'[m] = past[m] /\ k \in DOMAIN chains /\ chains'[k] = chains[k]
        BY <1>2, <1>4, <1>5, <3>1, <4>1
      <4>3. QED
        BY <1>1, <4>2 DEF Watched, Reopened
    <3>2. CASE k = e.key /\ k \in DOMAIN chains \ Idle(ts)
      <4>1. c = chains[k] /\ chains'[k].first_ts = chains[k].first_ts
        BY <1>5, <1>6, <1>7, <3>2
      <4>2. CASE m = ts
        <5>1. k \in DOMAIN chains /\ chains[k].first_ts <= ts
          BY <1>1, <1>2, <2>4, <3>2 DEF Watched, Reopened
        <5>2. QED
          BY <2>4, <3>2, <4>1, <4>2, <5>1
      <4>3. CASE m # ts
        <5>1. m \in 1..n /\ past'[m] = past[m]
          BY <1>2, <1>4, <4>3
        <5>2. QED
          BY <1>1, <3>2, <4>1, <5>1 DEF Watched, Reopened
      <4>4. QED
        BY <4>2, <4>3
    <3>3. CASE k = e.key /\ k \notin DOMAIN chains \ Idle(ts)
      <4>1. chains'[k].first_ts = ts
        BY <1>5, <1>6, <1>7, <3>3
      <4>2. m # ts /\ m \in 1..n /\ past'[m] = past[m]
        BY <1>2, <1>4, <4>1
      <4>3. QED
        BY <2>5, <3>3, <4>1, <4>2
    <3>4. QED
      BY <3>1, <3>2, <3>3
  <2>8. QED
    BY <2>6, <2>7
<1>14. QED
  BY <1>3, <1>4, <1>8, <1>12, <1>13 DEF Watched

\* No process the table knows loses its identity, so no key does.
LEMMA KeysKept ==
  ASSUME Watched, AnchorsKeepKeys, NEW h, Roomy(h), NEW p, NEW act, NEW e, Told(h, p, act, e)
  PROVE  AnchorsKeepKeys'
<1>1. PICK n \in Nat : n = fed
  BY DEF Watched
<1>2. past' = Append(past, e) /\ e \in Observation /\ Keeps(Known, Known')
      /\ e.key[1] \in DOMAIN map' /\ e.key[2] = map'[e.key[1]].start_ts
  BY DEF Told
<1>3. /\ DOMAIN past = 1..n /\ DOMAIN past' = 1..(n + 1) /\ past'[n + 1] = e
      /\ \A i \in 1..n : past'[i] = past[i]
      /\ \A i \in 1..(n + 1) : i # n + 1 => i \in 1..n
  BY <1>1, <1>2, PastGrows DEF Watched
<1>4. \A q \in DOMAIN map : q \in DOMAIN map' /\ map'[q].start_ts = map[q].start_ts
  BY <1>2 DEF Keeps, Known
<1>5. \A i \in 1..n : past[i].key[1] \in DOMAIN map /\ past[i].key[2] = map[past[i].key[1]].start_ts
  BY <1>3 DEF AnchorsKeepKeys
<1>6. \A i \in 1..(n + 1) : /\ past'[i].key[1] \in DOMAIN map'
                           /\ past'[i].key[2] = map'[past'[i].key[1]].start_ts
  BY <1>2, <1>3, <1>4, <1>5
<1>7. QED
  BY <1>3, <1>6 DEF AnchorsKeepKeys

\* One more event under the premises: it is filed under its install's process,
\* and its chain has what it tells on.
LEMMA RecalledEvent ==
  ASSUME Watched, Recalled, NEW h, host' = h, NEW p, NEW act, Ready(h, Renewed(p, act)),
         act.action = "Exec" => act.path # None, NEW e, e.action = act.action, e.path = act.path,
         NEW c, Told(h, p, act, e), Advanced(e, c, fed + 1)
  PROVE  Recalled'
<1>1. PICK n \in Nat : n = fed
  BY DEF Watched
<1>2. PICK ts \in Nat : ts = n + 1
  OBVIOUS
<1>3. /\ past' = Append(past, e) /\ e \in Observation /\ fed' = ts
      /\ Keeps(Known, Known') /\ Whole(host', Known', 0) /\ Linked(host', Known', 0)
      /\ e.key[1] \in DOMAIN map' /\ e.key[2] = map'[e.key[1]].start_ts
      /\ e.tool # 0 => e.key[1] = e.tool
      /\ Copies(host')
  <2>1. /\ Roomy(h) /\ Copies(h)
        /\ Whole(h, Known, Renewed(p, act)) /\ Linked(h, Known, Renewed(p, act))
    BY DEF Ready
  <2>2. QED
    BY <1>1, <1>2, <2>1 DEF Told
<1>4. /\ past' \in Seq(Observation) /\ Len(past') = ts /\ DOMAIN past' = 1..ts /\ ts \in 1..ts
      /\ past'[ts] = e /\ \A i \in 1..n : past'[i] = past[i] /\ i \in 1..ts
      /\ \A i \in 1..ts : i # ts => i \in 1..n
  BY <1>1, <1>2, <1>3, PastGrows DEF Watched
<1>5. /\ Len(past) = n /\ DOMAIN past = 1..n
  BY <1>1 DEF Watched
<1>6. FiledUnderTool'
  <2>1. \A i \in 1..n : past[i].tool # 0 => past[i].key[1] = past[i].tool
    BY <1>5 DEF Recalled, FiledUnderTool
  <2>2. \A i \in 1..ts : past'[i].tool # 0 => past'[i].key[1] = past'[i].tool
    BY <1>3, <1>4, <2>1
  <2>3. QED
    BY <1>4, <2>2 DEF FiledUnderTool
<1>8. /\ DOMAIN chains' = (DOMAIN chains \ Idle(ts)) \cup {e.key}
      /\ \A k \in DOMAIN chains' \ {e.key} : k \in DOMAIN chains /\ chains'[k] = chains[k]
      /\ Grown(e, c, chains'[e.key], ts)
      /\ IF e.key \in DOMAIN chains \ Idle(ts)
         THEN c = chains[e.key]
         ELSE /\ DOMAIN c.hits = {} /\ c.first_secret = Never /\ c.first_ts = ts
              /\ c.kind # "User" => e.manager
  BY <1>1, <1>2 DEF Advanced
<1>9. PICK a : a = chains'[e.key]
  OBVIOUS
<1>10. /\ DOMAIN a = ChainFields /\ a.first_ts = c.first_ts /\ c.first_ts \in Nat
       /\ c.written \subseteq a.written /\ DOMAIN c.hits \subseteq DOMAIN a.hits
       /\ e.action = "Write" /\ e.path # None => e.path \in a.written
       /\ c.first_secret \in Nat \cup {Never} /\ a.first_secret \in {c.first_secret, ts}
       /\ c.first_secret # Never => a.first_secret = c.first_secret
       /\ e.secret => a.first_secret # Never
       /\ e.action = "Exec" /\ e.path \in c.written => "L1" \in DOMAIN a.hits
       /\ e.action = "Connect" /\ ~e.loopback /\ c.first_secret # Never /\ c.first_secret <= ts
            => "N2" \in DOMAIN a.hits
  BY <1>8, <1>9 DEF Grown
\* An event before this one is of the chain as it is now only if it was before.
<1>11. ASSUME NEW i \in 1..n, NEW k \in DOMAIN chains', i >= chains'[k].first_ts
       PROVE  /\ k \in DOMAIN chains /\ i >= chains[k].first_ts
              /\ k # e.key => chains'[k] = chains[k]
              /\ k = e.key => c = chains[k] /\ chains'[k] = a
  <2>1. CASE k # e.key
    BY <1>8, <1>11, <2>1
  <2>2. CASE k = e.key
    <3>1. k \in DOMAIN chains \ Idle(ts)
      <4> SUFFICES ASSUME k \notin DOMAIN chains \ Idle(ts)  PROVE FALSE
        OBVIOUS
      <4>1. a.first_ts = ts
        BY <1>8, <1>10, <2>2
      <4>2. i >= ts /\ i \in Nat /\ i <= n
        BY <1>9, <1>11, <2>2, <4>1
      <4>3. QED
        BY <1>2, <4>2
    <3>2. QED
      BY <1>8, <1>9, <1>10, <1>11, <2>2, <3>1
  <2>3. QED
    BY <2>1, <2>2
<1>12. /\ \A k \in DOMAIN chains : chains[k].first_secret <= n
       /\ \A i \in 1..n :
            past[i].key \in DOMAIN chains /\ i >= chains[past[i].key].first_ts =>
              /\ past[i].action = "Write" /\ past[i].path # None
                   => past[i].path \in chains[past[i].key].written
              /\ past[i].secret => chains[past[i].key].first_secret # Never
  BY <1>1, <1>5 DEF Recalled, Evidence
<1>13. \A k \in DOMAIN chains : chains[k].first_secret \in Nat \cup {Never}
  BY DEF Watched, Shaped
<1>14. Evidence'
  <2>1. ASSUME NEW k \in DOMAIN chains'  PROVE chains'[k].first_secret <= ts
    <3>1. CASE k # e.key
      <4>1. k \in DOMAIN chains /\ chains'[k] = chains[k]
        BY <1>8, <3>1
      <4>2. chains[k].first_secret <= n /\ chains[k].first_secret \in Nat \cup {Never}
        BY <1>12, <1>13, <4>1
      <4>3. QED
        BY <1>2, <4>1, <4>2 DEF Never
    <3>2. CASE k = e.key
      <4>1. c.first_secret <= ts
        <5>1. CASE e.key \in DOMAIN chains \ Idle(ts)
          <6>1. c.first_secret <= n
            BY <1>8, <1>12, <5>1
          <6>2. QED
            BY <1>2, <1>10, <6>1 DEF Never
        <5>2. CASE e.key \notin DOMAIN chains \ Idle(ts)
          <6>1. c.first_secret = Never
            BY <1>8, <5>2
          <6>2. QED
            BY <1>2, <6>1 DEF Never
        <5>3. QED
          BY <5>1, <5>2
      <4>2. QED
        BY <1>9, <1>10, <3>2, <4>1
    <3>3. QED
      BY <3>1, <3>2
  <2>2. ASSUME NEW i \in 1..ts, past'[i].key \in DOMAIN chains', i >= chains'[past'[i].key].first_ts
        PROVE  /\ past'[i].action = "Write" /\ past'[i].path # None
                    => past'[i].path \in chains'[past'[i].key].written
               /\ past'[i].secret => chains'[past'[i].key].first_secret # Never
    <3>1. CASE i = ts
      BY <1>4, <1>9, <1>10, <3>1
    <3>2. CASE i # ts
      <4>1. i \in 1..n /\ past'[i] = past[i]
        BY <1>4, <3>2
      <4>2. PICK k \in DOMAIN chains' : k = past[i].key
        BY <2>2, <4>1
      <4>3. i >= chains'[k].first_ts
        BY <2>2, <4>1, <4>2
      <4>4. /\ k \in DOMAIN chains /\ i >= chains[k].first_ts
            /\ k # e.key => chains'[k] = chains[k]
            /\ k = e.key => c = chains[k] /\ chains'[k] = a
        BY <1>11, <4>1, <4>3
      <4>5. /\ past[i].action = "Write" /\ past[i].path # None => past[i].path \in chains[k].written
            /\ past[i].secret => chains[k].first_secret # Never
        BY <1>12, <4>1, <4>2, <4>4
      <4>6. chains[k].written \subseteq chains'[k].written
        BY <1>10, <4>4
      <4>7. chains[k].first_secret # Never => chains'[k].first_secret # Never
        BY <1>10, <4>4
      <4>8. QED
        BY <4>1, <4>2, <4>5, <4>6, <4>7
    <3>3. QED
      BY <3>1, <3>2
  <2>3. QED
    BY <1>3, <1>4, <2>1, <2>2 DEF Evidence
<1>15. Joined'
  <2> SUFFICES ASSUME NEW j \in 1..ts, NEW i \in 1..(j - 1), NEW k \in DOMAIN chains',
                      past'[i].key = k, past'[j].key = k, i >= chains'[k].first_ts
               PROVE  Telltale(past'[i], past'[j]) \subseteq DOMAIN chains'[k].hits
    BY <1>4 DEF Joined
  <2>1. i \in 1..n /\ past'[i] = past[i] /\ past[i].key = k
    <3>1. i \in 1..n
      BY <1>2
    <3>2. QED
      BY <1>4, <3>1
  <2>2. /\ k \in DOMAIN chains /\ i >= chains[k].first_ts
        /\ k # e.key => chains'[k] = chains[k]
        /\ k = e.key => c = chains[k] /\ chains'[k] = a
    BY <1>11, <2>1
  <2>3. CASE j # ts
    <3>1. j \in 1..n /\ past'[j] = past[j] /\ past[j].key = k
      BY <1>4, <2>3
    <3>2. Telltale(past[i], past[j]) \subseteq DOMAIN chains[k].hits
      BY <1>5, <2>1, <2>2, <3>1 DEF Recalled, Joined
    <3>3. DOMAIN chains[k].hits \subseteq DOMAIN chains'[k].hits
      BY <1>10, <2>2
    <3>4. QED
      BY <2>1, <3>1, <3>2, <3>3
  <2>4. CASE j = ts
    <3>1. past'[j] = e /\ k = e.key /\ c = chains[k] /\ chains'[k] = a
      BY <1>4, <2>2, <2>4
    <3>2. /\ past[i].action = "Write" /\ past[i].path # None => past[i].path \in c.written
          /\ past[i].secret => c.first_secret # Never
      BY <1>12, <2>1, <2>2, <3>1
    <3>3. c.first_secret <= ts
      <4>1. c.first_secret <= n
        BY <1>12, <2>2, <3>1
      <4>2. QED
        BY <1>2, <1>10, <4>1 DEF Never
    <3>4. past[i].action = "Write" /\ e.action = "Exec" /\ past[i].path = e.path
            => "L1" \in DOMAIN a.hits
      BY <1>10, <3>2
    <3>5. past[i].secret /\ e.action = "Connect" /\ ~e.loopback => "N2" \in DOMAIN a.hits
      BY <1>10, <3>2, <3>3
    <3>6. Telltale(past[i], e) \subseteq DOMAIN a.hits
      BY <3>4, <3>5 DEF Telltale
    <3>7. QED
      BY <2>1, <3>1, <3>6
  <2>5. QED
    BY <2>3, <2>4
<1>16. QED
  BY <1>3, <1>6, <1>14, <1>15 DEF Recalled

-----------------------------------------------------------------------------
(* The steps.                                                              *)

\* Initially nothing is known and nothing has happened.
LEMMA StartWatched == SystemInit => Watched /\ AnchorsKeepKeys /\ Recalled
<1> SUFFICES ASSUME SystemInit  PROVE Watched /\ AnchorsKeepKeys /\ Recalled
  OBVIOUS
<1>1. HostInv /\ Copies(host)
  BY HostStart DEF SystemInit
<1>2. map = <<>> /\ order = <<>> /\ chains = <<>> /\ fed = 0 /\ past = <<>>
  BY DEF SystemInit, EngineInit, Init, TableInit
<1>3. DOMAIN map = {} /\ order \in Seq(Pid) /\ Len(order) = 0 /\ map \in [DOMAIN map -> Proc]
  BY <1>2
<1>4. Known \in Sound
  <2>1. Agrees(Known) /\ Current(Known)
    BY <1>3, ProcTableAssumption DEF Agrees, Current, Known
  <2>2. QED
    BY <1>3, <2>1, TableIs DEF Known
<1>5. TellsOf(host, Known, 0)
  BY <1>3 DEF TellsOf, Known
<1>6. DOMAIN chains = {}
  BY <1>2
<1>7. past \in Seq(Observation) /\ Len(past) = 0 /\ DOMAIN past = {}
  BY <1>2
<1>8. Shaped(chains) /\ Accused /\ Recent /\ Reopened
  BY <1>6, <1>7 DEF Shaped, Accused, Recent, Reopened
<1>9. Watched
  BY <1>1, <1>2, <1>4, <1>5, <1>7, <1>8 DEF Watched
<1>10. Whole(host, Known, 0)
  <2>1. DOMAIN host = {1}
    BY DEF SystemInit, HostInit
  <2>2. QED
    BY <2>1 DEF Whole
<1>101. Linked(host, Known, 0)
  <2> SUFFICES ASSUME NEW u \in Lines(host)  PROVE u[1] = 1
    BY DEF Linked
  <2>1. DOMAIN host = {1}
    BY DEF SystemInit, HostInit
  <2>2. u \in Seq(DOMAIN host) /\ Len(u) >= 1
    BY DEF Lines
  <2>3. QED
    BY <2>1, <2>2
<1>11. FiledUnderTool /\ AnchorsKeepKeys /\ Joined
  BY <1>7 DEF FiledUnderTool, AnchorsKeepKeys, Joined
<1>12. Evidence
  BY <1>6, <1>7 DEF Evidence
<1>13. QED
  BY <1>1, <1>9, <1>10, <1>101, <1>11, <1>12 DEF Recalled

\* A fork: no event tells of it, and the copy's pid is new.
LEMMA WatchedFork ==
  ASSUME PidsFresh, Watched, NEW p \in DOMAIN host, Forks(p)
  PROVE  Watched' /\ (AnchorsKeepKeys => AnchorsKeepKeys') /\ (Recalled => Recalled')
<1>1. Fork(p) /\ UNCHANGED <<chains, fed, phase, map, order, past>>
  BY DEF Forks, engineVars, vars, tableVars
<1>2. HostInv
  BY DEF Watched
<1>3. HostInv' /\ (Copies(host) => Copies(host'))
  BY <1>1, <1>2, ForkHost
<1>4. PICK q \in Pid \ DOMAIN host :
        /\ DOMAIN host' = DOMAIN host \cup {q}
        /\ host'[q] = [parent |-> p, runs |-> host[p].runs, execed |-> FALSE, born |-> 1]
        /\ \A r \in DOMAIN host : host'[r] = host[r]
  BY <1>1, <1>2, ForkFacts
<1>5. Known' = Known
  BY <1>1 DEF Known
<1>6. TellsOf(host', Known', 0)
  <2>1. TellsOf(host, Known, 0)
    BY DEF Watched
  <2>2. \A r \in DOMAIN Known.map : /\ r \in DOMAIN host' /\ Known.map[r].ppid \in {0, host'[r].parent}
                                    /\ r # 0 => TrueImage(host', r, Known.map[r])
    BY <1>4, <2>1 DEF TellsOf, TrueImage
  <2>3. QED
    BY <1>5, <2>2 DEF TellsOf
<1>7. Watched'
  BY <1>1, <1>3, <1>5, <1>6 DEF Watched, Accused, Recent, Reopened
<1>8. ASSUME Recalled  PROVE Recalled'
  <2>1. Whole(host, Known, 0)
    BY <1>8 DEF Recalled
  <2>2. host'[q].execed = FALSE
    BY <1>4
  <2>3. ASSUME NEW r \in DOMAIN host' \ {1, 0}, host'[r].execed
        PROVE  r \in DOMAIN Known.map /\ FullImage(host', r, Known.map[r])
    <3>1. r # q /\ r \in DOMAIN host /\ host'[r] = host[r]
      BY <1>4, <2>2, <2>3
    <3>2. r \in DOMAIN Known.map /\ FullImage(host, r, Known.map[r])
      BY <2>1, <2>3, <3>1 DEF Whole
    <3>3. QED
      BY <3>1, <3>2 DEF FullImage
  <2>4. Whole(host', Known', 0)
    BY <1>5, <2>3 DEF Whole
  <2>5. FiledUnderTool' /\ Evidence' /\ Joined'
    BY <1>1, <1>8 DEF Recalled, FiledUnderTool, Evidence, Joined
  <2>6. Linked(host', Known', 0)
    <3> SUFFICES ASSUME NEW u \in Lines(host'), u[1] \notin {1, 0}, host'[u[1]].execed,
                        NEW i \in 1..Len(u), i <= ANCESTRY_MAX
                 PROVE  Link(host', Known, u[i])
      BY <1>5 DEF Linked
    <3>1. u[1] # q
      BY <2>2
    <3>2. host'[q].parent = p
      BY <1>4
    <3>3. u \in Lines(host)
      BY <1>2, <1>4, <3>1, <3>2, ForkLines
    <3>4. 1 \in 1..Len(u) /\ u[1] \in DOMAIN host /\ u[i] \in DOMAIN host
      BY <1>2, <3>3, LineFalls DEF HostInv
    <3>5. host'[u[1]] = host[u[1]] /\ host'[u[i]] = host[u[i]]
      BY <1>4, <3>4
    <3>6. Link(host, Known, u[i])
      BY <1>8, <3>3, <3>5 DEF Recalled, Linked
    <3>7. QED
      BY <3>5, <3>6 DEF Link
  <2>7. QED
    BY <1>3, <1>8, <2>4, <2>5, <2>6 DEF Recalled
<1>9. AnchorsKeepKeys => AnchorsKeepKeys'
  BY <1>1 DEF AnchorsKeepKeys
<1>10. QED
  BY <1>7, <1>8, <1>9

\* What an event of h leaves behind, told by what h is like.
LEMMA WatchedObserve ==
  ASSUME Watched, HostInv', NEW h, host' = h, ViewOf(h), NEW p \in Started, NEW act \in Deed,
         act.action = "Exec" => act.path # None,
         TellsOf(h, Known, Renewed(p, act)), Observes(h, p, act)
  PROVE  /\ Watched'
         /\ AnchorsKeepKeys /\ Roomy(h) => AnchorsKeepKeys'
         /\ Recalled /\ Ready(h, Renewed(p, act)) => Recalled'
<1>1. HostInv /\ Known \in Sound /\ Shaped(chains) /\ fed \in Nat
  BY DEF Watched
<1>2. PICK e : /\ e.action = act.action /\ e.path = act.path
               /\ Told(h, p, act, e) /\ \E c : Advanced(e, c, fed + 1)
  BY <1>1, Observing
<1>3. PICK c : Advanced(e, c, fed + 1)
  BY <1>2
<1>4. Watched'
  BY <1>2, <1>3, WatchedEvent
<1>5. Recalled /\ Ready(h, Renewed(p, act)) => Recalled'
  BY <1>2, <1>3, RecalledEvent
<1>6. AnchorsKeepKeys /\ Roomy(h) => AnchorsKeepKeys'
  BY <1>2, KeysKept
<1>7. QED
  BY <1>4, <1>5, <1>6

\* A host that stays as it is.
LEMMA SameHost ==
  ASSUME host' = host
  PROVE  HostInv' <=> HostInv
BY DEF HostInv, HostTyped, Started, Lines

\* The lines of a host are what is above its processes.
LEMMA TracedMarks ==
  ASSUME HostTyped, Traced
  PROVE  Marked(host)
<1> SUFFICES ASSUME NEW u \in Lines(host), NEW i \in 1..Len(u), i > ANCESTRY_MAX
             PROVE  \E j \in (i - ANCESTRY_MAX + 1)..i : host[u[j]].execed
  BY DEF Marked
<1>1. Above(u[1]) = u /\ u[1] \in DOMAIN host /\ DOMAIN u = 1..Len(u)
  <2>1. Len(u) \in Nat \ {0} /\ u \in Seq(DOMAIN host)
    BY LineFalls
  <2>2. QED
    BY <2>1, AboveIs, LineFalls
<1>2. QED
  BY <1>1 DEF Traced

\* An act of a process leaves the host as it was.
LEMMA WatchedAct ==
  ASSUME Watched, NEW p \in Started, NEW act \in Act, Acts(p, act)
  PROVE  /\ Watched' /\ (AllRemembered /\ AnchorsKeepKeys => AnchorsKeepKeys')
         /\ ToolsStay /\ AllRemembered /\ Shallow /\ Traced /\ Recalled => Recalled'
<1>1. Observes(host, p, act) /\ host' = host
  BY DEF Acts
<1>2. /\ act \in [action : Action \ {"Exec"}, path : Path \cup {None},
                  loopback : BOOLEAN, odd_port : BOOLEAN]
  BY HostAssumption
<1>3. act \in Deed /\ act.action # "Exec"
  BY <1>2 DEF Deed
<1>4. HostInv /\ HostTyped /\ TellsOf(host, Known, 0)
  BY DEF Watched, HostInv
<1>5. HostInv'
  BY <1>1, <1>4, SameHost
<1>6. ViewOf(host) /\ Renewed(p, act) = 0
  BY <1>3, <1>4 DEF ViewOf, HostTyped, Renewed
<1>7. /\ Watched'
      /\ AnchorsKeepKeys /\ Roomy(host) => AnchorsKeepKeys'
      /\ Recalled /\ Ready(host, Renewed(p, act)) => Recalled'
  BY <1>1, <1>3, <1>4, <1>5, <1>6, WatchedObserve
<1>8. ToolsStay => ~Installs(host[1].runs)
  BY <1>4 DEF HostTyped, ToolsStay
<1>9. Recalled => /\ Copies(host) /\ Whole(host, Known, Renewed(p, act))
                  /\ Linked(host, Known, Renewed(p, act))
  BY <1>6 DEF Recalled
<1>10. AllRemembered => Roomy(host)
  BY <1>4 DEF HostTyped, AllRemembered, Roomy
<1>11. Traced => Marked(host)
  BY <1>4, TracedMarks
<1>12. ToolsStay /\ AllRemembered /\ Shallow /\ Traced /\ Recalled => Ready(host, Renewed(p, act))
  BY <1>8, <1>9, <1>10, <1>11 DEF Ready
<1>13. QED
  BY <1>7, <1>10, <1>12

\* An exec: until the event is handled, the table's word on that one program is old.
LEMMA WatchedExec ==
  ASSUME Watched, NEW p \in Started, NEW img \in Image, Execs(p, img)
  PROVE  /\ Watched' /\ (AllRemembered /\ AnchorsKeepKeys => AnchorsKeepKeys')
         /\ ToolsStay /\ AllRemembered /\ Shallow /\ Traced /\ Recalled => Recalled'
<1>1. Load(p, img) /\ Observes(host', p, ExecOf(img))
  BY DEF Execs
<1>2. PICK h : h = host'
  OBVIOUS
<1>3. PICK act : act = ExecOf(img)
  OBVIOUS
<1>4. act \in Deed /\ act.action = "Exec" /\ act.path # None
  <2>1. image[img].exe \in Path
    BY HostAssumption
  <2>2. QED
    BY <1>3, <2>1, EventsAssumption DEF ExecOf, Deed, Action
<1>5. HostInv /\ HostTyped /\ TellsOf(host, Known, 0)
  BY DEF Watched, HostInv
<1>6. /\ HostInv' /\ (ToolsStay /\ Copies(host) => Copies(h))
  BY <1>1, <1>2, <1>5, LoadHost
<1>7. /\ DOMAIN h = DOMAIN host
      /\ p \in DOMAIN host /\ p # 1
      /\ h[p].execed /\ h[p].parent = host[p].parent /\ h[p] \in HostRecord
      /\ \A r \in DOMAIN host : r # p => h[r] = host[r]
  BY <1>1, <1>2, <1>5, LoadFacts
<1>8. ViewOf(h)
  BY <1>5, <1>7 DEF ViewOf, HostTyped
<1>9. Renewed(p, act) = p
  BY <1>4 DEF Renewed
<1>10. TellsOf(h, Known, p)
  <2>1. ASSUME NEW q \in DOMAIN Known.map
        PROVE  /\ q \in DOMAIN h /\ Known.map[q].ppid \in {0, h[q].parent}
               /\ q # p => TrueImage(h, q, Known.map[q])
    <3>1. /\ q \in DOMAIN host /\ Known.map[q].ppid \in {0, host[q].parent}
          /\ q # 0 => TrueImage(host, q, Known.map[q])
      BY <1>5 DEF TellsOf
    <3>2. q # 0
      BY <1>5, <3>1, EventsAssumption DEF HostTyped
    <3>3. QED
      BY <1>7, <3>1, <3>2 DEF TrueImage
  <2>2. QED
    BY <2>1 DEF TellsOf
<1>11. /\ Watched'
       /\ AnchorsKeepKeys /\ Roomy(h) => AnchorsKeepKeys'
       /\ Recalled /\ Ready(h, Renewed(p, act)) => Recalled'
  BY <1>1, <1>2, <1>3, <1>4, <1>6, <1>8, <1>9, <1>10, WatchedObserve
<1>12. ToolsStay => ~Installs(h[1].runs)
  BY <1>2, <1>6 DEF HostInv, HostTyped, ToolsStay
<1>13. Recalled => Copies(host) /\ Whole(h, Known, Renewed(p, act))
  <2> SUFFICES ASSUME Recalled  PROVE Whole(h, Known, p)
    BY <1>9 DEF Recalled
  <2>1. Whole(host, Known, 0)
    BY DEF Recalled
  <2>2. ASSUME NEW q \in DOMAIN h \ {1, p}, h[q].execed
        PROVE  q \in DOMAIN Known.map /\ FullImage(h, q, Known.map[q])
    <3>1. q \in DOMAIN host /\ h[q] = host[q] /\ q # 0
      BY <1>5, <1>7, <2>2, EventsAssumption DEF HostTyped
    <3>2. QED
      BY <2>1, <2>2, <3>1 DEF Whole, FullImage
  <2>3. QED
    BY <2>2 DEF Whole
<1>14. AllRemembered => Roomy(h)
  BY <1>5, <1>7 DEF HostTyped, AllRemembered, Roomy
<1>15. Recalled => Linked(h, Known, Renewed(p, act))
  <2> SUFFICES ASSUME Recalled, NEW u \in Lines(h), u[1] \notin {1, p}, h[u[1]].execed,
                      NEW i \in 1..Len(u), i <= ANCESTRY_MAX
               PROVE  Link(h, Known, u[i])
    BY <1>9 DEF Linked
  <2>1. u \in Lines(host)
    BY <1>8, ViewLines
  <2>2. u[1] \in DOMAIN host /\ u[i] \in DOMAIN host
    BY <1>5, <2>1, LineFalls
  <2>3. u[1] # 0 /\ host[u[1]].execed
    BY <1>5, <1>7, <2>2, EventsAssumption DEF HostTyped
  <2>4. Link(host, Known, u[i])
    BY <2>1, <2>3 DEF Recalled, Linked
  <2>5. h[u[i]].parent = host[u[i]].parent
    BY <1>8, <2>2 DEF ViewOf
  <2>6. QED
    BY <2>4, <2>5 DEF Link
<1>16. Traced => Marked(h)
  <2>1. Traced => Marked(host)
    BY <1>5, TracedMarks
  <2>2. ASSUME Marked(host), NEW u \in Lines(host), NEW i \in 1..Len(u), i > ANCESTRY_MAX
        PROVE  \E j \in (i - ANCESTRY_MAX + 1)..i : h[u[j]].execed
    <3>1. PICK j \in (i - ANCESTRY_MAX + 1)..i : host[u[j]].execed
      BY <2>2 DEF Marked
    <3>2. j \in 1..Len(u)
      BY <1>5, <2>2, HostAssumption, LineFalls
    <3>3. u[j] \in DOMAIN host
      BY <1>5, <3>2, LineFalls
    <3>4. QED
      BY <1>7, <3>1, <3>3
  <2>3. QED
    BY <2>1, <2>2 DEF Marked
<1>17. ToolsStay /\ AllRemembered /\ Shallow /\ Traced /\ Recalled => Ready(h, Renewed(p, act))
  BY <1>6, <1>12, <1>13, <1>14, <1>15, <1>16 DEF Ready
<1>18. QED
  BY <1>11, <1>14, <1>17

\* The end of the input, a failure, and steps that change nothing.
LEMMA WatchedEnd ==
  ASSUME Watched, Ends \/ UNCHANGED systemVars
  PROVE  Watched' /\ (AnchorsKeepKeys => AnchorsKeepKeys') /\ (Recalled => Recalled')
<1>1. /\ UNCHANGED <<host, map, order, past, fed>>
      /\ (DOMAIN chains' = {} /\ phase' # "running") \/ UNCHANGED <<chains, phase>>
  <2>1. CASE Ends
    <3>1. UNCHANGED <<host, map, order, past, fed>> /\ chains' = <<>> /\ phase' # "running"
      BY <2>1 DEF Ends, Finish, Fail, tableVars
    <3>2. QED
      BY <3>1
  <2>2. CASE UNCHANGED systemVars
    BY <2>2 DEF systemVars, engineVars, vars, tableVars
  <2>3. QED
    BY <2>1, <2>2
<1>2. HostInv' <=> HostInv
  BY <1>1, SameHost
<1>3. Known' = Known
  BY <1>1 DEF Known
<1>4. Watched'
  <2>1. Shaped(chains') /\ Accused' /\ Recent' /\ Reopened'
    BY <1>1 DEF Watched, Shaped, Accused, Recent, Reopened
  <2>2. QED
    BY <1>1, <1>2, <1>3, <2>1 DEF Watched
<1>5. ASSUME Recalled  PROVE Recalled'
  <2>1. Copies(host') /\ Whole(host', Known', 0)
    BY <1>1, <1>3, <1>5 DEF Recalled
  <2>2. FiledUnderTool'
    BY <1>1, <1>5 DEF Recalled, FiledUnderTool
  <2>3. Evidence' /\ Joined'
    BY <1>1, <1>5 DEF Recalled, Evidence, Joined
  <2>4. Linked(host', Known', 0)
    <3>1. Linked(host, Known, 0)
      BY <1>5 DEF Recalled
    <3>2. QED
      BY <1>1, <1>3, <3>1 DEF Linked, Lines, Link
  <2>5. QED
    BY <2>1, <2>2, <2>3, <2>4 DEF Recalled
<1>6. AnchorsKeepKeys => AnchorsKeepKeys'
  BY <1>1 DEF AnchorsKeepKeys
<1>7. QED
  BY <1>4, <1>5, <1>6

\* Every step.
LEMMA WatchedStep ==
  ASSUME PidsFresh, Watched, [SystemNext]_systemVars
  PROVE  /\ Watched' /\ (AllRemembered /\ AnchorsKeepKeys => AnchorsKeepKeys')
         /\ ToolsStay /\ AllRemembered /\ Shallow /\ Traced /\ Recalled => Recalled'
<1>1. CASE Ends \/ UNCHANGED systemVars
  BY <1>1, WatchedEnd
<1>2. ASSUME NEW p \in DOMAIN host, Forks(p)
      PROVE  /\ Watched' /\ (AllRemembered /\ AnchorsKeepKeys => AnchorsKeepKeys')
             /\ ToolsStay /\ AllRemembered /\ Shallow /\ Traced /\ Recalled => Recalled'
  BY <1>2, WatchedFork
<1>3. ASSUME NEW p \in Started, NEW img \in Image, Execs(p, img)
      PROVE  /\ Watched' /\ (AllRemembered /\ AnchorsKeepKeys => AnchorsKeepKeys')
             /\ ToolsStay /\ AllRemembered /\ Shallow /\ Traced /\ Recalled => Recalled'
  BY <1>3, WatchedExec
<1>4. ASSUME NEW p \in Started, NEW act \in Act, Acts(p, act)
      PROVE  /\ Watched' /\ (AllRemembered /\ AnchorsKeepKeys => AnchorsKeepKeys')
             /\ ToolsStay /\ AllRemembered /\ Shallow /\ Traced /\ Recalled => Recalled'
  BY <1>4, WatchedAct
<1>5. QED
  BY <1>1, <1>2, <1>3, <1>4 DEF SystemNext

-----------------------------------------------------------------------------
(* The theorems of the whole.                                              *)

\* Watched is inductive as soon as no pid comes back: the table then knows no
\* parent or program but the true one, if it knows one at all, and every chain
\* was opened on what it knew (lib.rs:58-117).  An event's list of ancestors is
\* cut (normalize.rs:359-376), so the parent of the last in it stays unknown.
THEOREM SystemWatched == PidsFresh => (SystemSpec => []Watched)
<1> SUFFICES ASSUME PidsFresh  PROVE SystemSpec => []Watched
  OBVIOUS
<1>1. SystemInit => Watched
  BY StartWatched
<1>2. Watched /\ [SystemNext]_systemVars => Watched'
  BY WatchedStep
<1>3. QED
  BY <1>1, <1>2, PTL DEF SystemSpec

\* All the table says is so, whatever it has forgotten, however soon events stop
\* listing ancestors and in whatever order it learnt (proctable.rs:88-168), as
\* long as no pid is handed out twice.
THEOREM TableTells == PidsFresh => (SystemSpec => []TableTrue)
<1> SUFFICES ASSUME PidsFresh  PROVE SystemSpec => []TableTrue
  OBVIOUS
<1>1. Watched => TableTrue
  <2> SUFFICES ASSUME Watched, NEW q \in DOMAIN map
               PROVE  /\ q \in DOMAIN host /\ map[q].ppid \in {0, host[q].parent}
                      /\ map[q].names \subseteq TrueNames(host[q].runs)
    BY DEF TableTrue
  <2>1. HostTyped /\ Known \in Sound /\ TellsOf(host, Known, 0)
    BY DEF Watched, HostInv
  <2>2. /\ Known.map = map /\ q \in DOMAIN host /\ map[q].ppid \in {0, host[q].parent}
        /\ q # 0 => TrueImage(host, q, map[q])
    BY <2>1 DEF TellsOf, Known
  <2>3. q # 0 /\ host[q].runs \in Image
    BY <2>1, <2>2, EventsAssumption DEF HostTyped, HostRecord
  <2>4. map[q] \in Proc /\ map[q].names = NamesOf(map[q].comm, map[q].exe, map[q].cmdline)
    BY <2>1, <2>2, SoundTable DEF Current
  <2>5. image[host[q].runs].exe # None /\ image[host[q].runs].cmdline # None
    BY <2>3, HostAssumption, EventsAssumption
  <2>6. QED
    BY <2>2, <2>3, <2>4, <2>5, KnownInstalls
<1>2. QED
  BY <1>1, SystemWatched, PTL

\* An anchor keeps its key for as long as the table has room for every process,
\* whatever it execs (proctable.rs:119-124, 187-198).
THEOREM KeysStay == PidsFresh => (SystemSpec /\ []AllRemembered => []AnchorsKeepKeys)
<1> SUFFICES ASSUME PidsFresh  PROVE SystemSpec /\ []AllRemembered => []AnchorsKeepKeys
  OBVIOUS
<1>1. SystemInit => AnchorsKeepKeys
  BY StartWatched
<1>2. Watched /\ AllRemembered /\ AnchorsKeepKeys /\ [SystemNext]_systemVars => AnchorsKeepKeys'
  BY WatchedStep
<1>3. SystemSpec => []Watched
  BY SystemWatched
<1>4. QED
  BY <1>1, <1>2, <1>3, PTL DEF SystemSpec

\* Recalled is inductive with it when the table has room for every process and
\* walks up to the top, no ANCESTRY_MAX processes on a line are all copies that
\* never exec, and a tool only makes way for a tool.
THEOREM SystemRecalls ==
  PidsFresh /\ ToolsStay => (SystemSpec /\ []AllRemembered /\ []Shallow /\ []Traced => [](Watched /\ Recalled))
<1> SUFFICES ASSUME PidsFresh, ToolsStay
             PROVE  SystemSpec /\ []AllRemembered /\ []Shallow /\ []Traced => [](Watched /\ Recalled)
  OBVIOUS
<1>1. SystemInit => Watched /\ Recalled
  BY StartWatched
<1>2. Watched /\ AllRemembered /\ Shallow /\ Traced /\ Recalled /\ [SystemNext]_systemVars => (Watched /\ Recalled)'
  BY WatchedStep
<1>3. QED
  BY <1>1, <1>2, PTL DEF SystemSpec

\* As long as no pid is handed out twice, no chain is held to the rules for
\* installs unless its anchor really ran one when it was filed (lib.rs:84-113,
\* chain.rs:36-56).
THEOREM UsersNotAccused == PidsFresh => (SystemSpec => []OnlyInstallsAccused)
<1> SUFFICES ASSUME PidsFresh  PROVE SystemSpec => []OnlyInstallsAccused
  OBVIOUS
<1>1. Watched => OnlyInstallsAccused
  <2> SUFFICES ASSUME Watched, NEW k \in DOMAIN chains,
                      DOMAIN chains[k].hits \cap {"C1", "P1", "P2", "L3", "L10"} # {}
               PROVE  \E i \in DOMAIN past : past[i].key = k /\ past[i].manager
    BY DEF OnlyInstallsAccused
  <2>1. PICK i \in 1..Len(past) : past[i].key = k /\ past[i].manager
    BY DEF Watched, Accused, Accusing
  <2>2. i \in DOMAIN past
    BY DEF Watched
  <2>3. QED
    BY <2>1, <2>2
<1>2. QED
  BY <1>1, SystemWatched, PTL

\* One install is one chain, whatever runs in between and whoever has exited
\* (chain.rs:28-34), however many levels deep within MAX_DEPTH, when no pid is
\* handed out twice, a tool only makes way for a tool, the table has room for
\* every process and walks up to the top, and no ANCESTRY_MAX processes on a
\* line are all copies that never exec.
THEOREM InstallIsOneChain ==
  PidsFresh /\ ToolsStay => (SystemSpec /\ []AllRemembered /\ []Shallow /\ []Traced => []FiledUnderTool)
<1> SUFFICES ASSUME PidsFresh, ToolsStay
             PROVE  SystemSpec /\ []AllRemembered /\ []Shallow /\ []Traced => []FiledUnderTool
  OBVIOUS
<1>1. Watched /\ Recalled => FiledUnderTool
  BY DEF Recalled
<1>2. QED
  BY <1>1, SystemRecalls, PTL

\* A file dropped and then run, and a secret read before a connection off the
\* host, are told of whichever processes of the install did them (lib.rs:94-113),
\* under the same premises.
THEOREM EvidenceJoins ==
  PidsFresh /\ ToolsStay => (SystemSpec /\ []AllRemembered /\ []Shallow /\ []Traced => []InstallEvidenceJoins)
<1> SUFFICES ASSUME PidsFresh, ToolsStay
             PROVE  SystemSpec /\ []AllRemembered /\ []Shallow /\ []Traced => []InstallEvidenceJoins
  OBVIOUS
<1>1. Watched /\ AnchorsKeepKeys /\ Recalled => InstallEvidenceJoins
  <2> SUFFICES ASSUME Watched, AnchorsKeepKeys, Recalled,
                      NEW j \in 1..Len(past), NEW i \in 1..(j - 1),
                      past[j].tool # 0, past[i].tool = past[j].tool, KeptBusy(i, j),
                      past[j].key \in DOMAIN chains, j >= chains[past[j].key].first_ts
               PROVE  Telltale(past[i], past[j]) \subseteq DOMAIN chains[past[j].key].hits
    <3>1. DOMAIN past = 1..Len(past)
      BY DEF Watched
    <3>2. QED
      BY <3>1 DEF InstallEvidenceJoins
  <2>1. PICK n \in Nat : /\ n = Len(past) /\ past \in Seq(Observation) /\ DOMAIN past = 1..n
                         /\ j \in 1..n
    BY DEF Watched
  <2>2. \A m \in 1..n : past[m] \in Observation
    BY <2>1
  \* What an install does has one key.
  <2>3. ASSUME NEW m \in 1..n, past[m].tool = past[j].tool  PROVE past[m].key = past[j].key
    <3>1. past[m].key[1] = past[j].key[1]
      BY <2>1, <2>3 DEF Recalled, FiledUnderTool
    <3>2. past[m].key[2] = past[j].key[2]
      BY <2>1, <3>1 DEF AnchorsKeepKeys
    <3>3. past[m].key \in Pid \X Nat /\ past[j].key \in Pid \X Nat
      BY <2>1, <2>2 DEF Observation
    <3>4. QED
      BY <3>1, <3>2, <3>3
  <2>4. PICK f \in Nat : f = chains[past[j].key].first_ts
    BY DEF Watched, Shaped
  \* Had its chain been opened in between, the install had been silent before.
  <2>5. i >= f
    <3> SUFFICES ASSUME i < f  PROVE FALSE
      BY <2>1, <2>4
    <3>1. f \in (i + 1)..j
      BY <2>1, <2>4
    <3>2. PICK m \in i..(f - 1) : past[m].tool = past[j].tool /\ m + IDLE_NS >= f
      BY <3>1 DEF KeptBusy
    <3>3. m \in 1..n /\ m < f
      BY <2>1, <3>1
    <3>4. m + IDLE_NS < f
      BY <2>1, <2>3, <2>4, <3>2, <3>3 DEF Watched, Reopened
    <3>5. QED
      BY <3>2, <3>3, <3>4, ChainsAssumption
  <2>6. i \in 1..n
    BY <2>1
  <2>7. past[i].key = past[j].key
    BY <2>3, <2>6
  <2>8. QED
    BY <2>1, <2>4, <2>5, <2>7 DEF Recalled, Joined
<1>2. SystemSpec /\ []AllRemembered /\ []Shallow /\ []Traced => [](Watched /\ Recalled)
  BY SystemRecalls
<1>3. SystemSpec /\ []AllRemembered => []AnchorsKeepKeys
  BY KeysStay
<1>4. QED
  BY <1>1, <1>2, <1>3, PTL
=============================================================================
