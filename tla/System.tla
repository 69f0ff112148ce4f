------------------------------- MODULE System -------------------------------
(***************************************************************************)
(* The engine watching a host: every exec and every act of a process is an *)
(* event the engine handles.  What the engine concludes is compared here   *)
(* with what really happened, which only the host knows.                   *)
(*                                                                         *)
(* History variable: `past', the events so far, each with the chain key it *)
(* was filed under, which incarnation of that pid this was, whether it was *)
(* a package manager, and the outermost package manager running above the  *)
(* process.                                                                *)
(***************************************************************************)
EXTENDS Engine, Host

VARIABLE past

systemVars == <<engineVars, host, past>>

\* The names a program answers to, all of it known.
TrueNames(img) ==
  LET i == image[img] IN NamesOf(i.comm, i.exe, i.cmdline)

\* What an install is run by: a package manager or build tool, by one of its
\* names, or an interpreter running a script of an installed dependency.
Installs(img) == \/ TrueNames(img) \cap DEPENDENCY_TOOLS # {}
                 \/ CmdIs(image[img].cmdline, "in_dependency")

\* The outermost process from p up that was started as one, 0 if there is none.
\* A copy one of them has forked is part of it until it execs.
OutermostAbove(h, p) ==
  LET up    == Above(p)
      tools == {i \in DOMAIN up : h[up[i]].execed /\ Installs(h[up[i]].runs)}
  IN  IF tools = {} THEN 0 ELSE up[Max(tools)]

\* Whether it is a secret that p reads there, in an install or not.
Secret(h, p, path) ==
  \/ path \in DOMAIN environ_of /\ environ_of[path] # p
  \/ /\ path \in DOMAIN secrets \ DOMAIN environ_of
     /\ ~PathIs(path, "public_cert") /\ ~secrets[path].dependency_only
     /\ TrueNames(h[p].runs) \cap secrets[path].readers = {}

\* The engine handles what p did; the host is then h.
Observes(h, p, act) ==
  LET ev  == EventOf(h, p, act, fed + 1)
      key == Resolution(ev, LineageAfter(ev)).key
  IN  /\ ProcessEvent(ev)
      /\ past' = Append(past,
                   [action |-> act.action, path |-> act.path, loopback |-> act.loopback,
                    secret |-> act.action = "SecretRead" /\ Secret(h, p, act.path),
                    key |-> key, born |-> h[key[1]].born,
                    manager |-> Installs(h[key[1]].runs),
                    tool |-> OutermostAbove(h, p)])

SystemInit == EngineInit /\ HostInit /\ past = <<>>

Forks(p)      == Fork(p) /\ UNCHANGED <<engineVars, past>>
Execs(p, img) == Load(p, img) /\ Observes(host', p, ExecOf(img))
Acts(p, act)  == Observes(host, p, act) /\ UNCHANGED host
Ends          == (Finish \/ Fail) /\ UNCHANGED <<tableVars, host, past>>

SystemNext ==
  \/ \E p \in DOMAIN host : Forks(p)
  \/ \E p \in Started, img \in Image : Execs(p, img)
  \/ \E p \in Started, act \in Act : Acts(p, act)
  \/ Ends

SystemSpec == SystemInit /\ [][SystemNext]_systemVars

-----------------------------------------------------------------------------
(* What a host and an engine must be like for the properties to hold; the  *)
(* code promises none of it.                                               *)

\* No pid is handed out twice.
PidsFresh == ~REUSE

\* What runs an install only ever replaces itself by another that does, and the
\* session shell is not one.
ToolsStay == /\ \A r \in REEXEC : Installs(r[1]) => Installs(r[2])
             /\ ~Installs(SHELL)

\* The process table has room for every process there has been.
AllRemembered == Cardinality(DOMAIN host) <= CAP

\* A walk up from any process reaches the top.
Shallow == \A p \in DOMAIN host : Len(Above(p)) <= MAX_DEPTH

\* Of as many processes above one another as an event names, one has been
\* started as a program: the others are copies that never exec.
Traced ==
  \A p \in DOMAIN host : \A i \in DOMAIN Above(p) :
    i > ANCESTRY_MAX => \E j \in (i - ANCESTRY_MAX + 1)..i : host[Above(p)[j]].execed

-----------------------------------------------------------------------------
\* All the table says of a process is so: it is there, its parent, where the
\* table has one, is that one, and it answers to nothing its program does not
\* (proctable.rs:88-168).
TableTrue ==
  \A q \in DOMAIN map : /\ q \in DOMAIN host /\ map[q].ppid \in {0, host[q].parent}
                        /\ map[q].names \subseteq TrueNames(host[q].runs)

\* The key an event was filed under stays that of its anchor, whatever the
\* anchor execs: what it does next is filed under it too (proctable.rs:33-34,
\* 119-124).
AnchorsKeepKeys ==
  \A i \in DOMAIN past : LET key == past[i].key
                         IN  key[1] \in DOMAIN map /\ key[2] = map[key[1]].start_ts

\* One install is one chain: while its outermost package manager runs, all that
\* happens beneath it is filed under that process, however deep, whatever other
\* tools are in between and whoever has exited since (chain.rs:28-34).
FiledUnderTool ==
  \A i \in DOMAIN past : past[i].tool # 0 => past[i].key[1] = past[i].tool

\* The install of event j has not been silent for longer than the timeout since
\* event i.
KeptBusy(i, j) ==
  \A n \in (i + 1)..j : \E m \in i..(n - 1) :
    past[m].tool = past[j].tool /\ m + IDLE_NS >= n

\* What one process of an install does counts against what another does later:
\* a file written and then executed is L1, a secret read before a connection
\* off the host is N2, whichever processes they were, as long as the install was
\* never silent for longer than the timeout (lib.rs:62-116).
Telltale(e, f) ==
  IF /\ e.action = "Write" /\ f.action = "Exec" /\ e.path = f.path THEN {"L1"}
  ELSE IF /\ e.secret /\ f.action = "Connect" /\ ~f.loopback THEN {"N2"}
  ELSE {}
InstallEvidenceJoins ==
  \A j \in DOMAIN past : \A i \in 1..(j - 1) :
    /\ past[j].tool # 0 /\ past[i].tool = past[j].tool /\ KeptBusy(i, j)
    /\ past[j].key \in DOMAIN chains /\ j >= chains[past[j].key].first_ts
    => Telltale(past[i], past[j]) \subseteq DOMAIN chains[past[j].key].hits

\* A chain is held to the rules for installs only if its anchor really was a
\* package manager: a user's own shells, downloads and builds are not.
OnlyInstallsAccused ==
  \A k \in DOMAIN chains :
    DOMAIN chains[k].hits \cap {"C1", "P1", "P2", "L3", "L10"} # {} =>
      \E i \in DOMAIN past : past[i].key = k /\ past[i].manager

\* "A process answering to one of these is a dependency anchor": while a
\* chain's anchor answers to a package manager's name, the chain is a
\* dependency's (lists.rs:8-9).
AnchorKindCurrent ==
  \A k \in DOMAIN chains :
    /\ k[1] \in DOMAIN map /\ map[k[1]].start_ts = k[2]
    /\ Is(map[k[1]], DEPENDENCY_TOOLS)
    => chains[k].kind = "Dependency"

\* "Keyed by the anchor's pid and start time, so a reused pid is a new chain"
\* (lib.rs:32, proctable.rs:33-34).
ReusedPidNewChain ==
  \A i, j \in DOMAIN past : past[i].key = past[j].key => past[i].born = past[j].born
=============================================================================
