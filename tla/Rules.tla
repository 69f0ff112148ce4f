-------------------------------- MODULE Rules --------------------------------
(***************************************************************************)
(* The detection rules (rules/*.rs): predicates over one event, its        *)
(* lineage and the state of its chain.  A context is a record with the     *)
(* event `ev', the `lineage' (acting process first), the `idx' of the      *)
(* anchor in it and the `chain'.                                           *)
(***************************************************************************)
EXTENDS Anchors, Scoring

When(cond, rule) == IF cond THEN {rule} ELSE {}

Actor(ctx)             == ctx.lineage[1]
IsAnchor(ctx)          == ctx.idx = 1
InDependencyChain(ctx) == ctx.chain.kind # "User"
InBuildChain(ctx)      == ctx.chain.build
InInstall(ctx)         == InDependencyChain(ctx) \/ InBuildChain(ctx)

\* process.rs
CheckExec_AnchorToo(ctx) ==
  LET p == Actor(ctx) IN
  When(Is(p, SHELLS), "P1") \cup When(Is(p, DOWNLOADERS), "P2")
CheckExec(ctx) ==
  LET p == Actor(ctx)
      beneath == InDependencyChain(ctx) /\ ~IsAnchor(ctx)
      preauth == /\ Len(ctx.lineage) > 1
                 /\ Is(ctx.lineage[2], SSHD_LISTENER) /\ ~Is(ctx.lineage[2], SSHD_SESSION)
                 /\ ~Is(p, SSHD_LISTENER) /\ ~Is(p, SSHD_SESSION)
  IN  When(beneath /\ Is(p, SHELLS), "P1")
        \cup When(beneath /\ Is(p, DOWNLOADERS), "P2")
        \cup When(PathIs(ctx.ev.path, "staging_dir"), "P3")
        \cup When(ctx.ev.path \in ctx.chain.written, "L1")
        \cup When(InDependencyChain(ctx) /\ CmdIs(p.cmdline, "decode_and_run"), "L3")
        \cup When(InBuildChain(ctx) /\ Is(p, DECOMPRESSORS) /\ CmdIs(p.cmdline, "test_data"), "L5")
        \cup When(InInstall(ctx) /\ Is(p, ENV_DUMPERS), "L8")
        \cup When(preauth, "L12")

\* file.rs
IsCompiler(p)  == Is(p, COMPILERS) \/ PathIs(p.exe, "go_tool")
OwnsCache(ctx) == \/ IsAnchor(ctx)
                  \/ Is(Actor(ctx), DEPENDENCY_TOOLS)
                  \/ CmdIs(Actor(ctx).cmdline, "cache_owner")

CheckWrite(ctx) ==
  LET holds(fact) == PathIs(ctx.ev.path, fact) IN
  When(holds("hidden_staging"), "F2")
    \cup When(holds("shell_rc"), "F3")
    \cup When(holds("cron"), "F4")
    \cup When(holds("systemd_unit"), "F5")
    \cup When(holds("authorized_keys"), "F6")
    \cup When(InBuildChain(ctx) /\ holds("object_file") /\ ~IsCompiler(Actor(ctx)), "L6")
    \cup When(InInstall(ctx) /\ ~IsAnchor(ctx) /\ holds("system_bin"), "L7")
    \cup When(InDependencyChain(ctx) /\ (holds("accounts") \/ holds("sudoers") \/ holds("name_lookup")), "L10")
    \cup When(holds("package_cache") /\ ~OwnsCache(ctx), "L11")

\* Another process's environment is a secret; one's own is not. A file is one
\* unless a usual reader reads it, or it only counts inside an install.
CheckSecret(ctx) ==
  LET path   == ctx.ev.path
      secret == secrets[path]
  IN  CASE path \in DOMAIN environ_of ->
             When(environ_of[path] # ctx.ev.pid, "L8")
        [] path \notin DOMAIN environ_of /\ path \in DOMAIN secrets ->
             When(/\ ~PathIs(path, "public_cert")
                  /\ ~Is(Actor(ctx), secret.readers)
                  /\ secret.dependency_only => InInstall(ctx), "F1")
        [] OTHER -> {}

\* network.rs
CheckConnect(ctx) ==
  IF ctx.ev.loopback THEN {}
  ELSE When(InInstall(ctx) /\ ~IsAnchor(ctx), "N1")
         \cup When(ctx.chain.first_secret # Never /\ ctx.chain.first_secret <= ctx.ev.ts, "N2")
         \cup When(ctx.ev.odd_port, "N3")
         \cup When(Is(Actor(ctx), SHELLS), "L2")

\* context.rs
CheckContext(ctx) ==
  When(ctx.ev.uid = 0 /\ ctx.chain.uid \notin {NoUid, 0}, "C2")
    \cup When(/\ ctx.ev.action = "Exec"
              /\ ctx.ev.container \/ Actor(ctx).container
              /\ Is(Actor(ctx), CONTAINER_TOOLS), "L9")

\* L10's tactic is the target file's.
FoundTactic(rule, path) ==
  IF rule # "L10" THEN TacticOf(rule)
  ELSE IF PathIs(path, "accounts") THEN Persistence
  ELSE IF PathIs(path, "sudoers")  THEN PrivilegeEscalation
  ELSE NoTactic

Evaluate(ctx) ==
  LET matched == CheckContext(ctx) \cup
                 CASE ctx.ev.action = "Exec"       -> CheckExec(ctx)
                   [] ctx.ev.action = "Write"      -> CheckWrite(ctx)
                   [] ctx.ev.action = "SecretRead" -> CheckSecret(ctx)
                   [] ctx.ev.action = "Connect"    -> CheckConnect(ctx)
  IN  [r \in matched |-> FoundTactic(r, ctx.ev.path)]
=============================================================================
