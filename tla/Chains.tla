------------------------------- MODULE Chains -------------------------------
(***************************************************************************)
(* The correlation engine (lib.rs) and its chains (chain.rs): attribution  *)
(* of an event to the chain of its anchor, expiry, the record of first     *)
(* hits, C3, rescoring, alerts and summaries.                              *)
(*                                                                         *)
(* The anchor an event resolves to and the findings the rules make of it   *)
(* are parameters here: ChainsSpec.tla lets them be anything the rules     *)
(* allow, Engine.tla computes them from the process table and the rules.   *)
(* Report wording, anchor names and event counts are left out.             *)
(*                                                                         *)
(* History variables, which the code does not have: `clock' (the latest    *)
(* timestamp fed), `level' (the severity a reader of the reports was last  *)
(* alerted to, per chain id) and `ended' (the chains closed so far and     *)
(* what their summary said).                                               *)
(***************************************************************************)
EXTENDS Events, Scoring

CONSTANTS
  Key,        \* (pid, start_ts) of anchors
  IDLE_NS,    \* a chain closes after this long with no events
  SWEEP_NS,   \* how often, in event time, idle chains are looked for
  all_chains, \* summarize every chain, not only those where a rule fired
  MaxEvents   \* bound: events fed to one engine

ASSUME ChainsAssumption ==
  /\ IDLE_NS \in Nat /\ SWEEP_NS \in Nat \ {0}
  /\ all_chains \in BOOLEAN
  /\ MaxEvents \in Nat

VARIABLES chains, next_id, last_sweep, alerts, phase, fed, clock, level, ended

vars == <<chains, next_id, last_sweep, alerts, phase, fed, clock, level, ended>>

AnchorKind == {"Dependency", "RuntimeDependency", "User"}

\* An event once its anchor is found: the chain key, what the anchor is and
\* whether a build tool is in the lineage up to it.
Resolved ==
  [action : Action, path : Path \cup {None}, key : Key, kind : AnchorKind,
   uid : Uid \cup {NoUid}, build : BOOLEAN]

\* What the rules found in one event: the tactic of each rule that matched. C1
\* and C3 are the engine's own.
EventRules == RuleId \ {"C1", "C3"}
IsFound(f) == /\ DOMAIN f \subseteq EventRules
              /\ f \in [DOMAIN f -> Tactic \cup {NoTactic}]

-----------------------------------------------------------------------------
(* A chain.                                                                *)

NewChain(id, in, ts) ==
  [id |-> id, kind |-> in.kind, uid |-> in.uid, build |-> FALSE, hits |-> <<>>,
   written |-> {}, first_secret |-> Never, alerted |-> Low,
   first_ts |-> ts, last_ts |-> ts]

\* Chain::record over every finding: only a rule's first hit is kept.
Record_Latest(hits, found, ts) ==
  [r \in DOMAIN hits \cup DOMAIN found |->
     IF r \in DOMAIN found THEN [ts |-> ts, tactic |-> found[r]] ELSE hits[r]]
Record(hits, found, ts) ==
  [r \in DOMAIN hits \cup DOMAIN found |->
     IF r \in DOMAIN hits THEN hits[r] ELSE [ts |-> ts, tactic |-> found[r]]]

\* expire: the chains a sweep at `now' closes, none when no sweep is due.
SweepDue_Late(now) == now > last_sweep + SWEEP_NS
SweepDue(now) == now >= last_sweep + SWEEP_NS
Idle_Early(now) == IF SweepDue(now)
                   THEN {k \in DOMAIN chains : chains[k].last_ts + IDLE_NS < now + SWEEP_NS}
                   ELSE {}
Idle(now) == IF SweepDue(now)
             THEN {k \in DOMAIN chains : chains[k].last_ts + IDLE_NS < now}
             ELSE {}

\* The chain an event belongs to, opened if there is none, with the anchor's
\* uid and the build flag refreshed.
IsNew_ExpireLast(in, ts) == in.key \notin DOMAIN chains
IsNew(in, ts) == in.key \notin DOMAIN chains \ Idle(ts)
Attributed_OffByOne(in, ts) ==
  IF IsNew(in, ts) THEN NewChain(next_id, in, ts) ELSE chains[in.key]
Attributed(in, ts) ==
  LET chain == IF IsNew(in, ts) THEN NewChain(next_id + 1, in, ts) ELSE chains[in.key]
  IN  [chain EXCEPT !.uid   = IF @ = NoUid THEN in.uid ELSE @,
                    !.build = @ \/ in.build]

\* C1 on a new dependency chain, the rules' findings, the first secret, the
\* path written and the time of the last event.
Opening_AnyKind(in, ts) == IF IsNew(in, ts) THEN {"C1"} ELSE {}
Opening(in, ts) == IF IsNew(in, ts) /\ in.kind # "User" THEN {"C1"} ELSE {}
Noted(chain, in, found, opening, ts) ==
  [chain EXCEPT
     !.hits = Record(@, [r \in DOMAIN found \cup opening |->
                           IF r \in opening THEN NoTactic ELSE found[r]], ts),
     !.first_secret = IF @ = Never /\ {"F1", "L8"} \cap DOMAIN found # {} THEN ts ELSE @,
     !.written = IF in.action = "Write" THEN @ \cup ({in.path} \ {None}) ELSE @,
     !.last_ts = ts]

\* rescore, first half: C3 when the tactics now progress.
WithC3_BeforeAlert(chain, ts) ==
  IF "C3" \notin DOMAIN chain.hits /\ Progression(chain.hits) # <<>> /\ chain.alerted = Low
  THEN [chain EXCEPT !.hits = Record(@, [r \in {"C3"} |-> NoTactic], ts)]
  ELSE chain
WithC3(chain, ts) ==
  IF "C3" \notin DOMAIN chain.hits /\ Progression(chain.hits) # <<>>
  THEN [chain EXCEPT !.hits = Record(@, [r \in {"C3"} |-> NoTactic], ts)]
  ELSE chain

\* rescore, second half: whether the chain entered a higher band.
Raises_BeforeC3(chain) ==
  LET severity == Band(DOMAIN chain.hits \ {"C3"})
  IN  severity >= Medium /\ severity > chain.alerted
Raises_Again(chain) ==
  LET severity == Band(DOMAIN chain.hits)
  IN  severity >= Medium /\ severity >= chain.alerted
Raises(chain) ==
  LET severity == Band(DOMAIN chain.hits)
  IN  severity >= Medium /\ severity > chain.alerted

\* What chain.summary reports of a chain, and whether it reports it at all.
Summary(k, chain) ==
  [id |-> chain.id, key |-> k, severity |-> Band(DOMAIN chain.hits),
   reported |-> DOMAIN chain.hits # {} \/ all_chains,
   first_ts |-> chain.first_ts, last_ts |-> chain.last_ts]

-----------------------------------------------------------------------------
(* The engine.                                                             *)

Init == /\ chains = <<>>
        /\ next_id = 0 /\ last_sweep = 0 /\ alerts = 0
        /\ phase = "running" /\ fed = 0 /\ clock = 0
        /\ level = <<>> /\ ended = {}

\* Engine::process, for an event that resolved to `in' and matched `found'.
Handle(in, found, ts) ==
  LET before  == Attributed(in, ts)
      noted   == Noted(before, in, found, Opening(in, ts), ts)
      new_hit == DOMAIN noted.hits # DOMAIN before.hits
      scored  == IF new_hit THEN WithC3(noted, ts) ELSE noted
      alert   == new_hit /\ Raises(scored)
      after   == IF alert THEN [scored EXCEPT !.alerted = Band(DOMAIN scored.hits)]
                          ELSE scored
  IN  /\ phase = "running" /\ fed < MaxEvents
      /\ chains' = [k \in (DOMAIN chains \ Idle(ts)) \cup {in.key} |->
                      IF k = in.key THEN after ELSE chains[k]]
      /\ next_id' = IF IsNew(in, ts) THEN next_id + 1 ELSE next_id
      /\ last_sweep' = IF SweepDue(ts) THEN ts ELSE last_sweep
      /\ alerts' = IF alert THEN alerts + 1 ELSE alerts
      /\ level' = [i \in 1..next_id' |->
                     IF i = after.id /\ alert THEN Band(DOMAIN after.hits)
                     ELSE IF i \in DOMAIN level THEN level[i]
                     ELSE Low]
      /\ ended' = ended \cup {Summary(k, chains[k]) : k \in Idle(ts)}
      /\ clock' = IF ts > clock THEN ts ELSE clock
      /\ fed' = fed + 1
      /\ UNCHANGED phase

\* Engine::finish at the end of the input closes every open chain.
Finish ==
  /\ phase = "running"
  /\ phase' = "finished"
  /\ ended' = ended \cup {Summary(k, chains[k]) : k \in DOMAIN chains}
  /\ chains' = <<>>
  /\ UNCHANGED <<next_id, last_sweep, alerts, fed, clock, level>>

\* main.rs run leaves by `?' when a line cannot be read or a report cannot be
\* written. The open chains are dropped; the summaries of some of them, if a
\* sweep or finish was being written out, had been written before.
Fail ==
  /\ phase = "running"
  /\ phase' = "failed"
  /\ \E S \in SUBSET DOMAIN chains :
       ended' = ended \cup {Summary(k, chains[k]) : k \in S}
  /\ chains' = <<>>
  /\ UNCHANGED <<next_id, last_sweep, alerts, fed, clock, level>>

-----------------------------------------------------------------------------
(* Properties.                                                             *)

IsHit(h) == h \in [ts : Nat, tactic : Tactic \cup {NoTactic}]

IsChain(c) ==
  /\ DOMAIN c = {"id", "kind", "uid", "build", "hits", "written", "first_secret",
                 "alerted", "first_ts", "last_ts"}
  /\ c.id \in 1..next_id
  /\ c.kind \in AnchorKind /\ c.uid \in Uid \cup {NoUid} /\ c.build \in BOOLEAN
  /\ DOMAIN c.hits \subseteq RuleId
  /\ \A r \in DOMAIN c.hits : IsHit(c.hits[r])
  /\ c.written \subseteq Path
  /\ c.first_secret \in Nat \cup {Never}
  /\ c.alerted \in Severity
  /\ c.first_ts \in Nat /\ c.last_ts \in Nat

\* Types of the engine's state and of the history kept beside it.
TypeOK ==
  /\ DOMAIN chains \subseteq Key
  /\ \A k \in DOMAIN chains : IsChain(chains[k])
  /\ next_id \in Nat /\ last_sweep \in Nat /\ alerts \in Nat
  /\ phase \in {"running", "finished", "failed"}
  /\ fed \in Nat /\ clock \in Nat
  /\ level \in [1..next_id -> Severity]
  /\ ended \subseteq [id : 1..next_id, key : Key, severity : Severity,
                      reported : BOOLEAN, first_ts : Nat, last_ts : Nat]

\* No band is missed and none is alerted without the score to show for it:
\* between events the severity a chain last alerted at is the band its hits
\* score, whatever order they came in and although C3 is itself a hit
\* (lib.rs:172-190).
AlertedIsBand ==
  \A k \in DOMAIN chains : chains[k].alerted = Band(DOMAIN chains[k].hits)

\* A kill-chain progression never goes unnoticed: whenever a chain's counted
\* tactics progress, C3 is among its hits (lib.rs:176-183).
ProgressionRecorded ==
  \A k \in DOMAIN chains :
    Progression(chains[k].hits) # <<>> => "C3" \in DOMAIN chains[k].hits

\* N2 is never in a chain's evidence without the earlier secret access it
\* accuses the connection of following (lib.rs:106-108, network.rs:20).
ExfilFollowsSecret ==
  \A k \in DOMAIN chains : LET hits == chains[k].hits IN
    "N2" \in DOMAIN hits =>
      \E r \in {"F1", "L8"} \cap DOMAIN hits : hits[r].ts <= hits["N2"].ts

\* Every id handed out is that of exactly one chain, which is open or closed,
\* never both and never closed twice; only a failed run loses chains.
EveryChainAccounted ==
  LET open == {chains[k].id : k \in DOMAIN chains}
      shut == {e.id : e \in ended}
  IN  /\ \A j, k \in DOMAIN chains : chains[j].id = chains[k].id => j = k
      /\ \A d, e \in ended : d.id = e.id => d = e
      /\ open \cap shut = {}
      /\ phase # "failed" => open \cup shut = 1..next_id

\* A chain's summary tells the severity of its last alert, and a chain that
\* alerted does get a summary when it closes (lib.rs:126-158).
SummaryMatchesAlerts ==
  \A e \in ended : /\ e.severity = level[e.id]
                   /\ level[e.id] # Low => e.reported

\* However events lag, no chain stays open once it has been silent for
\* IDLE_NS + SWEEP_NS of event time.
SilentChainsClose ==
  \A k \in DOMAIN chains : clock < chains[k].last_ts + IDLE_NS + SWEEP_NS

\* The engine keeps the promise of AlertFeed to whoever reads its reports.
Feed == INSTANCE AlertFeed WITH
          opened <- next_id, raised <- alerts,
          closed <- {e.id : e \in ended}
KeepsFeed == Feed!FeedSpec
=============================================================================
