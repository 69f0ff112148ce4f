---------------------------- MODULE ChainsProofs ----------------------------
(***************************************************************************)
(* The engine's chains, for every set of inputs, findings and timestamps.  *)
(***************************************************************************)
EXTENDS ChainsSpec, ScoreLemmas, FiniteSetTheorems

ChainFields == {"id", "kind", "uid", "build", "hits", "written", "first_secret",
                "alerted", "first_ts", "last_ts"}

-----------------------------------------------------------------------------
(* The stages of Handle, named.                                            *)

NotedIn(in, found, ts)  == Noted(Attributed(in, ts), in, found, Opening(in, ts), ts)
NewHit(in, found, ts)   == DOMAIN NotedIn(in, found, ts).hits # DOMAIN Attributed(in, ts).hits
Scored(in, found, ts)   == IF NewHit(in, found, ts) THEN WithC3(NotedIn(in, found, ts), ts)
                                                    ELSE NotedIn(in, found, ts)
Alerts(in, found, ts)   == NewHit(in, found, ts) /\ Raises(Scored(in, found, ts))
After(in, found, ts)    == IF Alerts(in, found, ts)
                           THEN [Scored(in, found, ts) EXCEPT
                                   !.alerted = Band(DOMAIN Scored(in, found, ts).hits)]
                           ELSE Scored(in, found, ts)

\* The type of a chain when `n' chains have been opened.
ChainOf(n, c) ==
  /\ DOMAIN c = ChainFields
  /\ c.id \in 1..n
  /\ c.kind \in AnchorKind /\ c.uid \in Uid \cup {NoUid} /\ c.build \in BOOLEAN
  /\ DOMAIN c.hits \subseteq RuleId
  /\ \A r \in DOMAIN c.hits : IsHit(c.hits[r])
  /\ c.written \subseteq Path
  /\ c.first_secret \in Nat \cup {Never}
  /\ c.alerted \in Severity
  /\ c.first_ts \in Nat /\ c.last_ts \in Nat

\* What a chain is, restated over the number of chains opened.
LEMMA IsChainOf == /\ \A c : IsChain(c) <=> ChainOf(next_id, c)
                   /\ \A c : IsChain(c)' <=> ChainOf(next_id', c)
BY DEF IsChain, ChainOf, ChainFields

\* The type of a chain survives the opening of others.
LEMMA ChainOfMonotone ==
  ASSUME NEW m \in Nat, NEW n \in Nat, m <= n, NEW c, ChainOf(m, c)
  PROVE  ChainOf(n, c)
BY DEF ChainOf

\* A Handle step, by its stages.
LEMMA HandleStages ==
  ASSUME NEW in, NEW found, NEW ts, Handle(in, found, ts)
  PROVE  /\ phase = "running" /\ phase' = phase
         /\ chains' = [k \in (DOMAIN chains \ Idle(ts)) \cup {in.key} |->
                         IF k = in.key THEN After(in, found, ts) ELSE chains[k]]
         /\ next_id' = IF IsNew(in, ts) THEN next_id + 1 ELSE next_id
         /\ last_sweep' = IF SweepDue(ts) THEN ts ELSE last_sweep
         /\ alerts' = IF Alerts(in, found, ts) THEN alerts + 1 ELSE alerts
         /\ level' = [i \in 1..next_id' |->
                        IF i = After(in, found, ts).id /\ Alerts(in, found, ts)
                        THEN Band(DOMAIN After(in, found, ts).hits)
                        ELSE IF i \in DOMAIN level THEN level[i]
                        ELSE Low]
         /\ ended' = ended \cup {Summary(k, chains[k]) : k \in Idle(ts)}
         /\ clock' = (IF ts > clock THEN ts ELSE clock)
         /\ fed' = fed + 1
BY DEF Handle, NotedIn, NewHit, Scored, Alerts, After

-----------------------------------------------------------------------------
(* The inductive invariant.                                                *)

\* The reader's last alert about an open chain is the chain's `alerted'.
LevelIsAlerted == \A k \in DOMAIN chains : level[chains[k].id] = chains[k].alerted

IInv == TypeOK /\ AlertedIsBand /\ LevelIsAlerted /\ EveryChainAccounted /\ SummaryMatchesAlerts

\* The chain an event is attributed to is typed, has the id of the open chain
\* or the next one, and is alerted to the band of its hits, even when new.
LEMMA AttributedFacts ==
  ASSUME TypeOK, AlertedIsBand, NEW in \in Resolved, NEW ts \in Nat
  PROVE  LET b == Attributed(in, ts) IN
         /\ ChainOf(IF IsNew(in, ts) THEN next_id + 1 ELSE next_id, b)
         /\ b.id = IF IsNew(in, ts) THEN next_id + 1 ELSE chains[in.key].id
         /\ b.alerted = Band(DOMAIN b.hits)
         /\ b.alerted = IF IsNew(in, ts) THEN Low ELSE chains[in.key].alerted
<1> DEFINE c == IF IsNew(in, ts) THEN NewChain(next_id + 1, in, ts) ELSE chains[in.key]
           b == Attributed(in, ts)
<1>0. /\ in.kind \in AnchorKind /\ in.uid \in Uid \cup {NoUid} /\ in.build \in BOOLEAN
      /\ in.key \in Key
  BY DEF Resolved
<1>1. ChainOf(IF IsNew(in, ts) THEN next_id + 1 ELSE next_id, c)
  <2>1. CASE IsNew(in, ts)
    <3>1. c = NewChain(next_id + 1, in, ts)
      BY <2>1
    <3> HIDE DEF c
    <3>2. /\ DOMAIN c = ChainFields
          /\ c.id = next_id + 1 /\ c.kind = in.kind /\ c.uid = in.uid
          /\ c.hits = <<>> /\ c.written = {} /\ c.first_secret = Never
          /\ c.alerted = Low /\ c.first_ts = ts /\ c.last_ts = ts
      BY <3>1 DEF NewChain, ChainFields
    <3>3. c.build \in BOOLEAN
      <4>1. c.build = FALSE
        BY <3>1, Zenon DEF NewChain
      <4>2. QED
        BY <4>1
    <3>4. DOMAIN c.hits = {}
      BY <3>2
    <3>5. next_id + 1 \in 1..(next_id + 1)
      BY DEF TypeOK
    <3>6. /\ c.id \in 1..(next_id + 1) /\ c.kind \in AnchorKind /\ c.uid \in Uid \cup {NoUid}
          /\ c.written \subseteq Path /\ c.alerted \in Severity
          /\ c.first_ts \in Nat /\ c.last_ts \in Nat
      BY <3>2, <3>5, <1>0 DEF Severity, Low
    <3>7. ChainOf(next_id + 1, c)
      BY <3>2, <3>3, <3>4, <3>6 DEF ChainOf
    <3>8. QED
      BY <2>1, <3>7
  <2>2. CASE ~IsNew(in, ts)
    <3>1. in.key \in DOMAIN chains
      BY <2>2 DEF IsNew
    <3>2. IsChain(chains[in.key])
      BY <3>1 DEF TypeOK
    <3>3. QED
      BY <2>2, <3>2, IsChainOf
  <2>3. QED
    BY <2>1, <2>2
<1>2. /\ c.id = IF IsNew(in, ts) THEN next_id + 1 ELSE chains[in.key].id
      /\ c.alerted = IF IsNew(in, ts) THEN Low ELSE chains[in.key].alerted
  BY DEF NewChain
<1>3. c.alerted = Band(DOMAIN c.hits)
  <2>1. CASE IsNew(in, ts)
    <3>1. DOMAIN c.hits = {} /\ c.alerted = Low
      BY <2>1 DEF NewChain
    <3>2. QED
      BY <3>1, EmptyBand
  <2>2. CASE ~IsNew(in, ts)
    BY <2>2 DEF IsNew, AlertedIsBand
  <2>3. QED
    BY <2>1, <2>2
<1>4. b = [c EXCEPT !.uid   = IF @ = NoUid THEN in.uid ELSE @,
                    !.build = @ \/ in.build]
  BY DEF Attributed
<1> HIDE DEF c, b
<1>5. DOMAIN c = ChainFields
  BY <1>1 DEF ChainOf
<1>6. /\ DOMAIN b = ChainFields
      /\ b.id = c.id /\ b.kind = c.kind /\ b.hits = c.hits /\ b.written = c.written
      /\ b.first_secret = c.first_secret /\ b.alerted = c.alerted
      /\ b.first_ts = c.first_ts /\ b.last_ts = c.last_ts
      /\ b.uid = IF c.uid = NoUid THEN in.uid ELSE c.uid
  BY <1>4, <1>5 DEF ChainFields
<1>7. b.build \in BOOLEAN
  <2>1. b.build = (c.build \/ in.build)
    BY <1>4, <1>5, Zenon DEF ChainFields
  <2>2. c.build \in BOOLEAN
    BY <1>1 DEF ChainOf
  <2>3. QED
    BY <2>1, <2>2, <1>0
<1>8. b.uid \in Uid \cup {NoUid}
  BY <1>6, <1>1, <1>0 DEF ChainOf
<1>9. ChainOf(IF IsNew(in, ts) THEN next_id + 1 ELSE next_id, b)
  BY <1>1, <1>6, <1>7, <1>8 DEF ChainOf
<1>10. QED
  BY <1>2, <1>3, <1>6, <1>9 DEF b

\* Recording findings keeps hits typed and loses none.
LEMMA RecordTyped ==
  ASSUME NEW hits, DOMAIN hits \subseteq RuleId, \A r \in DOMAIN hits : IsHit(hits[r]),
         NEW found, DOMAIN found \subseteq RuleId,
         \A r \in DOMAIN found : found[r] \in Tactic \cup {NoTactic},
         NEW ts \in Nat
  PROVE  LET h == Record(hits, found, ts) IN
         /\ DOMAIN hits \subseteq DOMAIN h /\ DOMAIN h \subseteq RuleId
         /\ \A r \in DOMAIN h : IsHit(h[r])
<1> DEFINE h == Record(hits, found, ts)
<1>1. /\ DOMAIN h = DOMAIN hits \cup DOMAIN found
      /\ \A r \in DOMAIN hits : h[r] = hits[r]
      /\ \A r \in DOMAIN found \ DOMAIN hits : h[r] = [ts |-> ts, tactic |-> found[r]]
  BY DEF Record
<1>2. \A r \in DOMAIN found : IsHit([ts |-> ts, tactic |-> found[r]])
  BY DEF IsHit
<1> HIDE DEF h
<1>3. \A r \in DOMAIN h : IsHit(h[r])
  BY <1>1, <1>2
<1>4. QED
  BY <1>1, <1>3 DEF h

\* Noting an event keeps a chain typed, its id and its alerted band.
LEMMA NotedTyped ==
  ASSUME NEW n \in Nat, NEW c, ChainOf(n, c), NEW in \in Resolved, NEW found, IsFound(found),
         NEW opening, opening \subseteq {"C1"}, NEW ts \in Nat
  PROVE  LET d == Noted(c, in, found, opening, ts) IN
         /\ ChainOf(n, d)
         /\ d.id = c.id /\ d.alerted = c.alerted
         /\ DOMAIN c.hits \subseteq DOMAIN d.hits
<1> DEFINE d == Noted(c, in, found, opening, ts)
           new == [r \in DOMAIN found \cup opening |->
                     IF r \in opening THEN NoTactic ELSE found[r]]
<1>1. DOMAIN c = ChainFields
  BY DEF ChainOf
<1>2. /\ DOMAIN d = ChainFields
      /\ d.id = c.id /\ d.kind = c.kind /\ d.uid = c.uid
      /\ d.hits = Record(c.hits, new, ts)
      /\ d.written = IF in.action = "Write" THEN c.written \cup ({in.path} \ {None})
                                            ELSE c.written
      /\ d.first_secret = IF c.first_secret = Never /\ {"F1", "L8"} \cap DOMAIN found # {}
                          THEN ts ELSE c.first_secret
      /\ d.alerted = c.alerted /\ d.first_ts = c.first_ts /\ d.last_ts = ts
  BY <1>1 DEF Noted, ChainFields
<1>3. d.build \in BOOLEAN
  <2>1. d.build = c.build
    BY <1>1, Zenon DEF Noted, ChainFields
  <2>2. QED
    BY <2>1 DEF ChainOf
<1>4. /\ DOMAIN new \subseteq RuleId
      /\ \A r \in DOMAIN new : new[r] \in Tactic \cup {NoTactic}
  <2>1. DOMAIN found \subseteq RuleId
    BY DEF IsFound, EventRules
  <2>2. \A r \in DOMAIN found : found[r] \in Tactic \cup {NoTactic}
    BY DEF IsFound
  <2>3. "C1" \in RuleId
    BY DEF RuleId, ContextRules
  <2>4. QED
    BY <2>1, <2>2, <2>3
<1> HIDE DEF d, new
<1>5. /\ DOMAIN c.hits \subseteq DOMAIN d.hits /\ DOMAIN d.hits \subseteq RuleId
      /\ \A r \in DOMAIN d.hits : IsHit(d.hits[r])
  <2>1. DOMAIN c.hits \subseteq RuleId /\ \A r \in DOMAIN c.hits : IsHit(c.hits[r])
    BY DEF ChainOf
  <2>2. QED
    BY <2>1, <1>2, <1>4, RecordTyped
<1>6. in.path \in Path \cup {None}
  BY DEF Resolved
<1>7. d.written \subseteq Path
  <2>1. c.written \subseteq Path
    BY DEF ChainOf
  <2>2. QED
    BY <2>1, <1>2, <1>6
<1>8. d.first_secret \in Nat \cup {Never}
  BY <1>2 DEF ChainOf
<1>9. ChainOf(n, d)
  BY <1>2, <1>3, <1>5, <1>7, <1>8 DEF ChainOf
<1>10. QED
  BY <1>2, <1>5, <1>9 DEF d

\* So does C3.
LEMMA WithC3Typed ==
  ASSUME NEW n \in Nat, NEW c, ChainOf(n, c), NEW ts \in Nat
  PROVE  LET d == WithC3(c, ts) IN
         /\ ChainOf(n, d)
         /\ d.id = c.id /\ d.alerted = c.alerted
         /\ DOMAIN c.hits \subseteq DOMAIN d.hits
<1> DEFINE d == WithC3(c, ts)
           new == [r \in {"C3"} |-> NoTactic]
<1>1. DOMAIN c = ChainFields
  BY DEF ChainOf
<1>2. /\ DOMAIN d = ChainFields
      /\ d.id = c.id /\ d.kind = c.kind /\ d.uid = c.uid
      /\ d.hits = c.hits \/ d.hits = Record(c.hits, new, ts)
      /\ d.written = c.written /\ d.first_secret = c.first_secret
      /\ d.alerted = c.alerted /\ d.first_ts = c.first_ts /\ d.last_ts = c.last_ts
  BY <1>1 DEF WithC3, ChainFields
<1>3. d.build \in BOOLEAN
  <2>1. d.build = c.build
    BY <1>1, Zenon DEF WithC3, ChainFields
  <2>2. QED
    BY <2>1 DEF ChainOf
<1>4. /\ DOMAIN new \subseteq RuleId
      /\ \A r \in DOMAIN new : new[r] \in Tactic \cup {NoTactic}
  BY DEF RuleId, ContextRules
<1> HIDE DEF d, new
<1>5. /\ DOMAIN c.hits \subseteq DOMAIN d.hits /\ DOMAIN d.hits \subseteq RuleId
      /\ \A r \in DOMAIN d.hits : IsHit(d.hits[r])
  <2>1. DOMAIN c.hits \subseteq RuleId /\ \A r \in DOMAIN c.hits : IsHit(c.hits[r])
    BY DEF ChainOf
  <2>2. CASE d.hits = c.hits
    BY <2>1, <2>2
  <2>3. CASE d.hits = Record(c.hits, new, ts)
    BY <2>1, <2>3, <1>4, RecordTyped
  <2>4. QED
    BY <1>2, <2>2, <2>3
<1>6. ChainOf(n, d)
  BY <1>2, <1>3, <1>5 DEF ChainOf
<1>7. QED
  BY <1>2, <1>5, <1>6 DEF d

\* What Handle leaves of the event's chain: typed, with its id, alerted to the
\* band of its hits; an alert means that band is a new and higher one.
LEMMA AfterFacts ==
  ASSUME TypeOK, AlertedIsBand, NEW in \in Resolved, NEW found, IsFound(found), NEW ts \in Nat
  PROVE  LET a   == After(in, found, ts)
             old == IF IsNew(in, ts) THEN Low ELSE chains[in.key].alerted
         IN  /\ ChainOf(IF IsNew(in, ts) THEN next_id + 1 ELSE next_id, a)
             /\ a.id = IF IsNew(in, ts) THEN next_id + 1 ELSE chains[in.key].id
             /\ a.alerted = Band(DOMAIN a.hits)
             /\ Alerts(in, found, ts) => a.alerted >= Medium /\ a.alerted > old
             /\ ~Alerts(in, found, ts) => a.alerted = old
<1> DEFINE n   == IF IsNew(in, ts) THEN next_id + 1 ELSE next_id
           old == IF IsNew(in, ts) THEN Low ELSE chains[in.key].alerted
           id  == IF IsNew(in, ts) THEN next_id + 1 ELSE chains[in.key].id
           b   == Attributed(in, ts)
           d   == NotedIn(in, found, ts)
           s   == Scored(in, found, ts)
           a   == After(in, found, ts)
<1>1. ChainOf(n, b) /\ b.id = id /\ b.alerted = Band(DOMAIN b.hits) /\ b.alerted = old
  BY AttributedFacts
<1>2. n \in Nat
  BY DEF TypeOK
<1>3. /\ ChainOf(n, d)
      /\ d.id = b.id /\ d.alerted = b.alerted
      /\ DOMAIN b.hits \subseteq DOMAIN d.hits
  <2>1. Opening(in, ts) \subseteq {"C1"}
    BY DEF Opening
  <2>2. d = Noted(b, in, found, Opening(in, ts), ts)
    BY DEF NotedIn
  <2> DEFINE e == Noted(b, in, found, Opening(in, ts), ts)
  <2>3. ChainOf(n, e) /\ e.id = b.id /\ e.alerted = b.alerted /\ DOMAIN b.hits \subseteq DOMAIN e.hits
    <3>1. ChainOf(n, b)
      BY <1>1
    <3> HIDE DEF n, b, d
    <3>2. QED
      BY <1>2, <2>1, <3>1, NotedTyped
  <2> HIDE DEF n, b, d, e
  <2>4. QED
    BY <2>2, <2>3 DEF e
<1> HIDE DEF n, old, id, b, d
<1>4. /\ ChainOf(n, s)
      /\ s.id = b.id /\ s.alerted = b.alerted
      /\ DOMAIN b.hits \subseteq DOMAIN s.hits
      /\ ~NewHit(in, found, ts) => DOMAIN s.hits = DOMAIN b.hits
  <2>1. s = IF NewHit(in, found, ts) THEN WithC3(d, ts) ELSE d
    BY DEF Scored, d
  <2>2. ~NewHit(in, found, ts) => DOMAIN d.hits = DOMAIN b.hits
    BY DEF NewHit, b, d
  <2>3. /\ ChainOf(n, WithC3(d, ts))
        /\ WithC3(d, ts).id = d.id /\ WithC3(d, ts).alerted = d.alerted
        /\ DOMAIN d.hits \subseteq DOMAIN WithC3(d, ts).hits
    <3>1. ChainOf(n, d)
      BY <1>3
    <3> HIDE DEF s
    <3>2. QED
      BY <1>2, <3>1, WithC3Typed
  <2> HIDE DEF s
  <2>4. QED
    BY <1>3, <2>1, <2>2, <2>3
<1>5. /\ Band(DOMAIN s.hits) \in Severity
      /\ b.alerted \in Severity
      /\ b.alerted <= Band(DOMAIN s.hits)
  BY <1>1, <1>4, BandMonotone
<1>6. DOMAIN s = ChainFields
  BY <1>4 DEF ChainOf
<1>7. Alerts(in, found, ts) <=> /\ NewHit(in, found, ts)
                                /\ Band(DOMAIN s.hits) >= Medium
                                /\ Band(DOMAIN s.hits) > s.alerted
  BY DEF Alerts, Raises
<1>8. CASE Alerts(in, found, ts)
  <2>1. a = [s EXCEPT !.alerted = Band(DOMAIN s.hits)]
    BY <1>8 DEF After
  <2> HIDE DEF a, s
  <2>2. /\ DOMAIN a = ChainFields
        /\ a.id = s.id /\ a.kind = s.kind /\ a.uid = s.uid
        /\ a.hits = s.hits /\ a.written = s.written /\ a.first_secret = s.first_secret
        /\ a.alerted = Band(DOMAIN s.hits)
        /\ a.first_ts = s.first_ts /\ a.last_ts = s.last_ts
    BY <1>6, <2>1 DEF ChainFields
  <2>3. a.build \in BOOLEAN
    <3>1. a.build = s.build
      BY <1>6, <2>1, Zenon DEF ChainFields
    <3>2. QED
      BY <3>1, <1>4 DEF ChainOf
  <2>4. ChainOf(n, a)
    BY <1>4, <1>5, <2>2, <2>3 DEF ChainOf
  <2>5. a.id = id /\ a.alerted = Band(DOMAIN a.hits)
    BY <1>1, <1>4, <2>2
  <2>6. a.alerted >= Medium /\ a.alerted > old
    BY <1>1, <1>4, <1>7, <1>8, <2>2
  <2>7. QED
    BY <1>8, <2>4, <2>5, <2>6 DEF a, n, old, id
<1>9. CASE ~Alerts(in, found, ts)
  <2>1. a = s
    BY <1>9 DEF After
  <2>2. s.alerted = Band(DOMAIN s.hits)
    <3>1. CASE NewHit(in, found, ts)
      <4>1. Band(DOMAIN s.hits) < Medium \/ Band(DOMAIN s.hits) <= s.alerted
        BY <1>4, <1>5, <1>7, <1>9, <3>1 DEF Severity, Medium
      <4> HIDE DEF s
      <4>2. QED
        BY <1>4, <1>5, <4>1 DEF Severity, Medium
    <3>2. CASE ~NewHit(in, found, ts)
      BY <1>1, <1>4, <3>2
    <3>3. QED
      BY <3>1, <3>2
  <2> HIDE DEF a, s
  <2>3. a.id = id /\ a.alerted = Band(DOMAIN a.hits) /\ a.alerted = old
    BY <1>1, <1>4, <2>1, <2>2
  <2>4. QED
    BY <1>4, <1>9, <2>1, <2>3 DEF a, n, old, id
<1>10. QED
  BY <1>8, <1>9

-----------------------------------------------------------------------------
(* Summaries.                                                              *)

Summaries(n) == [id : 1..n, key : Key, severity : Severity, reported : BOOLEAN,
                 first_ts : Nat, last_ts : Nat]

\* The summary of a chain is typed; it tells the band of the chain's hits, and
\* is reported when that band is above Low.
LEMMA SummaryFacts ==
  ASSUME NEW n \in Nat, NEW k \in Key, NEW c, ChainOf(n, c)
  PROVE  LET e == Summary(k, c) IN
         /\ e \in Summaries(n)
         /\ e.id = c.id /\ e.severity = Band(DOMAIN c.hits)
         /\ Band(DOMAIN c.hits) # Low => e.reported
<1> DEFINE rep == DOMAIN c.hits # {} \/ all_chains
           e   == Summary(k, c)
<1>1. rep \in BOOLEAN
  OBVIOUS
<1>2. Band(DOMAIN c.hits) # Low => rep
  BY EmptyBand
<1>3. e = [id |-> c.id, key |-> k, severity |-> Band(DOMAIN c.hits), reported |-> rep,
           first_ts |-> c.first_ts, last_ts |-> c.last_ts]
  BY DEF Summary
<1>4. Band(DOMAIN c.hits) \in Severity
  BY BandMonotone
<1> HIDE DEF rep, e
<1>5. e \in Summaries(n)
  BY <1>1, <1>3, <1>4 DEF ChainOf, Summaries
<1>6. e.id = c.id /\ e.severity = Band(DOMAIN c.hits)
  BY <1>3
<1>7. e.reported = rep
  BY <1>3, Zenon
<1>8. Band(DOMAIN c.hits) # Low => e.reported
  BY <1>2, <1>7
<1>9. QED
  BY <1>5, <1>6, <1>8 DEF e

\* A summary once typed stays so as chains are opened.
LEMMA SummariesMonotone ==
  ASSUME NEW m \in Nat, NEW n \in Nat, m <= n
  PROVE  Summaries(m) \subseteq Summaries(n)
BY DEF Summaries

-----------------------------------------------------------------------------
(* The invariant is inductive.                                             *)

\* The engine starts in the invariant.
LEMMA InitIInv == Init => IInv
<1> SUFFICES ASSUME Init PROVE IInv
  OBVIOUS
<1>1. /\ DOMAIN chains = {} /\ DOMAIN level = {} /\ ended = {} /\ next_id = 0
      /\ last_sweep = 0 /\ alerts = 0 /\ fed = 0 /\ clock = 0 /\ phase = "running"
  BY DEF Init
<1>2. level \in [1..next_id -> Severity]
  BY DEF Init
<1>3. TypeOK
  BY <1>1, <1>2 DEF TypeOK
<1>4. AlertedIsBand /\ LevelIsAlerted /\ SummaryMatchesAlerts
  BY <1>1 DEF AlertedIsBand, LevelIsAlerted, SummaryMatchesAlerts
<1>5. EveryChainAccounted
  BY <1>1 DEF EveryChainAccounted
<1>6. QED
  BY <1>3, <1>4, <1>5 DEF IInv

\* Handling one event keeps the invariant.
LEMMA HandleStep ==
  ASSUME IInv, NEW in \in Resolved, NEW found, IsFound(found), NEW ts \in Nat,
         Handle(in, found, ts)
  PROVE  IInv'
<1> DEFINE a    == After(in, found, ts)
           kept == DOMAIN chains \ Idle(ts)
           new  == IsNew(in, ts)
<1>1. TypeOK /\ AlertedIsBand /\ LevelIsAlerted /\ EveryChainAccounted /\ SummaryMatchesAlerts
  BY DEF IInv
<1>2. /\ Idle(ts) \subseteq DOMAIN chains
      /\ in.key \in Key
      /\ DOMAIN chains \subseteq Key
      /\ next_id \in Nat
  BY <1>1 DEF Idle, Resolved, TypeOK
<1>3. new <=> in.key \notin kept
  BY DEF IsNew
<1>4. next_id' = IF new THEN next_id + 1 ELSE next_id
  BY HandleStages
<1>5. next_id' \in Nat /\ next_id <= next_id'
  BY <1>2, <1>4
<1>6. /\ ChainOf(next_id', a)
      /\ a.id = IF new THEN next_id + 1 ELSE chains[in.key].id
      /\ a.alerted = Band(DOMAIN a.hits)
  BY <1>1, <1>4, AfterFacts
<1>7. /\ DOMAIN chains' = kept \cup {in.key}
      /\ chains'[in.key] = a
      /\ \A k \in kept \ {in.key} : chains'[k] = chains[k]
  <2>1. chains' = [k \in kept \cup {in.key} |-> IF k = in.key THEN a ELSE chains[k]]
    BY HandleStages
  <2> HIDE DEF a, kept
  <2>2. QED
    BY <2>1
<1>8. \A k \in DOMAIN chains : ChainOf(next_id, chains[k])
  BY <1>1, IsChainOf DEF TypeOK
<1>9. a.id \in 1..next_id'
  BY <1>6 DEF ChainOf
<1>10. /\ level' \in [1..next_id' -> Severity]
       /\ level'[a.id] = a.alerted
       /\ \A i \in 1..next_id : i # a.id => level'[i] = level[i]
  <2> DEFINE alert == Alerts(in, found, ts)
  <2>1. level' = [i \in 1..next_id' |->
                    IF i = a.id /\ alert THEN Band(DOMAIN a.hits)
                    ELSE IF i \in DOMAIN level THEN level[i]
                    ELSE Low]
    BY HandleStages
  <2>2. level \in [1..next_id -> Severity]
    BY <1>1 DEF TypeOK
  <2>3. Band(DOMAIN a.hits) \in Severity /\ Low \in Severity
    BY BandMonotone DEF Severity, Low
  <2>4. ~alert => a.alerted = IF new THEN Low ELSE chains[in.key].alerted
    BY <1>1, AfterFacts
  <2>5. ~new => chains[in.key].id \in 1..next_id /\ level[chains[in.key].id] = chains[in.key].alerted
    BY <1>1, <1>3, <1>8 DEF ChainOf, LevelIsAlerted
  <2> HIDE DEF alert, a, new, kept
  <2>6. level' \in [1..next_id' -> Severity]
    BY <2>1, <2>2, <2>3
  <2>7. \A i \in 1..next_id : i # a.id => level'[i] = level[i]
    <3>1. DOMAIN level = 1..next_id /\ 1..next_id \subseteq 1..next_id'
      BY <1>2, <1>5, <2>2
    <3>2. SUFFICES ASSUME NEW i \in 1..next_id, i # a.id PROVE level'[i] = level[i]
      OBVIOUS
    <3>3. i \in 1..next_id' /\ i \in DOMAIN level
      BY <3>1
    <3>4. QED
      BY <2>1, <3>2, <3>3
  <2>8. level'[a.id] = a.alerted
    <3>1. CASE alert
      <4>1. level'[a.id] = Band(DOMAIN a.hits)
        BY <1>9, <2>1, <3>1
      <4>2. QED
        BY <1>6, <4>1
    <3>2. CASE ~alert /\ new
      <4>1. a.id \notin DOMAIN level
        BY <1>2, <1>6, <2>2, <3>2
      <4>2. level'[a.id] = Low
        BY <1>9, <2>1, <3>2, <4>1
      <4>3. QED
        BY <2>4, <3>2, <4>2
    <3>3. CASE ~alert /\ ~new
      <4>1. a.id \in DOMAIN level
        BY <1>6, <2>2, <2>5, <3>3
      <4>2. level'[a.id] = level[a.id]
        BY <1>9, <2>1, <3>3, <4>1
      <4>3. QED
        BY <1>6, <2>4, <2>5, <3>3, <4>2
    <3>4. QED
      BY <3>1, <3>2, <3>3
  <2>9. QED
    BY <2>6, <2>7, <2>8
<1>11. /\ ended \subseteq Summaries(next_id)
       /\ ended' = ended \cup {Summary(k, chains[k]) : k \in Idle(ts)}
       /\ \A k \in Idle(ts) : /\ Summary(k, chains[k]) \in Summaries(next_id)
                              /\ Summary(k, chains[k]).id = chains[k].id
                              /\ Summary(k, chains[k]).severity = chains[k].alerted
                              /\ chains[k].alerted # Low => Summary(k, chains[k]).reported
  <2>1. ended \subseteq Summaries(next_id)
    BY <1>1 DEF TypeOK, Summaries
  <2>2. ended' = ended \cup {Summary(k, chains[k]) : k \in Idle(ts)}
    BY HandleStages
  <2>3. ASSUME NEW k \in Idle(ts)
        PROVE  /\ Summary(k, chains[k]) \in Summaries(next_id)
               /\ Summary(k, chains[k]).id = chains[k].id
               /\ Summary(k, chains[k]).severity = chains[k].alerted
               /\ chains[k].alerted # Low => Summary(k, chains[k]).reported
    <3>1. k \in Key /\ ChainOf(next_id, chains[k])
      BY <1>2, <1>8
    <3>2. chains[k].alerted = Band(DOMAIN chains[k].hits)
      BY <1>1, <1>2 DEF AlertedIsBand
    <3>3. QED
      BY <1>2, <3>1, <3>2, SummaryFacts
  <2>4. QED
    BY <2>1, <2>2, <2>3
<1>12. phase = "running" /\ phase' = "running"
  BY HandleStages
\* No other chain, open or closed, has the id of the event's chain.
<1>13. /\ \A k \in DOMAIN chains \ {in.key} : chains[k].id # a.id
       /\ in.key \in Idle(ts) => chains[in.key].id # a.id
       /\ \A e \in ended : e.id # a.id
  <2>1. \A k \in DOMAIN chains : chains[k].id \in 1..next_id
    BY <1>8 DEF ChainOf
  <2>2. \A e \in ended : e.id \in 1..next_id
    BY <1>11 DEF Summaries
  <2>3. \A j, k \in DOMAIN chains : chains[j].id = chains[k].id => j = k
    BY <1>1 DEF EveryChainAccounted
  <2>4. \A k \in DOMAIN chains, e \in ended : chains[k].id # e.id
    BY <1>1 DEF EveryChainAccounted
  <2> HIDE DEF a
  <2>5. CASE new
    <3>1. a.id = next_id + 1
      BY <1>6, <2>5
    <3>2. a.id \notin 1..next_id
      BY <1>2, <3>1
    <3>3. QED
      BY <1>2, <2>1, <2>2, <3>2
  <2>6. CASE ~new
    <3>1. in.key \in DOMAIN chains /\ in.key \notin Idle(ts) /\ a.id = chains[in.key].id
      BY <1>3, <1>6, <2>6
    <3>2. QED
      BY <2>3, <2>4, <3>1
  <2>7. QED
    BY <2>5, <2>6
<1> HIDE DEF a, new
<1>14. TypeOK'
  <2>1. DOMAIN chains' \subseteq Key
    BY <1>2, <1>7
  <2>2. ASSUME NEW k \in DOMAIN chains' PROVE IsChain(chains[k])'
    <3>1. CASE k = in.key
      BY <1>6, <1>7, <3>1, IsChainOf
    <3>2. CASE k # in.key
      <4>1. k \in DOMAIN chains /\ chains'[k] = chains[k]
        BY <1>7, <3>2
      <4>2. ChainOf(next_id', chains'[k])
        BY <1>2, <1>5, <1>8, <4>1, ChainOfMonotone
      <4>3. QED
        BY <4>2, IsChainOf
    <3>3. QED
      BY <3>1, <3>2
  <2>3. last_sweep' \in Nat /\ alerts' \in Nat /\ fed' \in Nat /\ clock' \in Nat
    <3>1. /\ last_sweep' \in {last_sweep, ts} /\ alerts' \in {alerts, alerts + 1}
          /\ fed' = fed + 1 /\ clock' \in {clock, ts}
      BY HandleStages
    <3>2. last_sweep \in Nat /\ alerts \in Nat /\ fed \in Nat /\ clock \in Nat
      BY <1>1 DEF TypeOK
    <3>3. QED
      BY <3>1, <3>2
  <2>4. ended' \subseteq Summaries(next_id')
    BY <1>2, <1>5, <1>11, SummariesMonotone
  <2>5. QED
    BY <1>5, <1>10, <1>12, <2>1, <2>2, <2>3, <2>4 DEF TypeOK, Summaries
<1>15. AlertedIsBand'
  BY <1>1, <1>6, <1>7 DEF AlertedIsBand
<1>16. LevelIsAlerted'
  <2>1. ASSUME NEW k \in DOMAIN chains' PROVE level'[chains'[k].id] = chains'[k].alerted
    <3>1. CASE k = in.key
      BY <1>7, <1>10, <3>1
    <3>2. CASE k # in.key
      <4>1. k \in DOMAIN chains /\ chains'[k] = chains[k]
        BY <1>7, <3>2
      <4>2. chains[k].id \in 1..next_id /\ chains[k].id # a.id
        BY <1>8, <1>13, <3>2, <4>1 DEF ChainOf
      <4>3. level[chains[k].id] = chains[k].alerted
        BY <1>1, <4>1 DEF LevelIsAlerted
      <4>4. QED
        BY <1>10, <4>1, <4>2, <4>3
    <3>3. QED
      BY <3>1, <3>2
  <2>2. QED
    BY <2>1 DEF LevelIsAlerted
<1>17. EveryChainAccounted'
  <2>1. \A j, k \in DOMAIN chains' : chains'[j].id = chains'[k].id => j = k
    BY <1>1, <1>7, <1>13 DEF EveryChainAccounted
  <2>2. \A d, e \in ended' : d.id = e.id => d = e
    BY <1>1, <1>2, <1>11 DEF EveryChainAccounted
  <2>3. \A k \in DOMAIN chains', e \in ended' : chains'[k].id # e.id
    BY <1>1, <1>2, <1>7, <1>11, <1>13 DEF EveryChainAccounted
  <2>4. {chains'[k].id : k \in DOMAIN chains'} \cup {e.id : e \in ended'} = 1..next_id'
    <3>1. {chains[k].id : k \in DOMAIN chains} \cup {e.id : e \in ended} = 1..next_id
      BY <1>1, <1>12 DEF EveryChainAccounted
    <3>2. \A k \in DOMAIN chains' : chains'[k].id \in 1..next_id'
      BY <1>2, <1>5, <1>7, <1>8, <1>9 DEF ChainOf
    <3>3. \A e \in ended' : e.id \in 1..next_id'
      BY <1>2, <1>5, <1>11, SummariesMonotone DEF Summaries
    <3>4. ASSUME NEW i \in 1..next_id'
          PROVE  (\E k \in DOMAIN chains' : chains'[k].id = i) \/ (\E e \in ended' : e.id = i)
      <4>1. CASE i = a.id
        BY <1>7, <4>1
      <4>2. CASE i # a.id
        <5>1. i \in 1..next_id
          BY <1>2, <1>4, <1>6, <4>2
        <5>2. (\E k \in DOMAIN chains : chains[k].id = i) \/ (\E e \in ended : e.id = i)
          BY <3>1, <5>1
        <5>3. CASE \E e \in ended : e.id = i
          BY <1>11, <5>3
        <5>4. CASE \E k \in DOMAIN chains : chains[k].id = i
          <6>1. PICK k \in DOMAIN chains : chains[k].id = i
            BY <5>4
          <6>2. CASE k \in Idle(ts)
            BY <1>11, <6>1, <6>2
          <6>3. CASE k \notin Idle(ts)
            <7>1. k # in.key
              BY <1>3, <1>6, <4>2, <6>1, <6>3
            <7>2. QED
              BY <1>7, <6>1, <6>3, <7>1
          <6>4. QED
            BY <6>2, <6>3
        <5>5. QED
          BY <5>2, <5>3, <5>4
      <4>3. QED
        BY <4>1, <4>2
    <3>5. QED
      BY <3>2, <3>3, <3>4
  <2>5. QED
    BY <2>1, <2>2, <2>3, <2>4 DEF EveryChainAccounted
<1>18. SummaryMatchesAlerts'
  <2>1. ASSUME NEW e \in ended
        PROVE  /\ e.severity = level'[e.id]
               /\ level'[e.id] # Low => e.reported
    <3>1. e.id \in 1..next_id /\ e.id # a.id
      BY <1>11, <1>13 DEF Summaries
    <3>2. level'[e.id] = level[e.id]
      BY <1>10, <3>1
    <3>3. QED
      BY <1>1, <3>2 DEF SummaryMatchesAlerts
  <2>2. ASSUME NEW k \in Idle(ts), NEW e, e = Summary(k, chains[k])
        PROVE  /\ e.severity = level'[e.id]
               /\ level'[e.id] # Low => e.reported
    <3>1. /\ e.id = chains[k].id /\ e.severity = chains[k].alerted
          /\ chains[k].alerted # Low => e.reported
      BY <1>11, <2>2
    <3>2. chains[k].id \in 1..next_id /\ chains[k].id # a.id
      BY <1>2, <1>8, <1>13 DEF ChainOf
    <3>3. level'[chains[k].id] = chains[k].alerted
      BY <1>1, <1>2, <1>10, <3>2 DEF LevelIsAlerted
    <3>4. QED
      BY <3>1, <3>3
  <2>3. \A e \in ended' : e \in ended \/ \E k \in Idle(ts) : e = Summary(k, chains[k])
    BY <1>11
  <2>4. QED
    BY <2>1, <2>2, <2>3 DEF SummaryMatchesAlerts
<1>19. QED
  BY <1>14, <1>15, <1>16, <1>17, <1>18 DEF IInv

\* Closing the open chains keeps it, when all of them are summed up and, after
\* an error, when only some are.
LEMMA ClosingStep ==
  ASSUME IInv, phase = "running", NEW S \in SUBSET DOMAIN chains,
         chains' = <<>>,
         ended' = ended \cup {Summary(k, chains[k]) : k \in S},
         phase' \in {"finished", "failed"},
         phase' = "finished" => S = DOMAIN chains,
         UNCHANGED <<next_id, last_sweep, alerts, fed, clock, level>>
  PROVE  IInv'
<1>1. TypeOK /\ AlertedIsBand /\ LevelIsAlerted /\ EveryChainAccounted /\ SummaryMatchesAlerts
  BY DEF IInv
<1>2. DOMAIN chains' = {}
  OBVIOUS
<1>3. /\ ended \subseteq Summaries(next_id)
      /\ \A k \in DOMAIN chains :
           /\ Summary(k, chains[k]) \in Summaries(next_id)
           /\ Summary(k, chains[k]).id = chains[k].id
           /\ Summary(k, chains[k]).severity = chains[k].alerted
           /\ chains[k].alerted # Low => Summary(k, chains[k]).reported
  <2>1. ended \subseteq Summaries(next_id)
    BY <1>1 DEF TypeOK, Summaries
  <2>2. ASSUME NEW k \in DOMAIN chains
        PROVE  /\ Summary(k, chains[k]) \in Summaries(next_id)
               /\ Summary(k, chains[k]).id = chains[k].id
               /\ Summary(k, chains[k]).severity = chains[k].alerted
               /\ chains[k].alerted # Low => Summary(k, chains[k]).reported
    <3>1. k \in Key /\ ChainOf(next_id, chains[k]) /\ next_id \in Nat
      BY <1>1, IsChainOf DEF TypeOK
    <3>2. chains[k].alerted = Band(DOMAIN chains[k].hits)
      BY <1>1 DEF AlertedIsBand
    <3>3. QED
      BY <3>1, <3>2, SummaryFacts
  <2>3. QED
    BY <2>1, <2>2
<1>4. TypeOK'
  BY <1>1, <1>2, <1>3 DEF TypeOK, Summaries
<1>5. AlertedIsBand' /\ LevelIsAlerted'
  BY <1>2 DEF AlertedIsBand, LevelIsAlerted
<1>6. EveryChainAccounted'
  <2>1. \A d, e \in ended' : d.id = e.id => d = e
    BY <1>1, <1>2, <1>3 DEF EveryChainAccounted
  <2>2. ASSUME S = DOMAIN chains
        PROVE  {e.id : e \in ended'} = 1..next_id
    <3>1. {chains[k].id : k \in DOMAIN chains} \cup {e.id : e \in ended} = 1..next_id
      BY <1>1 DEF EveryChainAccounted
    <3>2. \A e \in ended' : e.id \in 1..next_id
      BY <1>2, <1>3 DEF Summaries
    <3>3. \A i \in 1..next_id : \E e \in ended' : e.id = i
      BY <1>3, <2>2, <3>1
    <3>4. QED
      BY <3>2, <3>3
  <2>3. {chains'[k].id : k \in DOMAIN chains'} = {}
    BY <1>2
  <2>4. QED
    BY <1>2, <2>1, <2>2, <2>3 DEF EveryChainAccounted
<1>7. SummaryMatchesAlerts'
  <2>1. \A k \in DOMAIN chains : level[chains[k].id] = chains[k].alerted
    BY <1>1 DEF LevelIsAlerted
  <2>2. QED
    BY <1>1, <1>2, <1>3, <2>1 DEF SummaryMatchesAlerts
<1>8. QED
  BY <1>4, <1>5, <1>6, <1>7 DEF IInv

\* So the end of the input keeps it.
LEMMA FinishStep ==
  ASSUME IInv, Finish
  PROVE  IInv'
BY ClosingStep DEF Finish

\* And so does leaving on an error.
LEMMA FailStep ==
  ASSUME IInv, Fail
  PROVE  IInv'
<1>1. PICK S \in SUBSET DOMAIN chains : ended' = ended \cup {Summary(k, chains[k]) : k \in S}
  BY DEF Fail
<1>2. QED
  BY <1>1, ClosingStep DEF Fail

\* And so does doing nothing.
LEMMA StutterStep ==
  ASSUME IInv, UNCHANGED vars
  PROVE  IInv'
<1>1. /\ chains' = chains /\ next_id' = next_id /\ last_sweep' = last_sweep
      /\ alerts' = alerts /\ phase' = phase /\ fed' = fed /\ clock' = clock
      /\ level' = level /\ ended' = ended
  BY DEF vars
<1>2. TypeOK'
  <2>1. TypeOK
    BY DEF IInv
  <2>2. QED
    BY <1>1, <2>1, IsChainOf DEF TypeOK
<1>3. QED
  BY <1>1, <1>2 DEF IInv, AlertedIsBand, LevelIsAlerted, EveryChainAccounted,
                    SummaryMatchesAlerts

\* Whatever is fed to the engine, in whatever order and with whatever lag, the
\* inductive invariant holds.
THEOREM ChainsInvariant == Spec => []IInv
<1>1. Init => IInv
  BY InitIInv
<1>2. IInv /\ [Next]_vars => IInv'
  <2> SUFFICES ASSUME IInv, [Next]_vars PROVE IInv'
    OBVIOUS
  <2>1. ASSUME NEW in \in Inputs, NEW found \in FoundSets, NEW ts \in 1..MaxTs,
               Process(in, found, ts)
        PROVE  IInv'
    <3>1. in \in Resolved /\ IsFound(found) /\ ts \in Nat
      BY ChainsSpecAssumption
    <3>2. Handle(in, found, ts)
      BY <2>1 DEF Process
    <3>3. QED
      BY <3>1, <3>2, HandleStep
  <2>2. CASE Finish
    BY <2>2, FinishStep
  <2>3. CASE Fail
    BY <2>3, FailStep
  <2>4. CASE UNCHANGED vars
    BY <2>4, StutterStep
  <2>5. QED
    BY <2>1, <2>2, <2>3, <2>4 DEF Next
<1>3. QED
  BY <1>1, <1>2, PTL DEF Spec

\* The engine's state stays typed.
THEOREM ChainsTyped == Spec => []TypeOK
<1>1. IInv => TypeOK
  BY DEF IInv
<1>2. QED
  BY <1>1, ChainsInvariant, PTL

\* Between events every open chain has been alerted to exactly the band its
\* hits score: no band is missed, however hits arrive.
THEOREM AlertsFollowBands == Spec => []AlertedIsBand
<1>1. IInv => AlertedIsBand
  BY DEF IInv
<1>2. QED
  BY <1>1, ChainsInvariant, PTL

\* Ids are unique over open and closed chains, and none is lost but by failure.
THEOREM ChainsAccounted == Spec => []EveryChainAccounted
<1>1. IInv => EveryChainAccounted
  BY DEF IInv
<1>2. QED
  BY <1>1, ChainsInvariant, PTL

\* A summary repeats the severity its chain was last alerted at.
THEOREM SummariesTrue == Spec => []SummaryMatchesAlerts
<1>1. IInv => SummaryMatchesAlerts
  BY DEF IInv
<1>2. QED
  BY <1>1, ChainsInvariant, PTL

-----------------------------------------------------------------------------
(* The engine implements AlertFeed.                                        *)

\* A Handle step is a delivery of the feed.
LEMMA HandleDelivers ==
  ASSUME IInv, NEW in \in Resolved, NEW found, IsFound(found), NEW ts \in Nat,
         Handle(in, found, ts)
  PROVE  Feed!Deliver
<1> DEFINE a     == After(in, found, ts)
           new   == IsNew(in, ts)
           alert == Alerts(in, found, ts)
           shut  == {e.id : e \in ended}
           shut2 == {e.id : e \in ended'}
<1>1. TypeOK /\ AlertedIsBand /\ LevelIsAlerted /\ EveryChainAccounted
  BY DEF IInv
<1>2. IInv'
  BY HandleStep
<1>3. next_id \in Nat /\ next_id' = IF new THEN next_id + 1 ELSE next_id
  BY <1>1, HandleStages DEF TypeOK
<1>4. phase = "running" /\ UNCHANGED phase
  BY HandleStages
<1>5. shut \subseteq shut2 /\ shut2 \subseteq 1..next_id
  <2>1. ended' = ended \cup {Summary(k, chains[k]) : k \in Idle(ts)}
    BY HandleStages
  <2>2. \A e \in ended : e.id \in 1..next_id
    BY <1>1 DEF TypeOK
  <2>3. \A k \in Idle(ts) : Summary(k, chains[k]).id \in 1..next_id
    <3>1. \A k \in DOMAIN chains : chains[k].id \in 1..next_id
      BY <1>1 DEF TypeOK, IsChain
    <3>2. QED
      BY <3>1 DEF Summary, Idle
  <2>4. QED
    BY <2>1, <2>2, <2>3
<1>6. /\ a.id \in 1..next_id'
      /\ a.id = IF new THEN next_id + 1 ELSE chains[in.key].id
      /\ a.alerted = Band(DOMAIN a.hits)
      /\ alert => a.alerted >= Medium /\ a.alerted > (IF new THEN Low ELSE chains[in.key].alerted)
      /\ a.alerted \in Severity
  <2>1. /\ ChainOf(next_id', a)
        /\ a.id = IF new THEN next_id + 1 ELSE chains[in.key].id
        /\ a.alerted = Band(DOMAIN a.hits)
        /\ alert => a.alerted >= Medium /\ a.alerted > (IF new THEN Low ELSE chains[in.key].alerted)
    BY <1>1, <1>3, AfterFacts
  <2> HIDE DEF a
  <2>2. QED
    BY <2>1 DEF ChainOf
<1>7. level \in [1..next_id -> Severity]
  BY <1>1 DEF TypeOK
<1>8. level' = [i \in 1..next_id' |-> IF i = a.id /\ alert THEN a.alerted
                                     ELSE IF i \in 1..next_id THEN level[i] ELSE Low]
  <2>1. level' = [i \in 1..next_id' |-> IF i = a.id /\ alert THEN Band(DOMAIN a.hits)
                                        ELSE IF i \in DOMAIN level THEN level[i] ELSE Low]
    BY HandleStages
  <2>2. DOMAIN level = 1..next_id
    BY <1>7
  <2> HIDE DEF a, alert
  <2>3. QED
    BY <1>6, <2>1, <2>2
<1>9. alerts' = IF alert THEN alerts + 1 ELSE alerts
  BY HandleStages
<1>10. chains'[in.key] = a /\ in.key \in DOMAIN chains'
  <2>1. chains' = [k \in (DOMAIN chains \ Idle(ts)) \cup {in.key} |->
                      IF k = in.key THEN a ELSE chains[k]]
    BY HandleStages
  <2> HIDE DEF a
  <2>2. QED
    BY <2>1
<1>11. a.id \notin shut2
  <2>1. EveryChainAccounted'
    BY <1>2 DEF IInv
  <2>2. {chains'[k].id : k \in DOMAIN chains'} \cap shut2 = {}
    BY <2>1 DEF EveryChainAccounted
  <2> HIDE DEF a, shut2
  <2>3. QED
    BY <1>10, <2>2
<1>12. ~new => chains[in.key].id \in 1..next_id /\ level[chains[in.key].id] = chains[in.key].alerted
  BY <1>1 DEF IsNew, TypeOK, IsChain, LevelIsAlerted
<1> HIDE DEF a, new, alert, shut, shut2
<1>13. Feed!Keep(next_id') = [i \in 1..next_id' |-> IF i \in 1..next_id THEN level[i] ELSE Low]
  BY DEF Feed!Keep
<1>14. CASE ~alert
  <2>1. level' = Feed!Keep(next_id') /\ alerts' = alerts
    BY <1>8, <1>9, <1>13, <1>14
  <2>2. QED
    BY <1>3, <1>4, <1>5, <2>1 DEF Feed!Deliver, shut, shut2
<1>15. CASE alert
  <2>1. a.alerted \in Medium..Critical
    BY <1>6, <1>15 DEF Severity, Medium, Critical
  <2>2. a.id \in (1..next_id') \ shut2
    BY <1>6, <1>11
  <2>3. a.alerted > Feed!Keep(next_id')[a.id]
    <3>1. CASE new
      <4>1. a.id \notin 1..next_id
        BY <1>3, <1>6, <3>1
      <4>2. Feed!Keep(next_id')[a.id] = Low
        BY <1>6, <1>13, <4>1
      <4>3. QED
        BY <1>6, <1>15, <3>1, <4>2
    <3>2. CASE ~new
      <4>1. a.id \in 1..next_id /\ level[a.id] = chains[in.key].alerted
        BY <1>6, <1>12, <3>2
      <4>2. Feed!Keep(next_id')[a.id] = chains[in.key].alerted
        BY <1>6, <1>13, <4>1
      <4>3. QED
        BY <1>6, <1>15, <3>2, <4>2
    <3>3. QED
      BY <3>1, <3>2
  <2>4. level' = [Feed!Keep(next_id') EXCEPT ![a.id] = a.alerted]
    BY <1>6, <1>8, <1>13, <1>15
  <2>5. alerts' = alerts + 1
    BY <1>9, <1>15
  <2>6. \E i \in 1..next_id' : Feed!Raise(next_id', i)
    BY <1>6, <2>1, <2>2, <2>3, <2>4, <2>5 DEF Feed!Raise, shut2
  <2>7. QED
    BY <1>3, <1>4, <1>5, <2>6 DEF Feed!Deliver, shut, shut2
<1>16. QED
  BY <1>14, <1>15

\* Finishing closes every chain and ends the feed.
LEMMA FinishEnds ==
  ASSUME IInv, Finish
  PROVE  Feed!End
<1>1. TypeOK /\ EveryChainAccounted
  BY DEF IInv
<1>2. /\ phase = "running" /\ phase' = "finished"
      /\ ended' = ended \cup {Summary(k, chains[k]) : k \in DOMAIN chains}
      /\ next_id' = next_id /\ level' = level /\ alerts' = alerts
  BY DEF Finish
<1>3. {chains[k].id : k \in DOMAIN chains} \cup {e.id : e \in ended} = 1..next_id
  BY <1>1, <1>2 DEF EveryChainAccounted
<1>4. {e.id : e \in ended'} = 1..next_id
  <2>1. \A k \in DOMAIN chains : Summary(k, chains[k]).id = chains[k].id
    BY DEF Summary
  <2>2. \A i \in 1..next_id : \E e \in ended' : e.id = i
    BY <1>2, <1>3, <2>1
  <2>3. \A e \in ended' : e.id \in 1..next_id
    BY <1>2, <1>3, <2>1
  <2>4. QED
    BY <2>2, <2>3
<1>5. QED
  BY <1>2, <1>4 DEF Feed!End

\* Failing closes some of them and cuts it short.
LEMMA FailCuts ==
  ASSUME IInv, Fail
  PROVE  Feed!Cut
<1>1. PICK S \in SUBSET DOMAIN chains : ended' = ended \cup {Summary(k, chains[k]) : k \in S}
  BY DEF Fail
<1>2. \A e \in ended' : e.id \in 1..next_id
  <2>1. \A e \in ended : e.id \in 1..next_id
    BY DEF IInv, TypeOK
  <2>2. \A k \in DOMAIN chains : Summary(k, chains[k]).id \in 1..next_id
    BY DEF IInv, TypeOK, IsChain, Summary
  <2>3. QED
    BY <1>1, <2>1, <2>2
<1>3. {e.id : e \in ended} \subseteq {e.id : e \in ended'}
  BY <1>1
<1>4. {e.id : e \in ended'} \subseteq 1..next_id
  BY <1>2
<1>5. QED
  BY <1>3, <1>4 DEF Fail, Feed!Cut

\* The engine, whatever it is fed, behaves as AlertFeed promises: alerts about a
\* chain only ever rise, none comes after its summary, and every chain opened
\* is summed up once when the input ends.
THEOREM EngineKeepsFeed == Spec => KeepsFeed
<1>1. Init => Feed!FeedInit
  BY DEF Init, Feed!FeedInit
<1>2. IInv /\ [Next]_vars => [Feed!FeedNext]_(Feed!feedVars)
  <2> SUFFICES ASSUME IInv, [Next]_vars PROVE [Feed!FeedNext]_(Feed!feedVars)
    OBVIOUS
  <2>1. ASSUME NEW in \in Inputs, NEW found \in FoundSets, NEW ts \in 1..MaxTs,
               Process(in, found, ts)
        PROVE  Feed!Deliver
    <3>1. in \in Resolved /\ IsFound(found) /\ ts \in Nat
      BY ChainsSpecAssumption
    <3>2. Handle(in, found, ts)
      BY <2>1 DEF Process
    <3>3. QED
      BY <3>1, <3>2, HandleDelivers
  <2>2. Finish => Feed!End
    BY FinishEnds
  <2>3. Fail => Feed!Cut
    BY FailCuts
  <2>4. UNCHANGED vars => UNCHANGED Feed!feedVars
    BY DEF vars, Feed!feedVars
  <2>5. QED
    BY <2>1, <2>2, <2>3, <2>4 DEF Next, Feed!FeedNext
<1>3. QED
  BY <1>1, <1>2, ChainsInvariant, PTL DEF Spec, KeepsFeed, Feed!FeedSpec

-----------------------------------------------------------------------------
(***************************************************************************)
(* Time and the order of the hits: when chains close, when evidence is     *)
(* split, and what a hit follows, for every skew up to the timeout.        *)
(***************************************************************************)

(* The fields of the event's chain, stage by stage.                        *)

\* The findings with C1 among them when the chain opens with it.
Findings(in, found, ts) ==
  [r \in DOMAIN found \cup Opening(in, ts) |->
     IF r \in Opening(in, ts) THEN NoTactic ELSE found[r]]

LEMMA AttributedFields ==
  ASSUME TypeOK, AlertedIsBand, NEW in \in Resolved, NEW ts \in Nat
  PROVE  LET b == Attributed(in, ts) IN
         /\ DOMAIN b = ChainFields
         /\ b.hits = IF IsNew(in, ts) THEN <<>> ELSE chains[in.key].hits
         /\ b.first_secret = IF IsNew(in, ts) THEN Never ELSE chains[in.key].first_secret
         /\ b.first_ts = IF IsNew(in, ts) THEN ts ELSE chains[in.key].first_ts
<1> DEFINE c == IF IsNew(in, ts) THEN NewChain(next_id + 1, in, ts) ELSE chains[in.key]
           b == Attributed(in, ts)
<1>1. DOMAIN c = ChainFields
  <2>1. CASE IsNew(in, ts)
    BY <2>1 DEF NewChain, ChainFields
  <2>2. CASE ~IsNew(in, ts)
    BY <2>2 DEF IsNew, TypeOK, IsChain, ChainFields
  <2>3. QED
    BY <2>1, <2>2
<1>2. b = [c EXCEPT !.uid   = IF @ = NoUid THEN in.uid ELSE @,
                    !.build = @ \/ in.build]
  BY DEF Attributed
<1>3. /\ c.hits = IF IsNew(in, ts) THEN <<>> ELSE chains[in.key].hits
      /\ c.first_secret = IF IsNew(in, ts) THEN Never ELSE chains[in.key].first_secret
      /\ c.first_ts = IF IsNew(in, ts) THEN ts ELSE chains[in.key].first_ts
  BY DEF NewChain
<1> HIDE DEF c, b
<1>4. DOMAIN b = ChainFields /\ b.hits = c.hits /\ b.first_secret = c.first_secret
      /\ b.first_ts = c.first_ts
  BY <1>1, <1>2 DEF ChainFields
<1>5. QED
  BY <1>3, <1>4 DEF b

LEMMA AfterFields ==
  ASSUME TypeOK, AlertedIsBand, NEW in \in Resolved, NEW found, NEW ts \in Nat
  PROVE  LET b == Attributed(in, ts)
             h == Record(b.hits, Findings(in, found, ts), ts)
             a == After(in, found, ts)
         IN  /\ a.first_ts = b.first_ts /\ a.last_ts = ts
             /\ a.first_secret = IF b.first_secret = Never /\ {"F1", "L8"} \cap DOMAIN found # {}
                                 THEN ts ELSE b.first_secret
             /\ a.hits = IF /\ DOMAIN h # DOMAIN b.hits /\ "C3" \notin DOMAIN h
                            /\ Progression(h) # <<>>
                         THEN Record(h, [r \in {"C3"} |-> NoTactic], ts)
                         ELSE h
<1> DEFINE b == Attributed(in, ts)
           f == Findings(in, found, ts)
           h == Record(b.hits, f, ts)
           d == NotedIn(in, found, ts)
           w == WithC3(d, ts)
           s == Scored(in, found, ts)
           a == After(in, found, ts)
           n == [r \in {"C3"} |-> NoTactic]
<1>1. DOMAIN b = ChainFields
  BY AttributedFields
<1>2. d = [b EXCEPT
             !.hits = Record(@, f, ts),
             !.first_secret = IF @ = Never /\ {"F1", "L8"} \cap DOMAIN found # {} THEN ts ELSE @,
             !.written = IF in.action = "Write" THEN @ \cup ({in.path} \ {None}) ELSE @,
             !.last_ts = ts]
  BY DEF NotedIn, Noted, Findings
<1> HIDE DEF b, f, d
<1>3. /\ DOMAIN d = ChainFields /\ d.hits = h
      /\ d.first_ts = b.first_ts /\ d.last_ts = ts
      /\ d.first_secret = IF b.first_secret = Never /\ {"F1", "L8"} \cap DOMAIN found # {}
                          THEN ts ELSE b.first_secret
  BY <1>1, <1>2 DEF ChainFields
<1>4. NewHit(in, found, ts) <=> DOMAIN h # DOMAIN b.hits
  BY <1>3 DEF NewHit, b, d
<1>5. /\ DOMAIN w = ChainFields /\ w.first_ts = d.first_ts /\ w.last_ts = d.last_ts
      /\ w.first_secret = d.first_secret
      /\ w.hits = IF "C3" \notin DOMAIN d.hits /\ Progression(d.hits) # <<>>
                  THEN Record(d.hits, n, ts) ELSE d.hits
  <2>1. CASE "C3" \notin DOMAIN d.hits /\ Progression(d.hits) # <<>>
    <3>1. w = [d EXCEPT !.hits = Record(@, n, ts)]
      BY <2>1 DEF WithC3
    <3> HIDE DEF w, n
    <3>2. QED
      BY <1>3, <2>1, <3>1 DEF ChainFields
  <2>2. CASE ~("C3" \notin DOMAIN d.hits /\ Progression(d.hits) # <<>>)
    <3>1. w = d
      BY <2>2 DEF WithC3
    <3> HIDE DEF w, n
    <3>2. QED
      BY <1>3, <2>2, <3>1
  <2>3. QED
    BY <2>1, <2>2
<1>6. s = IF NewHit(in, found, ts) THEN w ELSE d
  BY DEF Scored, d
<1> HIDE DEF w, s, n, h
<1>7. /\ DOMAIN s = ChainFields /\ s.first_ts = d.first_ts /\ s.last_ts = d.last_ts
      /\ s.first_secret = d.first_secret
      /\ s.hits = IF /\ DOMAIN h # DOMAIN b.hits /\ "C3" \notin DOMAIN h
                     /\ Progression(h) # <<>>
                  THEN Record(h, n, ts) ELSE h
  BY <1>3, <1>4, <1>5, <1>6
<1>8. a = IF Alerts(in, found, ts) THEN [s EXCEPT !.alerted = Band(DOMAIN s.hits)] ELSE s
  BY DEF After, s
<1> HIDE DEF a
<1>9. /\ a.first_ts = s.first_ts /\ a.last_ts = s.last_ts
      /\ a.first_secret = s.first_secret /\ a.hits = s.hits
  BY <1>7, <1>8 DEF ChainFields
<1>10. QED
  BY <1>3, <1>7, <1>9 DEF a, b, f, h, n

\* A Handle step, by key.
LEMMA HandleKeys ==
  ASSUME NEW in, NEW found, NEW ts, Handle(in, found, ts)
  PROVE  /\ DOMAIN chains' = (DOMAIN chains \ Idle(ts)) \cup {in.key}
         /\ chains'[in.key] = After(in, found, ts)
         /\ \A k \in DOMAIN chains' \ {in.key} :
              k \in DOMAIN chains /\ k \notin Idle(ts) /\ chains'[k] = chains[k]
<1> DEFINE a == After(in, found, ts)
           kept == DOMAIN chains \ Idle(ts)
<1>1. chains' = [k \in kept \cup {in.key} |-> IF k = in.key THEN a ELSE chains[k]]
  BY HandleStages
<1> HIDE DEF a
<1>2. QED
  BY <1>1 DEF a

-----------------------------------------------------------------------------
(* Chains that fall silent close.                                          *)

\* A sweep is due before the newest event is SWEEP_NS past the last one...
Swept == last_sweep <= clock /\ clock < last_sweep + SWEEP_NS
\* ... and no chain that is open had been idle at the last one.
NoneIdle == \A k \in DOMAIN chains : chains[k].last_ts + IDLE_NS >= last_sweep

\* What time is to a step that handles an event.
LEMMA HandleTime ==
  ASSUME IInv, Swept, NEW in \in Inputs, NEW found \in FoundSets, NEW ts \in 1..MaxTs,
         Process(in, found, ts)
  PROVE  /\ in \in Resolved /\ IsFound(found) /\ ts \in Nat
         /\ Handle(in, found, ts) /\ TypeOK /\ AlertedIsBand
         /\ clock \in Nat /\ last_sweep \in Nat
         /\ IDLE_NS \in Nat /\ SWEEP_NS \in Nat \ {0} /\ Skew \in Nat
         /\ Skew <= IDLE_NS /\ ts + Skew >= clock
         /\ clock' = IF ts > clock THEN ts ELSE clock
         /\ last_sweep' = IF SweepDue(ts) THEN ts ELSE last_sweep
         /\ SweepDue(ts) <=> ts >= last_sweep + SWEEP_NS
         /\ Swept'
<1>1. in \in Resolved /\ IsFound(found) /\ ts \in Nat
  BY ChainsSpecAssumption
<1>2. Handle(in, found, ts) /\ ts + Skew >= clock
  BY DEF Process
<1>3. TypeOK /\ AlertedIsBand
  BY DEF IInv
<1>4. /\ IDLE_NS \in Nat /\ SWEEP_NS \in Nat \ {0} /\ Skew \in Nat /\ Skew <= IDLE_NS
      /\ clock \in Nat /\ last_sweep \in Nat
  BY <1>3, ChainsAssumption, ChainsSpecAssumption DEF TypeOK
<1>5. /\ clock' = (IF ts > clock THEN ts ELSE clock)
      /\ last_sweep' = IF SweepDue(ts) THEN ts ELSE last_sweep
      /\ SweepDue(ts) <=> ts >= last_sweep + SWEEP_NS
  BY <1>2, HandleStages DEF SweepDue
<1>6. Swept'
  BY <1>1, <1>4, <1>5 DEF Swept
<1>7. QED
  BY <1>1, <1>2, <1>3, <1>4, <1>5, <1>6

LEMMA NoneIdleStep ==
  ASSUME IInv, Swept, NoneIdle, NEW in \in Inputs, NEW found \in FoundSets, NEW ts \in 1..MaxTs,
         Process(in, found, ts)
  PROVE  NoneIdle'
<1>1. /\ in \in Resolved /\ IsFound(found) /\ ts \in Nat
      /\ Handle(in, found, ts) /\ TypeOK /\ AlertedIsBand
      /\ clock \in Nat /\ last_sweep \in Nat /\ IDLE_NS \in Nat /\ Skew \in Nat
      /\ Skew <= IDLE_NS /\ ts + Skew >= clock
      /\ last_sweep' = IF SweepDue(ts) THEN ts ELSE last_sweep
  BY HandleTime
<1>2. /\ chains'[in.key] = After(in, found, ts)
      /\ \A k \in DOMAIN chains' \ {in.key} :
           k \in DOMAIN chains /\ k \notin Idle(ts) /\ chains'[k] = chains[k]
  BY <1>1, HandleKeys
<1>3. chains'[in.key].last_ts = ts
  BY <1>1, <1>2, AfterFields
<1>4. ts + IDLE_NS >= last_sweep'
  BY <1>1 DEF Swept
<1>5. ASSUME NEW k \in DOMAIN chains' \ {in.key}
      PROVE  chains'[k].last_ts + IDLE_NS >= last_sweep'
  <2>1. k \in DOMAIN chains /\ k \notin Idle(ts) /\ chains'[k] = chains[k]
    BY <1>2
  <2>2. chains[k].last_ts \in Nat
    BY <1>1, <2>1 DEF TypeOK, IsChain
  <2>3. CASE SweepDue(ts)
    BY <1>1, <2>1, <2>2, <2>3 DEF Idle
  <2>4. CASE ~SweepDue(ts)
    BY <1>1, <2>1, <2>4 DEF NoneIdle
  <2>5. QED
    BY <2>3, <2>4
<1>6. QED
  BY <1>3, <1>4, <1>5 DEF NoneIdle

\* However far events lag, up to the timeout, no chain stays open once it has
\* been silent for IDLE_NS + SWEEP_NS of event time (lib.rs:135-147).
THEOREM SilenceCloses == Spec => []SilentChainsClose
<1> DEFINE TInv == Swept /\ NoneIdle
<1>1. Init => TInv
  BY ChainsAssumption DEF Init, Swept, NoneIdle
<1>2. IInv /\ TInv /\ [Next]_vars => TInv'
  <2> SUFFICES ASSUME IInv, TInv, [Next]_vars PROVE TInv'
    OBVIOUS
  <2>1. ASSUME NEW in \in Inputs, NEW found \in FoundSets, NEW ts \in 1..MaxTs,
               Process(in, found, ts)
        PROVE  TInv'
    BY <2>1, HandleTime, NoneIdleStep
  <2>2. CASE Finish \/ Fail
    <3>1. chains' = <<>> /\ clock' = clock /\ last_sweep' = last_sweep
      BY <2>2 DEF Finish, Fail
    <3>2. QED
      BY <3>1 DEF Swept, NoneIdle
  <2>3. CASE UNCHANGED vars
    BY <2>3 DEF vars, Swept, NoneIdle
  <2>4. QED
    BY <2>1, <2>2, <2>3 DEF Next
<1>3. IInv /\ TInv => SilentChainsClose
  <2> SUFFICES ASSUME IInv, TInv, NEW k \in DOMAIN chains
               PROVE  clock < chains[k].last_ts + IDLE_NS + SWEEP_NS
    BY DEF SilentChainsClose
  <2>1. clock \in Nat /\ last_sweep \in Nat /\ chains[k].last_ts \in Nat
    BY DEF IInv, TypeOK, IsChain
  <2>2. QED
    BY <2>1, ChainsAssumption DEF Swept, NoneIdle
<1> HIDE DEF TInv
<1>4. QED
  BY <1>1, <1>2, <1>3, ChainsInvariant, PTL DEF Spec

-----------------------------------------------------------------------------
(* Evidence is split only by silence.                                      *)

\* Of the chains of one key the open one is the last.
EndedFirst == \A e \in ended, k \in DOMAIN chains : e.key = k => e.id < chains[k].id
\* While the engine runs, a chain that was closed had been idle.
EndedIdle  == phase = "running" => \A e \in ended : e.last_ts + IDLE_NS < clock
\* SplitOnlyByIdleness, over the open and closed chains separately.
Apart(d, e) == d.key = e.key /\ d.id < e.id => e.first_ts + Skew > d.last_ts + IDLE_NS
Open        == {Summary(k, chains[k]) : k \in DOMAIN chains}

SpanInv == EndedFirst /\ EndedIdle /\ SplitOnlyByIdleness

\* The fields of a span.
LEMMA SpanFields ==
  ASSUME NEW k, NEW c
  PROVE  LET e == Summary(k, c) IN
         /\ e.id = c.id /\ e.key = k /\ e.first_ts = c.first_ts /\ e.last_ts = c.last_ts
BY DEF Summary

LEMMA SpanStep ==
  ASSUME IInv, Swept, SpanInv, NEW in \in Inputs, NEW found \in FoundSets, NEW ts \in 1..MaxTs,
         Process(in, found, ts)
  PROVE  SpanInv'
<1> DEFINE a   == After(in, found, ts)
           key == in.key
           A   == Summary(key, a)
           new == IsNew(in, ts)
<1>1. /\ in \in Resolved /\ IsFound(found) /\ ts \in Nat
      /\ Handle(in, found, ts) /\ TypeOK /\ AlertedIsBand
      /\ clock \in Nat /\ IDLE_NS \in Nat /\ Skew \in Nat
      /\ Skew <= IDLE_NS /\ ts + Skew >= clock
      /\ clock' = IF ts > clock THEN ts ELSE clock
  BY HandleTime
<1>2. /\ phase = "running" /\ next_id \in Nat
      /\ ended' = ended \cup {Summary(k, chains[k]) : k \in Idle(ts)}
      /\ next_id' = IF new THEN next_id + 1 ELSE next_id
  BY <1>1, HandleStages DEF TypeOK
<1>3. /\ DOMAIN chains' = (DOMAIN chains \ Idle(ts)) \cup {key}
      /\ chains'[key] = a
      /\ \A k \in DOMAIN chains' \ {key} :
           k \in DOMAIN chains /\ k \notin Idle(ts) /\ chains'[k] = chains[k]
  BY <1>1, HandleKeys
<1>4. /\ a.id = IF new THEN next_id + 1 ELSE chains[key].id
      /\ a.last_ts = ts
      /\ a.first_ts = IF new THEN ts ELSE chains[key].first_ts
  BY <1>1, AfterFacts, AfterFields, AttributedFields
<1>5. ~new => key \in DOMAIN chains /\ key \notin Idle(ts)
  BY DEF IsNew
<1>6. /\ \A k \in DOMAIN chains :
           chains[k].id \in 1..next_id /\ chains[k].first_ts \in Nat /\ chains[k].last_ts \in Nat
      /\ \A e \in ended :
           e.id \in 1..next_id /\ e.first_ts \in Nat /\ e.last_ts \in Nat
  BY <1>1 DEF TypeOK, IsChain
<1>7. \A k \in Idle(ts) : k \in DOMAIN chains /\ chains[k].last_ts + IDLE_NS < ts
  BY DEF Idle
<1> HIDE DEF a, new
<1>8. A.id = a.id /\ A.key = key /\ A.first_ts = a.first_ts /\ A.last_ts = a.last_ts
  BY SpanFields
<1> HIDE DEF A
<1>9. EndedFirst'
  <2>1. SUFFICES ASSUME NEW e \in ended', e.key \in DOMAIN chains'
                 PROVE  e.id < chains'[e.key].id
    BY DEF EndedFirst
  <2>2. CASE e \in ended
    <3>1. CASE e.key = key /\ new
      BY <1>2, <1>3, <1>4, <1>6, <2>2, <3>1
    <3>2. CASE e.key = key /\ ~new
      BY <1>3, <1>4, <1>5, <2>2, <3>2 DEF SpanInv, EndedFirst
    <3>3. CASE e.key # key
      BY <1>3, <2>1, <2>2, <3>3 DEF SpanInv, EndedFirst
    <3>4. QED
      BY <3>1, <3>2, <3>3
  <2>3. CASE e \notin ended
    <3>1. PICK k \in Idle(ts) : e = Summary(k, chains[k])
      BY <1>2, <2>3
    <3>2. e.key = k /\ e.id = chains[k].id
      BY <3>1, SpanFields
    <3>3. k = key
      BY <1>3, <2>1, <3>1, <3>2
    <3>4. new
      BY <1>5, <3>1, <3>3
    <3>5. QED
      BY <1>2, <1>3, <1>4, <1>6, <1>7, <3>1, <3>2, <3>3, <3>4
  <2>4. QED
    BY <2>2, <2>3
<1>10. \A e \in ended' : e.last_ts \in Nat /\ (e.last_ts + IDLE_NS < clock \/ e.last_ts + IDLE_NS < ts)
  <2>1. \A e \in ended : e.last_ts + IDLE_NS < clock
    BY <1>2 DEF SpanInv, EndedIdle
  <2>2. ASSUME NEW k \in Idle(ts), NEW e, e = Summary(k, chains[k])
        PROVE  e.last_ts \in Nat /\ e.last_ts + IDLE_NS < ts
    <3>1. e.last_ts = chains[k].last_ts
      BY <2>2, SpanFields
    <3>2. QED
      BY <1>6, <1>7, <3>1
  <2>3. QED
    BY <1>2, <1>6, <2>1, <2>2
<1>11. EndedIdle'
  BY <1>1, <1>10 DEF EndedIdle
\* The spans are those of before, the event's own one apart.
<1>12. \A e \in ended' \cup Open' : e = A \/ e \in ended \cup Open
  <2>1. \A e \in ended' : e \in ended \cup Open
    BY <1>2, <1>7 DEF Open
  <2>2. ASSUME NEW e \in Open'
        PROVE  e = A \/ e \in Open
    <3>1. PICK k \in DOMAIN chains' : e = Summary(k, chains'[k])
      BY <2>2 DEF Open, Summary
    <3>2. CASE k = key
      BY <1>3, <3>1, <3>2 DEF A
    <3>3. CASE k # key
      BY <1>3, <3>1, <3>3 DEF Open
    <3>4. QED
      BY <3>2, <3>3
  <2>3. QED
    BY <2>1, <2>2
\* Those of the event's key are closed.
<1>13. \A e \in ended' \cup Open' : e.key = key => e = A \/ e \in ended'
  <2>1. ASSUME NEW e \in Open', e.key = key
        PROVE  e = A
    <3>1. PICK k \in DOMAIN chains' : e = Summary(k, chains'[k])
      BY <2>1 DEF Open, Summary
    <3>2. k = key
      BY <2>1, <3>1, SpanFields
    <3>3. QED
      BY <1>3, <3>1, <3>2 DEF A
  <2>2. QED
    BY <2>1
<1>14. \A d, e \in ended \cup Open : Apart(d, e)
  BY DEF SpanInv, SplitOnlyByIdleness, Apart, Open
<1>15. \A e \in ended \cup Open : e.id \in 1..next_id /\ e.first_ts \in Nat /\ e.last_ts \in Nat
  <2>1. ASSUME NEW e \in Open
        PROVE  e.id \in 1..next_id /\ e.first_ts \in Nat /\ e.last_ts \in Nat
    <3>1. PICK k \in DOMAIN chains : e = Summary(k, chains[k])
      BY DEF Open
    <3>2. e.id = chains[k].id /\ e.first_ts = chains[k].first_ts /\ e.last_ts = chains[k].last_ts
      BY <3>1, SpanFields
    <3>3. QED
      BY <1>6, <3>2
  <2>2. QED
    BY <1>6, <2>1
<1>16. ASSUME NEW d \in ended' \cup Open', NEW e \in ended' \cup Open',
              d.key = e.key, d.id < e.id
       PROVE  e.first_ts + Skew > d.last_ts + IDLE_NS
  <2>1. CASE d # A /\ e # A
    BY <1>12, <1>14, <1>16, <2>1 DEF Apart
  <2>2. CASE e = A
    <3>1. d # A /\ d \in ended' /\ d \in ended \cup Open
      <4>1. d # A
        <5>1. A.id \in Nat
          BY <1>2, <1>4, <1>5, <1>6, <1>8
        <5>2. QED
          BY <1>16, <2>2, <5>1
      <4>2. QED
        BY <1>8, <1>12, <1>13, <1>16, <2>2, <4>1
    <3>2. CASE new
      BY <1>1, <1>4, <1>8, <1>10, <2>2, <3>1, <3>2
    <3>3. CASE ~new
      <4>1. Summary(key, chains[key]) \in Open
        BY <1>5, <3>3 DEF Open
      <4>2. /\ Summary(key, chains[key]).id = A.id
            /\ Summary(key, chains[key]).key = A.key
            /\ Summary(key, chains[key]).first_ts = A.first_ts
        BY <1>4, <1>8, <3>3, SpanFields
      <4>3. Apart(d, Summary(key, chains[key]))
        BY <1>14, <3>1, <4>1
      <4>4. QED
        BY <1>16, <2>2, <4>2, <4>3 DEF Apart
    <3>4. QED
      BY <3>2, <3>3
  <2>3. CASE d = A /\ e # A
    <3>1. e.key = key /\ e \in ended' /\ e \in ended \cup Open
      BY <1>8, <1>12, <1>13, <1>16, <2>3
    <3>2. e.id < chains'[key].id
      BY <1>3, <1>9, <3>1 DEF EndedFirst
    <3>3. e.id < A.id
      BY <1>3, <1>8, <3>2
    <3>4. A.id \in Nat /\ e.id \in Nat
      BY <1>2, <1>4, <1>5, <1>6, <1>8, <1>15, <3>1
    <3>5. QED
      BY <1>16, <2>3, <3>3, <3>4
  <2>4. QED
    BY <2>1, <2>2, <2>3
<1>17. SplitOnlyByIdleness'
  BY <1>16 DEF SplitOnlyByIdleness, Open
<1>18. QED
  BY <1>9, <1>11, <1>17 DEF SpanInv

\* An anchor's evidence is split over two chains only by a silence longer than
\* IDLE_NS, less what the timestamps may lag (lib.rs:135-147).
THEOREM SplitIsIdleness == Spec => []SplitOnlyByIdleness
<1> DEFINE TInv == Swept /\ SpanInv
<1>1. Init => TInv
  BY ChainsAssumption DEF Init, Swept, SpanInv, EndedFirst, EndedIdle, SplitOnlyByIdleness
<1>2. IInv /\ TInv /\ [Next]_vars => TInv'
  <2> SUFFICES ASSUME IInv, TInv, [Next]_vars PROVE TInv'
    OBVIOUS
  <2>1. ASSUME NEW in \in Inputs, NEW found \in FoundSets, NEW ts \in 1..MaxTs,
               Process(in, found, ts)
        PROVE  TInv'
    BY <2>1, HandleTime, SpanStep
  <2>2. CASE Finish \/ Fail
    <3>1. /\ chains' = <<>> /\ clock' = clock /\ last_sweep' = last_sweep
          /\ phase' # "running" /\ DOMAIN chains' = {}
      BY <2>2 DEF Finish, Fail
    <3>2. ended' \subseteq ended \cup Open
      BY <2>2 DEF Finish, Fail, Open
    <3>3. SplitOnlyByIdleness'
      <4>1. \A d, e \in ended \cup Open : Apart(d, e)
        BY DEF SpanInv, SplitOnlyByIdleness, Apart, Open
      <4>2. \A d, e \in ended' : Apart(d, e)
        BY <3>2, <4>1
      <4>3. QED
        BY <3>1, <4>2 DEF SplitOnlyByIdleness, Apart
    <3>4. QED
      BY <3>1, <3>3 DEF Swept, SpanInv, EndedFirst, EndedIdle
  <2>3. CASE UNCHANGED vars
    BY <2>3 DEF vars, Swept, SpanInv, EndedFirst, EndedIdle, SplitOnlyByIdleness, Summary
  <2>4. QED
    BY <2>1, <2>2, <2>3 DEF Next
<1>3. TInv => SplitOnlyByIdleness
  BY DEF SpanInv
<1> HIDE DEF TInv
<1>4. QED
  BY <1>1, <1>2, <1>3, ChainsInvariant, PTL DEF Spec

-----------------------------------------------------------------------------
(* An exfiltration follows a secret.                                       *)

\* The first secret is the timestamp of the first hit about one, and N2 is no
\* older.
SecretNoted(hits, first) ==
  /\ first = Never <=> {"F1", "L8"} \cap DOMAIN hits = {}
  /\ first # Never => \E r \in {"F1", "L8"} \cap DOMAIN hits : hits[r].ts = first
  /\ "N2" \in DOMAIN hits => first # Never /\ first <= hits["N2"].ts

SecretsNoted == \A k \in DOMAIN chains : SecretNoted(chains[k].hits, chains[k].first_secret)

\* What a hit's rule and time are after an event, C1 and C3 aside.
LEMMA AfterHits ==
  ASSUME TypeOK, AlertedIsBand, NEW in \in Resolved, NEW found, NEW ts \in Nat
  PROVE  LET b == Attributed(in, ts)
             a == After(in, found, ts)
         IN  \A r : r \notin {"C1", "C3"} =>
               /\ r \in DOMAIN a.hits <=> r \in DOMAIN b.hits \cup DOMAIN found
               /\ r \in DOMAIN a.hits =>
                    a.hits[r].ts = IF r \in DOMAIN b.hits THEN b.hits[r].ts ELSE ts
<1> DEFINE b == Attributed(in, ts)
           f == Findings(in, found, ts)
           h == Record(b.hits, f, ts)
           a == After(in, found, ts)
           n == [r \in {"C3"} |-> NoTactic]
           g == Record(h, n, ts)
<1>1. /\ DOMAIN f = DOMAIN found \cup Opening(in, ts)
      /\ Opening(in, ts) \subseteq {"C1"}
  BY DEF Findings, Opening
<1>2. a.hits \in {h, g}
  BY AfterFields
<1> HIDE DEF b, f, a
<1>3. /\ DOMAIN h = DOMAIN b.hits \cup DOMAIN f
      /\ \A r \in DOMAIN h : h[r] = IF r \in DOMAIN b.hits THEN b.hits[r]
                                    ELSE [ts |-> ts, tactic |-> f[r]]
  BY DEF Record
<1>4. ASSUME NEW r \in DOMAIN h
      PROVE  h[r].ts = IF r \in DOMAIN b.hits THEN b.hits[r].ts ELSE ts
  <2>1. CASE r \in DOMAIN b.hits
    BY <1>3, <2>1
  <2>2. CASE r \notin DOMAIN b.hits
    <3>1. h[r] = [ts |-> ts, tactic |-> f[r]]
      BY <1>3, <2>2
    <3> HIDE DEF h
    <3>2. QED
      BY <2>2, <3>1
  <2>3. QED
    BY <2>1, <2>2
<1> HIDE DEF h
<1>5. /\ DOMAIN g = DOMAIN h \cup {"C3"}
      /\ \A r \in DOMAIN h : g[r] = h[r]
  BY DEF Record
<1> HIDE DEF g
<1>6. QED
  BY <1>1, <1>2, <1>3, <1>4, <1>5 DEF a, b

LEMMA SecretStep ==
  ASSUME IInv, SecretsNoted,
         NEW in \in Inputs, NEW found \in FoundSets, NEW ts \in 1..MaxTs,
         Process(in, found, ts)
  PROVE  SecretsNoted'
<1> DEFINE b == Attributed(in, ts)
           a == After(in, found, ts)
<1>1. /\ in \in Resolved /\ IsFound(found) /\ ts \in Nat
      /\ Handle(in, found, ts) /\ TypeOK /\ AlertedIsBand
  BY ChainsSpecAssumption DEF Process, IInv
<1>2. /\ chains'[in.key] = a
      /\ \A k \in DOMAIN chains' \ {in.key} : k \in DOMAIN chains /\ chains'[k] = chains[k]
  BY <1>1, HandleKeys
<1>3. /\ b.hits = IF IsNew(in, ts) THEN <<>> ELSE chains[in.key].hits
      /\ b.first_secret = IF IsNew(in, ts) THEN Never ELSE chains[in.key].first_secret
  BY <1>1, AttributedFields
<1>4. "N2" \in DOMAIN found => b.first_secret \in 0..ts
  BY DEF Process, Admissible
<1>5. a.first_secret = IF b.first_secret = Never /\ {"F1", "L8"} \cap DOMAIN found # {}
                       THEN ts ELSE b.first_secret
  BY <1>1, AfterFields
<1>6. \A r \in {"F1", "L8", "N2"} :
        /\ r \in DOMAIN a.hits <=> r \in DOMAIN b.hits \cup DOMAIN found
        /\ r \in DOMAIN a.hits => a.hits[r].ts = IF r \in DOMAIN b.hits THEN b.hits[r].ts ELSE ts
  BY <1>1, AfterHits
<1> HIDE DEF a, b
<1>7. SecretNoted(b.hits, b.first_secret)
  <2>1. CASE IsNew(in, ts)
    BY <1>3, <2>1 DEF SecretNoted
  <2>2. CASE ~IsNew(in, ts)
    BY <1>3, <2>2 DEF IsNew, SecretsNoted
  <2>3. QED
    BY <2>1, <2>2
<1>8. ts # Never /\ Never \notin 0..ts
  BY <1>1 DEF Never
<1>9. SecretNoted(a.hits, a.first_secret)
  <2>1. CASE b.first_secret = Never
    <3>1. {"F1", "L8"} \cap DOMAIN b.hits = {} /\ "N2" \notin DOMAIN b.hits /\ "N2" \notin DOMAIN found
      BY <1>4, <1>7, <1>8, <2>1 DEF SecretNoted
    <3>2. "N2" \notin DOMAIN a.hits
      BY <1>6, <3>1
    <3>3. \A r \in {"F1", "L8"} : /\ r \in DOMAIN a.hits <=> r \in DOMAIN found
                                  /\ r \in DOMAIN a.hits => a.hits[r].ts = ts
      BY <1>6, <3>1
    <3>4. a.first_secret = IF {"F1", "L8"} \cap DOMAIN found # {} THEN ts ELSE Never
      BY <1>5, <2>1
    <3>5. QED
      BY <1>8, <3>2, <3>3, <3>4 DEF SecretNoted
  <2>2. CASE b.first_secret # Never
    <3>1. a.first_secret = b.first_secret
      BY <1>5, <2>2
    <3>2. PICK r \in {"F1", "L8"} \cap DOMAIN b.hits : b.hits[r].ts = b.first_secret
      BY <1>7, <2>2 DEF SecretNoted
    <3>3. r \in DOMAIN a.hits /\ a.hits[r].ts = a.first_secret
      BY <1>6, <3>1, <3>2
    <3>4. "N2" \in DOMAIN a.hits => a.first_secret <= a.hits["N2"].ts
      <4>1. CASE "N2" \in DOMAIN b.hits
        <5>1. a.hits["N2"].ts = b.hits["N2"].ts
          BY <1>6, <4>1
        <5>2. b.first_secret <= b.hits["N2"].ts
          BY <1>7, <4>1 DEF SecretNoted
        <5>3. QED
          BY <3>1, <5>1, <5>2
      <4>2. CASE "N2" \notin DOMAIN b.hits /\ "N2" \in DOMAIN a.hits
        <5>1. a.hits["N2"].ts = ts /\ "N2" \in DOMAIN found
          BY <1>6, <4>2
        <5>2. QED
          BY <1>1, <1>4, <3>1, <5>1
      <4>3. QED
        BY <4>1, <4>2
    <3>5. QED
      BY <2>2, <3>1, <3>2, <3>3, <3>4 DEF SecretNoted
  <2>3. QED
    BY <2>1, <2>2
<1>10. QED
  BY <1>2, <1>9 DEF SecretsNoted

\* N2 is never in a chain's evidence without the earlier secret access it
\* accuses the connection of following (lib.rs:106-108, network.rs:20).
THEOREM ExfilIsEarned == Spec => []ExfilFollowsSecret
<1>1. Init => SecretsNoted
  BY DEF Init, SecretsNoted
<1>2. IInv /\ SecretsNoted /\ [Next]_vars => SecretsNoted'
  <2> SUFFICES ASSUME IInv, SecretsNoted, [Next]_vars PROVE SecretsNoted'
    OBVIOUS
  <2>1. ASSUME NEW in \in Inputs, NEW found \in FoundSets, NEW ts \in 1..MaxTs,
               Process(in, found, ts)
        PROVE  SecretsNoted'
    BY <2>1, SecretStep
  <2>2. CASE Finish \/ Fail
    BY <2>2 DEF Finish, Fail, SecretsNoted
  <2>3. CASE UNCHANGED vars
    BY <2>3 DEF vars, SecretsNoted
  <2>4. QED
    BY <2>1, <2>2, <2>3 DEF Next
<1>3. SecretsNoted => ExfilFollowsSecret
  BY DEF SecretsNoted, SecretNoted, ExfilFollowsSecret
<1>4. QED
  BY <1>1, <1>2, <1>3, ChainsInvariant, PTL DEF Spec

-----------------------------------------------------------------------------
(* A progression is recorded.                                              *)

\* No hits, no progression.
LEMMA NoProgression == Progression(<<>>) = <<>>
<1> DEFINE none == <<>>
           first == FirstSeen(none)
           seq == InOrderSeen(first)
           Is(f) == f = [n \in 0..0 |-> IF n = 0 THEN none ELSE With(f[n - 1], none[n])]
           upto == CHOOSE f : Is(f)
<1>1. DOMAIN none = {}
  OBVIOUS
<1>2. first = {}
  BY <1>1 DEF FirstSeen, Counted
<1>3. seq = <<>>
  <2>1. Cardinality(first) = 0
    BY <1>2, FS_EmptySet
  <2> HIDE DEF first
  <2>2. seq = [i \in 1..0 |-> seq[i]]
    BY <2>1 DEF InOrderSeen
  <2> HIDE DEF seq
  <2>3. QED
    BY <2>2
<1>4. Is([n \in 0..0 |-> none])
  OBVIOUS
<1>5. Is(upto)
  <2> HIDE DEF Is
  <2>1. QED
    BY <1>4, Zenon
<1>6. RisingRuns(none) = upto[0]
  BY DEF RisingRuns
<1>7. upto[0] = none
  <2> HIDE DEF upto
  <2>1. QED
    BY <1>5
<1>8. RisingRuns(seq) = <<>>
  BY <1>3, <1>6, <1>7
<1>9. QED
  BY <1>8 DEF Progression

\* ProgressionRecorded, of hits that are a function of the rules.
HitsFine(hits) ==
  /\ hits = [r \in DOMAIN hits |-> hits[r]]
  /\ Progression(hits) # <<>> => "C3" \in DOMAIN hits

AllHitsFine == \A k \in DOMAIN chains : HitsFine(chains[k].hits)

LEMMA ProgressionStep ==
  ASSUME IInv, AllHitsFine,
         NEW in \in Inputs, NEW found \in FoundSets, NEW ts \in 1..MaxTs,
         Process(in, found, ts)
  PROVE  AllHitsFine'
<1> DEFINE b == Attributed(in, ts)
           f == Findings(in, found, ts)
           h == Record(b.hits, f, ts)
           g == Record(h, [r \in {"C3"} |-> NoTactic], ts)
           a == After(in, found, ts)
<1>1. /\ in \in Resolved /\ ts \in Nat
      /\ Handle(in, found, ts) /\ TypeOK /\ AlertedIsBand
  BY ChainsSpecAssumption DEF Process, IInv
<1>2. /\ chains'[in.key] = a
      /\ \A k \in DOMAIN chains' \ {in.key} : k \in DOMAIN chains /\ chains'[k] = chains[k]
  BY <1>1, HandleKeys
<1>3. b.hits = IF IsNew(in, ts) THEN <<>> ELSE chains[in.key].hits
  BY <1>1, AttributedFields
<1>4. a.hits = IF /\ DOMAIN h # DOMAIN b.hits /\ "C3" \notin DOMAIN h
                  /\ Progression(h) # <<>>
               THEN g ELSE h
  BY <1>1, AfterFields
<1> HIDE DEF a, b, f
<1>5. HitsFine(b.hits)
  <2>1. CASE IsNew(in, ts)
    BY <1>3, <2>1, NoProgression DEF HitsFine
  <2>2. CASE ~IsNew(in, ts)
    BY <1>3, <2>2 DEF IsNew, AllHitsFine
  <2>3. QED
    BY <2>1, <2>2
<1>6. /\ DOMAIN h = DOMAIN b.hits \cup DOMAIN f /\ h = [r \in DOMAIN h |-> h[r]]
      /\ DOMAIN h = DOMAIN b.hits => h = [r \in DOMAIN b.hits |-> b.hits[r]]
      /\ g = [r \in DOMAIN g |-> g[r]] /\ "C3" \in DOMAIN g
  BY DEF Record
<1> HIDE DEF h, g
<1>7. HitsFine(a.hits)
  <2>1. CASE DOMAIN h = DOMAIN b.hits
    BY <1>4, <1>5, <1>6, <2>1 DEF HitsFine
  <2>2. CASE DOMAIN h # DOMAIN b.hits
    BY <1>4, <1>6, <2>2 DEF HitsFine
  <2>3. QED
    BY <2>1, <2>2
<1>8. QED
  BY <1>2, <1>7 DEF AllHitsFine

\* A kill-chain progression never goes unnoticed, whatever is found and
\* whenever (lib.rs:176-183).
THEOREM ProgressionNoticed == Spec => []ProgressionRecorded
<1>1. Init => AllHitsFine
  BY DEF Init, AllHitsFine
<1>2. IInv /\ AllHitsFine /\ [Next]_vars => AllHitsFine'
  <2> SUFFICES ASSUME IInv, AllHitsFine, [Next]_vars PROVE AllHitsFine'
    OBVIOUS
  <2>1. ASSUME NEW in \in Inputs, NEW found \in FoundSets, NEW ts \in 1..MaxTs,
               Process(in, found, ts)
        PROVE  AllHitsFine'
    BY <2>1, ProgressionStep
  <2>2. CASE Finish \/ Fail
    BY <2>2 DEF Finish, Fail, AllHitsFine
  <2>3. CASE UNCHANGED vars
    BY <2>3 DEF vars, AllHitsFine
  <2>4. QED
    BY <2>1, <2>2, <2>3 DEF Next
<1>3. AllHitsFine => ProgressionRecorded
  BY DEF AllHitsFine, HitsFine, ProgressionRecorded
<1>4. QED
  BY <1>1, <1>2, <1>3, ChainsInvariant, PTL DEF Spec
=============================================================================
