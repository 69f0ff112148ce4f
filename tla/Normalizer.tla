----------------------------- MODULE Normalizer -----------------------------
(***************************************************************************)
(* The normalizer (normalize.rs): what a probe's event becomes of it, and  *)
(* what it learns on the way.  Its state is a record                       *)
(*    procs, order        the process table, in the order of insertion     *)
(*    muted, newly_muted  the verdicts cached, and those not yet pushed    *)
(* and each operator takes one, with what /proc shows at that moment, and  *)
(* gives the next.  Names, command lines, containers, users, timestamps    *)
(* and the rendering of the record are left out; so are the sensor's own   *)
(* events, which are dropped before anything else.                         *)
(***************************************************************************)
EXTENDS Integers, SequencesExt

CONSTANTS
  PROC_CACHE_CAP, MUTED_CACHE_CAP, MUTE_DEPTH, ANCESTRY_MAX,
  muted_exes   \* programs whose processes are muted, with all they start

ASSUME NormalizerAssumption ==
  /\ PROC_CACHE_CAP \in Nat \ {0} /\ MUTED_CACHE_CAP \in Nat \ {0}
  /\ MUTE_DEPTH \in Nat \ {0} /\ ANCESTRY_MAX \in Nat \ {0}

New == [procs |-> <<>>, order |-> <<>>, muted |-> {}, newly_muted |-> <<>>]

-----------------------------------------------------------------------------
(* ProcTable.                                                              *)

Insert_EvictLate(n, pid, info) ==
  LET full == Len(n.order) > PROC_CACHE_CAP
      seen == pid \in DOMAIN n.procs
      kept == IF full THEN DOMAIN n.procs \ {Head(n.order)} ELSE DOMAIN n.procs
  IN  [n EXCEPT
         !.procs = [p \in kept \cup {pid} |-> IF p = pid THEN info ELSE n.procs[p]],
         !.order = IF seen THEN @ ELSE Append(IF full THEN Tail(@) ELSE @, pid)]
Insert(n, pid, info) ==
  LET seen == pid \in DOMAIN n.procs
      full == ~seen /\ Len(n.order) = PROC_CACHE_CAP
      kept == IF full THEN DOMAIN n.procs \ {Head(n.order)} ELSE DOMAIN n.procs
  IN  [n EXCEPT
         !.procs = [p \in kept \cup {pid} |-> IF p = pid THEN info ELSE n.procs[p]],
         !.order = CASE seen -> @
                     [] ~seen /\ full  -> Append(Tail(@), pid)
                     [] ~seen /\ ~full -> Append(@, pid)]

\* get: fills a miss from /proc, when the process is still there.
Get(n, pid, proc) ==
  IF pid \notin DOMAIN n.procs /\ pid \in DOMAIN proc THEN Insert(n, pid, proc[pid]) ELSE n

-----------------------------------------------------------------------------
(* Walks up the table.                                                     *)

\* One round of is_muted's loop: w is [n, cur, found, over].
MuteRound_UnknownIsMuted(w, pid, proc) ==
  LET n    == Get(w.n, w.cur, proc)
      info == n.procs[w.cur]
      stop == w.over \/ w.cur \notin DOMAIN n.procs \/ (w.cur # pid /\ w.cur \in w.n.muted)
  IN  IF stop THEN [w EXCEPT !.n = n, !.found = ~w.over \/ w.found, !.over = TRUE]
      ELSE [n |-> n, cur |-> info.ppid, found |-> info.exe \in muted_exes,
            over |-> info.exe \in muted_exes \/ info.ppid \in {0, w.cur}]
MuteRound(w, pid, proc) ==
  LET n    == Get(w.n, w.cur, proc)
      info == n.procs[w.cur]
  IN  CASE w.over -> w
        [] ~w.over /\ w.cur # pid /\ w.cur \in w.n.muted ->
             [w EXCEPT !.found = TRUE, !.over = TRUE]
        [] ~w.over /\ ~(w.cur # pid /\ w.cur \in w.n.muted) ->
             CASE w.cur \notin DOMAIN n.procs -> [w EXCEPT !.n = n, !.over = TRUE]
               [] w.cur \in DOMAIN n.procs ->
                    [n |-> n, cur |-> info.ppid,
                     found |-> info.exe \in muted_exes,
                     over  |-> info.exe \in muted_exes \/ info.ppid \in {0, w.cur}]

MuteWalk(n, pid, proc) ==
  LET walk[k \in 0..MUTE_DEPTH] ==
        IF k = 0 THEN [n |-> n, cur |-> pid, found |-> FALSE, over |-> FALSE]
                 ELSE MuteRound(walk[k - 1], pid, proc)
  IN  walk[MUTE_DEPTH]

\* is_muted: [n, found].
IsMuted(n, pid, fresh_exec, proc) ==
  LET stale  == [n EXCEPT !.muted = IF fresh_exec THEN @ \ {pid} ELSE @]
      walked == MuteWalk(stale, pid, proc)
      full   == Cardinality(walked.n.muted) >= MUTED_CACHE_CAP
  IN  CASE muted_exes = {} -> [n |-> n, found |-> FALSE]
        [] muted_exes # {} /\ pid \in stale.muted -> [n |-> n, found |-> TRUE]
        [] muted_exes # {} /\ pid \notin stale.muted ->
             [found |-> walked.found,
              n     |-> IF walked.found
                        THEN [walked.n EXCEPT !.muted = {pid} \cup IF full THEN {} ELSE @,
                                              !.newly_muted = Append(@, pid)]
                        ELSE walked.n]

\* seed_muted: every pid /proc lists, in order.
SeedRound(n, pid, listed, proc) ==
  IF listed[pid] THEN IsMuted(n, pid, FALSE, proc).n ELSE n
SeedMuted(n, listed, proc) ==
  LET seeded[pid \in 0..Len(listed)] ==
        IF pid = 0 THEN n ELSE SeedRound(seeded[pid - 1], pid, listed, proc)
  IN  seeded[Len(listed)]

\* ancestry: [n, pid, chain], walked from `pid' up.
AncestryRound(w, proc) ==
  LET n    == Get(w.n, w.pid, proc)
      info == n.procs[w.pid]
  IN  CASE w.pid = 0 -> w
        [] w.pid # 0 /\ w.pid \notin DOMAIN n.procs -> [w EXCEPT !.n = n, !.pid = 0]
        [] w.pid # 0 /\ w.pid \in DOMAIN n.procs ->
             [n |-> n, chain |-> Append(w.chain, w.pid),
              pid |-> IF info.ppid = w.pid THEN 0 ELSE info.ppid]
Ancestry(n, pid, proc) ==
  LET walk[k \in 0..ANCESTRY_MAX] ==
        IF k = 0 THEN [n |-> n, pid |-> pid, chain |-> <<>>]
                 ELSE AncestryRound(walk[k - 1], proc)
  IN  walk[ANCESTRY_MAX]

-----------------------------------------------------------------------------
(* normalize.                                                              *)

\* is_noise, on the path resolve_path makes of it: a name relative to a
\* directory of /proc is only recognised while its process is there to ask.
IsNoise(event, proc) ==
  \/ event.path \in {"pseudo", "environ", "desktop"}
  \/ event.path = "relative" /\ event.pid \in DOMAIN proc

\* [n, line]: the record made of the event, its `ancestry' empty when nothing
\* is known, or no record.
NoLine == [pid |-> 0, ppid |-> 0, ancestry |-> <<>>]
Dropped(n) == [n |-> n, line |-> NoLine]

Recorded(n, event, proc) ==
  LET got  == Get(n, event.pid, proc)
      ppid == IF event.ppid = 0 /\ event.pid \in DOMAIN got.procs
              THEN got.procs[event.pid].ppid ELSE event.ppid
      up   == Ancestry(got, ppid, proc)
  IN  [n |-> up.n, line |-> [pid |-> event.pid, ppid |-> ppid, ancestry |-> up.chain]]

NormalizeExec_MuteFirst(n, event, proc) ==
  LET pid  == event.pid
      mute == IsMuted(n, pid, TRUE, proc)
  IN  IF mute.found THEN Dropped(mute.n)
      ELSE Recorded(Insert(mute.n, pid, [ppid |-> event.ppid, exe |-> event.exe]), event, proc)
NormalizeExec(n, event, proc) ==
  LET pid  == event.pid
      ppid == CASE event.ppid # 0 -> event.ppid
                [] event.ppid = 0 /\ pid \in DOMAIN proc -> proc[pid].ppid
                [] event.ppid = 0 /\ pid \notin DOMAIN proc -> 0
      mute == IsMuted(Insert(n, pid, [ppid |-> ppid, exe |-> event.exe]), pid, TRUE, proc)
  IN  IF mute.found THEN Dropped(mute.n) ELSE Recorded(mute.n, event, proc)

NormalizeOther(n, event, proc) ==
  LET mute  == IsMuted(n, event.pid, FALSE, proc)
      churn == event.kind = "file" /\ event.reason # "secret_read" /\ IsNoise(event, proc)
  IN  IF mute.found \/ churn THEN Dropped(mute.n) ELSE Recorded(mute.n, event, proc)

Normalize(n, event, proc) ==
  IF event.kind = "exec" THEN NormalizeExec(n, event, proc) ELSE NormalizeOther(n, event, proc)
=============================================================================
