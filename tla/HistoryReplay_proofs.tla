------------------------- MODULE HistoryReplay_proofs -------------------------
(***************************************************************************)
(* The replay of a history: the saved cursor never passes a row without an *)
(* outcome, no row is labelled in two files, and nobody is let through to  *)
(* the live stream past a replay that has rows to publish, for any sinks,  *)
(* rows, checkpoint interval, requests and crashes.                        *)
(***************************************************************************)
EXTENDS HistoryReplay, FiniteSetTheorems, TLAPS

Passing == {"mark", "open", "sending", "draining", "saving", "recording", "finishing", "failing"}

Passes == [at : Passing \union {"idle"}, pos : Nat, since : Nat, open : SUBSET Nat,
           dropped : BOOLEAN, idx : Nat, writing : BOOLEAN, broken : BOOLEAN, final : BOOLEAN]

Deciding == {"idle", "check", "create", "session", "queue"}

Types ==
  /\ run \in [sinks : 1..M, rows : Nat]
  /\ state \in [1..M -> Blocking \union {"none", "done", "skipped"}]
  /\ cursor \in [1..M -> Nat]
  /\ files \in [1..M -> [FileIds -> SUBSET Nat]]
  /\ job \in [Jobs -> Held \union {"none", "over"}]
  /\ pass \in [Jobs -> Passes]
  /\ fresh \in Nat
  /\ hook \in [Hooks -> Deciding]
  /\ follow \in [at : {"create", "enqueue", "over"}, sink : Nat]
  /\ acked \in [1..M -> SUBSET Nat] /\ slipped \in [1..M -> SUBSET Nat]
  /\ crashes \in Nat

(* A pass is its job's, which is neither handed out again meanwhile nor     *)
(* deciding about the live stream; ids that were not handed out are free.   *)
JobsMatch ==
  \A j \in Jobs :
    /\ pass[j].at # "idle" => job[j] = "active" /\ hook[j] = "idle"
    /\ hook[j] # "idle" => job[j] = "active"
    /\ j[2] > fresh => job[j] = "none"
    /\ j[2] = 0 /\ follow.at # "over" /\ j[1] >= follow.sink => job[j] = "none"
    /\ pass[j].at = "idle" => pass[j] = Idle

-----------------------------------------------------------------------------
(* One sink, with a pass p over its n rows, a cursor c, label files f and   *)
(* the rows A acknowledged or slipped.                                      *)

Ahead == {"idle", "mark", "open"}     \* before the first row
Whole == {"saving", "recording", "finishing"}   \* drained

(* Row x has an outcome that the end of the pass will not take back. *)
Kept(x, p, f, A) == x \in A \/ \E k \in FileIds : ~(p.writing /\ k = p.idx) /\ x \in f[k]

Settles(x, p, f, A) == x \in A \/ (\E k \in FileIds : x \in f[k]) \/ x \in p.open

(* The label files are numbered without a gap, below m. *)
NumberedTo(f, m) == \A k \in FileIds : f[k] # Absent <=> k < m

NextFile(p) == IF p.writing THEN p.idx + 1 ELSE p.idx

PassOK(p, c, f, A, n) ==
  /\ c \in 0..p.pos /\ p.pos <= n /\ p.open \subseteq 1..p.pos
  /\ \A x \in 1..c : Kept(x, p, f, A)
  /\ p.at \in Ahead => /\ p.pos = c /\ p.open = {}
                       /\ ~p.writing /\ ~p.broken /\ ~p.final
                       /\ \E m \in Nat : NumberedTo(f, m)
  /\ p.at \notin Ahead => NumberedTo(f, NextFile(p))
  /\ p.at \in Whole \/ (p.at \in {"sending", "draining"} /\ ~p.broken)
       => \A x \in 1..p.pos : Settles(x, p, f, A)
  /\ p.at \in Whole => p.open = {}
  /\ p.at \in {"recording", "finishing"} => ~p.writing
  /\ p.at = "finishing" => p.final /\ c = p.pos
  /\ p.writing => p.idx \in FileIds
  /\ p.final => p.pos = n

(* While no crash has left a file behind: no row is in two files or both    *)
(* labelled and outstanding, and what the next pass may label is in none.   *)
LabelsOK(p, c, f) ==
  /\ \A k, l \in FileIds : k # l => f[k] \cap f[l] \subseteq Absent
  /\ \A k \in FileIds : f[k] \subseteq 0..p.pos
  /\ \A k \in FileIds : p.at # "recording" /\ ~(p.writing /\ k = p.idx) => f[k] \subseteq 0..c
  /\ \A k \in FileIds : p.open \cap f[k] = {}

SinkOK(p, c, f, A, n, deaths) == PassOK(p, c, f, A, n) /\ (deaths = 0 => LabelsOK(p, c, f))

On(s, j) == j[1] = s /\ pass[j].at # "idle"

Resting(c) == [Idle EXCEPT !.pos = c]

Replaying(s) ==
  s \notin overlapped =>
    /\ \A i, j \in Jobs : On(s, i) /\ On(s, j) => i = j
    /\ \A j \in Jobs : On(s, j) =>
         SinkOK(pass[j], cursor[s], files[s], acked[s] \union slipped[s], run.rows, crashes)
    /\ (\A j \in Jobs : ~On(s, j)) =>
         SinkOK(Resting(cursor[s]), cursor[s], files[s], acked[s] \union slipped[s], run.rows,
                crashes)
    /\ state[s] = "done" => cursor[s] = run.rows

IInv == Types /\ JobsMatch /\ \A s \in 1..M : Replaying(s)

-----------------------------------------------------------------------------
(* What a step of a pass does to its sink, as facts about one record.       *)

LEMMA FilesAreNumbers == \E K \in Nat : FileIds = 0..K
BY ReplayAssumption DEF FileIds

LEMMA Numbers == FileIds \subseteq Nat
BY FilesAreNumbers

(* A pass begins where the sink rests.                                      *)
LEMMA StartOK ==
  ASSUME NEW c \in Nat, NEW f \in [FileIds -> SUBSET Nat], NEW A \in SUBSET Nat,
         NEW n \in Nat, NEW deaths \in Nat, SinkOK(Resting(c), c, f, A, n, deaths),
         NEW q, q = [Idle EXCEPT !.at = "mark", !.pos = c]
  PROVE  SinkOK(q, c, f, A, n, deaths)
BY DEF SinkOK, PassOK, LabelsOK, Resting, Idle, Passes, Passing, Ahead, Whole, Kept, Settles,
       NextFile

LEMMA MarkOK ==
  ASSUME NEW p \in Passes, NEW c \in Nat, NEW f \in [FileIds -> SUBSET Nat],
         NEW A \in SUBSET Nat, NEW n \in Nat, NEW deaths \in Nat, SinkOK(p, c, f, A, n, deaths),
         p.at = "mark",
         NEW q, q = [p EXCEPT !.at = "open"]
  PROVE  SinkOK(q, c, f, A, n, deaths)
BY DEF SinkOK, PassOK, LabelsOK, Passes, Passing, Ahead, Whole, Kept, Settles, NextFile

(* nextDroppedIndex counts the files, and so finds the first free number.   *)
LEMMA FirstFree ==
  ASSUME NEW f \in [FileIds -> SUBSET Nat], NEW m \in Nat, NumberedTo(f, m)
  PROVE  LET free == Cardinality({k \in FileIds : f[k] # Absent})
         IN  free \in Nat /\ NumberedTo(f, free)
<1>1. PICK K \in Nat : FileIds = 0..K
  BY FilesAreNumbers
<1> DEFINE b == IF m <= K THEN m ELSE K + 1
<1>2. {k \in FileIds : f[k] # Absent} = 0..(b - 1) /\ b \in Nat
  BY <1>1 DEF NumberedTo
<1>3. Cardinality(0..(b - 1)) = b
  BY <1>2, FS_Interval
<1>4. NumberedTo(f, b)
  BY <1>1 DEF NumberedTo
<1>5. QED BY <1>2, <1>3, <1>4

LEMMA OpenOK ==
  ASSUME NEW p \in Passes, NEW c \in Nat, NEW f \in [FileIds -> SUBSET Nat],
         NEW A \in SUBSET Nat, NEW n \in Nat, NEW deaths \in Nat, SinkOK(p, c, f, A, n, deaths),
         p.at = "open", NEW next \in {"sending", "failing"},
         NEW q, q = [p EXCEPT !.at = next,
                     !.idx = Cardinality({k \in FileIds : f[k] # Absent})]
  PROVE  SinkOK(q, c, f, A, n, deaths)
<1> DEFINE free == Cardinality({k \in FileIds : f[k] # Absent})
<1>1. free \in Nat /\ NumberedTo(f, free)
  BY FirstFree DEF SinkOK, PassOK, Ahead
<1> HIDE DEF free
<1>2. q = [p EXCEPT !.at = next, !.idx = free]
  BY DEF free
<1>3. QED
  BY <1>1, <1>2 DEF SinkOK, PassOK, LabelsOK, Passes, Passing, Ahead, Whole, Kept, Settles, NextFile

LEMMA SubmitOK ==
  ASSUME NEW p \in Passes, NEW c \in Nat, NEW f \in [FileIds -> SUBSET Nat],
         NEW A \in SUBSET Nat, NEW n \in Nat, NEW deaths \in Nat, SinkOK(p, c, f, A, n, deaths),
         p.at = "sending", ~p.broken, p.pos < n, NEW next \in {"sending", "draining"},
         NEW q, q = [p EXCEPT !.pos = p.pos + 1, !.open = p.open \union {p.pos + 1},
                     !.since = p.since + 1, !.at = next]
  PROVE  SinkOK(q, c, f, A, n, deaths)
<1>1. PassOK(q, c, f, A, n)
  BY DEF SinkOK, PassOK, Passes, Passing, Ahead, Whole, Kept, Settles, NextFile
<1>2. deaths = 0 => LabelsOK(q, c, f)
  BY DEF SinkOK, LabelsOK, Passes, Passing, Ahead
<1>3. QED BY <1>1, <1>2 DEF SinkOK

LEMMA LastOK ==
  ASSUME NEW p \in Passes, NEW c \in Nat, NEW f \in [FileIds -> SUBSET Nat],
         NEW A \in SUBSET Nat, NEW n \in Nat, NEW deaths \in Nat, SinkOK(p, c, f, A, n, deaths),
         p.at = "sending", ~p.broken, p.pos = n,
         NEW q, q = [p EXCEPT !.at = "draining", !.final = TRUE]
  PROVE  SinkOK(q, c, f, A, n, deaths)
BY DEF SinkOK, PassOK, LabelsOK, Passes, Passing, Ahead, Whole, Kept, Settles, NextFile

LEMMA ThrownOK ==
  ASSUME NEW p \in Passes, NEW c \in Nat, NEW f \in [FileIds -> SUBSET Nat],
         NEW A \in SUBSET Nat, NEW n \in Nat, NEW deaths \in Nat, SinkOK(p, c, f, A, n, deaths),
         p.at = "sending", p.broken,
         NEW q, q = [p EXCEPT !.at = "failing"]
  PROVE  SinkOK(q, c, f, A, n, deaths)
BY DEF SinkOK, PassOK, LabelsOK, Passes, Passing, Ahead, Whole, Kept, Settles, NextFile

LEMMA AcknowledgeOK ==
  ASSUME NEW p \in Passes, NEW c \in Nat, NEW f \in [FileIds -> SUBSET Nat],
         NEW A \in SUBSET Nat, NEW n \in Nat, NEW deaths \in Nat, SinkOK(p, c, f, A, n, deaths),
         NEW row \in p.open,
         NEW q, q = [p EXCEPT !.open = p.open \ {row}]
  PROVE  q \in Passes /\ SinkOK(q, c, f, A \union {row}, n, deaths)
BY DEF SinkOK, PassOK, LabelsOK, Passes, Passing, Ahead, Whole, Kept, Settles, NextFile

LabelIn(f, p, row) ==
  [f EXCEPT ![p.idx] = IF ~p.writing THEN {row}
                       ELSE IF f[p.idx] = Absent THEN f[p.idx] ELSE f[p.idx] \union {row}]

(* A label opens a file, or goes to the one being written.                  *)
LEMMA DropOK ==
  ASSUME NEW p \in Passes, NEW c \in Nat, NEW f \in [FileIds -> SUBSET Nat],
         NEW A \in SUBSET Nat, NEW n \in Nat, NEW deaths \in Nat, SinkOK(p, c, f, A, n, deaths),
         NEW row \in p.open, p.idx \in FileIds,
         NEW q, q.at = p.at, q.pos = p.pos, q.open = p.open \ {row}, q.writing = TRUE,
         q.idx = p.idx, q.broken = p.broken, q.final = p.final,
         NEW g, g = LabelIn(f, p, row)
  PROVE  SinkOK(q, c, g, A, n, deaths)
<1>1. /\ row \in 1..p.pos /\ row \in Nat /\ p.at \notin Ahead /\ p.at \notin Whole
      /\ NumberedTo(f, NextFile(p)) /\ p.pos \in Nat /\ p.idx \in Nat
  BY DEF SinkOK, PassOK, Passes, Ahead, Whole
<1>2. /\ ~p.writing => f[p.idx] = Absent
      /\ p.writing => f[p.idx] # Absent
  BY <1>1 DEF NumberedTo, NextFile
<1>3. /\ \A k \in FileIds : k # p.idx => g[k] = f[k]
      /\ row \in g[p.idx] /\ g[p.idx] # Absent /\ g[p.idx] \subseteq f[p.idx] \union {row}
      /\ f[p.idx] \subseteq g[p.idx] \union Absent
      /\ p.writing => f[p.idx] \subseteq g[p.idx]
  BY <1>1, <1>2 DEF Absent, LabelIn
<1>4. NumberedTo(g, p.idx + 1)
  BY <1>1, <1>2, <1>3, Numbers DEF NumberedTo, NextFile
<1>5. \A x \in 1..p.pos : /\ Kept(x, p, f, A) => Kept(x, q, g, A)
                          /\ Settles(x, p, f, A) => Settles(x, q, g, A)
  BY <1>1, <1>2, <1>3 DEF Kept, Settles, Absent
<1>6. PassOK(q, c, g, A, n)
  BY <1>1, <1>4, <1>5 DEF SinkOK, PassOK, NextFile, Whole, Ahead
<1>7. deaths = 0 => LabelsOK(q, c, g)
  <2> SUFFICES ASSUME deaths = 0 PROVE LabelsOK(q, c, g)
    OBVIOUS
  <2>1. LabelsOK(p, c, f)
    BY DEF SinkOK
  <2>2. \A k \in FileIds : row \notin f[k]
    BY <2>1 DEF LabelsOK
  <2>3. \A k, l \in FileIds : k # l => g[k] \cap g[l] \subseteq Absent
    <3> SUFFICES ASSUME NEW k \in FileIds, NEW l \in FileIds, k # l, NEW x \in g[k] \cap g[l]
                 PROVE  x \in Absent
      OBVIOUS
    <3>1. f[k] \cap f[l] \subseteq Absent
      BY <2>1 DEF LabelsOK
    <3>2. x \in f[k] /\ x \in f[l]
      BY <1>3, <2>2
    <3>3. QED BY <3>1, <3>2
  <2>4. \A k \in FileIds : g[k] \subseteq 0..p.pos
    <3> SUFFICES ASSUME NEW k \in FileIds, NEW x \in g[k] PROVE x \in 0..p.pos
      OBVIOUS
    <3>1. x \in f[k] \/ x = row
      BY <1>3
    <3>2. QED BY <3>1, <1>1, <2>1 DEF LabelsOK
  <2>5. \A k \in FileIds : ~(q.writing /\ k = q.idx) => g[k] \subseteq 0..c
    BY <1>1, <1>3, <2>1 DEF LabelsOK, Whole
  <2>6. \A k \in FileIds : q.open \cap g[k] = {}
    BY <1>3, <2>1 DEF LabelsOK
  <2>7. QED BY <2>3, <2>4, <2>5, <2>6 DEF LabelsOK
<1>8. QED BY <1>6, <1>7 DEF SinkOK

(* The breaker abandons what is outstanding; if the drain resolved, what it *)
(* abandoned counts as slipped.                                             *)
LEMMA AbandonOK ==
  ASSUME NEW p \in Passes, NEW c \in Nat, NEW f \in [FileIds -> SUBSET Nat],
         NEW A \in SUBSET Nat, NEW n \in Nat, NEW deaths \in Nat, SinkOK(p, c, f, A, n, deaths),
         NEW B \in SUBSET Nat, p.at \in {"sending", "draining"}, ~p.broken,
         NEW next \in {"sending", "saving", "failing"},
         next = "saving" => p.open \subseteq B,
         next = "sending" => p.at = "sending",
         NEW q, q.at = next, q.pos = p.pos, q.open = {}, q.writing = p.writing, q.idx = p.idx,
         q.broken = TRUE, q.final = p.final
  PROVE  SinkOK(q, c, f, A \union B, n, deaths)
<1>1. PassOK(q, c, f, A \union B, n)
  BY DEF SinkOK, PassOK, Passes, Passing, Ahead, Whole, Kept, Settles, NextFile
<1>2. deaths = 0 => LabelsOK(q, c, f)
  BY DEF SinkOK, LabelsOK, Passes, Passing, Ahead
<1>3. QED BY <1>1, <1>2 DEF SinkOK

LEMMA DrainedOK ==
  ASSUME NEW p \in Passes, NEW c \in Nat, NEW f \in [FileIds -> SUBSET Nat],
         NEW A \in SUBSET Nat, NEW n \in Nat, NEW deaths \in Nat, SinkOK(p, c, f, A, n, deaths),
         p.at = "draining", ~p.broken, p.open = {},
         NEW q, q = [p EXCEPT !.at = "saving"]
  PROVE  SinkOK(q, c, f, A, n, deaths)
BY DEF SinkOK, PassOK, LabelsOK, Passes, Passing, Ahead, Whole, Kept, Settles, NextFile

LEMMA CloseOK ==
  ASSUME NEW p \in Passes, NEW c \in Nat, NEW f \in [FileIds -> SUBSET Nat],
         NEW A \in SUBSET Nat, NEW n \in Nat, NEW deaths \in Nat, SinkOK(p, c, f, A, n, deaths),
         p.at = "saving",
         NEW q, q = [p EXCEPT !.at = "recording", !.writing = FALSE,
                     !.idx = IF p.writing THEN p.idx + 1 ELSE p.idx]
  PROVE  SinkOK(q, c, f, A, n, deaths)
<1>1. PassOK(q, c, f, A, n)
  BY DEF SinkOK, PassOK, Passes, Passing, Ahead, Whole, Kept, Settles, NextFile
<1>2. deaths = 0 => LabelsOK(q, c, f)
  BY DEF SinkOK, LabelsOK, Passes, Passing, Ahead
<1>3. QED BY <1>1, <1>2 DEF SinkOK

LEMMA RecordOK ==
  ASSUME NEW p \in Passes, NEW c \in Nat, NEW f \in [FileIds -> SUBSET Nat],
         NEW A \in SUBSET Nat, NEW n \in Nat, NEW deaths \in Nat, SinkOK(p, c, f, A, n, deaths),
         p.at = "recording",
         NEW q, q = [p EXCEPT !.since = 0, !.at = IF p.final THEN "finishing" ELSE "sending"]
  PROVE  SinkOK(q, p.pos, f, A, n, deaths)
<1>1. PassOK(q, p.pos, f, A, n)
  BY DEF SinkOK, PassOK, Passes, Passing, Ahead, Whole, Kept, Settles, NextFile
<1>2. deaths = 0 => LabelsOK(q, p.pos, f)
  BY DEF SinkOK, LabelsOK, Passes, Passing, Ahead
<1>3. QED BY <1>1, <1>2 DEF SinkOK

(* Where a pass ends, its sink rests: with all its rows if it finished,     *)
(* without the label file it was writing if it failed.                      *)
LEMMA FinishOK ==
  ASSUME NEW p \in Passes, NEW c \in Nat, NEW f \in [FileIds -> SUBSET Nat],
         NEW A \in SUBSET Nat, NEW n \in Nat, NEW deaths \in Nat, SinkOK(p, c, f, A, n, deaths),
         p.at = "finishing"
  PROVE  SinkOK(Resting(c), c, f, A, n, deaths) /\ c = n
BY DEF SinkOK, PassOK, LabelsOK, Passes, Passing, Ahead, Whole, Kept, Settles, NextFile, Resting,
       Idle

LEMMA FailOK ==
  ASSUME NEW p \in Passes, NEW c \in Nat, NEW f \in [FileIds -> SUBSET Nat],
         NEW A \in SUBSET Nat, NEW n \in Nat, NEW deaths \in Nat, SinkOK(p, c, f, A, n, deaths),
         p.at = "failing",
         NEW g, \A k \in FileIds : g[k] = IF p.writing /\ k = p.idx THEN Absent ELSE f[k]
  PROVE  SinkOK(Resting(c), c, g, A, n, deaths)
<1>1. p.idx \in Nat /\ NumberedTo(g, p.idx)
  BY Numbers DEF SinkOK, PassOK, Ahead, NumberedTo, NextFile, Passes
<1>2. PassOK(Resting(c), c, g, A, n)
  <2>1. \A x \in 1..c : Kept(x, p, f, A) => Kept(x, Resting(c), g, A)
    BY DEF Kept, Resting, Idle
  <2>2. QED BY <2>1, <1>1 DEF SinkOK, PassOK, Resting, Idle, Ahead, Whole, Passes
<1>3. deaths = 0 => LabelsOK(Resting(c), c, g)
  BY DEF SinkOK, LabelsOK, Resting, Idle, Absent
<1>4. QED BY <1>2, <1>3 DEF SinkOK

(* A crash leaves the file being written unreadable, in its place.          *)
LEMMA CrashOK ==
  ASSUME NEW p \in Passes, NEW c \in Nat, NEW f \in [FileIds -> SUBSET Nat],
         NEW A \in SUBSET Nat, NEW n \in Nat, NEW deaths \in Nat, SinkOK(p, c, f, A, n, deaths),
         NEW g \in [FileIds -> SUBSET Nat],
         \A k \in FileIds : g[k] = IF p.writing /\ k = p.idx THEN {} ELSE f[k]
  PROVE  \A more \in Nat \ {0} : SinkOK(Resting(c), c, g, A, n, more)
<1>1. \E m \in Nat : NumberedTo(f, m) /\ (p.writing => m = p.idx + 1)
  BY DEF SinkOK, PassOK, Ahead, NextFile, Passes
<1>2. \E m \in Nat : NumberedTo(g, m)
  <2>1. PICK m \in Nat : NumberedTo(f, m) /\ (p.writing => m = p.idx + 1)
    BY <1>1
  <2>2. p.writing => p.idx < m
    BY <2>1 DEF Passes
  <2>3. \A k \in FileIds : g[k] # Absent <=> f[k] # Absent
    BY <2>1, <2>2 DEF NumberedTo, Absent
  <2>4. QED BY <2>1, <2>3 DEF NumberedTo
<1>3. \A x \in 1..c : Kept(x, p, f, A) => Kept(x, Resting(c), g, A)
  BY DEF Kept, Resting, Idle
<1>4. QED BY <1>2, <1>3 DEF SinkOK, PassOK, Resting, Idle, Ahead, Whole, Passes

-----------------------------------------------------------------------------
(* From one sink to all of them.                                            *)

LEMMA JobParts ==
  ASSUME NEW j \in Jobs
  PROVE  j[1] \in 1..M /\ j[2] \in 0..Fresh /\ j = <<j[1], j[2]>>
BY DEF Jobs

(* Jobs, requests and the launch are told apart by their names.             *)
LEMMA HookNames ==
  /\ Follow \in Hooks /\ Follow \notin Jobs
  /\ \A r \in Requests : <<r>> \in Hooks /\ <<r>> \notin Jobs
  /\ Jobs \subseteq Hooks
BY DEF Hooks, Jobs, Follow

(* A sink nothing happened to.                                              *)
LEMMA SinkRests ==
  ASSUME NEW s \in 1..M, Replaying(s),
         \A j \in Jobs : j[1] = s => pass'[j] = pass[j],
         cursor'[s] = cursor[s], files'[s] = files[s],
         acked'[s] = acked[s], slipped'[s] = slipped[s],
         run' = run, crashes' = crashes, s \in overlapped => s \in overlapped',
         state'[s] = "done" => state[s] = "done"
  PROVE  Replaying(s)'
<1> SUFFICES ASSUME s \notin overlapped' PROVE Replaying(s)'
  BY DEF Replaying
<1>1. \A j \in Jobs : On(s, j)' <=> On(s, j)
  BY DEF On
<1>2. \A j \in Jobs : On(s, j) => pass'[j] = pass[j]
  BY DEF On
<1>3. (\A i, j \in Jobs : On(s, i) /\ On(s, j) => i = j)'
  BY <1>1 DEF Replaying
<1>4. (\A j \in Jobs : On(s, j) =>
         SinkOK(pass[j], cursor[s], files[s], acked[s] \union slipped[s], run.rows, crashes))'
  BY <1>1, <1>2 DEF Replaying
<1>5. ((\A j \in Jobs : ~On(s, j)) =>
         SinkOK(Resting(cursor[s]), cursor[s], files[s], acked[s] \union slipped[s], run.rows,
                crashes))'
  BY <1>1 DEF Replaying
<1>6. (state[s] = "done" => cursor[s] = run.rows)'
  BY DEF Replaying
<1>7. QED BY <1>3, <1>4, <1>5, <1>6 DEF Replaying

(* A pass moves: its own sink is to stay all right, the others do.          *)
LEMMA PassMoves ==
  ASSUME \A s \in 1..M : Replaying(s), NEW j \in Jobs, pass[j].at # "idle", pass'[j].at # "idle",
         \A i \in Jobs : i # j => pass'[i] = pass[i],
         \A t \in 1..M : t # j[1] =>
           /\ cursor'[t] = cursor[t] /\ files'[t] = files[t] /\ state'[t] = state[t]
           /\ acked'[t] = acked[t] /\ slipped'[t] = slipped[t],
         run' = run, crashes' = crashes, overlapped' = overlapped,
         SinkOK(pass[j], cursor[j[1]], files[j[1]], acked[j[1]] \union slipped[j[1]], run.rows,
                crashes)
           => /\ SinkOK(pass'[j], cursor'[j[1]], files'[j[1]], acked'[j[1]] \union slipped'[j[1]],
                        run.rows, crashes)
              /\ state'[j[1]] = "done" =>
                   state[j[1]] = "done" /\ (cursor[j[1]] = run.rows => cursor'[j[1]] = run.rows)
  PROVE  \A s \in 1..M : Replaying(s)'
<1> TAKE s \in 1..M
<1>1. CASE s # j[1]
  BY <1>1, SinkRests
<1>2. CASE s = j[1]
  <2> SUFFICES ASSUME s \notin overlapped PROVE Replaying(s)'
    BY DEF Replaying
  <2>1. On(s, j) /\ (On(s, j))'
    BY <1>2 DEF On
  <2>2. \A i \in Jobs : On(s, i)' <=> On(s, i)
    BY <2>1 DEF On
  <2>3. \A i \in Jobs : On(s, i) => i = j
    BY <2>1 DEF Replaying
  <2>4. /\ SinkOK(pass[j], cursor[s], files[s], acked[s] \union slipped[s], run.rows, crashes)
        /\ state[s] = "done" => cursor[s] = run.rows
    BY <2>1 DEF Replaying
  <2>5. /\ SinkOK(pass[j], cursor[s], files[s], acked[s] \union slipped[s], run.rows,
                  crashes)'
        /\ (state[s] = "done" => cursor[s] = run.rows)'
    BY <1>2, <2>4
  <2>6. QED BY <2>1, <2>2, <2>3, <2>5 DEF Replaying
<1>3. QED BY <1>1, <1>2

(* A pass ends: its sink is to be all right at rest.                        *)
LEMMA PassEnds ==
  ASSUME \A s \in 1..M : Replaying(s), NEW j \in Jobs, pass[j].at # "idle", pass'[j].at = "idle",
         \A i \in Jobs : i # j => pass'[i] = pass[i],
         \A t \in 1..M : t # j[1] => files'[t] = files[t] /\ state'[t] = state[t],
         cursor' = cursor, acked' = acked, slipped' = slipped,
         run' = run, crashes' = crashes, overlapped' = overlapped,
         SinkOK(pass[j], cursor[j[1]], files[j[1]], acked[j[1]] \union slipped[j[1]], run.rows,
                crashes)
           => /\ SinkOK(Resting(cursor[j[1]]), cursor[j[1]], files'[j[1]],
                        acked[j[1]] \union slipped[j[1]], run.rows, crashes)
              /\ state'[j[1]] = "done" => cursor[j[1]] = run.rows
  PROVE  \A s \in 1..M : Replaying(s)'
<1> TAKE s \in 1..M
<1>1. CASE s # j[1]
  BY <1>1, SinkRests
<1>2. CASE s = j[1]
  <2> SUFFICES ASSUME s \notin overlapped PROVE Replaying(s)'
    BY DEF Replaying
  <2>1. On(s, j)
    BY <1>2 DEF On
  <2>2. \A i \in Jobs : ~On(s, i)'
    <3>1. \A i \in Jobs : On(s, i) => i = j
      BY <2>1 DEF Replaying
    <3>2. QED BY <3>1 DEF On
  <2>3. SinkOK(pass[j], cursor[s], files[s], acked[s] \union slipped[s], run.rows, crashes)
    BY <2>1 DEF Replaying
  <2>4. /\ SinkOK(Resting(cursor[s]), cursor[s], files[s], acked[s] \union slipped[s], run.rows,
                  crashes)'
        /\ (state[s] = "done" => cursor[s] = run.rows)'
    BY <1>2, <2>3
  <2>5. QED BY <2>2, <2>4 DEF Replaying
<1>3. QED BY <1>1, <1>2

-----------------------------------------------------------------------------
(* Types are kept.                                                          *)

LEMMA PassTyped ==
  ASSUME Types, NEW j \in Jobs, Pass(j)
  PROVE  pass' \in [Jobs -> Passes]
<1> SUFFICES \E q \in Passes : pass' = [pass EXCEPT ![j] = q]
  BY DEF Types
<1> DEFINE p == pass[j]
<1>1. p \in Passes /\ cursor[j[1]] \in Nat /\ Idle \in Passes
  BY JobParts DEF Types, Passes, Idle
<1>2. CASE Start(j)
  <2>1. [Idle EXCEPT !.at = "mark", !.pos = cursor[j[1]]] \in Passes
    BY <1>1 DEF Passes, Passing, Idle
  <2>2. QED BY <1>2, <2>1 DEF Start
<1>3. CASE MarkRunning(j)
  <2>1. [p EXCEPT !.at = "open"] \in Passes
    BY <1>1 DEF Passes, Passing
  <2>2. QED BY <1>3, <2>1, <1>1 DEF MarkRunning, Types, Passes
<1>4. CASE OpenSink(j)
  <2> DEFINE free == Cardinality({k \in FileIds : files[j[1]][k] # Absent})
  <2>1. free \in Nat
    <3>1. PICK K \in Nat : FileIds = 0..K
      BY FilesAreNumbers
    <3>2. IsFiniteSet(FileIds)
      BY <3>1, FS_Interval
    <3>3. QED BY <3>2, FS_Subset, FS_CardinalityType
  <2> HIDE DEF free
  <2>2. PICK next \in {"sending", "failing"} : pass' = [pass EXCEPT ![j].at = next, ![j].idx = free]
    BY <1>4 DEF OpenSink, free
  <2>3. [p EXCEPT !.at = next, !.idx = free] \in Passes
    BY <1>1, <2>1 DEF Passes, Passing
  <2>4. QED BY <2>2, <2>3, <1>1 DEF Types, Passes
<1>5. CASE Submit(j)
  <2> DEFINE next == IF p.since + 1 >= CheckpointRows THEN "draining" ELSE p.at
             q == [p EXCEPT !.pos = p.pos + 1, !.open = p.open \union {p.pos + 1},
                     !.since = p.since + 1, !.at = next]
  <2>1. p.open \union {p.pos + 1} \in SUBSET Nat /\ p.pos + 1 \in Nat /\ p.since + 1 \in Nat
    BY <1>1 DEF Passes
  <2>2. next \in Passing
    BY <1>5 DEF Submit, Passing
  <2>3. q \in Passes
    BY <1>1, <2>1, <2>2 DEF Passes
  <2>4. pass' = [pass EXCEPT ![j] = q]
    BY <1>5, <1>1 DEF Submit, Types, Passes
  <2>5. QED BY <2>3, <2>4
<1>6. CASE LastDrain(j)
  <2>1. [p EXCEPT !.at = "draining", !.final = TRUE] \in Passes
    BY <1>1 DEF Passes, Passing
  <2>2. QED BY <1>6, <2>1, <1>1, ZenonT(30) DEF LastDrain, Types, Passes
<1>7. CASE Thrown(j)
  <2>1. [p EXCEPT !.at = "failing"] \in Passes
    BY <1>1 DEF Passes, Passing
  <2>2. QED BY <1>7, <2>1, <1>1 DEF Thrown, Types, Passes
<1>8. ASSUME NEW row \in RowIds, Acknowledge(j, row)
      PROVE  \E q \in Passes : pass' = [pass EXCEPT ![j] = q]
  <2>1. [p EXCEPT !.open = p.open \ {row}] \in Passes
    BY <1>1 DEF Passes, Passing
  <2>2. QED BY <1>8, <2>1, <1>1 DEF Acknowledge, Types, Passes
<1>9. ASSUME NEW row \in RowIds, Drop(j, row)
      PROVE  \E q \in Passes : pass' = [pass EXCEPT ![j] = q]
  <2>1. [p EXCEPT !.open = p.open \ {row}, !.dropped = TRUE, !.writing = TRUE] \in Passes
    BY <1>1 DEF Passes, Passing
  <2>2. QED BY <1>9, <2>1, <1>1, ZenonT(30) DEF Drop, Types, Passes
<1>10. CASE Trip(j)
  <2>1. PICK next \in {"sending", "saving", "failing"}, dropped \in BOOLEAN, writing \in BOOLEAN :
          pass' = [pass EXCEPT ![j].open = {}, ![j].broken = TRUE, ![j].at = next,
                               ![j].dropped = dropped, ![j].writing = writing]
    <3>1. PICK end \in {"ack", "label", "retry"}, next \in {"sending", "saving", "failing"} :
            pass' = [pass EXCEPT ![j].open = {}, ![j].broken = TRUE, ![j].at = next,
                                 ![j].dropped = @ \/ end = "label",
                                 ![j].writing = @ \/ end = "label"]
      BY <1>10, ZenonT(30) DEF Trip
    <3> DEFINE d == p.dropped \/ end = "label"
               w == p.writing \/ end = "label"
    <3>2. pass' = [pass EXCEPT ![j].open = {}, ![j].broken = TRUE, ![j].at = next,
                               ![j].dropped = d, ![j].writing = w]
      BY <3>1, <1>1, Zenon DEF Types, Passes
    <3>3. d \in BOOLEAN /\ w \in BOOLEAN
      BY Zenon
    <3> HIDE DEF d, w
    <3>4. QED BY <3>2, <3>3
  <2> DEFINE q == [p EXCEPT !.open = {}, !.broken = TRUE, !.at = next, !.dropped = dropped,
                     !.writing = writing]
  <2>2. q \in Passes
    BY <1>1 DEF Passes, Passing
  <2>3. pass' = [pass EXCEPT ![j] = q]
    BY <2>1, <1>1 DEF Types, Passes
  <2>4. QED BY <2>2, <2>3
<1>11. CASE Drained(j)
  <2>1. [p EXCEPT !.at = "saving"] \in Passes
    BY <1>1 DEF Passes, Passing
  <2>2. QED BY <1>11, <2>1, <1>1 DEF Drained, Types, Passes
<1>12. CASE CloseLabels(j)
  <2> DEFINE next == IF p.writing THEN p.idx + 1 ELSE p.idx
  <2>1. next \in Nat
    BY <1>1 DEF Passes
  <2> HIDE DEF next
  <2>2. [p EXCEPT !.at = "recording", !.writing = FALSE, !.idx = next] \in Passes
    BY <1>1, <2>1 DEF Passes, Passing
  <2>3. pass' = [pass EXCEPT ![j] = [p EXCEPT !.at = "recording", !.writing = FALSE, !.idx = next]]
    BY <1>12, <1>1 DEF CloseLabels, Types, Passes, next
  <2>4. QED BY <2>2, <2>3
<1>13. CASE RecordProgress(j)
  <2> DEFINE next == IF p.final THEN "finishing" ELSE "sending"
  <2>1. next \in Passing
    BY DEF Passing
  <2> HIDE DEF next
  <2>2. [p EXCEPT !.since = 0, !.at = next] \in Passes
    BY <1>1, <2>1 DEF Passes
  <2>3. pass' = [pass EXCEPT ![j] = [p EXCEPT !.since = 0, !.at = next]]
    BY <1>13, <1>1 DEF RecordProgress, Types, Passes, next
  <2>4. QED BY <2>2, <2>3
<1>14. CASE Finish(j) \/ Fail(j)
  BY <1>1, <1>14 DEF Finish, Fail, Ended
<1>15. CASE HandBack(j)
  BY <1>1, <1>15 DEF HandBack, Types
<1>16. QED BY <1>2, <1>3, <1>4, <1>5, <1>6, <1>7, <1>8, <1>9, <1>10, <1>11, <1>12, <1>13, <1>14,
              <1>15 DEF Pass

LEMMA FilesTyped ==
  ASSUME Types, NEW j \in Jobs, NEW row \in Nat, pass[j].idx \in FileIds
  PROVE  WithLabel(j, row) \in [1..M -> [FileIds -> SUBSET Nat]]
<1> DEFINE s == j[1]
           k == pass[j].idx
           new == IF ~pass[j].writing THEN {row}
                  ELSE IF files[s][k] = Absent THEN files[s][k] ELSE files[s][k] \union {row}
<1>1. s \in 1..M /\ files[s][k] \in SUBSET Nat
  BY JobParts DEF Types
<1>2. new \in SUBSET Nat
  BY <1>1
<1>3. WithLabel(j, row) = [files EXCEPT ![s] = [files[s] EXCEPT ![k] = new]]
  BY <1>1 DEF WithLabel, Types
<1> HIDE DEF new
<1>4. QED BY <1>1, <1>2, <1>3 DEF Types

LEMMA PassKeepsTypes ==
  ASSUME Types, NEW j \in Jobs, Pass(j)
  PROVE  Types'
<1>1. pass' \in [Jobs -> Passes]
  BY PassTyped
<1>2. pass[j] \in Passes /\ j[1] \in 1..M /\ Jobs \subseteq Hooks
  BY JobParts, HookNames DEF Types
<1>3. CASE Start(j) \/ HandBack(j)
  <2>1. job' = [job EXCEPT ![j] = "active"] \/ job' = [job EXCEPT ![j] = "waiting"]
    BY <1>3 DEF Start, HandBack
  <2>2. job' \in [Jobs -> Held \union {"none", "over"}]
    BY <2>1 DEF Types, Held
  <2>3. UNCHANGED <<run, state, cursor, files, fresh, follow, hook, acked, slipped, crashes>>
    BY <1>3 DEF Start, HandBack, table, control, ghost
  <2>4. QED BY <1>1, <2>2, <2>3 DEF Types
<1>4. CASE MarkRunning(j)
  BY <1>1, <1>4 DEF Types, MarkRunning, control, ghost, Blocking, Deciding
<1>5. CASE OpenSink(j) \/ Submit(j) \/ LastDrain(j) \/ Thrown(j) \/ Drained(j) \/ CloseLabels(j)
  BY <1>1, <1>5 DEF Types, OpenSink, Submit, LastDrain, Thrown, Drained, CloseLabels, table,
                    control, ghost
<1>6. ASSUME NEW row \in RowIds, Acknowledge(j, row)
      PROVE  Types'
  <2>1. row \in Nat /\ acked[j[1]] \union {row} \in SUBSET Nat
    BY <1>2, <1>6 DEF Acknowledge, Passes, Types
  <2>2. acked' \in [1..M -> SUBSET Nat]
    BY <2>1, <1>6 DEF Acknowledge, Types
  <2>3. QED BY <1>1, <1>6, <2>2 DEF Acknowledge, Types, table, control
<1>7. ASSUME NEW row \in RowIds, Drop(j, row)
      PROVE  Types'
  <2>1. row \in Nat
    BY <1>2, <1>7 DEF Drop, Passes
  <2>2. files' \in [1..M -> [FileIds -> SUBSET Nat]]
    BY <2>1, <1>7, FilesTyped DEF Drop
  <2>3. QED BY <1>1, <1>7, <2>2 DEF Drop, Types, table, control, ghost
<1>8. CASE Trip(j)
  <2>1. PICK row \in pass[j].open, end \in {"ack", "label", "retry"} :
          /\ acked' = IF end = "ack" THEN [acked EXCEPT ![j[1]] = @ \union {row}] ELSE acked
          /\ end = "label" => pass[j].idx \in FileIds
          /\ files' = IF end = "label" THEN WithLabel(j, row) ELSE files
          /\ slipped' = slipped
             \/ slipped' = [slipped EXCEPT ![j[1]] = @ \union pass[j].open]
             \/ slipped' = [slipped EXCEPT ![j[1]] = @ \union (pass[j].open \ {row})]
    BY <1>8 DEF Trip
  <2>2. row \in Nat /\ pass[j].open \in SUBSET Nat
    BY <1>2 DEF Passes
  <2>3. files' \in [1..M -> [FileIds -> SUBSET Nat]]
    BY <2>1, <2>2, FilesTyped DEF Types
  <2>4. acked[j[1]] \union {row} \in SUBSET Nat
    BY <1>2, <2>2 DEF Types
  <2>5. acked' \in [1..M -> SUBSET Nat]
    BY <2>1, <2>4 DEF Types
  <2>6. /\ slipped[j[1]] \union pass[j].open \in SUBSET Nat
        /\ slipped[j[1]] \union (pass[j].open \ {row}) \in SUBSET Nat
    BY <1>2, <2>2 DEF Types
  <2>7. slipped' \in [1..M -> SUBSET Nat]
    BY <2>1, <2>6 DEF Types
  <2>8. UNCHANGED <<run, table, job, fresh, control, hook, line, up, crashes, overlapped>>
    BY <1>8 DEF Trip
  <2>9. QED BY <1>1, <2>3, <2>5, <2>7, <2>8 DEF Types, table, control
<1>9. CASE RecordProgress(j)
  <2>1. pass[j].pos \in Nat
    BY <1>2 DEF Passes
  <2>2. QED BY <1>1, <1>9, <2>1 DEF Types, RecordProgress, control, ghost
<1>10. CASE Finish(j)
  BY <1>1, <1>2, <1>10 DEF Types, Finish, Ended, control, ghost, Blocking, Deciding
<1>11. CASE Fail(j)
  <2>1. files' \in [1..M -> [FileIds -> SUBSET Nat]]
    <3>1. files[j[1]] \in [FileIds -> SUBSET Nat] /\ Absent \in SUBSET Nat
      BY <1>2 DEF Types, Absent
    <3>2. [files[j[1]] EXCEPT ![pass[j].idx] = Absent] \in [FileIds -> SUBSET Nat]
      BY <3>1
    <3>3. files' = files \/ files' = [files EXCEPT ![j[1]] =
                                        [files[j[1]] EXCEPT ![pass[j].idx] = Absent]]
      BY <1>2, <1>11 DEF Fail, Types
    <3>4. QED BY <3>2, <3>3, <1>2 DEF Types
  <2>2. QED BY <1>1, <1>2, <1>11, <2>1 DEF Types, Fail, Ended, control, ghost, Blocking, Deciding
<1>12. QED BY <1>3, <1>4, <1>5, <1>6, <1>7, <1>8, <1>9, <1>10, <1>11 DEF Pass

(* Whoever decides about the live stream goes a step on, or returns.        *)
LEMMA Decided ==
  ASSUME NEW h \in Hooks, Decide(h)
  PROVE  /\ UNCHANGED <<run, table, files, pass, fresh, control, crashes, ghost>>
         /\ hook[h] # "idle"
         /\ \/ Returned(h)
            \/ /\ \E to \in {"create", "session", "queue"} : hook' = [hook EXCEPT ![h] = to]
               /\ job' = job
<1>1. CASE CheckReplays(h)
  BY <1>1 DEF CheckReplays
<1>2. CASE CreateStream(h)
  BY <1>2 DEF CreateStream
<1>3. CASE StartSession(h)
  BY <1>3 DEF StartSession
<1>4. CASE QueueDrive(h)
  BY <1>4 DEF QueueDrive
<1>5. QED BY <1>1, <1>2, <1>3, <1>4 DEF Decide, GoLive

LEMMA TypesKept ==
  ASSUME Types, [Next]_vars
  PROVE  Types'
<1>1. ASSUME NEW j \in Jobs, Pass(j) PROVE Types'
  BY <1>1, PassKeepsTypes
<1>2. CASE Launch
  BY <1>2, HookNames DEF Launch, CreateRow, EnqueueRow, RowsCreated, Types, table, control, ghost,
                         Blocking, Held, Deciding
<1>3. ASSUME NEW h \in Hooks, Decide(h) PROVE Types'
  <2>1. /\ UNCHANGED <<run, table, files, pass, fresh, control, crashes, ghost>>
        /\ \/ Returned(h)
           \/ /\ \E to \in {"create", "session", "queue"} : hook' = [hook EXCEPT ![h] = to]
              /\ job' = job
    BY <1>3, Decided
  <2>2. CASE Returned(h)
    BY <2>1, <2>2 DEF Returned, Types, Deciding, table, control, ghost
  <2>3. CASE /\ \E to \in {"create", "session", "queue"} : hook' = [hook EXCEPT ![h] = to]
             /\ job' = job
    BY <2>1, <2>3 DEF Types, Deciding, table, control, ghost
  <2>4. QED BY <2>1, <2>2, <2>3
<1>4. ASSUME NEW r \in Requests,
             (\E op \in {"retry", "skip"}, s \in Sinks : Ask(r, op, s)) \/ AskStart(r)
      PROVE  Types'
  BY <1>4 DEF Ask, AskStart, Types, Deciding, table, ghost
<1>5. ASSUME NEW r \in Requests, Serve(r) PROVE Types'
  BY <1>5 DEF Serve, MarkRetried, EnqueueRetry, SkipDelivery, EnqueueFresh, Types, table, ghost,
              Blocking, Held, Deciding
<1>6. CASE Restart
  BY <1>6 DEF Restart, Types, table, ghost
<1>7. CASE Boot
  BY <1>7 DEF Boot, LookForJob, StopStream, Reconcile, EnqueueFresh, Types, table, ghost, Held
<1>8. CASE Crash
  <2>1. files' \in [1..M -> [FileIds -> SUBSET Nat]]
    BY <1>8 DEF Crash, Types
  <2>2. job' \in [Jobs -> Held \union {"none", "over"}]
    BY <1>8 DEF Crash, Types, Held
  <2>3. pass' \in [Jobs -> Passes]
    BY <1>8 DEF Crash, Passes, Idle
  <2>4. hook' \in [Hooks -> Deciding]
    BY <1>8 DEF Crash, Types, Deciding
  <2>5. /\ follow' \in [at : {"create", "enqueue", "over"}, sink : Nat] /\ crashes' \in Nat
        /\ UNCHANGED <<run, state, cursor, fresh, acked, slipped>>
    BY <1>8 DEF Crash, Types, table, ghost
  <2>6. QED BY <2>1, <2>2, <2>3, <2>4, <2>5 DEF Types
<1>9. CASE UNCHANGED vars
  BY <1>9 DEF vars, table, control, ghost, Types
<1>10. QED BY <1>1, <1>2, <1>3, <1>4, <1>5, <1>6, <1>7, <1>8, <1>9 DEF Next

-----------------------------------------------------------------------------
(* Jobs, their passes and their look at the live stream stay in step.       *)

(* The steps of a pass between its first and its last. *)
Moves(j) ==
  \/ MarkRunning(j) \/ OpenSink(j) \/ Submit(j) \/ LastDrain(j) \/ Thrown(j)
  \/ \E row \in RowIds : Acknowledge(j, row) \/ Drop(j, row)
  \/ Trip(j) \/ Drained(j) \/ CloseLabels(j) \/ RecordProgress(j)

LEMMA Moving ==
  ASSUME Types, JobsMatch, NEW j \in Jobs, Moves(j)
  PROVE  /\ pass[j].at # "idle" /\ pass'[j].at # "idle"
         /\ \A i \in Jobs : i # j => pass'[i] = pass[i]
         /\ UNCHANGED <<job, hook, fresh, follow, run, crashes, overlapped>>
<1> USE DEF Moves
<1>1. \A i \in Jobs : i # j => pass'[i] = pass[i]
  BY ZenonT(30) DEF Types, MarkRunning, OpenSink, Submit, LastDrain, Thrown, Acknowledge, Drop,
                    Trip, Drained, CloseLabels, RecordProgress
<1>2. pass[j].at # "idle"
  <2>1. pass[j].at = "idle" => pass[j].open = {}
    BY DEF JobsMatch, Idle
  <2>2. QED BY <2>1 DEF MarkRunning, OpenSink, Submit, LastDrain, Thrown, Acknowledge, Drop, Trip,
                        Drained, CloseLabels, RecordProgress
<1>3. pass'[j].at # "idle"
  <2> USE <1>2 DEF Types, Passes
  <2>1. CASE MarkRunning(j) \/ OpenSink(j) \/ LastDrain(j) \/ Thrown(j) \/ Drained(j)
    BY <2>1 DEF MarkRunning, OpenSink, LastDrain, Thrown, Drained
  <2>2. CASE Submit(j) \/ CloseLabels(j) \/ RecordProgress(j)
    <3>1. CASE Submit(j)
      BY <3>1 DEF Submit
    <3>2. CASE CloseLabels(j)
      BY <3>2 DEF CloseLabels
    <3>3. CASE RecordProgress(j)
      BY <3>3 DEF RecordProgress
    <3>4. QED BY <2>2, <3>1, <3>2, <3>3
  <2>3. CASE \E row \in RowIds : Acknowledge(j, row) \/ Drop(j, row)
    <3>1. PICK row \in RowIds : Acknowledge(j, row) \/ Drop(j, row)
      BY <2>3
    <3>2. CASE Acknowledge(j, row)
      BY <3>2 DEF Acknowledge
    <3>3. CASE Drop(j, row)
      BY <3>3, ZenonT(30) DEF Drop
    <3>4. QED BY <3>1, <3>2, <3>3
  <2>4. CASE Trip(j)
    <3>1. PICK end \in {"ack", "label", "retry"}, next \in {"sending", "saving", "failing"} :
            pass' = [pass EXCEPT ![j].open = {}, ![j].broken = TRUE, ![j].at = next,
                                 ![j].dropped = @ \/ end = "label",
                                 ![j].writing = @ \/ end = "label"]
      BY <2>4, ZenonT(30) DEF Trip
    <3>2. QED BY <3>1
  <2>5. QED BY <2>1, <2>2, <2>3, <2>4
<1>4. UNCHANGED <<job, hook, fresh, follow, run, crashes, overlapped>>
  BY DEF MarkRunning, OpenSink, Submit, LastDrain, Thrown, Acknowledge, Drop, Trip, Drained,
         CloseLabels, RecordProgress, control, ghost
<1>5. QED BY <1>1, <1>2, <1>3, <1>4

LEMMA JobsKept ==
  ASSUME Types, JobsMatch, [Next]_vars
  PROVE  JobsMatch'
<1>1. Idle.at = "idle"
  BY DEF Idle
<1>2. ASSUME NEW j \in Jobs, Start(j) PROVE JobsMatch'
  <2>1. pass'[j].at # "idle" /\ hook[j] = "idle" /\ job[j] = "waiting"
    BY <1>2 DEF Start, Types, JobsMatch, Idle
  <2>2. \A i \in Jobs : i # j => pass'[i] = pass[i] /\ job'[i] = job[i]
    BY <1>2 DEF Start, Types
  <2>3. job'[j] = "active" /\ hook' = hook /\ fresh' = fresh /\ follow' = follow
    BY <1>2 DEF Start, Types, control
  <2>4. QED BY <2>1, <2>2, <2>3 DEF JobsMatch
<1>3. ASSUME NEW j \in Jobs, Moves(j) PROVE JobsMatch'
  <2>1. /\ pass[j].at # "idle" /\ pass'[j].at # "idle"
        /\ \A i \in Jobs : i # j => pass'[i] = pass[i]
        /\ UNCHANGED <<job, hook, fresh, follow>>
    BY <1>3, Moving
  <2>2. QED BY <2>1 DEF JobsMatch
<1>4. ASSUME NEW j \in Jobs, Finish(j) \/ Fail(j) PROVE JobsMatch'
  <2>1. /\ pass[j].at # "idle" /\ pass' = [pass EXCEPT ![j] = Idle]
        /\ hook' = [hook EXCEPT ![j] = "check"]
        /\ UNCHANGED <<job, fresh, follow>>
    BY <1>4 DEF Finish, Fail, Ended, control
  <2>2. QED BY <1>1, <2>1, HookNames DEF JobsMatch, Types
<1>5. ASSUME NEW j \in Jobs, HandBack(j) PROVE JobsMatch'
  BY <1>5 DEF HandBack, control, JobsMatch, Types
<1>6. CASE CreateRow
  BY <1>6 DEF CreateRow, JobsMatch, Types
<1>7. CASE EnqueueRow
  <2> DEFINE i == <<follow.sink, 0>>
  <2>1. /\ job' = [job EXCEPT ![i] = "waiting"]
        /\ follow' = [at |-> "create", sink |-> follow.sink + 1]
        /\ UNCHANGED <<pass, hook, fresh>> /\ follow.at = "enqueue"
    BY <1>7 DEF EnqueueRow
  <2>2. \A j \in Jobs : j # i => job'[j] = job[j]
    BY <2>1 DEF Types
  <2>3. ASSUME i \in Jobs PROVE job[i] = "none" /\ job'[i] = "waiting" /\ fresh >= 0
    BY <2>1, <2>3 DEF JobsMatch, Types
  <2>4. ASSUME NEW j \in Jobs, j[1] >= follow.sink + 1, j[2] = 0 PROVE job'[j] = "none"
    <3>1. j # i /\ j[1] >= follow.sink
      BY <2>4, JobParts DEF Types
    <3>2. QED BY <2>1, <2>2, <2>4, <3>1 DEF JobsMatch
  <2>5. ASSUME NEW j \in Jobs
        PROVE  /\ pass[j].at # "idle" => job'[j] = "active" /\ hook[j] = "idle"
               /\ hook[j] # "idle" => job'[j] = "active"
               /\ j[2] > fresh => job'[j] = "none"
               /\ pass[j].at = "idle" => pass[j] = Idle
    <3>1. CASE j = i
      <4>1. job[j] = "none" /\ j[2] = 0 /\ fresh \in Nat
        BY <2>3, <3>1 DEF Types
      <4>2. QED BY <4>1 DEF JobsMatch
    <3>2. CASE j # i
      BY <2>2, <3>2 DEF JobsMatch
    <3>3. QED BY <3>1, <3>2
  <2>6. QED BY <2>1, <2>4, <2>5 DEF JobsMatch
<1>8. CASE RowsCreated
  BY <1>8, HookNames DEF RowsCreated, JobsMatch, Types, table, ghost
<1>9. ASSUME NEW h \in Hooks, Decide(h) PROVE JobsMatch'
  <2>1. UNCHANGED <<pass, fresh, follow>> /\ hook[h] # "idle"
        /\ \/ Returned(h)
           \/ /\ \E to \in {"create", "session", "queue"} : hook' = [hook EXCEPT ![h] = to]
              /\ job' = job
    BY <1>9, Decided DEF control
  <2>2. h \in Jobs => pass[h].at = "idle" /\ job[h] = "active"
    BY <2>1 DEF JobsMatch
  <2>3. CASE Returned(h)
    BY <2>1, <2>2, <2>3, HookNames DEF Returned, JobsMatch, Types
  <2>4. CASE /\ \E to \in {"create", "session", "queue"} : hook' = [hook EXCEPT ![h] = to]
             /\ job' = job
    BY <2>1, <2>2, <2>4, HookNames DEF JobsMatch, Types
  <2>5. QED BY <2>1, <2>3, <2>4
<1>10. ASSUME NEW r \in Requests,
              \/ \E op \in {"retry", "skip"}, s \in Sinks : Ask(r, op, s)
              \/ AskStart(r) \/ MarkRetried(r) \/ SkipDelivery(r)
       PROVE  JobsMatch'
  <2>1. UNCHANGED <<pass, job, fresh, follow>>
        /\ (hook' = hook \/ hook' = [hook EXCEPT ![<<r>>] = "check"])
    BY <1>10 DEF Ask, AskStart, MarkRetried, SkipDelivery
  <2>2. \A j \in Jobs : hook'[j] = hook[j]
    BY <2>1, HookNames DEF Types
  <2>3. QED BY <2>1, <2>2 DEF JobsMatch
<1>11. ASSUME UNCHANGED <<pass, hook, follow>>,
              UNCHANGED <<job, fresh>> \/ \E s : EnqueueFresh(s)
       PROVE  JobsMatch'
  <2>1. CASE UNCHANGED <<job, fresh>>
    BY <1>11, <2>1 DEF JobsMatch
  <2>2. ASSUME NEW s, EnqueueFresh(s) PROVE JobsMatch'
    <3> DEFINE i == <<s, fresh + 1>>
    <3>1. fresh' = fresh + 1 /\ job' = [job EXCEPT ![i] = "waiting"] /\ fresh \in Nat
      BY <2>2 DEF EnqueueFresh, Types
    <3>2. \A j \in Jobs : j # i => job'[j] = job[j]
      BY <3>1 DEF Types
    <3>3. i \in Jobs => job[i] = "none"
      BY <3>1 DEF JobsMatch
    <3>4. ASSUME NEW j \in Jobs
          PROVE  /\ pass[j].at # "idle" => job'[j] = "active" /\ hook[j] = "idle"
                 /\ hook[j] # "idle" => job'[j] = "active"
                 /\ j[2] > fresh + 1 => job'[j] = "none"
                 /\ j[2] = 0 => job'[j] = job[j]
                 /\ pass[j].at = "idle" => pass[j] = Idle
      BY <3>1, <3>2, <3>3, JobParts DEF JobsMatch
    <3>5. QED BY <1>11, <3>1, <3>4 DEF JobsMatch
  <2>3. QED BY <1>11, <2>1, <2>2
<1>12. ASSUME NEW r \in Requests, EnqueueRetry(r) PROVE JobsMatch'
  BY <1>11, <1>12 DEF EnqueueRetry
<1>13. CASE Boot
  BY <1>11, <1>13 DEF Boot, LookForJob, StopStream, Reconcile
<1>14. CASE Restart
  BY <1>11, <1>14 DEF Restart
<1>15. CASE Crash
  <2>1. \A j \in Jobs : /\ pass'[j] = Idle /\ hook'[j] = "idle"
                        /\ job[j] = "none" => job'[j] = "none"
    <3>1. job' = [j \in Jobs |-> IF job[j] = "active" THEN "stalled" ELSE job[j]]
      BY <1>15 DEF Crash
    <3>2. pass' = [j \in Jobs |-> Idle]
      BY <1>15 DEF Crash
    <3>3. hook' = [h \in Hooks |-> IF h \in InWorker THEN "idle" ELSE hook[h]]
      BY <1>15 DEF Crash
    <3>4. Jobs \subseteq Hooks /\ Jobs \subseteq InWorker
      BY HookNames DEF InWorker
    <3>5. QED BY <3>1, <3>2, <3>3, <3>4
  <2>2. fresh' = fresh /\ follow'.at = "over"
    BY <1>15 DEF Crash, Types
  <2>3. QED BY <1>1, <2>1, <2>2 DEF JobsMatch
<1>16. CASE UNCHANGED vars
  BY <1>11, <1>16 DEF vars, control
<1>17. QED BY <1>2, <1>3, <1>4, <1>5, <1>6, <1>7, <1>8, <1>9, <1>10, <1>12, <1>13, <1>14, <1>15,
              <1>16 DEF Next, Pass, Serve, Launch, Moves

-----------------------------------------------------------------------------
(* Every step keeps every sink's replay in order.                           *)

(* What the lemmas about one record ask of their arguments.                 *)
LEMMA SinkTyped ==
  ASSUME Types, NEW j \in Jobs
  PROVE  /\ pass[j] \in Passes /\ j[1] \in 1..M
         /\ cursor[j[1]] \in Nat /\ files[j[1]] \in [FileIds -> SUBSET Nat]
         /\ acked[j[1]] \union slipped[j[1]] \in SUBSET Nat
         /\ run.rows \in Nat /\ crashes \in Nat
BY JobParts DEF Types

LEMMA Labelling ==
  ASSUME Types, NEW j \in Jobs, NEW row \in pass[j].open, pass[j].idx \in FileIds,
         SinkOK(pass[j], cursor[j[1]], files[j[1]], acked[j[1]] \union slipped[j[1]], run.rows,
                crashes),
         NEW q, q = [pass[j] EXCEPT !.open = pass[j].open \ {row}, !.dropped = TRUE,
                       !.writing = TRUE]
  PROVE  SinkOK(q, cursor[j[1]], WithLabel(j, row)[j[1]], acked[j[1]] \union slipped[j[1]],
                run.rows, crashes)
<1> DEFINE s == j[1]
           p == pass[j]
           g == WithLabel(j, row)[s]
<1>1. /\ p \in Passes /\ s \in 1..M /\ cursor[s] \in Nat /\ files[s] \in [FileIds -> SUBSET Nat]
      /\ acked[s] \union slipped[s] \in SUBSET Nat /\ run.rows \in Nat /\ crashes \in Nat
  BY SinkTyped
<1>2. g = LabelIn(files[s], p, row)
  BY <1>1 DEF WithLabel, LabelIn, Types
<1>3. /\ q.at = p.at /\ q.pos = p.pos /\ q.open = p.open \ {row} /\ q.writing = TRUE
      /\ q.idx = p.idx /\ q.broken = p.broken /\ q.final = p.final
  BY <1>1 DEF Passes
<1> HIDE DEF g
<1>4. SinkOK(q, cursor[s], g, acked[s] \union slipped[s], run.rows, crashes)
  BY <1>1, <1>2, <1>3, DropOK
<1>5. QED BY <1>4 DEF g

(* The breaker trips: the row that completes has its outcome, the rest is   *)
(* abandoned.                                                               *)
LEMMA Tripping ==
  ASSUME Types, NEW j \in Jobs, Trip(j)
  PROVE  /\ \A t \in 1..M : t # j[1] =>
              files'[t] = files[t] /\ acked'[t] = acked[t] /\ slipped'[t] = slipped[t]
         /\ state' = state /\ cursor' = cursor
         /\ SinkOK(pass[j], cursor[j[1]], files[j[1]], acked[j[1]] \union slipped[j[1]], run.rows,
                   crashes)
              => SinkOK(pass'[j], cursor[j[1]], files'[j[1]], acked'[j[1]] \union slipped'[j[1]],
                        run.rows, crashes)
<1> DEFINE s == j[1]
           p == pass[j]
           q == pass'[j]
           c == cursor[s]
           A == acked[s] \union slipped[s]
<1>1. /\ p \in Passes /\ s \in 1..M /\ cursor[s] \in Nat /\ files[s] \in [FileIds -> SUBSET Nat]
      /\ A \in SUBSET Nat /\ run.rows \in Nat /\ crashes \in Nat
      /\ p.dropped \in BOOLEAN /\ p.writing \in BOOLEAN /\ p.open \in SUBSET Nat
  BY SinkTyped DEF Passes
<1> DEFINE Lost(end, row) == IF end = "retry" THEN p.open ELSE p.open \ {row}
<1>2. PICK row \in p.open, end \in {"ack", "label", "retry"},
           next \in {"sending", "saving", "failing"} :
        /\ acked' = IF end = "ack" THEN [acked EXCEPT ![s] = @ \union {row}] ELSE acked
        /\ end = "label" => p.idx \in FileIds
        /\ files' = IF end = "label" THEN WithLabel(j, row) ELSE files
        /\ next = "sending" <=> p.at = "sending"
        /\ next = "saving" => end # "label"
        /\ pass' = [pass EXCEPT ![j].open = {}, ![j].broken = TRUE, ![j].at = next,
                                ![j].dropped = @ \/ end = "label",
                                ![j].writing = @ \/ end = "label"]
        /\ slipped' = IF next = "saving"
                      THEN [slipped EXCEPT ![s] = @ \union Lost(end, row)] ELSE slipped
  <2>1. PICK row \in p.open, end \in {"ack", "label", "retry"} :
          /\ acked' = IF end = "ack" THEN [acked EXCEPT ![s] = @ \union {row}] ELSE acked
          /\ end = "label" => p.idx \in FileIds
          /\ files' = IF end = "label" THEN WithLabel(j, row) ELSE files
          /\ \E next \in {"sending", "saving", "failing"} :
               /\ next = "sending" <=> p.at = "sending"
               /\ next = "saving" => end # "label"
               /\ next = "failing" => end = "label" \/ Lost(end, row) # {}
               /\ pass' = [pass EXCEPT ![j].open = {}, ![j].broken = TRUE, ![j].at = next,
                              ![j].dropped = @ \/ end = "label",
                              ![j].writing = @ \/ end = "label"]
               /\ slipped' = IF next = "saving"
                             THEN [slipped EXCEPT ![s] = @ \union Lost(end, row)] ELSE slipped
    BY Zenon DEF Trip
  <2> HIDE DEF Lost
  <2>2. QED BY <2>1, Zenon
<1>3. p.at \in {"sending", "draining"} /\ ~p.broken /\ state' = state /\ cursor' = cursor
  BY DEF Trip, table
<1>4. \A t \in 1..M : t # s =>
        files'[t] = files[t] /\ acked'[t] = acked[t] /\ slipped'[t] = slipped[t]
  BY <1>1, <1>2 DEF Types, WithLabel
<1> DEFINE B == IF next = "saving" THEN Lost(end, row) ELSE {}
           N == IF end = "ack" THEN {row} ELSE {}
<1> HIDE DEF Lost
<1>5. acked'[s] \union slipped'[s] = (A \union N) \union B /\ B \in SUBSET Nat
      /\ A \union N \in SUBSET Nat
  BY <1>1, <1>2 DEF Types, Lost
<1>6. /\ q.at = next /\ q.pos = p.pos /\ q.open = {} /\ q.idx = p.idx /\ q.broken = TRUE
      /\ q.final = p.final
  BY <1>1, <1>2 DEF Types, Passes
<1>7. IF end = "label" THEN q.writing = TRUE ELSE q.writing = p.writing
  BY <1>1, <1>2 DEF Types, Passes
<1>8. SUFFICES ASSUME SinkOK(p, c, files[s], A, run.rows, crashes)
               PROVE  SinkOK(q, c, files'[s], (A \union N) \union B, run.rows, crashes)
  BY <1>3, <1>4, <1>5
<1>9. CASE end = "label"
  <2> DEFINE r == [p EXCEPT !.open = p.open \ {row}, !.dropped = TRUE, !.writing = TRUE]
  <2>1. /\ r \in Passes /\ r.at = p.at /\ r.pos = p.pos /\ r.idx = p.idx /\ r.broken = p.broken
        /\ r.writing = TRUE /\ r.final = p.final
    BY <1>1 DEF Passes
  <2>2. N = {} /\ A \union {} = A /\ files'[s] = WithLabel(j, row)[s] /\ p.idx \in FileIds
    BY <1>2, <1>9
  <2>3. files'[s] \in [FileIds -> SUBSET Nat]
    <3>1. row \in Nat
      BY <1>1
    <3>2. WithLabel(j, row) \in [1..M -> [FileIds -> SUBSET Nat]]
      BY <2>2, <3>1, FilesTyped
    <3>3. QED BY <1>1, <2>2, <3>2
  <2>4. next = "saving" => r.open \subseteq B
    BY <1>2, <1>9
  <2>5. SinkOK(r, c, files'[s], A, run.rows, crashes)
    BY <1>8, <2>2, Labelling
  <2> HIDE DEF r, B, N
  <2>6. /\ r.at \in {"sending", "draining"} /\ ~r.broken /\ (next = "sending" => r.at = "sending")
        /\ q.pos = r.pos /\ q.idx = r.idx /\ q.writing = r.writing /\ q.final = r.final
    BY <1>2, <1>3, <1>6, <1>7, <1>9, <2>1
  <2>7. SinkOK(q, c, files'[s], A \union B, run.rows, crashes)
    BY <1>1, <1>5, <1>6, <2>1, <2>3, <2>4, <2>5, <2>6, AbandonOK
  <2>8. QED BY <2>2, <2>7
<1>10. CASE end # "label"
  <2> DEFINE r == [p EXCEPT !.open = IF end = "ack" THEN p.open \ {row} ELSE p.open]
  <2>1. /\ r \in Passes /\ r.at = p.at /\ r.pos = p.pos /\ r.idx = p.idx /\ r.broken = p.broken
        /\ r.writing = p.writing /\ r.final = p.final
    BY <1>1 DEF Passes
  <2>2. files'[s] = files[s] /\ (next = "saving" => r.open \subseteq B)
    BY <1>1, <1>2, <1>10 DEF Passes, Lost
  <2>3. SinkOK(r, c, files[s], A \union N, run.rows, crashes)
    <3>1. CASE end = "ack"
      <4>1. r = [p EXCEPT !.open = p.open \ {row}] /\ N = {row}
        BY <3>1
      <4>2. QED BY <1>1, <1>8, <4>1, AcknowledgeOK
    <3>2. CASE end # "ack"
      <4>1. r = p /\ A \union N = A
        BY <1>1, <3>2 DEF Passes
      <4>2. QED BY <1>8, <4>1
    <3>3. QED BY <3>1, <3>2
  <2> HIDE DEF r, B, N
  <2>4. /\ r.at \in {"sending", "draining"} /\ ~r.broken /\ (next = "sending" => r.at = "sending")
        /\ q.pos = r.pos /\ q.idx = r.idx /\ q.writing = r.writing /\ q.final = r.final
    BY <1>2, <1>3, <1>6, <1>7, <1>10, <2>1
  <2>5. SinkOK(q, c, files[s], (A \union N) \union B, run.rows, crashes)
    BY <1>1, <1>5, <1>6, <2>1, <2>2, <2>3, <2>4, AbandonOK
  <2>6. QED BY <2>2, <2>5
<1>11. QED BY <1>9, <1>10

LEMMA MovesInOrder ==
  ASSUME Types, JobsMatch, \A s \in 1..M : Replaying(s), NEW j \in Jobs, Moves(j)
  PROVE  \A s \in 1..M : Replaying(s)'
<1> DEFINE s == j[1]
           p == pass[j]
           q == pass'[j]
           A == acked[s] \union slipped[s]
           OK == SinkOK(p, cursor[s], files[s], A, run.rows, crashes)
           OKThen == SinkOK(q, cursor'[s], files'[s], acked'[s] \union slipped'[s], run.rows,
                            crashes)
<1>1. /\ p \in Passes /\ s \in 1..M /\ cursor[s] \in Nat /\ files[s] \in [FileIds -> SUBSET Nat]
      /\ A \in SUBSET Nat /\ run.rows \in Nat /\ crashes \in Nat
  BY SinkTyped
<1>2. /\ p.at # "idle" /\ q.at # "idle" /\ \A i \in Jobs : i # j => pass'[i] = pass[i]
      /\ UNCHANGED <<run, crashes, overlapped>>
  BY Moving
<1>3. SUFFICES /\ \A t \in 1..M : t # s =>
                    /\ cursor'[t] = cursor[t] /\ files'[t] = files[t] /\ state'[t] = state[t]
                    /\ acked'[t] = acked[t] /\ slipped'[t] = slipped[t]
               /\ OK => OKThen
               /\ state'[s] = "done" =>
                    state[s] = "done" /\ (OK /\ cursor[s] = run.rows => cursor'[s] = run.rows)
  BY <1>2, PassMoves
<1>4. CASE MarkRunning(j)
  <2>1. /\ state' = [state EXCEPT ![s] = "running"] /\ UNCHANGED <<cursor, files, acked, slipped>>
        /\ q = [p EXCEPT !.at = "open"] /\ p.at = "mark"
    BY <1>1, <1>4 DEF MarkRunning, ghost, Types, Passes
  <2>2. OK => OKThen
    BY <1>1, <2>1, MarkOK
  <2>3. QED BY <1>1, <2>1, <2>2 DEF Types
<1>5. CASE OpenSink(j)
  <2>1. UNCHANGED <<state, cursor, files, acked, slipped>> /\ p.at = "open"
    BY <1>5 DEF OpenSink, table, ghost
  <2>2. PICK next \in {"sending", "failing"} :
          q = [p EXCEPT !.at = next, !.idx = Cardinality({k \in FileIds : files[s][k] # Absent})]
    BY <1>1, <1>5 DEF OpenSink, Types, Passes
  <2>3. OK => OKThen
    BY <1>1, <2>1, <2>2, OpenOK
  <2>4. QED BY <2>1, <2>3
<1>6. CASE Submit(j)
  <2>1. UNCHANGED <<state, cursor, files, acked, slipped>>
        /\ p.at = "sending" /\ ~p.broken /\ p.pos < run.rows
    BY <1>6 DEF Submit, table, ghost
  <2>2. PICK next \in {"sending", "draining"} :
          q = [p EXCEPT !.pos = p.pos + 1, !.open = p.open \union {p.pos + 1},
                        !.since = p.since + 1, !.at = next]
    BY <1>1, <1>6 DEF Submit, Types, Passes
  <2>3. OK => OKThen
    BY <1>1, <2>1, <2>2, SubmitOK
  <2>4. QED BY <2>1, <2>3
<1>7. CASE LastDrain(j)
  <2>1. /\ UNCHANGED <<state, cursor, files, acked, slipped>>
        /\ q = [p EXCEPT !.at = "draining", !.final = TRUE]
        /\ p.at = "sending" /\ ~p.broken /\ p.pos = run.rows
    BY <1>1, <1>7 DEF LastDrain, table, ghost, Types, Passes
  <2>2. OK => OKThen
    BY <1>1, <2>1, LastOK
  <2>3. QED BY <2>1, <2>2
<1>8. CASE Thrown(j)
  <2>1. /\ UNCHANGED <<state, cursor, files, acked, slipped>>
        /\ q = [p EXCEPT !.at = "failing"] /\ p.at = "sending" /\ p.broken
    BY <1>1, <1>8 DEF Thrown, table, ghost, Types, Passes
  <2>2. OK => OKThen
    BY <1>1, <2>1, ThrownOK
  <2>3. QED BY <2>1, <2>2
<1>9. CASE \E row \in RowIds : Acknowledge(j, row)
  <2>1. PICK row \in RowIds : Acknowledge(j, row)
    BY <1>9
  <2>2. /\ row \in p.open /\ UNCHANGED <<state, cursor, files, slipped>>
        /\ acked' = [acked EXCEPT ![s] = @ \union {row}]
        /\ q = [p EXCEPT !.open = p.open \ {row}]
    BY <1>1, <2>1 DEF Acknowledge, table, Types, Passes
  <2>3. /\ acked'[s] \union slipped'[s] = A \union {row}
        /\ \A t \in 1..M : t # s => acked'[t] = acked[t]
    BY <1>1, <2>2 DEF Types
  <2>4. OK => SinkOK(q, cursor[s], files[s], A \union {row}, run.rows, crashes)
    BY <1>1, <2>2, AcknowledgeOK
  <2>5. QED BY <2>2, <2>3, <2>4
<1>10. CASE \E row \in RowIds : Drop(j, row)
  <2>1. PICK row \in RowIds : Drop(j, row)
    BY <1>10
  <2>2. /\ row \in p.open /\ UNCHANGED <<state, cursor, acked, slipped>>
        /\ files' = WithLabel(j, row) /\ p.idx \in FileIds
        /\ q = [p EXCEPT !.open = p.open \ {row}, !.dropped = TRUE, !.writing = TRUE]
    BY <1>1, <2>1 DEF Drop, table, ghost, Types, Passes
  <2>3. \A t \in 1..M : t # s => files'[t] = files[t]
    BY <2>2 DEF WithLabel, Types
  <2>4. OK => SinkOK(q, cursor[s], files'[s], A, run.rows, crashes)
    BY <1>1, <2>2, Labelling
  <2>5. QED BY <2>2, <2>3, <2>4
<1>11. CASE Trip(j)
  BY <1>1, <1>3, <1>11, Tripping
<1>12. CASE Drained(j)
  <2>1. /\ UNCHANGED <<state, cursor, files, acked, slipped>>
        /\ q = [p EXCEPT !.at = "saving"] /\ p.at = "draining" /\ ~p.broken /\ p.open = {}
    BY <1>1, <1>12 DEF Drained, table, ghost, Types, Passes
  <2>2. OK => OKThen
    BY <1>1, <2>1, DrainedOK
  <2>3. QED BY <2>1, <2>2
<1>13. CASE CloseLabels(j)
  <2>1. /\ UNCHANGED <<state, cursor, files, acked, slipped>> /\ p.at = "saving"
        /\ q = [p EXCEPT !.at = "recording", !.writing = FALSE,
                         !.idx = IF p.writing THEN p.idx + 1 ELSE p.idx]
    BY <1>1, <1>13 DEF CloseLabels, table, ghost, Types, Passes
  <2>2. OK => OKThen
    BY <1>1, <2>1, CloseOK
  <2>3. QED BY <2>1, <2>2
<1>14. CASE RecordProgress(j)
  <2>1. /\ UNCHANGED <<state, files, acked, slipped>> /\ p.at = "recording"
        /\ q = [p EXCEPT !.since = 0, !.at = IF p.final THEN "finishing" ELSE "sending"]
        /\ cursor' = [cursor EXCEPT ![s] = p.pos]
    BY <1>1, <1>14 DEF RecordProgress, ghost, Types, Passes
  <2>2. cursor'[s] = p.pos /\ \A t \in 1..M : t # s => cursor'[t] = cursor[t]
    BY <1>1, <2>1 DEF Types
  <2>3. OK => SinkOK(q, p.pos, files[s], A, run.rows, crashes)
    BY <1>1, <2>1, RecordOK
  <2>4. OK /\ cursor[s] = run.rows => cursor'[s] = run.rows
    BY <1>1, <2>2 DEF SinkOK, PassOK, Passes
  <2>5. QED BY <2>1, <2>2, <2>3, <2>4
<1>15. QED BY <1>4, <1>5, <1>6, <1>7, <1>8, <1>9, <1>10, <1>11, <1>12, <1>13, <1>14 DEF Moves

LEMMA EndsInOrder ==
  ASSUME Types, \A s \in 1..M : Replaying(s), NEW j \in Jobs, Finish(j) \/ Fail(j)
  PROVE  \A s \in 1..M : Replaying(s)'
<1> DEFINE s == j[1]
           p == pass[j]
           A == acked[s] \union slipped[s]
           OK == SinkOK(p, cursor[s], files[s], A, run.rows, crashes)
<1>1. /\ p \in Passes /\ s \in 1..M /\ cursor[s] \in Nat /\ files[s] \in [FileIds -> SUBSET Nat]
      /\ A \in SUBSET Nat /\ run.rows \in Nat /\ crashes \in Nat
  BY SinkTyped
<1>2. /\ p.at # "idle" /\ pass'[j].at = "idle" /\ \A i \in Jobs : i # j => pass'[i] = pass[i]
      /\ UNCHANGED <<run, cursor, crashes, acked, slipped, overlapped>>
  BY DEF Finish, Fail, Ended, Types, Idle, ghost
<1>3. \A t \in 1..M : t # s => files'[t] = files[t] /\ state'[t] = state[t]
  BY DEF Finish, Fail, Ended, Types
<1>4. OK => /\ SinkOK(Resting(cursor[s]), cursor[s], files'[s], A, run.rows, crashes)
            /\ state'[s] = "done" => cursor[s] = run.rows
  <2>1. CASE Finish(j)
    <3>1. p.at = "finishing" /\ files' = files
      BY <2>1 DEF Finish
    <3>2. QED BY <1>1, <3>1, FinishOK
  <2>2. CASE Fail(j)
    <3>1. p.at = "failing" /\ state'[s] = "failed"
      BY <1>1, <2>2 DEF Fail, Ended, Types
    <3>2. \A k \in FileIds : files'[s][k] = IF p.writing /\ k = p.idx THEN Absent ELSE files[s][k]
      <4>1. CASE p.writing
        BY <1>1, <2>2, <4>1 DEF Fail, Types
      <4>2. CASE ~p.writing
        BY <2>2, <4>2 DEF Fail
      <4>3. QED BY <4>1, <4>2
    <3>3. QED BY <1>1, <3>1, <3>2, FailOK
  <2>3. QED BY <2>1, <2>2
<1>5. QED BY <1>2, <1>3, <1>4, PassEnds

(* A pass that finds another on its sink marks the sink as replayed twice.  *)
LEMMA StartsInOrder ==
  ASSUME Types, JobsMatch, \A s \in 1..M : Replaying(s), NEW j \in Jobs, Start(j)
  PROVE  \A s \in 1..M : Replaying(s)'
<1> DEFINE r == j[1]
           A == acked[r] \union slipped[r]
<1>1. /\ r \in 1..M /\ cursor[r] \in Nat /\ files[r] \in [FileIds -> SUBSET Nat]
      /\ A \in SUBSET Nat /\ run.rows \in Nat /\ crashes \in Nat
  BY SinkTyped
<1>2. /\ pass'[j] = [Idle EXCEPT !.at = "mark", !.pos = cursor[r]]
      /\ \A i \in Jobs : i # j => pass'[i] = pass[i]
      /\ UNCHANGED <<run, state, cursor, files, crashes, acked, slipped>>
      /\ overlapped \subseteq overlapped'
      /\ (\E i \in Jobs : i # j /\ i[1] = r /\ pass[i].at # "idle") => r \in overlapped'
  BY DEF Start, Types, table
<1>3. pass[j].at = "idle" /\ pass'[j].at # "idle"
  <2>1. job[j] # "active"
    BY DEF Start
  <2>2. QED BY <1>2, <2>1 DEF JobsMatch, Idle
<1> TAKE s \in 1..M
<1>4. CASE s # r
  BY <1>2, <1>4, SinkRests
<1>5. CASE s = r
  <2> SUFFICES ASSUME s \notin overlapped' PROVE Replaying(s)'
    BY DEF Replaying
  <2>1. \A i \in Jobs : ~On(s, i) /\ (On(s, i)' <=> i = j)
    BY <1>2, <1>3, <1>5 DEF On
  <2>2. /\ SinkOK(Resting(cursor[s]), cursor[s], files[s], A, run.rows, crashes)
        /\ state[s] = "done" => cursor[s] = run.rows
    BY <1>2, <1>5, <2>1 DEF Replaying
  <2>3. SinkOK(pass'[j], cursor[s], files[s], A, run.rows, crashes)
    BY <1>1, <1>2, <1>5, <2>2, StartOK
  <2>4. QED BY <1>2, <1>5, <2>1, <2>2, <2>3 DEF Replaying
<1>6. QED BY <1>4, <1>5

LEMMA CrashInOrder ==
  ASSUME Types, JobsMatch, \A s \in 1..M : Replaying(s), Crash
  PROVE  \A s \in 1..M : Replaying(s)'
<1> TAKE s \in 1..M
<1> SUFFICES ASSUME s \notin overlapped' PROVE Replaying(s)'
  BY DEF Replaying
<1> DEFINE A == acked[s] \union slipped[s]
           c == cursor[s]
           Inert(p) == /\ \A j \in Jobs : j[1] = s /\ pass[j].writing => p = pass[j]
                       /\ p.writing => \E j \in Jobs : j[1] = s /\ p = pass[j]
<1>1. /\ c \in Nat /\ files[s] \in [FileIds -> SUBSET Nat] /\ A \in SUBSET Nat /\ run.rows \in Nat
      /\ crashes \in Nat /\ crashes' = crashes + 1
      /\ UNCHANGED <<run, state, cursor, acked, slipped, overlapped>>
      /\ \A j \in Jobs : ~On(s, j)'
  BY DEF Crash, Types, table, ghost, On, Idle
<1>2. \A k \in FileIds : files'[s][k] = IF k \in Unread(s) THEN {} ELSE files[s][k]
  BY DEF Crash
<1>3. files'[s] \in [FileIds -> SUBSET Nat]
  BY TypesKept DEF Types, Next
<1>4. state[s] = "done" => c = run.rows
  BY <1>1 DEF Replaying
<1>5. PICK p \in Passes : /\ SinkOK(p, c, files[s], A, run.rows, crashes)
                          /\ \A k \in Unread(s) : p.writing /\ k = p.idx
                          /\ p.writing => p.idx \in Unread(s)
  <2>1. \A j \in Jobs : pass[j].writing => pass[j].at # "idle"
    BY DEF JobsMatch, Idle
  <2>2. CASE \E j \in Jobs : On(s, j)
    <3>1. PICK j \in Jobs : On(s, j)
      BY <2>2
    <3>2. \A i \in Jobs : i[1] = s /\ pass[i].writing => i = j
      BY <1>1, <2>1, <3>1 DEF Replaying, On
    <3>3. SinkOK(pass[j], c, files[s], A, run.rows, crashes)
      BY <1>1, <3>1 DEF Replaying
    <3>4. QED BY <3>1, <3>2, <3>3 DEF Unread, On, Types
  <2>3. CASE \A j \in Jobs : ~On(s, j)
    <3>1. SinkOK(Resting(c), c, files[s], A, run.rows, crashes)
      BY <1>1, <2>3 DEF Replaying
    <3>2. Unread(s) = {}
      BY <2>1, <2>3 DEF Unread, On
    <3>3. Resting(c) \in Passes /\ ~Resting(c).writing
      BY <1>1 DEF Resting, Idle, Passes
    <3>4. QED BY <3>1, <3>2, <3>3
  <2>4. QED BY <2>2, <2>3
<1>6. \A k \in FileIds : files'[s][k] = IF p.writing /\ k = p.idx THEN {} ELSE files[s][k]
  BY <1>2, <1>5
<1>7. \A more \in Nat \ {0} : SinkOK(Resting(c), c, files'[s], A, run.rows, more)
  BY <1>1, <1>3, <1>5, <1>6, CrashOK
<1>8. SinkOK(Resting(c), c, files'[s], A, run.rows, crashes + 1)
  <2>1. crashes + 1 \in Nat \ {0}
    BY <1>1
  <2>2. QED BY <1>7, <2>1
<1>9. QED BY <1>1, <1>4, <1>8 DEF Replaying

LEMMA SinksKept ==
  ASSUME Types, JobsMatch, \A s \in 1..M : Replaying(s), [Next]_vars
  PROVE  \A s \in 1..M : Replaying(s)'
<1>1. ASSUME UNCHANGED <<run, cursor, files, pass, crashes, acked, slipped, overlapped>>,
             \A s \in 1..M : state'[s] = "done" => state[s] = "done"
      PROVE  \A s \in 1..M : Replaying(s)'
  BY <1>1, SinkRests
<1>2. ASSUME NEW j \in Jobs, Pass(j) PROVE \A s \in 1..M : Replaying(s)'
  <2>1. CASE HandBack(j)
    BY <1>1, <2>1 DEF HandBack, table, ghost
  <2>2. CASE Start(j) \/ Moves(j) \/ Finish(j) \/ Fail(j)
    BY <2>2, StartsInOrder, MovesInOrder, EndsInOrder
  <2>3. QED BY <1>2, <2>1, <2>2 DEF Pass, Moves
<1>3. CASE Crash
  BY <1>3, CrashInOrder
<1>4. CASE Launch
  BY <1>1, <1>4 DEF Launch, CreateRow, EnqueueRow, RowsCreated, table, ghost, Types
<1>5. ASSUME NEW h \in Hooks, Decide(h) PROVE \A s \in 1..M : Replaying(s)'
  BY <1>1, <1>5, Decided DEF table, ghost
<1>6. ASSUME NEW r \in Requests,
             \/ \E op \in {"retry", "skip"}, s \in Sinks : Ask(r, op, s)
             \/ AskStart(r) \/ Serve(r)
      PROVE  \A s \in 1..M : Replaying(s)'
  BY <1>1, <1>6 DEF Ask, AskStart, Serve, MarkRetried, EnqueueRetry, SkipDelivery, table, ghost,
                    Types
<1>7. CASE Restart \/ Boot \/ UNCHANGED vars
  BY <1>1, <1>7 DEF Restart, Boot, LookForJob, StopStream, Reconcile, vars, table, ghost
<1>8. QED BY <1>2, <1>3, <1>4, <1>5, <1>6, <1>7 DEF Next

(* At the launch every sink rests at its first row. *)
LEMMA Launched ==
  ASSUME Init
  PROVE  IInv
<1>1. M \in Nat \ {0} /\ Crashes \in Nat /\ Rows \in Nat
  BY ReplayAssumption
<1>2. Types
  BY <1>1 DEF Init, Types, Passes, Idle, Absent, Deciding
<1>3. JobsMatch
  BY HookNames DEF Init, JobsMatch, Idle
<1>4. ASSUME NEW s \in 1..M PROVE Replaying(s)
  <2>1. /\ \A j \in Jobs : ~On(s, j)
        /\ cursor[s] = 0 /\ state[s] = "none" /\ \A k \in FileIds : files[s][k] = Absent
        /\ run.rows \in Nat
    BY <1>1 DEF Init, On, Idle
  <2>2. NumberedTo(files[s], 0)
    <3>1. \A k \in FileIds : ~(k < 0)
      BY Numbers
    <3>2. QED BY <2>1, <3>1 DEF NumberedTo
  <2>3. PassOK(Resting(0), 0, files[s], acked[s] \union slipped[s], run.rows)
    BY <2>1, <2>2 DEF PassOK, Resting, Idle, Ahead, Whole
  <2>4. LabelsOK(Resting(0), 0, files[s])
    BY <2>1 DEF LabelsOK, Resting, Idle, Absent
  <2>5. QED BY <2>1, <2>3, <2>4 DEF Replaying, SinkOK
<1>5. QED BY <1>2, <1>3, <1>4 DEF IInv

-----------------------------------------------------------------------------
(* The inductive invariant holds of every run of the model.                 *)
THEOREM ReplayInvariant == Spec => []IInv
<1>1. Init => IInv
  BY Launched
<1>2. IInv /\ [Next]_vars => IInv'
  BY TypesKept, JobsKept, SinksKept DEF IInv
<1>3. QED BY <1>1, <1>2, PTL DEF Spec

LEMMA SinksNumbered == IInv => Sinks \subseteq 1..M
BY ReplayAssumption DEF IInv, Types, Sinks

LEMMA Covered == IInv => CursorCovered
<1> SUFFICES ASSUME IInv, NEW s \in Sinks \ overlapped, NEW x \in 1..cursor[s]
             PROVE  x \in Settled(s)
  BY DEF CursorCovered
<1>1. s \in 1..M /\ s \notin overlapped /\ x # 0
  BY SinksNumbered
<1>2. \E p : SinkOK(p, cursor[s], files[s], acked[s] \union slipped[s], run.rows, crashes)
  BY <1>1 DEF IInv, Replaying
<1>3. PICK p : Kept(x, p, files[s], acked[s] \union slipped[s])
  BY <1>2 DEF SinkOK, PassOK
<1>4. CASE \E k \in FileIds : x \in files[s][k]
  <2>1. x \in UNION {files[s][k] : k \in FileIds}
    BY <1>4
  <2>2. x \in Labelled(s)
    BY <1>1, <2>1 DEF Labelled, Absent
  <2>3. QED BY <2>2 DEF Settled
<1>5. x \in acked[s] \/ x \in slipped[s] \/ \E k \in FileIds : x \in files[s][k]
  BY <1>3 DEF Kept
<1>6. CASE x \in acked[s] \/ x \in slipped[s]
  BY <1>6 DEF Settled
<1>7. QED BY <1>4, <1>5, <1>6

(* CursorCovered: whatever failed, was retried or died, the saved cursor    *)
(* covers only rows with an outcome.                                        *)
THEOREM ResumesCovered == Spec => []CursorCovered
BY ReplayInvariant, Covered, PTL

LEMMA Once == IInv => LabelledOnce
<1> SUFFICES ASSUME IInv, crashes = 0, NEW s \in Sinks \ overlapped,
                    NEW k \in FileIds, NEW l \in FileIds, k # l
             PROVE  files[s][k] \cap files[s][l] \subseteq Absent
  BY DEF LabelledOnce
<1>1. s \in 1..M
  BY SinksNumbered
<1>2. \E p : SinkOK(p, cursor[s], files[s], acked[s] \union slipped[s], run.rows, crashes)
  BY <1>1 DEF IInv, Replaying
<1>3. QED BY <1>2 DEF SinkOK, LabelsOK

(* LabelledOnce: without a crash no row is labelled dropped in two files.   *)
THEOREM LabelsDiscarded == Spec => []LabelledOnce
BY ReplayInvariant, Once, PTL

(* Nobody gets to create the stream but by hasBlocking() finding nothing.   *)
LEMMA OnlyChecks ==
  ASSUME Types, [Next]_vars, NEW h \in Hooks, hook[h] = "check", hook'[h] = "create"
  PROVE  \A s \in Sinks : state[s] \notin Blocking
<1>1. ASSUME NEW g \in Hooks, CheckReplays(g) PROVE \A s \in Sinks : state[s] \notin Blocking
  <2>1. CASE \A s \in Sinks : state[s] \notin Blocking
    BY <2>1
  <2>2. CASE Returned(g)
    BY <2>2 DEF Returned, Types
  <2>3. QED BY <1>1, <2>1, <2>2 DEF CheckReplays
<1>2. ASSUME NEW g \in Hooks, GoLive(g) PROVE FALSE
  BY <1>2 DEF GoLive, CreateStream, StartSession, QueueDrive, Returned, Types
<1>3. CASE Launch
  BY <1>3 DEF Launch, CreateRow, EnqueueRow, RowsCreated, Types
<1>4. ASSUME NEW r \in Requests,
             \/ \E op \in {"retry", "skip"}, s \in Sinks : Ask(r, op, s)
             \/ AskStart(r) \/ Serve(r)
      PROVE  FALSE
  BY <1>4 DEF Ask, AskStart, Serve, MarkRetried, EnqueueRetry, SkipDelivery, Types
<1>5. ASSUME NEW j \in Jobs, Pass(j) PROVE FALSE
  <2>1. hook' = hook \/ hook' = [hook EXCEPT ![j] = "check"]
    BY <1>5 DEF Pass, Start, MarkRunning, OpenSink, Submit, LastDrain, Thrown, Acknowledge, Drop,
                Trip, Drained, CloseLabels, RecordProgress, Finish, Fail, Ended, HandBack
  <2>2. QED BY <2>1 DEF Types
<1>6. CASE Crash
  BY <1>6 DEF Crash
<1>7. CASE Restart \/ Boot \/ UNCHANGED vars
  BY <1>7 DEF Restart, Boot, LookForJob, StopStream, Reconcile, vars
<1>8. QED BY <1>1, <1>2, <1>3, <1>4, <1>5, <1>6, <1>7 DEF Next, Decide

(* ReplayBeforeLive: the check before going live lets nobody through while  *)
(* a sink neither skipped nor doubly replayed has a row to publish.         *)
THEOREM LiveAfterReplay == Spec => ReplayBeforeLive
<1> DEFINE Through == \A h \in Hooks :
             hook[h] = "check" /\ hook'[h] = "create" /\ (\A s \in Sinks : state[s] # "none")
               => \A s \in Sinks \ overlapped : state[s] = "skipped" \/ RowIds \subseteq Settled(s)
<1>1. ASSUME IInv, [Next]_vars PROVE [Through]_vars
  <2> SUFFICES ASSUME NEW h \in Hooks, hook[h] = "check", hook'[h] = "create",
                      \A s \in Sinks : state[s] # "none",
                      NEW s \in Sinks \ overlapped, state[s] # "skipped"
               PROVE  RowIds \subseteq Settled(s)
    OBVIOUS
  <2>1. \A t \in Sinks : state[t] \notin Blocking
    BY <1>1, OnlyChecks DEF IInv
  <2>2. s \in 1..M /\ s \notin overlapped /\ state[s] = "done"
    BY <1>1, <2>1, SinksNumbered DEF IInv, Types
  <2>3. cursor[s] = run.rows
    BY <1>1, <2>2 DEF IInv, Replaying
  <2>4. 1..cursor[s] \subseteq Settled(s)
    BY <1>1, Covered DEF CursorCovered
  <2>5. QED BY <2>3, <2>4 DEF RowIds
<1>2. QED BY <1>1, ReplayInvariant, PTL DEF Spec, ReplayBeforeLive
=============================================================================
