------------------------------ MODULE LiveWorld ------------------------------
(***************************************************************************)
(* From the events of the simulated world to what each sink is sent: the   *)
(* imperfection transformers (packages/engine/src/imperfections), the      *)
(* history written partition by partition (apps/worker/src/pool/           *)
(* partition-worker.ts), and the live days merged and handed out in        *)
(* batches, opened again from a day's checkpoint after a stop or a crash   *)
(* (packages/engine/src/streaming/live-world.ts).                          *)
(*                                                                         *)
(* The world is a day number (PartitionWorld models a day); what its days  *)
(* give, and what a transformer's random stream draws, is a tape that is   *)
(* read again when a day is simulated again.  The partitions of the        *)
(* history share nothing and go a day at a time together.  Clock skew      *)
(* changes a payload and adds a label; it is left out, with the payloads.  *)
(* A definition marked "slip" is not part of the model (see                *)
(* PartitionWorld).                                                        *)
(***************************************************************************)
EXTENDS Integers, Sequences, FiniteSets, SequencesExt

CONSTANTS
  P,             (* partitions                                             *)
  Sinks,         (* the run's sinks                                        *)
  Plain,         (* sinks no imperfection applies to (appliesToSink)       *)
  HistoryDays,   (* clock.days                                             *)
  LastDay,       (* bound on simulated days                                *)
  DayTicks,      (* ticks of a day                                         *)
  Moments,       (* ticks of a day at which events happen                  *)
  EventsPerDay,  (* bound on a partition's events of a day                 *)
  EventsInAll,   (* bound on the events of all partitions                  *)
  Fates,         (* what the transformer may draw for an event             *)
  LateBy,        (* ticks a late event is late by                          *)
  BatchSize      (* maxEvents of nextBatch                                 *)

ASSUME LiveWorldAssumption ==
  /\ {P, HistoryDays, DayTicks, BatchSize} \subseteq Nat \ {0}
  /\ {LastDay, EventsPerDay, EventsInAll, LateBy} \subseteq Nat
  /\ IsFiniteSet(Sinks) /\ Sinks # {} /\ Plain \subseteq Sinks
  /\ Moments \subseteq 0..(DayTicks - 1)
  /\ Fates \subseteq [late : BOOLEAN, reorder : BOOLEAN, extras : Nat]

VARIABLES
  tape,      (* what the days give and the transformers draw, so far       *)
  next,      (* nextDayIndex of the worlds                                 *)
  tr,        (* the ImperfectionTransformer of each sink and partition     *)
  written,   (* what partition-worker wrote under delivered/<sink>/part-n  *)
  saved,     (* the checkpoint each partition's file holds                 *)
  live,      (* the LiveWorld of the session, once one is open             *)
  received,  (* history: what the sink was handed, over all sessions       *)
  base,      (* history: how much of it before the current day             *)
  first      (* history: each live day's deliveries, as first simulated    *)

ghost      == <<received, base, first>>
worldVars  == <<tape, next, tr, written, saved, live, ghost>>

Partitions == 1..P
Impaired   == Sinks \ Plain
Nothing    == [none |-> TRUE]
Whole      == [late |-> FALSE, reorder |-> FALSE, extras |-> 0]
Fresh      == [rng |-> 0, seq |-> 0, heap |-> {}, hold |-> Nothing]

Start(d)  == d * DayTicks
DayEnd(d) == Start(d + 1) - 1
Shorter(n, m) == IF n < m THEN n ELSE m

Each(value) == [s \in Sinks |-> [p \in Partitions |-> value]]

WorldInit ==
  /\ tape = [events |-> [p \in Partitions |-> <<>>], fates |-> Each(<<>>)]
  /\ next = 0 /\ tr = Each(Fresh) /\ written = Each(<<>>)
  /\ saved = Nothing /\ live = Nothing
  /\ received = [s \in Sinks |-> <<>>] /\ base = [s \in Sinks |-> 0]
  /\ first = [s \in Sinks |-> <<>>]

-----------------------------------------------------------------------------
(* ImperfectionTransformer.                                                 *)

(* One event's copies: the primary, then its duplicates.  An event is       *)
(* pushed once per sink, so its draft's number orders it among the others.  *)
Copies(p, seq, at, n) ==
  [i \in 1..(n + 1) |-> [of |-> <<p, seq>>, copy |-> i - 1, at |-> at, outOfOrder |-> FALSE]]

Draft(p, seq, ts, fate) ==
  LET at == ts + (IF fate.late THEN LateBy ELSE 0)
  IN  [at |-> at, seq |-> seq, items |-> Copies(p, seq, at, fate.extras), reorder |-> fate.reorder]

Push(t, p, ts, fate) ==
  [rng |-> t.rng + 1, seq |-> t.seq + 1, heap |-> t.heap \union {Draft(p, t.seq, ts, fate)},
   hold |-> t.hold]

Before(a, b) == a.at < b.at \/ (a.at = b.at /\ a.seq < b.seq)

Overtaken(items) == [i \in 1..Len(items) |-> [items[i] EXCEPT !.outOfOrder = i = 1]]

(* Slip: the label is written when a delivery is chosen to be overtaken. *)
EmitLabelled(acc, d) ==
  IF acc.hold # Nothing
  THEN [hold |-> Nothing, out |-> acc.out \o d.items \o acc.hold.items]
  ELSE IF d.reorder THEN [acc EXCEPT !.hold = [d EXCEPT !.items = Overtaken(d.items)]]
                    ELSE [acc EXCEPT !.out = @ \o d.items]

(* A delivery chosen to be overtaken waits in the one hold slot for the     *)
(* next one, whichever that is; the next goes first, and is not held.       *)
Emit(acc, d) ==
  IF acc.hold # Nothing
  THEN [hold |-> Nothing, out |-> acc.out \o d.items \o Overtaken(acc.hold.items)]
  ELSE IF d.reorder THEN [acc EXCEPT !.hold = d]
                    ELSE [acc EXCEPT !.out = @ \o d.items]

(* The heap, in the order it is popped.                                     *)
InOrder(drafts) ==
  CHOOSE f \in [1..Cardinality(drafts) -> drafts] : \A i, j \in DOMAIN f : i < j => Before(f[i], f[j])

Emitted(t, drafts) ==
  LET due == InOrder(drafts)
      upTo[i \in 0..Len(due)] == IF i = 0 THEN [hold |-> t.hold, out |-> <<>>]
                                          ELSE Emit(upTo[i - 1], due[i])
      end == upTo[Len(due)]
  IN  [t |-> [rng |-> t.rng, seq |-> t.seq, heap |-> t.heap \ drafts, hold |-> end.hold],
       out |-> end.out]

DrainUntil(t, time) == Emitted(t, {d \in t.heap : d.at <= time})

(* Slip: only what waits for the clock is flushed. *)
FlushHeap(t) == Emitted(t, t.heap)

Flush(t) ==
  LET end == Emitted(t, t.heap)
  IN  IF end.t.hold = Nothing THEN end
      ELSE [t |-> [end.t EXCEPT !.hold = Nothing], out |-> end.out \o end.t.hold.items]

-----------------------------------------------------------------------------
(* What the days give.                                                      *)

Plans ==
  UNION {{plan \in [1..n -> [at : Moments, fate : [Impaired -> Fates]]] :
            \A i, j \in 1..n : i < j => plan[i].at < plan[j].at} : n \in 0..EventsPerDay}

Happened(p) == Len(FlattenSeq(tape.events[p]))
InAll(f) == FoldFunction(+, 0, [p \in Partitions |-> f[p]])

(* A day not simulated before is drawn; the others are on the tape.         *)
Drawn(d) ==
  IF d < Len(tape.events[1]) THEN {tape}
  ELSE {[events |-> [p \in Partitions |->
                       Append(tape.events[p], [i \in 1..Len(plan[p]) |-> plan[p][i].at])],
         fates  |-> [s \in Sinks |-> [p \in Partitions |->
                       IF s \in Plain THEN <<>>
                       ELSE tape.fates[s][p] \o [i \in 1..Len(plan[p]) |-> plan[p][i].fate[s]]]]]
          : plan \in {f \in [Partitions -> Plans] :
                        InAll([p \in Partitions |-> Happened(p) + Len(f[p])]) <= EventsInAll}}

Fate(tp, s, p, i) ==
  IF s \in Plain \/ i > Len(tp.fates[s][p]) THEN Whole ELSE tp.fates[s][p][i]

(* The day's events of a partition, pushed in order.                        *)
Fed(tp, s, p, d, t) ==
  LET today == tp.events[p][d + 1]
      upTo[i \in 0..Len(today)] ==
        IF i = 0 THEN t
        ELSE Push(upTo[i - 1], p, Start(d) + today[i], Fate(tp, s, p, upTo[i - 1].rng + 1))
  IN  upTo[Len(today)]

(* A day of every transformer.                                              *)
Passed(tp, d) ==
  [s \in Sinks |-> [p \in Partitions |-> DrainUntil(Fed(tp, s, p, d, tr[s][p]), DayEnd(d))]]

-----------------------------------------------------------------------------
(* partition-worker.ts: the history, a day at a time, then the flush and    *)
(* the end-of-history checkpoint.                                           *)

GenerateDay ==
  /\ next < HistoryDays
  /\ \E tp \in Drawn(next) :
       LET passed == Passed(tp, next)
       IN  /\ tape' = tp
           /\ tr' = [s \in Sinks |-> [p \in Partitions |-> passed[s][p].t]]
           /\ written' = [s \in Sinks |-> [p \in Partitions |-> written[s][p] \o passed[s][p].out]]
  /\ next' = next + 1
  /\ UNCHANGED <<saved, live, ghost>>

EndHistory ==
  /\ next = HistoryDays /\ saved = Nothing
  /\ written' = [s \in Sinks |-> [p \in Partitions |-> written[s][p] \o Flush(tr[s][p]).out]]
  /\ tr' = [s \in Sinks |-> [p \in Partitions |-> Flush(tr[s][p]).t]]
  /\ saved' = [day |-> next, tr |-> tr']
  /\ UNCHANGED <<tape, next, live, ghost>>

-----------------------------------------------------------------------------
(* live-world.ts.                                                           *)

(* k-way merge: the earliest head, the lowest partition among equals.       *)
Head1(lists, heads, p) == lists[p][heads[p]].at

MergeStep(lists, acc) ==
  LET left == {p \in DOMAIN lists : acc.heads[p] <= Len(lists[p])}
      best == CHOOSE p \in left : \A q \in left :
                \/ Head1(lists, acc.heads, p) < Head1(lists, acc.heads, q)
                \/ Head1(lists, acc.heads, p) = Head1(lists, acc.heads, q) /\ p <= q
  IN  [heads |-> [acc.heads EXCEPT ![best] = @ + 1],
       out   |-> Append(acc.out, lists[best][acc.heads[best]])]

MergeByDeliveredAt(lists) ==
  LET total == Len(FlattenSeq(lists))
      upTo[i \in 0..total] == IF i = 0 THEN [heads |-> [p \in DOMAIN lists |-> 1], out |-> <<>>]
                                       ELSE MergeStep(lists, upTo[i - 1])
  IN  upTo[total].out

(* openLiveWorld: worlds and transformers from a checkpoint.                *)
Opened(skip) ==
  [current |-> Nothing, checkpoint |-> Nothing, cursor |-> 0, length |-> 0, skip |-> skip]

Open ==
  /\ saved # Nothing /\ live = Nothing
  /\ next' = saved.day /\ tr' = saved.tr /\ live' = Opened(0)
  /\ UNCHANGED <<tape, written, saved, ghost>>

(* Slip: the skip is kept for the days after the first. *)
AdvancedSkipping(day, checkpoint, longest) ==
  [current |-> day, checkpoint |-> checkpoint, length |-> longest,
   cursor |-> Shorter(live.skip, longest), skip |-> live.skip]

Advanced(day, checkpoint, longest) ==
  [current |-> day, checkpoint |-> checkpoint, length |-> longest,
   cursor |-> Shorter(live.skip, longest), skip |-> 0]

(* advanceDay, a turn of nextBatch's loop: days without deliveries are      *)
(* passed over.  The checkpoint is the world as it was before the day.      *)
AdvanceDay ==
  /\ live # Nothing /\ next <= LastDay
  /\ live.current = Nothing \/ live.cursor >= live.length
  /\ \E tp \in Drawn(next) :
       LET passed     == Passed(tp, next)
           deliveries == [s \in Sinks |->
                            MergeByDeliveredAt([p \in Partitions |-> passed[s][p].out])]
           Longest    == CHOOSE n \in {Len(deliveries[s]) : s \in Sinks} :
                           \A s \in Sinks : Len(deliveries[s]) <= n
           n          == next - HistoryDays
       IN  /\ tape' = tp
           /\ tr' = [s \in Sinks |-> [p \in Partitions |-> passed[s][p].t]]
           /\ live' = Advanced([day |-> next, deliveries |-> deliveries],
                               [day |-> next, tr |-> tr], Longest)
           /\ first' = [s \in Sinks |-> IF n < Len(first[s]) THEN first[s]
                                        ELSE Append(first[s], deliveries[s])]
  /\ base' = [s \in Sinks |-> IF live.skip > 0 THEN base[s] ELSE Len(received[s])]
  /\ next' = next + 1
  /\ UNCHANGED <<written, saved, received>>

(* nextBatch, once the current day has deliveries left.                     *)
NextBatch ==
  /\ live # Nothing /\ live.current # Nothing /\ live.cursor < live.length
  /\ LET to == Shorter(live.length, live.cursor + BatchSize)
         Slice(s) == LET all == live.current.deliveries[s]
                     IN  SubSeq(all, live.cursor + 1, Shorter(to, Len(all)))
     IN  /\ live' = [live EXCEPT !.cursor = to]
         /\ received' = [s \in Sinks |-> received[s] \o Slice(s)]
  /\ UNCHANGED <<tape, next, tr, written, saved, base, first>>

(* The session stops or crashes and another continues from the checkpoint   *)
(* of its day, after the deliveries of the day that were made: some of the  *)
(* last batch may not have been (StreamSession says which position it is).  *)
Restart ==
  /\ live # Nothing /\ live.current # Nothing
  /\ \E made \in 0..live.cursor :
       /\ made > live.cursor - BatchSize
       /\ next' = live.checkpoint.day /\ tr' = live.checkpoint.tr
       /\ live' = Opened(made)
       /\ received' = [s \in Sinks |->
            SubSeq(received[s], 1, Shorter(Len(received[s]), base[s] + made))]
  /\ UNCHANGED <<tape, written, saved, base, first>>

WorldNext == GenerateDay \/ EndHistory \/ Open \/ AdvanceDay \/ NextBatch \/ Restart

WorldSpec == WorldInit /\ [][WorldNext]_worldVars

-----------------------------------------------------------------------------
(* "Which is how a stopped or crashed session resumes without repeating or  *)
(* losing any": over all sessions, whatever was stopped where, a sink is    *)
(* handed the days' deliveries as they were first simulated, each once.     *)
Continues ==
  \A s \in Sinks :
    LET days == FlattenSeq(first[s])
    IN  /\ IsPrefix(received[s], days)
        /\ live # Nothing /\ live.current # Nothing =>
             LET today == live.current.deliveries[s]
                 before == FlattenSeq(SubSeq(first[s], 1, live.current.day - HistoryDays))
             IN  Len(received[s]) = Len(before) + Shorter(live.cursor, Len(today))

(* Every copy of every event is delivered once or still waits, through      *)
(* delays that cross days, the hold slot and the flush at the end of the    *)
(* history, and no checkpoint loses what waits; "the history stream is      *)
(* complete and the live phase starts from an empty transformer" (R9).      *)
Delivered(s) == FlattenSeq([p \in Partitions |-> written[s][p]]) \o FlattenSeq(first[s])

Waiting(s, p) == tr[s][p].heap \union ({tr[s][p].hold} \ {Nothing})

EachOnce ==
  \A s \in Sinks :
    LET sent == Delivered(s)
        id(x) == <<x.of, x.copy>>
        told == {id(sent[i]) : i \in 1..Len(sent)}
        kept == UNION {{id(d.items[i]) : i \in 1..Len(d.items)}
                         : d \in UNION {Waiting(s, p) : p \in Partitions}}
        copies(p, i) == {<<<<p, i - 1>>, c>> : c \in 0..Fate(tape, s, p, i).extras}
        due == UNION {UNION {copies(p, i) : i \in 1..Happened(p)} : p \in Partitions}
    IN  /\ saved # Nothing =>
             \A p \in Partitions : saved.tr[s][p].heap = {} /\ saved.tr[s][p].hold = Nothing
        /\ next = Len(tape.events[1]) =>
             /\ \A i, j \in 1..Len(sent) : i # j => id(sent[i]) # id(sent[j])
             /\ told \cap kept = {} /\ told \union kept = due

(* The answer key is right about order: of a partition's deliveries to a    *)
(* sink, a primary carries the out_of_order label exactly when something    *)
(* that should come after it came before it; in the history's file, and in  *)
(* the live days whatever was held overnight or across a restart.           *)
TellsOrder(list) ==
  \A i \in 1..Len(list) :
    list[i].copy = 0 =>
      (list[i].outOfOrder <=>
         \E j \in 1..(i - 1) : /\ list[j].of[1] = list[i].of[1]
                               /\ \/ list[j].at > list[i].at
                                  \/ list[j].at = list[i].at /\ list[j].of[2] > list[i].of[2])

LabelsTellOrder ==
  \A s \in Sinks :
    /\ \A p \in Partitions : TellsOrder(written[s][p])
    /\ TellsOrder(FlattenSeq(first[s]))

=============================================================================
