---------------------------- MODULE PartitionWorld ----------------------------
(***************************************************************************)
(* One partition of the simulated world, a day at a time: fraud campaigns  *)
(* are planned (packages/engine/src/fraud/planner.ts, planDay), the        *)
(* consumers spend (world/simulate-day.ts), and the scheduled fraud that   *)
(* falls into the day becomes events (drainDay).  The history's last world *)
(* and, in the live phase, the world before each day are checkpointed and  *)
(* may be restored (world/partition-world.ts, streaming/live-world.ts).    *)
(*                                                                         *)
(* The random stream is a tape of draws, read once per day: a world whose  *)
(* stream stands where a marked day's stood draws what that day drew.      *)
(* Time is in ticks, DayTicks to the day; amounts, names, merchants,       *)
(* outcomes and campaign ids are left out, a consumer spends at most once  *)
(* a day, and at most one campaign starts on a day.                        *)
(* A definition marked "slip" is not part of the model: it is a mistake    *)
(* the definition below it could contain, kept to show that a property     *)
(* of this module notices it.                                              *)
(***************************************************************************)
EXTENDS Integers, Sequences, FiniteSets, SequencesExt

CONSTANTS
  Consumers,     (* consumers of the partition                             *)
  HistoryDays,   (* clock.days                                             *)
  LastDay,       (* bound on simulated days                                *)
  DayTicks,      (* ticks of a day, an even number                         *)
  Moments,       (* the ticks of a day at which things are drawn to happen *)
  Spending,      (* what a consumer may do on a day                          *)
  DormancyDays,  (* dormancy_days of the account takeovers                 *)
  Steps,         (* drain_step_count, burst size, max_refunds_per_actor    *)
  StepGap,       (* ticks between the transfers of a takeover              *)
  RingSize,      (* PURCHASE_RING_SIZE (16)                                *)
  RefundDelay,   (* ticks a refund follows its purchase by, at least       *)
  LegitPerFraud, (* legitimate events that owe one fraud event per typology*)
  Expected       (* expectedLegitCount of a day                            *)

ASSUME WorldAssumption ==
  /\ IsFiniteSet(Consumers) /\ Consumers # {}
  /\ {HistoryDays, DayTicks, Steps, RingSize, LegitPerFraud} \subseteq Nat \ {0}
  /\ {LastDay, DormancyDays, StepGap, RefundDelay, Expected} \subseteq Nat
  /\ Moments \subseteq 0..(DayTicks - 1)
  /\ Spending \subseteq [type : {"none", "payment", "income_credit"}, at : Moments]
  /\ DormancyDays < HistoryDays     \* invariants/dormancy-satisfiable.ts

VARIABLES
  w,         (* PartitionWorld                                             *)
  day,       (* DayOutput of the day simulated last                        *)
  mark,      (* a live day's stored checkpoint, what the day drew and gave *)
  redone,    (* what the marked day gave when it was simulated again       *)
  produced,  (* history: fraud events produced, per typology               *)
  takeovers  (* history: takeovers planned whose day is not over           *)

ghost == <<produced, takeovers>>
vars  == <<w, day, mark, redone, ghost>>

Typologies == {"card_testing", "account_takeover", "refund_abuse"}
Awake      == -1                                \* dormantUntilMs is null
Nothing    == [none |-> TRUE]

Start(d) == d * DayTicks

(* drawTimeOfDay: the times of a day at which something is drawn to happen. *)
TimesOfDay(d) == {Start(d) + m : m \in Moments}

Cap(n, m) == IF n < m THEN n ELSE m
Later(a, b) == IF a > b THEN a ELSE b

NoPurchases == [entries |-> <<>>, head |-> 1]

Fresh ==
  [rng |-> 0, next |-> 0, dormant |-> [c \in Consumers |-> Awake], pending |-> {},
   ring |-> [c \in Consumers |-> NoPurchases],
   seq |-> 0, seen |-> 0, planned |-> [t \in Typologies |-> 0]]

Init ==
  /\ w = Fresh /\ day = {} /\ mark = Nothing /\ redone = Nothing
  /\ produced = [t \in Typologies |-> 0] /\ takeovers = {}

-----------------------------------------------------------------------------
(* What a day draws.                                                        *)

Anchors(d) ==
  IF d < HistoryDays THEN Cap(d + DormancyDays, HistoryDays - 1) .. (HistoryDays - 1)
                     ELSE {d + DormancyDays}

Owed(world) == (world.seen + Expected) \div LegitPerFraud

(* A typology of which less is planned than it is owed starts a campaign.   *)
Short(world, t) == world.planned[t] < Owed(world)

(* planDay: what may be drawn for one: its kind, whom it strikes, and when  *)
(* its first event is due.                                                  *)
Campaigns(world) ==
  LET d == world.next
      At(t, moments) == {[type |-> t, who |-> c, at |-> m] : c \in Consumers, m \in moments}
  IN  {Nothing}
      \union (IF Short(world, "card_testing") THEN At("card_testing", TimesOfDay(d)) ELSE {})
      \union (IF Short(world, "refund_abuse") THEN At("refund_abuse", TimesOfDay(d)) ELSE {})
      \union (IF Short(world, "account_takeover")
              THEN At("account_takeover",
                      {Start(a) + m : a \in Anchors(d), m \in {x \in Moments : 2 * x < DayTicks}})
              ELSE {})

(* Which of a ring's entries its refunds are made of.                       *)
Picks(c) == IF c # Nothing /\ c.type = "refund_abuse" THEN 1..RingSize ELSE {1}

(* A stream that stands where the marked day's stood gives the same draws;  *)
(* what comes of them depends on the rest of the world.                     *)
Draws(world) ==
  IF mark # Nothing /\ world.rng = mark.cp.rngState
  THEN {mark.draws}
  ELSE UNION {[campaign : {c}, spend : [Consumers -> Spending], pick : Picks(c)]
                : c \in Campaigns(world)}

-----------------------------------------------------------------------------
(* planDay: the events of a campaign go onto the heap, keyed by their time. *)
(* Only a typology that is short plans one; a takeover needs a victim that  *)
(* is awake, and puts it to sleep until its first transfer.                 *)

Gap(t) == IF t = "account_takeover" THEN StepGap ELSE 0

Scheduled(world, c) ==
  {[at |-> c.at + s * Gap(c.type), seq |-> world.seq + s, type |-> c.type, who |-> c.who]
     : s \in 0..(Steps - 1)}

Planned(world, c) ==
  IF \/ c = Nothing
     \/ ~Short(world, c.type)
     \/ c.type = "account_takeover" /\ world.dormant[c.who] # Awake
  THEN world
  ELSE [world EXCEPT
          !.pending = @ \union Scheduled(world, c), !.seq = @ + Steps,
          !.planned[c.type] = @ + Steps,
          !.dormant[c.who] = IF c.type = "account_takeover" THEN c.at ELSE @]

(* Slip: the victims are woken by the end of the day. *)
WokenEarly(world, d) ==
  [world EXCEPT !.dormant = [c \in Consumers |-> IF @[c] < Start(d + 1) THEN Awake ELSE @[c]]]

(* simulateDay wakes the victims whose time has come before the day began.  *)
Woken(world, d) ==
  [world EXCEPT !.dormant = [c \in Consumers |-> IF @[c] <= Start(d) THEN Awake ELSE @[c]]]

(* recordPurchase: the ring keeps the last RingSize purchases.              *)
Recorded(ring, ts) ==
  IF Len(ring.entries) < RingSize
  THEN [ring EXCEPT !.entries = Append(@, ts)]
  ELSE [entries |-> [ring.entries EXCEPT ![ring.head] = ts], head |-> (ring.head % RingSize) + 1]

(* The consumers' own events: none of a dormant victim before its time.     *)
Spends(world, spend, d, c) ==
  /\ spend[c].type # "none"
  /\ world.dormant[c] = Awake \/ Start(d) + spend[c].at >= world.dormant[c]

Legit(world, spend, d) ==
  {[ts |-> Start(d) + spend[c].at, type |-> spend[c].type, who |-> c, of |-> Awake]
     : c \in {x \in Consumers : Spends(world, spend, d, x)}}

Shopped(world, spend, d) ==
  [world EXCEPT !.ring =
     [c \in Consumers |->
        IF Spends(world, spend, d, c) /\ spend[c].type = "payment"
        THEN Recorded(@[c], Start(d) + spend[c].at) ELSE @[c]]]

(* drainDay: what is due by the end of the day.                             *)
Due(world, d) == {e \in world.pending : e.at < Start(d + 1)}

(* A refund is made of one of the consumer's recent purchases, at least     *)
(* RefundDelay after it; with nothing to refund, or no time left today, it  *)
(* is dropped and un-planned.                                               *)
Purchase(world, e, pick) ==
  world.ring[e.who].entries[((pick - 1) % Len(world.ring[e.who].entries)) + 1]

RefundAt(world, e, pick) == Later(e.at, Purchase(world, e, pick) + RefundDelay)

Dropped(world, e, d, pick) ==
  e.type = "refund_abuse" /\ (\/ world.ring[e.who].entries = <<>>
                              \/ RefundAt(world, e, pick) >= Start(d + 1))

(* Slip: a refund that is dropped stays planned. *)
DrainedStillPlanned(world, d, pick) == [world EXCEPT !.pending = @ \ Due(world, d)]

Drained(world, d, pick) ==
  LET gone == {e \in Due(world, d) : Dropped(world, e, d, pick)}
  IN  [world EXCEPT !.pending = @ \ Due(world, d),
                    !.planned["refund_abuse"] = @ - Cardinality(gone)]

Fraud(world, d, pick) ==
  LET sold == {e \in Due(world, d) : ~Dropped(world, e, d, pick)}
  IN  {IF e.type = "refund_abuse"
       THEN [ts |-> RefundAt(world, e, pick), type |-> e.type, who |-> e.who,
             seq |-> e.seq, of |-> Purchase(world, e, pick)]
       ELSE [ts |-> e.at, type |-> e.type, who |-> e.who, seq |-> e.seq, of |-> Awake]
         : e \in sold}

-----------------------------------------------------------------------------
(* simulateDay, whole: a world and what its day draws give the next world   *)
(* and the day's events.                                                    *)

Spent(world, draws) == Woken(Planned(world, draws.campaign), world.next)

Shops(world, draws) == Shopped(Spent(world, draws), draws.spend, world.next)

Output(world, draws) ==
  Legit(Spent(world, draws), draws.spend, world.next)
    \union {[ts |-> e.ts, type |-> e.type, who |-> e.who, of |-> e.of]
              : e \in Fraud(Shops(world, draws), world.next, draws.pick)}

NextWorld(world, draws) ==
  [Drained(Shops(world, draws), world.next, draws.pick) EXCEPT
     !.seen = @ + Cardinality(Legit(Spent(world, draws), draws.spend, world.next)),
     !.next = @ + 1, !.rng = @ + 1]

(* The takeover a day plans, and those whose day is still to come.          *)
Struck(world, draws) ==
  IF /\ draws.campaign # Nothing /\ draws.campaign.type = "account_takeover"
     /\ Short(world, "account_takeover") /\ world.dormant[draws.campaign.who] = Awake
  THEN {[who |-> draws.campaign.who, from |-> Start(world.next), anchor |-> draws.campaign.at,
         late |-> world.next >= HistoryDays]}
  ELSE {}

Simulate(draws) ==
  /\ w' = NextWorld(w, draws)
  /\ day' = Output(w, draws)
  /\ produced' = [t \in Typologies |->
       produced[t] + Cardinality({e \in Fraud(Shops(w, draws), w.next, draws.pick) : e.type = t})]
  /\ takeovers' = {k \in takeovers : k.anchor >= Start(w.next)} \union Struck(w, draws)

(* partition-worker.ts: the history, day by day.                            *)
HistoryDay ==
  /\ w.next < HistoryDays
  /\ \E draws \in Draws(w) : Simulate(draws)
  /\ UNCHANGED <<mark, redone>>

(* Slip: the map of recent purchases is stored as it is, which JSON makes   *)
(* an empty object of.                                                      *)
CheckpointMapAsIs(world) ==
  [rngState |-> world.rng, nextDayIndex |-> world.next,
   consumers |-> {[id |-> c, dormantUntilMs |-> world.dormant[c]] : c \in Consumers},
   pendingFraud |-> world.pending, recentPurchases |-> {}, scheduleSeq |-> world.seq,
   planner |-> [legitSeen |-> world.seen, fraudPlanned |-> world.planned]]

(* checkpointWorld: the world field by field, as it is stored.  A row per   *)
(* consumer; the heap as its items, whatever their layout; the map of       *)
(* recent purchases as its entries, one per consumer that bought something. *)
Checkpoint(world) ==
  [rngState |-> world.rng,
   nextDayIndex |-> world.next,
   consumers |-> {[id |-> c, dormantUntilMs |-> world.dormant[c]] : c \in Consumers},
   pendingFraud |-> world.pending,
   recentPurchases |-> {<<c, world.ring[c]>>
                          : c \in {x \in Consumers : world.ring[x].entries # <<>>}},
   scheduleSeq |-> world.seq,
   planner |-> [legitSeen |-> world.seen, fraudPlanned |-> world.planned]]

(* restoreWorld: a world built anew from what is stored.                    *)
Restored(cp) ==
  [rng |-> cp.rngState,
   next |-> cp.nextDayIndex,
   dormant |-> [c \in Consumers |-> (CHOOSE r \in cp.consumers : r.id = c).dormantUntilMs],
   pending |-> cp.pendingFraud,
   ring |-> [c \in Consumers |->
               IF \E p \in cp.recentPurchases : p[1] = c
               THEN (CHOOSE p \in cp.recentPurchases : p[1] = c)[2] ELSE NoPurchases],
   seq |-> cp.scheduleSeq,
   seen |-> cp.planner.legitSeen,
   planned |-> cp.planner.fraudPlanned]

(* advanceDay: a live day, and the checkpoint taken before it.  The session *)
(* that is to be continued may be at this day or at one marked before.      *)
LiveDay ==
  /\ w.next >= HistoryDays /\ w.next <= LastDay
  /\ \E draws \in Draws(w) :
       /\ Simulate(draws)
       /\ \/ mark = Nothing
             /\ mark' = [cp |-> Checkpoint(w), draws |-> draws, gave |-> Output(w, draws),
                         then |-> NextWorld(w, draws), ghost |-> ghost]
          \/ UNCHANGED mark
       /\ redone' = IF mark # Nothing /\ mark.cp.nextDayIndex = w.next
                    THEN [gave |-> Output(w, draws), then |-> NextWorld(w, draws)] ELSE redone

(* openLiveWorld: another session restores the marked day's checkpoint.     *)
Resume ==
  /\ mark # Nothing /\ w.next > mark.cp.nextDayIndex
  /\ w' = Restored(mark.cp) /\ day' = {}
  /\ produced' = mark.ghost[1] /\ takeovers' = mark.ghost[2]
  /\ UNCHANGED <<mark, redone>>

Next == HistoryDay \/ LiveDay \/ Resume

Spec == Init /\ [][Next]_vars

-----------------------------------------------------------------------------
(* The planner's feedback counts true: what it takes for planned is what it *)
(* has produced and what is still to come, whatever was dropped, spilled    *)
(* into later days, or restored.  A count that drifts plans too much fraud, *)
(* or none, for the rest of the stream.                                     *)
PlannedAccounted ==
  \A t \in Typologies :
    w.planned[t] = produced[t] + Cardinality({e \in w.pending : e.type = t})

(* "no normal spending occurs during that period": from the day a takeover  *)
(* is planned to its first transfer the victim does nothing of its own, in  *)
(* history and after it, and across a restore.                              *)
QuietVictims ==
  \A k \in takeovers : \A e \in day :
    e.type \in {"payment", "income_credit"} /\ e.who = k.who
      => e.ts < k.from \/ e.ts >= k.anchor

(* "a day can be re-simulated from the checkpoint taken before it and       *)
(* yields identical deliveries": the marked day, done again from what was   *)
(* stored, gives the same events and leaves the same world.  The stored     *)
(* form must hold all that a day depends on: a field that is not stored, or *)
(* is not rebuilt, shows as another day.                                    *)
DayRepeats == redone # Nothing => redone = [gave |-> mark.gave, then |-> mark.then]

(* Not checked: the code departs from it (README, "Departures").            *)
(* "takeover events occur only against accounts satisfying the              *)
(* precondition" (001 spec.md, US1-6): a takeover's victim has been dormant *)
(* for dormancy_days.                                                       *)
DormancyKept == \A k \in takeovers : k.anchor >= k.from + DormancyDays * DayTicks
=============================================================================
