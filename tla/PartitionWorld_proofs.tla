------------------------- MODULE PartitionWorld_proofs -------------------------
(***************************************************************************)
(* One partition's world, for any consumers, lengths of day and history,   *)
(* drawn moments, campaigns and restores: the planner's counts are what it *)
(* produced and what is still to come, the victims of takeovers keep quiet *)
(* until the first transfer, and a day done again from its checkpoint      *)
(* gives the same events and leaves the same world.                        *)
(*                                                                         *)
(* And the exports of what was generated: one that completed, asked for    *)
(* when the files were whole, has all of it, for any partitions, segments, *)
(* drop files, exports, failed attempts and crashes.  The two components   *)
(* share no definition.                                                    *)
(***************************************************************************)
EXTENDS PartitionWorld, Exports, FiniteSetTheorems, WellFoundedInduction, TLAPS

Plan == [at : Nat, seq : Nat, type : Typologies, who : Consumers]

Ring == [entries : Seq(Nat), head : 1..RingSize]

World == [rng : Nat, next : Nat, dormant : [Consumers -> Nat \union {Awake}], pending : SUBSET Plan,
          ring : [Consumers -> Ring], seq : Nat, seen : Nat, planned : [Typologies -> Int]]

Campaign == [type : Typologies, who : Consumers, at : Nat]

Draw == [campaign : Campaign \union {Nothing}, spend : [Consumers -> Spending], pick : Nat]

Takeover == [who : Consumers, from : Nat, anchor : Nat, late : BOOLEAN]

(* A ring is as one that was filled an entry at a time, and no longer than  *)
(* it may be.                                                               *)
Fits(ring) == Len(ring.entries) <= RingSize /\ (ring.entries = <<>> => ring = NoPurchases)

(* The stream is read once a day.                                           *)
WellFormed(v) ==
  /\ v \in World /\ v.rng = v.next
  /\ \A c \in Consumers : Fits(v.ring[c])

(* The events of one typology; the numbers the heap gives tell them apart.  *)
Count(S, t) == Cardinality({e \in S : e.type = t})

Numbered(v) ==
  /\ IsFiniteSet(v.pending)
  /\ \A e \in v.pending : e.seq < v.seq
  /\ \A e, f \in v.pending : e.seq = f.seq => e = f

(* What is planned is what was made and what is pending.                    *)
Accounted(v, made) ==
  /\ made \in [Typologies -> Nat]
  /\ \A t \in Typologies : v.planned[t] = made[t] + Count(v.pending, t)

(* Whoever is to be taken over on a day to come sleeps until then.          *)
Dormant(v, struck) ==
  /\ struck \subseteq Takeover
  /\ \A k \in struck : k.anchor >= Start(v.next) => v.dormant[k.who] = k.anchor

(* A world with the histories that go with it. *)
Sound(v, made, struck) ==
  WellFormed(v) /\ Numbered(v) /\ Accounted(v, made) /\ Dormant(v, struck)

(* What is marked is, rebuilt, a day's world, with what it drew and what    *)
(* came of it; the session that continues is at it, or past it.             *)
Marked ==
  mark # Nothing =>
    LET marked == Restored(mark.cp)
    IN  /\ Sound(marked, mark.ghost[1], mark.ghost[2])
        /\ mark.draws \in Draw
        /\ mark.gave = Output(marked, mark.draws) /\ mark.then = NextWorld(marked, mark.draws)
        /\ w.next >= marked.next
        /\ w.next = marked.next => w = marked

Repeated ==
  /\ mark = Nothing => redone = Nothing
  /\ DayRepeats

IInv == Sound(w, produced, takeovers) /\ QuietVictims /\ Marked /\ Repeated

-----------------------------------------------------------------------------
(* Numbers and sizes.                                                       *)

LEMMA Numbers ==
  /\ IsFiniteSet(Consumers) /\ HistoryDays \in Nat \ {0} /\ DayTicks \in Nat \ {0}
  /\ Steps \in Nat \ {0} /\ RingSize \in Nat \ {0} /\ DormancyDays \in Nat /\ StepGap \in Nat
  /\ Moments \subseteq Nat /\ Awake = -1
  /\ Spending \subseteq [type : {"none", "payment", "income_credit"}, at : Moments]
BY WorldAssumption DEF Awake

LEMMA StartIsNat == ASSUME NEW d \in Nat PROVE Start(d) \in Nat
BY Numbers DEF Start

LEMMA DaysGoOn == ASSUME NEW d \in Nat PROVE Start(d) < Start(d + 1)
<1>1. DayTicks \in Nat \ {0}
  BY Numbers
<1>2. (d + 1) * DayTicks = d * DayTicks + DayTicks /\ d * DayTicks \in Nat
  BY <1>1
<1>3. QED BY <1>1, <1>2 DEF Start

(* A set reached from a finite one is finite, and as large when no two of   *)
(* its members are reached from one.                                        *)
LEMMA Reached ==
  ASSUME NEW S, IsFiniteSet(S), NEW T, NEW f \in [S -> T], \A y \in T : \E x \in S : f[x] = y
  PROVE  /\ IsFiniteSet(T) /\ Cardinality(T) \in Nat
         /\ (\A x, y \in S : f[x] = f[y] => x = y) => Cardinality(T) = Cardinality(S)
<1>1. f \in Surjection(S, T)
  BY DEF Surjection
<1>2. /\ IsFiniteSet(T)
      /\ Cardinality(T) = Cardinality(S) <=> f \in Injection(S, T)
  BY <1>1, FS_Surjection
<1>3. (\A x, y \in S : f[x] = f[y] => x = y) => f \in Injection(S, T)
  BY DEF Injection, IsInjective
<1>4. QED BY <1>2, <1>3, FS_CardinalityType

LEMMA CountUnion ==
  ASSUME NEW S, NEW T, IsFiniteSet(S), IsFiniteSet(T), S \cap T = {}, NEW t
  PROVE  /\ Count(S \union T, t) = Count(S, t) + Count(T, t)
         /\ Count(S, t) \in Nat /\ Count(T, t) \in Nat
<1> DEFINE A == {e \in S : e.type = t}
           B == {e \in T : e.type = t}
<1>1. IsFiniteSet(A) /\ IsFiniteSet(B)
  BY FS_Subset
<1>2. {e \in S \union T : e.type = t} = A \union B /\ A \cap B = {}
  OBVIOUS
<1>3. Cardinality(A) \in Nat /\ Cardinality(B) \in Nat
  BY <1>1, FS_CardinalityType
<1> HIDE DEF A, B
<1>4. Cardinality(A \union B) = Cardinality(A) + Cardinality(B)
  <2>1. Cardinality(A \union B) = Cardinality(A) + Cardinality(B) - Cardinality(A \cap B)
    BY <1>1, FS_Union, Zenon
  <2>2. Cardinality(A \cap B) = 0
    BY <1>2, FS_EmptySet
  <2>3. QED BY <1>3, <2>1, <2>2
<1>5. QED BY <1>2, <1>3, <1>4 DEF Count, A, B

-----------------------------------------------------------------------------
(* What a day may draw.                                                     *)

LEMMA CampaignsTyped ==
  ASSUME NEW v, WellFormed(v)
  PROVE  Campaigns(v) \subseteq Campaign \union {Nothing}
<1>1. v.next \in Nat
  BY DEF WellFormed, World
<1>2. Start(v.next) \in Nat /\ Moments \subseteq Nat
  BY <1>1, StartIsNat, Numbers
<1>3. TimesOfDay(v.next) \subseteq Nat
  <2>1. PICK s : s = Start(v.next)
    OBVIOUS
  <2>2. \A m \in Moments : s + m \in Nat
    <3> TAKE m \in Moments
    <3>1. s \in Nat /\ m \in Nat
      BY <1>2, <2>1, Zenon
    <3>2. QED BY <3>1
  <2>3. TimesOfDay(v.next) = {s + m : m \in Moments}
    BY <2>1, Zenon DEF TimesOfDay
  <2>4. QED BY <2>2, <2>3, Zenon
<1>4. Anchors(v.next) \subseteq Nat
  BY <1>1, Numbers DEF Anchors, Cap
<1>5. \A a \in Anchors(v.next), m \in Moments : Start(a) + m \in Nat
  <2> TAKE a \in Anchors(v.next), m \in Moments
  <2>1. Start(a) \in Nat /\ m \in Nat
    BY <1>2, <1>4, StartIsNat
  <2>2. QED BY <2>1
<1> DEFINE Every(t, moments) == {[type |-> t, who |-> c, at |-> m] : c \in Consumers, m \in moments}
<1>6. \A t \in Typologies, moments \in SUBSET Nat : Every(t, moments) \subseteq Campaign
  BY DEF Campaign
<1>7. {Start(a) + m : a \in Anchors(v.next), m \in {x \in Moments : 2 * x < DayTicks}} \subseteq Nat
  BY <1>5
<1> HIDE DEF Every
<1>8. /\ Every("card_testing", TimesOfDay(v.next)) \subseteq Campaign
      /\ Every("refund_abuse", TimesOfDay(v.next)) \subseteq Campaign
      /\ Every("account_takeover", {Start(a) + m : a \in Anchors(v.next),
                                                m \in {x \in Moments : 2 * x < DayTicks}})
           \subseteq Campaign
  BY <1>3, <1>6, <1>7 DEF Typologies
<1>9. QED BY <1>8 DEF Campaigns, Every

LEMMA DrawsTyped ==
  ASSUME NEW v, WellFormed(v), Marked
  PROVE  Draws(v) \subseteq Draw
<1>1. CASE mark # Nothing /\ v.rng = mark.cp.rngState
  BY <1>1 DEF Draws, Marked
<1>2. CASE ~(mark # Nothing /\ v.rng = mark.cp.rngState)
  <2>1. \A c : Picks(c) \subseteq Nat
    BY Numbers DEF Picks
  <2>2. Campaigns(v) \subseteq Campaign \union {Nothing}
    BY CampaignsTyped
  <2>3. ASSUME NEW c \in Campaigns(v)
        PROVE  [campaign : {c}, spend : [Consumers -> Spending], pick : Picks(c)] \subseteq Draw
    BY <2>1, <2>2 DEF Draw
  <2>4. QED BY <1>2, <2>3 DEF Draws
<1>3. QED BY <1>1, <1>2

-----------------------------------------------------------------------------
(* A campaign is planned: fresh numbers, counted once, and its victim, if   *)
(* it was awake, sleeps.                                                    *)

LEMMA ScheduledNew ==
  ASSUME NEW v, WellFormed(v), NEW c \in Campaign
  PROVE  /\ Scheduled(v, c) \subseteq Plan /\ IsFiniteSet(Scheduled(v, c))
         /\ Cardinality(Scheduled(v, c)) = Steps
         /\ \A e \in Scheduled(v, c) : e.type = c.type /\ e.seq >= v.seq /\ e.seq < v.seq + Steps
         /\ \A e, f \in Scheduled(v, c) : e.seq = f.seq => e = f
<1> DEFINE made(s) == [at |-> c.at + s * Gap(c.type), seq |-> v.seq + s, type |-> c.type,
                       who |-> c.who]
<1>1. v.seq \in Nat /\ c.at \in Nat /\ c.type \in Typologies /\ c.who \in Consumers
      /\ Steps \in Nat \ {0} /\ Gap(c.type) \in Nat
  BY Numbers DEF WellFormed, World, Campaign, Gap
<1>2. Scheduled(v, c) = {made(s) : s \in 0..(Steps - 1)}
  BY DEF Scheduled
<1>3. ASSUME NEW s \in 0..(Steps - 1) PROVE c.at + s * Gap(c.type) \in Nat
  <2>1. s * Gap(c.type) \in Nat
    BY <1>1
  <2>2. QED BY <1>1, <2>1
<1>4. \A s \in 0..(Steps - 1) :
        /\ made(s) \in Plan /\ made(s).type = c.type /\ made(s).seq = v.seq + s
        /\ v.seq + s >= v.seq /\ v.seq + s < v.seq + Steps
  BY <1>1, <1>3 DEF Plan
<1> HIDE DEF made
<1> DEFINE f == [s \in 0..(Steps - 1) |-> made(s)]
<1>5. \A x, y \in 0..(Steps - 1) : made(x).seq = made(y).seq => x = y
  BY <1>1, <1>4
<1>6. IsFiniteSet(0..(Steps - 1)) /\ Cardinality(0..(Steps - 1)) = Steps
  <2>1. 0 \in Int /\ Steps - 1 \in Int /\ ~(0 > Steps - 1) /\ (Steps - 1) - 0 + 1 = Steps
    BY <1>1
  <2>2. QED BY <2>1, FS_Interval
<1>7. /\ f \in [0..(Steps - 1) -> Scheduled(v, c)]
      /\ \A y \in Scheduled(v, c) : \E x \in 0..(Steps - 1) : f[x] = y
      /\ \A x, y \in 0..(Steps - 1) : f[x] = f[y] => x = y
  BY <1>2, <1>5
<1>8. IsFiniteSet(Scheduled(v, c)) /\ Cardinality(Scheduled(v, c)) = Steps
  <2> DEFINE N == 0..(Steps - 1)
             T == Scheduled(v, c)
  <2>1. /\ IsFiniteSet(N) /\ Cardinality(N) = Steps
        /\ f \in [N -> T] /\ (\A y \in T : \E x \in N : f[x] = y)
        /\ \A x, y \in N : f[x] = f[y] => x = y
    BY <1>6, <1>7
  <2> HIDE DEF f, N, T
  <2>2. IsFiniteSet(T) /\ Cardinality(T) = Cardinality(N)
    BY <2>1, Reached
  <2>3. QED BY <2>1, <2>2 DEF T
<1>9. \A e, g \in Scheduled(v, c) : e.seq = g.seq => e = g
  BY <1>2, <1>5
<1>10. QED BY <1>2, <1>4, <1>8, <1>9

LEMMA PlannedSound ==
  ASSUME NEW v, NEW made, WellFormed(v), Numbered(v), Accounted(v, made),
         NEW c \in Campaign \union {Nothing}, NEW p, p = Planned(v, c)
  PROVE  /\ WellFormed(p) /\ Numbered(p) /\ Accounted(p, made)
         /\ p.next = v.next /\ p.ring = v.ring
         /\ \A x \in Consumers : v.dormant[x] # Awake => p.dormant[x] = v.dormant[x]
         /\ (/\ c # Nothing /\ Short(v, c.type)
             /\ c.type = "account_takeover" /\ v.dormant[c.who] = Awake)
              => p.dormant[c.who] = c.at
<1> DEFINE quiet == \/ c = Nothing
                    \/ ~Short(v, c.type)
                    \/ c.type = "account_takeover" /\ v.dormant[c.who] # Awake
<1>1. CASE quiet
  <2>1. p = v
    BY <1>1 DEF Planned
  <2>2. QED BY <1>1, <2>1
<1>2. CASE ~quiet
  <2> DEFINE S == Scheduled(v, c)
             sleep == IF c.type = "account_takeover" THEN c.at ELSE v.dormant[c.who]
  <2>1. c \in Campaign /\ c.type \in Typologies /\ c.who \in Consumers /\ c.at \in Nat
    BY <1>2 DEF Campaign
  <2>2. /\ S \subseteq Plan /\ IsFiniteSet(S) /\ Cardinality(S) = Steps
        /\ \A e \in S : e.type = c.type /\ e.seq >= v.seq /\ e.seq < v.seq + Steps
        /\ \A e, f \in S : e.seq = f.seq => e = f
    BY <2>1, ScheduledNew
  <2>3. p = [v EXCEPT !.pending = @ \union S, !.seq = @ + Steps, !.planned[c.type] = @ + Steps,
                      !.dormant[c.who] = sleep]
    BY <1>2 DEF Planned
  <2>4. /\ v \in World /\ v.seq \in Nat /\ v.pending \subseteq Plan /\ Steps \in Nat
        /\ v.dormant \in [Consumers -> Nat \union {Awake}] /\ v.planned \in [Typologies -> Int]
    BY Numbers DEF WellFormed, World
  <2>5. sleep \in Nat \union {Awake}
    BY <2>1, <2>4
  <2> HIDE DEF S, sleep
  <2>6. /\ p.pending = v.pending \union S /\ p.seq = v.seq + Steps /\ p.next = v.next
        /\ p.ring = v.ring /\ p.rng = v.rng /\ p.seen = v.seen
        /\ p.planned = [v.planned EXCEPT ![c.type] = @ + Steps]
        /\ p.dormant = [v.dormant EXCEPT ![c.who] = sleep]
    BY <2>3, <2>4 DEF World
  <2>7. p \in World
    <3>1. v.pending \union S \in SUBSET Plan /\ v.seq + Steps \in Nat
      BY <2>2, <2>4
    <3>2. /\ [v.planned EXCEPT ![c.type] = @ + Steps] \in [Typologies -> Int]
          /\ [v.dormant EXCEPT ![c.who] = sleep] \in [Consumers -> Nat \union {Awake}]
      BY <2>1, <2>4, <2>5
    <3>3. QED BY <2>3, <2>4, <3>1, <3>2 DEF World
  <2>8. WellFormed(p)
    BY <2>6, <2>7 DEF WellFormed
  <2>9. Numbered(p)
    <3>1. IsFiniteSet(p.pending)
      <4>1. IsFiniteSet(v.pending) /\ IsFiniteSet(S)
        BY <2>2 DEF Numbered
      <4>2. IsFiniteSet(v.pending \union S)
        BY <4>1, FS_Union, Zenon
      <4>3. QED BY <2>6, <4>2
    <3>2. \A e \in v.pending : e.seq \in Nat /\ e.seq < v.seq
      BY <2>4 DEF Numbered, Plan
    <3>3. \A e \in S : e.seq \in Nat
      BY <2>2 DEF Plan
    <3>4. \A e \in p.pending : e.seq < p.seq
      BY <2>2, <2>4, <2>6, <3>2, <3>3
    <3>5. \A e, f \in p.pending : e.seq = f.seq => e = f
      BY <2>2, <2>4, <2>6, <3>2, <3>3 DEF Numbered
    <3>6. QED BY <3>1, <3>4, <3>5 DEF Numbered
  <2>10. Accounted(p, made)
    <3>1. v.pending \cap S = {}
      <4>1. \A e \in v.pending : e.seq \in Nat /\ e.seq < v.seq
        BY <2>4 DEF Numbered, Plan
      <4>2. QED BY <2>2, <2>4, <4>1
    <3>2. ASSUME NEW t \in Typologies PROVE p.planned[t] = made[t] + Count(p.pending, t)
      <4>1. /\ Count(p.pending, t) = Count(v.pending, t) + Count(S, t)
            /\ Count(v.pending, t) \in Nat /\ Count(S, t) \in Nat
        BY <2>2, <2>6, <3>1, CountUnion DEF Numbered
      <4>2. v.planned[t] = made[t] + Count(v.pending, t) /\ made[t] \in Nat /\ v.planned[t] \in Int
        BY <2>4 DEF Accounted
      <4>3. CASE t = c.type
        <5>1. {e \in S : e.type = t} = S
          BY <2>2, <4>3
        <5>2. Count(S, t) = Steps
          BY <2>2, <5>1 DEF Count
        <5>3. p.planned[t] = v.planned[t] + Steps
          BY <2>1, <2>4, <2>6, <4>3
        <5>4. QED BY <2>4, <4>1, <4>2, <5>2, <5>3
      <4>4. CASE t # c.type
        <5>1. {e \in S : e.type = t} = {}
          BY <2>2, <4>4
        <5>2. Count(S, t) = 0
          BY <5>1, FS_EmptySet DEF Count
        <5>3. p.planned[t] = v.planned[t]
          BY <2>1, <2>4, <2>6, <4>4
        <5>4. QED BY <4>1, <4>2, <5>2, <5>3
      <4>5. QED BY <4>3, <4>4
    <3>3. QED BY <3>2 DEF Accounted
  <2>11. /\ \A x \in Consumers : v.dormant[x] # Awake => p.dormant[x] = v.dormant[x]
         /\ c.type = "account_takeover" => p.dormant[c.who] = c.at
    BY <1>2, <2>1, <2>4, <2>6 DEF sleep
  <2>12. QED BY <2>6, <2>8, <2>9, <2>10, <2>11
<1>3. QED BY <1>1, <1>2

-----------------------------------------------------------------------------
(* The day's consumers: who is woken, what they do, what is remembered.     *)

LEMMA WokenSound ==
  ASSUME NEW v, NEW made, WellFormed(v), Numbered(v), Accounted(v, made), NEW d \in Nat,
         NEW u, u = Woken(v, d)
  PROVE  /\ WellFormed(u) /\ Numbered(u) /\ Accounted(u, made) /\ u.next = v.next
         /\ \A x \in Consumers :
              \/ u.dormant[x] = v.dormant[x]
              \/ u.dormant[x] = Awake /\ v.dormant[x] <= Start(d)
<1> DEFINE asleep == [c \in Consumers |-> IF v.dormant[c] <= Start(d) THEN Awake ELSE v.dormant[c]]
<1>1. v \in World /\ v.dormant \in [Consumers -> Nat \union {Awake}]
  BY DEF WellFormed, World
<1>2. u = [v EXCEPT !.dormant = asleep]
  BY <1>1 DEF Woken
<1>3. asleep \in [Consumers -> Nat \union {Awake}]
  BY <1>1
<1>4. \A x \in Consumers :
        \/ asleep[x] = v.dormant[x]
        \/ asleep[x] = Awake /\ v.dormant[x] <= Start(d)
  OBVIOUS
<1> HIDE DEF asleep
<1>5. u \in World
  BY <1>1, <1>2, <1>3 DEF World
<1>6. /\ u.pending = v.pending /\ u.seq = v.seq /\ u.planned = v.planned /\ u.next = v.next
      /\ u.ring = v.ring /\ u.rng = v.rng /\ u.dormant = asleep
  BY <1>1, <1>2 DEF World
<1>7. WellFormed(u) /\ Numbered(u) /\ Accounted(u, made)
  BY <1>5, <1>6 DEF WellFormed, Numbered, Accounted
<1>8. QED BY <1>4, <1>6, <1>7

LEMMA RecordedFits ==
  ASSUME NEW r \in Ring, Fits(r), NEW ts \in Nat
  PROVE  Recorded(r, ts) \in Ring /\ Fits(Recorded(r, ts))
<1> USE DEF Fits
<1>1. RingSize \in Nat \ {0} /\ r.entries \in Seq(Nat) /\ r.head \in 1..RingSize
  BY Numbers DEF Ring
<1>2. CASE Len(r.entries) < RingSize
  <2>1. Recorded(r, ts) = [r EXCEPT !.entries = Append(r.entries, ts)]
    BY <1>2 DEF Recorded
  <2>2. Append(r.entries, ts) \in Seq(Nat) /\ Len(Append(r.entries, ts)) = Len(r.entries) + 1
    BY <1>1
  <2>3. Recorded(r, ts) \in Ring /\ Recorded(r, ts).entries = Append(r.entries, ts)
    BY <2>1, <2>2 DEF Ring
  <2>4. Len(r.entries) \in Nat
    BY <1>1
  <2>5. QED BY <1>1, <1>2, <2>2, <2>3, <2>4
<1>3. CASE ~(Len(r.entries) < RingSize)
  <2>1. Recorded(r, ts) = [entries |-> [r.entries EXCEPT ![r.head] = ts],
                           head |-> (r.head % RingSize) + 1]
    BY <1>3 DEF Recorded
  <2>2. Len(r.entries) = RingSize
    BY <1>1, <1>3
  <2>3. /\ [r.entries EXCEPT ![r.head] = ts] \in Seq(Nat)
        /\ Len([r.entries EXCEPT ![r.head] = ts]) = RingSize
    BY <1>1, <2>2
  <2>4. (r.head % RingSize) + 1 \in 1..RingSize
    BY <1>1
  <2>5. Recorded(r, ts) \in Ring
    BY <2>1, <2>3, <2>4 DEF Ring
  <2>6. Recorded(r, ts).entries = [r.entries EXCEPT ![r.head] = ts]
    BY <2>1
  <2>7. QED BY <1>1, <2>3, <2>5, <2>6
<1>4. QED BY <1>2, <1>3

LEMMA ShoppedSound ==
  ASSUME NEW v, NEW made, WellFormed(v), Numbered(v), Accounted(v, made), NEW d \in Nat,
         NEW spend \in [Consumers -> Spending], NEW u, u = Shopped(v, spend, d)
  PROVE  /\ WellFormed(u) /\ Numbered(u) /\ Accounted(u, made)
         /\ u.next = v.next /\ u.dormant = v.dormant
<1> DEFINE buys(c) == Spends(v, spend, d, c) /\ spend[c].type = "payment"
           rings == [c \in Consumers |->
                       IF buys(c) THEN Recorded(v.ring[c], Start(d) + spend[c].at) ELSE v.ring[c]]
<1>1. /\ v \in World /\ v.ring \in [Consumers -> Ring]
      /\ \A c \in Consumers : Fits(v.ring[c])
  BY DEF WellFormed, World
<1>2. u = [v EXCEPT !.ring = rings]
  BY <1>1 DEF Shopped
<1>3. \A c \in Consumers : rings[c] \in Ring /\ Fits(rings[c])
  <2> TAKE c \in Consumers
  <2>1. spend[c].at \in Nat /\ Start(d) \in Nat
    <3>1. spend[c] \in Spending
      OBVIOUS
    <3>2. spend[c] \in [type : {"none", "payment", "income_credit"}, at : Moments]
      BY <3>1, Numbers
    <3>3. QED BY <3>2, Numbers, StartIsNat
  <2>2. Start(d) + spend[c].at \in Nat
    BY <2>1
  <2> HIDE DEF buys
  <2>3. QED BY <1>1, <2>2, RecordedFits
<1>4. rings \in [Consumers -> Ring]
  <2>1. rings = [c \in Consumers |-> rings[c]]
    OBVIOUS
  <2> HIDE DEF rings
  <2>2. QED BY <1>3, <2>1
<1> HIDE DEF rings, buys
<1>5. u \in World
  BY <1>1, <1>2, <1>4 DEF World
<1>6. /\ u.pending = v.pending /\ u.seq = v.seq /\ u.planned = v.planned /\ u.next = v.next
      /\ u.ring = rings /\ u.rng = v.rng /\ u.dormant = v.dormant
  BY <1>1, <1>2 DEF World
<1>7. WellFormed(u)
  BY <1>3, <1>5, <1>6 DEF WellFormed
<1>8. QED BY <1>6, <1>7 DEF Numbered, Accounted

LEMMA LegitFinite ==
  ASSUME NEW v, NEW d, NEW spend
  PROVE  Cardinality(Legit(v, spend, d)) \in Nat
<1> DEFINE S == {x \in Consumers : Spends(v, spend, d, x)}
           act(c) == [ts |-> Start(d) + spend[c].at, type |-> spend[c].type, who |-> c, of |-> Awake]
           T == Legit(v, spend, d)
           f == [c \in S |-> act(c)]
<1>1. IsFiniteSet(S)
  BY Numbers, FS_Subset
<1>2. T = {act(c) : c \in S}
  BY DEF Legit
<1> HIDE DEF S, T, act
<1>3. f \in [S -> T] /\ \A y \in T : \E x \in S : f[x] = y
  BY <1>2
<1> HIDE DEF f
<1>4. Cardinality(T) \in Nat
  BY <1>1, <1>3, Reached
<1>5. QED BY <1>4 DEF T

-----------------------------------------------------------------------------
(* The day's fraud: what is due becomes an event each, or is dropped and    *)
(* un-planned.                                                              *)

Gone(v, d, pick) == {e \in Due(v, d) : Dropped(v, e, d, pick)}

Sold(v, d, pick) == {e \in Due(v, d) : ~Dropped(v, e, d, pick)}

Made(v, d, pick) ==
  [t \in Typologies |-> Cardinality({e \in Fraud(v, d, pick) : e.type = t})]

Plus(made, more) == [t \in Typologies |-> made[t] + more[t]]

LEMMA EventEach ==
  ASSUME NEW v, Numbered(v), NEW d, NEW pick, NEW t
  PROVE  Cardinality({e \in Fraud(v, d, pick) : e.type = t}) = Count(Sold(v, d, pick), t)
<1> DEFINE event(e) == IF e.type = "refund_abuse"
                       THEN [ts |-> RefundAt(v, e, pick), type |-> e.type, who |-> e.who,
                             seq |-> e.seq, of |-> Purchase(v, e, pick)]
                       ELSE [ts |-> e.at, type |-> e.type, who |-> e.who, seq |-> e.seq,
                             of |-> Awake]
           S == {e \in Sold(v, d, pick) : e.type = t}
           T == {e \in Fraud(v, d, pick) : e.type = t}
           f == [e \in S |-> event(e)]
<1>1. Fraud(v, d, pick) = {event(e) : e \in Sold(v, d, pick)}
  BY DEF Fraud, Sold
<1>2. \A e : event(e).type = e.type /\ event(e).seq = e.seq
  OBVIOUS
<1>3. S \subseteq v.pending
  BY DEF Sold, Due
<1>4. IsFiniteSet(S)
  BY <1>3, FS_Subset DEF Numbered
<1> HIDE DEF event
<1>5. f \in [S -> T] /\ \A y \in T : \E x \in S : f[x] = y
  BY <1>1, <1>2
<1>6. \A x, y \in S : f[x] = f[y] => x = y
  <2> SUFFICES ASSUME NEW x \in S, NEW y \in S, f[x] = f[y] PROVE x = y
    OBVIOUS
  <2>1. event(x) = event(y)
    OBVIOUS
  <2>2. x.seq = y.seq
    BY <1>2, <2>1
  <2>3. QED BY <1>3, <2>2 DEF Numbered
<1> HIDE DEF S, T, f
<1>7. Cardinality(T) = Cardinality(S)
  BY <1>4, <1>5, <1>6, Reached
<1>8. QED BY <1>7 DEF S, T, Count

LEMMA DrainedSound ==
  ASSUME NEW v, NEW made, WellFormed(v), Numbered(v), Accounted(v, made), NEW d \in Nat,
         NEW pick, NEW u, u = Drained(v, d, pick),
         NEW new, new = Plus(made, Made(v, d, pick))
  PROVE  /\ WellFormed(u) /\ Numbered(u) /\ Accounted(u, new)
         /\ u.next = v.next /\ u.dormant = v.dormant /\ u.rng = v.rng /\ u.seen = v.seen
<1> DEFINE rest == v.pending \ Due(v, d)
           gone == Gone(v, d, pick)
           sold == Sold(v, d, pick)
<1>1. /\ v \in World /\ v.pending \subseteq Plan /\ v.planned \in [Typologies -> Int]
      /\ IsFiniteSet(v.pending) /\ "refund_abuse" \in Typologies
  BY DEF WellFormed, World, Numbered, Typologies
<1>2. u = [v EXCEPT !.pending = rest, !.planned["refund_abuse"] = @ - Cardinality(gone)]
  BY DEF Drained, Gone
<1>3. /\ v.pending = rest \union (sold \union gone)
      /\ rest \cap (sold \union gone) = {} /\ sold \cap gone = {}
      /\ \A e \in gone : e.type = "refund_abuse"
      /\ rest \subseteq v.pending /\ gone \subseteq v.pending /\ sold \subseteq v.pending
  BY DEF Gone, Sold, Due, Dropped
<1>4. IsFiniteSet(rest) /\ IsFiniteSet(gone) /\ IsFiniteSet(sold)
  BY <1>1, <1>3, FS_Subset
<1>5. \A t \in Typologies : Cardinality({e \in Fraud(v, d, pick) : e.type = t}) = Count(sold, t)
  BY EventEach
<1> HIDE DEF rest, gone, sold
<1>6. Cardinality(gone) \in Nat
  BY <1>4, FS_CardinalityType
<1>7. /\ u.pending = rest /\ u.seq = v.seq /\ u.next = v.next /\ u.ring = v.ring
      /\ u.rng = v.rng /\ u.seen = v.seen /\ u.dormant = v.dormant
      /\ u.planned = [v.planned EXCEPT !["refund_abuse"] = @ - Cardinality(gone)]
  BY <1>1, <1>2 DEF World
<1>8. WellFormed(u)
  <2>1. [v.planned EXCEPT !["refund_abuse"] = @ - Cardinality(gone)] \in [Typologies -> Int]
    BY <1>1, <1>6
  <2>2. u \in World
    BY <1>1, <1>2, <1>3, <2>1, ZenonT(30) DEF World
  <2>3. QED BY <1>7, <2>2 DEF WellFormed
<1>9. Numbered(u)
  BY <1>3, <1>4, <1>7 DEF Numbered
<1>10. ASSUME NEW t \in Typologies
       PROVE  new[t] \in Nat /\ u.planned[t] = new[t] + Count(u.pending, t)
  <2>1. IsFiniteSet(sold \union gone)
    BY <1>4, FS_Union, Zenon
  <2>2. /\ Count(v.pending, t) = Count(rest, t) + Count(sold \union gone, t)
        /\ Count(rest, t) \in Nat
    BY <1>3, <1>4, <2>1, CountUnion
  <2>3. /\ Count(sold \union gone, t) = Count(sold, t) + Count(gone, t)
        /\ Count(sold, t) \in Nat /\ Count(gone, t) \in Nat
    BY <1>3, <1>4, CountUnion
  <2>4. v.planned[t] = made[t] + Count(v.pending, t) /\ made[t] \in Nat /\ v.planned[t] \in Int
    BY <1>1 DEF Accounted
  <2>5. new[t] = made[t] + Count(sold, t)
    BY <1>5 DEF Plus, Made
  <2>6. CASE t = "refund_abuse"
    <3>1. {e \in gone : e.type = t} = gone
      BY <1>3, <2>6
    <3>2. Count(gone, t) = Cardinality(gone)
      BY <3>1 DEF Count
    <3>3. u.planned[t] = v.planned[t] - Cardinality(gone)
      BY <1>1, <1>7, <2>6
    <3>4. QED BY <1>7, <2>2, <2>3, <2>4, <2>5, <3>2, <3>3
  <2>7. CASE t # "refund_abuse"
    <3>1. {e \in gone : e.type = t} = {}
      BY <1>3, <2>7
    <3>2. Count(gone, t) = 0
      BY <3>1, FS_EmptySet DEF Count
    <3>3. u.planned[t] = v.planned[t]
      BY <1>1, <1>7, <2>7
    <3>4. QED BY <1>7, <2>2, <2>3, <2>4, <2>5, <3>2, <3>3
  <2>8. QED BY <2>6, <2>7
<1>11. new \in [Typologies -> Nat]
  <2>1. new = [t \in Typologies |-> new[t]]
    BY DEF Plus
  <2>2. QED BY <1>10, <2>1
<1>12. QED BY <1>7, <1>8, <1>9, <1>10, <1>11 DEF Accounted

-----------------------------------------------------------------------------
(* A whole day, of any world.                                               *)

Quiet(struck, events) ==
  \A k \in struck : \A e \in events :
    e.type \in {"payment", "income_credit"} /\ e.who = k.who
      => e.ts < k.from \/ e.ts >= k.anchor

StillToCome(v, draws, struck) ==
  {k \in struck : k.anchor >= Start(v.next)} \union Struck(v, draws)

(* Whom a takeover still to come strikes has slept since it was planned.    *)
LEMMA AsleepInPlan ==
  ASSUME NEW v, NEW made, NEW struck, Sound(v, made, struck), NEW draws \in Draw
  PROVE  /\ StillToCome(v, draws, struck) \subseteq Takeover
         /\ \A k \in StillToCome(v, draws, struck) :
              Planned(v, draws.campaign).dormant[k.who] = k.anchor
<1> DEFINE c == draws.campaign
           p == Planned(v, c)
<1>1. v.next \in Nat /\ Start(v.next) \in Nat /\ HistoryDays \in Nat
  BY StartIsNat, Numbers DEF Sound, WellFormed, World
<1>2. c \in Campaign \union {Nothing}
  BY DEF Draw
<1>3. /\ \A x \in Consumers : v.dormant[x] # Awake => p.dormant[x] = v.dormant[x]
      /\ (/\ c # Nothing /\ Short(v, c.type)
          /\ c.type = "account_takeover" /\ v.dormant[c.who] = Awake)
           => p.dormant[c.who] = c.at
  BY <1>2, PlannedSound DEF Sound
<1>4. struck \subseteq Takeover
  BY DEF Sound, Dormant
<1>5. Struck(v, draws) \subseteq Takeover
  <2> SUFFICES ASSUME NEW k \in Struck(v, draws) PROVE k \in Takeover
    OBVIOUS
  <2>1. c # Nothing /\ k = [who |-> c.who, from |-> Start(v.next), anchor |-> c.at,
                            late |-> v.next >= HistoryDays]
    BY DEF Struck
  <2>2. c.who \in Consumers /\ c.at \in Nat
    BY <1>2, <2>1 DEF Campaign
  <2>3. (v.next >= HistoryDays) \in BOOLEAN
    BY <1>1
  <2>4. QED BY <1>1, <2>1, <2>2, <2>3 DEF Takeover
<1>6. ASSUME NEW k \in struck, k.anchor >= Start(v.next)
      PROVE  p.dormant[k.who] = k.anchor
  <2>1. v.dormant[k.who] = k.anchor
    BY <1>6 DEF Sound, Dormant
  <2>2. k.who \in Consumers /\ k.anchor \in Nat
    BY <1>4 DEF Takeover
  <2>3. QED BY <1>3, <2>1, <2>2, Numbers
<1>7. ASSUME NEW k \in Struck(v, draws)
      PROVE  p.dormant[k.who] = k.anchor
  <2>1. /\ c # Nothing /\ Short(v, c.type)
        /\ c.type = "account_takeover" /\ v.dormant[c.who] = Awake
        /\ k.who = c.who /\ k.anchor = c.at
    BY <1>7 DEF Struck
  <2>2. QED BY <1>3, <2>1
<1> HIDE DEF p
<1>8. QED BY <1>4, <1>5, <1>6, <1>7 DEF StillToCome, p

LEMMA SpentSound ==
  ASSUME NEW v, NEW made, NEW struck, Sound(v, made, struck), NEW draws \in Draw,
         NEW p, p = Planned(v, draws.campaign), NEW q, q = Spent(v, draws)
  PROVE  /\ WellFormed(q) /\ Numbered(q) /\ Accounted(q, made) /\ q.next = v.next
         /\ \A x \in Consumers :
              \/ q.dormant[x] = p.dormant[x]
              \/ q.dormant[x] = Awake /\ p.dormant[x] <= Start(v.next)
<1>1. v.next \in Nat
  BY DEF Sound, WellFormed, World
<1>2. draws.campaign \in Campaign \union {Nothing}
  BY DEF Draw
<1>3. WellFormed(p) /\ Numbered(p) /\ Accounted(p, made) /\ p.next = v.next
  BY <1>2, PlannedSound DEF Sound
<1>4. q = Woken(p, v.next)
  BY DEF Spent
<1>5. QED BY <1>1, <1>3, <1>4, WokenSound

LEMMA DaySound ==
  ASSUME NEW v, NEW made, NEW struck, Sound(v, made, struck), NEW draws \in Draw,
         NEW new, new = Plus(made, Made(Shops(v, draws), v.next, draws.pick)),
         NEW after, after = StillToCome(v, draws, struck),
         NEW u, u = NextWorld(v, draws)
  PROVE  Sound(u, new, after) /\ u.next = v.next + 1
<1> DEFINE c == draws.campaign
           d == v.next
           p == Planned(v, c)
           q == Spent(v, draws)
           r == Shops(v, draws)
           o == Drained(r, d, draws.pick)
           more == Cardinality(Legit(q, draws.spend, d))
<1>1. d \in Nat /\ Start(d) \in Nat /\ Start(d + 1) \in Nat /\ Start(d) < Start(d + 1)
  <2>1. d \in Nat
    BY DEF Sound, WellFormed, World
  <2>2. d + 1 \in Nat
    BY <2>1
  <2>3. QED BY <2>1, <2>2, StartIsNat, DaysGoOn
<1>2. c \in Campaign \union {Nothing} /\ draws.spend \in [Consumers -> Spending]
  BY DEF Draw
<1>3. /\ WellFormed(q) /\ Numbered(q) /\ Accounted(q, made) /\ q.next = d
      /\ \A x \in Consumers :
           \/ q.dormant[x] = p.dormant[x]
           \/ q.dormant[x] = Awake /\ p.dormant[x] <= Start(d)
  BY SpentSound
<1>4. after \subseteq Takeover /\ \A k \in after : p.dormant[k.who] = k.anchor
  BY AsleepInPlan
<1>5. r = Shopped(q, draws.spend, d)
  BY DEF Shops
<1> HIDE DEF p, q
<1>6. /\ WellFormed(r) /\ Numbered(r) /\ Accounted(r, made)
      /\ r.next = d /\ r.dormant = q.dormant
  BY SMTT(30), <1>1, <1>2, <1>3, <1>5, ShoppedSound
<1>7. new = Plus(made, Made(r, d, draws.pick))
  OBVIOUS
<1> HIDE DEF r
<1>8. /\ WellFormed(o) /\ Numbered(o) /\ Accounted(o, new)
       /\ o.next = d /\ o.dormant = r.dormant
  <2>1. o = Drained(r, d, draws.pick)
    OBVIOUS
  <2>2. WellFormed(r) /\ Numbered(r) /\ Accounted(r, made) /\ r.next = d /\ d \in Nat
    BY <1>1, <1>6
  <2> HIDE DEF o, d
  <2>3. /\ WellFormed(o) /\ Numbered(o) /\ Accounted(o, new)
        /\ o.next = r.next /\ o.dormant = r.dormant
    BY <1>7, <2>1, <2>2, DrainedSound
  <2>4. QED BY <2>2, <2>3
<1>9. more \in Nat
  BY LegitFinite
<1>10. u = [o EXCEPT !.seen = @ + more, !.next = @ + 1, !.rng = @ + 1]
  BY DEF NextWorld, q, r
<1> HIDE DEF o, more
<1>11. o \in World /\ o.rng = o.next /\ o.next \in Nat /\ o.seen \in Nat
  BY <1>8 DEF WellFormed, World
<1>12. /\ u.next = o.next + 1 /\ u.rng = o.rng + 1 /\ u.dormant = o.dormant
       /\ u.pending = o.pending /\ u.seq = o.seq /\ u.planned = o.planned /\ u.ring = o.ring
  BY <1>10, <1>11 DEF World
<1>13. u \in World
  <2>1. o.seen + more \in Nat /\ o.next + 1 \in Nat /\ o.rng + 1 \in Nat
    BY <1>9, <1>11
  <2>2. QED BY <1>10, <1>11, <2>1 DEF World
<1>14. WellFormed(u) /\ Numbered(u) /\ Accounted(u, new)
  BY <1>8, <1>11, <1>12, <1>13 DEF WellFormed, Numbered, Accounted
<1>15. Dormant(u, after)
  <2> SUFFICES ASSUME NEW k \in after, k.anchor >= Start(u.next)
               PROVE  u.dormant[k.who] = k.anchor
    BY <1>4 DEF Dormant
  <2>1. k.anchor \in Nat /\ k.who \in Consumers /\ p.dormant[k.who] = k.anchor
    BY <1>4 DEF Takeover
  <2>2. u.next = d + 1
    BY <1>8, <1>12
  <2>3. k.anchor >= Start(d + 1)
    BY <2>2
  <2>4. ~(p.dormant[k.who] <= Start(d))
    BY <1>1, <2>1, <2>3
  <2>5. q.dormant[k.who] = k.anchor
    BY <1>3, <2>1, <2>4
  <2>6. QED BY <1>6, <1>8, <1>12, <2>5
<1>16. QED BY <1>8, <1>12, <1>14, <1>15 DEF Sound

LEMMA DayQuiet ==
  ASSUME NEW v, NEW made, NEW struck, Sound(v, made, struck), NEW draws \in Draw
  PROVE  Quiet(StillToCome(v, draws, struck), Output(v, draws))
<1> DEFINE c == draws.campaign
           d == v.next
           p == Planned(v, c)
           q == Spent(v, draws)
           r == Shops(v, draws)
           after == StillToCome(v, draws, struck)
<1>1. d \in Nat /\ Start(d) \in Nat
  BY StartIsNat DEF Sound, WellFormed, World
<1>2. c \in Campaign \union {Nothing} /\ draws.spend \in [Consumers -> Spending]
  BY DEF Draw
<1>3. /\ WellFormed(q) /\ Numbered(q) /\ Accounted(q, made)
      /\ \A x \in Consumers :
           \/ q.dormant[x] = p.dormant[x]
           \/ q.dormant[x] = Awake /\ p.dormant[x] <= Start(d)
  BY SpentSound
<1>4. after \subseteq Takeover /\ \A k \in after : p.dormant[k.who] = k.anchor
  BY AsleepInPlan
<1>5. r = Shopped(q, draws.spend, d)
  BY DEF Shops
<1>6. Output(v, draws) = Legit(q, draws.spend, d)
        \union {[ts |-> e.ts, type |-> e.type, who |-> e.who, of |-> e.of]
                  : e \in Fraud(r, d, draws.pick)}
  BY DEF Output
<1> HIDE DEF p, q, r, after
<1>7. r.pending \subseteq Plan
  <2>1. WellFormed(r)
    BY SMTT(30), <1>1, <1>2, <1>3, <1>5, ShoppedSound
  <2>2. QED BY <2>1 DEF WellFormed, World
<1>8. \A e \in Fraud(r, d, draws.pick) : e.type \in Typologies
  BY <1>7 DEF Fraud, Due, Plan
<1> SUFFICES ASSUME NEW k \in after, NEW e \in Output(v, draws),
                    e.type \in {"payment", "income_credit"}, e.who = k.who
             PROVE  e.ts >= k.anchor
  BY DEF Quiet, after
<1>9. e \in Legit(q, draws.spend, d)
  BY <1>6, <1>8 DEF Typologies
<1>10. PICK x \in Consumers : /\ Spends(q, draws.spend, d, x)
                              /\ e.ts = Start(d) + draws.spend[x].at /\ e.who = x
  BY <1>9 DEF Legit
<1>11. q.dormant[x] = Awake \/ e.ts >= q.dormant[x]
  BY <1>10 DEF Spends
<1>12. k.anchor \in Nat /\ p.dormant[x] = k.anchor
  BY <1>4, <1>10 DEF Takeover
<1>13. e.ts \in Nat /\ e.ts >= Start(d)
  <2>1. draws.spend[x] \in [type : {"none", "payment", "income_credit"}, at : Moments]
    BY <1>2, Numbers
  <2>2. draws.spend[x].at \in Nat
    BY <2>1, Numbers
  <2>3. QED BY <1>1, <1>10, <2>2
<1>14. QED BY <1>1, <1>3, <1>11, <1>12, <1>13, Numbers

-----------------------------------------------------------------------------
(* The behaviours.                                                          *)

LEMMA FirstWorld == Init => IInv
<1> SUFFICES ASSUME Init PROVE IInv
  OBVIOUS
<1>1. Fresh \in World
  <2>1. NoPurchases \in Ring
    BY Numbers DEF Ring, NoPurchases
  <2>2. QED BY <2>1 DEF Fresh, World
<1>2. /\ Fresh.rng = 0 /\ Fresh.next = 0 /\ Fresh.pending = {}
      /\ \A c \in Consumers : Fresh.ring[c] = NoPurchases
      /\ \A t \in Typologies : Fresh.planned[t] = 0
  BY DEF Fresh
<1>3. WellFormed(w)
  <2>1. Fits(NoPurchases)
    BY Numbers DEF Fits, NoPurchases
  <2>2. QED BY <1>1, <1>2, <2>1 DEF Init, WellFormed
<1>4. Numbered(w)
  BY <1>2, FS_EmptySet DEF Init, Numbered
<1>5. Accounted(w, produced)
  <2>1. \A t \in Typologies : Count(w.pending, t) = 0
    <3> TAKE t \in Typologies
    <3>1. {e \in w.pending : e.type = t} = {}
      BY <1>2 DEF Init
    <3>2. QED BY <3>1, FS_EmptySet DEF Count
  <2>2. QED BY <1>2, <2>1 DEF Init, Accounted
<1>6. Dormant(w, takeovers)
  BY DEF Init, Dormant
<1>7. QED BY <1>3, <1>4, <1>5, <1>6 DEF Init, IInv, Sound, QuietVictims, Marked, Repeated, DayRepeats

(* A day of the session's own world.                                        *)
LEMMA SimulateSound ==
  ASSUME IInv, NEW draws \in Draw, Simulate(draws)
  PROVE  /\ Sound(w', produced', takeovers') /\ QuietVictims'
         /\ w.next \in Nat /\ w'.next = w.next + 1
<1>1. Sound(w, produced, takeovers)
  BY DEF IInv
<1>2. /\ w' = NextWorld(w, draws) /\ day' = Output(w, draws)
      /\ takeovers' = StillToCome(w, draws, takeovers)
  BY DEF Simulate, StillToCome
<1>3. produced' = Plus(produced, Made(Shops(w, draws), w.next, draws.pick))
  BY DEF Simulate, Plus, Made
<1>4. Sound(w', produced', takeovers') /\ w'.next = w.next + 1
  BY <1>1, <1>2, <1>3, DaySound
<1>5. Quiet(takeovers', day')
  BY <1>1, <1>2, DayQuiet
<1>6. QED BY <1>1, <1>4, <1>5 DEF Quiet, QuietVictims, Sound, WellFormed, World

LEMMA HistoryDayKeeps == IInv /\ HistoryDay => IInv'
<1> SUFFICES ASSUME IInv, HistoryDay PROVE IInv'
  OBVIOUS
<1>1. PICK draws \in Draws(w) : Simulate(draws)
  BY DEF HistoryDay
<1>2. WellFormed(w) /\ Marked
  BY DEF IInv, Sound
<1>3. draws \in Draw
  BY <1>1, <1>2, DrawsTyped
<1>4. /\ Sound(w', produced', takeovers') /\ QuietVictims'
      /\ w.next \in Nat /\ w'.next = w.next + 1
  BY <1>1, <1>3, SimulateSound
<1>5. mark' = mark /\ redone' = redone
  BY DEF HistoryDay
<1>6. Marked'
  <2>1. mark # Nothing => Restored(mark.cp).next \in Nat
    BY <1>2 DEF Marked, Sound, WellFormed, World
  <2>2. QED BY <1>2, <1>4, <1>5, <2>1 DEF Marked
<1>7. Repeated'
  BY <1>5 DEF IInv, Repeated, DayRepeats
<1>8. QED BY <1>4, <1>6, <1>7 DEF IInv

(* A world built anew from its checkpoint is that world, field by field:    *)
(* the consumers are told apart by their rows, the rings by their entries,  *)
(* and a consumer without one has bought nothing.                           *)
LEMMA RebuiltIsTheSame ==
  ASSUME NEW v, WellFormed(v)
  PROVE  Restored(Checkpoint(v)) = v
<1> DEFINE cp == Checkpoint(v)
           rows == {[id |-> c, dormantUntilMs |-> v.dormant[c]] : c \in Consumers}
           bought == {<<c, v.ring[c]>> : c \in {x \in Consumers : v.ring[x].entries # <<>>}}
           dormant == [c \in Consumers |-> (CHOOSE r \in rows : r.id = c).dormantUntilMs]
           ring == [c \in Consumers |->
                      IF \E p \in bought : p[1] = c
                      THEN (CHOOSE p \in bought : p[1] = c)[2] ELSE NoPurchases]
<1>1. v \in World /\ \A c \in Consumers : Fits(v.ring[c])
  BY DEF WellFormed
<1>2. /\ cp.rngState = v.rng /\ cp.nextDayIndex = v.next /\ cp.consumers = rows
      /\ cp.pendingFraud = v.pending /\ cp.recentPurchases = bought /\ cp.scheduleSeq = v.seq
      /\ cp.planner.legitSeen = v.seen /\ cp.planner.fraudPlanned = v.planned
  BY DEF Checkpoint
<1>3. ASSUME NEW c \in Consumers PROVE dormant[c] = v.dormant[c]
  <2> DEFINE own == [id |-> c, dormantUntilMs |-> v.dormant[c]]
  <2>1. own \in rows /\ own.id = c
    OBVIOUS
  <2>2. \A r \in rows : r.id = c => r.dormantUntilMs = v.dormant[c]
    OBVIOUS
  <2> HIDE DEF rows, own
  <2>3. QED BY <2>1, <2>2
<1>4. ASSUME NEW c \in Consumers PROVE ring[c] = v.ring[c]
  <2>1. \A p \in bought : p[1] = c => p[2] = v.ring[c] /\ v.ring[c].entries # <<>>
    OBVIOUS
  <2>2. CASE v.ring[c].entries # <<>>
    <3>1. <<c, v.ring[c]>> \in bought
      BY <2>2
    <3>2. \E p \in bought : p[1] = c
      BY <3>1
    <3> HIDE DEF bought
    <3>3. QED BY <2>1, <3>2
  <2>3. CASE v.ring[c].entries = <<>>
    <3>1. ~\E p \in bought : p[1] = c
      BY <2>1, <2>3
    <3>2. v.ring[c] = NoPurchases
      BY <1>1, <2>3 DEF Fits
    <3> HIDE DEF bought
    <3>3. QED BY <3>1, <3>2
  <2>4. QED BY <2>2, <2>3
<1>5. dormant = v.dormant /\ ring = v.ring
  <2>1. /\ v.dormant = [c \in Consumers |-> v.dormant[c]]
        /\ v.ring = [c \in Consumers |-> v.ring[c]]
    BY <1>1 DEF World
  <2>2. /\ dormant = [c \in Consumers |-> dormant[c]] /\ ring = [c \in Consumers |-> ring[c]]
    OBVIOUS
  <2> HIDE DEF dormant, ring
  <2>3. QED BY <1>3, <1>4, <2>1, <2>2
<1>6. Restored(cp) = [rng |-> v.rng, next |-> v.next, dormant |-> dormant, pending |-> v.pending,
                      ring |-> ring, seq |-> v.seq, seen |-> v.seen, planned |-> v.planned]
  <2> HIDE DEF cp, rows, bought
  <2>1. QED BY <1>2 DEF Restored
<1> HIDE DEF cp, dormant, ring
<1>7. Restored(cp) = v
  BY <1>1, <1>5, <1>6 DEF World
<1>8. QED BY <1>7 DEF cp

(* The marked day done again draws what it drew: the world rebuilt is the   *)
(* marked one, and so is where its stream stands.                           *)
LEMMA LiveDayKeeps == IInv /\ LiveDay => IInv'
<1> SUFFICES ASSUME IInv, LiveDay PROVE IInv'
  OBVIOUS
<1>1. PICK draws \in Draws(w) :
        /\ Simulate(draws)
        /\ \/ /\ mark = Nothing
              /\ mark' = [cp |-> Checkpoint(w), draws |-> draws, gave |-> Output(w, draws),
                          then |-> NextWorld(w, draws), ghost |-> ghost]
           \/ UNCHANGED mark
        /\ redone' = IF mark # Nothing /\ mark.cp.nextDayIndex = w.next
                     THEN [gave |-> Output(w, draws), then |-> NextWorld(w, draws)] ELSE redone
  BY DEF LiveDay
<1>2. WellFormed(w) /\ Marked /\ Repeated /\ Sound(w, produced, takeovers)
  BY DEF IInv, Sound
<1>3. draws \in Draw
  BY <1>1, <1>2, DrawsTyped
<1>4. /\ Sound(w', produced', takeovers') /\ QuietVictims'
      /\ w.next \in Nat /\ w'.next = w.next + 1
  BY <1>1, <1>3, SimulateSound
<1>5. CASE mark = Nothing /\ mark' # mark
  <2>1. mark' = [cp |-> Checkpoint(w), draws |-> draws, gave |-> Output(w, draws),
                 then |-> NextWorld(w, draws), ghost |-> <<produced, takeovers>>]
    BY <1>1, <1>5 DEF ghost
  <2> DEFINE marked == Restored(mark'.cp)
  <2>5. marked = w
    BY <1>2, <2>1, RebuiltIsTheSame
  <2> HIDE DEF marked
  <2>2. redone' = Nothing
    BY <1>1, <1>2, <1>5 DEF Repeated
  <2>3. Marked'
    BY <1>2, <1>3, <1>4, <2>1, <2>5 DEF Marked, marked
  <2>4. QED BY <1>4, <1>5, <2>2, <2>3 DEF IInv, Repeated, DayRepeats
<1>6. CASE mark' = mark
  <2>1. mark # Nothing => Restored(mark.cp).next \in Nat
    BY <1>2 DEF Marked, Sound, WellFormed, World
  <2>2. Marked'
    BY <1>2, <1>4, <1>6, <2>1 DEF Marked
  <2>3. CASE mark # Nothing /\ mark.cp.nextDayIndex = w.next
    <3>1. w = Restored(mark.cp)
      BY <1>2, <2>3 DEF Marked, Restored
    <3>2. draws = mark.draws
      <4>1. w.rng = mark.cp.rngState
        BY <3>1 DEF Restored
      <4>2. QED BY <1>1, <2>3, <4>1 DEF Draws
    <3>3. redone' = [gave |-> mark.gave, then |-> mark.then]
      BY <1>1, <1>2, <2>3, <3>1, <3>2 DEF Marked
    <3>4. Repeated'
      BY <1>6, <2>3, <3>3 DEF Repeated, DayRepeats
    <3>5. QED BY <1>4, <2>2, <3>4 DEF IInv
  <2>4. CASE ~(mark # Nothing /\ mark.cp.nextDayIndex = w.next)
    <3>1. redone' = redone
      BY <1>1, <2>4
    <3>2. Repeated'
      BY <1>2, <1>6, <3>1 DEF Repeated, DayRepeats
    <3>3. QED BY <1>4, <2>2, <3>2 DEF IInv
  <2>5. QED BY <2>3, <2>4
<1>7. QED BY <1>1, <1>5, <1>6

LEMMA ResumeKeeps == IInv /\ Resume => IInv'
<1> SUFFICES ASSUME IInv, Resume PROVE IInv'
  OBVIOUS
<1>1. /\ mark # Nothing /\ w' = Restored(mark.cp) /\ day' = {}
      /\ produced' = mark.ghost[1] /\ takeovers' = mark.ghost[2]
      /\ mark' = mark /\ redone' = redone
  BY DEF Resume
<1>2. Marked /\ Repeated
  BY DEF IInv
<1>3. Sound(w', produced', takeovers') /\ w'.next \in Nat
  BY <1>1, <1>2 DEF Marked, Sound, WellFormed, World
<1>4. QuietVictims'
  BY <1>1 DEF QuietVictims
<1>5. Marked'
  BY <1>1, <1>2, <1>3 DEF Marked
<1>6. Repeated'
  BY <1>1, <1>2 DEF Repeated, DayRepeats
<1>7. QED BY <1>3, <1>4, <1>5, <1>6 DEF IInv

(* Every world a session runs on is sound, and so is the one it can restore.*)
THEOREM WorldInvariant == Spec => []IInv
<1>1. IInv /\ [Next]_vars => IInv'
  <2> SUFFICES ASSUME IInv, [Next]_vars PROVE IInv'
    OBVIOUS
  <2>1. CASE Next
    BY <2>1, HistoryDayKeeps, LiveDayKeeps, ResumeKeeps DEF Next
  <2>2. CASE UNCHANGED vars
    <3>1. /\ w' = w /\ day' = day /\ mark' = mark /\ redone' = redone
          /\ produced' = produced /\ takeovers' = takeovers
      BY <2>2 DEF vars, ghost
    <3>2. QED BY <3>1 DEF IInv, QuietVictims, Marked, Repeated, DayRepeats
  <2>3. QED BY <2>1, <2>2
<1>2. QED BY <1>1, FirstWorld, PTL DEF Spec

(* What the planner takes for planned is, per typology, what it produced    *)
(* and what is still to come, whatever was dropped, spilled or restored.    *)
THEOREM CountsTrue == Spec => []PlannedAccounted
<1>1. IInv => PlannedAccounted
  BY DEF IInv, Sound, Accounted, Count, PlannedAccounted
<1>2. QED BY <1>1, WorldInvariant, PTL

(* From the day a takeover is planned to its first transfer its victim      *)
(* does nothing of its own, in history, in the live phase, and restored.    *)
THEOREM VictimsKeepQuiet == Spec => []QuietVictims
<1>1. IInv => QuietVictims
  BY DEF IInv
<1>2. QED BY <1>1, WorldInvariant, PTL

(* A day simulated again from the checkpoint taken before it gives the same *)
(* events and leaves the same world.                                        *)
THEOREM RedoneDayIsTheSame == Spec => []DayRepeats
<1>1. IInv => DayRepeats
  BY DEF IInv, Repeated
<1>2. QED BY <1>1, WorldInvariant, PTL


-----------------------------------------------------------------------------
(* Exports.  Listing a directory: a finite set of rows that its key tells   *)
(* apart has an ascending list, and that list has every row.                *)

NatOrder == {p \in Nat \X Nat : p[1] < p[2]}

LEMMA NatOrderWF == IsWellFoundedOn(NatOrder, Nat)
BY NatLessThanWellFounded DEF NatOrder, OpToRel

LEMMA LeastOf ==
  ASSUME NEW T, T \subseteq Nat, T # {}
  PROVE  \E n \in T : n \in Nat /\ \A m \in Nat : m < n => m \notin T
<1>1. \E n \in T : \A m \in T : ~ (<<m, n>> \in NatOrder)
  BY NatOrderWF, WFMin, Zenon
<1>2. PICK n \in T : \A m \in T : ~ (<<m, n>> \in NatOrder)
  BY <1>1
<1>3. ASSUME NEW m \in Nat, m < n PROVE m \notin T
  <2>1. n \in Nat
    BY <1>2
  <2>2. <<m, n>> \in NatOrder
    BY <2>1, <1>3 DEF NatOrder
  <2>3. QED BY <1>2, <2>2
<1>4. QED BY <1>2, <1>3

KeyFor(S, key) ==
  /\ \A r \in S : key[r] \in Nat
  /\ \A q, r \in S : key[q] = key[r] => q = r

Ascends(S, key, f) ==
  /\ f \in [1..Cardinality(S) -> S]
  /\ \A i, j \in 1..Cardinality(S) : i < j => key[f[i]] < key[f[j]]

LEMMA LowestKey ==
  ASSUME NEW S, NEW key, KeyFor(S, key), S # {}
  PROVE  \E r \in S : \A q \in S \ {r} : key[r] < key[q]
<1> DEFINE Keys == {key[r] : r \in S}
<1>1. PICK a \in Keys : a \in Nat /\ \A m \in Nat : m < a => m \notin Keys
  <2>1. Keys \subseteq Nat /\ Keys # {}
    BY DEF KeyFor
  <2> HIDE DEF Keys
  <2>2. QED BY <2>1, LeastOf
<1>2. PICK r \in S : key[r] = a
  OBVIOUS
<1>3. ASSUME NEW q \in S \ {r} PROVE key[r] < key[q]
  <2>1. key[q] \in Nat /\ key[q] \in Keys /\ key[q] # a
    BY <1>2 DEF KeyFor
  <2>2. ~(key[q] < a)
    BY <1>1, <2>1
  <2>3. QED BY <1>1, <1>2, <2>1, <2>2
<1>4. QED BY <1>3

LEMMA ListExists ==
  ASSUME NEW S, NEW key, IsFiniteSet(S), KeyFor(S, key)
  PROVE  \E f : Ascends(S, key, f)
<1> DEFINE Bad == {n \in Nat : \E T \in SUBSET S : Cardinality(T) = n /\ ~\E f : Ascends(T, key, f)}
<1>1. SUFFICES ASSUME ~\E f : Ascends(S, key, f) PROVE FALSE
  OBVIOUS
<1>2. Cardinality(S) \in Bad
  BY <1>1, FS_CardinalityType
<1>3. PICK n \in Bad : n \in Nat /\ \A m \in Nat : m < n => m \notin Bad
  <2>1. Bad \subseteq Nat /\ Bad # {}
    BY <1>2
  <2> HIDE DEF Bad
  <2>2. QED BY <2>1, LeastOf
<1>4. PICK T \in SUBSET S : Cardinality(T) = n /\ ~\E f : Ascends(T, key, f)
  OBVIOUS
<1>5. IsFiniteSet(T) /\ KeyFor(T, key)
  BY <1>4, FS_Subset DEF KeyFor
<1>6. T # {}
  <2>1. SUFFICES ASSUME T = {} PROVE FALSE
    OBVIOUS
  <2>2. Cardinality(T) = 0
    BY <2>1, FS_EmptySet
  <2>3. Ascends(T, key, [i \in 1..0 |-> i])
    BY <2>2 DEF Ascends
  <2>4. QED BY <1>4, <2>3
<1>7. PICK d \in T : \A r \in T \ {d} : key[d] < key[r]
  BY <1>5, <1>6, LowestKey
<1>8. Cardinality(T \ {d}) = n - 1 /\ n - 1 \in Nat /\ IsFiniteSet(T \ {d})
  <2>1. Cardinality(T \ {d}) = n - 1 /\ IsFiniteSet(T \ {d})
    BY <1>4, <1>5, <1>7, FS_RemoveElement
  <2>2. QED BY <2>1, FS_CardinalityType
<1>9. PICK g : Ascends(T \ {d}, key, g)
  <2>1. n - 1 \notin Bad
    <3> HIDE DEF Bad
    <3>1. QED BY <1>3, <1>8
  <2>2. T \ {d} \in SUBSET S
    BY <1>4
  <2>3. QED BY <1>8, <2>1, <2>2
<1> DEFINE f == [i \in 1..n |-> IF i = 1 THEN d ELSE g[i - 1]]
<1>a. n \in Nat /\ n # 0 /\ g \in [1..(n - 1) -> T \ {d}]
  <2> HIDE DEF Bad
  <2>1. QED BY <1>3, <1>4, <1>5, <1>6, <1>8, <1>9, FS_EmptySet DEF Ascends
<1> HIDE DEF Bad
<1>10. \A i \in 2..n : i - 1 \in 1..(n - 1) /\ g[i - 1] \in T \ {d} /\ f[i] = g[i - 1]
  <2>1. \A i \in 2..n : i \in 1..n /\ i # 1 /\ i - 1 \in 1..(n - 1)
    BY <1>a
  <2>2. QED BY <1>a, <2>1
<1>11. f \in [1..n -> T] /\ f[1] = d
  <2>1. 1 \in 1..n /\ \A i \in 1..n : i = 1 \/ i \in 2..n
    BY <1>a
  <2>2. QED BY <1>7, <1>10, <2>1
<1>12. ASSUME NEW i \in 1..n, NEW j \in 1..n, i < j PROVE key[f[i]] < key[f[j]]
  <2>1. j \in 2..n
    BY <1>3, <1>12
  <2>2. CASE i = 1
    BY <1>7, <1>10, <1>11, <2>1, <2>2
  <2>3. CASE i # 1
    <3>1. i \in 2..n /\ i - 1 < j - 1
      BY <1>3, <1>12, <2>3
    <3>2. QED BY <1>8, <1>9, <1>10, <2>1, <3>1 DEF Ascends
  <2>4. QED BY <2>2, <2>3
<1>13. Ascends(T, key, f)
  BY <1>4, <1>11, <1>12 DEF Ascends
<1>14. QED BY <1>4, <1>13

(* A list of S: its length, and every member of S in it.                    *)
Lists(S, f) ==
  /\ Len(f) \in Nat /\ f \in [1..Len(f) -> S]
  /\ \A r \in S : \E i \in 1..Len(f) : f[i] = r

LEMMA SortedIs ==
  ASSUME NEW S, NEW key, IsFiniteSet(S), KeyFor(S, key)
  PROVE  Lists(S, SortedBy(S, key))
<1> DEFINE f == SortedBy(S, key)
           n == Cardinality(S)
<1>1. n \in Nat
  BY FS_CardinalityType
<1>2. f = CHOOSE g \in [1..n -> S] : \A i, j \in DOMAIN g : i < j => key[g[i]] < key[g[j]]
  BY DEF SortedBy
<1>3. \E g \in [1..n -> S] : \A i, j \in DOMAIN g : i < j => key[g[i]] < key[g[j]]
  <2>1. PICK g : Ascends(S, key, g)
    BY ListExists
  <2>2. g \in [1..n -> S] /\ DOMAIN g = 1..n
    BY <2>1 DEF Ascends
  <2>3. QED BY <2>1, <2>2 DEF Ascends
<1> HIDE DEF f
<1>4. f \in [1..n -> S] /\ \A i, j \in DOMAIN f : i < j => key[f[i]] < key[f[j]]
  BY <1>2, <1>3
<1>5. \A i, j \in 1..n : i < j => f[i] # f[j]
  <2>1. \A i \in 1..n : key[f[i]] \in Nat
    BY <1>4 DEF KeyFor
  <2>2. QED BY <1>4, <2>1
<1>6. f \in Injection(1..n, S)
  <2>1. \A i, j \in 1..n : f[i] = f[j] => i = j
    BY <1>1, <1>5
  <2>2. QED BY <1>4, <2>1 DEF Injection, IsInjective
<1>7. IsFiniteSet(1..n) /\ Cardinality(1..n) = n
  BY <1>1, FS_Interval
<1>8. f \in Surjection(1..n, S)
  BY <1>6, <1>7, FS_Injection
<1>9. \A r \in S : \E i \in 1..n : f[i] = r
  BY <1>8 DEF Surjection
<1>10. Len(f) = n
  BY <1>1, <1>4
<1>11. QED BY <1>1, <1>4, <1>9, <1>10 DEF f, Lists

LEMMA RowsAre ==
  ASSUME ExportsAssumption
  PROVE  /\ IsFiniteSet(Rows)
         /\ \A r \in Rows : r[1] \in Partitions /\ r[2] \in 0..9 /\ r = <<r[1], r[2]>>
         /\ \A p \in Partitions : p \in Nat /\ Segs[p] \in 1..10
         /\ \A p \in Partitions : \A s \in 0..Segs[p] - 1 : <<p, s>> \in Rows
<1>1. /\ Partitions = 1..Len(Segs) /\ Len(Segs) \in Nat /\ \A p \in Partitions : Segs[p] \in 1..10
  BY DEF ExportsAssumption, Partitions
<1>2. \A r \in Rows : \E p \in Partitions : \E s \in 0..Segs[p] - 1 : r = <<p, s>>
  BY DEF Rows
<1>3. \A p \in Partitions : \A s \in 0..Segs[p] - 1 : <<p, s>> \in Rows /\ s \in 0..9
  <2>1. \A p \in Partitions : \A s \in 0..Segs[p] - 1 : <<p, s>> \in Rows
    BY DEF Rows
  <2>2. \A p \in Partitions : \A s \in 0..Segs[p] - 1 : s \in 0..9
    BY <1>1
  <2>3. QED BY <2>1, <2>2
<1>4. \A r \in Rows : r[1] \in Partitions /\ r[2] \in 0..9 /\ r = <<r[1], r[2]>>
  BY <1>2, <1>3
<1>5. IsFiniteSet(Rows)
  <2>1. IsFiniteSet(Partitions) /\ IsFiniteSet(0..9)
    <3>1. 0 \in Int /\ 1 \in Int /\ 9 \in Int /\ Len(Segs) \in Int
      BY <1>1
    <3>2. IsFiniteSet(1..Len(Segs)) /\ IsFiniteSet(0..9)
      BY ONLY <3>1, FS_Interval
    <3>3. QED BY <1>1, <3>2
  <2>2. IsFiniteSet(Partitions \X (0..9))
    BY <2>1, FS_Product
  <2>3. Rows \subseteq Partitions \X (0..9)
    BY <1>4
  <2>4. QED BY <2>2, <2>3, FS_Subset
<1>6. QED BY <1>1, <1>3, <1>4, <1>5

(* The list of all rows, and of none.                                       *)
LEMMA SegmentsListed ==
  ASSUME ExportsAssumption
  PROVE  Lists(Rows, BySegment(Rows)) /\ BySegment({}) = <<>>
<1> DEFINE key == [r \in Rows |-> 10 * r[1] + r[2]]
<1>1. ASSUME NEW R \in SUBSET Rows PROVE Lists(R, SortedBy(R, key))
  <2>1. IsFiniteSet(R)
    BY RowsAre, FS_Subset
  <2>2. \A r \in R : key[r] \in Nat
    <3>1. ASSUME NEW r \in R PROVE key[r] \in Nat
      <4>1. r[1] \in Nat /\ r[2] \in 0..9 /\ r \in Rows
        BY RowsAre
      <4>2. key[r] = 10 * r[1] + r[2]
        BY <4>1
      <4>3. PICK a, b : a = r[1] /\ b = r[2]
        OBVIOUS
      <4>4. 10 * a + b \in Nat
        BY ONLY <4>1, <4>3
      <4>5. QED BY <4>2, <4>3, <4>4
    <3>2. QED BY <3>1
  <2>3. ASSUME NEW q \in R, NEW r \in R, key[q] = key[r] PROVE q = r
    <3>1. /\ q[1] \in Nat /\ q[2] \in 0..9 /\ r[1] \in Nat /\ r[2] \in 0..9
          /\ q = <<q[1], q[2]>> /\ r = <<r[1], r[2]>>
      BY RowsAre
    <3>2. 10 * q[1] + q[2] = 10 * r[1] + r[2]
      BY <2>3
    <3>3. PICK a, b, c, d : a = q[1] /\ b = q[2] /\ c = r[1] /\ d = r[2]
      OBVIOUS
    <3>a. a \in Nat /\ c \in Nat /\ b \in 0..9 /\ d \in 0..9 /\ 10 * a + b = 10 * c + d
      BY <3>1, <3>2, <3>3
    <3>4. a = c /\ b = d
      BY ONLY <3>a
    <3>5. QED BY <3>1, <3>3, <3>4
  <2> HIDE DEF key
  <2>4. KeyFor(R, key)
    BY <2>2, <2>3 DEF KeyFor
  <2>5. QED BY <2>1, <2>4, SortedIs
<1>2. \A R : BySegment(R) = SortedBy(R, key)
  BY DEF BySegment
<1> HIDE DEF key
<1>3. Lists({}, BySegment({})) /\ Lists(Rows, BySegment(Rows))
  BY <1>1, <1>2
<1>4. Len(BySegment({})) = 0
  <2>1. PICK f, n : f = BySegment({}) /\ n = Len(f)
    OBVIOUS
  <2>2. n \in Nat /\ f \in [1..n -> {}]
    BY <1>3, <2>1 DEF Lists
  <2>3. n = 0
    <3>1. CASE n = 0
      BY <3>1
    <3>2. CASE n # 0
      <4>1. 1 \in 1..n
        BY <2>2, <3>2
      <4>2. f[1] \in {}
        BY <2>2, <4>1
      <4>3. QED BY <4>2
    <3>3. QED BY <3>1, <3>2
  <2>4. QED BY <2>1, <2>3
<1>5. BySegment({}) \in [1..0 -> {}]
  BY <1>3, <1>4 DEF Lists
<1>6. QED BY <1>3, <1>5
-----------------------------------------------------------------------------
(* The invariant.                                                           *)

Fates == {"none", "open", "closed"}

Phases == {"none", "removing", "done"}

(* The variables that are written one entry at a time.                      *)
EntriesTyped ==
  /\ file \in [Dirs -> [Rows -> Fates]]
  /\ pos \in [Partitions -> Nat] /\ \A p \in Partitions : pos[p] <= 4 * Segs[p]
  /\ drop \in [1..Drops -> Fates] /\ deletion \in Phases
  /\ DOMAIN manifest = Exports /\ DOMAIN job = Exports /\ DOMAIN build = Exports
  /\ request \in [Exports -> {NoRequest} \union [source : Sources, merged : BOOLEAN]]
  /\ whole \in [Exports -> [files : BOOLEAN, drops : SUBSET (1..Drops)]]
  /\ seen \in [Exports -> SUBSET Phases]

(* What partition p's writer has opened and closed, as long as no deletion  *)
(* has begun; the data file of a segment is a step ahead.          *)
WrittenSoFar(d, p, s) ==
  LET done == pos[p] - 4 * s - (IF d = "data" THEN 0 ELSE 1)
  IN  /\ done \in {1, 2} => file[d][<<p, s>>] = "open"
      /\ done >= 3 => file[d][<<p, s>>] = "closed"

FilesKept ==
  deletion = "none" => \A d \in Dirs, p \in Partitions : \A s \in 0..Segs[p] - 1 : WrittenSoFar(d, p, s)

(* An export of whole files: generation is over, and what was whole then is *)
(* there until a deletion begins, and gone when it is over.                 *)
AskedWhole(e) ==
  /\ Generated /\ request[e] # NoRequest
  /\ deletion = "none" => \A i \in whole[e].drops : drop[i] = "closed"
  /\ deletion = "done" => \A d \in Dirs, r \in Rows : file[d][r] = "none"

(* What its build has listed and read, with what it saw of the deletion     *)
(* while it listed: everything before it began, nothing after it was over.  *)
All == BySegment(Rows)

LabelOf(e, b, i) == IF request[e].merged /\ i <= Len(b.aligned) THEN b.aligned[i] ELSE None

Read(e, b, s) ==
  /\ b = [at |-> b.at, data |-> b.data, aligned |-> b.aligned, key |-> b.key,
          drops |-> b.drops, rows |-> b.rows]
  /\ Len(b.rows) \in Nat /\ Len(b.data) \in Nat /\ Len(b.rows) <= Len(b.data)
  /\ b.rows = [i \in 1..Len(b.rows) |-> [row |-> b.data[i], label |-> LabelOf(e, b, i)]]
  /\ s = {"done"} => b.data = <<>>
  /\ s = {"none"} =>
       /\ b.data = All
       /\ request[e].source = "truth" => b.aligned = All
       /\ request[e].source = "sink" => b.key = All /\ whole[e].drops \subseteq b.drops

BuildOf(e, b, s) ==
  /\ b.at \in {"idle", "start", "labels", "data", "aligned", "rows", "completing", "failing"}
  /\ b.at = "labels" => s = {}
  /\ b.at \in {"data", "aligned"} => s # {}
  /\ b.at = "data" => (s = {"none"} => b.labels = All)
  /\ b.at = "aligned" =>
       /\ request[e].source = "sink" /\ s # {"done"}
       /\ s = {"none"} => b.data = All /\ b.key = All
  /\ b.at \in {"rows", "completing"} => (s \in {{"none"}, {"done"}} => Read(e, b, s))
  /\ b.at = "completing" => Len(b.rows) = Len(b.data)

(* What the manifest says is done is what the build ended with.             *)
ManifestTrue(e) ==
  /\ request[e] = NoRequest => job[e] = "none" /\ manifest[e] # "completed" /\ build[e] = NoBuild
  /\ manifest[e] = "completed" => job[e] = "done" /\ build[e].at = "completing"

ExportsInv ==
  /\ EntriesTyped /\ FilesKept
  /\ \A e \in Exports : ManifestTrue(e)
  /\ \A e \in Exports : whole[e].files => AskedWhole(e) /\ BuildOf(e, build[e], seen[e])
-----------------------------------------------------------------------------
(* Its proof.                                                               *)

LEMMA BuildStays ==
  ASSUME NEW e, NEW b, NEW s, BuildOf(e, b, s), request' = request, whole' = whole
  PROVE  BuildOf(e, b, s)'
<1>1. Read(e, b, s) => Read(e, b, s)'
  BY DEF Read, LabelOf
<1>2. QED BY <1>1 DEF BuildOf

LEMMA NothingAsked == ASSUME ExportsAssumption PROVE ExportInit => ExportsInv
<1> SUFFICES ASSUME ExportInit PROVE ExportsInv
  OBVIOUS
<1>1. EntriesTyped
  <2>1. \A p \in Partitions : pos[p] = 0 /\ Segs[p] \in 1..10
    BY RowsAre DEF ExportInit
  <2>2. pos \in [Partitions -> Nat] /\ \A p \in Partitions : pos[p] <= 4 * Segs[p]
    <3>1. \A n \in 1..10 : 0 <= 4 * n
      OBVIOUS
    <3>2. QED BY <2>1, <3>1 DEF ExportInit
  <2>3. QED BY <2>2 DEF ExportInit, EntriesTyped, Fates, Phases
<1>2. FilesKept
  <2>1. SUFFICES ASSUME NEW d \in Dirs, NEW p \in Partitions, NEW s \in 0..Segs[p] - 1
                 PROVE  WrittenSoFar(d, p, s)
    BY DEF FilesKept
  <2>2. pos[p] = 0 /\ s \in Nat
    BY RowsAre DEF ExportInit
  <2>3. QED BY <2>2 DEF WrittenSoFar
<1>3. \A e \in Exports : ManifestTrue(e) /\ ~whole[e].files
  BY DEF ExportInit, ManifestTrue
<1>4. QED BY <1>1, <1>2, <1>3 DEF ExportsInv

(* A step of one export's request, job or build.                            *)
OneExport(e) ==
  /\ UNCHANGED <<disk, request, whole>> /\ request[e] # NoRequest
  /\ DOMAIN manifest' = Exports /\ DOMAIN job' = Exports /\ DOMAIN build' = Exports
  /\ seen' \in [Exports -> SUBSET Phases]
  /\ \A x \in Exports \ {e} : /\ manifest'[x] = manifest[x] /\ job'[x] = job[x]
                              /\ build'[x] = build[x] /\ seen'[x] = seen[x]
  /\ manifest'[e] = "completed" => job'[e] = "done" /\ build'[e].at = "completing"

LEMMA OneExportKeeps ==
  ASSUME ExportsInv, NEW e \in Exports, OneExport(e), whole[e].files => BuildOf(e, build'[e], seen'[e])
  PROVE  ExportsInv'
<1>1. /\ file' = file /\ pos' = pos /\ drop' = drop /\ deletion' = deletion
      /\ request' = request /\ whole' = whole
  BY DEF OneExport, disk
<1>2. EntriesTyped' /\ FilesKept'
  BY <1>1 DEF ExportsInv, EntriesTyped, FilesKept, WrittenSoFar, OneExport
<1>3. ASSUME NEW x \in Exports PROVE ManifestTrue(x)'
  <2>1. CASE x = e
    BY <1>1, <2>1 DEF OneExport, ManifestTrue
  <2>2. CASE x # e
    <3>1. ManifestTrue(x)
      BY DEF ExportsInv
    <3>2. manifest'[x] = manifest[x] /\ job'[x] = job[x] /\ build'[x] = build[x]
      BY <2>2 DEF OneExport
    <3>3. QED BY <1>1, <3>1, <3>2 DEF ManifestTrue
  <2>3. QED BY <2>1, <2>2
<1>4. ASSUME NEW x \in Exports, whole'[x].files PROVE AskedWhole(x)' /\ BuildOf(x, build[x], seen[x])'
  <2>1. AskedWhole(x) /\ BuildOf(x, build[x], seen[x])
    BY <1>1, <1>4 DEF ExportsInv
  <2>2. AskedWhole(x)'
    BY <1>1, <2>1 DEF AskedWhole, Generated
  <2>3. PICK b, s : b = build'[x] /\ s = seen'[x]
    OBVIOUS
  <2>4. BuildOf(x, b, s)
    BY <1>1, <1>4, <2>1, <2>3 DEF OneExport
  <2>5. BuildOf(x, b, s)'
    BY <1>1, <2>4, BuildStays
  <2>6. QED BY <2>2, <2>3, <2>5
<1>5. QED BY <1>2, <1>3, <1>4 DEF ExportsInv

(* A step of the files.                                                     *)
LEMMA DiskKeeps ==
  ASSUME ExportsInv, EntriesTyped', FilesKept', request' = request, whole' = whole, seen' = seen,
         \A e \in Exports : \/ manifest'[e] = manifest[e] /\ job'[e] = job[e] /\ build'[e] = build[e]
                            \/ manifest'[e] = "none" /\ job'[e] = job[e] /\ build'[e] = build[e]
                            \/ /\ job[e] = "active" /\ build'[e] = NoBuild /\ manifest'[e] = manifest[e],
         \A e \in Exports : whole[e].files => AskedWhole(e)'
  PROVE  ExportsInv'
<1>1. ASSUME NEW x \in Exports PROVE ManifestTrue(x)'
  <2>1. ManifestTrue(x)
    BY DEF ExportsInv
  <2>2. QED BY <2>1 DEF ManifestTrue
<1>2. ASSUME NEW x \in Exports, whole'[x].files PROVE BuildOf(x, build[x], seen[x])'
  <2>1. BuildOf(x, build[x], seen[x])
    BY <1>2 DEF ExportsInv
  <2>2. PICK b, s : b = build'[x] /\ s = seen[x]
    OBVIOUS
  <2>3. BuildOf(x, b, s)
    <3>1. CASE build'[x] = build[x]
      BY <2>1, <2>2, <3>1
    <3>2. CASE build'[x] = NoBuild
      BY <2>2, <3>2 DEF BuildOf, NoBuild
    <3>3. QED BY <3>1, <3>2
  <2>4. BuildOf(x, b, s)'
    BY <2>3, BuildStays
  <2>5. QED BY <2>2, <2>4
<1>3. QED BY <1>1, <1>2 DEF ExportsInv

(* A partition's writer is in one segment, in one of four places.           *)
LEMMA WriterIsAt ==
  ASSUME NEW n \in Nat
  PROVE  \E m \in Nat, k \in 0..3 : n = 4 * m + k /\ n \div 4 = m /\ n % 4 = k
OBVIOUS

LEMMA FileSet ==
  ASSUME NEW f \in [Dirs -> [Rows -> Fates]], NEW d \in Dirs, NEW r \in Rows, NEW v \in Fates,
         NEW g, g = [f EXCEPT ![d][r] = v]
  PROVE  /\ g \in [Dirs -> [Rows -> Fates]] /\ g[d][r] = v
         /\ \A c \in Dirs, x \in Rows : c # d \/ x # r => g[c][x] = f[c][x]
OBVIOUS

LEMMA WriteKeeps ==
  ASSUME ExportsAssumption, ExportsInv, NEW p \in Partitions, Write(p)
  PROVE  ExportsInv'
<1>0. p \in Nat /\ Segs[p] \in 1..10
  BY RowsAre
<1>1. /\ pos \in [Partitions -> Nat] /\ pos[p] \in Nat /\ pos[p] < 4 * Segs[p]
      /\ file \in [Dirs -> [Rows -> Fates]]
      /\ pos' = [pos EXCEPT ![p] = pos[p] + 1]
  BY DEF ExportsInv, EntriesTyped, Write
<1>2. PICK m \in Nat, k \in 0..3 : pos[p] = 4 * m + k /\ pos[p] \div 4 = m /\ pos[p] % 4 = k
  BY <1>1, WriterIsAt
<1>3. PICK r : r = <<p, m>>
  OBVIOUS
<1>4. m \in 0..Segs[p] - 1 /\ r \in Rows
  <2>1. m \in 0..Segs[p] - 1
    <3>1. PICK n : n = Segs[p]
      OBVIOUS
    <3>2. n \in Nat /\ 4 * m + k < 4 * n
      BY <1>0, <1>1, <1>2, <3>1
    <3>3. m <= n - 1
      BY ONLY <3>2, m \in Nat, k \in 0..3
    <3>4. QED BY <3>1, <3>2, <3>3
  <2>2. QED BY <1>3, <2>1, RowsAre
<1>5. PICK d0, v : /\ d0 = (IF k \in {0, 2} THEN "data" ELSE "labels")
                   /\ v = (IF k < 2 \/ file[d0][r] # "open" THEN (IF k < 2 THEN "open" ELSE file[d0][r])
                           ELSE "closed")
  OBVIOUS
<1>6. d0 \in Dirs /\ v \in Fates /\ file' = [file EXCEPT ![d0][r] = v]
  <2>1. d0 \in Dirs
    BY <1>5 DEF Dirs
  <2>2. v \in Fates
    BY <1>1, <1>4, <1>5, <2>1 DEF Fates
  <2>3. file' = IF k < 2 THEN [file EXCEPT ![d0][r] = "open"]
                ELSE [file EXCEPT ![d0][r] = IF @ = "open" THEN "closed" ELSE @]
    BY <1>2, <1>3, <1>5, Zenon DEF Write, Written
  <2>4. CASE k < 2
    <3>1. v = "open"
      BY <1>5, <2>4
    <3>2. file' = [file EXCEPT ![d0][r] = "open"]
      BY <2>3, <2>4
    <3>3. QED BY <2>1, <2>2, <3>1, <3>2
  <2>5. CASE ~(k < 2)
    <3>1. v = IF file[d0][r] = "open" THEN "closed" ELSE file[d0][r]
      BY <1>5, <2>5
    <3>2. file' = [file EXCEPT ![d0][r] = IF file[d0][r] = "open" THEN "closed" ELSE file[d0][r]]
      BY <2>3, <2>5, Zenon
    <3>3. QED BY <2>1, <2>2, <3>1, <3>2
  <2>6. QED BY <2>1, <2>2, <2>4, <2>5
<1>7. /\ file' \in [Dirs -> [Rows -> Fates]] /\ file'[d0][r] = v
      /\ \A c \in Dirs, x \in Rows : c # d0 \/ x # r => file'[c][x] = file[c][x]
  BY <1>1, <1>4, <1>6, FileSet
<1>8. EntriesTyped'
  <2>1. pos' \in [Partitions -> Nat] /\ \A q \in Partitions : pos'[q] <= 4 * Segs[q]
    <3>1. \A q \in Partitions : pos[q] \in Nat /\ pos[q] <= 4 * Segs[q] /\ Segs[q] \in 1..10
      BY RowsAre DEF ExportsInv, EntriesTyped
    <3>2. \A a \in Nat, n \in 1..10 : a < 4 * n => a + 1 <= 4 * n
      OBVIOUS
    <3>3. pos' \in [Partitions -> Nat] /\ pos'[p] = pos[p] + 1
          /\ \A q \in Partitions : q # p => pos'[q] = pos[q]
      BY <1>1, <3>1
    <3>4. pos'[p] <= 4 * Segs[p]
      BY <1>0, <1>1, <3>2, <3>3
    <3>5. QED BY <3>1, <3>3, <3>4
  <2>2. QED BY <1>7, <2>1 DEF ExportsInv, EntriesTyped, Write, queue, told
<1>9. \A d \in Dirs, x \in Rows : x # r => file'[d][x] = file[d][x]
  BY <1>7
<1>10. FilesKept'
  <2>1. SUFFICES ASSUME deletion = "none", NEW d \in Dirs, NEW q \in Partitions, NEW s \in 0..Segs[q] - 1
                 PROVE  WrittenSoFar(d, q, s)'
    BY DEF FilesKept, Write
  <2>2. WrittenSoFar(d, q, s)
    BY <2>1 DEF ExportsInv, FilesKept
  <2>3. <<q, s>> \in Rows /\ s \in Nat
    BY RowsAre
  <2>4. CASE q # p
    <3>1. pos'[q] = pos[q] /\ file'[d][<<q, s>>] = file[d][<<q, s>>]
      BY <1>1, <1>3, <1>9, <2>3, <2>4
    <3>2. QED BY <2>2, <3>1 DEF WrittenSoFar
  <2>5. CASE q = p /\ s # m
    <3>1. pos'[q] = pos[q] + 1 /\ pos[q] = 4 * m + k
      BY <1>1, <1>2, <2>5
    <3>2. file'[d][<<q, s>>] = file[d][<<q, s>>]
      BY <1>3, <1>9, <2>3, <2>5
    <3>3. PICK one : one = (IF d = "data" THEN 0 ELSE 1) /\ one \in 0..1
      OBVIOUS
    <3>4. CASE s < m
      <4>0. m \in Nat /\ k \in 0..3 /\ s \in Nat /\ one \in 0..1 /\ s < m
        BY <2>3, <3>3, <3>4
      <4>1. pos[q] - 4 * s - one >= 3 /\ pos'[q] - 4 * s - one >= 4
        BY ONLY SMTT(30), <3>1, <4>0
      <4>2. pos'[q] - 4 * s - one \notin {1, 2}
        BY <2>3, <3>1, <3>3, <3>4
      <4>3. QED BY <2>2, <3>2, <3>3, <4>1, <4>2 DEF WrittenSoFar
    <3>5. CASE m < s
      <4>1. ~(pos'[q] - 4 * s - one >= 3) /\ pos'[q] - 4 * s - one \notin {1, 2}
        BY <2>3, <3>1, <3>3, <3>5
      <4>2. QED BY <3>3, <4>1 DEF WrittenSoFar
    <3>6. QED BY <2>3, <2>5, <3>4, <3>5
  <2>6. CASE q = p /\ s = m
    <3>1. pos[q] - 4 * s = k /\ pos'[q] - 4 * s = k + 1 /\ <<q, s>> = r
      BY <1>1, <1>2, <1>3, <2>6
    <3>2. r \in Rows /\ d \in {"data", "labels"}
      BY <1>4 DEF Dirs
    <3>3. CASE d = d0
      <4>1. file'[d][r] = v
        BY <1>7, <3>3
      <4>2. CASE k < 2
        <5>1. v = "open" /\ k \in {0, 1}
          BY <1>5, <4>2
        <5>2. QED BY <1>5, <3>1, <3>3, <4>1, <5>1 DEF WrittenSoFar
      <4>3. CASE ~(k < 2)
        <5>1. k \in {2, 3}
          BY <4>3
        <5>2. file[d][r] = "open"
          <6>1. k - (IF d = "data" THEN 0 ELSE 1) \in {1, 2}
            BY <1>5, <3>3, <5>1
          <6>2. QED BY <2>2, <3>1, <6>1 DEF WrittenSoFar
        <5>3. v = "closed"
          BY <1>5, <3>3, <4>3, <5>2
        <5>4. QED BY <1>5, <3>1, <3>3, <4>1, <5>1, <5>3 DEF WrittenSoFar
      <4>4. QED BY <4>2, <4>3
    <3>4. CASE d # d0
      <4>1. file'[d][r] = file[d][r]
        BY <1>7, <3>2, <3>4
      <4>2. d = IF k \in {0, 2} THEN "labels" ELSE "data"
        BY <1>5, <3>2, <3>4
      <4>3. QED BY <2>2, <3>1, <4>1, <4>2 DEF WrittenSoFar
    <3>5. QED BY <3>3, <3>4
  <2>7. QED BY <2>4, <2>5, <2>6
<1>11. \A e \in Exports : ~whole[e].files
  <2>1. ~Generated
    BY <1>1 DEF Generated
  <2>2. QED BY <2>1 DEF ExportsInv, AskedWhole
<1>12. QED BY <1>8, <1>10, <1>11, DiskKeeps DEF Write, queue, told

(* What a reset writer had opened is closed, or left; it starts over.       *)
LEMMA AttemptKeeps ==
  ASSUME ExportsAssumption, ExportsInv, NEW p \in Partitions, AttemptFails(p)
  PROVE  ExportsInv'
<1>0. \A q \in Partitions : Segs[q] \in 1..10
  BY RowsAre
<1>1. /\ pos \in [Partitions -> Nat] /\ pos[p] < 4 * Segs[p] /\ pos' = [pos EXCEPT ![p] = 0]
      /\ file \in [Dirs -> [Rows -> Fates]]
      /\ file' = [d \in Dirs |-> [r \in Rows |->
                    IF r[1] = p /\ file[d][r] = "open" THEN "closed" ELSE file[d][r]]]
  BY DEF ExportsInv, EntriesTyped, AttemptFails
<1>2. EntriesTyped'
  <2>1. file' \in [Dirs -> [Rows -> Fates]]
    BY <1>1 DEF Fates
  <2>2. pos' \in [Partitions -> Nat] /\ \A q \in Partitions : pos'[q] <= 4 * Segs[q]
    <3>1. \A n \in 1..10 : 0 <= 4 * n
      OBVIOUS
    <3>2. pos'[p] <= 4 * Segs[p]
      BY <1>0, <1>1, <3>1
    <3>3. \A q \in Partitions : q # p => pos'[q] = pos[q] /\ pos[q] <= 4 * Segs[q]
      BY <1>1 DEF ExportsInv, EntriesTyped
    <3>4. QED BY <1>1, <3>2, <3>3
  <2>3. QED BY <2>1, <2>2 DEF ExportsInv, EntriesTyped, AttemptFails, queue, told
<1>3. FilesKept'
  <2>1. SUFFICES ASSUME deletion = "none", NEW d \in Dirs, NEW q \in Partitions, NEW s \in 0..Segs[q] - 1
                 PROVE  WrittenSoFar(d, q, s)'
    BY DEF FilesKept, AttemptFails
  <2>2. WrittenSoFar(d, q, s)
    BY <2>1 DEF ExportsInv, FilesKept
  <2>3. <<q, s>> \in Rows /\ s \in Nat
    BY RowsAre
  <2>4. CASE q # p
    <3>1. pos'[q] = pos[q] /\ file'[d][<<q, s>>] = file[d][<<q, s>>]
      BY <1>1, <2>3, <2>4
    <3>2. QED BY <2>2, <3>1 DEF WrittenSoFar
  <2>5. CASE q = p
    <3>1. pos'[q] = 0
      BY <1>1, <2>5
    <3>2. QED BY <2>3, <3>1 DEF WrittenSoFar
  <2>6. QED BY <2>4, <2>5
<1>4. \A e \in Exports : ~whole[e].files
  <2>1. ~Generated
    BY <1>0, <1>1 DEF Generated
  <2>2. QED BY <2>1 DEF ExportsInv, AskedWhole
<1>5. QED BY <1>2, <1>3, <1>4, DiskKeeps DEF AttemptFails, queue, told

LEMMA CrashKeeps ==
  ASSUME ExportsAssumption, ExportsInv, Crash
  PROVE  ExportsInv'
<1>0. \A q \in Partitions : Segs[q] \in 1..10
  BY RowsAre
<1>1. /\ pos \in [Partitions -> Nat] /\ file' = file /\ drop' = drop /\ deletion' = deletion
      /\ pos' = [p \in Partitions |-> IF pos[p] < 4 * Segs[p] THEN 0 ELSE pos[p]]
      /\ manifest' = manifest /\ request' = request /\ whole' = whole /\ seen' = seen
  BY DEF ExportsInv, EntriesTyped, Crash, told
<1>2. \A q \in Partitions : pos'[q] = pos[q] \/ (pos'[q] = 0 /\ pos[q] # 4 * Segs[q])
  BY <1>0, <1>1
<1>3. EntriesTyped'
  <2>1. pos' \in [Partitions -> Nat] /\ \A q \in Partitions : pos'[q] <= 4 * Segs[q]
    <3>1. \A n \in 1..10 : 0 <= 4 * n
      OBVIOUS
    <3>2. \A q \in Partitions : pos[q] \in Nat /\ pos[q] <= 4 * Segs[q]
      BY DEF ExportsInv, EntriesTyped
    <3>3. QED BY <1>0, <1>1, <1>2, <3>1, <3>2
  <2>2. DOMAIN job' = Exports /\ DOMAIN build' = Exports
    BY DEF Crash
  <2>3. QED BY <1>1, <2>1, <2>2 DEF ExportsInv, EntriesTyped
<1>4. FilesKept'
  <2>1. SUFFICES ASSUME deletion = "none", NEW d \in Dirs, NEW q \in Partitions, NEW s \in 0..Segs[q] - 1
                 PROVE  WrittenSoFar(d, q, s)'
    BY <1>1 DEF FilesKept
  <2>2. WrittenSoFar(d, q, s) /\ s \in Nat
    BY <2>1, RowsAre DEF ExportsInv, FilesKept
  <2>3. CASE pos'[q] = pos[q]
    BY <1>1, <2>2, <2>3 DEF WrittenSoFar
  <2>4. CASE pos'[q] = 0
    BY <2>2, <2>4 DEF WrittenSoFar
  <2>5. QED BY <1>2, <2>3, <2>4
<1>5. \A e \in Exports : whole[e].files => AskedWhole(e)'
  <2>1. Generated => Generated'
    BY <1>2 DEF Generated
  <2>2. QED BY <1>1, <2>1 DEF ExportsInv, AskedWhole
<1>6. \A e \in Exports : \/ job'[e] = job[e] /\ build'[e] = build[e]
                         \/ job[e] = "active" /\ build'[e] = NoBuild
  BY DEF Crash
<1>7. QED BY <1>1, <1>3, <1>4, <1>5, <1>6, DiskKeeps

LEMMA ReplayKeeps ==
  ASSUME ExportsAssumption, ExportsInv, NEW i \in 1..Drops, Replay(i)
  PROVE  ExportsInv'
<1>1. /\ drop \in [1..Drops -> Fates] /\ file' = file /\ pos' = pos /\ deletion' = deletion
      /\ manifest' = manifest /\ job' = job /\ build' = build /\ request' = request
      /\ whole' = whole /\ seen' = seen
  BY DEF ExportsInv, EntriesTyped, Replay, queue, told
<1>2. /\ drop' \in [1..Drops -> Fates]
      /\ \A j \in 1..Drops : drop[j] = "closed" => drop'[j] = "closed"
  <2>1. PICK v \in Fates : drop' = [drop EXCEPT ![i] = v] /\ drop[i] # "closed"
    BY DEF Replay, Fates
  <2>2. QED BY <1>1, <2>1
<1>3. EntriesTyped' /\ FilesKept'
  BY <1>1, <1>2 DEF ExportsInv, EntriesTyped, FilesKept, WrittenSoFar
<1>4. \A e \in Exports : whole[e].files => AskedWhole(e)'
  <2>1. \A e \in Exports : whole[e].drops \subseteq 1..Drops
    BY DEF ExportsInv, EntriesTyped
  <2>2. QED BY <1>1, <1>2, <2>1 DEF ExportsInv, AskedWhole, Generated
<1>5. QED BY <1>1, <1>3, <1>4, DiskKeeps

LEMMA DeleteKeeps ==
  ASSUME ExportsAssumption, ExportsInv, DeleteOutputs
  PROVE  ExportsInv'
<1>1. /\ pos' = pos /\ deletion' = "removing" /\ file' = file /\ drop' = drop
      /\ manifest' = manifest /\ job' = job /\ build' = build /\ request' = request
      /\ whole' = whole /\ seen' = seen
  BY DEF DeleteOutputs, queue, told
<1>2. EntriesTyped'
  BY <1>1 DEF ExportsInv, EntriesTyped, Phases
<1>3. FilesKept'
  BY <1>1 DEF FilesKept
<1>4. \A e \in Exports : whole[e].files => AskedWhole(e)'
  BY <1>1 DEF ExportsInv, AskedWhole, Generated
<1>5. QED BY <1>1, <1>2, <1>3, <1>4, DiskKeeps

LEMMA RemoveKeeps ==
  ASSUME ExportsAssumption, ExportsInv, RemoveFile
  PROVE  ExportsInv'
<1>1. /\ pos' = pos /\ deletion = "removing" /\ deletion' = deletion
      /\ job' = job /\ build' = build /\ request' = request /\ whole' = whole /\ seen' = seen
  BY DEF RemoveFile, told
<1>2. /\ file \in [Dirs -> [Rows -> Fates]] /\ drop \in [1..Drops -> Fates]
      /\ DOMAIN manifest = Exports
  BY DEF ExportsInv, EntriesTyped
<1>3. /\ file' \in [Dirs -> [Rows -> Fates]] /\ drop' \in [1..Drops -> Fates]
      /\ DOMAIN manifest' = Exports
      /\ \A e \in Exports : manifest'[e] \in {manifest[e], "none"}
  <2>1. CASE /\ \E d \in Dirs : \E r \in Present(d) : file' = [file EXCEPT ![d][r] = "none"]
             /\ UNCHANGED <<drop, manifest>>
    <3>1. PICK d \in Dirs, r \in Rows : file' = [file EXCEPT ![d][r] = "none"]
      BY <2>1 DEF Present
    <3>2. file' \in [Dirs -> [Rows -> Fates]]
      BY <1>2, <3>1 DEF Fates
    <3>3. QED BY <1>2, <2>1, <3>2
  <2>2. CASE /\ \E i \in DropFiles : drop' = [drop EXCEPT ![i] = "none"]
             /\ UNCHANGED <<file, manifest>>
    <3>1. drop' \in [1..Drops -> Fates]
      BY <1>2, <2>2 DEF DropFiles, Fates
    <3>2. QED BY <1>2, <2>2, <3>1
  <2>3. CASE /\ \E e \in Exports : manifest' = [manifest EXCEPT ![e] = "none"]
             /\ UNCHANGED <<file, drop>>
    BY <1>2, <2>3
  <2>4. QED BY <2>1, <2>2, <2>3 DEF RemoveFile
<1>4. EntriesTyped'
  BY <1>1, <1>3 DEF ExportsInv, EntriesTyped
<1>5. FilesKept'
  BY <1>1 DEF FilesKept
<1>6. \A e \in Exports : whole[e].files => AskedWhole(e)'
  BY <1>1 DEF ExportsInv, AskedWhole, Generated
<1>7. QED BY <1>1, <1>3, <1>4, <1>5, <1>6, DiskKeeps

LEMMA RemovedKeeps ==
  ASSUME ExportsAssumption, ExportsInv, RemovalEnds
  PROVE  ExportsInv'
<1>1. /\ pos' = pos /\ deletion' = "done" /\ file' = file /\ drop' = drop
      /\ manifest' = manifest /\ job' = job /\ build' = build /\ request' = request
      /\ whole' = whole /\ seen' = seen
  BY DEF RemovalEnds, queue, told
<1>2. EntriesTyped'
  BY <1>1 DEF ExportsInv, EntriesTyped, Phases
<1>3. FilesKept'
  BY <1>1 DEF FilesKept
<1>4. \A d \in Dirs, r \in Rows : file[d][r] = "none"
  BY DEF RemovalEnds, Present
<1>5. \A e \in Exports : whole[e].files => AskedWhole(e)'
  BY <1>1, <1>4 DEF ExportsInv, AskedWhole, Generated
<1>6. QED BY <1>1, <1>2, <1>3, <1>5, DiskKeeps

-----------------------------------------------------------------------------
(* The request, the job and the build.                                      *)

LEMMA RequestKeeps ==
  ASSUME ExportsAssumption, ExportsInv, NEW e \in Exports, RequestExport(e)
  PROVE  ExportsInv'
<1>1. /\ file' = file /\ pos' = pos /\ drop' = drop /\ deletion' = deletion
      /\ job' = job /\ build' = build /\ seen' = seen
      /\ request[e] = NoRequest /\ manifest' = [manifest EXCEPT ![e] = "queued"]
      /\ whole' = [whole EXCEPT ![e] = [files |-> Generated /\ deletion = "none",
                                        drops |-> {i \in 1..Drops : drop[i] = "closed"}]]
  BY DEF RequestExport, disk
<1>2. PICK q \in [source : Sources, merged : BOOLEAN] : request' = [request EXCEPT ![e] = q]
  BY DEF RequestExport
<1>3. /\ request \in [Exports -> {NoRequest} \union [source : Sources, merged : BOOLEAN]]
      /\ whole \in [Exports -> [files : BOOLEAN, drops : SUBSET (1..Drops)]]
      /\ DOMAIN manifest = Exports
  BY DEF ExportsInv, EntriesTyped
<1>4. /\ request'[e] = q /\ q # NoRequest /\ manifest'[e] = "queued"
      /\ whole'[e].files = (Generated /\ deletion = "none")
      /\ whole'[e].drops = {i \in 1..Drops : drop[i] = "closed"}
      /\ \A x \in Exports : x # e => /\ request'[x] = request[x] /\ manifest'[x] = manifest[x]
                                     /\ whole'[x] = whole[x]
  <2>1. q # NoRequest
    BY DEF NoRequest, Sources
  <2>2. QED BY <1>1, <1>2, <1>3, <2>1
<1>5. EntriesTyped' /\ FilesKept'
  <2>1. request' \in [Exports -> {NoRequest} \union [source : Sources, merged : BOOLEAN]]
    BY <1>2, <1>3
  <2>2. whole' \in [Exports -> [files : BOOLEAN, drops : SUBSET (1..Drops)]]
    <3>1. [files |-> Generated /\ deletion = "none", drops |-> {i \in 1..Drops : drop[i] = "closed"}]
            \in [files : BOOLEAN, drops : SUBSET (1..Drops)]
      OBVIOUS
    <3>2. PICK h \in [files : BOOLEAN, drops : SUBSET (1..Drops)] : whole' = [whole EXCEPT ![e] = h]
      BY <1>1, <3>1
    <3>3. QED BY <1>3, <3>2
  <2>3. DOMAIN manifest' = Exports
    BY <1>1, <1>3
  <2>4. EntriesTyped'
    BY <1>1, <2>1, <2>2, <2>3 DEF ExportsInv, EntriesTyped
  <2>5. FilesKept'
    BY <1>1 DEF ExportsInv, FilesKept, WrittenSoFar
  <2>6. QED BY <2>4, <2>5
<1>6. ASSUME NEW x \in Exports
      PROVE  ManifestTrue(x)' /\ (whole'[x].files => AskedWhole(x)' /\ BuildOf(x, build[x], seen[x])')
  <2>1. ManifestTrue(x) /\ (whole[x].files => AskedWhole(x) /\ BuildOf(x, build[x], seen[x]))
    BY DEF ExportsInv
  <2>2. CASE x = e
    <3>1. job[e] = "none" /\ build[e] = NoBuild /\ build'[e] = NoBuild
      BY <1>1, <2>1, <2>2 DEF ManifestTrue
    <3>2. ManifestTrue(x)'
      BY <1>1, <1>4, <2>2 DEF ManifestTrue
    <3>3. BuildOf(x, build[x], seen[x])'
      BY <2>2, <3>1 DEF BuildOf, NoBuild
    <3>4. whole'[e].files => AskedWhole(e)'
      BY <1>1, <1>4 DEF AskedWhole, Generated
    <3>5. QED BY <2>2, <3>2, <3>3, <3>4
  <2>3. CASE x # e
    <3>1. request'[x] = request[x] /\ manifest'[x] = manifest[x] /\ whole'[x] = whole[x]
      BY <1>4, <2>3
    <3>2. ManifestTrue(x)'
      BY <1>1, <2>1, <3>1 DEF ManifestTrue
    <3>3. AskedWhole(x) => AskedWhole(x)'
      BY <1>1, <3>1 DEF AskedWhole, Generated
    <3>4. PICK b, s : b = build[x] /\ s = seen[x]
      OBVIOUS
    <3>5. BuildOf(x, b, s) => BuildOf(x, b, s)'
      BY <1>1, <3>1 DEF BuildOf, Read, LabelOf
    <3>6. build'[x] = b /\ seen'[x] = s
      BY <1>1, <3>4
    <3>7. QED BY <2>1, <3>1, <3>2, <3>3, <3>4, <3>5, <3>6
  <2>4. QED BY <2>2, <2>3
<1>7. QED BY <1>5, <1>6 DEF ExportsInv

LEMMA QueueKeeps ==
  ASSUME ExportsAssumption, ExportsInv, NEW e \in Exports, QueueBuild(e)
  PROVE  ExportsInv'
<1>1. OneExport(e)
  <2>1. DOMAIN manifest = Exports /\ DOMAIN job = Exports /\ DOMAIN build = Exports /\ ManifestTrue(e)
    BY DEF ExportsInv, EntriesTyped
  <2>2. manifest[e] # "completed" /\ build' = build
    BY <2>1 DEF ManifestTrue, QueueBuild
  <2>3. seen' = seen /\ seen \in [Exports -> SUBSET Phases]
    BY DEF QueueBuild, told, ExportsInv, EntriesTyped
  <2>4. QED BY <2>1, <2>2, <2>3 DEF OneExport, QueueBuild, disk, told
<1>2. whole[e].files => BuildOf(e, build'[e], seen'[e])
  BY DEF ExportsInv, QueueBuild, told
<1>3. QED BY <1>1, <1>2, OneExportKeeps

(* A step of the build that is under way.                                   *)
LEMMA BuildMoves ==
  ASSUME ExportsAssumption, ExportsInv, NEW e \in Exports, NEW b, NEW s \in SUBSET Phases,
         To(e, b), seen' = [seen EXCEPT ![e] = s], job[e] # "none",
         UNCHANGED <<disk, request, whole>>, manifest' = manifest \/ manifest' = [manifest EXCEPT ![e] = "running"],
         job[e] # "done", DOMAIN job' = Exports, \A x \in Exports \ {e} : job'[x] = job[x],
         whole[e].files => BuildOf(e, b, s)
  PROVE  ExportsInv'
<1>1. /\ DOMAIN manifest = Exports /\ DOMAIN job = Exports /\ DOMAIN build = Exports /\ ManifestTrue(e)
      /\ seen \in [Exports -> SUBSET Phases]
  BY DEF ExportsInv, EntriesTyped
<1>2. build' = [build EXCEPT ![e] = b]
  BY DEF To
<1>3. /\ DOMAIN build' = Exports /\ build'[e] = b
      /\ \A x \in Exports \ {e} : build'[x] = build[x]
      /\ seen' \in [Exports -> SUBSET Phases] /\ seen'[e] = s
      /\ \A x \in Exports \ {e} : seen'[x] = seen[x]
  BY <1>1, <1>2
<1>4. request[e] # NoRequest /\ manifest'[e] # "completed"
  BY <1>1 DEF ManifestTrue
<1>5. OneExport(e)
  BY <1>1, <1>3, <1>4 DEF OneExport
<1>6. QED BY <1>3, <1>5, OneExportKeeps

LEMMA TakeKeeps ==
  ASSUME ExportsAssumption, ExportsInv, NEW e \in Exports, TakeJob(e)
  PROVE  ExportsInv'
<1>1. /\ DOMAIN manifest = Exports /\ DOMAIN job = Exports /\ DOMAIN build = Exports /\ ManifestTrue(e)
      /\ job[e] = "waiting" /\ manifest' = manifest /\ UNCHANGED <<disk, request, whole, seen>>
      /\ seen \in [Exports -> SUBSET Phases]
  BY DEF ExportsInv, EntriesTyped, TakeJob, told
<1>2. CASE build' = build /\ job' = [job EXCEPT ![e] = "failed"]
  <2>1. OneExport(e)
    BY <1>1, <1>2 DEF OneExport, ManifestTrue
  <2>2. whole[e].files => BuildOf(e, build'[e], seen'[e])
    BY <1>1, <1>2 DEF ExportsInv
  <2>3. QED BY <2>1, <2>2, OneExportKeeps
<1>3. CASE To(e, [at |-> "start"]) /\ job' = [job EXCEPT ![e] = "active"]
  <2>1. PICK b, s : b = [at |-> "start"] /\ s = seen[e] /\ seen' = [seen EXCEPT ![e] = s]
                    /\ s \in SUBSET Phases
    BY <1>1
  <2>2. BuildOf(e, b, s)
    BY <2>1 DEF BuildOf
  <2>3. DOMAIN job' = Exports /\ \A x \in Exports \ {e} : job'[x] = job[x]
    BY <1>1, <1>3
  <2>4. To(e, b)
    BY <1>3, <2>1
  <2>5. QED BY <1>1, <2>1, <2>2, <2>3, <2>4, BuildMoves
<1>4. QED BY <1>2, <1>3 DEF TakeJob

(* What every step of a build under way finds.                              *)
Working(e) ==
  /\ job[e] = "active" /\ DOMAIN job = Exports /\ DOMAIN build = Exports
  /\ whole[e].files => AskedWhole(e) /\ BuildOf(e, build[e], seen[e])
  /\ seen \in [Exports -> SUBSET Phases]
  /\ request[e] \in [source : Sources, merged : BOOLEAN]

LEMMA WorksOn ==
  ASSUME ExportsInv, NEW e \in Exports, job[e] = "active"
  PROVE  Working(e)
<1>1. ManifestTrue(e) /\ request[e] \in {NoRequest} \union [source : Sources, merged : BOOLEAN]
  BY DEF ExportsInv, EntriesTyped
<1>2. request[e] # NoRequest
  BY <1>1 DEF ManifestTrue
<1>3. QED BY <1>1, <1>2 DEF ExportsInv, EntriesTyped, Working

(* A step that only moves the build, and one that lists no files.           *)
LEMMA BuildOnly ==
  ASSUME ExportsAssumption, ExportsInv, NEW e \in Exports, NEW b, To(e, b), job[e] = "active",
         UNCHANGED <<disk, manifest, request, job, whole>>,
         NEW s \in SUBSET Phases, seen' = [seen EXCEPT ![e] = s],
         whole[e].files => BuildOf(e, b, s)
  PROVE  ExportsInv'
BY BuildMoves DEF ExportsInv, EntriesTyped

LEMMA BuildReads ==
  ASSUME ExportsAssumption, ExportsInv, NEW e \in Exports, NEW b, To(e, b), job[e] = "active",
         UNCHANGED <<disk, manifest, request, job, told>>,
         whole[e].files => BuildOf(e, b, seen[e])
  PROVE  ExportsInv'
<1>1. PICK s : s = seen[e]
  OBVIOUS
<1>2. s \in SUBSET Phases /\ seen' = [seen EXCEPT ![e] = s] /\ whole' = whole
  BY <1>1 DEF ExportsInv, EntriesTyped, told
<1>3. QED BY <1>1, <1>2, BuildOnly

LEMMA MarkKeeps ==
  ASSUME ExportsAssumption, ExportsInv, NEW e \in Exports, MarkRunning(e)
  PROVE  ExportsInv'
<1>1. PICK b, s : b = [at |-> "labels"] /\ s = {}
  OBVIOUS
<1>2. BuildOf(e, b, s) /\ s \in SUBSET Phases
  BY <1>1 DEF BuildOf
<1>3. To(e, b) /\ seen' = [seen EXCEPT ![e] = s] /\ job[e] = "active" /\ DOMAIN job' = Exports
  BY <1>1 DEF MarkRunning, At, ExportsInv, EntriesTyped
<1>4. QED BY <1>2, <1>3, BuildMoves DEF MarkRunning

(* What listing a directory gives, when the files are whole or gone.        *)
LEMMA ListingIs ==
  ASSUME ExportsAssumption, NEW e, AskedWhole(e), ExportsInv, NEW d \in Dirs
  PROVE  /\ deletion = "none" => BySegment(Present(d)) = All
         /\ deletion = "done" => BySegment(Present(d)) = <<>>
<1>1. ASSUME deletion = "none" PROVE \A r \in Rows : file[d][r] = "closed"
  <2>1. SUFFICES ASSUME NEW r \in Rows PROVE file[d][r] = "closed"
    OBVIOUS
  <2>2. PICK p \in Partitions : \E s \in 0..Segs[p] - 1 : r = <<p, s>>
    BY DEF Rows
  <2>a. PICK s \in 0..Segs[p] - 1 : r = <<p, s>>
    BY <2>2
  <2>3. pos[p] = 4 * Segs[p] /\ Segs[p] \in 1..10
    BY RowsAre DEF AskedWhole, Generated
  <2>4. WrittenSoFar(d, p, s)
    BY <1>1 DEF ExportsInv, FilesKept
  <2>5. PICK n, one : n = Segs[p] /\ one = (IF d = "data" THEN 0 ELSE 1) /\ one \in 0..1
    OBVIOUS
  <2>6. 4 * n - 4 * s - one >= 3
    <3>1. n \in 1..10 /\ s \in 0..n - 1 /\ one \in 0..1
      BY <2>3, <2>5
    <3>2. QED BY ONLY <3>1
  <2>7. QED BY <2>a, <2>3, <2>4, <2>5, <2>6 DEF WrittenSoFar
<1>2. deletion = "none" => Present(d) = Rows
  BY <1>1 DEF Present
<1>3. deletion = "done" => Present(d) = {}
  BY DEF AskedWhole, Present
<1>4. QED BY <1>2, <1>3, SegmentsListed DEF All

(* What a build has seen of the deletion once it has listed again.          *)
Saw(e, s) ==
  /\ seen' = [seen EXCEPT ![e] = s] /\ s \in SUBSET Phases /\ s # {}
  /\ s = {"none"} => deletion = "none" /\ (seen[e] = {} \/ seen[e] = {"none"})
  /\ s = {"done"} => deletion = "done" /\ (seen[e] = {} \/ seen[e] = {"done"})

LEMMA SeenMore ==
  ASSUME ExportsInv, NEW e \in Exports, Listing(e)
  PROVE  Saw(e, seen[e] \union {deletion})
<1>1. seen \in [Exports -> SUBSET Phases] /\ deletion \in Phases
  BY DEF ExportsInv, EntriesTyped
<1>2. PICK s : s = seen[e] \union {deletion}
  OBVIOUS
<1>3. seen[e] \subseteq s /\ deletion \in s
  BY <1>2
<1>4. ASSUME NEW x, s = {x} PROVE deletion = x /\ (seen[e] = {} \/ seen[e] = {x})
  BY <1>3, <1>4, Zenon
<1>5. s \in SUBSET Phases /\ s # {} /\ seen' = [seen EXCEPT ![e] = s]
  BY <1>1, <1>2 DEF Listing
<1>6. Saw(e, s)
  BY <1>4, <1>5 DEF Saw
<1>7. QED BY <1>2, <1>6

LEMMA ListLabelsKeeps ==
  ASSUME ExportsAssumption, ExportsInv, NEW e \in Exports, ListLabels(e)
  PROVE  ExportsInv'
<1>1. PICK b, l, s : /\ l = BySegment(Present("labels")) /\ b = [at |-> "data", labels |-> l]
                     /\ s = seen[e] \union {deletion}
  OBVIOUS
<1>2. /\ job[e] = "active" /\ To(e, b) /\ UNCHANGED <<disk, manifest, request, job, whole>>
      /\ Listing(e)
  BY <1>1 DEF ListLabels, At
<1>3. /\ seen' = [seen EXCEPT ![e] = s] /\ s \in SUBSET Phases /\ s # {}
      /\ s = {"none"} => deletion = "none"
  <2>1. Saw(e, s)
    BY <1>1, <1>2, SeenMore
  <2>2. QED BY <2>1 DEF Saw
<1>4. ASSUME whole[e].files PROVE BuildOf(e, b, s)
  <2>1. AskedWhole(e)
    BY <1>4 DEF ExportsInv
  <2>2. s = {"none"} => l = All
    <3>1. PICK d \in Dirs : d = "labels"
      BY DEF Dirs
    <3>2. QED BY <1>1, <1>3, <2>1, <3>1, ListingIs
  <2>3. QED BY <1>1, <1>3, <2>2 DEF BuildOf
<1>5. QED BY <1>2, <1>3, <1>4, BuildOnly

LEMMA AllListed == ExportsAssumption => Lists(Rows, All)
BY SegmentsListed DEF All

LEMMA ListDataKeeps ==
  ASSUME ExportsAssumption, ExportsInv, NEW e \in Exports, ListData(e)
  PROVE  ExportsInv'
<1>1. PICK data, l, s : /\ data = BySegment(Present("data")) /\ l = build[e].labels
                        /\ s = seen[e] \union {deletion}
  OBVIOUS
<1>2. /\ job[e] = "active" /\ build[e].at = "data" /\ UNCHANGED <<disk, manifest, request, job, whole>>
      /\ Listing(e)
  BY DEF ListData, At
<1>3. request[e] \in [source : Sources, merged : BOOLEAN]
  BY <1>2, WorksOn DEF Working
<1>a. /\ seen' = [seen EXCEPT ![e] = s] /\ s \in SUBSET Phases /\ s # {}
      /\ s = {"none"} => deletion = "none" /\ (seen[e] = {} \/ seen[e] = {"none"})
      /\ s = {"done"} => deletion = "done"
  <2>1. Saw(e, s)
    BY <1>1, <1>2, SeenMore
  <2>2. QED BY <2>1 DEF Saw
<1>4. ASSUME whole[e].files
      PROVE  /\ s = {"none"} => data = All /\ l = All
             /\ s = {"done"} => data = <<>>
  <2>1. AskedWhole(e) /\ BuildOf(e, build[e], seen[e])
    BY <1>4 DEF ExportsInv
  <2>2. s = {"none"} => l = All
    BY <1>1, <1>2, <1>a, <2>1 DEF BuildOf
  <2>3. (deletion = "done" => data = <<>>) /\ (deletion = "none" => data = All)
    <3>1. PICK d \in Dirs : d = "data"
      BY DEF Dirs
    <3>2. QED BY <1>1, <2>1, <3>1, ListingIs
  <2>4. QED BY <1>a, <2>2, <2>3
<1>5. CASE request[e].source = "truth"
  <2>1. PICK b : b = [at |-> "rows", data |-> data, aligned |-> l, key |-> l, drops |-> {}, rows |-> <<>>]
    OBVIOUS
  <2>2. To(e, b)
    BY <1>1, <1>5, <2>1 DEF ListData
  <2>3. ASSUME whole[e].files PROVE BuildOf(e, b, s)
    <3>1. SUFFICES ASSUME s = {"none"} \/ s = {"done"} PROVE Read(e, b, s)
      BY <2>1 DEF BuildOf
    <3>2. b.data = data /\ b.aligned = l /\ b.rows = <<>>
      BY <2>1
    <3>3. Len(b.data) \in Nat
      <4>1. Len(All) \in Nat /\ Len(<<>>) = 0
        BY AllListed DEF Lists
      <4>2. data = All \/ data = <<>>
        BY <1>4, <2>3, <3>1
      <4>3. QED BY <3>2, <4>1, <4>2
    <3>4. b.rows = [i \in 1..Len(b.rows) |-> [row |-> b.data[i], label |-> LabelOf(e, b, i)]]
      <4>1. Len(b.rows) = 0 /\ 1..0 = {}
        BY <3>2
      <4>2. QED BY <3>2, <4>1
    <3>5. (s = {"none"} => b.data = All /\ b.aligned = All) /\ (s = {"done"} => b.data = <<>>)
      BY <1>4, <2>3, <3>2
    <3>6. QED BY <1>5, <2>1, <3>2, <3>3, <3>4, <3>5 DEF Read
  <2>4. QED BY <1>2, <1>a, <2>2, <2>3, BuildOnly
<1>6. CASE request[e].source = "sink" /\ data = <<>>
  <2>1. PICK b : b = [at |-> "failing"]
    OBVIOUS
  <2>2. To(e, b)
    BY <1>1, <1>6, <2>1 DEF ListData, Fails
  <2>3. BuildOf(e, b, s)
    BY <2>1 DEF BuildOf
  <2>4. QED BY <1>2, <1>a, <2>2, <2>3, BuildOnly
<1>7. CASE request[e].source = "sink" /\ data # <<>>
  <2>1. PICK b : b = [at |-> "aligned", data |-> data, key |-> l]
    OBVIOUS
  <2>2. To(e, b)
    BY <1>1, <1>7, <2>1 DEF ListData
  <2>3. ASSUME whole[e].files PROVE BuildOf(e, b, s)
    BY <1>4, <1>7, <1>a, <2>1, <2>3 DEF BuildOf
  <2>4. QED BY <1>2, <1>a, <2>2, <2>3, BuildOnly
<1>8. QED BY <1>3, <1>5, <1>6, <1>7 DEF Sources

LEMMA ListSinkKeeps ==
  ASSUME ExportsAssumption, ExportsInv, NEW e \in Exports, ListSink(e)
  PROVE  ExportsInv'
<1>1. PICK a, ds, l, s : /\ a = build[e] /\ ds = DropFiles /\ l = ByName(Present("labels"))
                         /\ s = seen[e] \union {deletion}
  OBVIOUS
<1>2. PICK b : b = [at |-> "rows", data |-> a.data, aligned |-> l, key |-> a.key, drops |-> ds, rows |-> <<>>]
  OBVIOUS
<1>3. /\ job[e] = "active" /\ a.at = "aligned" /\ To(e, b)
      /\ UNCHANGED <<disk, manifest, request, job, whole>> /\ Listing(e)
  BY <1>1, <1>2 DEF ListSink, At
<1>a. /\ seen' = [seen EXCEPT ![e] = s] /\ s \in SUBSET Phases
      /\ s = {"none"} => deletion = "none" /\ (seen[e] = {} \/ seen[e] = {"none"})
      /\ s = {"done"} => seen[e] = {} \/ seen[e] = {"done"}
  <2>1. Saw(e, s)
    BY <1>1, <1>3, SeenMore
  <2>2. QED BY <2>1 DEF Saw
<1>4. ASSUME whole[e].files PROVE BuildOf(e, b, s)
  <2>1. AskedWhole(e) /\ BuildOf(e, a, seen[e])
    BY <1>1, <1>4 DEF ExportsInv
  <2>2. /\ request[e].source = "sink" /\ s # {"done"}
        /\ s = {"none"} => a.data = All /\ a.key = All /\ deletion = "none"
    BY <1>3, <1>a, <2>1 DEF BuildOf
  <2>a. SUFFICES ASSUME s = {"none"} PROVE Read(e, b, s)
    BY <1>2, <2>2 DEF BuildOf
  <2>3. Len(b.data) \in Nat /\ b.rows = <<>> /\ Len(b.rows) = 0
    BY <1>2, <2>2, <2>a, AllListed DEF Lists
  <2>4. b.rows = [i \in 1..Len(b.rows) |-> [row |-> b.data[i], label |-> LabelOf(e, b, i)]]
    <3>1. 1..0 = {}
      OBVIOUS
    <3>2. QED BY <2>3, <3>1
  <2>5. whole[e].drops \subseteq b.drops
    <3>1. whole[e].drops \subseteq 1..Drops
      BY DEF ExportsInv, EntriesTyped
    <3>2. QED BY <1>1, <1>2, <2>1, <2>2, <2>a, <3>1 DEF AskedWhole, DropFiles
  <2>6. QED BY <1>2, <2>2, <2>a, <2>3, <2>4, <2>5 DEF Read
<1>5. QED BY <1>3, <1>4, <1>a, BuildOnly

LEMMA ReadRowKeeps ==
  ASSUME ExportsAssumption, ExportsInv, NEW e \in Exports, ReadRow(e)
  PROVE  ExportsInv'
<1>1. PICK a, n : a = build[e] /\ n = Len(a.rows)
  OBVIOUS
<1>2. PICK label, i : label = LabelOf(e, a, i) /\ i = n + 1
  OBVIOUS
<1>3. /\ job[e] = "active" /\ a.at = "rows" /\ i <= Len(a.data)
      /\ UNCHANGED <<disk, manifest, request, job, told>>
      /\ \/ /\ Readable("data", a.data[i])
            /\ To(e, [a EXCEPT !.rows = Append(@, [row |-> a.data[i], label |-> label])])
         \/ Fails(e)
  BY <1>1, <1>2 DEF ReadRow, At, LabelOf
<1>4. CASE Fails(e)
  <2>1. PICK b : b = [at |-> "failing"]
    OBVIOUS
  <2>2. To(e, b) /\ BuildOf(e, b, seen[e])
    BY <1>4, <2>1 DEF Fails, BuildOf
  <2>3. QED BY <1>3, <2>2, BuildReads
<1>5. CASE /\ Readable("data", a.data[i])
           /\ To(e, [a EXCEPT !.rows = Append(@, [row |-> a.data[i], label |-> label])])
  <2>1. PICK b, rows : /\ rows = Append(a.rows, [row |-> a.data[i], label |-> label])
                       /\ b = [a EXCEPT !.rows = rows]
    OBVIOUS
  <2>2. To(e, b)
    BY <1>5, <2>1
  <2>3. ASSUME whole[e].files PROVE BuildOf(e, b, seen[e])
    <3>1. BuildOf(e, a, seen[e])
      BY <1>1, <2>3 DEF ExportsInv
    <3>a. b.at = "rows"
      BY <1>3, <2>1
    <3>b. SUFFICES ASSUME NEW s, s = seen[e], s = {"none"} \/ s = {"done"} PROVE Read(e, b, s)
      BY <3>a DEF BuildOf
    <3>2. Read(e, a, s)
      BY <1>3, <3>1, <3>b DEF BuildOf
    <3>3. /\ b = [at |-> "rows", data |-> a.data, aligned |-> a.aligned, key |-> a.key,
                  drops |-> a.drops, rows |-> rows]
      BY <1>3, <2>1, <3>2 DEF Read
    <3>4. n \in Nat /\ Len(a.data) \in Nat /\ i \in 1..Len(a.data)
          /\ a.rows = [j \in 1..n |-> [row |-> a.data[j], label |-> LabelOf(e, a, j)]]
      BY <1>1, <1>2, <1>3, <3>2 DEF Read
    <3>5. Len(rows) = i /\ rows = [j \in 1..i |-> [row |-> a.data[j], label |-> LabelOf(e, a, j)]]
      <4>1. PICK f, v : f = a.rows /\ v = [row |-> a.data[i], label |-> label]
        OBVIOUS
      <4>2. rows = Append(f, v) /\ Len(f) = n /\ DOMAIN f = 1..n
        BY <1>1, <2>1, <3>4, <4>1
      <4>3. PICK T : T = {f[j] : j \in 1..n} \union {v}
        OBVIOUS
      <4>a. f \in Seq(T) /\ v \in T
        <5>1. f = [j \in 1..n |-> f[j]]
          BY <3>4, <4>1
        <5>2. \A j \in 1..n : f[j] \in T
          BY <4>3
        <5>3. f \in [1..n -> T] /\ n \in Nat
          BY <3>4, <5>1, <5>2
        <5>4. QED BY <4>3, <5>3
      <4>b. rows \in Seq(T) /\ Len(rows) = i /\ rows[i] = v /\ \A j \in 1..n : rows[j] = f[j]
        BY ONLY <1>2, <4>2, <4>a
      <4>4. rows = [j \in 1..i |-> IF j = i THEN v ELSE f[j]] /\ Len(rows) = i
        <5>1. rows = [j \in 1..i |-> rows[j]]
          BY <4>b
        <5>2. \A j \in 1..i : j = i \/ j \in 1..n
          BY <1>2, <3>4
        <5>3. QED BY <4>b, <5>1, <5>2
      <4>5. \A j \in 1..i : j # i => f[j] = [row |-> a.data[j], label |-> LabelOf(e, a, j)]
        <5>1. \A j \in 1..i : j # i => j \in 1..n
          BY <1>2, <3>4
        <5>2. QED BY <3>4, <4>1, <5>1
      <4>6. v = [row |-> a.data[i], label |-> LabelOf(e, a, i)]
        BY <1>2, <4>1
      <4>7. QED BY <4>4, <4>5, <4>6
    <3>6. \A j : LabelOf(e, b, j) = LabelOf(e, a, j)
      BY <3>3 DEF LabelOf
    <3>7. s # {"done"}
      <4>1. s = {"done"} => Len(a.data) = 0
        BY <3>2 DEF Read
      <4>2. QED BY <3>4, <4>1
    <3>9. Read(e, b, s)
      <4>1. b.rows = rows /\ b.data = a.data /\ b.aligned = a.aligned /\ b.key = a.key
            /\ b.drops = a.drops /\ b.at = "rows"
        BY <3>3
      <4>2. b.rows = [j \in 1..Len(b.rows) |-> [row |-> b.data[j], label |-> LabelOf(e, b, j)]]
        BY <3>5, <3>6, <4>1
      <4>3. Len(b.rows) \in Nat /\ Len(b.data) \in Nat /\ Len(b.rows) <= Len(b.data)
        BY <3>4, <3>5, <4>1
      <4>4. QED BY <3>2, <3>3, <3>7, <4>1, <4>2, <4>3 DEF Read
    <3>10. QED BY <3>9
  <2>4. QED BY <1>3, <2>2, <2>3, BuildReads
<1>6. QED BY <1>3, <1>4, <1>5

LEMMA ReadKeyKeeps ==
  ASSUME ExportsAssumption, ExportsInv, NEW e \in Exports, ReadKey(e)
  PROVE  ExportsInv'
<1>1. PICK a : a = build[e]
  OBVIOUS
<1>2. /\ job[e] = "active" /\ a.at = "rows" /\ Len(a.rows) = Len(a.data)
      /\ UNCHANGED <<disk, manifest, request, job, told>>
      /\ To(e, [a EXCEPT !.at = "completing"]) \/ Fails(e)
  BY <1>1 DEF ReadKey, At
<1>3. CASE Fails(e)
  <2>1. PICK b : b = [at |-> "failing"]
    OBVIOUS
  <2>2. To(e, b) /\ BuildOf(e, b, seen[e])
    BY <1>3, <2>1 DEF Fails, BuildOf
  <2>3. QED BY <1>2, <2>2, BuildReads
<1>4. CASE To(e, [a EXCEPT !.at = "completing"])
  <2>1. PICK b : b = [a EXCEPT !.at = "completing"]
    OBVIOUS
  <2>2. To(e, b)
    BY <1>4, <2>1
  <2>3. ASSUME whole[e].files PROVE BuildOf(e, b, seen[e])
    <3>1. BuildOf(e, a, seen[e])
      BY <1>1, <2>3 DEF ExportsInv
    <3>a. b.at = "completing" /\ b.rows = a.rows /\ b.data = a.data
      <4>1. a = build[e]
        BY <1>1
      <4>2. QED BY <2>1
    <3>b. SUFFICES ASSUME NEW s, s = seen[e], s = {"none"} \/ s = {"done"} PROVE Read(e, b, s)
      BY <1>2, <3>a DEF BuildOf
    <3>2. Read(e, a, s)
      BY <1>2, <3>1, <3>b DEF BuildOf
    <3>3. b = [at |-> "completing", data |-> a.data, aligned |-> a.aligned, key |-> a.key,
               drops |-> a.drops, rows |-> a.rows]
      BY <2>1, <3>2 DEF Read
    <3>4. b.rows = a.rows /\ b.data = a.data /\ b.aligned = a.aligned /\ b.key = a.key
          /\ b.drops = a.drops /\ b.at = "completing"
      BY <3>3
    <3>5. \A j : LabelOf(e, b, j) = LabelOf(e, a, j)
      BY <3>4 DEF LabelOf
    <3>6. Read(e, b, s)
      BY <3>2, <3>3, <3>4, <3>5 DEF Read
    <3>7. QED BY <3>6
  <2>4. QED BY <1>2, <2>2, <2>3, BuildReads
<1>5. QED BY <1>2, <1>3, <1>4

LEMMA FinishKeeps ==
  ASSUME ExportsAssumption, ExportsInv, NEW e \in Exports, Finish(e)
  PROVE  ExportsInv'
<1>1. /\ DOMAIN manifest = Exports /\ DOMAIN job = Exports /\ DOMAIN build = Exports /\ ManifestTrue(e)
  BY DEF ExportsInv, EntriesTyped
<1>2. /\ job[e] = "active" /\ build' = build /\ UNCHANGED <<disk, request, whole, seen>>
      /\ seen \in [Exports -> SUBSET Phases]
      /\ job' = [job EXCEPT ![e] = "done"]
      /\ manifest' = [manifest EXCEPT ![e] = IF build[e].at = "completing" THEN "completed" ELSE "failed"]
  BY DEF Finish, told, ExportsInv, EntriesTyped
<1>3. OneExport(e)
  BY <1>1, <1>2 DEF OneExport, ManifestTrue
<1>4. whole[e].files => BuildOf(e, build'[e], seen'[e])
  BY <1>2 DEF ExportsInv
<1>5. QED BY <1>3, <1>4, OneExportKeeps

LEMMA EveryStepKeeps == ExportsAssumption /\ ExportsInv /\ [ExportNext]_exportVars => ExportsInv'
<1> SUFFICES ASSUME ExportsAssumption, ExportsInv, [ExportNext]_exportVars PROVE ExportsInv'
  OBVIOUS
<1>1. ASSUME NEW p \in Partitions, Write(p) \/ AttemptFails(p) PROVE ExportsInv'
  BY <1>1, WriteKeeps, AttemptKeeps
<1>2. ASSUME NEW i \in 1..Drops, Replay(i) PROVE ExportsInv'
  BY <1>2, ReplayKeeps
<1>3. CASE DeleteOutputs \/ RemoveFile \/ RemovalEnds \/ Crash
  BY <1>3, DeleteKeeps, RemoveKeeps, RemovedKeeps, CrashKeeps
<1>4. ASSUME NEW e \in Exports, RequestExport(e) \/ QueueBuild(e) PROVE ExportsInv'
  BY <1>4, RequestKeeps, QueueKeeps
<1>5. ASSUME NEW e \in Exports, Step(e) PROVE ExportsInv'
  BY <1>5, TakeKeeps, MarkKeeps, ListLabelsKeeps, ListDataKeeps, ListSinkKeeps, ReadRowKeeps,
     ReadKeyKeeps, FinishKeeps DEF Step
<1>6. CASE UNCHANGED exportVars
  <2>1. /\ file' = file /\ pos' = pos /\ drop' = drop /\ deletion' = deletion /\ manifest' = manifest
        /\ request' = request /\ job' = job /\ build' = build /\ whole' = whole /\ seen' = seen
    BY <1>6 DEF exportVars, disk, queue, told
  <2>2. EntriesTyped' /\ FilesKept'
    BY <2>1 DEF ExportsInv, EntriesTyped, FilesKept, WrittenSoFar
  <2>3. \A e \in Exports : whole[e].files => AskedWhole(e)'
    BY <2>1 DEF ExportsInv, AskedWhole, Generated
  <2>4. QED BY <2>1, <2>2, <2>3, DiskKeeps
<1>7. QED BY <1>1, <1>2, <1>3, <1>4, <1>5, <1>6 DEF ExportNext

LEMMA WholeThen == ExportsAssumption /\ ExportsInv => ExportsWhole
<1> SUFFICES ASSUME ExportsAssumption, ExportsInv, NEW e \in Exports, manifest[e] = "completed",
                    whole[e].files
             PROVE  /\ seen[e] = {"done"} => build[e].rows = <<>>
                    /\ seen[e] = {"none"} =>
                         /\ [i \in DOMAIN build[e].rows |-> build[e].rows[i].row] = All
                         /\ request[e] = [source |-> "truth", merged |-> TRUE] =>
                              \A i \in DOMAIN build[e].rows :
                                build[e].rows[i].label = build[e].rows[i].row
                         /\ request[e] = [source |-> "sink", merged |-> FALSE] =>
                              ToSet(build[e].key) = Rows /\ whole[e].drops \subseteq build[e].drops
  BY DEF ExportsWhole, All
<1>1. PICK b, s : b = build[e] /\ s = seen[e]
  OBVIOUS
<1>2. BuildOf(e, b, s) /\ b.at = "completing"
  BY <1>1 DEF ExportsInv, ManifestTrue
<1>a. CASE s = {"done"}
  <2>1. Read(e, b, s) /\ Len(b.rows) = Len(b.data) /\ b.data = <<>>
    BY <1>2, <1>a DEF BuildOf, Read
  <2>2. Len(b.rows) = 0 /\ 1..0 = {}
    BY <2>1
  <2>3. b.rows = <<>>
    BY <2>1, <2>2 DEF Read
  <2>4. QED BY <1>1, <1>a, <2>3
<1>b. CASE s = {"none"}
  <2>3. Read(e, b, s) /\ Len(b.rows) = Len(b.data)
    BY <1>2, <1>b DEF BuildOf
  <2>4. PICK n : n = Len(b.rows) /\ n \in Nat
    BY <2>3 DEF Read
  <2>6. b.rows = [i \in 1..n |-> [row |-> b.data[i], label |-> LabelOf(e, b, i)]]
    BY <2>3, <2>4 DEF Read
  <2>8. b.data = All /\ Len(All) = n
    BY <1>b, <2>3, <2>4 DEF Read
  <2>9. All \in [1..n -> Rows] /\ \A r \in Rows : \E i \in 1..n : All[i] = r
    BY <2>8, AllListed DEF Lists
  <2>10. [i \in DOMAIN b.rows |-> b.rows[i].row] = All
    <3>1. DOMAIN b.rows = 1..n /\ \A i \in 1..n : b.rows[i].row = All[i]
      BY <2>6, <2>8
    <3>2. QED BY <2>9, <3>1
  <2>11. ASSUME request[e] = [source |-> "truth", merged |-> TRUE], NEW i \in DOMAIN b.rows
         PROVE  b.rows[i].label = b.rows[i].row
    <3>1. request[e].source = "truth" /\ request[e].merged
      BY <2>11
    <3>2. b.aligned = All
      BY <1>b, <2>3, <3>1 DEF Read
    <3>3. i \in 1..n
      BY <2>6, <2>11
    <3>4. b.rows[i] = [row |-> All[i], label |-> All[i]]
      BY <2>6, <2>8, <3>1, <3>2, <3>3 DEF LabelOf
    <3>5. QED BY <3>4
  <2>12. ASSUME request[e] = [source |-> "sink", merged |-> FALSE]
         PROVE  ToSet(b.key) = Rows /\ whole[e].drops \subseteq b.drops
    <3>1. b.key = All /\ whole[e].drops \subseteq b.drops
      BY <1>b, <2>3, <2>12 DEF Read
    <3>2. ToSet(All) = Rows
      BY <2>9 DEF ToSet
    <3>3. QED BY <3>1, <3>2
  <2>13. QED BY <1>1, <1>b, <2>10, <2>11, <2>12
<1>3. QED BY <1>1, <1>a, <1>b

(* An export that completed, was asked for when the run's files were whole  *)
(* and listed them before a deletion began has every row once and in order, *)
(* whatever is removed under it; its merged labels, or its answer key,      *)
(* belong to those rows.  One that listed when the deletion was over has    *)
(* none.  For any partitions, segments, drop files and exports, and any     *)
(* number of failed attempts and crashes (buildExport).                     *)
THEOREM ExportsAreWhole == ExportSpec => []ExportsWhole
<1>1. ExportInit => ExportsInv
  BY NothingAsked, ExportsAssumption
<1>2. ExportsInv /\ [ExportNext]_exportVars => ExportsInv'
  BY EveryStepKeeps, ExportsAssumption
<1>3. ExportsInv => ExportsWhole
  BY WholeThen, ExportsAssumption
<1>4. QED BY <1>1, <1>2, <1>3, PTL DEF ExportSpec
=============================================================================
