----------------------------- MODULE Pacing_proofs -----------------------------
(***************************************************************************)
(* The clock of a live stream: no second sees more publishes than twice    *)
(* its target, the pacer holds no publish for more than a second and no    *)
(* retry outstays its time, for every length of a step, every set of rates *)
(* and of backoffs and every window.                                       *)
(***************************************************************************)
EXTENDS Pacing, FiniteSetTheorems, WellFoundedInduction, TLAPS

-----------------------------------------------------------------------------
(* The least of a set of numbers, and the lesser and greater of two.        *)

NatOrder == {ss \in Nat \X Nat : ss[1] < ss[2]}

LEMMA NatOrderWF == IsWellFoundedOn(NatOrder, Nat)
BY NatLessThanWellFounded DEF NatOrder, OpToRel

LEMMA LeastExists ==
  ASSUME NEW T, T \subseteq Nat, T # {}
  PROVE  \E x \in T : \A y \in T : x <= y
<1>1. \E x \in T : \A y \in T : ~ (<<y, x>> \in NatOrder)
  BY NatOrderWF, WFMin, Zenon
<1>2. PICK x \in T : \A y \in T : ~ (<<y, x>> \in NatOrder)
  BY <1>1
<1>3. ASSUME NEW y \in T PROVE x <= y
  <2>1. x \in Nat /\ y \in Nat /\ ~ (<<y, x>> \in NatOrder)
    BY <1>2
  <2>2. y < x => <<y, x>> \in NatOrder
    BY <2>1 DEF NatOrder
  <2>3. QED BY <2>1, <2>2
<1>4. QED BY <1>3

LEMMA LeastOf ==
  ASSUME NEW T, T \subseteq Nat, T # {}
  PROVE  \E n \in T : n \in Nat /\ \A m \in Nat : m < n => m \notin T
<1>1. PICK n \in T : \A m \in T : n <= m
  BY LeastExists
<1>2. ASSUME NEW m \in Nat, m < n PROVE m \notin T
  BY <1>1, <1>2
<1>3. QED BY <1>2

LEMMA MinOfSome ==
  ASSUME NEW T, T \subseteq Nat, T # {}
  PROVE  Min(T) \in T /\ \A y \in T : Min(T) <= y
<1>1. \E x \in T : \A y \in T : x =< y
  BY LeastExists
<1>2. QED BY <1>1, Zenon DEF Min

LEMMA MinOfTwo ==
  ASSUME NEW a \in Int, NEW b \in Int
  PROVE  Min({a, b}) = IF a <= b THEN a ELSE b
<1>1. \E x \in {a, b} : \A y \in {a, b} : x =< y
  OBVIOUS
<1>2. Min({a, b}) \in {a, b} /\ \A y \in {a, b} : Min({a, b}) =< y
  BY <1>1, Zenon DEF Min
<1>3. QED BY <1>2

LEMMA MaxOfTwo ==
  ASSUME NEW a \in Int, NEW b \in Int
  PROVE  Max({a, b}) = IF a >= b THEN a ELSE b
<1>1. \E x \in {a, b} : \A y \in {a, b} : x >= y
  OBVIOUS
<1>2. Max({a, b}) \in {a, b} /\ \A y \in {a, b} : Max({a, b}) >= y
  BY <1>1, Zenon DEF Max
<1>3. QED BY <1>2

LEMMA LongestIs == Longest \in Backoffs /\ \A w \in Backoffs : w <= Longest
<1>1. \E x \in Backoffs : \A y \in Backoffs : x >= y
  BY PacingAssumption
<1>2. QED BY <1>1, Zenon DEF Max, Longest

-----------------------------------------------------------------------------
(* The pacer.                                                               *)

Pacers == [target : Nat \ {0}, aimd : Nat, tokens : Nat, sinceTick : Nat,
           sinceRefill : 0..PerSecond, sinceHalved : Nat]

(* The floor of one publish a second, and the target as the ceiling.        *)
InRange(p) == Unit <= p.aimd /\ p.aimd <= p.target * Unit

LEMMA Units ==
  /\ Unit \in Nat \ {0} /\ Delivery \in Nat \ {0} /\ Delivery = PerSecond * Unit
  /\ PerSecond \in Nat \ {0}
<1>1. \A a, b \in Nat \ {0} : a * b \in Nat \ {0}
  OBVIOUS
<1>2. Unit \in Nat \ {0}
  BY <1>1, PacingAssumption DEF Unit
<1>3. QED BY <1>1, <1>2, PacingAssumption DEF Delivery

LEMMA Products ==
  ASSUME NEW a \in Nat, NEW b \in Nat, NEW c \in Nat, a <= b
  PROVE  a * c \in Nat /\ b * c \in Nat /\ a * c <= b * c /\ c * a <= c * b
OBVIOUS

(* What is set in a pacer is set, and the rest of it stays.                 *)
Set(p, q, a, t, n) ==
  /\ q \in Pacers /\ q.aimd = a /\ q.tokens = t /\ q.sinceRefill = n
  /\ q.target = p.target

LEMMA PacerSet ==
  ASSUME NEW p \in Pacers, NEW a \in Nat, NEW t \in Nat
  PROVE  /\ Set(p, [p EXCEPT !.aimd = a, !.sinceTick = 0], a, p.tokens, p.sinceRefill)
         /\ Set(p, [p EXCEPT !.sinceHalved = 0, !.aimd = a], a, p.tokens, p.sinceRefill)
         /\ Set(p, [p EXCEPT !.sinceRefill = 0, !.tokens = t], p.aimd, t, 0)
         /\ Set(p, [p EXCEPT !.tokens = t], p.aimd, t, p.sinceRefill)
<1>1. PICK v \in Nat \ {0}, b \in Nat, u \in Nat, x \in Nat, y \in 0..PerSecond, z \in Nat :
        p = [target |-> v, aimd |-> b, tokens |-> u, sinceTick |-> x, sinceRefill |-> y,
             sinceHalved |-> z]
  BY DEF Pacers
<1>2. 0 \in 0..PerSecond
  BY Units
<1>3. Set(p, [p EXCEPT !.aimd = a, !.sinceTick = 0], a, p.tokens, p.sinceRefill)
  BY <1>1 DEF Set, Pacers
<1>5. Set(p, [p EXCEPT !.sinceHalved = 0, !.aimd = a], a, p.tokens, p.sinceRefill)
  BY <1>1 DEF Set, Pacers
<1>6. Set(p, [p EXCEPT !.sinceRefill = 0, !.tokens = t], p.aimd, t, 0)
  BY <1>1, <1>2 DEF Set, Pacers
<1>7. Set(p, [p EXCEPT !.tokens = t], p.aimd, t, p.sinceRefill)
  BY <1>1 DEF Set, Pacers
<1>8. QED BY <1>3, <1>5, <1>6, <1>7

LEMMA RangeKept ==
  ASSUME NEW p, NEW q, NEW most, most = p.target * Unit, q.target = p.target,
         Unit <= q.aimd, q.aimd <= most
  PROVE  InRange(q)
BY Zenon DEF InRange

(* Recovery raises the rate towards the target and touches nothing else.    *)
LEMMA RecoveredIs ==
  ASSUME NEW p \in Pacers, InRange(p)
  PROVE  /\ Recovered(p) \in Pacers /\ InRange(Recovered(p))
         /\ Recovered(p).aimd >= p.aimd
         /\ \A f \in {"target", "tokens", "sinceRefill"} : Recovered(p)[f] = p[f]
<1> DEFINE ceiling == p.target * Unit
           grown   == p.aimd + p.target * p.sinceTick
<1>1. ceiling \in Nat /\ grown \in Nat /\ grown >= p.aimd
  BY Units, Products DEF Pacers
<1> HIDE DEF ceiling, grown
<1>2. Min({ceiling, grown}) = IF ceiling <= grown THEN ceiling ELSE grown
  BY <1>1, MinOfTwo
<1> DEFINE m == Min({ceiling, grown})
<1>3. /\ p.aimd <= ceiling /\ Unit <= p.aimd /\ p.aimd \in Nat
      /\ m \in Nat /\ m >= p.aimd /\ m <= ceiling
  BY <1>1, <1>2 DEF InRange, Pacers, ceiling
<1>4. Recovered(p) = [p EXCEPT !.aimd = m, !.sinceTick = 0]
  BY DEF Recovered, ceiling, grown
<1> HIDE DEF m
<1>5. ceiling = p.target * Unit
  BY DEF ceiling
<1>6. /\ Recovered(p) \in Pacers /\ Recovered(p).aimd = m
      /\ \A f \in {"target", "tokens", "sinceRefill"} : Recovered(p)[f] = p[f]
  <2>1. Set(p, Recovered(p), m, p.tokens, p.sinceRefill)
    BY <1>3, <1>4, PacerSet
  <2>2. QED BY <2>1 DEF Set
<1>7. Recovered(p).target = p.target /\ Unit <= m
  BY <1>3, <1>6, Units
<1>8. InRange(Recovered(p))
  BY <1>3, <1>5, <1>6, <1>7, RangeKept
<1>9. QED BY <1>3, <1>6, <1>8

LEMMA RetargetedIs ==
  ASSUME NEW p \in Pacers, InRange(p), NEW t \in Nat \ {0}
  PROVE  /\ Retargeted(p, t) \in Pacers /\ InRange(Retargeted(p, t))
         /\ Retargeted(p, t).target = t
         /\ \A f \in {"tokens", "sinceRefill"} : Retargeted(p, t)[f] = p[f]
<1> DEFINE r == Recovered(p)
           ceiling == t * Unit
           rate == IF r.aimd >= r.target * Unit THEN ceiling ELSE Min({r.aimd, ceiling})
<1>1. /\ r \in Pacers /\ InRange(r)
      /\ \A f \in {"target", "tokens", "sinceRefill"} : r[f] = p[f]
  BY RecoveredIs
<1>2. ceiling \in Nat /\ Unit <= ceiling
  BY Units, Products, 1 * Unit = Unit
<1>3. Retargeted(p, t) = [r EXCEPT !.target = t, !.aimd = rate]
  BY DEF Retargeted
<1> HIDE DEF r
<1>4. r.aimd \in Nat /\ Unit <= r.aimd
  BY <1>1 DEF Pacers, InRange
<1>5. ceiling = t * Unit
  OBVIOUS
<1> HIDE DEF ceiling
<1>6. Min({r.aimd, ceiling}) = IF r.aimd <= ceiling THEN r.aimd ELSE ceiling
  BY <1>2, <1>4, MinOfTwo
<1>7. rate \in Nat /\ Unit <= rate /\ rate <= ceiling
  BY <1>2, <1>4, <1>6
<1> HIDE DEF rate
<1>8. QED BY <1>1, <1>3, <1>5, <1>7, Units DEF Pacers, InRange

LEMMA HalvedIs ==
  ASSUME NEW p \in Pacers, InRange(p)
  PROVE  /\ Halved(p) \in Pacers /\ InRange(Halved(p))
         /\ \A f \in {"target", "tokens", "sinceRefill"} : Halved(p)[f] = p[f]
<1> DEFINE r == Recovered(p)
           half == r.aimd \div 2
           rate == Max({Unit, half})
<1>1. /\ r \in Pacers /\ InRange(r)
      /\ \A f \in {"target", "tokens", "sinceRefill"} : r[f] = p[f]
  BY RecoveredIs
<1>2. Halved(p) = IF r.sinceHalved < PerSecond THEN r
                  ELSE [r EXCEPT !.sinceHalved = 0, !.aimd = rate]
  BY DEF Halved
<1> HIDE DEF r
<1>3. r.aimd \in Nat /\ Unit <= r.aimd /\ half \in Nat /\ half <= r.aimd
  BY <1>1 DEF Pacers, InRange
<1> HIDE DEF half
<1>4. Max({Unit, half}) = IF Unit >= half THEN Unit ELSE half
  BY <1>3, Units, MaxOfTwo
<1>5. rate \in Nat /\ Unit <= rate /\ rate <= r.aimd
  BY <1>3, <1>4, Units
<1> HIDE DEF rate
<1>6. r.target * Unit \in Nat /\ rate <= r.target * Unit
  BY <1>1, <1>3, <1>5, Units, Products DEF Pacers, InRange
<1>7. CASE r.sinceHalved < PerSecond
  BY <1>1, <1>2, <1>7
<1>8. CASE ~(r.sinceHalved < PerSecond)
  <2>1. Halved(p) = [r EXCEPT !.sinceHalved = 0, !.aimd = rate]
    BY <1>2, <1>8
  <2>2. /\ Halved(p) \in Pacers /\ Halved(p).aimd = rate
        /\ \A f \in {"target", "tokens", "sinceRefill"} : Halved(p)[f] = r[f]
    <3>1. 0 \in Nat /\ Set(r, Halved(p), rate, r.tokens, r.sinceRefill)
      BY <2>1, <1>1, <1>5, PacerSet
    <3>2. QED BY <3>1 DEF Set
  <2>3. Halved(p).target = r.target
    BY <2>2
  <2>4. InRange(Halved(p))
    BY <2>2, <2>3, <1>5, <1>6, RangeKept
  <2>5. QED BY <2>2, <2>4, <1>1
<1>9. QED BY <1>7, <1>8

(* A refill exceeds neither what was earned at the target's rate nor a      *)
(* second's worth of it.                                                    *)
LEMMA RefilledIs ==
  ASSUME NEW p \in Pacers, InRange(p)
  PROVE  /\ Refilled(p) \in Pacers /\ InRange(Refilled(p))
         /\ Refilled(p).target = p.target /\ Refilled(p).sinceRefill = 0
         /\ Refilled(p).tokens <= p.tokens + p.sinceRefill * (p.target * Unit)
         /\ Refilled(p).tokens <= p.target * Delivery
<1> DEFINE r    == Recovered(p)
           sec  == PerSecond * r.aimd
           cap  == Max({Delivery, sec})
           sum  == r.tokens + r.sinceRefill * r.aimd
           most == p.target * Unit
<1>1. /\ r \in Pacers /\ InRange(r) /\ r.aimd >= p.aimd
      /\ \A f \in {"target", "tokens", "sinceRefill"} : r[f] = p[f]
  BY RecoveredIs
<1>2. Refilled(p) = [r EXCEPT !.sinceRefill = 0, !.tokens = Min({cap, sum})]
  BY DEF Refilled
<1> HIDE DEF r
<1>4. /\ most \in Nat \ {0} /\ Unit <= most /\ r.aimd <= most /\ p.aimd <= r.aimd
      /\ r.aimd \in Nat /\ p.aimd \in Nat /\ p.tokens \in Nat /\ p.sinceRefill \in Nat
      /\ r.tokens = p.tokens /\ r.sinceRefill = p.sinceRefill
  <2>1. p.target \in Nat /\ 1 <= p.target
    BY DEF Pacers
  <2>2. p.target * Unit \in Nat /\ 1 * Unit <= p.target * Unit
    BY <2>1, Units, Products
  <2>3. QED BY <1>1, <2>1, <2>2, Units DEF Pacers, InRange
<1>5. p.target * Delivery = PerSecond * most
  <2>1. \A a, b, c \in Nat : a * (b * c) = b * (a * c)
    OBVIOUS
  <2>2. p.target \in Nat
    BY DEF Pacers
  <2>3. QED BY <2>1, <2>2, Units
<1> HIDE DEF most
<1>6. /\ sec \in Nat /\ sec <= PerSecond * most /\ Delivery <= PerSecond * most
      /\ PerSecond * most \in Nat
  BY <1>4, Units, Products
<1>7. /\ sum \in Nat /\ sum >= p.tokens + p.sinceRefill * p.aimd
      /\ sum <= p.tokens + p.sinceRefill * most
      /\ p.sinceRefill * p.aimd \in Nat /\ p.sinceRefill * most \in Nat
  <2>1. /\ p.sinceRefill * p.aimd \in Nat /\ p.sinceRefill * r.aimd \in Nat
        /\ p.sinceRefill * most \in Nat
        /\ p.sinceRefill * p.aimd <= p.sinceRefill * r.aimd
        /\ p.sinceRefill * r.aimd <= p.sinceRefill * most
    BY <1>4, Products
  <2>2. sum = p.tokens + p.sinceRefill * r.aimd
    BY <1>4
  <2> HIDE DEF sum
  <2>3. QED BY <2>1, <2>2, <1>4
<1> HIDE DEF sec, sum
<1>8. cap = IF Delivery >= sec THEN Delivery ELSE sec
  BY <1>6, Units, MaxOfTwo
<1> HIDE DEF cap
<1>9. cap \in Nat /\ Delivery <= cap /\ cap <= PerSecond * most
  BY <1>6, <1>8, Units
<1>10. Min({cap, sum}) = IF cap <= sum THEN cap ELSE sum
  BY <1>7, <1>9, MinOfTwo
<1> DEFINE m == Min({cap, sum})
<1>11. /\ m \in Nat /\ m <= PerSecond * most /\ m <= p.tokens + p.sinceRefill * most
  BY <1>4, <1>6, <1>7, <1>9, <1>10, Units
<1>12. Refilled(p) = [r EXCEPT !.sinceRefill = 0, !.tokens = m]
  BY <1>2
<1> HIDE DEF m
<1>13. Refilled(p) \in Pacers /\ InRange(Refilled(p))
       /\ Refilled(p).tokens = m /\ Refilled(p).target = p.target /\ Refilled(p).sinceRefill = 0
  <2>1. /\ Refilled(p) \in Pacers /\ Refilled(p).tokens = m /\ Refilled(p).aimd = r.aimd
        /\ Refilled(p).target = r.target /\ Refilled(p).sinceRefill = 0
    <3>1. r \in Pacers /\ m \in Nat /\ r.aimd \in Nat
      BY <1>1, <1>4, <1>11
    <3>2. Set(r, Refilled(p), r.aimd, m, 0)
      BY <3>1, <1>12, PacerSet
    <3>3. QED BY <3>2 DEF Set
  <2>2. r.target = p.target /\ Unit <= r.aimd
    BY <1>1 DEF InRange
  <2>3. InRange(Refilled(p))
    BY <2>1, <2>2, <1>1, Zenon DEF InRange
  <2>4. QED BY <2>1, <2>2, <2>3
<1>14. most = p.target * Unit
  BY DEF most
<1>15. QED BY <1>5, <1>11, <1>13, <1>14

(* take()'s timer is a number of steps.                                     *)
LEMMA NapIs ==
  ASSUME NEW have \in Nat, have < Delivery, NEW rate \in Nat, Unit <= rate
  PROVE  (Delivery - have + rate - 1) \div rate \in Nat
<1>1. Delivery - have \in Nat \ {0} /\ rate \in Nat \ {0}
  BY Units
<1>2. \A m, a \in Nat \ {0} : (m + a - 1) \div a \in Nat
  OBVIOUS
<1>3. QED BY <1>1, <1>2

-----------------------------------------------------------------------------
(* The inductive invariant.                                                 *)

Steps == {"tick", "take", "acquire", "nap", "saturated?", "full", "reserve", "queued", "rest"}

(* A chunk that is being published has a publish left.                      *)
DriveOK(d) ==
  /\ d \in [at : Steps, quota : Nat, left : Nat]
  /\ d.at = "take" => d.quota > 0
  /\ d.at \in {"acquire", "nap", "saturated?", "full", "reserve", "queued"} => d.left > 0

Types ==
  /\ scope.targets \subseteq Nat \ {0} /\ target \in scope.targets
  /\ DriveOK(drive)
  /\ bucket \in [tokens : Nat, since : Nat]
  /\ pacer \in Pacers /\ InRange(pacer)
  /\ nap \in {Off} \union Nat
  /\ heap \in [0..Longest -> Nat]

(* The pacer's timer is set only while a publish waits for it.              *)
Naps == nap = Off \/ drive.at = "nap"

IInv == Types /\ Naps /\ RetriesOnTime

-----------------------------------------------------------------------------
(* The retry timer.                                                         *)

LEMMA EarliestIs ==
  ASSUME NEW h \in [0..Longest -> Nat]
  PROVE  \A w \in DOMAIN h : h[w] > 0 => EarliestOr(h, Off) \in 0..w
<1> DEFINE times == {w \in DOMAIN h : h[w] > 0}
<1>1. Longest \in Nat
  BY LongestIs, PacingAssumption
<1>2. times \subseteq Nat /\ DOMAIN h = 0..Longest
  BY <1>1
<1>3. ASSUME NEW w \in DOMAIN h, h[w] > 0 PROVE EarliestOr(h, Off) \in 0..w
  <2>1. w \in times
    BY <1>3
  <2>2. EarliestOr(h, Off) = Min(times)
    BY <2>1 DEF EarliestOr
  <2> HIDE DEF times
  <2>3. Min(times) \in times /\ Min(times) <= w
    BY <1>2, <2>1, MinOfSome
  <2>4. w \in Nat /\ Min(times) \in Nat
    BY <1>2, <2>1, <2>3
  <2>5. QED BY <2>2, <2>3, <2>4
<1>4. QED BY <1>3

(* A retry that is added is later than none of those the timer is set for.  *)
LEMMA CompleteOnTime ==
  ASSUME IInv, Complete
  PROVE  heap' \in [0..Longest -> Nat] /\ RetriesOnTime'
<1>1. CASE UNCHANGED <<heap, alarm>>
  BY <1>1 DEF IInv, Types, RetriesOnTime
<1>2. CASE \E w \in Backoffs :
             LET h == [heap EXCEPT ![w] = @ + 1] IN heap' = h /\ alarm' = Armed(h)
  <2>1. PICK w \in Backoffs : heap' = [heap EXCEPT ![w] = @ + 1] /\ alarm' = Armed(heap')
    BY <1>2
  <2>2. w \in 0..Longest /\ Longest \in Nat
    BY LongestIs, PacingAssumption
  <2>3. heap' \in [0..Longest -> Nat]
    BY <2>1, <2>2 DEF IInv, Types
  <2>4. QED BY <2>1, <2>3, EarliestIs DEF Armed, RetriesOnTime
<1>3. QED BY <1>1, <1>2 DEF Complete

LEMMA RetriesDueOnTime ==
  ASSUME IInv, RetriesDue
  PROVE  heap' \in [0..Longest -> Nat] /\ RetriesOnTime'
<1>1. heap' = [heap EXCEPT ![0] = 0] /\ alarm' = EarliestOr(heap', Off)
  BY DEF RetriesDue
<1>2. heap' \in [0..Longest -> Nat]
  BY <1>1 DEF IInv, Types
<1>3. QED BY <1>1, <1>2, EarliestIs DEF RetriesOnTime

(* The timer is not due when time passes, so no retry is.                   *)
LEMMA ClockOnTime ==
  ASSUME IInv, Clock
  PROVE  heap' \in [0..Longest -> Nat] /\ RetriesOnTime'
<1>1. /\ Longest \in Nat /\ heap \in [0..Longest -> Nat] /\ alarm # 0
      /\ alarm' = Sooner(alarm)
      /\ \A w \in 0..Longest : heap[w] > 0 => alarm \in 0..w
      /\ heap' = [w \in 0..Longest |-> IF w = Longest THEN 0
                                       ELSE heap[w + 1] + (IF w = 0 THEN heap[0] ELSE 0)]
  BY LongestIs, PacingAssumption DEF Clock, IInv, Types, RetriesOnTime
<1>2. heap[0] = 0
  BY <1>1
<1>3. ASSUME NEW w \in 0..Longest
      PROVE  heap'[w] = (IF w = Longest THEN 0 ELSE heap[w + 1]) /\ heap'[w] \in Nat
  BY <1>1, <1>2
<1>4. heap' \in [0..Longest -> Nat]
  BY <1>1, <1>3
<1>5. ASSUME NEW w \in 0..Longest, heap'[w] > 0 PROVE alarm' \in 0..w
  <2>1. w + 1 \in 0..Longest /\ heap[w + 1] > 0
    BY <1>1, <1>3, <1>5
  <2>2. alarm \in 1..(w + 1)
    BY <1>1, <2>1
  <2>3. QED BY <1>1, <2>2 DEF Sooner, Off
<1>6. QED BY <1>4, <1>5 DEF RetriesOnTime

-----------------------------------------------------------------------------
(* The drive loop.                                                          *)

(* A publish that is handed on is one less to publish of the chunk.         *)
LEMMA SubmittedSteps ==
  ASSUME DriveOK(drive), drive.at \in {"reserve", "queued"}, Submitted
  PROVE  DriveOK(drive') /\ drive'.at \in {"acquire", "take", "rest"}
<1>1. /\ drive \in [at : Steps, quota : Nat, left : Nat] /\ drive.left \in Nat \ {0}
      /\ drive.quota \in Nat
  BY DEF DriveOK
<1>2. PICK to \in {"acquire", "take", "rest"} :
        /\ drive' = [drive EXCEPT !.left = drive.left - 1, !.at = to]
        /\ to = "acquire" => drive.left > 1
        /\ to = "take" => drive.quota > 0
  BY <1>1 DEF Submitted
<1>3. /\ drive' \in [at : Steps, quota : Nat, left : Nat] /\ drive'.at = to
      /\ drive'.left = drive.left - 1 /\ drive'.quota = drive.quota
  <2>1. PICK a \in Steps, q \in Nat, l \in Nat : drive = [at |-> a, quota |-> q, left |-> l]
    BY <1>1
  <2>2. drive' = [at |-> to, quota |-> q, left |-> l - 1] /\ l = drive.left /\ q = drive.quota
    BY <1>2, <2>1
  <2>3. l - 1 \in Nat /\ to \in Steps
    BY <1>1, <2>2 DEF Steps
  <2>4. QED BY <2>2, <2>3
<1>4. QED BY <1>1, <1>2, <1>3 DEF DriveOK

(* What a step of time or of the destination leaves to the drive loop.      *)
LEMMA DispatchedDrive ==
  ASSUME NEW free, NEW due, Dispatched(free, due), DriveOK(drive)
  PROVE  /\ DriveOK(drive')
         /\ drive.at # "queued" => drive' = drive
         /\ drive.at = "queued" => drive'.at \in {"acquire", "take", "rest", "queued"}
<1>1. CASE UNCHANGED drive
  BY <1>1 DEF DriveOK
<1>2. CASE Submitted /\ drive.at = "queued"
  BY <1>2, SubmittedSteps
<1>3. QED BY <1>1, <1>2 DEF Dispatched

LEMMA FilledIs ==
  ASSUME Types
  PROVE  Filled \in Nat
<1> DEFINE a == Max({1, target}) * PerSecond
           b == bucket.tokens + bucket.since * target
<1>1. target \in Nat \ {0} /\ bucket.tokens \in Nat /\ bucket.since \in Nat
  BY DEF Types
<1>2. Max({1, target}) \in Nat
  BY <1>1, MaxOfTwo
<1>3. a \in Nat
  BY <1>2, Units, Products
<1>4. b \in Nat
  BY <1>1, Products
<1>5. Filled = Min({a, b})
  BY DEF Filled
<1> HIDE DEF a, b
<1>6. QED BY <1>3, <1>4, <1>5, MinOfTwo

LEMMA TickSteps ==
  ASSUME Types, Tick
  PROVE  /\ DriveOK(drive') /\ drive'.at \in {"take", "rest"}
         /\ bucket' \in [tokens : Nat, since : Nat]
<1>1. PICK state \in {"streaming", "paused"} :
       LET half  == Max({1, (target + 1) \div 2})
           taken == IF state = "streaming" THEN Min({half, Filled \div PerSecond}) ELSE 0
       IN /\ bucket' = [tokens |-> Filled - taken * PerSecond, since |-> 0]
          /\ drive' = [at |-> IF taken > 0 THEN "take" ELSE "rest", quota |-> taken, left |-> 0]
  BY DEF Tick
<1> DEFINE half  == Max({1, (target + 1) \div 2})
           whole == Filled \div PerSecond
           taken == IF state = "streaming" THEN Min({half, whole}) ELSE 0
<1>2. half \in Nat
  <2>1. (target + 1) \div 2 \in Nat
    BY DEF Types
  <2>2. QED BY <2>1, MaxOfTwo
<1>3. whole \in Nat /\ whole * PerSecond <= Filled /\ Filled \in Nat
  <2>1. \A n \in Nat, m \in Nat \ {0} : n \div m \in Nat /\ (n \div m) * m <= n
    OBVIOUS
  <2>2. QED BY <2>1, FilledIs, Units
<1>4. /\ bucket' = [tokens |-> Filled - taken * PerSecond, since |-> 0]
      /\ drive' = [at |-> IF taken > 0 THEN "take" ELSE "rest", quota |-> taken, left |-> 0]
  BY <1>1
<1> HIDE DEF half, whole
<1>5. taken \in Nat /\ taken <= whole
  BY <1>2, <1>3, MinOfTwo
<1> HIDE DEF taken
<1>6. Filled - taken * PerSecond \in Nat
  <2>1. taken * PerSecond \in Nat /\ taken * PerSecond <= whole * PerSecond
    BY <1>3, <1>5, Units, Products
  <2>2. whole * PerSecond \in Nat
    BY <1>3, Units, Products
  <2>3. QED BY <1>3, <2>1, <2>2
<1>7. QED BY <1>4, <1>5, <1>6 DEF DriveOK, Steps

LEMMA ChunkSteps ==
  ASSUME Types, Chunk
  PROVE  DriveOK(drive') /\ drive'.at \in {"acquire", "take", "rest"}
<1>1. drive.quota \in Nat \ {0}
  BY DEF Chunk, Types, DriveOK
<1>2. PICK n \in 0..drive.quota :
       LET quota == drive.quota - Max({1, n})
       IN  drive' = [at |-> IF n > 0 THEN "acquire" ELSE IF quota > 0 THEN "take" ELSE "rest",
                     quota |-> quota, left |-> n]
  BY DEF Chunk
<1>3. Max({1, n}) \in Nat /\ Max({1, n}) <= drive.quota /\ n \in Nat
  BY <1>1, MaxOfTwo
<1>4. QED BY <1>1, <1>2, <1>3 DEF DriveOK, Steps

(* A step of the drive loop outside acquire() sets no timer.                *)
LEMMA NobodyNaps ==
  ASSUME Naps, drive.at \notin {"acquire", "nap"}, UNCHANGED nap
  PROVE  Naps'
BY DEF Naps

LEMMA TickKeeps ==
  ASSUME IInv, Tick
  PROVE  IInv'
<1>1. /\ DriveOK(drive') /\ drive'.at \in {"take", "rest"}
      /\ bucket' \in [tokens : Nat, since : Nat]
  BY TickSteps DEF IInv
<1>2. pacer' \in Pacers /\ InRange(pacer')
  <2>1. pacer' = Retargeted(pacer, target) /\ target \in Nat \ {0}
    BY DEF Tick, IInv, Types
  <2>2. QED BY <2>1, RetargetedIs DEF IInv, Types
<1>3. drive.at = "tick" /\ UNCHANGED <<scope, target, nap, heap, alarm>>
  BY DEF Tick, pump
<1>4. Types'
  BY <1>1, <1>2, <1>3 DEF IInv, Types
<1>5. Naps' /\ RetriesOnTime'
  BY <1>1, <1>3, NobodyNaps DEF IInv, RetriesOnTime
<1>6. QED BY <1>4, <1>5 DEF IInv

LEMMA ChunkKeeps ==
  ASSUME IInv, Chunk
  PROVE  IInv'
<1>1. DriveOK(drive') /\ drive'.at \in {"acquire", "take", "rest"}
  BY ChunkSteps DEF IInv
<1>2. /\ drive.at = "take"
      /\ UNCHANGED <<scope, target, bucket, pacer, nap, heap, alarm>>
  BY DEF Chunk, pump
<1>3. Types'
  BY <1>1, <1>2 DEF IInv, Types
<1>4. Naps' /\ RetriesOnTime'
  BY <1>1, <1>2, NobodyNaps DEF IInv, RetriesOnTime
<1>5. QED BY <1>3, <1>4 DEF IInv

(* A move of the drive loop, outside acquire(), that changes its step only. *)
LEMMA DriveMoved ==
  ASSUME DriveOK(drive), NEW to \in Steps, drive' = [drive EXCEPT !.at = to],
         to # "take", drive.left > 0 \/ to = "tick"
  PROVE  DriveOK(drive') /\ drive'.at = to
<1>1. PICK a \in Steps, q \in Nat, l \in Nat : drive = [at |-> a, quota |-> q, left |-> l]
  BY DEF DriveOK
<1>2. drive' = [at |-> to, quota |-> q, left |-> l] /\ (l > 0 \/ to = "tick")
  BY <1>1
<1>3. drive' \in [at : Steps, quota : Nat, left : Nat] /\ drive'.at = to /\ drive'.left = l
  BY <1>1, <1>2
<1>4. QED BY <1>2, <1>3 DEF DriveOK

LEMMA RestKeeps ==
  ASSUME IInv, Rest
  PROVE  IInv'
<1>1. /\ drive.at = "rest" /\ drive' = [drive EXCEPT !.at = "tick"]
      /\ pacer' \in {pacer, Recovered(pacer)}
      /\ UNCHANGED <<scope, target, bucket, nap, heap, alarm>>
  BY DEF Rest, pump
<1>2. DriveOK(drive') /\ drive'.at = "tick"
  <2>1. DriveOK(drive) /\ "tick" \in Steps
    BY DEF IInv, Types, Steps
  <2>2. QED BY <1>1, <2>1, DriveMoved
<1>3. pacer' \in Pacers /\ InRange(pacer')
  BY <1>1, RecoveredIs DEF IInv, Types
<1>4. Types'
  BY <1>1, <1>2, <1>3 DEF IInv, Types
<1>5. Naps' /\ RetriesOnTime'
  BY <1>1, <1>2, NobodyNaps DEF IInv, RetriesOnTime
<1>6. QED BY <1>4, <1>5 DEF IInv

LEMMA LooksSaturatedKeeps ==
  ASSUME IInv, LooksSaturated
  PROVE  IInv'
<1>1. PICK to \in {"reserve", "full"} :
        /\ drive.at = "saturated?" /\ drive' = [drive EXCEPT !.at = to]
        /\ pacer' \in {pacer, Halved(pacer)}
        /\ UNCHANGED <<scope, target, bucket, nap, heap, alarm>>
  BY DEF LooksSaturated, pump
<1>2. DriveOK(drive') /\ drive'.at = to
  <2>1. DriveOK(drive) /\ to \in Steps /\ drive.left > 0
    BY <1>1 DEF IInv, Types, DriveOK, Steps
  <2>2. QED BY <1>1, <2>1, DriveMoved
<1>3. pacer' \in Pacers /\ InRange(pacer')
  BY <1>1, HalvedIs DEF IInv, Types
<1>4. Types'
  BY <1>1, <1>2, <1>3 DEF IInv, Types
<1>5. Naps' /\ RetriesOnTime'
  BY <1>1, <1>2, NobodyNaps DEF IInv, RetriesOnTime
<1>6. QED BY <1>4, <1>5 DEF IInv

LEMMA CapacityBackKeeps ==
  ASSUME IInv, CapacityBack
  PROVE  IInv'
<1>1. /\ drive.at = "full" /\ drive' = [drive EXCEPT !.at = "reserve"]
      /\ UNCHANGED <<scope, target, bucket, pacer, nap, heap, alarm>>
  BY DEF CapacityBack, pump
<1>2. DriveOK(drive') /\ drive'.at = "reserve"
  <2>1. DriveOK(drive) /\ "reserve" \in Steps /\ drive.left > 0
    BY <1>1 DEF IInv, Types, DriveOK, Steps
  <2>2. QED BY <1>1, <2>1, DriveMoved
<1>3. Types'
  BY <1>1, <1>2 DEF IInv, Types
<1>4. Naps' /\ RetriesOnTime'
  BY <1>1, <1>2, NobodyNaps DEF IInv, RetriesOnTime
<1>5. QED BY <1>3, <1>4 DEF IInv

LEMMA ReserveSlotKeeps ==
  ASSUME IInv, ReserveSlot
  PROVE  IInv'
<1>1. /\ drive.at = "reserve"
      /\ UNCHANGED <<scope, target, bucket, nap, heap, alarm>>
      /\ pacer' \in {pacer, Halved(pacer)}
      /\ Submitted \/ drive' = [drive EXCEPT !.at = "queued"]
  BY DEF ReserveSlot
<1>2. DriveOK(drive') /\ drive'.at \in {"acquire", "take", "rest", "queued"}
  <2>1. DriveOK(drive) /\ "queued" \in Steps /\ drive.left > 0
    BY <1>1 DEF IInv, Types, DriveOK, Steps
  <2>2. CASE Submitted
    BY <1>1, <2>1, <2>2, SubmittedSteps
  <2>3. CASE drive' = [drive EXCEPT !.at = "queued"]
    BY <2>1, <2>3, DriveMoved
  <2>4. QED BY <1>1, <2>2, <2>3
<1>3. pacer' \in Pacers /\ InRange(pacer')
  BY <1>1, HalvedIs DEF IInv, Types
<1>4. Types'
  BY <1>1, <1>2, <1>3 DEF IInv, Types
<1>5. Naps' /\ RetriesOnTime'
  BY <1>1, <1>2, NobodyNaps DEF IInv, RetriesOnTime
<1>6. QED BY <1>4, <1>5 DEF IInv

(* What a delivery that ends or comes due leaves to the others.             *)
LEMMA CompletionKeeps ==
  ASSUME IInv, NEW free, NEW due, Dispatched(free, due),
         heap' \in [0..Longest -> Nat], RetriesOnTime',
         UNCHANGED <<scope, target, bucket, pacer, nap>>
  PROVE  IInv'
<1>1. /\ DriveOK(drive')
      /\ drive.at # "queued" => drive' = drive
      /\ drive.at = "queued" => drive'.at \in {"acquire", "take", "rest", "queued"}
  BY DispatchedDrive DEF IInv, Types
<1>2. Types'
  BY <1>1 DEF IInv, Types
<1>3. Naps'
  BY <1>1, NobodyNaps DEF IInv, Naps
<1>4. QED BY <1>2, <1>3 DEF IInv

-----------------------------------------------------------------------------
(* acquire().                                                               *)

LEMMA TakeKeeps ==
  ASSUME IInv, Take
  PROVE  IInv'
<1> DEFINE p == Refilled(pacer)
<1>1. /\ drive.at = "acquire"
      /\ \/ /\ p.tokens >= Delivery
            /\ pacer' = [p EXCEPT !.tokens = p.tokens - Delivery]
            /\ drive' = [drive EXCEPT !.at = "saturated?"]
            /\ nap' = nap
         \/ /\ p.tokens < Delivery
            /\ pacer' = p
            /\ nap' = (Delivery - p.tokens + p.aimd - 1) \div p.aimd
            /\ drive' = [drive EXCEPT !.at = "nap"]
      /\ UNCHANGED <<scope, target, bucket, heap, alarm>>
  BY DEF Take, pump
<1>2. /\ p \in Pacers /\ InRange(p) /\ p.target = pacer.target /\ p.sinceRefill = 0
  BY RefilledIs DEF IInv, Types
<1> HIDE DEF p
<1>3. DriveOK(drive) /\ drive.left > 0 /\ {"saturated?", "nap"} \subseteq Steps
  BY <1>1 DEF IInv, Types, DriveOK, Steps
<1>4. /\ p.tokens \in Nat /\ p.aimd \in Nat /\ Unit <= p.aimd
      /\ pacer.tokens \in Nat /\ pacer.sinceRefill \in Nat /\ pacer.aimd \in Nat
  BY <1>2 DEF Pacers, InRange, IInv, Types
<1>5. CASE /\ p.tokens >= Delivery
           /\ pacer' = [p EXCEPT !.tokens = p.tokens - Delivery]
           /\ drive' = [drive EXCEPT !.at = "saturated?"]
           /\ nap' = nap
  <2>1. p.tokens - Delivery \in Nat
    BY <1>4, <1>5, Units
  <2>2. Set(p, pacer', p.aimd, p.tokens - Delivery, p.sinceRefill)
    BY <1>2, <1>4, <1>5, <2>1, PacerSet
  <2>3. pacer' \in Pacers /\ pacer'.target = p.target /\ pacer'.aimd = p.aimd
    BY <2>2 DEF Set
  <2>4. InRange(pacer')
    BY <1>2, <2>3, Zenon DEF InRange
  <2>5. DriveOK(drive') /\ drive'.at = "saturated?"
    BY <1>3, <1>5, DriveMoved
  <2>6. nap = Off
    BY <1>1 DEF IInv, Naps
  <2>7. Types' /\ Naps'
    BY <1>1, <1>5, <2>3, <2>4, <2>5, <2>6 DEF IInv, Types, Naps
  <2>8. QED BY <1>1, <2>7 DEF IInv, RetriesOnTime
<1>6. CASE /\ p.tokens < Delivery
           /\ pacer' = p
           /\ nap' = (Delivery - p.tokens + p.aimd - 1) \div p.aimd
           /\ drive' = [drive EXCEPT !.at = "nap"]
  <2>1. nap' \in Nat
    BY <1>4, <1>6, NapIs
  <2>5. DriveOK(drive') /\ drive'.at = "nap"
    BY <1>3, <1>6, DriveMoved
  <2>8. Types'
    BY <1>1, <1>2, <1>6, <2>1, <2>5 DEF IInv, Types
  <2>9. Naps'
    BY <2>5 DEF Naps
  <2>10. QED BY <1>1, <2>8, <2>9 DEF IInv, RetriesOnTime
<1>7. QED BY <1>1, <1>5, <1>6

LEMMA WokenKeeps ==
  ASSUME IInv, Woken
  PROVE  IInv'
<1>1. /\ nap = 0 /\ nap' = Off /\ drive' = [drive EXCEPT !.at = "acquire"]
      /\ UNCHANGED <<scope, target, bucket, pacer, heap, alarm>>
  BY DEF Woken, pump
<1>2. drive.at = "nap"
  BY <1>1 DEF IInv, Naps, Off
<1>3. DriveOK(drive') /\ drive'.at = "acquire"
  <2>1. DriveOK(drive) /\ drive.left > 0 /\ "acquire" \in Steps
    BY <1>2 DEF IInv, Types, DriveOK, Steps
  <2>2. QED BY <1>1, <2>1, DriveMoved
<1>4. Types'
  BY <1>1, <1>3 DEF IInv, Types
<1>6. Naps'
  BY <1>1 DEF Naps
<1>7. QED BY <1>1, <1>4, <1>6 DEF IInv, RetriesOnTime

LEMMA SetTargetTpsKeeps ==
  ASSUME IInv, NEW t \in scope.targets, SetTargetTps(t)
  PROVE  IInv'
<1>1. target' = t /\ UNCHANGED <<scope, drive, bucket, pacer, nap, heap, alarm>>
  BY DEF SetTargetTps, pump
<1>2. Types'
  BY <1>1 DEF IInv, Types
<1>3. Naps'
  BY <1>1 DEF IInv, Naps
<1>4. QED BY <1>1, <1>2, <1>3 DEF IInv, RetriesOnTime

(* Time passes: who waits is a step nearer to the timer's end.              *)
LEMMA PacerAged ==
  ASSUME NEW p \in Pacers, InRange(p),
         NEW q, q = [p EXCEPT !.sinceTick = Later(@, Unit), !.sinceRefill = Later(@, PerSecond),
                       !.sinceHalved = Later(@, PerSecond)]
  PROVE  /\ q \in Pacers /\ InRange(q)
         /\ q.target = p.target /\ q.aimd = p.aimd /\ q.tokens = p.tokens
         /\ q.sinceRefill = IF p.sinceRefill < PerSecond THEN p.sinceRefill + 1 ELSE PerSecond
<1>1. PICK v \in Nat \ {0}, b \in Nat, u \in Nat, x \in Nat, y \in 0..PerSecond, z \in Nat :
        p = [target |-> v, aimd |-> b, tokens |-> u, sinceTick |-> x, sinceRefill |-> y,
             sinceHalved |-> z]
  BY DEF Pacers
<1>2. \A n \in Nat, m \in Nat : Later(n, m) \in 0..m
                                /\ Later(n, m) = IF m <= n + 1 THEN m ELSE n + 1
  BY MinOfTwo DEF Later
<1>3. q = [target |-> v, aimd |-> b, tokens |-> u, sinceTick |-> Later(x, Unit),
           sinceRefill |-> Later(y, PerSecond), sinceHalved |-> Later(z, PerSecond)]
  BY <1>1
<1>4. /\ Later(x, Unit) \in Nat /\ Later(z, PerSecond) \in Nat
      /\ Later(y, PerSecond) \in 0..PerSecond
      /\ Later(y, PerSecond) = IF y < PerSecond THEN y + 1 ELSE PerSecond
  BY <1>1, <1>2, Units
<1>5. q \in Pacers
  BY <1>1, <1>3, <1>4 DEF Pacers
<1>6. q.target = p.target /\ q.aimd = p.aimd /\ q.tokens = p.tokens
  BY <1>1, <1>3
<1>7. InRange(q)
  BY <1>6, Zenon DEF InRange
<1>8. QED BY <1>1, <1>3, <1>4, <1>5, <1>6, <1>7

LEMMA ClockKeeps ==
  ASSUME IInv, Clock
  PROVE  IInv'
<1>1. /\ nap # 0 /\ drive.at # "acquire" /\ nap' = Sooner(nap)
      /\ bucket' = [bucket EXCEPT !.since = Later(@, PerSecond)]
      /\ pacer' = [pacer EXCEPT !.sinceTick = Later(@, Unit), !.sinceRefill = Later(@, PerSecond),
                 !.sinceHalved = Later(@, PerSecond)]
      /\ UNCHANGED <<scope, target, drive>>
  BY DEF Clock
<1>2. heap' \in [0..Longest -> Nat] /\ RetriesOnTime'
  BY ClockOnTime
<1>3. /\ pacer' \in Pacers /\ InRange(pacer') /\ pacer'.aimd = pacer.aimd
      /\ pacer'.tokens = pacer.tokens
      /\ pacer'.sinceRefill = IF pacer.sinceRefill < PerSecond THEN pacer.sinceRefill + 1
                                                               ELSE PerSecond
  BY <1>1, PacerAged DEF IInv, Types
<1>4. bucket' \in [tokens : Nat, since : Nat]
  <2>1. \A n \in Nat : Later(n, PerSecond) \in Nat
    BY MinOfTwo, Units DEF Later
  <2>2. QED BY <1>1, <2>1 DEF IInv, Types
<1>5. nap' \in {Off} \union Nat /\ Naps'
  BY <1>1 DEF IInv, Naps, Types, Off, Sooner
<1>6. Types'
  BY <1>1, <1>2, <1>3, <1>4, <1>5 DEF IInv, Types
<1>7. QED BY <1>2, <1>5, <1>6 DEF IInv

-----------------------------------------------------------------------------
LEMMA InitHolds == Init => IInv
<1> SUFFICES ASSUME Init PROVE IInv
  OBVIOUS
<1>1. Start \in Nat \ {0} /\ Start * Unit \in Nat /\ Start * Delivery \in Nat
  BY PacingAssumption, Units, Products
<1>2. Unit <= Start * Unit
  BY <1>1, Units, Products, 1 * Unit = Unit
<1>3. pacer \in Pacers
  BY <1>1, Units DEF Init, Pacers
<1>4. InRange(pacer)
  BY <1>1, <1>2, Units DEF Init, InRange
<1>5. heap \in [0..Longest -> Nat] /\ \A w \in DOMAIN heap : heap[w] = 0
  BY DEF Init
<1>6. DriveOK(drive)
  BY DEF Init, DriveOK, Steps
<1>7. Types
  BY <1>3, <1>4, <1>5, <1>6, Units, PacingAssumption DEF Init, Types
<1>8. Naps
  BY DEF Init, Naps
<1>9. QED BY <1>5, <1>7, <1>8 DEF IInv, RetriesOnTime

LEMMA StepKeeps == IInv /\ [Next]_vars => IInv'
<1> SUFFICES ASSUME IInv, [Next]_vars PROVE IInv'
  OBVIOUS
<1>1. CASE User
  BY <1>1, SetTargetTpsKeeps DEF User
<1>2. CASE Drive
  BY <1>2, TickKeeps, ChunkKeeps, RestKeeps, TakeKeeps, WokenKeeps, LooksSaturatedKeeps,
     CapacityBackKeeps, ReserveSlotKeeps DEF Drive
<1>3. CASE Complete
  <2>1. /\ Dispatched(Window - flying + 1, ready)
        /\ UNCHANGED <<scope, target, bucket, pacer, nap>>
    BY <1>3 DEF Complete
  <2>2. QED BY <1>3, <2>1, CompleteOnTime, CompletionKeeps
<1>4. CASE RetriesDue
  <2>1. /\ Dispatched(Window - flying, ready + heap[0])
        /\ UNCHANGED <<scope, target, bucket, pacer, nap>>
    BY <1>4 DEF RetriesDue
  <2>2. QED BY <1>4, <2>1, RetriesDueOnTime, CompletionKeeps
<1>5. CASE Clock
  BY <1>5, ClockKeeps
<1>6. CASE UNCHANGED vars
  <2>1. UNCHANGED <<scope, target, drive, bucket, pacer, nap, heap, alarm>>
    BY <1>6 DEF vars, pump
  <2>2. Types'
    BY <2>1 DEF IInv, Types
  <2>3. Naps'
    BY <2>1 DEF IInv, Naps
  <2>4. QED BY <2>1, <2>2, <2>3 DEF IInv, RetriesOnTime
<1>7. QED BY <1>1, <1>2, <1>3, <1>4, <1>5, <1>6 DEF Next

(* The clock's invariant: the pacer's rate stays between one publish a      *)
(* second and the target, and the retry timer is never later than the       *)
(* earliest retry.                                                          *)
THEOREM PacingInvariant == Spec => []IInv
BY InitHolds, StepKeeps, PTL DEF Spec

(* The one retry timer is set for the earliest retry, whenever one is added *)
(* or taken out (armTimer, pump.ts).                                        *)
THEOREM TimerIsEarliest == Spec => []RetriesOnTime
<1>1. IInv => RetriesOnTime
  BY DEF IInv
<1>2. QED BY <1>1, PacingInvariant, PTL

-----------------------------------------------------------------------------
(* A sum over a set, MapThenSumSet, is a function that takes some member    *)
(* out of the set after the other: it exists, and which one it takes does   *)
(* not matter.  Induction is by the least counterexample.                   *)

Slots == [released : Nat, target : Nat \ {0}]

Some(s) == CHOOSE x \in s : TRUE
SumOver(f, s) == MapThenSumSet(LAMBDA n : f[n].released, s)
Adds(g, f, S) ==
  g = [s \in SUBSET S |-> IF s = {} THEN 0 ELSE f[Some(s)].released + g[s \ {Some(s)}]]

LEMMA SumOverIs ==
  ASSUME NEW f, NEW S
  PROVE  SumOver(f, S) = (CHOOSE g : Adds(g, f, S))[S]
BY Zenon DEF SumOver, MapThenSumSet, MapThenFoldSet, Adds, Some

LEMMA OneLess ==
  ASSUME NEW s, IsFiniteSet(s), NEW x \in s
  PROVE  /\ Cardinality(s) \in Nat \ {0} /\ Cardinality(s \ {x}) = Cardinality(s) - 1
         /\ IsFiniteSet(s \ {x})
<1>1. Cardinality(s) \in Nat /\ s # {}
  BY FS_CardinalityType
<1>2. Cardinality(s) # 0
  BY <1>1, FS_EmptySet
<1>3. QED BY <1>1, <1>2, FS_RemoveElement

LEMMA SumExists ==
  ASSUME NEW S, IsFiniteSet(S), NEW f, \A x \in S : f[x] \in Slots
  PROVE  \E g \in [SUBSET S -> Nat] : Adds(g, f, S)
<1> DEFINE E(g, s) == IF s = {} THEN 0 ELSE f[Some(s)].released + g[s \ {Some(s)}]
           Good(g, n) == \A s \in SUBSET S : Cardinality(s) <= n => g[s] = E(g, s)
           Bad == {n \in Nat : ~ \E g \in [SUBSET S -> Nat] : Good(g, n)}
<1>1. \A s \in SUBSET S : /\ IsFiniteSet(s) /\ Cardinality(s) \in Nat
                          /\ s # {} => Some(s) \in s
  BY FS_Subset, FS_CardinalityType, Zenon DEF Some
<1>2. ASSUME NEW g \in [SUBSET S -> Nat], NEW s \in SUBSET S PROVE E(g, s) \in Nat
  <2>1. CASE s # {}
    <3>1. f[Some(s)].released \in Nat /\ s \ {Some(s)} \in SUBSET S
      BY <1>1, <2>1 DEF Slots
    <3>2. QED BY <3>1, <2>1
  <2>2. QED BY <2>1
<1>3. Bad = {}
  <2>1. SUFFICES ASSUME Bad # {} PROVE FALSE
    OBVIOUS
  <2>2. PICK n \in Bad : n \in Nat /\ \A m \in Nat : m < n => m \notin Bad
    <3>1. Bad \subseteq Nat
      OBVIOUS
    <3> HIDE DEF Bad
    <3>2. QED BY <2>1, <3>1, LeastOf
  <2>3. n # 0
    <3>1. SUFFICES ASSUME n = 0 PROVE \E g \in [SUBSET S -> Nat] : Good(g, n)
      BY <2>2
    <3>2. [s \in SUBSET S |-> 0] \in [SUBSET S -> Nat]
      OBVIOUS
    <3>3. \A s \in SUBSET S : Cardinality(s) <= 0 => s = {}
      BY <1>1, FS_EmptySet
    <3>4. Good([s \in SUBSET S |-> 0], n)
      BY <3>1, <3>3
    <3>5. QED BY <3>2, <3>4
  <2>4. n - 1 \in Nat /\ n - 1 \notin Bad
    <3>1. n - 1 \in Nat /\ n - 1 < n
      BY <2>2, <2>3
    <3> HIDE DEF Bad
    <3>2. QED BY <2>2, <3>1
  <2>5. PICK g \in [SUBSET S -> Nat] : Good(g, n - 1)
    BY <2>4
  <2> DEFINE h == [s \in SUBSET S |-> E(g, s)]
  <2>6. h \in [SUBSET S -> Nat]
    BY <1>2
  <2>7. ASSUME NEW s \in SUBSET S, Cardinality(s) <= n PROVE h[s] = E(h, s)
    <3>1. CASE s = {}
      BY <3>1
    <3>2. CASE s # {}
      <4> DEFINE rest == s \ {Some(s)}
      <4>1. rest \in SUBSET S /\ Cardinality(rest) <= n - 1
        BY <1>1, <2>2, <2>7, <3>2, OneLess
      <4>2. g[rest] = E(g, rest)
        BY <2>5, <4>1
      <4>3. h[rest] = E(g, rest)
        BY <4>1
      <4>4. h[s] = f[Some(s)].released + g[rest]
        BY <3>2
      <4>5. E(h, s) = f[Some(s)].released + h[rest]
        BY <3>2
      <4>6. QED BY <4>2, <4>3, <4>4, <4>5, Zenon
    <3>3. QED BY <3>1, <3>2
  <2>8. Good(h, n)
    BY <2>7
  <2>9. QED BY <2>2, <2>6, <2>8, Zenon
<1>4. Cardinality(S) \in Nat /\ \A s \in SUBSET S : Cardinality(s) <= Cardinality(S)
  BY FS_CardinalityType, FS_Subset
<1>5. PICK g \in [SUBSET S -> Nat] : Good(g, Cardinality(S))
  BY <1>3, <1>4
<1>6. \A s \in SUBSET S : g[s] = E(g, s)
  BY <1>4, <1>5
<1>7. g = [s \in SUBSET S |-> E(g, s)]
  BY <1>6
<1>8. QED BY <1>7, Zenon DEF Adds

(* Whichever member is taken out first, the sum is the same.                *)
LEMMA SumStep ==
  ASSUME NEW S, IsFiniteSet(S), NEW f, \A x \in S : f[x] \in Slots,
         NEW g \in [SUBSET S -> Nat], Adds(g, f, S)
  PROVE  \A s \in SUBSET S : \A x \in s : g[s] = f[x].released + g[s \ {x}]
<1> DEFINE Right(s) == \A x \in s : g[s] = f[x].released + g[s \ {x}]
           Bad == {n \in Nat : \E s \in SUBSET S : Cardinality(s) = n /\ ~Right(s)}
<1>1. \A s \in SUBSET S : /\ IsFiniteSet(s) /\ Cardinality(s) \in Nat
                          /\ s # {} => Some(s) \in s
  BY FS_Subset, FS_CardinalityType, Zenon DEF Some
<1>2. \A s \in SUBSET S : s # {} => g[s] = f[Some(s)].released + g[s \ {Some(s)}]
  <2>1. g = [s \in SUBSET S |-> IF s = {} THEN 0 ELSE f[Some(s)].released + g[s \ {Some(s)}]]
    BY Zenon DEF Adds
  <2>2. QED BY <2>1, Zenon
<1>3. Bad = {}
  <2>1. SUFFICES ASSUME Bad # {} PROVE FALSE
    OBVIOUS
  <2>2. PICK n \in Bad : n \in Nat /\ \A m \in Nat : m < n => m \notin Bad
    <3>1. Bad \subseteq Nat
      OBVIOUS
    <3> HIDE DEF Bad
    <3>2. QED BY <2>1, <3>1, LeastOf
  <2>3. PICK s \in SUBSET S : Cardinality(s) = n /\ ~Right(s)
    BY <2>2
  <2>4. PICK x \in s : ~(g[s] = f[x].released + g[s \ {x}])
    BY <2>3
  <2> DEFINE c == Some(s)
             rest == s \ {c}
             other == s \ {x}
             both == rest \ {x}
  <2>5. c \in s /\ c # x
    BY <1>1, <1>2, <2>4
  <2>6. /\ rest \in SUBSET S /\ other \in SUBSET S /\ both \in SUBSET S
        /\ both = other \ {c} /\ x \in rest /\ c \in other
    BY <2>5
  <2>7. Cardinality(rest) \in Nat /\ Cardinality(rest) < n
        /\ Cardinality(other) \in Nat /\ Cardinality(other) < n /\ n \in Nat
    BY <1>1, <2>2, <2>3, <2>5, OneLess
  <2>8. Right(rest) /\ Right(other)
    <3>1. Cardinality(rest) \notin Bad /\ Cardinality(other) \notin Bad
      BY <2>2, <2>7
    <3>2. QED BY <2>6, <2>7, <3>1
  <2>9. g[rest] = f[x].released + g[both] /\ g[other] = f[c].released + g[both]
    BY <2>6, <2>8
  <2>10. g[s] = f[c].released + g[rest]
    BY <1>2, <2>5
  <2>11. f[c].released \in Nat /\ f[x].released \in Nat /\ g[both] \in Nat
    BY <2>5, <2>6 DEF Slots
  <2> HIDE DEF c, rest, other, both
  <2>12. g[s] = f[x].released + g[other]
    BY <2>9, <2>10, <2>11
  <2>13. QED BY <2>4, <2>12 DEF other
<1>4. QED BY <1>1, <1>3

(* The sum over a part of a set does not depend on the whole.               *)
LEMMA SumAgrees ==
  ASSUME NEW S, IsFiniteSet(S), NEW f, \A x \in S : f[x] \in Slots, NEW T \in SUBSET S,
         NEW g, Adds(g, f, S), NEW h, Adds(h, f, T)
  PROVE  g[T] = h[T]
<1> DEFINE Bad == {n \in Nat : \E s \in SUBSET T : Cardinality(s) = n /\ g[s] # h[s]}
<1>1. \A s \in SUBSET T : /\ IsFiniteSet(s) /\ Cardinality(s) \in Nat
                          /\ s # {} => Some(s) \in s
  BY FS_Subset, FS_CardinalityType, Zenon DEF Some
<1>2. \A s \in SUBSET T :
        /\ g[s] = IF s = {} THEN 0 ELSE f[Some(s)].released + g[s \ {Some(s)}]
        /\ h[s] = IF s = {} THEN 0 ELSE f[Some(s)].released + h[s \ {Some(s)}]
  <2>1. /\ g = [s \in SUBSET S |-> IF s = {} THEN 0
                                   ELSE f[Some(s)].released + g[s \ {Some(s)}]]
        /\ h = [s \in SUBSET T |-> IF s = {} THEN 0
                                   ELSE f[Some(s)].released + h[s \ {Some(s)}]]
    BY Zenon DEF Adds
  <2>2. \A s \in SUBSET T : s \in SUBSET S
    OBVIOUS
  <2>3. QED BY <2>1, <2>2, Zenon
<1>3. Bad = {}
  <2>1. SUFFICES ASSUME Bad # {} PROVE FALSE
    OBVIOUS
  <2>2. PICK n \in Bad : n \in Nat /\ \A m \in Nat : m < n => m \notin Bad
    <3>1. Bad \subseteq Nat
      OBVIOUS
    <3> HIDE DEF Bad
    <3>2. QED BY <2>1, <3>1, LeastOf
  <2>3. PICK s \in SUBSET T : Cardinality(s) = n /\ g[s] # h[s]
    BY <2>2
  <2>4. s # {} /\ Some(s) \in s
    BY <1>1, <1>2, <2>3
  <2> DEFINE rest == s \ {Some(s)}
  <2>5. rest \in SUBSET T /\ Cardinality(rest) \in Nat /\ Cardinality(rest) < n /\ n \in Nat
    BY <1>1, <2>2, <2>3, <2>4, OneLess
  <2>6. Cardinality(rest) \notin Bad
    BY <2>2, <2>5
  <2>7. g[rest] = h[rest]
    BY <2>5, <2>6
  <2>8. QED BY <1>2, <2>3, <2>4, <2>7, Zenon
<1>4. Cardinality(T) \in Nat /\ Cardinality(T) \notin Bad
  BY <1>1, <1>3
<1>5. QED BY <1>4

LEMMA SumOverSet ==
  ASSUME NEW S, IsFiniteSet(S), NEW f, \A x \in S : f[x] \in Slots
  PROVE  /\ SumOver(f, S) \in Nat
         /\ S = {} => SumOver(f, S) = 0
         /\ \A x \in S : SumOver(f, S) = f[x].released + SumOver(f, S \ {x})
<1>1. PICK g \in [SUBSET S -> Nat] : Adds(g, f, S)
  BY SumExists
<1>2. ASSUME NEW T \in SUBSET S
      PROVE  SumOver(f, T) = g[T]
  <2>1. IsFiniteSet(T) /\ \A x \in T : f[x] \in Slots
    BY FS_Subset
  <2>2. \E h : Adds(h, f, T)
    BY <2>1, SumExists
  <2> DEFINE chosen == CHOOSE h : Adds(h, f, T)
  <2>3. Adds(chosen, f, T)
    BY <2>2, Zenon
  <2>4. SumOver(f, T) = chosen[T]
    BY SumOverIs, Zenon
  <2> HIDE DEF chosen
  <2>5. g[T] = chosen[T]
    <3>1. ASSUME NEW h, Adds(h, f, T) PROVE g[T] = h[T]
      BY <1>1, <3>1, SumAgrees
    <3>2. QED BY <2>3, <3>1
  <2>6. QED BY <2>4, <2>5
<1>3. \A x \in S : g[S] = f[x].released + g[S \ {x}]
  BY <1>1, SumStep
<1>4. S = {} => g[S] = 0
  BY <1>1 DEF Adds
<1>5. S \in SUBSET S /\ \A x \in S : S \ {x} \in SUBSET S
  OBVIOUS
<1>6. SumOver(f, S) = g[S] /\ \A x \in S : SumOver(f, S \ {x}) = g[S \ {x}]
  BY <1>2, <1>5
<1>7. QED BY <1>1, <1>3, <1>4, <1>5, <1>6

-----------------------------------------------------------------------------
(* The last second: the newest k of the steps of time in recent, and what   *)
(* was released in them.                                                    *)

Ring   == 1..(PerSecond + 1)
RingOK(r) == r \in [Ring -> Slots]
Rel(r, k) == SumOver(r, 1..k)

LEMMA RelIs ==
  ASSUME NEW r, RingOK(r), NEW k \in 0..(PerSecond + 1)
  PROVE  /\ Rel(r, k) \in Nat
         /\ k = 0 => Rel(r, k) = 0
         /\ k > 0 => Rel(r, k) = r[k].released + Rel(r, k - 1)
<1>1. IsFiniteSet(1..k) /\ \A x \in 1..k : r[x] \in Slots
  BY FS_Interval, Units DEF RingOK, Ring
<1>2. k = 0 => 1..k = {}
  OBVIOUS
<1>3. k > 0 => k \in 1..k /\ (1..k) \ {k} = 1..(k - 1)
  OBVIOUS
<1>4. /\ SumOver(r, 1..k) \in Nat
      /\ 1..k = {} => SumOver(r, 1..k) = 0
      /\ \A x \in 1..k : SumOver(r, 1..k) = r[x].released + SumOver(r, (1..k) \ {x})
  BY <1>1, SumOverSet
<1>5. QED BY <1>2, <1>3, <1>4, Zenon DEF Rel

(* What one step of a sum adds decides the sum.                             *)
LEMMA RelSame ==
  ASSUME NEW r, RingOK(r), NEW q, RingOK(q), \A n \in Ring : q[n].released = r[n].released
  PROVE  \A k \in 0..(PerSecond + 1) : Rel(q, k) = Rel(r, k)
<1> DEFINE Bad == {k \in 0..(PerSecond + 1) : Rel(q, k) # Rel(r, k)}
<1>1. SUFFICES ASSUME Bad # {} PROVE FALSE
  OBVIOUS
<1>2. Bad \subseteq Nat
  BY Units
<1>3. PICK k \in Bad : k \in Nat /\ \A m \in Nat : m < k => m \notin Bad
  <2> HIDE DEF Bad
  <2>1. QED BY <1>1, <1>2, LeastOf
<1>4. k \in 0..(PerSecond + 1) /\ Rel(q, k) # Rel(r, k)
  BY <1>3
<1>5. k > 0
  BY <1>3, <1>4, RelIs
<1>6. k - 1 \in 0..(PerSecond + 1) /\ k - 1 \in Nat /\ k - 1 < k /\ k \in Ring
  BY <1>3, <1>4, <1>5, Units DEF Ring
<1>7. Rel(q, k - 1) = Rel(r, k - 1)
  <2>1. k - 1 \notin Bad
    <3> HIDE DEF Bad
    <3>1. QED BY <1>3, <1>6
  <2>2. QED BY <1>6, <2>1
<1>8. Rel(q, k) = q[k].released + Rel(q, k - 1) /\ Rel(r, k) = r[k].released + Rel(r, k - 1)
  BY <1>4, <1>5, RelIs
<1>9. QED BY <1>4, <1>6, <1>7, <1>8, Zenon

LEMMA RelMore ==
  ASSUME NEW r, RingOK(r), NEW q, RingOK(q), q[1].released = r[1].released + 1,
         \A n \in Ring \ {1} : q[n].released = r[n].released
  PROVE  \A k \in Ring : Rel(q, k) = Rel(r, k) + 1
<1> DEFINE Bad == {k \in Ring : Rel(q, k) # Rel(r, k) + 1}
<1>1. SUFFICES ASSUME Bad # {} PROVE FALSE
  OBVIOUS
<1>2. Bad \subseteq Nat
  BY Units DEF Ring
<1>3. PICK k \in Bad : k \in Nat /\ \A m \in Nat : m < k => m \notin Bad
  <2> HIDE DEF Bad
  <2>1. QED BY <1>1, <1>2, LeastOf
<1>4. k \in Ring /\ k \in 0..(PerSecond + 1) /\ k > 0 /\ Rel(q, k) # Rel(r, k) + 1
  BY <1>3, Units DEF Ring
<1>5. Rel(q, k) = q[k].released + Rel(q, k - 1) /\ Rel(r, k) = r[k].released + Rel(r, k - 1)
  BY <1>4, RelIs
<1>6. /\ q[k].released \in Nat /\ r[k].released \in Nat
      /\ k - 1 \in 0..(PerSecond + 1) /\ Rel(q, k - 1) \in Nat /\ Rel(r, k - 1) \in Nat
  <2>1. q[k].released \in Nat /\ r[k].released \in Nat
    BY <1>4 DEF RingOK, Slots
  <2>2. k - 1 \in 0..(PerSecond + 1)
    BY <1>4, Units
  <2>3. QED BY <2>1, <2>2, RelIs
<1>7. CASE k = 1
  <2>1. Rel(q, k - 1) = 0 /\ Rel(r, k - 1) = 0
    BY <1>6, <1>7, RelIs
  <2>2. QED BY <1>4, <1>5, <1>6, <1>7, <2>1
<1>8. CASE k # 1
  <2>1. k - 1 \in Nat /\ k - 1 < k /\ k - 1 \in Ring
    BY <1>3, <1>4, <1>8, Units DEF Ring
  <2>2. k - 1 \notin Bad
    <3> HIDE DEF Bad
    <3>1. QED BY <1>3, <2>1
  <2>3. Rel(q, k - 1) = Rel(r, k - 1) + 1
    BY <2>1, <2>2
  <2>4. q[k].released = r[k].released
    BY <1>4, <1>8
  <2>5. QED BY <1>4, <1>5, <1>6, <2>3, <2>4
<1>9. QED BY <1>7, <1>8

LEMMA RelShift ==
  ASSUME NEW r, RingOK(r), NEW q, RingOK(q), q[1].released = 0,
         \A n \in Ring \ {1} : q[n] = r[n - 1]
  PROVE  \A k \in Ring : Rel(q, k) = Rel(r, k - 1)
<1> DEFINE Bad == {k \in Ring : Rel(q, k) # Rel(r, k - 1)}
<1>1. SUFFICES ASSUME Bad # {} PROVE FALSE
  OBVIOUS
<1>2. Bad \subseteq Nat
  BY Units DEF Ring
<1>3. PICK k \in Bad : k \in Nat /\ \A m \in Nat : m < k => m \notin Bad
  <2> HIDE DEF Bad
  <2>1. QED BY <1>1, <1>2, LeastOf
<1>4. /\ k \in Ring /\ k \in 0..(PerSecond + 1) /\ k > 0 /\ k - 1 \in 0..(PerSecond + 1)
      /\ Rel(q, k) # Rel(r, k - 1)
  BY <1>3, Units DEF Ring
<1>5. Rel(q, k) = q[k].released + Rel(q, k - 1)
  BY <1>4, RelIs
<1>6. CASE k = 1
  <2>1. Rel(q, k - 1) = 0 /\ Rel(r, k - 1) = 0
    BY <1>4, <1>6, RelIs
  <2>2. QED BY <1>4, <1>5, <1>6, <2>1
<1>7. CASE k # 1
  <2>1. k - 1 \in Nat /\ k - 1 < k /\ k - 1 \in Ring /\ k - 1 > 0
    BY <1>3, <1>4, <1>7, Units DEF Ring
  <2>2. k - 1 \notin Bad
    <3> HIDE DEF Bad
    <3>1. QED BY <1>3, <2>1
  <2>3. Rel(q, k - 1) = Rel(r, (k - 1) - 1)
    BY <2>1, <2>2
  <2>4. Rel(r, k - 1) = r[k - 1].released + Rel(r, (k - 1) - 1)
    BY <1>4, <2>1, RelIs
  <2>5. q[k] = r[k - 1]
    BY <1>4, <1>7
  <2>6. QED BY <1>4, <1>5, <2>3, <2>4, <2>5, Zenon
<1>8. QED BY <1>6, <1>7

(* A step of time: a new slot at the head, and the oldest falls out.        *)
Turned(r, new) == <<new>> \o Front(r)

LEMMA RingTurns ==
  ASSUME NEW r, RingOK(r), NEW new \in Slots
  PROVE  /\ RingOK(Turned(r, new)) /\ Turned(r, new)[1] = new
         /\ \A n \in Ring \ {1} : Turned(r, new)[n] = r[n - 1]
<1> DEFINE q == Turned(r, new)
<1>1. r \in Seq(Slots) /\ Len(r) = PerSecond + 1
  BY Units DEF RingOK, Ring
<1>2. /\ Front(r) \in Seq(Slots) /\ Len(Front(r)) = PerSecond
      /\ \A n \in 1..PerSecond : Front(r)[n] = r[n]
  BY <1>1, Units DEF Front
<1>3. q \in Seq(Slots) /\ Len(q) = PerSecond + 1
  BY <1>2, Units DEF Turned
<1>4. q[1] = new /\ \A n \in Ring \ {1} : q[n] = Front(r)[n - 1]
  BY <1>2, Units DEF Ring, Turned
<1>5. RingOK(q)
  <2>1. \A S : \A s \in Seq(S) : s \in [1..Len(s) -> S]
    OBVIOUS
  <2>2. QED BY <1>3, <2>1, Zenon DEF RingOK, Ring
<1>6. \A n \in Ring \ {1} : n - 1 \in 1..PerSecond
  BY Units DEF Ring
<1>7. QED BY <1>2, <1>4, <1>5, <1>6

(* Some slot has the highest target.                                        *)
LEMMA HighestIs ==
  ASSUME NEW r, RingOK(r)
  PROVE  LET top == Max({r[n].target : n \in DOMAIN r})
         IN  top \in Nat /\ \A n \in Ring : r[n].target <= top
<1> DEFINE Tops(k) == \E m \in 1..k : \A n \in 1..k : r[n].target <= r[m].target
           Bad == {k \in Ring : ~Tops(k)}
<1>1. DOMAIN r = Ring /\ \A n \in Ring : r[n].target \in Nat
  BY DEF RingOK, Slots
<1>2. Bad = {}
  <2>1. SUFFICES ASSUME Bad # {} PROVE FALSE
    OBVIOUS
  <2>2. Bad \subseteq Nat
    BY Units DEF Ring
  <2>3. PICK k \in Bad : k \in Nat /\ \A m \in Nat : m < k => m \notin Bad
    <3> HIDE DEF Bad
    <3>1. QED BY <2>1, <2>2, LeastOf
  <2>4. k \in Ring /\ ~Tops(k) /\ k >= 1 /\ \A n \in 1..k : n \in Ring
    BY <2>3, Units DEF Ring
  <2>5. k # 1
    <3>1. SUFFICES ASSUME k = 1 PROVE FALSE
      OBVIOUS
    <3>2. 1 \in 1..k /\ \A n \in 1..k : r[n].target <= r[1].target
      BY <1>1, <2>4, <3>1
    <3>3. QED BY <2>4, <3>2
  <2>6. k - 1 \in Ring /\ k - 1 \in Nat /\ k - 1 < k
    BY <2>3, <2>4, <2>5, Units DEF Ring
  <2>7. Tops(k - 1)
    <3>1. k - 1 \notin Bad
      <4> HIDE DEF Bad
      <4>1. QED BY <2>3, <2>6
    <3>2. QED BY <2>6, <3>1
  <2>8. PICK m \in 1..(k - 1) : \A n \in 1..(k - 1) : r[n].target <= r[m].target
    BY <2>7
  <2>9. CASE r[k].target <= r[m].target
    <3>1. m \in 1..k /\ \A n \in 1..k : n \in 1..(k - 1) \/ n = k
      BY <2>3, <2>4, <2>6
    <3>2. \A n \in 1..k : r[n].target <= r[m].target
      BY <2>8, <2>9, <3>1
    <3>3. QED BY <2>4, <3>1, <3>2
  <2>10. CASE ~(r[k].target <= r[m].target)
    <3>1. k \in 1..k /\ m \in Ring /\ k \in Ring
          /\ \A n \in 1..k : (n \in 1..(k - 1) \/ n = k) /\ n \in Ring
      BY <2>3, <2>4, <2>6
    <3>2. \A n \in 1..k : r[n].target <= r[k].target
      BY <1>1, <2>8, <2>10, <3>1
    <3>3. QED BY <2>4, <3>1, <3>2
  <2>11. QED BY <2>9, <2>10
<1>3. PerSecond + 1 \in Ring
  BY Units DEF Ring
<1>4. PICK m \in Ring : \A n \in Ring : r[n].target <= r[m].target
  <2>1. Tops(PerSecond + 1)
    BY <1>2, <1>3
  <2>2. QED BY <2>1 DEF Ring
<1> DEFINE all == {r[n].target : n \in DOMAIN r}
<1>5. r[m].target \in all /\ \A y \in all : r[m].target >= y /\ y \in Nat
  BY <1>1, <1>4
<1>6. Max(all) \in all /\ \A y \in all : Max(all) >= y
  <2> HIDE DEF all
  <2>1. \E x \in all : \A y \in all : x >= y
    BY <1>5
  <2>2. QED BY <2>1, Zenon DEF Max
<1>7. Max(all) \in Nat
  BY <1>5, <1>6
<1>8. \A n \in Ring : r[n].target \in all
  BY <1>1
<1>9. QED
  <2>1. \A n \in Ring : r[n].target <= Max(all)
    <3> HIDE DEF all
    <3>1. QED BY <1>1, <1>6, <1>7, <1>8
  <2>2. QED BY <1>7, <2>1

-----------------------------------------------------------------------------
(* Bursts.  For every k and every rate T no target of the newest k steps    *)
(* exceeded: what they released, with what the pacer could release now, is  *)
(* within a second at T and the time that has passed at T.                  *)
Within(released, tokens, idle, most, k) ==
  \/ released * Delivery + PerSecond * most <= PerSecond * most + (k - 1) * most
  \/ released * Delivery + tokens + idle * most <= PerSecond * most + (k - 1) * most

Topped(r, k, T) == \A n \in 1..k : r[n].target <= T

Bursts(r, p) ==
  \A k \in Ring : \A T \in Nat :
    Topped(r, k, T) => Within(Rel(r, k), p.tokens, p.sinceRefill, T * Unit, k)

(* The target in force is among those of the newest step of time.           *)
BurstInv == RingOK(recent) /\ pacer.target <= recent[1].target /\ Bursts(recent, pacer)

LEMMA RingParts ==
  /\ 1 \in Ring /\ PerSecond + 1 \in Ring
  /\ \A k \in Ring : /\ k \in Nat \ {0} /\ k \in 0..(PerSecond + 1)
                     /\ 1 \in 1..k /\ \A n \in 1..k : n \in Ring
BY Units DEF Ring

(* Lowering what the pacer holds, or raising targets, keeps to the bound.   *)
LEMMA BurstsKept ==
  ASSUME NEW r, RingOK(r), NEW p \in Pacers, Bursts(r, p),
         NEW q, RingOK(q), NEW o \in Pacers,
         o.tokens = p.tokens, o.sinceRefill = p.sinceRefill,
         \A n \in Ring : q[n].released = r[n].released /\ q[n].target >= r[n].target
  PROVE  Bursts(q, o)
<1>1. \A k \in 0..(PerSecond + 1) : Rel(q, k) = Rel(r, k)
  BY RelSame
<1>2. ASSUME NEW k \in Ring, NEW T \in Nat, Topped(q, k, T)
      PROVE  Within(Rel(q, k), o.tokens, o.sinceRefill, T * Unit, k)
  <2>1. Topped(r, k, T)
    <3>1. ASSUME NEW n \in 1..k PROVE r[n].target <= T
      <4>1. /\ n \in Ring /\ q[n].target >= r[n].target /\ q[n].target <= T
            /\ r[n].target \in Nat /\ q[n].target \in Nat
        BY <1>2, RingParts DEF Topped, RingOK, Slots
      <4>2. QED BY <4>1
    <3>2. QED BY <3>1 DEF Topped
  <2>2. Within(Rel(r, k), p.tokens, p.sinceRefill, T * Unit, k)
    BY <2>1 DEF Bursts
  <2>3. Rel(q, k) = Rel(r, k)
    BY <1>1, RingParts
  <2>4. QED BY <2>2, <2>3, Zenon
<1>3. QED BY <1>2 DEF Bursts

(* take() with the arithmetic alone: a refill gives no more than the bound  *)
(* leaves, and a release costs what it adds.                                *)
LEMMA RefilledWithin ==
  ASSUME NEW released \in Nat, NEW tokens \in Nat, NEW idle \in Nat, NEW most \in Nat,
         NEW k \in Nat \ {0}, Within(released, tokens, idle, most, k),
         NEW left \in Nat, left <= tokens + idle * most, left <= PerSecond * most
  PROVE  /\ Within(released, left, 0, most, k)
         /\ left >= Delivery => Within(released + 1, left - Delivery, 0, most, k)
<1> DEFINE x == released * Delivery
           y == PerSecond * most
           z == (k - 1) * most
           w == idle * most
<1>1. x \in Nat /\ y \in Nat /\ z \in Nat /\ w \in Nat /\ 0 * most = 0
  BY Units, Products
<1>2. (released + 1) * Delivery = x + Delivery
  BY Units
<1>3. x + y <= y + z \/ x + tokens + w <= y + z
  BY DEF Within
<1>4. left <= tokens + w /\ left <= y
  OBVIOUS
<1> HIDE DEF x, y, z, w
<1>5. x + left + 0 <= y + z
  BY <1>1, <1>3, <1>4
<1>6. left >= Delivery => (x + Delivery) + (left - Delivery) + 0 <= y + z
  BY <1>1, <1>5, Units
<1>7. Within(released, left, 0, most, k)
  BY <1>1, <1>5 DEF Within, x, y, z
<1>8. left >= Delivery => Within(released + 1, left - Delivery, 0, most, k)
  <2>1. SUFFICES ASSUME left >= Delivery
                 PROVE  Within(released + 1, left - Delivery, 0, most, k)
    OBVIOUS
  <2>2. (released + 1) * Delivery + (left - Delivery) + 0 * most <= y + z
    BY <1>1, <1>2, <1>6, <2>1
  <2>3. QED BY <2>2, Zenon DEF Within, y, z
<1>9. QED BY <1>7, <1>8

(* A step of time with the arithmetic alone.                                *)
LEMMA LaterWithin ==
  ASSUME NEW released \in Nat, NEW tokens \in Nat, NEW idle \in Nat, NEW most \in Nat,
         NEW k \in Nat \ {0}, Within(released, tokens, idle, most, k),
         NEW longer \in Nat, longer <= idle + 1
  PROVE  Within(released, tokens, longer, most, k + 1)
<1> DEFINE x == released * Delivery
           y == PerSecond * most
           z == (k - 1) * most
           w == idle * most
           v == longer * most
<1>1. /\ x \in Nat /\ y \in Nat /\ z \in Nat /\ w \in Nat /\ v \in Nat
      /\ longer * most <= (idle + 1) * most
  BY Units, Products
<1>2. (idle + 1) * most = w + most /\ ((k + 1) - 1) * most = z + most
  OBVIOUS
<1>3. x + y <= y + z \/ x + tokens + w <= y + z
  BY DEF Within
<1>4. v <= w + most
  BY <1>1, <1>2
<1> HIDE DEF x, y, z, w, v
<1>5. x + y <= y + (z + most) \/ x + tokens + v <= y + (z + most)
  BY <1>1, <1>3, <1>4
<1>6. QED BY <1>2, <1>5, Zenon DEF Within, x, y, v

(* A step that leaves the pacer's tokens and the targets of the last second *)
(* alone, or raises the newest of them to the rate in force.                *)
LEMMA SteadyKeeps ==
  ASSUME IInv, BurstInv, pacer' \in Pacers,
         \A f \in {"target", "tokens", "sinceRefill"} : pacer'[f] = pacer[f],
         recent' = recent
  PROVE  BurstInv'
<1>1. pacer \in Pacers /\ RingOK(recent) /\ Bursts(recent, pacer)
  BY DEF IInv, Types, BurstInv
<1>2. \A n \in Ring : recent[n].target >= recent[n].target
  BY <1>1 DEF RingOK, Slots
<1>3. /\ pacer'.target = pacer.target /\ pacer'.tokens = pacer.tokens
      /\ pacer'.sinceRefill = pacer.sinceRefill
  OBVIOUS
<1>4. \A o \in Pacers : o.tokens = pacer.tokens /\ o.sinceRefill = pacer.sinceRefill
                          => Bursts(recent, o)
  BY <1>1, <1>2, BurstsKept
<1>5. Bursts(recent, pacer')
  BY <1>3, <1>4
<1>6. pacer'.target <= recent[1].target
  BY <1>3 DEF BurstInv
<1>7. QED BY <1>1, <1>5, <1>6 DEF BurstInv

LEMMA TickBursts ==
  ASSUME IInv, BurstInv, Tick
  PROVE  BurstInv'
<1>1. /\ pacer' = Retargeted(pacer, target) /\ target \in Nat \ {0}
      /\ recent' = [recent EXCEPT ![1].target = Max({@, target})]
      /\ pacer \in Pacers /\ InRange(pacer) /\ RingOK(recent) /\ Bursts(recent, pacer)
  BY DEF Tick, IInv, Types, BurstInv
<1>2. /\ pacer' \in Pacers /\ pacer'.target = target /\ pacer'.tokens = pacer.tokens
      /\ pacer'.sinceRefill = pacer.sinceRefill
  BY <1>1, RetargetedIs
<1> DEFINE was == recent[1].target
           top == Max({was, target})
<1>3. was \in Nat \ {0} /\ 1 \in Ring /\ recent[1].released \in Nat
  BY <1>1, RingParts DEF RingOK, Slots
<1>4. top \in Nat \ {0} /\ top >= was /\ top >= target
  BY <1>1, <1>3, MaxOfTwo
<1>5. recent' = [recent EXCEPT ![1].target = top]
  BY <1>1
<1> HIDE DEF top
<1>6. /\ recent'[1] = [recent[1] EXCEPT !.target = top]
      /\ \A n \in Ring \ {1} : recent'[n] = recent[n]
      /\ DOMAIN recent' = Ring /\ recent' = [n \in Ring |-> recent'[n]]
  BY <1>1, <1>3, <1>5 DEF RingOK
<1>7. recent'[1] \in Slots /\ recent'[1].target = top /\ recent'[1].released = recent[1].released
  <2>1. PICK n \in Nat, t \in Nat \ {0} : recent[1] = [released |-> n, target |-> t]
    BY <1>1, <1>3 DEF RingOK, Slots
  <2>2. recent'[1] = [released |-> n, target |-> top]
    BY <1>6, <2>1
  <2>3. QED BY <1>4, <2>1, <2>2 DEF Slots
<1>8. RingOK(recent')
  BY <1>1, <1>6, <1>7 DEF RingOK
<1>9. \A n \in Ring : recent'[n].released = recent[n].released
                      /\ recent'[n].target >= recent[n].target
  <2>1. \A n \in Ring : recent[n].target \in Nat
    BY <1>1 DEF RingOK, Slots
  <2>2. ASSUME NEW n \in Ring \ {1}
        PROVE  recent'[n].released = recent[n].released /\ recent'[n].target >= recent[n].target
    BY <1>6, <2>1
  <2>3. recent'[1].target >= recent[1].target /\ recent'[1].released = recent[1].released
    BY <1>4, <1>7
  <2>4. QED BY <2>2, <2>3
<1>10. \A q : \A o \in Pacers :
         (/\ RingOK(q) /\ o.tokens = pacer.tokens /\ o.sinceRefill = pacer.sinceRefill
          /\ \A n \in Ring : q[n].released = recent[n].released
                             /\ q[n].target >= recent[n].target)
           => Bursts(q, o)
  BY <1>1, BurstsKept
<1>11. Bursts(recent', pacer')
  BY <1>2, <1>8, <1>9, <1>10
<1>12. QED BY <1>2, <1>4, <1>7, <1>8, <1>11 DEF BurstInv

LEMMA TakeBursts ==
  ASSUME IInv, BurstInv, Take
  PROVE  BurstInv'
<1> DEFINE p == Refilled(pacer)
<1>1. \/ /\ p.tokens >= Delivery
         /\ pacer' = [p EXCEPT !.tokens = p.tokens - Delivery]
         /\ recent' = [recent EXCEPT ![1].released = recent[1].released + 1]
      \/ pacer' = p /\ recent' = recent
  BY DEF Take
<1>2. /\ p \in Pacers /\ p.target = pacer.target /\ p.sinceRefill = 0
      /\ p.tokens <= pacer.tokens + pacer.sinceRefill * (pacer.target * Unit)
      /\ p.tokens <= pacer.target * Delivery
  BY RefilledIs DEF IInv, Types
<1> HIDE DEF p
<1>3. /\ pacer \in Pacers /\ RingOK(recent) /\ Bursts(recent, pacer)
      /\ pacer.target <= recent[1].target
  BY DEF IInv, Types, BurstInv
<1>4. /\ p.tokens \in Nat /\ pacer.tokens \in Nat /\ pacer.sinceRefill \in Nat
      /\ pacer.target \in Nat \ {0} /\ recent[1].target \in Nat
  BY <1>2, <1>3, RingParts, Units DEF Pacers, RingOK, Slots
(* Whatever the bound on the targets, the refill keeps to it.               *)
<1>5. ASSUME NEW k \in Ring, NEW T \in Nat, Topped(recent, k, T)
      PROVE  /\ Within(Rel(recent, k), p.tokens, 0, T * Unit, k)
             /\ p.tokens >= Delivery
                  => Within(Rel(recent, k) + 1, p.tokens - Delivery, 0, T * Unit, k)
  <2>1. Within(Rel(recent, k), pacer.tokens, pacer.sinceRefill, T * Unit, k)
    BY <1>3, <1>5 DEF Bursts
  <2>2. k \in Nat \ {0} /\ k \in 0..(PerSecond + 1) /\ 1 \in 1..k
    BY RingParts
  <2>3. Rel(recent, k) \in Nat
    BY <1>3, <2>2, RelIs
  <2>4. pacer.target <= T
    <3>1. recent[1].target <= T
      BY <1>5, <2>2 DEF Topped
    <3>2. QED BY <1>3, <1>4, <3>1
  <2> DEFINE most == T * Unit
  <2>5. most \in Nat /\ pacer.target * Unit \in Nat /\ pacer.target * Unit <= most
    BY <1>4, <2>4, Units, Products
  <2>6. p.tokens <= pacer.tokens + pacer.sinceRefill * most
    <3>1. /\ pacer.sinceRefill * (pacer.target * Unit) <= pacer.sinceRefill * most
          /\ pacer.sinceRefill * (pacer.target * Unit) \in Nat
          /\ pacer.sinceRefill * most \in Nat
      BY <1>4, <2>5, Products
    <3> HIDE DEF most
    <3>2. QED BY <1>2, <1>4, <3>1
  <2>7. p.tokens <= PerSecond * most
    <3>1. pacer.target * Delivery <= T * Delivery /\ T * Delivery \in Nat
          /\ pacer.target * Delivery \in Nat
      BY <1>4, <2>4, Units, Products
    <3>2. T * Delivery = PerSecond * most
      <4>1. \A a, b, c \in Nat : a * (b * c) = b * (a * c)
        OBVIOUS
      <4>2. QED BY <4>1, Units
    <3>3. QED BY <1>2, <1>4, <3>1, <3>2
  <2> HIDE DEF most
  <2>8. Within(Rel(recent, k), pacer.tokens, pacer.sinceRefill, most, k)
    BY <2>1 DEF most
  <2>9. /\ Within(Rel(recent, k), p.tokens, 0, most, k)
        /\ p.tokens >= Delivery => Within(Rel(recent, k) + 1, p.tokens - Delivery, 0, most, k)
    BY <1>4, <2>2, <2>3, <2>5, <2>6, <2>7, <2>8, RefilledWithin
  <2>10. QED BY <2>9 DEF most
<1>6. CASE pacer' = p /\ recent' = recent
  <2>1. Bursts(recent, p)
    BY <1>2, <1>5 DEF Bursts
  <2>2. p.target <= recent[1].target
    BY <1>2, <1>3
  <2>3. QED BY <1>3, <1>6, <2>1, <2>2 DEF BurstInv
<1>7. CASE /\ p.tokens >= Delivery
           /\ pacer' = [p EXCEPT !.tokens = p.tokens - Delivery]
           /\ recent' = [recent EXCEPT ![1].released = recent[1].released + 1]
  <2>1. p.tokens - Delivery \in Nat
    BY <1>4, <1>7, Units
  <2>2. /\ pacer'.tokens = p.tokens - Delivery /\ pacer'.sinceRefill = 0
        /\ pacer'.target = pacer.target
    <3>1. p.aimd \in Nat
      BY <1>2 DEF Pacers
    <3>2. Set(p, pacer', p.aimd, p.tokens - Delivery, p.sinceRefill)
      BY <1>2, <1>7, <2>1, <3>1, PacerSet
    <3>3. QED BY <1>2, <3>2 DEF Set
  <2>3. 1 \in Ring /\ recent[1].released + 1 \in Nat
    BY <1>3, RingParts DEF RingOK, Slots
  <2>4. /\ recent'[1] = [recent[1] EXCEPT !.released = recent[1].released + 1]
        /\ \A n \in Ring \ {1} : recent'[n] = recent[n]
        /\ DOMAIN recent' = Ring /\ recent' = [n \in Ring |-> recent'[n]]
    BY <1>3, <1>7, <2>3 DEF RingOK
  <2>5. /\ recent'[1] \in Slots /\ recent'[1].target = recent[1].target
        /\ recent'[1].released = recent[1].released + 1
    <3>1. PICK n \in Nat, t \in Nat \ {0} : recent[1] = [released |-> n, target |-> t]
      BY <1>3, <2>3 DEF RingOK, Slots
    <3>2. recent'[1] = [released |-> n + 1, target |-> t]
      BY <2>4, <3>1
    <3>3. QED BY <3>1, <3>2 DEF Slots
  <2>6. RingOK(recent')
    BY <1>3, <2>4, <2>5 DEF RingOK
  <2>7. \A n \in Ring : recent'[n].target = recent[n].target
    BY <2>4, <2>5
  <2>8. \A k \in Ring : Rel(recent', k) = Rel(recent, k) + 1
    <3>1. \A q : RingOK(q) /\ q[1].released = recent[1].released + 1
                   /\ (\A n \in Ring \ {1} : q[n].released = recent[n].released)
                 => \A k \in Ring : Rel(q, k) = Rel(recent, k) + 1
      BY <1>3, RelMore
    <3>2. QED BY <2>4, <2>5, <2>6, <3>1
  <2>9. ASSUME NEW k \in Ring, NEW T \in Nat, Topped(recent', k, T)
        PROVE  Within(Rel(recent', k), pacer'.tokens, pacer'.sinceRefill, T * Unit, k)
    <3>1. Topped(recent, k, T)
      BY <2>7, <2>9, RingParts DEF Topped
    <3>2. Within(Rel(recent, k) + 1, p.tokens - Delivery, 0, T * Unit, k)
      BY <1>5, <1>7, <3>1
    <3>3. QED BY <2>2, <2>8, <3>2, Zenon
  <2>10. Bursts(recent', pacer')
    BY <2>9 DEF Bursts
  <2>11. QED BY <1>3, <2>2, <2>5, <2>6, <2>10 DEF BurstInv
<1>8. QED BY <1>1, <1>6, <1>7

LEMMA ClockBursts ==
  ASSUME IInv, BurstInv, Clock
  PROVE  BurstInv'
<1>1. /\ pacer' = [pacer EXCEPT !.sinceTick = Later(@, Unit), !.sinceRefill = Later(@, PerSecond),
                     !.sinceHalved = Later(@, PerSecond)]
      /\ recent' = <<[released |-> 0, target |-> pacer.target]>> \o Front(recent)
  BY DEF Clock
<1>2. /\ pacer \in Pacers /\ InRange(pacer) /\ RingOK(recent) /\ Bursts(recent, pacer)
  BY DEF IInv, Types, BurstInv
<1>3. /\ pacer' \in Pacers /\ pacer'.target = pacer.target /\ pacer'.tokens = pacer.tokens
      /\ pacer'.sinceRefill = IF pacer.sinceRefill < PerSecond THEN pacer.sinceRefill + 1
                                                               ELSE PerSecond
  BY <1>1, <1>2, PacerAged
<1>4. /\ pacer.tokens \in Nat /\ pacer.sinceRefill \in Nat /\ pacer.target \in Nat \ {0}
      /\ pacer'.sinceRefill \in Nat /\ pacer'.sinceRefill <= pacer.sinceRefill + 1
  BY <1>2, <1>3, Units DEF Pacers
<1> DEFINE new == [released |-> 0, target |-> pacer.target]
<1>5. new \in Slots /\ new.released = 0 /\ new.target = pacer.target
  BY <1>4 DEF Slots
<1>6. recent' = <<new>> \o Front(recent)
  BY <1>1
<1> HIDE DEF new
<1>7. /\ RingOK(recent') /\ recent'[1] = new
      /\ \A n \in Ring \ {1} : recent'[n] = recent[n - 1]
  <2>1. recent' = Turned(recent, new)
    BY <1>6, Zenon DEF Turned
  <2>2. QED BY <1>2, <1>5, <2>1, RingTurns
<1>8. \A k \in Ring : Rel(recent', k) = Rel(recent, k - 1)
  <2>1. \A q : RingOK(q) /\ q[1].released = 0 /\ (\A n \in Ring \ {1} : q[n] = recent[n - 1])
               => \A k \in Ring : Rel(q, k) = Rel(recent, k - 1)
    BY <1>2, RelShift
  <2>2. QED BY <1>5, <1>7, <2>1
<1>9. ASSUME NEW k \in Ring, NEW T \in Nat, Topped(recent', k, T)
      PROVE  Within(Rel(recent', k), pacer'.tokens, pacer'.sinceRefill, T * Unit, k)
  <2> DEFINE most == T * Unit
  <2>1. most \in Nat /\ k \in Nat \ {0} /\ Rel(recent', k) = Rel(recent, k - 1)
    BY <1>8, Units, Products, RingParts
  <2>2. CASE k = 1
    <3>1. Rel(recent', k) = 0
      BY <1>2, <2>1, <2>2, RelIs, Units
    <3>2. PerSecond * most \in Nat /\ (1 - 1) * most = 0 /\ 0 * Delivery = 0
      BY <2>1, Units, Products
    <3>3. 0 * Delivery + PerSecond * most <= PerSecond * most + (1 - 1) * most
      BY <3>2
    <3>4. QED BY <2>2, <3>1, <3>3, Zenon DEF Within
  <2>3. CASE k # 1
    <3> DEFINE j == k - 1
    <3>1. /\ j \in Ring /\ j \in Nat \ {0} /\ k = j + 1 /\ j \in 0..(PerSecond + 1)
          /\ \A n \in 1..j : n + 1 \in 1..k /\ n + 1 \in Ring \ {1} /\ (n + 1) - 1 = n
      BY <2>1, <2>3, Units DEF Ring
    <3> HIDE DEF j
    <3>2. Topped(recent, j, T)
      BY <1>7, <1>9, <3>1 DEF Topped
    <3>3. Within(Rel(recent, j), pacer.tokens, pacer.sinceRefill, most, j)
      BY <1>2, <3>1, <3>2 DEF Bursts
    <3>4. Rel(recent, j) \in Nat
      BY <1>2, <3>1, RelIs
    <3> HIDE DEF most
    <3>5. Within(Rel(recent, j), pacer.tokens, pacer'.sinceRefill, most, j + 1)
      BY <1>4, <2>1, <3>1, <3>3, <3>4, LaterWithin
    <3>6. Rel(recent', k) = Rel(recent, j)
      BY <2>1 DEF j
    <3>7. QED BY <1>3, <3>1, <3>5, <3>6, Zenon DEF most
  <2>4. QED BY <2>2, <2>3
<1>10. Bursts(recent', pacer')
  BY <1>9 DEF Bursts
<1>11. QED BY <1>3, <1>4, <1>5, <1>7, <1>10 DEF BurstInv

LEMMA InitBursts == Init => BurstInv
<1> SUFFICES ASSUME Init PROVE BurstInv
  OBVIOUS
<1>1. /\ recent = [n \in Ring |-> [released |-> 0, target |-> Start]]
      /\ pacer.target = Start /\ Start \in Nat \ {0}
      /\ pacer.tokens = Start * Delivery /\ pacer.sinceRefill = 0
  BY PacingAssumption DEF Init, Ring
<1>2. [released |-> 0, target |-> Start] \in Slots
  BY <1>1 DEF Slots
<1>3. RingOK(recent) /\ pacer.target <= recent[1].target
  BY <1>1, <1>2, RingParts DEF RingOK
(* Nothing was released, so the sums are nothing.                           *)
<1>4. \A k \in Ring : Rel(recent, k) = 0
  <2> DEFINE Bad == {k \in Ring : Rel(recent, k) # 0}
  <2>1. SUFFICES ASSUME Bad # {} PROVE FALSE
    OBVIOUS
  <2>2. Bad \subseteq Nat
    BY Units DEF Ring
  <2>3. PICK k \in Bad : k \in Nat /\ \A m \in Nat : m < k => m \notin Bad
    <3> HIDE DEF Bad
    <3>1. QED BY <2>1, <2>2, LeastOf
  <2>4. k \in Ring /\ k \in 0..(PerSecond + 1) /\ k > 0 /\ Rel(recent, k) # 0
    BY <2>3, RingParts
  <2>5. Rel(recent, k) = recent[k].released + Rel(recent, k - 1)
    BY <1>3, <2>4, RelIs
  <2>6. recent[k].released = 0
    BY <1>1, <2>4
  <2>7. Rel(recent, k - 1) # 0
    BY <2>4, <2>5, <2>6
  <2>8. k # 1
    BY <1>3, <2>7, RelIs, Units
  <2>9. k - 1 \in Ring /\ k - 1 \in Nat /\ k - 1 < k
    BY <2>3, <2>4, <2>8, Units DEF Ring
  <2>10. k - 1 \notin Bad
    <3> HIDE DEF Bad
    <3>1. QED BY <2>3, <2>9
  <2>11. QED BY <2>7, <2>9, <2>10
<1>5. ASSUME NEW k \in Ring, NEW T \in Nat, Topped(recent, k, T)
      PROVE  Within(Rel(recent, k), pacer.tokens, pacer.sinceRefill, T * Unit, k)
  <2> DEFINE most == T * Unit
             z == (k - 1) * most
             y == PerSecond * most
  <2>1. most \in Nat /\ k - 1 \in Nat
    BY Units, Products, RingParts
  <2>2. z \in Nat /\ y \in Nat
    BY <2>1, Units, Products
  <2> HIDE DEF z, y
  <2>3. 0 * Delivery = 0 /\ 0 * Delivery + y <= y + z
    BY <2>2, Units
  <2>4. 0 * Delivery + PerSecond * most <= PerSecond * most + (k - 1) * most
    BY <2>3 DEF z, y
  <2>5. Rel(recent, k) = 0
    BY <1>4
  <2> HIDE DEF most
  <2>6. Within(Rel(recent, k), pacer.tokens, pacer.sinceRefill, most, k)
    BY <2>4, <2>5, Zenon DEF Within
  <2>7. QED BY <2>6 DEF most
<1>6. QED BY <1>3, <1>5 DEF BurstInv, Bursts

LEMMA StepBursts == IInv /\ BurstInv /\ [Next]_vars => BurstInv'
<1> SUFFICES ASSUME IInv, BurstInv, [Next]_vars PROVE BurstInv'
  OBVIOUS
<1>1. pacer \in Pacers /\ InRange(pacer)
  BY DEF IInv, Types
<1>2. CASE pacer' \in {pacer, Recovered(pacer), Halved(pacer)} /\ recent' = recent
  <2>1. /\ pacer' \in Pacers
        /\ \A f \in {"target", "tokens", "sinceRefill"} : pacer'[f] = pacer[f]
    BY <1>1, <1>2, RecoveredIs, HalvedIs
  <2>2. QED BY <1>2, <2>1, SteadyKeeps
<1>3. CASE Drive
  <2>1. Chunk \/ Woken \/ CapacityBack => pacer' = pacer /\ recent' = recent
    BY DEF Chunk, Woken, CapacityBack
  <2>2. Rest \/ LooksSaturated \/ ReserveSlot
          => pacer' \in {pacer, Recovered(pacer), Halved(pacer)} /\ recent' = recent
    BY DEF Rest, LooksSaturated, ReserveSlot
  <2>3. QED BY <1>2, <1>3, <2>1, <2>2, TickBursts, TakeBursts DEF Drive
<1>4. CASE User \/ Complete \/ RetriesDue \/ UNCHANGED vars
  <2>1. pacer' = pacer /\ recent' = recent
    BY <1>4 DEF User, SetTargetTps, Complete, RetriesDue, vars
  <2>2. QED BY <1>2, <2>1
<1>5. CASE Clock
  BY <1>5, ClockBursts
<1>6. QED BY <1>3, <1>4, <1>5 DEF Next

(* The pacer's account of the last second: what it released and what it     *)
(* could release now never exceed a second of burst and the time that       *)
(* passed, at any rate the targets kept to.                                 *)
THEOREM BurstInvariant == Spec => [](IInv /\ BurstInv)
<1>1. Init => IInv /\ BurstInv
  BY InitHolds, InitBursts
<1>2. (IInv /\ BurstInv) /\ [Next]_vars => (IInv /\ BurstInv)'
  BY StepKeeps, StepBursts
<1>3. QED BY <1>1, <1>2, PTL DEF Spec

(* No second sees more new publishes than twice its highest target, however *)
(* the user changes the rate and however long the stream was held up        *)
(* (AimdPacer.take, token-bucket.ts).                                       *)
THEOREM BurstsAreBounded == Spec => []BurstBounded
<1>1. IInv /\ BurstInv => BurstBounded
  <2> SUFFICES ASSUME IInv, BurstInv PROVE BurstBounded
    OBVIOUS
  <2> DEFINE top == Max({recent[n].target : n \in DOMAIN recent})
             sum == Rel(recent, PerSecond + 1)
             most == top * Unit
             y == PerSecond * most
             z == ((PerSecond + 1) - 1) * most
             w == pacer.sinceRefill * most
  <2>1. RingOK(recent) /\ Bursts(recent, pacer)
    BY DEF BurstInv
  <2>2. top \in Nat /\ \A n \in Ring : recent[n].target <= top
    BY <2>1, HighestIs
  <2>3. BurstBounded <=> sum <= 2 * top
    <3>1. DOMAIN recent = 1..(PerSecond + 1)
      BY <2>1 DEF RingOK, Ring
    <3>2. MapThenSumSet(LAMBDA n : recent[n].released, DOMAIN recent) = sum
      BY <3>1, Zenon DEF Rel, SumOver
    <3>3. QED BY <3>2, Zenon DEF BurstBounded
  <2> HIDE DEF top
  <2>4. Within(sum, pacer.tokens, pacer.sinceRefill, most, PerSecond + 1)
    <3>1. PerSecond + 1 \in Ring /\ Topped(recent, PerSecond + 1, top)
      BY <2>2, RingParts DEF Topped, Ring
    <3>2. QED BY <2>1, <2>2, <3>1 DEF Bursts
  <2>5. sum \in Nat /\ pacer.tokens \in Nat /\ pacer.sinceRefill \in Nat
    <3>1. PerSecond + 1 \in 0..(PerSecond + 1)
      BY Units
    <3>2. pacer.tokens \in Nat /\ pacer.sinceRefill \in Nat
      BY Units DEF IInv, Types, Pacers
    <3>3. QED BY <2>1, <3>1, <3>2, RelIs
  <2>6. most \in Nat /\ top * Delivery \in Nat
    BY <2>2, Units, Products
  <2>7. y = top * Delivery
    <3>1. \A a, b, c \in Nat : a * (b * c) = b * (a * c)
      OBVIOUS
    <3>2. QED BY <2>2, <3>1, Units
  <2>8. z = y /\ w \in Nat
    BY <2>5, <2>6, Units, Products
  <2>9. sum * Delivery + y <= y + z \/ sum * Delivery + pacer.tokens + w <= y + z
    BY <2>4, Zenon DEF Within
  <2> HIDE DEF sum, y, z, w
  <2>10. sum * Delivery \in Nat
    BY <2>5, Units, Products
  <2>11. sum * Delivery <= top * Delivery + top * Delivery
    BY <2>5, <2>6, <2>7, <2>8, <2>9, <2>10
  <2>12. top * Delivery + top * Delivery = (2 * top) * Delivery
    BY <2>2, Units
  <2>13. sum <= 2 * top
    <3>1. SUFFICES ASSUME ~(sum <= 2 * top) PROVE FALSE
      OBVIOUS
    <3>2. (2 * top + 1) * Delivery <= sum * Delivery
      BY <2>2, <2>5, <3>1, Units, Products
    <3>3. (2 * top + 1) * Delivery = (2 * top) * Delivery + Delivery
      BY <2>2, Units
    <3>4. (2 * top) * Delivery \in Nat
      BY <2>2, Units, Products
    <3>5. QED BY <2>10, <2>11, <2>12, <3>2, <3>3, <3>4, Units
  <2>14. QED BY <2>3, <2>13
<1>2. QED BY <1>1, BurstInvariant, PTL

=============================================================================
