------------------------- MODULE DeliveryPump_proofs -------------------------
(***************************************************************************)
(* The delivery loop's inductive invariant: the counters inFlight and      *)
(* pending always equal what they count, the window is never exceeded and  *)
(* no slot is left free while somebody waits, for every set of deliveries, *)
(* window, attempt limit and breaker threshold.  From it: every step is    *)
(* one of DeliveryContract or changes nothing that a caller can see, and   *)
(* a drain() that resolves on a running pump means that every delivery     *)
(* was acknowledged or labelled.                                           *)
(*                                                                         *)
(* And the sinks it delivers through: a test of a connection leaves none   *)
(* open, for any attempts, connections and faults.  The two components     *)
(* share no definition.                                                    *)
(***************************************************************************)
EXTENDS DeliveryPump, Sinks, FiniteSetTheorems, TLAPS

(* Accounting and WindowUsed are not inductive alone: that dispatch serves  *)
(* as many deliveries as it counts needs the queues free of repetitions and *)
(* in step with the status of each delivery.                                *)
IInv == TypeOK /\ QueuesMatch /\ Accounting /\ WindowUsed

-----------------------------------------------------------------------------
(* What the pieces of dispatch() return.                                    *)

(* A prefix of a queue without repetitions has as many members as its       *)
(* length, and what is left of the queue holds the others.                  *)
SplitAt(s, k, served, rest) ==
  /\ Len(served) = k
  /\ IsFiniteSet(ToSet(served)) /\ Cardinality(ToSet(served)) = k
  /\ ToSet(served) \subseteq ToSet(s)
  /\ rest \in Seq(Items) /\ Len(rest) = Len(s) - k
  /\ \A i, j \in 1..Len(rest) : rest[i] = rest[j] => i = j
  /\ ToSet(rest) = ToSet(s) \ ToSet(served)

LEMMA SplitQueue ==
  ASSUME NEW s \in Seq(Items), NEW k \in 0..Len(s),
         \A i, j \in 1..Len(s) : s[i] = s[j] => i = j
  PROVE  SplitAt(s, k, SubSeq(s, 1, k), SubSeq(s, k + 1, Len(s)))
<1> DEFINE served == SubSeq(s, 1, k)
           rest   == SubSeq(s, k + 1, Len(s))
<1>1. /\ served \in Seq(Items) /\ Len(served) = k /\ DOMAIN served = 1..k
      /\ \A i \in 1..k : served[i] = s[i]
  OBVIOUS
<1>2. /\ rest \in Seq(Items) /\ Len(rest) = Len(s) - k
      /\ DOMAIN rest = 1..(Len(s) - k)
      /\ \A i \in 1..(Len(s) - k) : rest[i] = s[k + i]
  OBVIOUS
<1>3. ToSet(served) = {s[i] : i \in 1..k}
  <2>1. ToSet(served) = {served[i] : i \in 1..k}
    BY <1>1, Zenon DEF ToSet
  <2>2. QED BY <2>1, <1>1
<1>4. ToSet(s) = {s[i] : i \in 1..Len(s)}
  <2>1. DOMAIN s = 1..Len(s)
    OBVIOUS
  <2>2. QED BY <2>1, Zenon DEF ToSet
<1>5. \A x : x \in ToSet(rest) <=> \E i \in (k + 1)..Len(s) : x = s[i]
  <2>1. \A x : x \in ToSet(rest) <=> \E i \in DOMAIN rest : x = rest[i]
    BY Zenon DEF ToSet
  <2>2. ASSUME NEW i \in (k + 1)..Len(s)
        PROVE  i - k \in DOMAIN rest /\ rest[i - k] = s[i]
    BY <1>2
  <2>3. ASSUME NEW i \in DOMAIN rest
        PROVE  k + i \in (k + 1)..Len(s) /\ rest[i] = s[k + i]
    BY <1>2
  <2>4. DOMAIN rest = 1..(Len(s) - k)
    BY <1>2
  <2>5. ASSUME NEW x, NEW i \in (k + 1)..Len(s), x = s[i]
        PROVE  \E j \in DOMAIN rest : x = rest[j]
    BY <2>2, <2>5
  <2>6. ASSUME NEW x, NEW j \in DOMAIN rest, x = rest[j]
        PROVE  \E i \in (k + 1)..Len(s) : x = s[i]
    BY <2>3, <2>6
  <2>7. QED BY <2>1, <2>5, <2>6, Zenon
<1>6. /\ IsFiniteSet(ToSet(served)) /\ Cardinality(ToSet(served)) = k
  <2>1. served \in Bijection(1..k, ToSet(served))
    <3>1. served \in [1..k -> ToSet(served)]
      <4>1. \A i \in 1..k : served[i] \in ToSet(served)
        BY <1>1, Zenon DEF ToSet
      <4>2. served = [i \in 1..k |-> s[i]]
        OBVIOUS
      <4>3. QED BY <4>1, <4>2
    <3>2. \A i, j \in 1..k : served[i] = served[j] => i = j
      BY <1>1
    <3>3. \A x \in ToSet(served) : \E i \in 1..k : served[i] = x
      BY <1>1 DEF ToSet
    <3>4. QED BY <3>1, <3>2, <3>3 DEF Bijection, Injection, Surjection, IsInjective
  <2>2. ExistsBijection(1..k, ToSet(served))
    BY <2>1 DEF ExistsBijection
  <2>3. IsFiniteSet(1..k) /\ Cardinality(1..k) = k
    BY FS_Interval
  <2>4. QED BY <2>2, <2>3, FS_Bijection
<1>7. ToSet(served) \subseteq ToSet(s)
  BY <1>3, <1>4
<1>8. \A i, j \in 1..Len(rest) : rest[i] = rest[j] => i = j
  BY <1>2
<1>9. ToSet(rest) = ToSet(s) \ ToSet(served)
  BY <1>3, <1>4, <1>5
<1>10. QED BY <1>1, <1>2, <1>6, <1>7, <1>8, <1>9 DEF SplitAt

(* A set of deliveries standing in some places is finite, and two sets of   *)
(* places that exclude each other add up.                                   *)
LEMMA PlacesCounted ==
  ASSUME NEW a, NEW P, NEW Q, P \cap Q = {}
  PROVE  /\ IsFiniteSet(In(P, a)) /\ Cardinality(In(P, a)) \in Nat
         /\ In(P \union Q, a) = In(P, a) \union In(Q, a)
         /\ Cardinality(In(P \union Q, a)) = Cardinality(In(P, a)) + Cardinality(In(Q, a))
<1>1. In(P, a) \in SUBSET Items /\ In(Q, a) \in SUBSET Items
  BY DEF In
<1>2. IsFiniteSet(In(P, a)) /\ IsFiniteSet(In(Q, a))
  BY <1>1, FS_Subset, PumpAssumption
<1>3. In(P \union Q, a) = In(P, a) \union In(Q, a) /\ In(P, a) \cap In(Q, a) = {}
  BY DEF In
<1>4. Cardinality({}) = 0 /\ Cardinality(In(P, a)) \in Nat /\ Cardinality(In(Q, a)) \in Nat
  BY <1>2, FS_EmptySet, FS_CardinalityType
<1>5. Cardinality(In(P, a) \union In(Q, a)) = Cardinality(In(P, a)) + Cardinality(In(Q, a))
                                                - Cardinality(In(P, a) \cap In(Q, a))
  BY <1>2, FS_Union, Zenon
<1>6. Cardinality(In(P, a) \cap In(Q, a)) = 0
  BY <1>3, <1>4
<1>7. Cardinality(In(P \union Q, a)) = Cardinality(In(P, a) \union In(Q, a))
  BY <1>3
<1>8. Cardinality(In(P \union Q, a)) = Cardinality(In(P, a)) + Cardinality(In(Q, a))
  BY <1>4, <1>5, <1>6, <1>7
<1>9. QED BY <1>2, <1>3, <1>4, <1>8, Zenon

-----------------------------------------------------------------------------
(* dispatch() keeps the queues, the slot count and the debt in step, and    *)
(* leaves a slot free only when both queues are empty.                      *)
LEMMA DispatchServes ==
  ASSUME NEW a \in [Items -> Places], NEW r, NEW w, NEW n \in Nat, n <= Window,
         IsQueueOf(r, "ready", a), IsQueueOf(w, "waiting", a),
         n = Cardinality(In(HoldsSlot, a))
  PROVE  LET d == Dispatched(a, r, w, n)
             r2 == Rest(r, Retried(r, n))
             w2 == Rest(w, Granted(r, w, n))
             m == SlotsAfter(r, w, n)
         IN  /\ d \in [Items -> Places]
             /\ IsQueueOf(r2, "ready", d) /\ IsQueueOf(w2, "waiting", d)
             /\ m \in Nat /\ m = Cardinality(In(HoldsSlot, d))
             /\ m <= Window /\ (m < Window => r2 = <<>> /\ w2 = <<>>)
             /\ In(Owed, d) = In(Owed, a)
             /\ \A i \in Items : \/ d[i] = a[i]
                                 \/ a[i] = "ready" /\ d[i] = "flight"
                                 \/ a[i] = "waiting" /\ d[i] = "granted"
<1> DEFINE R == Retried(r, n)
           G == Granted(r, w, n)
           k == Least(Len(r), Window - n)
           l == Least(Len(w), Window - n - Len(R))
           d == Dispatched(a, r, w, n)
           r2 == Rest(r, R)
           w2 == Rest(w, G)
<1>1. r \in Seq(Items) /\ w \in Seq(Items) /\ Window \in Nat
  BY PumpAssumption DEF IsQueueOf
<1>2. k \in 0..Len(r) /\ k <= Window - n /\ (k = Len(r) \/ k = Window - n)
  BY <1>1 DEF Least
<1>3. SplitAt(r, k, R, r2)
  <2>1. \A i, j \in 1..Len(r) : r[i] = r[j] => i = j
    BY DEF IsQueueOf
  <2>2. R = SubSeq(r, 1, k)
    BY DEF Retried
  <2>3. Len(SubSeq(r, 1, k)) = k
    BY <1>1, <1>2
  <2>4. r2 = SubSeq(r, k + 1, Len(r))
    BY <2>2, <2>3 DEF Rest
  <2> HIDE DEF R, r2, k
  <2>5. QED BY <1>1, <1>2, <2>1, <2>2, <2>4, SplitQueue
<1>4. l \in 0..Len(w) /\ k + l <= Window - n /\ (l = Len(w) \/ k + l = Window - n)
  BY <1>1, <1>2, <1>3, SMTT(30) DEF Least, SplitAt
<1>5. SplitAt(w, l, G, w2)
  <2>1. \A i, j \in 1..Len(w) : w[i] = w[j] => i = j
    BY DEF IsQueueOf
  <2>2. G = SubSeq(w, 1, l)
    BY DEF Granted
  <2>3. Len(SubSeq(w, 1, l)) = l
    BY <1>1, <1>4
  <2>4. w2 = SubSeq(w, l + 1, Len(w))
    BY <2>2, <2>3 DEF Rest
  <2> HIDE DEF G, w2, l
  <2>5. QED BY <1>1, <1>4, <2>1, <2>2, <2>4, SplitQueue
<1>6. ToSet(r) = In({"ready"}, a) /\ ToSet(w) = In({"waiting"}, a)
  BY DEF IsQueueOf
<1> HIDE DEF R, G, k, l, r2, w2
<1>7. \A i \in Items :
        /\ i \in ToSet(R) => a[i] = "ready" /\ d[i] = "flight"
        /\ i \in ToSet(G) => a[i] = "waiting" /\ d[i] = "granted"
        /\ i \notin ToSet(R) /\ i \notin ToSet(G) => d[i] = a[i]
  BY <1>3, <1>5, <1>6 DEF SplitAt, Dispatched, In, R, G
<1>8. d \in [Items -> Places]
  BY DEF Dispatched, Places, Owed, Submitting
<1>9. In({"ready"}, d) = ToSet(r2) /\ In({"waiting"}, d) = ToSet(w2)
  BY <1>3, <1>5, <1>6, <1>7 DEF SplitAt, In
<1>10. IsQueueOf(r2, "ready", d) /\ IsQueueOf(w2, "waiting", d)
  BY <1>3, <1>5, <1>9, Zenon DEF SplitAt, IsQueueOf
<1>11. In(HoldsSlot, d) = In(HoldsSlot, a) \union (ToSet(R) \union ToSet(G))
  BY <1>3, <1>5, <1>6, <1>7 DEF SplitAt, In, HoldsSlot
<1>12. Cardinality(In(HoldsSlot, d)) = n + k + l
  <2>1. ToSet(R) \cap ToSet(G) = {}
    BY <1>3, <1>5, <1>6 DEF SplitAt, In
  <2>2. In(HoldsSlot, a) \cap (ToSet(R) \union ToSet(G)) = {}
    BY <1>3, <1>5, <1>6 DEF SplitAt, In, HoldsSlot
  <2>3. Cardinality({}) = 0
    BY FS_EmptySet
  <2>4. /\ IsFiniteSet(ToSet(R) \union ToSet(G))
        /\ Cardinality(ToSet(R) \union ToSet(G)) = k + l - 0
    <3>1. /\ IsFiniteSet(ToSet(R) \union ToSet(G))
          /\ Cardinality(ToSet(R) \union ToSet(G)) =
               Cardinality(ToSet(R)) + Cardinality(ToSet(G)) - Cardinality(ToSet(R) \cap ToSet(G))
      BY <1>3, <1>5, FS_Union, Zenon DEF SplitAt
    <3>2. QED BY <3>1, <2>1, <2>3, <1>3, <1>5, Zenon DEF SplitAt
  <2>5. IsFiniteSet(In(HoldsSlot, a))
    BY PumpAssumption, FS_Subset DEF In
  <2>6. Cardinality(In(HoldsSlot, a) \union (ToSet(R) \union ToSet(G)))
          = n + Cardinality(ToSet(R) \union ToSet(G)) - 0
    <3>1. Cardinality(In(HoldsSlot, a) \union (ToSet(R) \union ToSet(G)))
          = Cardinality(In(HoldsSlot, a)) + Cardinality(ToSet(R) \union ToSet(G))
             - Cardinality(In(HoldsSlot, a) \cap (ToSet(R) \union ToSet(G)))
      BY <2>4, <2>5, FS_Union, Zenon
    <3>2. QED BY <3>1, <2>2, <2>3, Zenon
  <2>7. k \in Nat /\ l \in Nat
    BY <1>1, <1>2, <1>4
  <2>8. QED BY <1>11, <2>4, <2>6, <2>7
<1>13. SlotsAfter(r, w, n) = n + k + l
  BY <1>3, <1>5 DEF SplitAt, SlotsAfter, R, G
<1>14. n + k + l \in Nat /\ n + k + l <= Window
  BY <1>1, <1>2, <1>4
<1>15. ASSUME n + k + l < Window PROVE r2 = <<>> /\ w2 = <<>>
  <2>1. k = Len(r) /\ l = Len(w)
    BY <1>1, <1>2, <1>4, <1>15
  <2>2. QED BY <1>1, <1>3, <1>5, <2>1 DEF SplitAt
<1>16. In(Owed, d) = In(Owed, a)
  BY <1>7 DEF In, Owed, Submitting
<1>17. \A i \in Items : \/ d[i] = a[i]
                        \/ a[i] = "ready" /\ d[i] = "flight"
                        \/ a[i] = "waiting" /\ d[i] = "granted"
  BY <1>7
<1>18. QED BY <1>8, <1>10, <1>12, <1>13, <1>14, <1>15, <1>16, <1>17 DEF R, G, r2, w2

(* stop() releases every queued delivery from the debt and no other, and    *)
(* does not touch the publishes outstanding.                                *)
LEMMA StopReleases ==
  ASSUME NEW a \in [Items -> Places], NEW p \in Int, p = Cardinality(In(Owed, a))
  PROVE  /\ Halted(a) \in [Items -> Places]
         /\ In({"retry", "ready", "waiting"}, Halted(a)) = {}
         /\ IsQueueOf(<<>>, "ready", Halted(a)) /\ IsQueueOf(<<>>, "waiting", Halted(a))
         /\ In(HoldsSlot, Halted(a)) = In(HoldsSlot, a)
         /\ PendingAfterStop(a, p) = Cardinality(In(Owed, Halted(a)))
<1>1. Halted(a) \in [Items -> Places]
  BY DEF Halted, Places, Owed, Submitting, Done
<1>2. In({"retry", "ready", "waiting"}, Halted(a)) = {}
  BY DEF Halted, In
<1>3. IsQueueOf(<<>>, "ready", Halted(a)) /\ IsQueueOf(<<>>, "waiting", Halted(a))
  <2>1. ToSet(<<>>) = {}
    BY DEF ToSet
  <2>2. In({"ready"}, Halted(a)) = {} /\ In({"waiting"}, Halted(a)) = {}
    BY DEF Halted, In
  <2>3. <<>> \in Seq(Items) /\ Len(<<>>) = 0
    OBVIOUS
  <2>4. \A j, k \in 1..Len(<<>>) : <<>>[j] = <<>>[k] => j = k
    BY <2>3
  <2>5. QED BY <2>1, <2>2, <2>3, <2>4, Zenon DEF IsQueueOf
<1>4. In(HoldsSlot, Halted(a)) = In(HoldsSlot, a)
  BY DEF Halted, In, HoldsSlot
<1>5. PendingAfterStop(a, p) = Cardinality(In(Owed, Halted(a)))
  <2> DEFINE Q == {"retry", "ready"}
             P == Owed \ Q
  <2>1. In(Owed, Halted(a)) = In(P, a)
    BY DEF Halted, In, Owed, Submitting
  <2>2. P \cap Q = {} /\ P \union Q = Owed
    BY DEF Owed
  <2> HIDE DEF P, Q
  <2>3. /\ Cardinality(In(Owed, a)) = Cardinality(In(P, a)) + Cardinality(In(Q, a))
        /\ Cardinality(In(P, a)) \in Nat
    BY <2>2, PlacesCounted
  <2>4. Cardinality(In(Q, a)) \in Nat
    <3>1. Q \cap {} = {}
      OBVIOUS
    <3>2. QED BY <3>1, PlacesCounted
  <2>5. PendingAfterStop(a, p) = p - Cardinality(In(Q, a))
    BY DEF PendingAfterStop, Q
  <2>6. QED BY <2>1, <2>3, <2>4, <2>5
<1>6. QED BY <1>1, <1>2, <1>3, <1>4, <1>5

-----------------------------------------------------------------------------
(* Moving one delivery out of, into, or within a set of places.             *)
LEMMA FiniteIn == ASSUME NEW P, NEW a PROVE IsFiniteSet(In(P, a)) /\ Cardinality(In(P, a)) \in Nat
<1>1. In(P, a) \in SUBSET Items
  BY DEF In
<1>2. QED BY <1>1, PumpAssumption, FS_Subset, FS_CardinalityType

LEMMA LeavesPlaces ==
  ASSUME NEW i \in Items, NEW to, NEW P, NEW a, at \in [Items -> Places],
         a = [at EXCEPT ![i] = to], at[i] \in P, to \notin P
  PROVE  /\ Cardinality(In(P, a)) = Cardinality(In(P, at)) - 1
         /\ Cardinality(In(P, at)) > 0
<1>1. In(P, a) = In(P, at) \ {i} /\ i \in In(P, at)
  BY DEF In
<1>2. IsFiniteSet(In(P, at)) /\ Cardinality(In(P, at)) \in Nat
  BY FiniteIn
<1>3. Cardinality(In(P, at)) # 0
  BY <1>1, <1>2, FS_EmptySet
<1>4. Cardinality(In(P, a)) = Cardinality(In(P, at)) - 1
  BY <1>1, <1>2, FS_RemoveElement
<1>5. QED BY <1>2, <1>3, <1>4

LEMMA EntersPlaces ==
  ASSUME NEW i \in Items, NEW to, NEW P, NEW a, at \in [Items -> Places],
         a = [at EXCEPT ![i] = to], at[i] \notin P, to \in P
  PROVE  Cardinality(In(P, a)) = Cardinality(In(P, at)) + 1
<1>1. In(P, a) = In(P, at) \union {i} /\ i \notin In(P, at)
  BY DEF In
<1>2. QED BY <1>1, FiniteIn, FS_AddElement

(* The same of a step that moves one delivery. *)
LEMMA MoveOut ==
  ASSUME NEW i \in Items, NEW to, NEW P, at \in [Items -> Places],
         at' = [at EXCEPT ![i] = to], at[i] \in P, to \notin P
  PROVE  /\ Cardinality(In(P, at')) = Cardinality(In(P, at)) - 1
         /\ Cardinality(In(P, at)) > 0
BY LeavesPlaces, ZenonT(30)

LEMMA MoveIn ==
  ASSUME NEW i \in Items, NEW to, NEW P, at \in [Items -> Places],
         at' = [at EXCEPT ![i] = to], at[i] \notin P, to \in P
  PROVE  Cardinality(In(P, at')) = Cardinality(In(P, at)) + 1
BY EntersPlaces

LEMMA MoveWithin ==
  ASSUME NEW i \in Items, NEW to, NEW P, at \in [Items -> Places],
         at' = [at EXCEPT ![i] = to], at[i] \in P <=> to \in P
  PROVE  In(P, at') = In(P, at)
BY DEF In

(* A delivery that is in neither queue before or after leaves both alone.   *)
LEMMA QueuesUntouched ==
  ASSUME NEW i \in Items, NEW to, at \in [Items -> Places], QueuesMatch,
         at[i] \notin {"ready", "waiting"}, to \notin {"ready", "waiting"}
  PROVE  LET a == [at EXCEPT ![i] = to]
         IN  IsQueueOf(ready, "ready", a) /\ IsQueueOf(slotWaiters, "waiting", a)
<1> DEFINE a == [at EXCEPT ![i] = to]
<1>1. In({"ready"}, a) = In({"ready"}, at) /\ In({"waiting"}, a) = In({"waiting"}, at)
  BY DEF In
<1>2. QED BY <1>1 DEF QueuesMatch, IsQueueOf

-----------------------------------------------------------------------------
(* The invariant holds initially. *)
LEMMA InitIInv == Init => IInv
<1> SUFFICES ASSUME Init PROVE IInv
  OBVIOUS
<1> USE DEF Init
<1>1. TypeOK
  <2>1. ready \in Seq(Items) /\ slotWaiters \in Seq(Items)
    OBVIOUS
  <2>a. completions \in Seq(BOOLEAN)
    OBVIOUS
  <2>b. inFlight \in Nat /\ pending \in Int
    OBVIOUS
  <2>c. /\ stopped \in BOOLEAN /\ tripped \in BOOLEAN
        /\ drain \in {"none", "waiting", "resolved", "rejected"}
    OBVIOUS
  <2>2. at \in [Items -> Places] /\ attempts \in [Items -> Nat]
    BY DEF Places
  <2>3. QED BY <2>1, <2>a, <2>b, <2>c, <2>2, Zenon DEF TypeOK
<1>2. \A P : "new" \notin P => In(P, at) = {}
  BY DEF In
<1>3. QueuesMatch
  <2>1. In({"ready"}, at) = {} /\ In({"waiting"}, at) = {}
    BY <1>2
  <2>2. ToSet(<<>>) = {}
    BY DEF ToSet
  <2>3. <<>> \in Seq(Items) /\ \A j, k \in 1..Len(<<>>) : <<>>[j] = <<>>[k] => j = k
    OBVIOUS
  <2>4. IsQueueOf(<<>>, "ready", at) /\ IsQueueOf(<<>>, "waiting", at)
    BY <2>1, <2>2, <2>3, Zenon DEF IsQueueOf
  <2>5. QED BY <2>4 DEF QueuesMatch
<1>4. Accounting
  <2>1. In(HoldsSlot, at) = {} /\ In(Owed, at) = {}
    BY <1>2 DEF HoldsSlot, Owed, Submitting
  <2>2. QED BY <2>1, FS_EmptySet DEF Accounting
<1>5. WindowUsed
  BY PumpAssumption DEF WindowUsed
<1>6. QED BY <1>1, <1>3, <1>4, <1>5 DEF IInv

(* The common tail of every completion: dispatch, the breaker, idle waiters.*)
LEMMA CompletionKeepsInv ==
  ASSUME IInv, NEW a \in [Items -> Places], NEW p \in Int, NEW c \in Seq(BOOLEAN),
         IsQueueOf(ready, "ready", a), IsQueueOf(slotWaiters, "waiting", a),
         inFlight - 1 = Cardinality(In(HoldsSlot, a)), inFlight > 0,
         p = Cardinality(In(Owed, a)),
         stopped => In({"retry", "ready", "waiting"}, a) = {},
         AfterCompletion(a, p, c),
         attempts' \in [Items -> Nat]
  PROVE  IInv'
<1> DEFINE n == inFlight - 1
           d == Dispatched(a, ready, slotWaiters, n)
           r2 == Rest(ready, Retried(ready, n))
           w2 == Rest(slotWaiters, Granted(ready, slotWaiters, n))
           m == SlotsAfter(ready, slotWaiters, n)
<1>1. n \in Nat /\ n <= Window /\ n = Cardinality(In(HoldsSlot, a))
  BY PumpAssumption DEF IInv, TypeOK, WindowUsed
<1>2. /\ d \in [Items -> Places]
      /\ IsQueueOf(r2, "ready", d) /\ IsQueueOf(w2, "waiting", d)
      /\ m \in Nat /\ m = Cardinality(In(HoldsSlot, d))
      /\ m <= Window /\ (m < Window => r2 = <<>> /\ w2 = <<>>)
      /\ In(Owed, d) = In(Owed, a)
      /\ \A i \in Items : \/ d[i] = a[i]
                          \/ a[i] = "ready" /\ d[i] = "flight"
                          \/ a[i] = "waiting" /\ d[i] = "granted"
  <2> HIDE DEF n
  <2>1. QED BY <1>1, DispatchServes
<1> HIDE DEF d, r2, w2, m
<1>3. CASE ~Trips(c)
  <2>1. /\ at' = d /\ ready' = r2 /\ slotWaiters' = w2 /\ inFlight' = m
        /\ pending' = p /\ drain' = Settled(drain, p) /\ completions' = c
        /\ stopped' = stopped /\ tripped' = tripped
    BY <1>3 DEF AfterCompletion, d, r2, w2, m
  <2>2. TypeOK'
    BY <1>2, <2>1 DEF IInv, TypeOK, IsQueueOf, Settled
  <2>3. QueuesMatch'
    <3>1. stopped => In({"retry", "ready", "waiting"}, d) = {}
      BY <1>2 DEF In
    <3>2. tripped => stopped
      BY DEF IInv, QueuesMatch
    <3>3. QED BY <1>2, <2>1, <3>1, <3>2 DEF QueuesMatch, IsQueueOf, In
  <2>4. Accounting' /\ WindowUsed'
    BY <1>2, <2>1 DEF Accounting, WindowUsed, In
  <2>5. QED BY <2>2, <2>3, <2>4 DEF IInv
<1>4. CASE Trips(c)
  <2>1. /\ at' = Halted(d) /\ ready' = <<>> /\ slotWaiters' = <<>> /\ inFlight' = m
        /\ pending' = PendingAfterStop(d, p) /\ completions' = c
        /\ drain' = Rejected(Settled(drain, PendingAfterStop(d, p)))
        /\ stopped' = TRUE /\ tripped' = TRUE
    BY <1>4 DEF AfterCompletion, d, m
  <2>2. /\ Halted(d) \in [Items -> Places]
        /\ In({"retry", "ready", "waiting"}, Halted(d)) = {}
        /\ IsQueueOf(<<>>, "ready", Halted(d)) /\ IsQueueOf(<<>>, "waiting", Halted(d))
        /\ In(HoldsSlot, Halted(d)) = In(HoldsSlot, d)
        /\ PendingAfterStop(d, p) = Cardinality(In(Owed, Halted(d)))
    BY <1>2, StopReleases
  <2>3. PendingAfterStop(d, p) \in Int
    <3>1. Owed \cap {} = {}
      OBVIOUS
    <3>2. Cardinality(In(Owed, Halted(d))) \in Nat
      BY <3>1, PlacesCounted
    <3>3. QED BY <2>2, <3>2
  <2>4. TypeOK'
    BY <1>2, <2>1, <2>2, <2>3 DEF IInv, TypeOK, Settled, Rejected
  <2>5. QueuesMatch'
    BY <2>1, <2>2 DEF QueuesMatch, IsQueueOf, In
  <2>6. Accounting' /\ WindowUsed'
    BY <1>2, <2>1, <2>2 DEF Accounting, WindowUsed, In
  <2>7. QED BY <2>4, <2>5, <2>6 DEF IInv
<1>5. QED BY <1>3, <1>4

-----------------------------------------------------------------------------
(* One lemma for each action. *)

LEMMA SubmitKeepsInv == ASSUME IInv, NEW i \in Items, Submit(i) PROVE IInv'
<1>1. at \in [Items -> Places] /\ pending \in Int
  BY DEF IInv, TypeOK
<1>2. PICK to \in {"rejected", "pacing"} :
        /\ at[i] = "new" /\ at' = [at EXCEPT ![i] = to]
        /\ pending' = IF to = "pacing" THEN pending + 1 ELSE pending
  BY DEF Submit
<1>3. UNCHANGED <<attempts, ready, slotWaiters, inFlight, completions, stopped, tripped, drain>>
  BY DEF Submit
<1>4. TypeOK'
  BY <1>1, <1>2, <1>3 DEF IInv, TypeOK, Places, Owed, Submitting, Done
<1>5. QueuesMatch'
  <2>1. IsQueueOf(ready, "ready", at') /\ IsQueueOf(slotWaiters, "waiting", at')
    BY <1>1, <1>2, QueuesUntouched DEF IInv
  <2>2. stopped => In({"retry", "ready", "waiting"}, at') = {}
    BY <1>1, <1>2 DEF IInv, QueuesMatch, In
  <2>3. QED BY <1>3, <2>1, <2>2 DEF IInv, QueuesMatch, IsQueueOf, In
<1>6. Accounting'
  <2>1. In(HoldsSlot, at') = In(HoldsSlot, at)
    BY <1>1, <1>2 DEF In, HoldsSlot
  <2>2. Cardinality(In(Owed, at')) = IF to = "pacing" THEN Cardinality(In(Owed, at)) + 1
                                     ELSE Cardinality(In(Owed, at))
    <3>1. "new" \notin Owed /\ "pacing" \in Owed /\ "rejected" \notin Owed
      BY DEF Owed, Submitting
    <3>2. QED BY <1>1, <1>2, <3>1, MoveOut, MoveIn, MoveWithin
  <2>3. QED BY <1>2, <1>3, <2>1, <2>2 DEF IInv, Accounting, In
<1>7. WindowUsed'
  BY <1>3 DEF IInv, WindowUsed
<1>8. QED BY <1>4, <1>5, <1>6, <1>7 DEF IInv

LEMMA ReserveKeepsInv == ASSUME IInv, NEW i \in Items, Reserve(i) PROVE IInv'
<1>1. /\ at \in [Items -> Places] /\ inFlight \in Nat
      /\ at[i] \in {"pacing", "capacity"}
  BY DEF IInv, TypeOK, Reserve, AwaitCapacity, TakeSlot, AwaitSlot, NoSlot
<1>2. CASE TakeSlot(i)
  <2> USE <1>2 DEF TakeSlot
  <2>1. TypeOK'
    BY <1>1 DEF IInv, TypeOK, Places, Owed, Submitting
  <2>2. QueuesMatch'
    <3>1. IsQueueOf(ready, "ready", at') /\ IsQueueOf(slotWaiters, "waiting", at')
      BY <1>1, QueuesUntouched DEF IInv
    <3>2. QED BY <3>1 DEF IInv, QueuesMatch, IsQueueOf, In
  <2>3. Accounting'
    <3>1. at[i] \notin HoldsSlot /\ "granted" \in HoldsSlot
          /\ {"pacing", "capacity"} \subseteq Owed /\ "granted" \in Owed
      BY <1>1 DEF HoldsSlot, Owed, Submitting
    <3>2. Cardinality(In(HoldsSlot, at')) = Cardinality(In(HoldsSlot, at)) + 1
          /\ In(Owed, at') = In(Owed, at)
      BY <1>1, <3>1, MoveOut, MoveIn, MoveWithin
    <3>3. QED BY <3>2 DEF IInv, Accounting, In
  <2>4. WindowUsed'
    BY <1>1, PumpAssumption DEF IInv, WindowUsed, QueuesMatch
  <2>5. QED BY <2>1, <2>2, <2>3, <2>4 DEF IInv
<1>3. CASE AwaitSlot(i)
  <2> USE <1>3 DEF AwaitSlot
  <2>1. TypeOK'
    BY <1>1 DEF IInv, TypeOK, Places, Owed, Submitting
  <2>2. i \notin ToSet(slotWaiters) /\ slotWaiters \in Seq(Items)
    BY <1>1 DEF IInv, QueuesMatch, IsQueueOf, In
  <2>3. IsQueueOf(slotWaiters', "waiting", at')
    <3>1. \A j \in 1..Len(slotWaiters) : slotWaiters[j] # i
      BY <2>2 DEF ToSet
    <3>2. /\ slotWaiters' \in Seq(Items) /\ Len(slotWaiters') = Len(slotWaiters) + 1
          /\ \A j \in 1..Len(slotWaiters) : slotWaiters'[j] = slotWaiters[j]
          /\ slotWaiters'[Len(slotWaiters) + 1] = i
      BY <2>2
    <3>3. \A j, k \in 1..Len(slotWaiters) : slotWaiters[j] = slotWaiters[k] => j = k
      BY DEF IInv, QueuesMatch, IsQueueOf
    <3>4. \A j, k \in 1..Len(slotWaiters') : slotWaiters'[j] = slotWaiters'[k] => j = k
      BY <2>2, <3>1, <3>2, <3>3
    <3>5. ToSet(slotWaiters') = ToSet(slotWaiters) \union {i}
      <4>1. /\ DOMAIN slotWaiters' = 1..(Len(slotWaiters) + 1)
            /\ DOMAIN slotWaiters = 1..Len(slotWaiters)
            /\ Len(slotWaiters) \in Nat
        BY <2>2, <3>2
      <4>2. QED BY <3>2, <4>1 DEF ToSet
    <3>6. In({"waiting"}, at') = In({"waiting"}, at) \union {i}
      BY <1>1 DEF In
    <3>7. ToSet(slotWaiters) = In({"waiting"}, at)
      BY DEF IInv, QueuesMatch, IsQueueOf
    <3>8. QED BY <3>2, <3>4, <3>5, <3>6, <3>7 DEF IsQueueOf
  <2>4. QueuesMatch'
    <3>1. In({"ready"}, at') = In({"ready"}, at)
      BY <1>1 DEF In
    <3>2. QED BY <2>3, <3>1 DEF IInv, QueuesMatch, IsQueueOf, In
  <2>5. Accounting'
    <3>1. at[i] \notin HoldsSlot /\ "waiting" \notin HoldsSlot
          /\ {"pacing", "capacity"} \subseteq Owed /\ "waiting" \in Owed
      BY <1>1 DEF HoldsSlot, Owed, Submitting
    <3>2. In(HoldsSlot, at') = In(HoldsSlot, at) /\ In(Owed, at') = In(Owed, at)
      BY <1>1, <3>1, MoveOut, MoveIn, MoveWithin
    <3>3. QED BY <3>2 DEF IInv, Accounting, In
  <2>6. WindowUsed'
    BY <1>1, PumpAssumption DEF IInv, WindowUsed
  <2>7. QED BY <2>1, <2>4, <2>5, <2>6 DEF IInv
<1>4. CASE NoSlot(i)
  <2> USE <1>4 DEF NoSlot
  <2>1. TypeOK'
    BY <1>1 DEF IInv, TypeOK, Places, Owed, Submitting
  <2>2. QueuesMatch'
    <3>1. IsQueueOf(ready, "ready", at') /\ IsQueueOf(slotWaiters, "waiting", at')
      BY <1>1, QueuesUntouched DEF IInv
    <3>2. In({"retry", "ready", "waiting"}, at') = {}
      BY <1>1 DEF IInv, QueuesMatch, In
    <3>3. QED BY <3>1, <3>2 DEF IInv, QueuesMatch, IsQueueOf, In
  <2>3. Accounting'
    <3>1. at[i] \notin HoldsSlot /\ "refused" \notin HoldsSlot
          /\ {"pacing", "capacity"} \subseteq Owed /\ "refused" \in Owed
      BY <1>1 DEF HoldsSlot, Owed, Submitting
    <3>2. In(HoldsSlot, at') = In(HoldsSlot, at) /\ In(Owed, at') = In(Owed, at)
      BY <1>1, <3>1, MoveOut, MoveIn, MoveWithin
    <3>3. QED BY <3>2 DEF IInv, Accounting, In
  <2>4. QED BY <2>1, <2>2, <2>3 DEF IInv, WindowUsed
<1>5. CASE AwaitCapacity(i)
  <2> USE <1>5 DEF AwaitCapacity
  <2>1. TypeOK'
    BY <1>1 DEF IInv, TypeOK, Places, Owed, Submitting
  <2>2. QueuesMatch'
    <3>1. IsQueueOf(ready, "ready", at') /\ IsQueueOf(slotWaiters, "waiting", at')
      BY <1>1, QueuesUntouched DEF IInv
    <3>2. In({"retry", "ready", "waiting"}, at') = In({"retry", "ready", "waiting"}, at)
      BY <1>1 DEF In
    <3>3. QED BY <3>1, <3>2 DEF IInv, QueuesMatch, IsQueueOf
  <2>3. Accounting'
    <3>1. {"pacing", "capacity"} \subseteq Owed /\ "capacity" \notin HoldsSlot
          /\ at[i] \notin HoldsSlot
      BY <1>1 DEF HoldsSlot, Owed, Submitting
    <3>2. In(HoldsSlot, at') = In(HoldsSlot, at) /\ In(Owed, at') = In(Owed, at)
      BY <1>1, <3>1, MoveOut, MoveIn, MoveWithin
    <3>3. QED BY <3>2 DEF IInv, Accounting, In
  <2>4. QED BY <2>1, <2>2, <2>3 DEF IInv, WindowUsed
<1>6. QED BY <1>2, <1>3, <1>4, <1>5 DEF Reserve

LEMMA ResumeKeepsInv == ASSUME IInv, NEW i \in Items, Resume(i) PROVE IInv'
<1>1. at \in [Items -> Places] /\ pending \in Int /\ at[i] \in {"granted", "refused"}
  BY DEF IInv, TypeOK, Resume, Launch, Refuse
<1>2. PICK to \in {"flight", "rejected"} :
        /\ at' = [at EXCEPT ![i] = to]
        /\ to = "flight" => at[i] = "granted" /\ pending' = pending
        /\ to = "rejected" => at[i] = "refused" /\ pending' = pending - 1
  BY DEF Resume, Launch, Refuse
<1>3. UNCHANGED <<attempts, ready, slotWaiters, inFlight, completions, stopped, tripped, drain>>
  BY DEF Resume, Launch, Refuse
<1>4. TypeOK'
  BY <1>1, <1>2, <1>3 DEF IInv, TypeOK, Places, Owed, Done
<1>5. QueuesMatch'
  <2>1. IsQueueOf(ready, "ready", at') /\ IsQueueOf(slotWaiters, "waiting", at')
    BY <1>1, <1>2, QueuesUntouched DEF IInv
  <2>2. stopped => In({"retry", "ready", "waiting"}, at') = {}
    BY <1>1, <1>2 DEF IInv, QueuesMatch, In
  <2>3. QED BY <1>3, <2>1, <2>2 DEF IInv, QueuesMatch, IsQueueOf, In
<1>6. Accounting'
  <2>1. /\ "granted" \in HoldsSlot /\ "flight" \in HoldsSlot
        /\ "refused" \notin HoldsSlot /\ "rejected" \notin HoldsSlot
        /\ "granted" \in Owed /\ "flight" \in Owed
        /\ "refused" \in Owed /\ "rejected" \notin Owed
    BY DEF HoldsSlot, Owed, Submitting
  <2>2. In(HoldsSlot, at') = In(HoldsSlot, at)
    BY <1>1, <1>2, <2>1, MoveOut, MoveIn, MoveWithin
  <2>3. Cardinality(In(Owed, at')) = IF to = "rejected" THEN Cardinality(In(Owed, at)) - 1
                                     ELSE Cardinality(In(Owed, at))
    BY <1>1, <1>2, <2>1, MoveOut, MoveIn, MoveWithin
  <2>4. QED BY <1>2, <1>3, <2>2, <2>3 DEF IInv, Accounting, In
<1>7. QED BY <1>3, <1>4, <1>5, <1>6 DEF IInv, WindowUsed

LEMMA LabelledKeepsInv == ASSUME IInv, NEW i \in Items, Labelled(i) PROVE IInv'
<1> USE DEF Labelled
<1>1. at \in [Items -> Places] /\ pending \in Int
  BY DEF IInv, TypeOK
<1>2. TypeOK'
  BY <1>1 DEF IInv, TypeOK, Places, Done, Settled
<1>3. QueuesMatch'
  <2>1. IsQueueOf(ready, "ready", at') /\ IsQueueOf(slotWaiters, "waiting", at')
    BY <1>1, QueuesUntouched DEF IInv
  <2>2. stopped => In({"retry", "ready", "waiting"}, at') = {}
    BY <1>1 DEF IInv, QueuesMatch, In
  <2>3. QED BY <2>1, <2>2 DEF IInv, QueuesMatch, IsQueueOf, In
<1>4. Accounting'
  <2>1. /\ "labelling" \notin HoldsSlot /\ "dropped" \notin HoldsSlot
        /\ "labelling" \in Owed /\ "dropped" \notin Owed
    BY DEF HoldsSlot, Owed, Submitting
  <2>2. In(HoldsSlot, at') = In(HoldsSlot, at)
        /\ Cardinality(In(Owed, at')) = Cardinality(In(Owed, at)) - 1
    BY <1>1, <2>1, MoveOut, MoveIn, MoveWithin
  <2>3. QED BY <2>2 DEF IInv, Accounting, In
<1>5. QED BY <1>2, <1>3, <1>4 DEF IInv, WindowUsed

(* Whatever a publish resolves to, complete() keeps the invariant. *)
LEMMA CompleteKeepsInv == ASSUME IInv, NEW i \in Items, Complete(i) PROVE IInv'
<1>1. /\ at \in [Items -> Places] /\ pending \in Int /\ inFlight \in Nat
      /\ completions \in Seq(BOOLEAN) /\ at[i] = "flight"
  BY DEF IInv, TypeOK, Complete, CompleteOk, CompleteRetry, CompleteAbandoned,
         CompleteDropped
<1>a. attempts' \in [Items -> Nat]
  <2>1. attempts \in [Items -> Nat] /\ attempts' = [attempts EXCEPT ![i] = @ + 1]
    BY DEF IInv, TypeOK, Complete, CompleteOk, CompleteRetry, CompleteAbandoned,
           CompleteDropped, Tried
  <2>2. QED BY <2>1
<1>2. ASSUME NEW ok \in BOOLEAN, NEW c \in Recorded(ok)
      PROVE  c \in Seq(BOOLEAN)
  <2>1. PICK aged \in 0..Len(completions) :
          c = Append(SubSeq(completions, aged + 1, Len(completions)), ok)
    BY <1>2 DEF Recorded
  <2>2. SubSeq(completions, aged + 1, Len(completions)) \in Seq(BOOLEAN)
    BY <1>1
  <2>3. QED BY <2>1, <2>2
<1>3. ASSUME NEW to \in {"delivered", "abandoned", "labelling", "retry"},
             NEW p, NEW c \in Seq(BOOLEAN),
             p = IF to \in {"delivered", "abandoned"} THEN pending - 1 ELSE pending,
             to = "retry" => ~stopped,
             NEW a, a = [at EXCEPT ![i] = to], AfterCompletion(a, p, c)
      PROVE  IInv'
  <2>1. a \in [Items -> Places]
    BY <1>1, <1>3 DEF Places, Owed, Done
  <2>2. /\ "flight" \in HoldsSlot /\ to \notin HoldsSlot /\ "flight" \in Owed
        /\ to \in Owed <=> to \notin {"delivered", "abandoned"}
    BY DEF HoldsSlot, Owed, Submitting
  <2>3. IsQueueOf(ready, "ready", a) /\ IsQueueOf(slotWaiters, "waiting", a)
    BY <1>1, <1>3, QueuesUntouched DEF IInv
  <2>4. /\ Cardinality(In(HoldsSlot, a)) = Cardinality(In(HoldsSlot, at)) - 1
        /\ Cardinality(In(HoldsSlot, at)) > 0
    BY <1>1, <1>3, <2>2, LeavesPlaces
  <2>5. inFlight - 1 = Cardinality(In(HoldsSlot, a)) /\ inFlight > 0
    BY <2>4 DEF IInv, Accounting
  <2>6. p = Cardinality(In(Owed, a)) /\ p \in Int
    <3>1. CASE to \in {"delivered", "abandoned"}
      <4>1. at[i] \in Owed /\ to \notin Owed
        BY <1>1, <2>2, <3>1
      <4>2. Cardinality(In(Owed, a)) = Cardinality(In(Owed, at)) - 1
        BY <1>1, <1>3, <4>1, LeavesPlaces
      <4>3. QED BY <1>1, <1>3, <3>1, <4>2 DEF IInv, Accounting
    <3>2. CASE to \notin {"delivered", "abandoned"}
      <4>1. at[i] \in Owed /\ to \in Owed
        BY <1>1, <2>2, <3>2
      <4>2. In(Owed, a) = In(Owed, at)
        BY <1>1, <1>3, <4>1 DEF In
      <4>3. QED BY <1>1, <1>3, <3>2, <4>2 DEF IInv, Accounting
    <3>3. QED BY <3>1, <3>2
  <2>7. stopped => In({"retry", "ready", "waiting"}, a) = {}
    BY <1>1, <1>3 DEF IInv, QueuesMatch, In
  <2>8. QED BY <1>1, <1>a, <1>3, <2>1, <2>3, <2>5, <2>6, <2>7, CompletionKeepsInv
<1>4. CASE CompleteOk(i)
  BY <1>2, <1>3, <1>4 DEF CompleteOk
<1>5. CASE CompleteRetry(i)
  BY <1>2, <1>3, <1>5 DEF CompleteRetry
<1>6. CASE CompleteAbandoned(i)
  BY <1>1, <1>3, <1>6 DEF CompleteAbandoned
<1>7. CASE \E retryable \in BOOLEAN : CompleteDropped(i, retryable)
  BY <1>2, <1>3, <1>7 DEF CompleteDropped
<1>8. QED BY <1>4, <1>5, <1>6, <1>7 DEF Complete

LEMMA TimerKeepsInv == ASSUME IInv, TimerFires PROVE IInv'
<1>0. PICK due \in (SUBSET In({"retry"}, at)) \ {{}} : \E batch \in SetToSeqs(due) :
        LET r == ready \o batch
            a == [i \in Items |-> IF i \in due THEN "ready" ELSE at[i]]
        IN  /\ at' = Dispatched(a, r, slotWaiters, inFlight)
            /\ ready' = Rest(r, Retried(r, inFlight))
            /\ slotWaiters' = Rest(slotWaiters, Granted(r, slotWaiters, inFlight))
            /\ inFlight' = SlotsAfter(r, slotWaiters, inFlight)
            /\ UNCHANGED <<attempts, pending, completions, stopped, tripped, drain>>
  BY Zenon DEF TimerFires
<1>1. PICK batch \in SetToSeqs(due) :
        LET r == ready \o batch
            a == [i \in Items |-> IF i \in due THEN "ready" ELSE at[i]]
        IN  /\ at' = Dispatched(a, r, slotWaiters, inFlight)
            /\ ready' = Rest(r, Retried(r, inFlight))
            /\ slotWaiters' = Rest(slotWaiters, Granted(r, slotWaiters, inFlight))
            /\ inFlight' = SlotsAfter(r, slotWaiters, inFlight)
            /\ UNCHANGED <<attempts, pending, completions, stopped, tripped, drain>>
  BY <1>0, Zenon
<1> DEFINE r == ready \o batch
           a == [i \in Items |-> IF i \in due THEN "ready" ELSE at[i]]
<1>2. /\ at \in [Items -> Places] /\ inFlight \in Nat /\ inFlight <= Window
      /\ due \subseteq Items /\ (\A i \in due : at[i] = "retry") /\ due # {}
  BY <1>0 DEF IInv, TypeOK, WindowUsed, In
<1>3. a \in [Items -> Places]
  BY <1>2 DEF Places, Owed
<1>4. /\ batch \in Seq(Items) /\ ToSet(batch) = due
      /\ \A j, k \in 1..Len(batch) : batch[j] = batch[k] => j = k
  <2>1. /\ IsFiniteSet(due) /\ Cardinality(due) \in Nat
        /\ ExistsBijection(1..Cardinality(due), due)
    BY <1>2, PumpAssumption, FS_Subset, FS_CardinalityType
  <2> DEFINE n == Cardinality(due)
  <2>2. batch \in [1..n -> due] /\ \A j, k \in 1..n : j # k => batch[j] # batch[k]
    BY <1>1 DEF SetToSeqs
  <2>3. batch \in Seq(due) /\ Len(batch) = n /\ DOMAIN batch = 1..n
    BY <2>1, <2>2
  <2>4. batch \in Seq(Items)
    BY <1>2, <2>1, <2>2
  <2>5. ToSet(batch) = due
    <3>1. batch \in Injection(1..n, due)
      BY <2>2 DEF Injection, IsInjective
    <3>2. IsFiniteSet(1..n) /\ Cardinality(1..n) = n
      BY <2>1, FS_Interval
    <3>3. batch \in Surjection(1..n, due)
      BY <2>1, <3>1, <3>2, FS_Injection
    <3>4. \A x \in due : \E j \in 1..n : batch[j] = x
      BY <3>3 DEF Surjection
    <3>5. ToSet(batch) = {batch[j] : j \in 1..n}
      BY <2>3, Zenon DEF ToSet
    <3>6. QED BY <2>2, <3>4, <3>5
  <2>6. QED BY <2>2, <2>3, <2>4, <2>5
<1>5. IsQueueOf(r, "ready", a)
  <2>1. /\ ready \in Seq(Items) /\ ToSet(ready) = In({"ready"}, at)
        /\ \A j, k \in 1..Len(ready) : ready[j] = ready[k] => j = k
    BY DEF IInv, QueuesMatch, IsQueueOf
  <2>2. /\ r \in Seq(Items) /\ Len(r) = Len(ready) + Len(batch)
        /\ \A j \in 1..Len(ready) : r[j] = ready[j]
        /\ \A j \in (Len(ready) + 1)..Len(r) :
              j - Len(ready) \in 1..Len(batch) /\ r[j] = batch[j - Len(ready)]
        /\ \A j \in 1..Len(batch) :
              Len(ready) + j \in 1..Len(r) /\ r[Len(ready) + j] = batch[j]
        /\ Len(ready) \in Nat /\ Len(batch) \in Nat
    BY <1>4, <2>1
  <2>3. /\ \A j \in 1..Len(ready) : ready[j] \in ToSet(ready)
        /\ \A j \in 1..Len(batch) : batch[j] \in due
    <3>1. DOMAIN ready = 1..Len(ready) /\ DOMAIN batch = 1..Len(batch)
      BY <1>4, <2>1
    <3>2. QED BY <1>4, <3>1, Zenon DEF ToSet
  <2>4. due \cap ToSet(ready) = {}
    BY <1>2, <2>1 DEF In
  <2>5. ASSUME NEW j \in 1..Len(r), NEW k \in 1..Len(r), r[j] = r[k]
        PROVE  j = k
    <3>1. CASE j \in 1..Len(ready) /\ k \in 1..Len(ready)
      BY <2>1, <2>2, <2>5, <3>1
    <3>2. CASE j \notin 1..Len(ready) /\ k \notin 1..Len(ready)
      <4>1. j \in (Len(ready) + 1)..Len(r) /\ k \in (Len(ready) + 1)..Len(r)
        BY <2>2, <3>2
      <4>2. /\ j - Len(ready) \in 1..Len(batch) /\ k - Len(ready) \in 1..Len(batch)
            /\ batch[j - Len(ready)] = batch[k - Len(ready)]
        BY <2>2, <2>5, <4>1
      <4>2a. j - Len(ready) = k - Len(ready)
        <5> DEFINE jj == j - Len(ready)
                   kk == k - Len(ready)
        <5> HIDE DEF jj, kk
        <5>1. jj \in 1..Len(batch) /\ kk \in 1..Len(batch) /\ batch[jj] = batch[kk]
          BY <4>2 DEF jj, kk
        <5>2. jj = kk
          BY <1>4, <5>1
        <5>3. QED BY <5>2 DEF jj, kk
      <4>3. QED BY <2>2, <4>1, <4>2a
    <3>3. CASE j \in 1..Len(ready) /\ k \notin 1..Len(ready)
      <4>1. k \in (Len(ready) + 1)..Len(r)
        BY <2>2, <3>3
      <4>2. QED BY <2>2, <2>3, <2>4, <2>5, <3>3, <4>1
    <3>4. CASE j \notin 1..Len(ready) /\ k \in 1..Len(ready)
      <4>1. j \in (Len(ready) + 1)..Len(r)
        BY <2>2, <3>4
      <4>2. QED BY <2>2, <2>3, <2>4, <2>5, <3>4, <4>1
    <3>5. QED BY <3>1, <3>2, <3>3, <3>4
  <2>6. ToSet(r) = ToSet(ready) \union due
    <3>1. DOMAIN r = 1..Len(r) /\ DOMAIN ready = 1..Len(ready) /\ DOMAIN batch = 1..Len(batch)
      BY <1>4, <2>1, <2>2
    <3>2. ASSUME NEW x \in ToSet(r) PROVE x \in ToSet(ready) \union due
      <4>1. PICK j \in 1..Len(r) : x = r[j]
        BY <3>1, <3>2, Zenon DEF ToSet
      <4>2. j \in 1..Len(ready) \/ j \in (Len(ready) + 1)..Len(r)
        BY <2>2
      <4>3. QED BY <2>2, <2>3, <4>1, <4>2
    <3>3. ASSUME NEW x \in ToSet(ready) PROVE x \in ToSet(r)
      <4>1. PICK j \in 1..Len(ready) : x = ready[j]
        BY <3>1, <3>3, Zenon DEF ToSet
      <4>2. j \in 1..Len(r) /\ x = r[j]
        BY <2>2, <4>1
      <4>3. QED BY <3>1, <4>2, Zenon DEF ToSet
    <3>4. ASSUME NEW x \in due PROVE x \in ToSet(r)
      <4>1. x \in ToSet(batch)
        BY <1>4
      <4>2. PICK j \in 1..Len(batch) : x = batch[j]
        BY <3>1, <4>1, Zenon DEF ToSet
      <4>3. Len(ready) + j \in 1..Len(r) /\ x = r[Len(ready) + j]
        BY <2>2, <4>2
      <4>4. QED BY <3>1, <4>3, Zenon DEF ToSet
    <3>5. QED BY <3>2, <3>3, <3>4
  <2>7. In({"ready"}, a) = In({"ready"}, at) \union due
    BY <1>2 DEF In
  <2>8. QED BY <2>1, <2>2, <2>5, <2>6, <2>7, Zenon DEF IsQueueOf
<1>6. IsQueueOf(slotWaiters, "waiting", a)
  <2>1. In({"waiting"}, a) = In({"waiting"}, at)
    BY <1>2 DEF In
  <2>2. QED BY <2>1 DEF IInv, QueuesMatch, IsQueueOf
<1>7. /\ In(HoldsSlot, a) = In(HoldsSlot, at) /\ In(Owed, a) = In(Owed, at)
      /\ inFlight = Cardinality(In(HoldsSlot, a)) /\ pending = Cardinality(In(Owed, a))
  <2>1. In(HoldsSlot, a) = In(HoldsSlot, at) /\ In(Owed, a) = In(Owed, at)
    BY <1>2 DEF In, HoldsSlot, Owed, Submitting
  <2>2. QED BY <2>1 DEF IInv, Accounting
<1>8. ~stopped
  BY <1>2 DEF IInv, QueuesMatch, In
<1> HIDE DEF r, a
<1>9. /\ at' = Dispatched(a, r, slotWaiters, inFlight)
      /\ ready' = Rest(r, Retried(r, inFlight))
      /\ slotWaiters' = Rest(slotWaiters, Granted(r, slotWaiters, inFlight))
      /\ inFlight' = SlotsAfter(r, slotWaiters, inFlight)
      /\ UNCHANGED <<attempts, pending, completions, stopped, tripped, drain>>
  BY <1>1 DEF r, a
<1>10. /\ at' \in [Items -> Places]
       /\ IsQueueOf(ready', "ready", at') /\ IsQueueOf(slotWaiters', "waiting", at')
       /\ inFlight' \in Nat /\ inFlight' = Cardinality(In(HoldsSlot, at'))
       /\ inFlight' <= Window /\ (inFlight' < Window => ready' = <<>> /\ slotWaiters' = <<>>)
       /\ In(Owed, at') = In(Owed, a)
  BY <1>2, <1>3, <1>5, <1>6, <1>7, <1>9, DispatchServes
<1>11. TypeOK'
  BY <1>9, <1>10 DEF IInv, TypeOK, IsQueueOf
<1>12. QueuesMatch'
  BY <1>8, <1>9, <1>10 DEF IInv, QueuesMatch, IsQueueOf, In
<1>13. Accounting' /\ WindowUsed'
  BY <1>7, <1>9, <1>10 DEF Accounting, WindowUsed, In
<1>14. QED BY <1>11, <1>12, <1>13 DEF IInv

LEMMA CallerKeepsInv == ASSUME IInv, Drain \/ Stop PROVE IInv'
<1>1. CASE Drain
  <2> USE <1>1 DEF Drain
  <2>1. TypeOK'
    BY DEF IInv, TypeOK
  <2>2. QED BY <2>1 DEF IInv, QueuesMatch, IsQueueOf, Accounting, WindowUsed, In
<1>2. CASE Stop
  <2> USE <1>2 DEF Stop
  <2>1. at \in [Items -> Places] /\ pending \in Int /\ pending = Cardinality(In(Owed, at))
    BY DEF IInv, TypeOK, Accounting
  <2>2. /\ Halted(at) \in [Items -> Places]
        /\ In({"retry", "ready", "waiting"}, Halted(at)) = {}
        /\ IsQueueOf(<<>>, "ready", Halted(at)) /\ IsQueueOf(<<>>, "waiting", Halted(at))
        /\ In(HoldsSlot, Halted(at)) = In(HoldsSlot, at)
        /\ PendingAfterStop(at, pending) = Cardinality(In(Owed, Halted(at)))
    BY <2>1, StopReleases
  <2>3. PendingAfterStop(at, pending) \in Int
    BY <2>2, FiniteIn
  <2>4. TypeOK'
    BY <2>2, <2>3 DEF IInv, TypeOK, Settled
  <2>5. QueuesMatch'
    BY <2>2 DEF IInv, QueuesMatch, IsQueueOf, In
  <2>6. Accounting' /\ WindowUsed'
    BY <2>2 DEF IInv, Accounting, WindowUsed, In
  <2>7. QED BY <2>4, <2>5, <2>6 DEF IInv
<1>3. QED BY <1>1, <1>2

-----------------------------------------------------------------------------
LEMMA NextIInv == IInv /\ [Next]_vars => IInv'
<1> SUFFICES ASSUME IInv, [Next]_vars PROVE IInv'
  OBVIOUS
<1>1. ASSUME NEW i \in Items, Submit(i) PROVE IInv'
  BY <1>1, SubmitKeepsInv
<1>2. ASSUME NEW i \in Items, Reserve(i) PROVE IInv'
  BY <1>2, ReserveKeepsInv
<1>3. ASSUME NEW i \in Items, Resume(i) PROVE IInv'
  BY <1>3, ResumeKeepsInv
<1>4. ASSUME NEW i \in Items, Complete(i) PROVE IInv'
  BY <1>4, CompleteKeepsInv
<1>5. ASSUME NEW i \in Items, Labelled(i) PROVE IInv'
  BY <1>5, LabelledKeepsInv
<1>6. CASE TimerFires
  BY <1>6, TimerKeepsInv
<1>7. CASE Drain \/ Stop
  BY <1>7, CallerKeepsInv
<1>8. CASE UNCHANGED vars
  BY <1>8 DEF vars, IInv, TypeOK, QueuesMatch, IsQueueOf, Accounting, WindowUsed, In
<1>9. QED BY <1>1, <1>2, <1>3, <1>4, <1>5, <1>6, <1>7, <1>8 DEF Next

(* The invariant holds in every reachable state of the pump. *)
THEOREM InvariantHolds == Spec => []IInv
<1>1. QED BY InitIInv, NextIInv, PTL DEF Spec

(* Every variable of the pump keeps its type, whatever the interleaving.    *)
THEOREM TypeCorrect == Spec => []TypeOK
<1>1. IInv => TypeOK
  BY DEF IInv
<1>2. QED BY <1>1, InvariantHolds, PTL

(* inFlight and pending never drift from the deliveries they count: what    *)
(* drain() waits for and what the window admits are the real quantities.    *)
THEOREM CountersExact == Spec => []Accounting
<1>1. IInv => Accounting
  BY DEF IInv
<1>2. QED BY <1>1, InvariantHolds, PTL

(* The two queues hold exactly who is due or waiting, once each, and a      *)
(* stopped pump leaves nobody in them or in the retry heap.                 *)
THEOREM QueuesExact == Spec => []QueuesMatch
<1>1. IInv => QueuesMatch
  BY DEF IInv
<1>2. QED BY <1>1, InvariantHolds, PTL

(* The window is never exceeded, and a free slot means nobody is waiting.   *)
THEOREM WindowRespected == Spec => []WindowUsed
<1>1. IInv => WindowUsed
  BY DEF IInv
<1>2. QED BY <1>1, InvariantHolds, PTL


-----------------------------------------------------------------------------
(* The contract.                                                            *)

(* Until something stops the pump nothing is turned away or given up on.    *)
CleanUntilStopped == ~stopped => In({"refused", "rejected", "abandoned"}, at) = {}

IInvClean == IInv /\ CleanUntilStopped

-----------------------------------------------------------------------------
(* dispatch() moves only deliveries that are owed, and only to a slot.      *)
Moves(a, d) == \A j \in Items : d[j] = a[j] \/ (a[j] \in Owed /\ d[j] \in HoldsSlot)

LEMMA DispatchMoves ==
  ASSUME NEW a \in [Items -> Places], NEW r \in Seq(Items), NEW w \in Seq(Items),
         NEW n \in Int, n <= Window,
         ToSet(r) \subseteq In(Owed, a), ToSet(w) \subseteq In(Owed, a)
  PROVE  Moves(a, Dispatched(a, r, w, n))
<1> DEFINE R == Retried(r, n)
           G == Granted(r, w, n)
           k == Least(Len(r), Window - n)
           l == Least(Len(w), Window - n - Len(R))
<1>1. k \in 0..Len(r) /\ k <= Window - n
  BY PumpAssumption DEF Least
<1>2. R = SubSeq(r, 1, k) /\ Len(R) = k
  BY <1>1 DEF Retried
<1>3. l \in 0..Len(w)
  BY <1>1, <1>2, PumpAssumption DEF Least
<1>4. G = SubSeq(w, 1, l)
  BY <1>2 DEF Granted
<1>5. ASSUME NEW s \in Seq(Items), NEW m \in 0..Len(s)
      PROVE  ToSet(SubSeq(s, 1, m)) \subseteq ToSet(s)
  <2>1. /\ DOMAIN SubSeq(s, 1, m) = 1..m /\ DOMAIN s = 1..Len(s)
        /\ \A j \in 1..m : SubSeq(s, 1, m)[j] = s[j] /\ j \in 1..Len(s)
    OBVIOUS
  <2>2. QED BY <2>1, Zenon DEF ToSet
<1> HIDE DEF k, l
<1>6. ToSet(R) \subseteq In(Owed, a) /\ ToSet(G) \subseteq In(Owed, a)
  BY <1>1, <1>2, <1>3, <1>4, <1>5
<1> HIDE DEF R, G
<1>7. \A j \in Items : Dispatched(a, r, w, n)[j] = IF j \in ToSet(R) THEN "flight"
                                                   ELSE IF j \in ToSet(G) THEN "granted"
                                                   ELSE a[j]
  BY DEF Dispatched, R, G
<1>8. QED BY <1>6, <1>7 DEF Moves, In, HoldsSlot

(* The deliveries in a queue are owed. *)
LEMMA QueuedAreOwed ==
  ASSUME NEW s, NEW place \in {"ready", "waiting"}, NEW a, IsQueueOf(s, place, a)
  PROVE  s \in Seq(Items) /\ ToSet(s) \subseteq In(Owed, a)
BY DEF IsQueueOf, In, Owed, Submitting

(* What complete() makes of the deliveries, once its branch has put the     *)
(* completed one in its place: dispatch, then the breaker or not.           *)
LEMMA CompletionMoves ==
  ASSUME IInv, NEW i \in Items, at[i] = "flight",
         NEW to \in {"delivered", "abandoned", "labelling", "retry"},
         NEW a, a = [at EXCEPT ![i] = to], NEW p, NEW c, AfterCompletion(a, p, c)
  PROVE  \E d \in [Items -> Places] :
           /\ Moves(a, d)
           /\ \/ at' = d /\ stopped' = stopped /\ pending' = p /\ drain' = Settled(drain, p)
              \/ at' = Halted(d) /\ stopped' = TRUE /\ ~stopped
<1>1. /\ at \in [Items -> Places] /\ inFlight \in Nat /\ inFlight <= Window
      /\ QueuesMatch
  BY DEF IInv, TypeOK, WindowUsed
<1>2. IsQueueOf(ready, "ready", a) /\ IsQueueOf(slotWaiters, "waiting", a)
  BY <1>1, QueuesUntouched
<1>3. a \in [Items -> Places]
  BY <1>1 DEF Places, Owed, Done
<1> DEFINE n == inFlight - 1
           d == Dispatched(a, ready, slotWaiters, n)
<1>4. n \in Int /\ n <= Window
  BY <1>1, PumpAssumption
<1>5. Moves(a, d)
  <2> HIDE DEF n
  <2>1. QED BY <1>2, <1>3, <1>4, QueuedAreOwed, DispatchMoves
<1>6. d \in [Items -> Places]
  BY <1>3 DEF Dispatched, Places, Owed, Submitting
<1>7. \/ at' = d /\ stopped' = stopped /\ pending' = p /\ drain' = Settled(drain, p)
      \/ at' = Halted(d) /\ stopped' = TRUE /\ ~stopped
  BY DEF AfterCompletion, Trips
<1>8. QED BY <1>5, <1>6, <1>7

(* The retry timer moves nothing out of the deliveries that are owed. *)
LEMMA TimerMoves ==
  ASSUME IInv, TimerFires
  PROVE  /\ \A j \in Items : \/ at'[j] = at[j]
                             \/ at[j] \in Owed /\ at'[j] \in HoldsSlot \union {"ready"}
         /\ UNCHANGED <<stopped, pending, drain>>
<1>1. PICK due \in (SUBSET In({"retry"}, at)) \ {{}} : \E batch \in SetToSeqs(due) :
        LET r == ready \o batch
            a == [i \in Items |-> IF i \in due THEN "ready" ELSE at[i]]
        IN  /\ at' = Dispatched(a, r, slotWaiters, inFlight)
            /\ UNCHANGED <<stopped, pending, drain>>
  BY Zenon DEF TimerFires
<1>2. PICK batch \in SetToSeqs(due) :
        LET r == ready \o batch
            a == [i \in Items |-> IF i \in due THEN "ready" ELSE at[i]]
        IN  /\ at' = Dispatched(a, r, slotWaiters, inFlight)
            /\ UNCHANGED <<stopped, pending, drain>>
  BY <1>1, Zenon
<1> DEFINE r == ready \o batch
           a == [i \in Items |-> IF i \in due THEN "ready" ELSE at[i]]
<1>3. /\ at \in [Items -> Places] /\ inFlight \in Nat /\ inFlight <= Window
      /\ due \subseteq Items /\ (\A i \in due : at[i] = "retry")
      /\ IsQueueOf(ready, "ready", at) /\ IsQueueOf(slotWaiters, "waiting", at)
  BY <1>1 DEF IInv, TypeOK, WindowUsed, QueuesMatch, In
<1>4. a \in [Items -> Places]
  BY <1>3 DEF Places, Owed
<1>5. batch \in Seq(Items) /\ ToSet(batch) \subseteq due
  <2>1. IsFiniteSet(due) /\ Cardinality(due) \in Nat
    BY <1>3, PumpAssumption, FS_Subset, FS_CardinalityType
  <2>2. batch \in [1..Cardinality(due) -> due]
    BY <1>2 DEF SetToSeqs
  <2>3. batch \in Seq(Items) /\ DOMAIN batch = 1..Cardinality(due)
    BY <1>3, <2>1, <2>2
  <2>4. QED BY <2>2, <2>3, Zenon DEF ToSet
<1>6. /\ ready \in Seq(Items) /\ slotWaiters \in Seq(Items)
      /\ ToSet(ready) \subseteq In(Owed, at) /\ ToSet(slotWaiters) \subseteq In(Owed, at)
  BY <1>3, QueuedAreOwed
<1>7. In(Owed, a) = In(Owed, at)
  BY <1>3 DEF In, Owed
<1>8. r \in Seq(Items) /\ ToSet(r) \subseteq In(Owed, a)
  <2>1. r \in Seq(Items)
    BY <1>5, <1>6
  <2>2. ASSUME NEW x \in ToSet(r) PROVE x \in ToSet(ready) \/ x \in ToSet(batch)
    <3>1. DOMAIN r = 1..Len(r) /\ DOMAIN ready = 1..Len(ready) /\ DOMAIN batch = 1..Len(batch)
      BY <1>5, <1>6
    <3>2. PICK j \in 1..Len(r) : x = r[j]
      BY <2>2, <3>1, Zenon DEF ToSet
    <3>3. \/ j \in 1..Len(ready) /\ x = ready[j]
          \/ j - Len(ready) \in 1..Len(batch) /\ x = batch[j - Len(ready)]
      BY <1>5, <1>6, <3>2
    <3>4. QED BY <3>1, <3>3, Zenon DEF ToSet
  <2>3. due \subseteq In(Owed, a)
    BY <1>3, <1>7 DEF In, Owed
  <2>4. QED BY <1>5, <1>6, <1>7, <2>1, <2>2, <2>3
<1>9. at' = Dispatched(a, r, slotWaiters, inFlight) /\ UNCHANGED <<stopped, pending, drain>>
  BY <1>2
<1>10. \A j \in Items : a[j] = at[j] \/ (at[j] = "retry" /\ a[j] = "ready")
  BY <1>3
<1> HIDE DEF a, r
<1>11. inFlight \in Int
  BY <1>3
<1>12. Moves(a, at')
  BY <1>3, <1>4, <1>6, <1>7, <1>8, <1>9, <1>11, DispatchMoves
<1>13. QED BY <1>7, <1>9, <1>10, <1>12 DEF Moves, In, Owed

-----------------------------------------------------------------------------
(* What a completion is, for the two results below.                         *)
Completed(i, to) ==
  /\ at[i] = "flight"
  /\ to = "abandoned" <=> stopped /\ to # "delivered"
  /\ \E d \in [Items -> Places] :
       /\ Moves([at EXCEPT ![i] = to], d)
       /\ \/ /\ at' = d /\ stopped' = stopped
             /\ drain' = Settled(drain, pending')
          \/ at' = Halted(d) /\ stopped' = TRUE /\ ~stopped

LEMMA CompleteMoves ==
  ASSUME IInv, NEW i \in Items, Complete(i)
  PROVE  \E to \in {"delivered", "abandoned", "labelling", "retry"} : Completed(i, to)
<1> DEFINE Outcomes == {"delivered", "abandoned", "labelling", "retry"}
<1>1. at[i] = "flight"
  BY DEF Complete, CompleteOk, CompleteRetry, CompleteAbandoned, CompleteDropped
<1>2. ASSUME NEW to \in Outcomes, NEW p, NEW c,
             to = "abandoned" <=> stopped /\ to # "delivered",
             AfterCompletion([at EXCEPT ![i] = to], p, c)
      PROVE  Completed(i, to)
  <2>1. PICK d \in [Items -> Places] :
          /\ Moves([at EXCEPT ![i] = to], d)
          /\ \/ at' = d /\ stopped' = stopped /\ pending' = p /\ drain' = Settled(drain, p)
             \/ at' = Halted(d) /\ stopped' = TRUE /\ ~stopped
    BY <1>1, <1>2, CompletionMoves
  <2>2. QED BY <1>1, <1>2, <2>1 DEF Completed
<1>3. CASE CompleteOk(i)
  BY <1>2, <1>3 DEF CompleteOk
<1>4. CASE CompleteRetry(i)
  BY <1>2, <1>4 DEF CompleteRetry
<1>5. CASE CompleteAbandoned(i)
  BY <1>2, <1>5 DEF CompleteAbandoned
<1>6. CASE \E retryable \in BOOLEAN : CompleteDropped(i, retryable)
  BY <1>2, <1>6 DEF CompleteDropped
<1>7. QED BY <1>3, <1>4, <1>5, <1>6 DEF Complete

-----------------------------------------------------------------------------
(* Nothing is given up on before the pump stops.                            *)
LEMMA CleanKept == IInvClean /\ [Next]_vars => CleanUntilStopped'
<1> SUFFICES ASSUME IInvClean, [Next]_vars, ~stopped', NEW j \in Items
             PROVE  at'[j] \notin {"refused", "rejected", "abandoned"}
  BY DEF CleanUntilStopped, In
<1> DEFINE Bad == {"refused", "rejected", "abandoned"}
<1>1. at \in [Items -> Places] /\ (~stopped => at[j] \notin Bad)
  BY DEF IInvClean, IInv, TypeOK, CleanUntilStopped, In
<1>2. ASSUME NEW i \in Items, Submit(i) \/ Reserve(i) \/ Resume(i) \/ Labelled(i)
      PROVE  at'[j] \notin Bad
  <2>1. ~stopped /\ at[j] \notin Bad
    BY <1>1, <1>2 DEF Submit, Reserve, AwaitCapacity, TakeSlot, AwaitSlot, NoSlot, Resume, Launch, Refuse, Labelled
  <2>2. at[i] # "refused"
    BY <2>1 DEF IInvClean, CleanUntilStopped, In
  <2>3. QED BY <1>1, <1>2, <2>1, <2>2
            DEF Submit, Reserve, AwaitCapacity, TakeSlot, AwaitSlot, NoSlot, Resume, Launch, Refuse, Labelled
<1>3. ASSUME NEW i \in Items, Complete(i)
      PROVE  at'[j] \notin Bad
  <2>1. PICK to \in {"delivered", "abandoned", "labelling", "retry"} : Completed(i, to)
    BY <1>3, CompleteMoves DEF IInvClean
  <2>2. PICK d \in [Items -> Places] :
          Moves([at EXCEPT ![i] = to], d) /\ at' = d /\ stopped' = stopped
    BY <2>1 DEF Completed
  <2>3. to # "abandoned" /\ at[j] \notin Bad
    BY <1>1, <2>1, <2>2 DEF Completed
  <2>4. [at EXCEPT ![i] = to][j] \notin Bad
    BY <1>1, <2>3
  <2>5. QED BY <2>2, <2>4 DEF Moves, HoldsSlot
<1>4. CASE TimerFires
  <2>1. stopped' = stopped /\ (at'[j] = at[j] \/ at'[j] \in HoldsSlot \union {"ready"})
    BY <1>4, TimerMoves DEF IInvClean
  <2>2. QED BY <1>1, <2>1 DEF HoldsSlot
<1>5. CASE Drain \/ Stop
  BY <1>1, <1>5 DEF Drain, Stop
<1>6. CASE UNCHANGED vars
  BY <1>1, <1>6 DEF vars
<1>7. QED BY <1>2, <1>3, <1>4, <1>5, <1>6 DEF Next

LEMMA CleanInvariant == Spec => []IInvClean
<1>1. Init => IInvClean
  <2>1. Init => CleanUntilStopped
    BY DEF Init, CleanUntilStopped, In
  <2>2. QED BY <2>1, InitIInv DEF IInvClean
<1>2. IInvClean /\ [Next]_vars => IInvClean'
  BY CleanKept, NextIInv DEF IInvClean
<1>3. QED BY <1>1, <1>2, PTL DEF Spec

-----------------------------------------------------------------------------
(* A waiting drain() resolves only when nothing is owed any more.           *)
LEMMA ResolvedOwesNothing ==
  ASSUME IInv, [Next]_vars, drain = "waiting", drain' = "resolved", ~stopped'
  PROVE  pending' <= 0
<1>1. ASSUME NEW i \in Items, Complete(i) PROVE pending' <= 0
  <2>1. PICK to \in {"delivered", "abandoned", "labelling", "retry"} : Completed(i, to)
    BY <1>1, CompleteMoves
  <2>2. drain' = Settled(drain, pending')
    BY <2>1 DEF Completed
  <2>3. QED BY <2>2 DEF Settled
<1>2. ASSUME NEW i \in Items, Labelled(i) PROVE pending' <= 0
  BY <1>2 DEF Labelled, Settled
<1>3. ASSUME NEW i \in Items PROVE ~(Submit(i) \/ Reserve(i) \/ Resume(i))
  BY DEF Submit, Reserve, AwaitCapacity, TakeSlot, AwaitSlot, NoSlot, Resume, Launch, Refuse
<1>4. ~TimerFires
  BY TimerMoves
<1>5. ~Drain /\ ~Stop /\ ~UNCHANGED vars
  BY DEF Drain, Stop, vars
<1>6. QED BY <1>1, <1>2, <1>3, <1>4, <1>5 DEF Next

(* When a waiting drain() resolves and nothing stopped the pump, every      *)
(* delivery was acknowledged or labelled: what replay relies on when it     *)
(* marks a history replayed.                                                *)
THEOREM DrainSettles == Spec => DrainMeansSettled
<1>1. IInvClean /\ IInvClean' /\ [Next]_vars
        => [drain = "waiting" /\ drain' = "resolved" /\ ~stopped'
              => \A i \in Items : at'[i] \in {"new", "delivered", "dropped"}]_vars
  <2> SUFFICES ASSUME IInvClean, IInvClean', [Next]_vars,
                      drain = "waiting", drain' = "resolved", ~stopped', NEW i \in Items
               PROVE  at'[i] \in {"new", "delivered", "dropped"}
    OBVIOUS
  <2>1. pending' <= 0
    BY ResolvedOwesNothing DEF IInvClean
  <2>2. at' \in [Items -> Places] /\ pending' = Cardinality(In(Owed, at'))
    BY DEF IInvClean, IInv, TypeOK, Accounting, In
  <2>3. In(Owed, at') = {}
    <3>1. IsFiniteSet(In(Owed, at')) /\ Cardinality(In(Owed, at')) \in Nat
      BY FiniteIn
    <3>2. Cardinality(In(Owed, at')) = 0
      BY <2>1, <2>2, <3>1
    <3>3. QED BY <3>1, <3>2, FS_EmptySet
  <2>4. at'[i] \notin Owed
    BY <2>3 DEF In
  <2>5. at'[i] \notin {"rejected", "abandoned"}
    BY DEF IInvClean, CleanUntilStopped, In
  <2>6. at'[i] \in Places
    BY <2>2
  <2>7. QED BY <2>4, <2>5, <2>6 DEF Places, Done
<1>2. QED BY <1>1, CleanInvariant, PTL DEF Spec, DrainMeansSettled

-----------------------------------------------------------------------------
(* Every step of the pump is a step of the contract, or none.               *)

Fate(i) == FateOf(at[i])

LEMMA FatesOfPlaces ==
  /\ \A place \in Owed : FateOf(place) = "open"
  /\ \A place \in {"new", "delivered", "dropped", "abandoned"} : FateOf(place) = place
  /\ FateOf("rejected") = "refused"
BY DEF FateOf, Owed, Submitting

LEMMA SameFates ==
  ASSUME \A j \in Items : Fate(j)' = Fate(j), stopped' = stopped
  PROVE  UNCHANGED Contract!cvars
BY DEF Contract!cvars, Fate

(* A step that changes the fate of one delivery. *)
LEMMA OneFate ==
  ASSUME NEW i \in Items, NEW new, stopped' = stopped,
         \A j \in Items : Fate(j)' = IF j = i THEN new ELSE Fate(j)
  PROVE  /\ Fate(i) = "new" /\ new = "open" /\ ~stopped => Contract!CNext
         /\ Fate(i) = "open" /\ new \in {"delivered", "dropped"} => Contract!CNext
         /\ Fate(i) = "new" /\ new = "refused" /\ stopped => Contract!CNext
         /\ Fate(i) = "open" /\ new \in {"abandoned", "refused"} /\ stopped => Contract!CNext
<1> DEFINE f == [j \in Items |-> FateOf(at[j])]
           g == [j \in Items |-> FateOf(at'[j])]
<1>1. g = [f EXCEPT ![i] = new] /\ f[i] = Fate(i)
  BY DEF Fate
<1> HIDE DEF f, g
<1>2. Fate(i) = "new" /\ new = "open" /\ ~stopped => Contract!Accept(i)
  BY <1>1 DEF Contract!Accept, f, g
<1>3. Fate(i) = "open" /\ new \in {"delivered", "dropped"} => Contract!Settle(i)
  BY <1>1 DEF Contract!Settle, f, g
<1>4. Fate(i) = "new" /\ new = "refused" /\ stopped => Contract!GiveUp(i)
  BY <1>1 DEF Contract!GiveUp, f, g
<1>5. Fate(i) = "open" /\ new \in {"abandoned", "refused"} /\ stopped => Contract!GiveUp(i)
  BY <1>1 DEF Contract!GiveUp, f, g
<1>6. QED BY <1>2, <1>3, <1>4, <1>5 DEF Contract!CNext

(* Stopping, with or without the acknowledgement that tripped the breaker.  *)
LEMMA ClosesWith ==
  ASSUME ~stopped, stopped' = TRUE,
         NEW gone \in SUBSET {j \in Items : Fate(j) = "open"},
         NEW acked \in SUBSET ({j \in Items : Fate(j) = "open"} \ gone),
         acked = {} \/ \E i \in Items : acked = {i},
         \A j \in Items : Fate(j)' = IF j \in gone THEN "abandoned"
                                     ELSE IF j \in acked THEN "delivered" ELSE Fate(j)
  PROVE  Contract!CNext
<1> DEFINE f == [j \in Items |-> FateOf(at[j])]
           g == [j \in Items |-> FateOf(at'[j])]
<1>1. /\ \A j \in Items : f[j] = Fate(j)
      /\ {j \in Items : f[j] = "open"} = {j \in Items : Fate(j) = "open"}
  BY DEF Fate
<1>2. g = [j \in Items |-> IF j \in gone THEN "abandoned"
                           ELSE IF j \in acked THEN "delivered" ELSE f[j]]
  BY <1>1 DEF Fate
<1> HIDE DEF f, g
<1>3. CASE acked = {}
  <2>1. g = [j \in Items |-> IF j \in gone THEN "abandoned" ELSE f[j]]
    BY <1>2, <1>3
  <2>2. Contract!Close
    BY <1>1, <2>1 DEF Contract!Close, f, g
  <2>3. QED BY <2>2 DEF Contract!CNext
<1>4. ASSUME NEW i \in Items, acked = {i} PROVE Contract!CNext
  <2>1. g = [j \in Items |-> IF j \in gone THEN "abandoned"
                             ELSE IF j = i THEN "delivered" ELSE f[j]]
    BY <1>2, <1>4
  <2>2. i \in {j \in Items : f[j] = "open"} \ gone
    BY <1>1, <1>4
  <2>3. Contract!Close
    BY <1>1, <2>1, <2>2 DEF Contract!Close, f, g
  <2>4. QED BY <2>3 DEF Contract!CNext
<1>5. QED BY <1>3, <1>4

(* A delivery halted has been abandoned if it was in the heap or due, and   *)
(* is otherwise as open as before.                                          *)
LEMMA HaltedFates ==
  ASSUME NEW d \in [Items -> Places], NEW j \in Items
  PROVE  FateOf(Halted(d)[j]) = IF d[j] \in {"retry", "ready"} THEN "abandoned"
                                ELSE FateOf(d[j])
BY DEF Halted, FateOf, Owed, Submitting

-----------------------------------------------------------------------------
LEMMA CompleteSteps ==
  ASSUME IInv, NEW i \in Items, Complete(i)
  PROVE  Contract!CNext \/ UNCHANGED Contract!cvars
<1>1. PICK to \in {"delivered", "abandoned", "labelling", "retry"} : Completed(i, to)
  BY CompleteMoves
<1>2. at \in [Items -> Places] /\ at[i] = "flight" /\ Fate(i) = "open"
  BY <1>1, FatesOfPlaces DEF Completed, IInv, TypeOK, Fate, Owed
<1> DEFINE a == [at EXCEPT ![i] = to]
           new == IF to \in {"labelling", "retry"} THEN "open" ELSE to
<1>3. /\ to = "abandoned" <=> stopped /\ to # "delivered"
      /\ \E d \in [Items -> Places] :
           /\ Moves(a, d)
           /\ \/ at' = d /\ stopped' = stopped
              \/ at' = Halted(d) /\ stopped' = TRUE /\ ~stopped
  BY <1>1 DEF Completed
<1>4. PICK d \in [Items -> Places] :
        /\ Moves(a, d)
        /\ \/ at' = d /\ stopped' = stopped
           \/ at' = Halted(d) /\ stopped' = TRUE /\ ~stopped
  BY <1>3
<1>5. \A j \in Items : FateOf(a[j]) = IF j = i THEN new ELSE Fate(j)
  <2>1. FateOf(to) = new
    BY FatesOfPlaces DEF Owed
  <2>2. QED BY <1>2, <2>1 DEF Fate
<1>6. \A j \in Items : FateOf(d[j]) = IF j = i THEN new ELSE Fate(j)
  <2>1. \A j \in Items : d[j] = a[j] \/ (a[j] \in Owed /\ d[j] \in Owed)
    BY <1>4 DEF Moves, HoldsSlot, Owed, Submitting
  <2>2. QED BY <1>5, <2>1, FatesOfPlaces
<1>7. CASE at' = d /\ stopped' = stopped
  <2>1. \A j \in Items : Fate(j)' = IF j = i THEN new ELSE Fate(j)
    BY <1>6, <1>7 DEF Fate
  <2>2. CASE to \in {"labelling", "retry"}
    BY <1>2, <1>7, <2>1, <2>2, SameFates
  <2>3. CASE to = "delivered"
    <3>1. new \in {"delivered", "dropped"}
      BY <2>3
    <3> HIDE DEF new
    <3>2. QED BY <1>2, <1>7, <2>1, <3>1, OneFate
  <2>4. CASE to = "abandoned"
    <3>1. new \in {"abandoned", "refused"} /\ stopped
      BY <1>3, <2>4
    <3> HIDE DEF new
    <3>2. QED BY <1>2, <1>7, <2>1, <3>1, OneFate
  <2>5. QED BY <2>2, <2>3, <2>4
<1>8. CASE at' = Halted(d) /\ stopped' = TRUE /\ ~stopped
  <2> DEFINE gone == {j \in Items : d[j] \in {"retry", "ready"}}
             acked == IF to = "delivered" THEN {i} ELSE {}
  <2>1. to # "abandoned"
    BY <1>3, <1>8
  <2>2. \A j \in gone : FateOf(d[j]) = "open"
    BY FatesOfPlaces DEF Owed
  <2>3. \A j \in gone : Fate(j) = "open" /\ j \notin acked
    BY <1>2, <1>6, <2>2
  <2>4. \A j \in Items : Fate(j)' = IF j \in gone THEN "abandoned" ELSE FateOf(d[j])
    BY <1>8, HaltedFates DEF Fate
  <2>5. \A j \in Items : Fate(j)' = IF j \in gone THEN "abandoned"
                                    ELSE IF j \in acked THEN "delivered" ELSE Fate(j)
    BY <1>2, <1>6, <2>1, <2>4
  <2>6. /\ gone \in SUBSET {j \in Items : Fate(j) = "open"}
        /\ acked \in SUBSET ({j \in Items : Fate(j) = "open"} \ gone)
        /\ acked = {} \/ acked = {i}
    BY <1>2, <2>3
  <2>7. ~stopped /\ stopped' = TRUE /\ i \in Items
    BY <1>8
  <2>8. PICK G, A : G = gone /\ A = acked
    OBVIOUS
  <2> HIDE DEF gone, acked
  <2>9. /\ \A j \in Items : Fate(j)' = IF j \in G THEN "abandoned"
                                       ELSE IF j \in A THEN "delivered" ELSE Fate(j)
        /\ G \in SUBSET {j \in Items : Fate(j) = "open"}
        /\ A \in SUBSET ({j \in Items : Fate(j) = "open"} \ G)
        /\ A = {} \/ \E k \in Items : A = {k}
    BY <2>5, <2>6, <2>7, <2>8
  <2>10. QED
    <3> HIDE DEF Fate
    <3>1. QED BY ONLY <2>7, <2>9, ClosesWith
<1>9. QED BY <1>4, <1>7, <1>8

LEMMA TimerSteps ==
  ASSUME IInv, TimerFires
  PROVE  UNCHANGED Contract!cvars
<1>1. /\ \A j \in Items : \/ at'[j] = at[j]
                          \/ at[j] \in Owed /\ at'[j] \in HoldsSlot \union {"ready"}
      /\ stopped' = stopped
  BY TimerMoves
<1>2. \A j \in Items : at'[j] = at[j] \/ (at[j] \in Owed /\ at'[j] \in Owed)
  BY <1>1 DEF HoldsSlot, Owed, Submitting
<1>3. \A j \in Items : Fate(j)' = Fate(j)
  BY <1>2, FatesOfPlaces DEF Fate
<1>4. QED BY <1>1, <1>3, SameFates

LEMMA StopSteps == ASSUME IInv, Stop PROVE Contract!CNext
<1> DEFINE gone == {j \in Items : at[j] \in {"retry", "ready"}}
<1>1. at \in [Items -> Places] /\ ~stopped /\ stopped' = TRUE /\ at' = Halted(at)
  BY DEF Stop, IInv, TypeOK
<1>2. \A j \in gone : Fate(j) = "open"
  BY FatesOfPlaces DEF Fate, Owed
<1>3. \A j \in Items : Fate(j)' = IF j \in gone THEN "abandoned"
                                  ELSE IF j \in {} THEN "delivered" ELSE Fate(j)
  BY <1>1, HaltedFates DEF Fate
<1>4. gone \in SUBSET {j \in Items : Fate(j) = "open"}
  BY <1>2
<1> DEFINE acked == {}
<1>5. \A j \in Items : Fate(j)' = IF j \in gone THEN "abandoned"
                                  ELSE IF j \in acked THEN "delivered" ELSE Fate(j)
  BY <1>3
<1>6. acked \in SUBSET ({j \in Items : Fate(j) = "open"} \ gone) /\ acked = {}
  OBVIOUS
<1>7. PICK G, A : G = gone /\ A = acked
  OBVIOUS
<1> HIDE DEF gone, acked
<1>8. /\ \A j \in Items : Fate(j)' = IF j \in G THEN "abandoned"
                                     ELSE IF j \in A THEN "delivered" ELSE Fate(j)
      /\ G \in SUBSET {j \in Items : Fate(j) = "open"}
      /\ A \in SUBSET ({j \in Items : Fate(j) = "open"} \ G) /\ A = {}
  BY <1>4, <1>5, <1>6, <1>7
<1>9. ~stopped /\ stopped' = TRUE
  BY <1>1
<1>10. A = {} \/ \E i \in Items : A = {i}
  BY <1>8
<1>11. QED
  <2> HIDE DEF Fate
  <2>1. QED BY ONLY <1>8, <1>9, <1>10, ClosesWith

(* The callers and the label writer move one delivery. *)
LEMMA OneMoveSteps ==
  ASSUME IInvClean, NEW i \in Items, Submit(i) \/ Reserve(i) \/ Resume(i) \/ Labelled(i)
  PROVE  Contract!CNext \/ UNCHANGED Contract!cvars
<1>1. at \in [Items -> Places]
  BY DEF IInvClean, IInv, TypeOK
<1>2. ASSUME NEW to, at' = [at EXCEPT ![i] = to], NEW new, FateOf(to) = new
      PROVE  \A j \in Items : Fate(j)' = IF j = i THEN new ELSE Fate(j)
  BY <1>1, <1>2 DEF Fate
<1>3. CASE Submit(i)
  <2>1. Fate(i) = "new" /\ stopped' = stopped
    BY <1>3, FatesOfPlaces DEF Submit, Fate
  <2>2. CASE stopped /\ at' = [at EXCEPT ![i] = "rejected"]
    <3>1. FateOf("rejected") = "refused"
      BY FatesOfPlaces
    <3>2. \A j \in Items : Fate(j)' = IF j = i THEN "refused" ELSE Fate(j)
      BY <1>2, <2>2, <3>1
    <3>3. QED BY <2>1, <2>2, <3>2, OneFate
  <2>3. CASE ~stopped /\ at' = [at EXCEPT ![i] = "pacing"]
    <3>1. FateOf("pacing") = "open"
      BY FatesOfPlaces DEF Owed, Submitting
    <3>2. \A j \in Items : Fate(j)' = IF j = i THEN "open" ELSE Fate(j)
      BY <1>2, <2>3, <3>1
    <3>3. QED BY <2>1, <2>3, <3>2, OneFate
  <2>4. QED BY <1>3, <2>2, <2>3 DEF Submit
<1>4. CASE Reserve(i) \/ Launch(i)
  <2>1. /\ at[i] \in Owed /\ stopped' = stopped
        /\ \E to \in Owed : at' = [at EXCEPT ![i] = to]
    BY <1>4 DEF Reserve, AwaitCapacity, TakeSlot, AwaitSlot, NoSlot, Launch, Owed, Submitting
  <2>2. \A j \in Items : at'[j] = at[j] \/ (at[j] \in Owed /\ at'[j] \in Owed)
    BY <1>1, <2>1
  <2>3. \A j \in Items : Fate(j)' = Fate(j)
    BY <2>2, FatesOfPlaces DEF Fate
  <2>4. QED BY <2>1, <2>3, SameFates
<1>5. CASE Refuse(i)
  <2>1. /\ at[i] = "refused" /\ at' = [at EXCEPT ![i] = "rejected"] /\ stopped' = stopped
        /\ FateOf("rejected") = "refused" /\ Fate(i) = "open"
    BY <1>5, FatesOfPlaces DEF Refuse, Fate, Owed, Submitting
  <2>2. \A j \in Items : Fate(j)' = IF j = i THEN "refused" ELSE Fate(j)
    BY <1>2, <2>1
  <2>3. stopped
    BY <2>1 DEF IInvClean, CleanUntilStopped, In
  <2>4. QED BY <2>1, <2>2, <2>3, OneFate
<1>6. CASE Labelled(i)
  <2>1. /\ at' = [at EXCEPT ![i] = "dropped"] /\ stopped' = stopped
        /\ FateOf("dropped") = "dropped" /\ Fate(i) = "open"
    BY <1>6, FatesOfPlaces DEF Labelled, Fate, Owed
  <2>2. \A j \in Items : Fate(j)' = IF j = i THEN "dropped" ELSE Fate(j)
    BY <1>2, <2>1
  <2>3. QED BY <2>1, <2>2, OneFate
<1>7. QED BY <1>3, <1>4, <1>5, <1>6 DEF Resume

(* The pump keeps the contract for any set of deliveries, window, attempt   *)
(* limit and breaker: each delivery ends with one fate, a fate never        *)
(* changes, and nothing is given up on unless the pump has been stopped.    *)
THEOREM PumpImplementsContract == Spec => ImplementsContract
<1>1. Init => Contract!CInit
  BY DEF Init, Contract!CInit, FateOf, Owed, Submitting
<1>2. IInvClean /\ [Next]_vars => [Contract!CNext]_(Contract!cvars)
  <2> SUFFICES ASSUME IInvClean, [Next]_vars
               PROVE  Contract!CNext \/ UNCHANGED Contract!cvars
    OBVIOUS
  <2>1. ASSUME NEW i \in Items, Submit(i) \/ Reserve(i) \/ Resume(i) \/ Labelled(i)
        PROVE  Contract!CNext \/ UNCHANGED Contract!cvars
    BY <2>1, OneMoveSteps
  <2>2. ASSUME NEW i \in Items, Complete(i)
        PROVE  Contract!CNext \/ UNCHANGED Contract!cvars
    BY <2>2, CompleteSteps DEF IInvClean
  <2>3. CASE TimerFires
    BY <2>3, TimerSteps DEF IInvClean
  <2>4. CASE Stop
    BY <2>4, StopSteps DEF IInvClean
  <2>5. CASE Drain \/ UNCHANGED vars
    BY <2>5 DEF Drain, vars, Contract!cvars
  <2>6. QED BY <2>1, <2>2, <2>3, <2>4, <2>5 DEF Next
<1>3. QED BY <1>1, <1>2, CleanInvariant, PTL DEF Spec, ImplementsContract, Contract!CSpec

-----------------------------------------------------------------------------
(* The sinks a pump delivers through, each with a client of its own; a test *)
(* of a connection is made by one that serves nothing else.                 *)
Up(c) == amqp[c].up

Ends == [up : BOOLEAN, chan : BOOLEAN, alarm : BOOLEAN, buffer : BOOLEAN]

SinkTypes ==
  /\ amqp \in [Ids -> Ends]
  /\ {connection, opening, channel} \subseteq Ids \union {None} /\ used \in Nat
  /\ connecting \in BOOLEAN /\ kind \in {"kafka", "rabbitmq", "webhook"}

(* A test publishes nothing and dials once.  The connection it opens is     *)
(* being set up, or is the sink's, or was lost with nothing in its place;   *)
(* when the sink is closed no connection is being set up any more.          *)
OneDial ==
  probe # "none" =>
    /\ stands = [i \in Attempts |-> "new"]
    /\ ~signal /\ (closed => probe = "over")
    /\ probe \in {"asked", "connect"} \/ ~connecting \/ kind = "kafka"
    /\ probe \in {"asked", "over"} \/ kind # "rabbitmq" \/ (connecting /\ opening = None)
         => connection = None /\ opening = None
    /\ probe = "asked" \/ kind # "rabbitmq" \/ (connecting /\ opening = None)
         => \A c \in Ids : ~Up(c)
    /\ probe = "asked" => ~connecting
    /\ opening # None => connecting /\ kind = "rabbitmq"
    /\ \A c \in Ids : Up(c) =>
         \/ c = opening /\ connection = None
         \/ c = connection /\ opening = None
         \/ c \in lost /\ connection = None /\ opening = None

SinkInv == SinkTypes /\ OneDial

(* Kafka's clients during a test: the producer that is open is connected or *)
(* connecting, as close() looks for it, and the admin client is open only   *)
(* inside the try that disconnects it.                                      *)
Marks == {"none", "open", "failed", "closed"}

ClientsHeld ==
  probe # "none" =>
    /\ client \in [producer : Marks, admin : Marks]
    /\ client.producer = "open" => connected \/ connecting
    /\ client.producer = "open" => kind = "kafka" /\ probe # "over"
    /\ client.admin = "open" => probe = "ask"

LEMMA SinkStarts == ASSUME SinksAssumption, SinkInit PROVE SinkInv
BY DEF SinksAssumption, SinkInit, SinkInv, SinkTypes, OneDial, Dead, Ids,
       None, Ends, Up

(* Nothing moves that does not stand where it should.                       *)
LEMMA NobodyMoves ==
  ASSUME probe # "none", OneDial, NEW place, place # "new", NEW to
  PROVE  /\ At(place) = {}
         /\ Move({}, to, stands) = stands
BY Zenon DEF OneDial, At, Move

(* What happens to a connection but for its opening and its end.            *)
LEMMA StaysUp ==
  ASSUME SinkTypes, NEW c \in Ids, NEW e,
         e = [amqp[c] EXCEPT !.chan = e.chan, !.alarm = e.alarm, !.buffer = e.buffer],
         {e.chan, e.alarm, e.buffer} \subseteq BOOLEAN, amqp' = [amqp EXCEPT ![c] = e]
  PROVE  amqp' \in [Ids -> Ends] /\ \A d \in Ids : amqp'[d].up = amqp[d].up
<1>1. e \in Ends /\ e.up = amqp[c].up
  BY DEF SinkTypes, Ends
<1>2. QED BY <1>1 DEF SinkTypes

LEMMA TestConnects ==
  ASSUME SinksAssumption, SinkInv, Dial \/ SetUp \/ SetUpFails
  PROVE  SinkInv'
<1> USE DEF None, SinkInv, SinkTypes, OneDial, Up
<1>0. Ids \subseteq Nat \ {0} /\ \A n \in Nat : n < Conns => n + 1 \in Ids
  BY DEF Ids, SinksAssumption
<1>1. CASE Dial
  <2>1. CASE /\ used < Conns /\ used' = used + 1 /\ opening' = used + 1
             /\ amqp' = [amqp EXCEPT ![used + 1] = [Dead EXCEPT !.up = TRUE]]
             /\ UNCHANGED <<probe, stands, connecting, connection, channel>>
    <3>1. used + 1 \in Ids /\ [Dead EXCEPT !.up = TRUE] \in Ends
      BY <1>0, <2>1 DEF Dead, Ends
    <3>2. QED BY <1>0, <1>1, <2>1, <3>1 DEF Dial
  <2>2. CASE ConnectFails /\ UNCHANGED <<amqp, used>>
    <3>1. stands' = stands \/ probe = "none"
      BY <2>2, NobodyMoves DEF ConnectFails
    <3>2. QED BY <1>0, <1>1, <2>2, <3>1 DEF Dial, ConnectFails, ProbeTold
  <2>3. QED BY <1>1, <2>1, <2>2 DEF Dial
<1>2. CASE SetUp
  <2>1. opening \in Ids
    BY <1>2 DEF SetUp
  <2>2. /\ amqp' \in [Ids -> Ends]
        /\ \A c \in Ids : amqp'[c].up = amqp[c].up
    <3>1. PICK accepted \in BOOLEAN :
            amqp' = [amqp EXCEPT ![opening].chan = TRUE, ![opening].buffer = ~accepted]
      BY <1>2 DEF SetUp
    <3> DEFINE e == [amqp[opening] EXCEPT !.chan = TRUE, !.buffer = ~accepted]
    <3>a. amqp \in [Ids -> Ends]
      BY DEF SinkInv, SinkTypes
    <3>b. amqp[opening] \in Ends
      BY <2>1, <3>a
    <3>2. /\ e = [amqp[opening] EXCEPT !.chan = e.chan, !.alarm = e.alarm, !.buffer = e.buffer]
          /\ {e.chan, e.alarm, e.buffer} \subseteq BOOLEAN
      BY <3>b DEF Ends
    <3>3. amqp' = [amqp EXCEPT ![opening] = e]
      BY <2>1, <3>a, <3>1
    <3>4. QED BY <2>1, <3>2, <3>3, StaysUp
  <2>3. stands' = stands \/ probe = "none"
    BY <1>2, NobodyMoves DEF SetUp
  <2>4. QED BY <1>0, <1>2, <2>1, <2>2, <2>3 DEF SetUp, ProbeTold
<1>3. CASE SetUpFails
  <2>1. stands' = stands \/ probe = "none"
    BY <1>3, NobodyMoves DEF SetUpFails, ConnectFails
  <2>2. QED BY <1>0, <1>3, <2>1 DEF SetUpFails, ConnectFails, ProbeTold
<1>4. QED BY <1>1, <1>2, <1>3

LEMMA SinkMoves ==
  ASSUME SinksAssumption, SinkInv, [SinkNext]_(sinkVars)
  PROVE  SinkInv'
<1> USE DEF None, SinkInv, SinkTypes, OneDial, Up
<1>0. Ids \subseteq Nat \ {0}
  BY DEF Ids, SinksAssumption
<1>1. ASSUME NEW i \in Attempts, SubmitTo(i) \/ Retry(i) PROVE SinkInv'
  <2>1. /\ probe = "none"
        /\ UNCHANGED <<kind, probe, connecting, connection, opening, channel, amqp, used>>
    BY <1>1, Zenon DEF SubmitTo, Retry, rabbit
  <2>2. QED BY <2>1
<1>2. ASSUME NEW i \in Attempts, Publish(i) \/ Answers(i) PROVE SinkInv'
  <2>1. probe = "none"
    BY <1>2 DEF Publish, PublishKafka, PublishRabbit, PublishWebhook,
                Aborted, Answers
  <2>2. CASE PublishRabbit(i)
    <3>1. CASE channel # None
      <4>1. PICK b \in BOOLEAN : amqp' = [amqp EXCEPT ![channel].buffer = @ \/ b]
        BY <2>2, <3>1 DEF PublishRabbit, Written
      <4> DEFINE e == [amqp[channel] EXCEPT !.buffer = amqp[channel].buffer \/ b]
      <4>a. amqp \in [Ids -> Ends] /\ channel \in Ids
        BY <3>1 DEF SinkInv, SinkTypes, None
      <4>b. amqp[channel] \in Ends
        BY <4>a
      <4>2. /\ {e.chan, e.alarm, e.buffer} \subseteq BOOLEAN
            /\ e = [amqp[channel] EXCEPT !.chan = e.chan, !.alarm = e.alarm, !.buffer = e.buffer]
        BY <4>b DEF Ends
      <4>3. amqp' = [amqp EXCEPT ![channel] = e]
        BY <4>1, <4>a
      <4>4. amqp' \in [Ids -> Ends]
        BY <4>a, <4>2, <4>3, StaysUp
      <4>5. QED BY <2>1, <2>2, <3>1, <4>4 DEF PublishRabbit
    <3>2. CASE channel = None
      BY <2>1, <2>2, <3>2 DEF PublishRabbit
    <3>3. QED BY <3>1, <3>2
  <2>3. CASE PublishKafka(i)
    BY <2>1, <2>3 DEF PublishKafka, rabbit
  <2>4. CASE PublishWebhook(i) \/ Aborted(i) \/ Answers(i)
    <3>1. UNCHANGED <<kind, probe, connecting, connection, opening, channel, amqp, used>>
      BY <2>4, Zenon DEF PublishWebhook, Aborted, Answers, rabbit
    <3>2. QED BY <2>1, <3>1
  <2>5. QED BY <1>2, <2>2, <2>3, <2>4 DEF Publish
<1>3. CASE KafkaConnects
  <2>1. stands' = stands \/ probe = "none"
    BY <1>3, NobodyMoves DEF KafkaConnects, Connected
  <2>2. probe' \in {probe, "admin", "closing"} /\ (probe' # probe => probe = "connect")
    BY <1>3 DEF KafkaConnects, Connected, NotConnected, ProbeTold
  <2>3. QED BY <1>3, <2>1, <2>2 DEF KafkaConnects, rabbit
<1>4. CASE Dial \/ SetUp \/ SetUpFails
  BY <1>4, TestConnects
<1>5. ASSUME NEW c \in Ids,
             \/ Drains(c) \/ Blocks(c) \/ Unblocks(c) \/ ChannelCloses(c)
      PROVE  SinkInv'
  <2>1. /\ amqp' \in [Ids -> Ends]
        /\ \A d \in Ids : amqp'[d].up = amqp[d].up
    <3>1. PICK e : /\ amqp' = [amqp EXCEPT ![c] = e]
                   /\ e = [amqp[c] EXCEPT !.chan = e.chan, !.alarm = e.alarm, !.buffer = e.buffer]
                   /\ {e.chan, e.alarm, e.buffer} \subseteq BOOLEAN
      <4>1. CASE Drains(c)
        <5> WITNESS [amqp[c] EXCEPT !.buffer = FALSE]
        <5>1. QED BY <4>1 DEF Drains, Ends
      <4>2. CASE Blocks(c)
        <5> WITNESS [amqp[c] EXCEPT !.alarm = TRUE]
        <5>1. QED BY <4>2 DEF Blocks, Ends
      <4>3. CASE Unblocks(c)
        <5> WITNESS [amqp[c] EXCEPT !.alarm = FALSE]
        <5>1. QED BY <4>3 DEF Unblocks, Ends
      <4>4. CASE ChannelCloses(c)
        <5> WITNESS [amqp[c] EXCEPT !.chan = FALSE, !.buffer = FALSE]
        <5>1. QED BY <4>4 DEF ChannelCloses, Ends
      <4>5. QED BY <1>5, <4>1, <4>2, <4>3, <4>4
    <3>2. QED BY <3>1, StaysUp
  <2>2. stands' = stands \/ probe = "none"
    <3>1. SUFFICES ASSUME probe # "none" PROVE stands' = stands
      OBVIOUS
    <3>2. AtOn("drain", c) = {} /\ AtOn("flight", c) = {} /\ At("alarm") = {}
      BY <3>1, NobodyMoves DEF AtOn
    <3>3. \A to : Move({}, to, stands) = stands
      BY <3>1, NobodyMoves
    <3>4. CASE Drains(c) \/ Blocks(c) \/ Unblocks(c)
      BY <3>2, <3>3, <3>4 DEF Drains, Blocks, Unblocks
    <3>5. CASE ChannelCloses(c)
      BY <3>2, <3>3, <3>5, Zenon DEF ChannelCloses
    <3>6. QED BY <1>5, <3>4, <3>5
  <2>3. /\ UNCHANGED <<kind, probe, connecting, connection, opening, used, signal, closed>>
        /\ channel' \in {channel, None} /\ lost \subseteq lost'
    BY <1>5 DEF Drains, Blocks, Unblocks, ChannelCloses
  <2>4. QED BY <1>0, <2>1, <2>2, <2>3
<1>6. ASSUME NEW c \in Ids, Loses(c)
      PROVE  /\ amqp' \in [Ids -> Ends]
             /\ ~amqp'[c].up /\ \A d \in Ids \ {c} : amqp'[d] = amqp[d]
             /\ connection' = None /\ channel' = None
             /\ stands' = stands \/ probe = "none"
  <2>1. Dead \in Ends /\ ~Dead.up
    BY DEF Dead, Ends
  <2>2. \A p \in {"drain", "flight", "alarm"} : AtOn(p, c) = {} \/ probe = "none"
    BY NobodyMoves DEF AtOn
  <2>3. stands' = stands \/ probe = "none"
    BY <1>6, <2>2, NobodyMoves DEF Loses
  <2>4. QED BY <1>6, <2>1, <2>3 DEF Loses
<1>7. ASSUME NEW c \in Ids, ConnectionCloses(c)
      PROVE  SinkInv'
  BY <1>0, <1>6, <1>7 DEF ConnectionCloses
<1>8. CASE Abort
  BY <1>8 DEF Abort, rabbit
<1>9. CASE Probe
  <2>1. CASE ProbeBegins
    BY <1>0, <2>1 DEF ProbeBegins, rabbit
  <2>2. CASE FatalLogged
    BY <2>2 DEF FatalLogged, rabbit
  <2>3. CASE ProbeAnswered
    <3>1. /\ amqp' \in [Ids -> Ends]
          /\ \A d \in Ids : amqp'[d].up = amqp[d].up
          /\ channel' \in {channel, None}
      <4>1. CASE UNCHANGED <<amqp, channel>>
        BY <4>1
      <4>2. CASE /\ channel # None
                 /\ amqp' = [amqp EXCEPT ![channel].chan = FALSE] /\ channel' = None
        <5> DEFINE e == [amqp[channel] EXCEPT !.chan = FALSE]
        <5>1. channel \in Ids
          BY <4>2
        <5>2. /\ e = [amqp[channel] EXCEPT !.chan = e.chan, !.alarm = e.alarm, !.buffer = e.buffer]
              /\ {e.chan, e.alarm, e.buffer} \subseteq BOOLEAN
          BY <5>1 DEF Ends
        <5>3. amqp' = [amqp EXCEPT ![channel] = e]
          BY <4>2
        <5>4. QED BY <4>2, <5>1, <5>2, <5>3, StaysUp
      <4>3. QED BY <2>3, <4>1, <4>2 DEF ProbeAnswered
    <3>2. lost \subseteq lost'
      BY <2>3 DEF ProbeAnswered
    <3>3. QED BY <2>3, <3>1, <3>2 DEF ProbeAnswered
  <2>4. CASE AdminConnects
    BY <2>4 DEF AdminConnects, rabbit
  <2>5. QED BY <1>9, <2>1, <2>2, <2>3, <2>4 DEF Probe
<1>10. CASE Close
  <2>1. CASE kind = "rabbitmq" /\ connection # None
    <3>1. connection \in Ids /\ Loses(connection)
      BY <1>10, <2>1 DEF Close
    <3>2. QED BY <1>0, <1>6, <1>10, <2>1, <3>1 DEF Close
  <2>2. CASE ~(kind = "rabbitmq" /\ connection # None)
    <3>1. /\ UNCHANGED <<stands, amqp, connection, channel, kind, connecting, opening, used, lost,
                         signal>>
          /\ probe' = IF probe = "closing" THEN "over" ELSE probe
          /\ signal \/ probe = "closing"
      BY <1>10, <2>2 DEF Close
    <3>2. CASE probe = "none"
      BY <3>1, <3>2
    <3>3. CASE probe # "none"
      <4>1. probe = "closing" /\ probe' = "over"
        BY <3>1, <3>3
      <4>2. kind = "rabbitmq" => connection = None /\ ~connecting /\ opening = None
        BY <2>2, <4>1
      <4>3. kind # "rabbitmq" => connection = None /\ \A c \in Ids : ~Up(c)
        BY <4>1
      <4>4. QED BY <3>1, <4>1, <4>2, <4>3
    <3>4. QED BY <3>2, <3>3
  <2>3. QED BY <2>1, <2>2
<1>11. CASE UNCHANGED sinkVars
  BY <1>11 DEF sinkVars, rabbit
<1>12. QED BY <1>1, <1>2, <1>3, <1>4, <1>5, <1>7, <1>8, <1>9, <1>10, <1>11 DEF SinkNext

LEMMA ClientsMove ==
  ASSUME SinkInv, ClientsHeld, [SinkNext]_(sinkVars)
  PROVE  ClientsHeld'
<1> USE DEF ClientsHeld, Marks
<1>1. CASE probe = "none"
  <2>1. ASSUME NEW i \in Attempts, SubmitTo(i) \/ Retry(i) \/ Publish(i) \/ Answers(i)
        PROVE  probe' = "none"
    BY <1>1, <2>1 DEF SubmitTo, Retry, Publish, PublishKafka, PublishRabbit, PublishWebhook,
                      Aborted, Answers
  <2>2. ASSUME KafkaConnects \/ Dial \/ SetUp \/ SetUpFails PROVE probe' = "none"
    <3>1. UNCHANGED probe \/ \E to : ProbeTold(to)
      BY <2>2, Zenon DEF KafkaConnects, Connected, NotConnected, Dial, SetUp, SetUpFails,
                         ConnectFails
    <3>2. QED BY <1>1, <3>1 DEF ProbeTold
  <2>3. ASSUME NEW c \in Ids, \/ Drains(c) \/ Blocks(c) \/ Unblocks(c)
                              \/ ChannelCloses(c) \/ ConnectionCloses(c)
        PROVE  probe' = "none"
    <3>1. UNCHANGED probe
      BY <2>3, Zenon DEF Drains, Blocks, Unblocks, ChannelCloses, ConnectionCloses
    <3>2. QED BY <1>1, <3>1
  <2>4. ASSUME Abort \/ Probe \/ Close PROVE probe' = "none"
    BY <1>1, <2>4 DEF Abort, Probe, ProbeBegins, FatalLogged, AdminConnects, ProbeAnswered, Close
  <2>5. ASSUME UNCHANGED sinkVars PROVE probe' = "none"
    BY <1>1, <2>5 DEF sinkVars
  <2>6. probe' = "none"
    BY <2>1, <2>2, <2>3, <2>4, <2>5 DEF SinkNext
  <2>7. QED BY <2>6
<1>2. CASE probe # "none"
  <2>1. stands = [i \in Attempts |-> "new"] /\ ~signal
    BY <1>2 DEF SinkInv, OneDial
  <2>2. opening # None => kind = "rabbitmq"
    BY <1>2 DEF SinkInv, OneDial
  <2>3. ASSUME NEW i \in Attempts, SubmitTo(i) \/ Retry(i) \/ Publish(i) \/ Answers(i)
        PROVE  FALSE
    BY <1>2, <2>1, <2>3 DEF SubmitTo, Retry, Publish, PublishKafka, PublishRabbit,
       PublishWebhook, Aborted, Answers
  <2>4. CASE KafkaConnects
    BY <1>2, <2>4 DEF KafkaConnects, Connected, NotConnected, ProbeTold
  <2>5. CASE Dial \/ SetUp \/ SetUpFails
    <3>1. kind = "rabbitmq" /\ kind' = kind /\ client' = client /\ connected' = connected
      BY <2>2, <2>5 DEF Dial, SetUp, SetUpFails, kafka
    <3>2. probe' \in {probe, "ask", "closing"} /\ (probe' # probe => probe = "connect")
      BY <2>5 DEF Dial, SetUp, SetUpFails, ConnectFails, ProbeTold
    <3>3. QED BY <1>2, <3>1, <3>2
  <2>6. ASSUME NEW c \in Ids, \/ Drains(c) \/ Blocks(c) \/ Unblocks(c)
                              \/ ChannelCloses(c) \/ ConnectionCloses(c)
        PROVE  ClientsHeld'
    <3>1. UNCHANGED <<kind, probe, client, connected, connecting>>
      BY <2>6, Zenon DEF Drains, Blocks, Unblocks, ChannelCloses, ConnectionCloses, kafka
    <3>2. QED BY <3>1
  <2>7. CASE Abort
    BY <1>2, <2>7 DEF Abort
  <2>8. CASE ProbeBegins
    BY <1>2, <2>8 DEF ProbeBegins, Dialled
  <2>9. CASE FatalLogged
    BY <1>2, <2>9 DEF FatalLogged, kafka
  <2>10. CASE AdminConnects
    BY <1>2, <2>10 DEF AdminConnects
  <2>11. CASE ProbeAnswered
    BY <1>2, <2>11 DEF ProbeAnswered
  <2>12. CASE Close
    <3>1. probe = "closing" /\ probe' = "over" /\ client' = Disconnected /\ kind' = kind
      BY <2>1, <2>12 DEF Close
    <3>2. QED BY <1>2, <3>1 DEF Disconnected
  <2>13. CASE UNCHANGED sinkVars
    BY <2>13 DEF sinkVars, kafka
  <2>14. QED BY <2>3, <2>4, <2>5, <2>6, <2>7, <2>8, <2>9, <2>10, <2>11, <2>12, <2>13
             DEF SinkNext, Probe
<1>3. QED BY <1>1, <1>2

(* A test leaves nothing open: no connection of RabbitMQ, except one it     *)
(* granted and that could not be set up, and neither of Kafka's clients,    *)
(* except one whose connect was rejected, whatever is lost meanwhile        *)
(* (probe, close: kafka/producer.ts, rabbitmq/publisher.ts).                *)
THEOREM TestsLeaveNothing == SinkSpec => []NothingLeftOpen
<1>1. SinkInit => SinkInv /\ ClientsHeld
  <2>1. SinkInit => ClientsHeld
    BY DEF SinkInit, ClientsHeld, Marks
  <2>2. QED BY <2>1, SinksAssumption, SinkStarts
<1>2. SinkInv /\ ClientsHeld /\ [SinkNext]_(sinkVars) => (SinkInv /\ ClientsHeld)'
  BY SinksAssumption, SinkMoves, ClientsMove
<1>3. SinkInv /\ ClientsHeld => NothingLeftOpen
  <2>1. SinkInv => (probe = "over" => \A c \in Ids : amqp[c].up => c \in lost /\ c # connection)
    BY SinksAssumption DEF SinkInv, SinkTypes, OneDial, None, Ids, SinksAssumption, Up
  <2>2. ClientsHeld => (probe = "over" => client.producer # "open" /\ client.admin # "open")
    BY DEF ClientsHeld
  <2>3. QED BY <2>1, <2>2 DEF NothingLeftOpen
<1>4. QED BY <1>1, <1>2, <1>3, PTL DEF SinkSpec
=============================================================================
