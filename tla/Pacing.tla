------------------------------- MODULE Pacing -------------------------------
(***************************************************************************)
(* The clock side of a live stream: the token bucket of the drive loop     *)
(* (packages/engine/src/streaming/token-bucket.ts, stream-drive.ts), the   *)
(* additive-increase / multiplicative-decrease pacer of a pump, and the    *)
(* heap of retries with its one timer (packages/sinks/src/pump.ts).        *)
(* DeliveryPump is the same pump without time; one destination is modelled *)
(* here, and neither stop() nor the breaker.                               *)
(*                                                                         *)
(* Time is counted in steps of 1/PerSecond s.  Code runs and timers fire   *)
(* without delay: time does not pass a due timer.  A counter of elapsed    *)
(* time stops where a longer time would change nothing.  Targets are whole *)
(* numbers; fractions are exact but for the halving, rounded down, and a   *)
(* timer, rounded up to a step.                                            *)
(* A definition marked "slip" is not part of the model (see                *)
(* PartitionWorld).                                                        *)
(***************************************************************************)
EXTENDS Integers, Sequences, FiniteSetsExt, SequencesExt

CONSTANTS
  PerSecond,   (* steps of time in a second                                *)
  RecoverIn,   (* seconds in which a pacer regains its whole target (20)   *)
  Scopes,      (* the target_tps a user may ask for, with a bound on the   *)
               (* retries that wait                                        *)
  Start,       (* the target a new pacer is given (1000)                   *)
  Window,      (* the sink's maxInFlight                                   *)
  Backoffs     (* steps a retry may have to wait, jitter included          *)

ASSUME PacingAssumption ==
  /\ PerSecond \in Nat \ {0} /\ RecoverIn \in Nat \ {0} /\ Window \in Nat \ {0}
  /\ \A s \in Scopes : s.targets \subseteq Nat \ {0} /\ s.retries \in Nat
  /\ Start \in Nat \ {0} /\ Backoffs \subseteq Nat \ {0}
  /\ \E longest \in Backoffs : \A w \in Backoffs : w <= longest

VARIABLES
  scope,           (* the member of Scopes a behaviour keeps to            *)
  target,          (* streams.target_tps                                   *)
  drive,           (* the drive loop: its step, what the tick has left     *)
  bucket,          (* TokenBucket                                          *)
  pacer,           (* AimdPacer                                            *)
  nap,             (* take()'s timer                                       *)
  flying,          (* inFlight                                             *)
  heap, ready,     (* retries by the time they have left; the due ones     *)
  alarm,           (* the retry timer                                      *)
  recent           (* history: releases and targets of the last second     *)

pump == <<flying, heap, ready, alarm>>
vars == <<scope, target, drive, bucket, pacer, nap, pump, recent>>

(* A rate is counted in 1/Unit deliveries per second, the pacer's tokens in *)
(* 1/Delivery deliveries; the bucket's in 1/PerSecond deliveries.           *)
Unit     == PerSecond * RecoverIn
Delivery == PerSecond * Unit
Off      == -1                        \* no timer is set
Longest  == Max(Backoffs)
Waiting  == MapThenSumSet(LAMBDA w : heap[w], 0..Longest)

Init ==
  /\ scope \in Scopes /\ target \in scope.targets
  /\ drive = [at |-> "tick", quota |-> 0, left |-> 0]
  /\ bucket = [tokens |-> PerSecond, since |-> 0]
  /\ pacer = [target |-> Start, aimd |-> Start * Unit, tokens |-> Start * Delivery,
              sinceTick |-> 0, sinceRefill |-> 0, sinceHalved |-> PerSecond]
  /\ nap = Off /\ flying = 0 /\ heap = [w \in 0..Longest |-> 0] /\ ready = 0 /\ alarm = Off
  /\ recent = [n \in 1..(PerSecond + 1) |-> [released |-> 0, target |-> Start]]

-----------------------------------------------------------------------------
(* The user. *)

SetTargetTps(t) ==
  /\ target' = t
  /\ UNCHANGED <<scope, drive, bucket, pacer, nap, pump, recent>>

-----------------------------------------------------------------------------
(* AimdPacer. *)

Recovered(p) ==
  [p EXCEPT !.aimd = Min({p.target * Unit, @ + p.target * p.sinceTick}), !.sinceTick = 0]

RetargetedAfresh(p, t) ==   \* slip: the tick is taken for a quiet start
  [p EXCEPT !.target = t, !.sinceTick = 0,
     !.aimd = IF @ >= p.target * Unit THEN t * Unit ELSE Min({@, t * Unit})]

Retargeted(p, t) ==
  LET r == Recovered(p)
  IN  [r EXCEPT !.target = t,
         !.aimd = IF @ >= r.target * Unit THEN t * Unit ELSE Min({@, t * Unit})]

(* onBackpressure: at most once a second, and never below one a second. *)
Halved(p) ==
  LET r == Recovered(p)
  IN  IF r.sinceHalved < PerSecond THEN r
      ELSE [r EXCEPT !.sinceHalved = 0, !.aimd = Max({Unit, @ \div 2})]

RefilledUncapped(p) ==   \* slip: a pause is caught up with
  LET r == Recovered(p)
  IN  [r EXCEPT !.sinceRefill = 0, !.tokens = @ + r.sinceRefill * r.aimd]

(* The head of take(): one second of burst at the effective rate. *)
Refilled(p) ==
  LET r == Recovered(p)
  IN  [r EXCEPT !.sinceRefill = 0,
         !.tokens = Min({Max({Delivery, PerSecond * r.aimd}), @ + r.sinceRefill * r.aimd})]

Take ==
  /\ drive.at = "acquire"
  /\ LET p == Refilled(pacer)
     IN  \/ /\ p.tokens >= Delivery
            /\ pacer' = [p EXCEPT !.tokens = @ - Delivery]
            /\ drive' = [drive EXCEPT !.at = "saturated?"]
            /\ recent' = [recent EXCEPT ![1].released = @ + 1]
            /\ UNCHANGED nap
         \/ /\ p.tokens < Delivery
            /\ pacer' = p
            /\ nap' = (Delivery - p.tokens + p.aimd - 1) \div p.aimd
            /\ drive' = [drive EXCEPT !.at = "nap"]
            /\ UNCHANGED recent
  /\ UNCHANGED <<scope, target, bucket, pump>>

Woken ==
  /\ nap = 0
  /\ nap' = Off /\ drive' = [drive EXCEPT !.at = "acquire"]
  /\ UNCHANGED <<scope, target, bucket, pacer, pump, recent>>

-----------------------------------------------------------------------------
(* The drive loop: setRate, setTarget, refill by the time that passed, and, *)
(* unless the stream is paused, at most half a second's worth of tokens.    *)
(* When it is paused and resumed is StreamSession's: here any tick may find *)
(* it so.                                                                   *)

Filled == Min({Max({1, target}) * PerSecond, bucket.tokens + bucket.since * target})

Tick ==
  /\ drive.at = "tick"
  /\ pacer' = Retargeted(pacer, target)
  /\ recent' = [recent EXCEPT ![1].target = Max({@, target})]
  /\ \E state \in {"streaming", "paused"} :
       LET half  == Max({1, (target + 1) \div 2})
           taken == IF state = "streaming" THEN Min({half, Filled \div PerSecond}) ELSE 0
     IN  /\ bucket' = [tokens |-> Filled - taken * PerSecond, since |-> 0]
         /\ drive' = [at |-> IF taken > 0 THEN "take" ELSE "rest", quota |-> taken, left |-> 0]
  /\ UNCHANGED <<scope, target, nap, pump>>

(* A chunk of the source, possibly empty: "remaining -= Math.max(1, ...)". *)
Chunk ==
  /\ drive.at = "take"
  /\ \E n \in 0..drive.quota :
       LET quota == drive.quota - Max({1, n})
       IN  drive' = [at |-> IF n > 0 THEN "acquire" ELSE IF quota > 0 THEN "take" ELSE "rest",
                     quota |-> quota, left |-> n]
  /\ UNCHANGED <<scope, target, bucket, pacer, nap, pump, recent>>

(* metrics() reads the pacer's rate; then the loop sleeps tickMs. *)
Rest ==
  /\ drive.at = "rest"
  /\ pacer' \in {pacer, Recovered(pacer)}
  /\ drive' = [drive EXCEPT !.at = "tick"]
  /\ UNCHANGED <<scope, target, bucket, nap, pump, recent>>

-----------------------------------------------------------------------------
(* submit, past acquire(): a saturated sink, then a slot of the window. *)

Submitted ==
  drive' = [drive EXCEPT !.left = @ - 1,
              !.at = IF drive.left > 1 THEN "acquire"
                     ELSE IF drive.quota > 0 THEN "take" ELSE "rest"]

LooksSaturated ==
  /\ drive.at = "saturated?"
  /\ \/ drive' = [drive EXCEPT !.at = "reserve"] /\ UNCHANGED pacer
     \/ drive' = [drive EXCEPT !.at = "full"] /\ pacer' = Halved(pacer)
  /\ UNCHANGED <<scope, target, bucket, nap, pump, recent>>

CapacityBack ==
  /\ drive.at = "full"
  /\ drive' = [drive EXCEPT !.at = "reserve"]
  /\ UNCHANGED <<scope, target, bucket, pacer, nap, pump, recent>>

ReserveSlot ==
  /\ drive.at = "reserve"
  /\ \/ flying < Window /\ ready = 0 /\ flying' = flying + 1 /\ Submitted /\ UNCHANGED pacer
     \/ /\ ~(flying < Window /\ ready = 0)
        /\ pacer' = Halved(pacer) /\ drive' = [drive EXCEPT !.at = "queued"]
        /\ UNCHANGED flying
  /\ UNCHANGED <<scope, target, bucket, nap, heap, ready, alarm, recent>>

(* dispatch(): due retries first, then the submitter that waits. *)
Dispatched(free, due) ==
  LET retries == Min({free, due})
      served  == drive.at = "queued" /\ free > retries
  IN  /\ ready' = due - retries
      /\ flying' = Window - free + retries + (IF served THEN 1 ELSE 0)
      /\ IF served THEN Submitted ELSE UNCHANGED drive

(* armTimer(): the timer is set anew for the earliest retry. *)
EarliestOr(h, none) ==
  LET times == {w \in DOMAIN h : h[w] > 0} IN IF times = {} THEN none ELSE Min(times)

ArmedIfOff(h) == IF alarm # Off THEN alarm ELSE EarliestOr(h, Off)   \* slip: a set timer is kept

Armed(h) == EarliestOr(h, Off)

(* complete(): the delivery is over, or goes to the heap. *)
Complete ==
  /\ flying > 0
  /\ \/ UNCHANGED <<heap, alarm>>
     \/ /\ Waiting + ready < scope.retries
        /\ \E w \in Backoffs :
             LET h == [heap EXCEPT ![w] = @ + 1] IN heap' = h /\ alarm' = Armed(h)
  /\ Dispatched(Window - flying + 1, ready)
  /\ UNCHANGED <<scope, target, bucket, pacer, nap, recent>>

RetriesDue ==
  /\ alarm = 0
  /\ heap' = [heap EXCEPT ![0] = 0]
  /\ Dispatched(Window - flying, ready + heap[0])
  /\ alarm' = EarliestOr(heap', Off)
  /\ UNCHANGED <<scope, target, bucket, pacer, nap, recent>>

-----------------------------------------------------------------------------
(* A step of time. *)

Later(n, most) == Min({most, n + 1})
Sooner(n)      == IF n = Off THEN Off ELSE n - 1

Clock ==
  /\ nap # 0 /\ alarm # 0 /\ drive.at # "acquire"
  /\ nap' = Sooner(nap) /\ alarm' = Sooner(alarm)
  /\ heap' = [w \in DOMAIN heap |-> IF w = Longest THEN 0
                                    ELSE heap[w + 1] + (IF w = 0 THEN heap[0] ELSE 0)]
  /\ bucket' = [bucket EXCEPT !.since = Later(@, PerSecond)]
  /\ pacer' = [pacer EXCEPT !.sinceTick = Later(@, Unit), !.sinceRefill = Later(@, PerSecond),
                 !.sinceHalved = Later(@, PerSecond)]
  /\ recent' = <<[released |-> 0, target |-> pacer.target]>> \o Front(recent)
  /\ UNCHANGED <<scope, target, drive, flying, ready>>

-----------------------------------------------------------------------------
User  == \E t \in scope.targets : SetTargetTps(t)
Drive == \/ Tick \/ Chunk \/ Rest \/ Take \/ Woken
         \/ LooksSaturated \/ CapacityBack \/ ReserveSlot

Next == User \/ Drive \/ Complete \/ RetriesDue \/ Clock

(* Code runs on, timers fire and time passes; a sink that is full is so for *)
(* a while only.  Nothing is asked of the destination or of the user.       *)
Spec == Init /\ [][Next]_vars /\ WF_vars(Drive) /\ WF_vars(RetriesDue) /\ WF_vars(Clock)

-----------------------------------------------------------------------------
(* Whatever the user does to the rate and however long the stream was       *)
(* paused or held up, no second sees more new publishes than twice the      *)
(* highest target in it: "a token bucket holding one second of burst".      *)
BurstBounded ==
  MapThenSumSet(LAMBDA n : recent[n].released, DOMAIN recent)
    <= 2 * Max({recent[n].target : n \in DOMAIN recent})

(* No retry stays in the heap past its time: the one timer is set for the   *)
(* earliest of them whenever one is added or taken out.                     *)
RetriesOnTime == \A w \in DOMAIN heap : heap[w] > 0 => alarm \in 0..w

(* Once a destination stops pushing back and the user leaves the rate       *)
(* alone, the pacer regains the whole target.                               *)
Throttles == drive.at \in {"saturated?", "reserve"} /\ pacer' # pacer
Recovers ==
  <>[][~Throttles /\ UNCHANGED target]_vars
    => <>[](Recovered(pacer).aimd = pacer.target * Unit)
=============================================================================
