---------------------------- MODULE DeliveryPump ----------------------------
(***************************************************************************)
(* The delivery loop shared by history replay and live streams             *)
(* (packages/sinks/src/pump.ts).  It runs on one JavaScript thread: an     *)
(* action is one synchronous stretch of code, from the callback that       *)
(* starts it to the return to the event loop, and everything the callback  *)
(* calls (dispatch, checkBreaker, stop, checkIdle) belongs to it.          *)
(*                                                                         *)
(* Time is abstracted: which retries are due when the timer fires, and how *)
(* many completions have left the breaker's 30-second window, are choices. *)
(* Payloads, metrics and the pacing rate are left out.                     *)
(*                                                                         *)
(* A definition marked "slip" is not part of the model: it is a mistake     *)
(* the definition below it could contain, kept to show that a property     *)
(* of this module notices it.                                              *)
(***************************************************************************)
EXTENDS Integers, Sequences, FiniteSets, SequencesExt

CONSTANTS
  Items,        (* the deliveries callers may submit                      *)
  Window,       (* sink.maxInFlight: most publishes outstanding           *)
  MaxAttempts,  (* attempts per delivery before it is dropped             *)
  BreakerMin    (* completions before the breaker may trip (100)          *)

ASSUME PumpAssumption ==
  /\ IsFiniteSet(Items)
  /\ Window \in Nat \ {0}
  /\ MaxAttempts \in Nat \ {0}
  /\ BreakerMin \in Nat \ {0}

VARIABLES
  at,           (* where each delivery stands, see Places                 *)
  attempts,     (* publishes of it that have completed                    *)
  ready,        (* retries that are due, in order                         *)
  slotWaiters,  (* submitters waiting for a window slot, in order         *)
  inFlight,     (* the window slots in use                                *)
  pending,      (* deliveries the pump still owes an outcome              *)
  completions,  (* outcomes inside the breaker's window, oldest first     *)
  stopped, tripped,
  drain         (* the caller's drain(): none, waiting, resolved, rejected *)

vars == <<at, attempts, ready, slotWaiters, inFlight, pending, completions,
          stopped, tripped, drain>>

(* "pacing": submit awaits the pacer; "capacity": it awaits a sink that is  *)
(* saturated; "waiting": in slotWaiters; "granted" and "refused": its       *)
(* waiter was called, submit has yet to resume; "flight": publish           *)
(* outstanding; "retry": in the heap; "ready": due; "labelling": its        *)
(* dropped label is being written.                                          *)
Submitting == {"pacing", "capacity", "waiting", "granted", "refused"}
Owed       == Submitting \union {"flight", "retry", "ready", "labelling"}
Done       == {"delivered", "dropped", "abandoned", "rejected"}
Places     == {"new"} \union Owed \union Done
HoldsSlot  == {"granted", "flight"}

In(places, a) == {i \in Items : a[i] \in places}

Least(m, n) == IF m <= n THEN m ELSE n

Init ==
  /\ at = [i \in Items |-> "new"]
  /\ attempts = [i \in Items |-> 0]
  /\ ready = <<>> /\ slotWaiters = <<>>
  /\ inFlight = 0 /\ pending = 0
  /\ completions = <<>>
  /\ stopped = FALSE /\ tripped = FALSE
  /\ drain = "none"

-----------------------------------------------------------------------------
(* dispatch(): with n slots in use, free slots go to the due retries r      *)
(* first, then to the waiting submitters w.                                 *)

Retried(r, n) == SubSeq(r, 1, Least(Len(r), Window - n))

GrantedOverRetries(r, w, n) == SubSeq(w, 1, Least(Len(w), Window - n))   \* slip: retries not counted

Granted(r, w, n) == SubSeq(w, 1, Least(Len(w), Window - n - Len(Retried(r, n))))

Rest(s, served) == SubSeq(s, Len(served) + 1, Len(s))

Dispatched(a, r, w, n) ==
  [i \in Items |-> IF i \in ToSet(Retried(r, n)) THEN "flight"
                   ELSE IF i \in ToSet(Granted(r, w, n)) THEN "granted"
                   ELSE a[i]]

SlotsAfter(r, w, n) == n + Len(Retried(r, n)) + Len(Granted(r, w, n))

(* stop(): the heap and the due retries are abandoned, and every waiting    *)
(* submitter is told there is no slot.                                      *)
Halted(a) ==
  [i \in Items |-> IF a[i] \in {"retry", "ready"} THEN "abandoned"
                   ELSE IF a[i] = "waiting" THEN "refused"
                   ELSE a[i]]

PendingAfterHeap(a, p) == p - Cardinality(In({"retry"}, a))   \* slip: due retries forgotten

PendingAfterStop(a, p) == p - Cardinality(In({"retry", "ready"}, a))

(* checkIdle(): a waiting drain resolves once nothing is owed. *)
Settled(d, p) == IF d = "waiting" /\ p <= 0 THEN "resolved" ELSE d

(* The breaker's rejection of whoever still waits in drain. *)
Rejected(d) == IF d = "waiting" THEN "rejected" ELSE d

(* recordCompletion(): append, after any number of the oldest have aged out. *)
Recorded(ok) ==
  {Append(SubSeq(completions, aged + 1, Len(completions)), ok) :
     aged \in 0..Len(completions)}

Failures(c) == Cardinality({k \in DOMAIN c : ~c[k]})

(* checkBreaker() *)
Trips(c) == ~stopped /\ Len(c) >= BreakerMin /\ 2 * Failures(c) > Len(c)

(* The rest of complete(): dispatch, checkBreaker, checkIdle, on the status *)
(* a, the debt p and the window c the branch above them left behind.        *)
AfterCompletion(a, p, c) ==
  LET n == inFlight - 1
      d == Dispatched(a, ready, slotWaiters, n)
  IN  /\ completions' = c
      /\ inFlight' = SlotsAfter(ready, slotWaiters, n)
      /\ \/ /\ ~Trips(c)
            /\ at' = d
            /\ ready' = Rest(ready, Retried(ready, n))
            /\ slotWaiters' = Rest(slotWaiters, Granted(ready, slotWaiters, n))
            /\ pending' = p
            /\ drain' = Settled(drain, p)
            /\ UNCHANGED <<stopped, tripped>>
         \/ /\ Trips(c)
            /\ at' = Halted(d)
            /\ ready' = <<>> /\ slotWaiters' = <<>>
            /\ pending' = PendingAfterStop(d, p)
            /\ drain' = Rejected(Settled(drain, PendingAfterStop(d, p)))
            /\ stopped' = TRUE /\ tripped' = TRUE

-----------------------------------------------------------------------------
(* The caller: submit, drain, stop.                                         *)

(* submit() throws the breaker's error or returns false at once when the    *)
(* pump is over, and otherwise counts the delivery before its first await.  *)
Submit(i) ==
  /\ at[i] = "new"
  /\ drain # "waiting"   \* both callers await drain before they go on
  /\ \/ /\ stopped
        /\ at' = [at EXCEPT ![i] = "rejected"]
        /\ UNCHANGED pending
     \/ /\ ~stopped
        /\ at' = [at EXCEPT ![i] = "pacing"]
        /\ pending' = pending + 1
  /\ UNCHANGED <<attempts, ready, slotWaiters, inFlight, completions, stopped, tripped, drain>>

(* The pacer has released it, and the sink is saturated. *)
AwaitCapacity(i) ==
  /\ at[i] = "pacing"
  /\ at' = [at EXCEPT ![i] = "capacity"]
  /\ UNCHANGED <<attempts, ready, slotWaiters, inFlight, pending, completions, stopped, tripped,
                 drain>>

(* It is not, or no longer: reserveSlot(), then launch() when a slot is free. *)
TakeSlot(i) ==
  /\ at[i] \in {"pacing", "capacity"} /\ ~stopped
  /\ inFlight < Window /\ ready = <<>>
  /\ inFlight' = inFlight + 1
  /\ at' = [at EXCEPT ![i] = "granted"]
  /\ UNCHANGED <<attempts, ready, slotWaiters, pending, completions, stopped, tripped, drain>>

AwaitSlot(i) ==
  /\ at[i] \in {"pacing", "capacity"} /\ ~stopped
  /\ inFlight >= Window \/ ready # <<>>
  /\ slotWaiters' = Append(slotWaiters, i)
  /\ at' = [at EXCEPT ![i] = "waiting"]
  /\ UNCHANGED <<attempts, ready, inFlight, pending, completions, stopped, tripped, drain>>

NoSlot(i) ==
  /\ at[i] \in {"pacing", "capacity"} /\ stopped
  /\ at' = [at EXCEPT ![i] = "refused"]
  /\ UNCHANGED <<attempts, ready, slotWaiters, inFlight, pending, completions, stopped, tripped,
                 drain>>

(* submit resumes with its slot, even if the pump has stopped since. *)
Launch(i) ==
  /\ at[i] = "granted"
  /\ at' = [at EXCEPT ![i] = "flight"]
  /\ UNCHANGED <<attempts, ready, slotWaiters, inFlight, pending, completions, stopped, tripped,
                 drain>>

(* submit resumes without one: the debt is cancelled, nobody is told. *)
Refuse(i) ==
  /\ at[i] = "refused"
  /\ at' = [at EXCEPT ![i] = "rejected"]
  /\ pending' = pending - 1
  /\ UNCHANGED <<attempts, ready, slotWaiters, inFlight, completions, stopped, tripped, drain>>

Drain ==
  /\ drain # "waiting"
  /\ In(Submitting, at) = {}   \* a caller drains after its submits have returned
  /\ drain' = IF tripped THEN "rejected" ELSE IF pending = 0 THEN "resolved" ELSE "waiting"
  /\ UNCHANGED <<at, attempts, ready, slotWaiters, inFlight, pending, completions, stopped,
                 tripped>>

Stop ==
  /\ ~stopped
  /\ stopped' = TRUE
  /\ at' = Halted(at)
  /\ ready' = <<>> /\ slotWaiters' = <<>>
  /\ pending' = PendingAfterStop(at, pending)
  /\ drain' = Settled(drain, pending')
  /\ UNCHANGED <<attempts, inFlight, completions, tripped>>

-----------------------------------------------------------------------------
(* The destination and the event loop: complete, the retry timer, labels.   *)

Tried(i) == attempts' = [attempts EXCEPT ![i] = @ + 1]

CompleteOk(i) ==
  /\ at[i] = "flight"
  /\ Tried(i)
  /\ \E c \in Recorded(TRUE) :
       AfterCompletion([at EXCEPT ![i] = "delivered"], pending - 1, c)

CompleteRetryFinished(i) ==   \* slip: a retry counted as finished
  /\ at[i] = "flight" /\ ~stopped
  /\ attempts[i] + 1 < MaxAttempts
  /\ Tried(i)
  /\ \E c \in Recorded(FALSE) : AfterCompletion([at EXCEPT ![i] = "retry"], pending - 1, c)

CompleteRetry(i) ==
  /\ at[i] = "flight" /\ ~stopped
  /\ attempts[i] + 1 < MaxAttempts
  /\ Tried(i)
  /\ \E c \in Recorded(FALSE) : AfterCompletion([at EXCEPT ![i] = "retry"], pending, c)

CompleteAbandoned(i) ==
  /\ at[i] = "flight" /\ stopped
  /\ Tried(i)
  /\ AfterCompletion([at EXCEPT ![i] = "abandoned"], pending - 1, completions)

CompleteUnlabelled(i, retryable) ==   \* slip: a refusal not labelled
  /\ at[i] = "flight" /\ ~stopped
  /\ retryable => attempts[i] + 1 >= MaxAttempts
  /\ Tried(i)
  /\ \E c \in Recorded(FALSE) :
       AfterCompletion([at EXCEPT ![i] = IF retryable THEN "labelling" ELSE "abandoned"],
                       IF retryable THEN pending ELSE pending - 1, c)

CompleteDropped(i, retryable) ==
  /\ at[i] = "flight" /\ ~stopped
  /\ retryable => attempts[i] + 1 >= MaxAttempts
  /\ Tried(i)
  /\ \E c \in Recorded(FALSE) : AfterCompletion([at EXCEPT ![i] = "labelling"], pending, c)

Complete(i) ==
  \/ CompleteOk(i)
  \/ CompleteRetry(i)
  \/ CompleteAbandoned(i)
  \/ \E retryable \in BOOLEAN : CompleteDropped(i, retryable)

(* onDropped has written the label: finish(). *)
LabelledQuietly(i) ==   \* slip: finish() without checkIdle()
  /\ at[i] = "labelling"
  /\ at' = [at EXCEPT ![i] = "dropped"]
  /\ pending' = pending - 1
  /\ UNCHANGED <<attempts, ready, slotWaiters, inFlight, completions, stopped, tripped, drain>>

Labelled(i) ==
  /\ at[i] = "labelling"
  /\ at' = [at EXCEPT ![i] = "dropped"]
  /\ pending' = pending - 1
  /\ drain' = Settled(drain, pending')
  /\ UNCHANGED <<attempts, ready, slotWaiters, inFlight, completions, stopped, tripped>>

(* The retry timer moves every due attempt to ready, in due order, and      *)
(* dispatches.  Jitter makes any order possible.                            *)
TimerFires ==
  \E due \in (SUBSET In({"retry"}, at)) \ {{}} : \E batch \in SetToSeqs(due) :
    LET r == ready \o batch
        a == [i \in Items |-> IF i \in due THEN "ready" ELSE at[i]]
    IN  /\ at' = Dispatched(a, r, slotWaiters, inFlight)
        /\ ready' = Rest(r, Retried(r, inFlight))
        /\ slotWaiters' = Rest(slotWaiters, Granted(r, slotWaiters, inFlight))
        /\ inFlight' = SlotsAfter(r, slotWaiters, inFlight)
        /\ UNCHANGED <<attempts, pending, completions, stopped, tripped, drain>>

-----------------------------------------------------------------------------
Reserve(i) == AwaitCapacity(i) \/ TakeSlot(i) \/ AwaitSlot(i) \/ NoSlot(i)
Resume(i)  == Launch(i) \/ Refuse(i)

Next ==
  \/ \E i \in Items : Submit(i) \/ Reserve(i) \/ Resume(i) \/ Complete(i) \/ Labelled(i)
  \/ TimerFires
  \/ Drain \/ Stop

(* Promise continuations and timers run, the pacer releases, and a sink     *)
(* settles every publish (interface.ts: ok:false on failure or abort).      *)
(* Nothing forces a saturated sink to have capacity again (Sinks,           *)
(* CapacityAsDocumented), nor a caller to submit, drain or stop.            *)
Fairness ==
  /\ \A i \in Items : /\ WF_vars(at[i] = "pacing" /\ Reserve(i))
                      /\ WF_vars(Resume(i))
                      /\ WF_vars(Complete(i))
                      /\ WF_vars(Labelled(i))
  /\ WF_vars(TimerFires)

Spec == Init /\ [][Next]_vars

FairSpec == Spec /\ Fairness

-----------------------------------------------------------------------------
TypeOK ==
  /\ at \in [Items -> Places]
  /\ attempts \in [Items -> Nat]
  /\ ready \in Seq(Items) /\ slotWaiters \in Seq(Items)
  /\ inFlight \in Nat /\ pending \in Int
  /\ completions \in Seq(BOOLEAN)
  /\ stopped \in BOOLEAN /\ tripped \in BOOLEAN
  /\ drain \in {"none", "waiting", "resolved", "rejected"}

(* The two queues hold exactly the deliveries that are due or waiting, each *)
(* once, and a stopped pump has nobody left in them or in the retry heap.   *)
IsQueueOf(s, place, a) ==
  /\ s \in Seq(Items)
  /\ \A j, k \in 1..Len(s) : s[j] = s[k] => j = k
  /\ ToSet(s) = In({place}, a)

QueuesMatch ==
  /\ IsQueueOf(ready, "ready", at)
  /\ IsQueueOf(slotWaiters, "waiting", at)
  /\ stopped => In({"retry", "ready", "waiting"}, at) = {}
  /\ tripped => stopped

(* The two counters the loop steers by never drift from the deliveries they *)
(* count, whatever the order of completions, retries, stop and the breaker; *)
(* a drift would make drain hang or return early, or leak window slots.     *)
Accounting ==
  /\ inFlight = Cardinality(In(HoldsSlot, at))
  /\ pending = Cardinality(In(Owed, at))

(* Never more than the sink's window of publishes outstanding, and never a  *)
(* slot left free while a due retry or a submitter waits for one.           *)
WindowUsed ==
  /\ inFlight <= Window
  /\ inFlight < Window => ready = <<>> /\ slotWaiters = <<>>

(* When a waiting drain() resolves and nothing stopped the pump, every      *)
(* delivery submitted so far was acknowledged or labelled dropped.          *)
DrainMeansSettled ==
  [][drain = "waiting" /\ drain' = "resolved" /\ ~stopped'
       => \A i \in Items : at'[i] \in {"new", "delivered", "dropped"}]_vars

(* Not checked: the code departs from it (README, "Departures").            *)
(* drain() as its comment documents it: "Resolves when every submitted      *)
(* delivery has been delivered or dropped. Rejects if the breaker tripped." *)
DrainAsDocumented ==
  [][drain = "waiting" /\ drain' = "resolved" /\ tripped'
       => \A i \in Items : at'[i] \in {"new", "delivered", "dropped"}]_vars

(* Whoever awaits drain() is answered, and whoever awaits submit() too,     *)
(* through retries, drops, stop and the breaker: no lost wake-up.  Nothing  *)
(* is promised to a submit while it waits for a saturated sink's capacity.  *)
HeldByPump == Submitting \ {"capacity"}
CallersAnswered ==
  /\ drain = "waiting" ~> drain # "waiting"
  /\ \A i \in Items : at[i] \in HeldByPump ~> at[i] \notin HeldByPump

(* The pump keeps the contract. *)
FateOf(place) ==
  IF place = "rejected" THEN "refused"
  ELSE IF place \in Owed THEN "open"
  ELSE place

Contract == INSTANCE DeliveryContract
              WITH fate <- [i \in Items |-> FateOf(at[i])], closed <- stopped

ImplementsContract == Contract!CSpec
=============================================================================
