------------------------- MODULE RunLifecycle_proofs -------------------------
(***************************************************************************)
(* A run is completed only when every partition has been generated, and    *)
(* failed only when a partition has used up its attempts, for any number   *)
(* of partitions, attempts, concurrent control requests and crashes.       *)
(***************************************************************************)
EXTENDS RunLifecycle, FiniteSetTheorems, TLAPS

(* Whoever is past maybeCompleteRun's first check saw every partition done, *)
(* and what was done once stays generated, even if a second job of the same *)
(* partition takes its row back to `running`.                               *)
Past == {"reading", "completing", "following"}

Whole ==
  /\ \A p \in Partitions : part[p] = "done" => p \in written
  /\ (\E w \in Workers : step[w] \in Past) => written = Partitions
  /\ CompletedIsWhole

(* What a job has failed so far is never more than its partition has.       *)
Failing(j) == IF step[j] = "failing" THEN 1 ELSE 0

Earned ==
  /\ \A j \in Jobs : failures[j[1]] >= Attempts \/ failures[j[1]] >= made[j] + Failing(j)
  /\ \A j \in Jobs : step[j] = "failing" => failures[j[1]] >= Attempts
  /\ FailureEarned

-----------------------------------------------------------------------------
(* The rows, jobs and calls stay of their types.                            *)

LEMMA JobsOfPartitions ==
  ASSUME RunAssumption
  PROVE  /\ \A j \in Jobs : j[1] \in Partitions /\ j \in Workers /\ j # Boot
         /\ Boot \in Workers
         /\ Workers = Jobs \union {Boot}
<1>1. \A j \in Jobs : j[1] \in Partitions
  BY DEF Jobs
<1>2. \A j \in Jobs : j # Boot
  BY <1>1 DEF Boot, Partitions
<1>3. QED BY <1>1, <1>2 DEF Workers

LEMMA QuietCall ==
  /\ Quiet \in Calls
  /\ [Quiet EXCEPT !.op = "launch", !.at = "scan"] \in Calls
  /\ [Quiet EXCEPT !.op = "boot", !.at = "list"] \in Calls
  /\ \A at \in {"done", "threw"} : [Quiet EXCEPT !.at = at] \in Calls
BY DEF Quiet, Calls, Ops, PartRows

(* Updating a call's fields. *)
LEMMA CallUpdates ==
  ASSUME NEW r \in Calls
  PROVE  /\ [r EXCEPT !.next = r.next + 1] \in Calls
         /\ \A op \in Ops : [r EXCEPT !.op = op, !.at = "list"] \in Calls
         /\ \A seen \in [Partitions -> PartRows] : \A k \in Nat :
              /\ [r EXCEPT !.at = "scan", !.seen = seen] \in Calls
              /\ [r EXCEPT !.at = "scan", !.seen = seen, !.next = 1, !.suffix = k] \in Calls
<1>1. /\ r.op \in Ops /\ r.at \in {"idle", "list", "scan", "done", "threw"}
      /\ r.next \in Nat /\ r.next + 1 \in Nat /\ r.suffix \in Nat
      /\ r.seen \in [Partitions -> PartRows]
      /\ r = [op |-> r.op, at |-> r.at, next |-> r.next, suffix |-> r.suffix, seen |-> r.seen]
  BY DEF Calls
<1>2. [r EXCEPT !.next = r.next + 1] \in Calls
  BY <1>1 DEF Calls
<1>3. \A op \in Ops : [r EXCEPT !.op = op, !.at = "list"] \in Calls
  BY DEF Calls
<1>4. ASSUME NEW seen \in [Partitions -> PartRows], NEW k \in Nat
      PROVE  /\ [r EXCEPT !.at = "scan", !.seen = seen] \in Calls
             /\ [r EXCEPT !.at = "scan", !.seen = seen, !.next = 1, !.suffix = k] \in Calls
  BY DEF Calls
<1>5. QED BY <1>2, <1>3, <1>4

LEMMA InitType ==
  ASSUME RunAssumption, Init
  PROVE  TypeOK
<1>1. call \in [Callers -> Calls]
  BY QuietCall DEF Init, Launched
<1>2. part \in [Partitions -> PartRows] /\ failures \in [Partitions -> Nat]
  BY DEF Init, Launched, PartRows
<1>3. /\ job \in [Jobs -> Live \union {"none", "completed", "failed"}]
      /\ made \in [Jobs -> Nat] /\ stalls \in [Jobs -> Nat]
      /\ step \in [Workers -> Steps]
  BY DEF Init, Launched, Steps
<1>4. status \in States /\ crashes \in 0..Crashes
  BY DEF Init, Launched, States, RunAssumption
<1>5. QED BY <1>1, <1>2, <1>3, <1>4 DEF Init, Launched, TypeOK

(* The requests and the loops of boot and launch. *)
LEMMA CallsType ==
  ASSUME RunAssumption, TypeOK,
         \/ \E r \in Requests : \E op \in Removing \union Resuming : Ask(r, op)
         \/ \E c \in Callers : Handle(c) \/ ScanFails(c)
  PROVE  TypeOK'
<1>1. ASSUME NEW r \in Requests, NEW op \in Removing \union Resuming, Ask(r, op)
      PROVE  TypeOK'
  <2>1. r \in Callers
    BY DEF Callers
  <2>2. call' \in [Callers -> Calls]
    BY <1>1, <2>1 DEF Ask, TypeOK, Calls, Ops
  <2>3. retryCount' \in Nat
    BY <1>1 DEF Ask, TypeOK
  <2>4. QED BY <1>1, <2>2, <2>3 DEF Ask, TypeOK, queue, ghost
<1>2. ASSUME NEW c \in Callers, ListPartitions(c)
      PROVE  TypeOK'
  <2>1. call' \in [Callers -> Calls]
    <3>1. call[c] \in Calls /\ part \in [Partitions -> PartRows] /\ retryCount \in Nat
      BY DEF TypeOK
    <3>2. PICK k \in Nat : call' = [call EXCEPT ![c] =
              [call[c] EXCEPT !.at = "scan", !.seen = part, !.next = 1, !.suffix = k]]
      BY <1>2, <3>1 DEF ListPartitions
    <3>3. QED BY <3>1, <3>2, CallUpdates DEF TypeOK
  <2>2. QED BY <1>2, <2>1 DEF ListPartitions, TypeOK, rows, queue, ghost
<1>3. ASSUME NEW c \in Callers, Advance(c)
      PROVE  call' \in [Callers -> Calls]
  <2>1. call[c] \in Calls
    BY DEF TypeOK
  <2>2. [call[c] EXCEPT !.next = call[c].next + 1] \in Calls
    BY <2>1, CallUpdates
  <2>3. call' = [call EXCEPT ![c] = [call[c] EXCEPT !.next = call[c].next + 1]]
    BY <1>3 DEF Advance
  <2>4. QED BY <2>2, <2>3 DEF TypeOK
<1>4. ASSUME NEW c \in Callers, Skip(c)
      PROVE  TypeOK'
  BY <1>3, <1>4 DEF Skip, TypeOK, rows, queue, ghost
<1>5. ASSUME NEW c \in Callers, Enqueue(c)
      PROVE  TypeOK'
  <2>1. call' \in [Callers -> Calls]
    BY <1>3, <1>5 DEF Enqueue
  <2>2. part' \in [Partitions -> PartRows]
    BY <1>5 DEF Enqueue, TypeOK, PartRows
  <2>3. /\ job' \in [Jobs -> Live \union {"none", "completed", "failed"}]
        /\ made' \in [Jobs -> Nat] /\ stalls' \in [Jobs -> Nat]
    BY <1>5, SMTT(30) DEF Enqueue, TypeOK, Live, queue
  <2>4. QED BY <1>5, <2>1, <2>2, <2>3 DEF Enqueue, TypeOK, ghost
<1>6. ASSUME NEW c \in Callers, Answered(c)
      PROVE  call' \in [Callers -> Calls]
  BY <1>6, QuietCall DEF Answered, TypeOK
<1>7. ASSUME NEW c \in Callers, Remove(c)
      PROVE  TypeOK'
  <2>1. call' \in [Callers -> Calls]
    BY <1>3, <1>6, <1>7 DEF Remove
  <2>2. job' \in [Jobs -> Live \union {"none", "completed", "failed"}]
    BY <1>7 DEF Remove, TypeOK
  <2>3. QED BY <1>7, <2>1, <2>2 DEF Remove, TypeOK, rows, ghost
<1>8. ASSUME NEW c \in Callers, ScanFails(c)
      PROVE  TypeOK'
  <2>1. call' \in [Callers -> Calls]
    BY <1>8, QuietCall DEF ScanFails, TypeOK
  <2>2. status' \in States
    BY <1>8 DEF ScanFails, TypeOK, States
  <2>3. QED BY <1>8, <2>1, <2>2 DEF ScanFails, TypeOK, queue, ghost
<1>9. ASSUME NEW c \in Callers, WriteStatus(c)
      PROVE  TypeOK'
  <2>1. call' \in [Callers -> Calls]
    BY <1>6, <1>9 DEF WriteStatus
  <2>2. status' \in States
    BY <1>9 DEF WriteStatus, TypeOK, States
  <2>3. QED BY <1>9, <2>1, <2>2 DEF WriteStatus, TypeOK, queue, ghost
<1>10. QED BY <1>1, <1>2, <1>4, <1>5, <1>7, <1>8, <1>9 DEF Handle

(* A job, the completion check, crashes and restarts. *)
LEMMA WorkType ==
  ASSUME RunAssumption, TypeOK,
         \/ \E j \in Jobs : Run(j)
         \/ \E w \in Workers : Work(w)
         \/ \E host \in BOOLEAN : Crash(host)
         \/ Restart \/ ResumeAfterRestart
  PROVE  TypeOK'
<1>1. ASSUME NEW w \in Workers, NEW s \in Steps, GoTo(w, s)
      PROVE  step' \in [Workers -> Steps]
  BY <1>1 DEF GoTo, TypeOK
<1>2. ASSUME NEW w \in Workers, Return(w)
      PROVE  /\ step' \in [Workers -> Steps]
             /\ job' \in [Jobs -> Live \union {"none", "completed", "failed"}]
  BY <1>2, <1>1 DEF Return, TypeOK, Steps
<1>3. ASSUME NEW j \in Jobs, Run(j)
      PROVE  TypeOK'
  <2>1. j \in Workers /\ j[1] \in Partitions
    BY JobsOfPartitions
  <2>2. ASSUME Thrown(j)
        PROVE  /\ step' \in [Workers -> Steps] /\ made' \in [Jobs -> Nat]
               /\ job' \in [Jobs -> Live \union {"none", "completed", "failed"}]
    <3>1. step' \in [Workers -> Steps]
      BY <2>1, <2>2, <1>1 DEF Thrown, Steps
    <3>2. QED BY <2>2, <3>1 DEF Thrown, TypeOK, Live
  <2>3. CASE Pick(j)
    <3>1. step' \in [Workers -> Steps]
      BY <2>1, <2>3, <1>1 DEF Pick, Steps
    <3>2. QED BY <2>3, <3>1 DEF Pick, TypeOK, Live, rows, ghost
  <2>4. CASE OnPartitionRunning(j)
    <3>1. step' \in [Workers -> Steps]
      BY <2>1, <2>4, <1>1 DEF OnPartitionRunning, Steps
    <3>2. QED BY <2>4, <3>1 DEF OnPartitionRunning, TypeOK, PartRows, queue, ghost
  <2>5. CASE OnPartitionDone(j)
    <3>1. step' \in [Workers -> Steps]
      BY <2>1, <2>5, <1>1 DEF OnPartitionDone, Steps
    <3>2. QED BY <2>1, <2>5, <3>1 DEF OnPartitionDone, TypeOK, PartRows, queue
  <2>6. CASE AttemptFails(j)
    <3>1. failures' \in [Partitions -> Nat]
      BY <2>1, <2>6 DEF AttemptFails, Counted, TypeOK
    <3>2. /\ step' \in [Workers -> Steps] /\ made' \in [Jobs -> Nat]
          /\ job' \in [Jobs -> Live \union {"none", "completed", "failed"}]
      BY <2>1, <2>2, <2>6, <1>1 DEF AttemptFails, TypeOK, Steps
    <3>3. part' \in [Partitions -> PartRows]
      BY <2>6 DEF AttemptFails, TypeOK, PartRows
    <3>4. QED BY <2>6, <3>1, <3>2, <3>3 DEF AttemptFails, TypeOK
  <2>7. CASE OnPartitionFailed(j)
    BY <2>2, <2>7 DEF OnPartitionFailed, TypeOK, States, ghost
  <2>8. CASE HandBack(j)
    BY <2>8 DEF HandBack, TypeOK, Live, rows, ghost
  <2>9. QED BY <1>3, <2>3, <2>4, <2>5, <2>6, <2>7, <2>8 DEF Run
<1>4. ASSUME NEW w \in Workers, Work(w)
      PROVE  TypeOK'
  <2>1. CASE ListDone(w)
    <3>1. /\ step' \in [Workers -> Steps]
          /\ job' \in [Jobs -> Live \union {"none", "completed", "failed"}]
      BY <2>1, <1>1, <1>2 DEF ListDone, TypeOK, Steps
    <3>2. QED BY <2>1, <3>1 DEF ListDone, TypeOK, rows, ghost
  <2>2. CASE ReadRun(w)
    <3>1. /\ step' \in [Workers -> Steps]
          /\ job' \in [Jobs -> Live \union {"none", "completed", "failed"}]
      BY <2>2, <1>1, <1>2 DEF ReadRun, TypeOK, Steps
    <3>2. QED BY <2>2, <3>1 DEF ReadRun, TypeOK, rows, ghost
  <2>3. CASE Complete(w)
    <3>1. step' \in [Workers -> Steps]
      BY <2>3, <1>1 DEF Complete, Steps
    <3>2. QED BY <2>3, <3>1 DEF Complete, TypeOK, States, queue, ghost
  <2>4. CASE FollowUp(w)
    BY <2>4, <1>2 DEF FollowUp, TypeOK, rows
  <2>5. QED BY <1>4, <2>1, <2>2, <2>3, <2>4 DEF Work
<1>5. ASSUME NEW host \in BOOLEAN, Crash(host)
      PROVE  TypeOK'
  <2>1. call' \in [Callers -> Calls]
    BY <1>5, QuietCall DEF Crash, TypeOK
  <2>2. /\ job' \in [Jobs -> Live \union {"none", "completed", "failed"}]
        /\ step' \in [Workers -> Steps]
    BY <1>5 DEF Crash, TypeOK, Live, Steps
  <2>3. crashes' \in 0..Crashes
    BY <1>5 DEF Crash, TypeOK, RunAssumption
  <2>4. QED BY <1>5, <2>1, <2>2, <2>3 DEF Crash, TypeOK, rows, ghost
<1>6. CASE Restart
  <2>1. call' \in [Callers -> Calls]
    BY <1>6, QuietCall DEF Restart, TypeOK
  <2>2. QED BY <1>6, <2>1 DEF Restart, TypeOK, rows, queue, ghost
<1>7. CASE ResumeAfterRestart
  <2>1. "boot" \in Callers
    BY DEF Callers
  <2>2. call' \in [Callers -> Calls]
    <3>1. call["boot"] \in Calls /\ part \in [Partitions -> PartRows]
      BY <2>1 DEF TypeOK
    <3>2. [call["boot"] EXCEPT !.at = "scan", !.seen = part] \in Calls
      BY <3>1, CallUpdates
    <3>3. \/ call' = [call EXCEPT !["boot"] = [Quiet EXCEPT !.at = "done"]]
          \/ call' = [call EXCEPT !["boot"] = [call["boot"] EXCEPT !.at = "scan", !.seen = part]]
      BY <1>7 DEF ResumeAfterRestart, Answered
    <3>4. QED BY <3>2, <3>3, QuietCall DEF TypeOK
  <2>3. step' \in [Workers -> Steps]
    BY <1>7, <1>1, JobsOfPartitions DEF ResumeAfterRestart, TypeOK, Steps
  <2>4. QED BY <1>7, <2>2, <2>3 DEF ResumeAfterRestart, TypeOK, rows, queue, ghost
<1>8. QED BY <1>3, <1>4, <1>5, <1>6, <1>7

-----------------------------------------------------------------------------
(* A completed run is whole.                                                *)

LEMMA WholeInit ==
  ASSUME RunAssumption, Init
  PROVE  Whole
BY DEF Init, Launched, Whole, CompletedIsWhole, Past

(* Steps that leave the partition rows, what was generated and the run's    *)
(* status alone, and take nobody past the check.                            *)
LEMMA WholeKept ==
  ASSUME Whole, UNCHANGED <<written, followed>>,
         \A p \in Partitions : part'[p] = "done" => part[p] = "done",
         \A w \in Workers : step'[w] \in Past => step[w] \in Past,
         status' = "completed" => status = "completed"
  PROVE  Whole'
BY DEF Whole, CompletedIsWhole

LEMMA WholeCalls ==
  ASSUME RunAssumption, TypeOK, Whole,
         \/ \E r \in Requests : \E op \in Removing \union Resuming : Ask(r, op)
         \/ \E c \in Callers : Handle(c) \/ ScanFails(c)
  PROVE  Whole'
<1>1. UNCHANGED <<step, written, followed>>
  BY DEF Ask, Handle, ListPartitions, Skip, Enqueue, Remove, ScanFails, WriteStatus, ghost
<1>2. ASSUME NEW p \in Partitions, part'[p] = "done"
      PROVE  part[p] = "done"
  BY <1>2 DEF Ask, Handle, ListPartitions, Skip, Enqueue, Remove, ScanFails, WriteStatus,
              rows, TypeOK
<1>3. status' = "completed" => status = "completed"
  BY DEF Ask, Handle, ListPartitions, Skip, Enqueue, Remove, ScanFails, WriteStatus, rows
<1>4. QED BY <1>1, <1>2, <1>3, WholeKept

LEMMA WholeWork ==
  ASSUME RunAssumption, TypeOK, Whole,
         \/ \E j \in Jobs : Run(j)
         \/ \E w \in Workers : Work(w)
         \/ \E host \in BOOLEAN : Crash(host)
         \/ Restart \/ ResumeAfterRestart
  PROVE  Whole'
<1>1. ASSUME NEW j \in Jobs, Run(j)
      PROVE  Whole'
  <2>1. j \in Workers /\ j[1] \in Partitions
    BY JobsOfPartitions
  <2>2. CASE Pick(j) \/ HandBack(j)
    BY <2>1, <2>2, WholeKept DEF Pick, HandBack, GoTo, rows, ghost, TypeOK, Past
  <2>3. CASE OnPartitionRunning(j)
    BY <2>1, <2>3, WholeKept DEF OnPartitionRunning, GoTo, ghost, TypeOK, Past
  <2>4. CASE OnPartitionDone(j)
    <3>1. \A p \in Partitions : part'[p] = "done" => p \in written'
      BY <2>1, <2>4 DEF OnPartitionDone, Whole, TypeOK
    <3>2. written' \subseteq Partitions /\ written \subseteq written'
      BY <2>1, <2>4 DEF OnPartitionDone, TypeOK
    <3>3. \A w \in Workers : step'[w] \in Past => step[w] \in Past
      BY <2>1, <2>4 DEF OnPartitionDone, GoTo, TypeOK, Past
    <3>4. status' = status /\ followed' = followed
      BY <2>4 DEF OnPartitionDone
    <3>5. QED BY <3>1, <3>2, <3>3, <3>4 DEF Whole, CompletedIsWhole
  <2>5. CASE AttemptFails(j)
    <3>1. \A p \in Partitions : part'[p] = "done" => part[p] = "done"
      BY <2>1, <2>5 DEF AttemptFails, TypeOK
    <3>2. \A w \in Workers : step'[w] \in Past => step[w] \in Past
      BY <2>1, <2>5 DEF AttemptFails, Thrown, GoTo, TypeOK, Past
    <3>3. QED BY <2>5, <3>1, <3>2, WholeKept DEF AttemptFails
  <2>6. CASE OnPartitionFailed(j)
    BY <2>1, <2>6, WholeKept DEF OnPartitionFailed, Thrown, GoTo, ghost, TypeOK, Past
  <2>7. QED BY <1>1, <2>2, <2>3, <2>4, <2>5, <2>6 DEF Run
<1>2. ASSUME NEW w \in Workers, Work(w)
      PROVE  Whole'
  <2>1. CASE ListDone(w)
    <3>1. CASE AllDone
      <4>1. written = Partitions
        BY <3>1 DEF AllDone, Whole, TypeOK
      <4>2. UNCHANGED <<part, written, followed>>
        BY <2>1 DEF ListDone, rows, ghost
      <4>3. QED BY <4>1, <4>2 DEF Whole, CompletedIsWhole
    <3>2. CASE ~AllDone
      BY <2>1, <3>2, WholeKept DEF ListDone, Return, GoTo, rows, ghost, TypeOK, Past
    <3>3. QED BY <3>1, <3>2
  <2>2. CASE ReadRun(w)
    <3>1. step[w] \in Past
      BY <2>2 DEF ReadRun, Past
    <3>2. QED BY <2>2, <3>1, WholeKept DEF ReadRun, Return, GoTo, rows, ghost, TypeOK
  <2>3. CASE Complete(w)
    <3>1. written = Partitions
      BY <2>3 DEF Complete, Whole, Past
    <3>2. UNCHANGED <<part, written, followed>>
      BY <2>3 DEF Complete, ghost
    <3>3. QED BY <3>1, <3>2 DEF Whole, CompletedIsWhole
  <2>4. CASE FollowUp(w)
    <3>1. written = Partitions
      BY <2>4 DEF FollowUp, Whole, Past
    <3>2. UNCHANGED <<part, written>>
      BY <2>4 DEF FollowUp, rows
    <3>3. QED BY <3>1, <3>2 DEF Whole, CompletedIsWhole
  <2>5. QED BY <1>2, <2>1, <2>2, <2>3, <2>4 DEF Work
<1>3. ASSUME NEW host \in BOOLEAN, Crash(host)
      PROVE  Whole'
  BY <1>3, WholeKept DEF Crash, rows, ghost, Past
<1>4. CASE Restart
  BY <1>4, WholeKept DEF Restart, rows, ghost
<1>5. CASE ResumeAfterRestart
  <2>1. \A w \in Workers : step'[w] \in Past => step[w] \in Past
    BY <1>5, JobsOfPartitions DEF ResumeAfterRestart, GoTo, TypeOK, Past
  <2>2. QED BY <1>5, <2>1, WholeKept DEF ResumeAfterRestart, rows, ghost
<1>6. QED BY <1>1, <1>2, <1>3, <1>4, <1>5

-----------------------------------------------------------------------------
(* A failure is earned.                                                     *)

LEMMA EarnedInit ==
  ASSUME RunAssumption, Init
  PROVE  Earned
<1>1. \A j \in Jobs : failures[j[1]] = 0 /\ made[j] = 0 /\ step[j] # "failing"
  BY JobsOfPartitions DEF Init, Launched
<1>2. QED BY <1>1 DEF Init, Launched, Earned, Failing, FailureEarned

(* Steps that add no failed attempt and no failure. *)
LEMMA EarnedKept ==
  ASSUME RunAssumption, TypeOK, TypeOK', Earned, failures' = failures,
         \A j \in Jobs : made'[j] <= made[j] \/ made'[j] + Failing(j)' <= made[j] + Failing(j),
         \A j \in Jobs : step'[j] = "failing" => step[j] = "failing",
         \A p \in Partitions : part'[p] = "failed" => part[p] = "failed",
         status' = "failed" => status = "failed" \/ call'["launch"].at = "threw"
                               \/ \E j \in Jobs : step[j] = "failing",
         call["launch"].at = "threw" => call'["launch"].at = "threw"
  PROVE  Earned'
<1>1. \A j \in Jobs : j[1] \in Partitions /\ j \in Workers
  BY JobsOfPartitions
<1>2. \A j \in Jobs : /\ failures[j[1]] \in Nat /\ made[j] \in Nat /\ made'[j] \in Nat
                     /\ Failing(j) \in {0, 1} /\ Failing(j)' \in {0, 1}
                     /\ Failing(j)' <= Failing(j)
  BY <1>1 DEF TypeOK, Failing
<1>3. \A j \in Jobs : failures'[j[1]] >= Attempts \/ failures'[j[1]] >= made'[j] + Failing(j)'
  <2> SUFFICES ASSUME NEW j \in Jobs
               PROVE  failures[j[1]] >= Attempts \/ failures[j[1]] >= made'[j] + Failing(j)'
    OBVIOUS
  <2>1. failures[j[1]] >= Attempts \/ failures[j[1]] >= made[j] + Failing(j)
    BY DEF Earned
  <2>2. made'[j] + Failing(j)' <= made[j] + Failing(j)
    BY <1>2
  <2>3. Attempts \in Nat
    BY DEF RunAssumption
  <2>4. QED BY <2>1, <2>2, <2>3, <1>2
<1>4. \A j \in Jobs : step'[j] = "failing" => failures'[j[1]] >= Attempts
  BY DEF Earned
<1>5. FailureEarned'
  <2>1. status' = "failed" => \/ \E p \in Partitions : failures[p] >= Attempts
                             \/ call'["launch"].at = "threw"
    BY <1>1 DEF Earned, FailureEarned
  <2>2. QED BY <2>1 DEF Earned, FailureEarned
<1>6. QED BY <1>3, <1>4, <1>5 DEF Earned

LEMMA EarnedCalls ==
  ASSUME RunAssumption, TypeOK, TypeOK', Earned,
         \/ \E r \in Requests : \E op \in Removing \union Resuming : Ask(r, op)
         \/ \E c \in Callers : Handle(c) \/ ScanFails(c)
  PROVE  Earned'
<1>1. UNCHANGED <<step, failures>>
  BY DEF Ask, Handle, ListPartitions, Skip, Enqueue, Remove, ScanFails, WriteStatus, ghost
<1>2. \A j \in Jobs : made'[j] <= made[j] /\ Failing(j)' = Failing(j)
  <2>1. made' = made \/ \E i : made' = [made EXCEPT ![i] = 0]
    BY DEF Ask, Handle, ListPartitions, Skip, Enqueue, Remove, ScanFails, WriteStatus, queue
  <2>2. \A j \in Jobs : made[j] \in Nat /\ (made'[j] = made[j] \/ made'[j] = 0)
    BY <2>1 DEF TypeOK
  <2>3. QED BY <1>1, <2>2 DEF Failing
<1>3. \A p \in Partitions : part'[p] = "failed" => part[p] = "failed"
  BY DEF Ask, Handle, ListPartitions, Skip, Enqueue, Remove, ScanFails, WriteStatus, rows, TypeOK
<1>4. "launch" \in Callers /\ "launch" \notin Requests
  BY DEF Callers, RunAssumption
<1>5. call["launch"].at = "threw" => call'["launch"].at = "threw"
  <2>1. ASSUME NEW r \in Requests, NEW op \in Removing \union Resuming, Ask(r, op)
        PROVE  call'["launch"] = call["launch"]
    BY <1>4, <2>1 DEF Ask, TypeOK
  <2>2. ASSUME NEW c \in Callers, Handle(c) \/ ScanFails(c), call["launch"].at = "threw"
        PROVE  call'["launch"] = call["launch"]
    <3>1. call[c].at \in {"list", "scan"}
      BY <2>2 DEF Handle, ListPartitions, Skip, Enqueue, Remove, ScanFails, WriteStatus
    <3>2. c # "launch"
      BY <2>2, <3>1
    <3>3. \E v : call' = [call EXCEPT ![c] = v]
      BY <2>2, ZenonT(30) DEF Handle, ListPartitions, Skip, Enqueue, Remove, ScanFails, WriteStatus,
                  Advance, Answered
    <3>4. QED BY <1>4, <3>2, <3>3 DEF TypeOK
  <2>3. QED BY <2>1, <2>2
<1>6. status' = "failed" => status = "failed" \/ call'["launch"].at = "threw"
  <2>1. ASSUME NEW c \in Callers, ScanFails(c), status' = "failed", status # "failed"
        PROVE  call'["launch"].at = "threw"
    <3>1. c = "launch"
      BY <2>1 DEF ScanFails
    <3>2. call' = [call EXCEPT !["launch"] = [Quiet EXCEPT !.at = "threw"]]
      BY <2>1, <3>1 DEF ScanFails
    <3>3. QED BY <1>4, <3>2 DEF TypeOK, Quiet
  <2>2. ASSUME NEW c \in Callers, WriteStatus(c), status' = "failed"
        PROVE  status = "failed"
    BY <2>2 DEF WriteStatus, Resuming
  <2>3. ASSUME NEW c \in Callers, ListPartitions(c) \/ Skip(c) \/ Enqueue(c) \/ Remove(c)
        PROVE  status' = status
    BY <2>3 DEF ListPartitions, Skip, Enqueue, Remove, rows
  <2>4. QED BY <2>1, <2>2, <2>3 DEF Handle, Ask
<1>7. QED BY <1>1, <1>2, <1>3, <1>5, <1>6, EarnedKept

LEMMA EarnedWork ==
  ASSUME RunAssumption, TypeOK, TypeOK', Earned,
         \/ \E j \in Jobs : Run(j)
         \/ \E w \in Workers : Work(w)
         \/ \E host \in BOOLEAN : Crash(host)
         \/ Restart \/ ResumeAfterRestart
  PROVE  Earned'
<1>1. ASSUME NEW j \in Jobs, Run(j)
      PROVE  Earned'
  <2>1. j \in Workers /\ j[1] \in Partitions
    BY JobsOfPartitions
  <2>2. CASE Pick(j) \/ HandBack(j)
    <3>1. UNCHANGED <<rows, made, call, failures>>
      BY <2>2 DEF Pick, HandBack, ghost
    <3>2. \A i \in Jobs : step'[i] = "failing" => step[i] = "failing"
      BY <2>1, <2>2, JobsOfPartitions DEF Pick, HandBack, GoTo, TypeOK
    <3>3. \A i \in Jobs : made'[i] <= made[i]
      BY <3>1 DEF TypeOK
    <3>4. QED BY <3>1, <3>2, <3>3, EarnedKept DEF rows
  <2>3. CASE OnPartitionRunning(j) \/ OnPartitionDone(j)
    <3>1. UNCHANGED <<status, made, call, failures>>
      BY <2>3 DEF OnPartitionRunning, OnPartitionDone, queue, ghost
    <3>2. \A i \in Jobs : step'[i] = "failing" => step[i] = "failing"
      BY <2>1, <2>3, JobsOfPartitions DEF OnPartitionRunning, OnPartitionDone, GoTo, TypeOK
    <3>3. \A p \in Partitions : part'[p] = "failed" => part[p] = "failed"
      BY <2>1, <2>3 DEF OnPartitionRunning, OnPartitionDone, TypeOK
    <3>4. \A i \in Jobs : made'[i] <= made[i]
      BY <3>1 DEF TypeOK
    <3>5. QED BY <3>1, <3>2, <3>3, <3>4, EarnedKept
  <2>4. CASE AttemptFails(j)
    <3> DEFINE p == j[1]
    <3>1. \A q \in Partitions : failures[q] \in Nat /\ failures'[q] \in Nat
      BY DEF TypeOK
    <3>2. /\ made[j] \in Nat /\ Attempts \in Nat
          /\ step[j] # "failing"
          /\ failures[p] >= Attempts \/ failures[p] >= made[j]
      BY <2>4 DEF AttemptFails, TypeOK, Earned, Failing, RunAssumption
    <3>3. /\ \A q \in Partitions : failures'[q] >= failures[q]
          /\ failures'[p] >= Attempts \/ failures'[p] >= made[j] + 1
      BY <2>1, <2>4, <3>1, <3>2 DEF AttemptFails, Counted, TypeOK
    <3>4. \A i \in Jobs : i # j => made'[i] = made[i] /\ step'[i] = step[i]
      BY <2>4, JobsOfPartitions DEF AttemptFails, Thrown, GoTo, TypeOK
    <3>5. \/ made'[j] = made[j] + 1 /\ step'[j] = "idle" /\ part' = part
          \/ /\ made'[j] = made[j] /\ step'[j] = "failing" /\ made[j] + 1 >= Attempts
             /\ part' = [part EXCEPT ![p] = "failed"]
      BY <2>1, <2>4 DEF AttemptFails, Thrown, GoTo, TypeOK
    <3>6. step'[j] = "failing" => failures'[p] >= Attempts
      BY <2>1, <3>1, <3>2, <3>3, <3>5
    <3>7. ASSUME NEW i \in Jobs
          PROVE  /\ failures'[i[1]] >= Attempts \/ failures'[i[1]] >= made'[i] + Failing(i)'
                 /\ step'[i] = "failing" => failures'[i[1]] >= Attempts
      <4>1. CASE i = j
        BY <3>2, <3>3, <3>5, <3>6, <4>1 DEF Failing
      <4>2. CASE i # j
        <5>1. /\ i[1] \in Partitions /\ made[i] \in Nat
              /\ Failing(i) \in {0, 1} /\ Failing(i)' = Failing(i)
          BY <3>4, <4>2, JobsOfPartitions DEF TypeOK, Failing
        <5>2. /\ failures[i[1]] >= Attempts \/ failures[i[1]] >= made[i] + Failing(i)
              /\ step[i] = "failing" => failures[i[1]] >= Attempts
          BY DEF Earned
        <5>3. QED BY <3>1, <3>2, <3>3, <3>4, <4>2, <5>1, <5>2
      <4>3. QED BY <4>1, <4>2
    <3>8. FailureEarned'
      <4>1. ASSUME NEW q \in Partitions, part'[q] = "failed"
            PROVE  failures'[q] >= Attempts
        <5>1. CASE q = p /\ part' # part
          BY <3>5, <3>6, <5>1
        <5>2. CASE part[q] = "failed"
          BY <3>1, <3>2, <3>3, <5>2 DEF Earned, FailureEarned
        <5>3. QED BY <2>1, <3>5, <4>1, <5>1, <5>2 DEF TypeOK
      <4>2. status' = status /\ call' = call
        BY <2>4 DEF AttemptFails
      <4>3. \A q \in Partitions : failures[q] >= Attempts => failures'[q] >= Attempts
        BY <3>1, <3>2, <3>3
      <4>4. QED BY <4>1, <4>2, <4>3 DEF Earned, FailureEarned
    <3>9. QED BY <3>7, <3>8 DEF Earned
  <2>5. CASE OnPartitionFailed(j)
    <3>1. UNCHANGED <<part, call, failures>> /\ step[j] = "failing"
      BY <2>5 DEF OnPartitionFailed, ghost
    <3>2. \A i \in Jobs : step'[i] = "failing" => step[i] = "failing"
      BY <2>1, <2>5, JobsOfPartitions DEF OnPartitionFailed, Thrown, GoTo, TypeOK
    <3>3. \A i \in Jobs : i # j => made'[i] = made[i]
      BY <2>5 DEF OnPartitionFailed, Thrown, TypeOK
    <3>4. made'[j] = made[j] + 1 /\ step'[j] = "idle"
      BY <2>1, <2>5 DEF OnPartitionFailed, Thrown, GoTo, TypeOK
    <3>5. made'[j] + Failing(j)' <= made[j] + Failing(j)
      BY <3>1, <3>4 DEF Failing, TypeOK
    <3>6. \A i \in Jobs : made'[i] <= made[i] \/ made'[i] + Failing(i)' <= made[i] + Failing(i)
      BY <3>3, <3>5 DEF TypeOK
    <3>7. QED BY <3>1, <3>2, <3>6, EarnedKept
  <2>6. QED BY <1>1, <2>2, <2>3, <2>4, <2>5 DEF Run
<1>2. ASSUME NEW w \in Workers, Work(w)
      PROVE  Earned'
  <2>1. UNCHANGED <<part, made, call, failures>>
    BY <1>2 DEF Work, ListDone, ReadRun, Complete, FollowUp, rows, queue, ghost
  <2>2. \A i \in Jobs : step'[i] = "failing" => step[i] = "failing"
    BY <1>2, JobsOfPartitions DEF Work, ListDone, ReadRun, Complete, FollowUp, Return, GoTo, TypeOK
  <2>3. status' = "failed" => status = "failed"
    BY <1>2 DEF Work, ListDone, ReadRun, Complete, FollowUp, rows
  <2>4. \A i \in Jobs : made'[i] <= made[i]
    BY <2>1 DEF TypeOK
  <2>5. QED BY <2>1, <2>2, <2>3, <2>4, EarnedKept
<1>3. ASSUME NEW host \in BOOLEAN, Crash(host)
      PROVE  Earned'
  <2>1. UNCHANGED <<rows, made, failures>>
    BY <1>3 DEF Crash, ghost
  <2>2. \A i \in Jobs : step'[i] # "failing"
    BY <1>3, JobsOfPartitions DEF Crash
  <2>3. \A i \in Jobs : made'[i] <= made[i]
    BY <2>1 DEF TypeOK
  <2>4. call["launch"].at = "threw" => call'["launch"].at = "threw"
    BY <1>3 DEF Crash, Callers
  <2>5. QED BY <2>1, <2>2, <2>3, <2>4, EarnedKept DEF rows
<1>4. CASE Restart \/ ResumeAfterRestart
  <2>1. UNCHANGED <<rows, made, failures>>
    BY <1>4 DEF Restart, ResumeAfterRestart, queue, ghost
  <2>2. \A i \in Jobs : step'[i] = "failing" => step[i] = "failing"
    BY <1>4, JobsOfPartitions DEF Restart, ResumeAfterRestart, GoTo, TypeOK
  <2>3. \A i \in Jobs : made'[i] <= made[i]
    BY <2>1 DEF TypeOK
  <2>4. call["launch"] = call'["launch"]
    BY <1>4 DEF Restart, ResumeAfterRestart, Answered, TypeOK, Callers
  <2>5. QED BY <2>1, <2>2, <2>3, <2>4, EarnedKept DEF rows
<1>5. QED BY <1>1, <1>2, <1>3, <1>4

(* Every reachable state has the declared types, for every value of the     *)
(* constants.                                                               *)
THEOREM TypeCorrect ==
  ASSUME RunAssumption
  PROVE  Spec => []TypeOK
<1>1. Init => TypeOK
  BY InitType
<1>2. TypeOK /\ [Next]_vars => TypeOK'
  <2>1. CASE UNCHANGED vars
    BY <2>1 DEF TypeOK, vars, rows, queue, ghost
  <2>2. QED BY <2>1, CallsType, WorkType DEF Next
<1>3. QED BY <1>1, <1>2, PTL DEF Spec

(* A run is completed, and its replay, live stream and report triggered,    *)
(* only when every partition's files exist (maybeCompleteRun).              *)
THEOREM OnlyWholeRunsComplete ==
  ASSUME RunAssumption
  PROVE  Spec => []CompletedIsWhole
<1> DEFINE Inv == TypeOK /\ Whole
<1>1. Init => Inv
  BY InitType, WholeInit
<1>2. Inv /\ [Next]_vars => Inv'
  <2>1. CASE UNCHANGED vars
    BY <2>1 DEF TypeOK, Whole, CompletedIsWhole, vars, rows, queue, ghost
  <2>2. QED BY <2>1, CallsType, WorkType, WholeCalls, WholeWork DEF Next
<1>3. Inv => CompletedIsWhole
  BY DEF Whole
<1>4. QED BY <1>1, <1>2, <1>3, PTL DEF Spec

(* A partition is `failed` only after all its attempts, and a run only      *)
(* after such a partition or a launch that could not queue.                 *)
THEOREM FailuresAreEarned ==
  ASSUME RunAssumption
  PROVE  Spec => []FailureEarned
<1> DEFINE Inv == TypeOK /\ Earned
<1>1. Init => Inv
  BY InitType, EarnedInit
<1>2. Inv /\ [Next]_vars => Inv'
  <2>1. CASE UNCHANGED vars
    BY <2>1 DEF TypeOK, Earned, Failing, FailureEarned, vars, rows, queue, ghost
  <2>2. QED BY <2>1, CallsType, WorkType, EarnedCalls, EarnedWork DEF Next
<1>3. Inv => FailureEarned
  BY DEF Earned
<1>4. QED BY <1>1, <1>2, <1>3, PTL DEF Spec
=============================================================================
