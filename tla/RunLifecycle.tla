---------------------------- MODULE RunLifecycle ----------------------------
(***************************************************************************)
(* One run, from launch to its final status: the run and partition rows in *)
(* MySQL, the generate-partition jobs in Redis (BullMQ), the worker that   *)
(* executes them, its boot-time resume, and the control requests of the    *)
(* API.  API and worker are separate processes, and every await is a point *)
(* where the other may run: an action is one database or queue operation   *)
(* together with the synchronous code after it.                            *)
(*                                                                         *)
(* Generation itself is one step that succeeds or fails; engine versions,  *)
(* throughput figures and error texts are left out.                        *)
(* A definition marked "slip" is not part of the model: it is a mistake    *)
(* the definition below it could contain, kept to show that a property     *)
(* of this module notices it.                                              *)
(***************************************************************************)
EXTENDS Integers, FiniteSets

CONSTANTS
  N,           (* partitions of the run                                    *)
  Attempts,    (* tries per job (PARTITION_JOB_OPTIONS: 3)                 *)
  MaxStalls,   (* times BullMQ hands back a job whose worker died (1)      *)
  Requests,    (* control requests, each made at most once                 *)
  Crashes      (* bound on process crashes                                 *)

ASSUME RunAssumption ==
  /\ N \in Nat \ {0} /\ Attempts \in Nat \ {0}
  /\ MaxStalls \in Nat /\ Crashes \in Nat
  /\ IsFiniteSet(Requests) /\ Requests \cap {"launch", "boot"} = {}

VARIABLES
  status,      (* runs.status                                              *)
  part,        (* run_partitions.state, per partition                      *)
  retryCount,  (* runs.retry_count                                         *)
  job,         (* state of each BullMQ job; "none": no such id in Redis    *)
  made,        (* attempts a job has failed (attemptsMade)                 *)
  stalls,      (* times a job was handed back                              *)
  step,        (* where the code executing a job, or boot, stands          *)
  call,        (* progress of launch, boot and each request                *)
  up,          (* the worker process is running                            *)
  crashes,
  written,     (* history: partitions whose files were generated           *)
  failures,    (* history: failed attempts of each partition, up to Attempts *)
  followed     (* history: replay, live and report were triggered          *)

rows  == <<status, part, retryCount>>
queue == <<job, made, stalls>>
ghost == <<written, failures, followed>>
vars  == <<rows, queue, step, call, up, crashes, ghost>>

Partitions == 1..N
Suffixes   == 0..Cardinality(Requests)    \* <run>-<n> is 0, <run>-<n>-r<k> is k
Jobs       == Partitions \X Suffixes
Boot       == <<0, 0>>                    \* the boot code, which also completes runs
Workers    == Jobs \union {Boot}
Callers    == Requests \union {"launch", "boot"}

Removing == {"pause", "cancel"}
Resuming == {"resume", "retry"}
Ops      == {"none", "launch", "boot"} \union Removing \union Resuming

States   == {"running", "paused", "failed", "cancelled", "completed"}
PartRows == {"pending", "running", "done", "failed"}
Steps    == {"idle", "picked", "generating", "listing", "reading", "completing",
             "following", "failing"}
Live     == {"waiting", "delayed", "active", "stalled"}

Calls == [op : Ops, at : {"idle", "list", "scan", "done", "threw"},
          next : Nat, suffix : Nat, seen : [Partitions -> PartRows]]
Quiet == [op |-> "none", at |-> "idle", next |-> 1, suffix |-> 0,
          seen |-> [p \in Partitions |-> "pending"]]

(* launchGeneration's transaction has committed; the jobs are yet to come. *)
Launched(s) ==
  /\ status = s
  /\ part = [p \in Partitions |-> "pending"]
  /\ retryCount = 0
  /\ job = [j \in Jobs |-> "none"]
  /\ made = [j \in Jobs |-> 0]
  /\ stalls = [j \in Jobs |-> 0]
  /\ step = [w \in Workers |-> "idle"]
  /\ call = [c \in Callers |->
               IF c = "launch" THEN [Quiet EXCEPT !.op = "launch", !.at = "scan"] ELSE Quiet]
  /\ up = TRUE /\ crashes = 0
  /\ written = {} /\ followed = FALSE
  /\ failures = [p \in Partitions |-> 0]

Init == Launched("running")

AllDone == \A p \in Partitions : part[p] = "done"

-----------------------------------------------------------------------------
(* The partition loops of launch, pause, cancel, resume, retry and boot.    *)

Advance(c)  == call' = [call EXCEPT ![c].next = @ + 1]
Answered(c) == call' = [call EXCEPT ![c] = [Quiet EXCEPT !.at = "done"]]

(* The routes check the status they read, long before they write one.       *)
Allowed(op) ==
  CASE op = "pause"  -> status = "running"
    [] op = "resume" -> status = "paused"
    [] op = "retry"  -> status = "failed"
    [] op = "cancel" -> status \notin {"completed", "cancelled"}

Ask(r, op) ==
  /\ call[r].at = "idle"
  /\ call["launch"].at # "scan"   \* the run's id is in the launch's answer
  /\ Allowed(op)
  /\ call' = [call EXCEPT ![r].op = op, ![r].at = "list"]
  /\ retryCount' = IF op = "retry" THEN retryCount + 1 ELSE retryCount
  /\ UNCHANGED <<status, part, queue, step, up, crashes, ghost>>

ListPartitions(r) ==
  /\ call[r].at = "list" /\ r # "boot"
  /\ call' = [call EXCEPT ![r].at = "scan", ![r].seen = part, ![r].next = 1,
                          ![r].suffix = IF call[r].op = "retry" THEN retryCount ELSE 0]
  /\ UNCHANGED <<rows, queue, step, up, crashes, ghost>>

(* The partitions a loop acts on, by the state it listed. *)
Concerns(c, p) ==
  IF call[c].op \in Removing THEN call[c].seen[p] = "pending" ELSE call[c].seen[p] # "done"

Skip(c) ==
  /\ call[c].at = "scan" /\ call[c].next \in Partitions
  /\ ~Concerns(c, call[c].next)
  /\ Advance(c)
  /\ UNCHANGED <<rows, queue, step, up, crashes, ghost>>

(* queue.add; BullMQ ignores an id that exists, finished jobs included. *)
Enqueue(c) ==
  /\ call[c].at = "scan" /\ call[c].next \in Partitions
  /\ Concerns(c, call[c].next)
  /\ call[c].op \notin Removing
  /\ LET p == call[c].next
         j == <<p, call[c].suffix>>
     IN  /\ part' = IF call[c].op \in Resuming /\ call[c].seen[p] = "failed"
                    THEN [part EXCEPT ![p] = "pending"] ELSE part
         /\ \/ /\ job[j] = "none"
               /\ job' = [job EXCEPT ![j] = "waiting"]
               /\ made' = [made EXCEPT ![j] = 0]
               /\ stalls' = [stalls EXCEPT ![j] = 0]
            \/ job[j] # "none" /\ UNCHANGED queue
  /\ Advance(c)
  /\ UNCHANGED <<status, retryCount, step, up, crashes, ghost>>

(* job.remove() under the launch's id; a job its worker has locked refuses,  *)
(* and the request fails with what it removed so far.                        *)
Remove(c) ==
  /\ call[c].at = "scan" /\ call[c].next \in Partitions
  /\ Concerns(c, call[c].next)
  /\ call[c].op \in Removing
  /\ LET j == <<call[c].next, 0>>
     IN  \/ /\ job[j] # "active"
            /\ job' = [job EXCEPT ![j] = "none"]
            /\ Advance(c)
         \/ /\ job[j] \in {"active", "stalled"}
            /\ Answered(c)
            /\ UNCHANGED job
  /\ UNCHANGED <<rows, made, stalls, step, up, crashes, ghost>>

(* The queue is unreachable: launch records the failure, a request throws. *)
ScanFails(c) ==
  /\ call[c].at = "scan" /\ call[c].next \in Partitions /\ c # "boot"
  /\ call' = [call EXCEPT ![c] = [Quiet EXCEPT !.at = IF c = "launch" THEN "threw" ELSE "done"]]
  /\ status' = IF c = "launch" THEN "failed" ELSE status
  /\ UNCHANGED <<part, retryCount, queue, step, up, crashes, ghost>>

(* After the loop, setStatus: unconditional, whatever the status is by now. *)
WriteStatus(c) ==
  /\ call[c].at = "scan" /\ call[c].next > N
  /\ status' = CASE call[c].op = "pause" -> "paused"
                 [] call[c].op = "cancel" -> "cancelled"
                 [] call[c].op \in Resuming -> "running"
                 [] OTHER -> status
  /\ Answered(c)
  /\ UNCHANGED <<part, retryCount, queue, step, up, crashes, ghost>>

Handle(c) ==
  \/ ListPartitions(c) \/ Skip(c) \/ Enqueue(c) \/ Remove(c) \/ WriteStatus(c)

-----------------------------------------------------------------------------
(* The worker: one generate-partition job.                                  *)

GoTo(w, s) == step' = [step EXCEPT ![w] = s]

(* A worker takes a job that waits, or whose backoff delay is over. *)
Pick(j) ==
  /\ up /\ job[j] \in {"waiting", "delayed"}
  /\ job' = [job EXCEPT ![j] = "active"]
  /\ GoTo(j, "picked")
  /\ UNCHANGED <<rows, made, stalls, call, up, crashes, ghost>>

OnPartitionRunning(j) ==
  /\ step[j] = "picked"
  /\ part' = [part EXCEPT ![j[1]] = "running"]
  /\ GoTo(j, "generating")
  /\ UNCHANGED <<status, retryCount, queue, call, up, crashes, ghost>>

(* runPartition has written the files; onPartitionDone records it. *)
OnPartitionDone(j) ==
  /\ step[j] = "generating"
  /\ written' = written \union {j[1]}
  /\ part' = [part EXCEPT ![j[1]] = "done"]
  /\ GoTo(j, "listing")
  /\ UNCHANGED <<status, retryCount, queue, call, up, crashes, failures, followed>>

(* BullMQ's half of a thrown job: back off, or fail for good. *)
Thrown(j) ==
  /\ made' = [made EXCEPT ![j] = @ + 1]
  /\ job' = [job EXCEPT ![j] = IF made[j] + 1 < Attempts THEN "delayed" ELSE "failed"]
  /\ GoTo(j, "idle")

(* An attempt fails, in generation or in the follow-up of the last          *)
(* partition: the last attempt takes the partition, then the run, with it.  *)
Counted(p) == failures' = [failures EXCEPT ![p] = IF @ < Attempts THEN @ + 1 ELSE @]

AttemptFailsOnce(j) ==   \* slip: every failed attempt counts as the last
  /\ step[j] \in {"generating", "following"}
  /\ Counted(j[1])
  /\ part' = [part EXCEPT ![j[1]] = "failed"]
  /\ GoTo(j, "failing")
  /\ UNCHANGED <<status, retryCount, queue, call, up, crashes, written, followed>>

AttemptFails(j) ==
  /\ step[j] \in {"generating", "following"}
  /\ Counted(j[1])
  /\ \/ /\ made[j] + 1 < Attempts
        /\ Thrown(j)
        /\ UNCHANGED part
     \/ /\ made[j] + 1 >= Attempts
        /\ part' = [part EXCEPT ![j[1]] = "failed"]
        /\ GoTo(j, "failing")
        /\ UNCHANGED <<job, made>>
  /\ UNCHANGED <<status, retryCount, stalls, call, up, crashes, written, followed>>

OnPartitionFailedAlone(j) ==   \* slip: the run is not marked failed
  /\ step[j] = "failing"
  /\ Thrown(j)
  /\ UNCHANGED <<rows, stalls, call, up, crashes, ghost>>

OnPartitionFailed(j) ==
  /\ step[j] = "failing"
  /\ status' = "failed"
  /\ Thrown(j)
  /\ UNCHANGED <<part, retryCount, stalls, call, up, crashes, ghost>>

-----------------------------------------------------------------------------
(* maybeCompleteRun, run at the end of a job and by boot.                   *)

Return(w) ==
  /\ GoTo(w, "idle")
  /\ job' = IF w = Boot THEN job ELSE [job EXCEPT ![w] = "completed"]

ListAnyDone(w) ==   \* slip: "some" for "every"
  /\ step[w] = "listing"
  /\ \/ /\ \E p \in Partitions : part[p] = "done"
        /\ GoTo(w, "reading")
        /\ UNCHANGED job
     \/ /\ \A p \in Partitions : part[p] # "done"
        /\ Return(w)
  /\ UNCHANGED <<rows, made, stalls, call, up, crashes, ghost>>

ListDone(w) ==
  /\ step[w] = "listing"
  /\ \/ AllDone /\ GoTo(w, "reading") /\ UNCHANGED job
     \/ ~AllDone /\ Return(w)
  /\ UNCHANGED <<rows, made, stalls, call, up, crashes, ghost>>

ReadRun(w) ==
  /\ step[w] = "reading"
  /\ \/ status = "running" /\ GoTo(w, "completing") /\ UNCHANGED job
     \/ status # "running" /\ Return(w)
  /\ UNCHANGED <<rows, made, stalls, call, up, crashes, ghost>>

Complete(w) ==
  /\ step[w] = "completing"
  /\ status' = "completed"
  /\ GoTo(w, "following")
  /\ UNCHANGED <<part, retryCount, queue, call, up, crashes, ghost>>

(* startDeliveries, maybeAutoStartLive, the report job. *)
FollowUp(w) ==
  /\ step[w] = "following"
  /\ followed' = TRUE
  /\ Return(w)
  /\ UNCHANGED <<rows, made, stalls, call, up, crashes, written, failures>>

-----------------------------------------------------------------------------
(* Crashes and restarts.                                                    *)

(* The worker process dies; with the host, requests in progress die too. *)
Crash(host) ==
  /\ up /\ crashes < Crashes
  /\ up' = FALSE /\ crashes' = crashes + 1
  /\ job' = [j \in Jobs |-> IF job[j] = "active" THEN "stalled" ELSE job[j]]
  /\ step' = [w \in Workers |-> "idle"]
  /\ call' = [c \in Callers |->
                IF c = "boot" THEN Quiet
                ELSE IF host /\ call[c].at \in {"list", "scan"} THEN [Quiet EXCEPT !.at = "done"]
                ELSE call[c]]
  /\ UNCHANGED <<rows, made, stalls, ghost>>

Restart ==
  /\ ~up
  /\ up' = TRUE
  /\ call' = [call EXCEPT !["boot"] = [Quiet EXCEPT !.op = "boot", !.at = "list"]]
  /\ UNCHANGED <<rows, queue, step, crashes, ghost>>

(* resumeAfterRestart: only a run still marked running concerns it. *)
ResumeAfterRestart ==
  /\ call["boot"].at = "list"
  /\ \/ /\ status # "running"
        /\ Answered("boot")
        /\ UNCHANGED step
     \/ /\ status = "running" /\ AllDone
        /\ Answered("boot")
        /\ GoTo(Boot, "listing")
     \/ /\ status = "running" /\ ~AllDone
        /\ call' = [call EXCEPT !["boot"].at = "scan", !["boot"].seen = part]
        /\ UNCHANGED step
  /\ UNCHANGED <<rows, queue, up, crashes, ghost>>

(* BullMQ notices a job whose lock lapsed: hand it back, or fail it without *)
(* running the processor, so without any of the callbacks above.            *)
HandBack(j) ==
  /\ up /\ job[j] = "stalled"
  /\ \/ /\ stalls[j] < MaxStalls
        /\ job' = [job EXCEPT ![j] = "waiting"]
        /\ stalls' = [stalls EXCEPT ![j] = @ + 1]
     \/ /\ stalls[j] >= MaxStalls
        /\ job' = [job EXCEPT ![j] = "failed"]
        /\ UNCHANGED stalls
  /\ UNCHANGED <<rows, made, step, call, up, crashes, ghost>>

-----------------------------------------------------------------------------
Work(w) == ListDone(w) \/ ReadRun(w) \/ Complete(w) \/ FollowUp(w)

Run(j) ==
  \/ Pick(j) \/ OnPartitionRunning(j) \/ OnPartitionDone(j) \/ AttemptFails(j)
  \/ OnPartitionFailed(j) \/ HandBack(j)

Next ==
  \/ \E r \in Requests : \E op \in Removing \union Resuming : Ask(r, op)
  \/ \E c \in Callers : Handle(c) \/ ScanFails(c)
  \/ \E j \in Jobs : Run(j)
  \/ \E w \in Workers : Work(w)
  \/ \E host \in BOOLEAN : Crash(host)
  \/ Restart \/ ResumeAfterRestart

(* Handlers, jobs and BullMQ's timers make progress, and a dead worker is   *)
(* restarted.  Nothing forces a request, a failure or a crash.              *)
Fairness ==
  /\ \A c \in Callers : WF_vars(Handle(c))
  /\ \A j \in Jobs : WF_vars(Run(j))
  /\ \A w \in Workers : WF_vars(Work(w))
  /\ WF_vars(Restart) /\ WF_vars(ResumeAfterRestart)

Spec == Init /\ [][Next]_vars

FairSpec == Spec /\ Fairness

-----------------------------------------------------------------------------
TypeOK ==
  /\ status \in States
  /\ part \in [Partitions -> PartRows]
  /\ retryCount \in Nat
  /\ job \in [Jobs -> Live \union {"none", "completed", "failed"}]
  /\ made \in [Jobs -> Nat] /\ stalls \in [Jobs -> Nat]
  /\ step \in [Workers -> Steps]
  /\ call \in [Callers -> Calls]
  /\ up \in BOOLEAN /\ crashes \in 0..Crashes
  /\ written \subseteq Partitions /\ followed \in BOOLEAN
  /\ failures \in [Partitions -> Nat]

(* A run is `completed`, and its replay, live stream and report triggered,  *)
(* only when the files of every partition have been generated, through      *)
(* duplicate jobs, retries, control requests and crashes (maybeCompleteRun).*)
CompletedIsWhole ==
  status = "completed" \/ followed => written = Partitions

(* Whatever requests, crashes and second jobs race with the attempts, a     *)
(* partition is `failed` only after Attempts failed attempts, and a run only *)
(* after such a partition, or when launch could not queue its jobs          *)
(* ("`failed` only when a partition has run out of attempts").              *)
FailureEarned ==
  LET spent == {p \in Partitions : failures[p] >= Attempts}
  IN  /\ {p \in Partitions : part[p] = "failed"} \subseteq spent
      /\ status = "failed" =>
           spent # {} \/ call["launch"].at = "threw"

Undisturbed == \A r \in Requests : call[r].at = "idle"

(* Without control requests every run reaches a final status, through       *)
(* failed attempts and a crash of the worker or the host (FR-037).          *)
RunEnds ==
  []Undisturbed => (status = "running" ~> status \in {"completed", "failed"})

(* Not checked: the code departs from it (README, "Departures").            *)
(* A run whose last partition is done does not stay `running` (FR-037: "A   *)
(* run MUST reach its correct final status however quickly its partitions   *)
(* finish").                                                                *)
DoneRunEnds == status = "running" /\ AllDone ~> status # "running"
=============================================================================
