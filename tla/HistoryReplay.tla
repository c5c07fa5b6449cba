---------------------------- MODULE HistoryReplay ----------------------------
(***************************************************************************)
(* The phase between a completed history and the live stream: the replay   *)
(* of each sink's delivered files to its destination (apps/worker/src/jobs *)
(* /deliver.ts over the run_deliveries rows), retry and skip requests, the *)
(* boot-time reconciliation, and the race to start the live stream once    *)
(* every replay is over (maybeAutoStartLive, POST stream/start).           *)
(*                                                                         *)
(* The delivery loop is taken at its contract (module DeliveryContract): a *)
(* row handed over stays outstanding until it is acknowledged, labelled    *)
(* dropped, or abandoned when the breaker trips; and, as module            *)
(* DeliveryPump shows, a drain() waiting at that moment may resolve.       *)
(* The run has a replay and both its modes (replay_history, live); engine  *)
(* versions, deleted connections and the stream limit are left out.        *)
(* A definition marked "slip" is not part of the model: it is a mistake    *)
(* the definition below it could contain, kept to show that a property     *)
(* of this module notices it.                                              *)
(***************************************************************************)
EXTENDS Integers, FiniteSets

CONSTANTS
  M,               (* bound on the sinks with a destination                *)
  Rows,            (* bound on the delivered rows per sink                 *)
  CheckpointRows,  (* rows between cursor checkpoints (10,000)             *)
  Requests,        (* retry, skip and start requests, each made once       *)
  Fresh,           (* bound on the fresh job ids handed out                *)
  Files,           (* bound on the label files of a sink                   *)
  Crashes,         (* bound on crashes of the worker                       *)
  Budget           (* bound on sinks, rows and crashes taken together      *)

ASSUME ReplayAssumption ==
  /\ M \in Nat \ {0} /\ Rows \in Nat \ {0} /\ CheckpointRows \in Nat \ {0}
  /\ Fresh \in Nat /\ Files \in Nat
  /\ Crashes \in Nat /\ Budget \in Nat /\ Budget >= 2 /\ IsFiniteSet(Requests)

VARIABLES
  run,        (* what was launched: its sinks, and the rows each delivers  *)
  state,      (* run_deliveries.state, "none" before the row exists        *)
  cursor,     (* run_deliveries.cursor                                     *)
  files,      (* the sink's dropped-<k>.parquet files: rows each labels    *)
  job,        (* deliver jobs: <<sink, 0>>, and <<sink, k>> for a fresh id *)
  pass,       (* runDelivery's local state, per job                        *)
  fresh,      (* fresh job ids handed out                                  *)
  follow,     (* startDeliveries: the sink it is at                        *)
  call,       (* retry and skip requests                                   *)
  boot,       (* reconcileDeliveries                                       *)
  hook,       (* whoever is inside maybeAutoStartLive or stream/start      *)
  stream,     (* streams.state, "none" before the row exists               *)
  live,       (* the stream-drive job of a session has been queued         *)
  up, crashes,
  acked,      (* history: rows the destination acknowledged                *)
  slipped,    (* history: rows abandoned under a drain that resolved       *)
  overlapped, (* history: sinks that had two passes at once                *)
  cut         (* history: a crash or the boot came between the stream's    *)
              (* row and its job                                           *)

table   == <<state, cursor>>
control == <<follow, call, boot>>
line    == <<stream, live, cut>>
ghost   == <<acked, slipped, overlapped>>
vars    == <<run, table, files, job, pass, fresh, control, hook, line, up, crashes, ghost>>

Sinks   == 1..run.sinks
Jobs    == (1..M) \X (0..Fresh)
Follow  == <<0>>
Hooks   == Jobs \union {Follow} \union {<<r>> : r \in Requests}
RowIds  == 1..run.rows
FileIds == 0..Files
Absent  == {0}                   \* no such file

Held     == {"waiting", "active", "stalled"}
Blocking == {"pending", "running", "failed"}

Idle == [at |-> "idle", pos |-> 0, since |-> 0, open |-> {}, dropped |-> FALSE,
         idx |-> 0, writing |-> FALSE, broken |-> FALSE, final |-> FALSE]

Init ==
  /\ run \in {r \in [sinks : 1..M, rows : 1..Rows] : r.sinks + r.rows <= Budget}
  /\ state = [s \in 1..M |-> "none"] /\ cursor = [s \in 1..M |-> 0]
  /\ files = [s \in 1..M |-> [k \in FileIds |-> Absent]]
  /\ job = [j \in Jobs |-> "none"] /\ pass = [j \in Jobs |-> Idle]
  /\ fresh = 0
  /\ follow = [at |-> "create", sink |-> 1]
  /\ call = [r \in Requests |-> [at |-> "idle", sink |-> 1]]
  /\ boot = [at |-> "idle", sink |-> 1, seen |-> state]
  /\ hook = [h \in Hooks |-> "idle"]
  /\ stream = "none" /\ live = FALSE /\ cut = FALSE
  /\ up = TRUE /\ crashes = 0
  /\ acked = [s \in 1..M |-> {}] /\ slipped = [s \in 1..M |-> {}]
  /\ overlapped = {}

-----------------------------------------------------------------------------
(* startDeliveries, after the run was marked completed: a row, then a job,  *)
(* per sink; then maybeAutoStartLive.                                       *)

CreateRow ==
  /\ follow.at = "create" /\ follow.sink \in Sinks
  /\ state' = [state EXCEPT ![follow.sink] = IF @ = "none" THEN "pending" ELSE @]
  /\ follow' = [follow EXCEPT !.at = "enqueue"]
  /\ UNCHANGED <<run, cursor, files, job, pass, fresh, call, boot, hook, line, up, crashes,
                 ghost>>

EnqueueRow ==
  /\ follow.at = "enqueue"
  /\ job' = [job EXCEPT ![<<follow.sink, 0>>] = "waiting"]
  /\ follow' = [at |-> "create", sink |-> follow.sink + 1]
  /\ UNCHANGED <<run, table, files, pass, fresh, call, boot, hook, line, up, crashes, ghost>>

RowsCreated ==
  /\ follow.at = "create" /\ follow.sink > run.sinks
  /\ follow' = [follow EXCEPT !.at = "over"]
  /\ hook' = [hook EXCEPT ![Follow] = "check"]
  /\ UNCHANGED <<run, table, files, job, pass, fresh, call, boot, line, up, crashes, ghost>>

(* hasBlocking() reads the rows that exist.                                  *)
Returned(h) ==
  /\ hook' = [hook EXCEPT ![h] = "idle"]
  /\ job' = IF h \in Jobs THEN [job EXCEPT ![h] = "over"] ELSE job

CheckUnfinished(h) ==   \* slip: a failed replay does not block
  /\ hook[h] = "check"
  /\ \/ /\ \E s \in Sinks : state[s] \in {"pending", "running"}
        /\ Returned(h)
     \/ /\ \A s \in Sinks : state[s] \notin {"pending", "running"}
        /\ hook' = [hook EXCEPT ![h] = "create"]
        /\ UNCHANGED job
  /\ UNCHANGED <<run, table, files, pass, fresh, control, line, up, crashes, ghost>>

CheckReplays(h) ==
  /\ hook[h] = "check"
  /\ \/ /\ \E s \in Sinks : state[s] \in Blocking
        /\ Returned(h)
     \/ /\ \A s \in Sinks : state[s] \notin Blocking
        /\ hook' = [hook EXCEPT ![h] = "create"]
        /\ UNCHANGED job
  /\ UNCHANGED <<run, table, files, pass, fresh, control, line, up, crashes, ghost>>

(* maybeAutoStartLive goes no further if the run has a stream, and if one    *)
(* is created after it looked, the unique key refuses its own.  The start    *)
(* request, which may look earlier, goes on with one that is idle or stopped. *)
ByRequest(h) == \E r \in Requests : h = <<r>> /\ call[r].at = "start"

CreateStream(h) ==
  /\ hook[h] = "create"
  /\ \/ /\ stream = "none" /\ stream' = "idle"
        /\ hook' = [hook EXCEPT ![h] = "session"] /\ UNCHANGED job
     \/ stream # "none" /\ UNCHANGED stream /\ Returned(h)
     \/ /\ ByRequest(h) /\ stream \in {"idle", "stopped"} /\ UNCHANGED stream
        /\ hook' = [hook EXCEPT ![h] = "session"] /\ UNCHANGED job
  /\ UNCHANGED <<run, table, files, pass, fresh, control, live, cut, up, crashes, ghost>>

(* The rest of createStreamSession.  Until the stream streams, what is       *)
(* written of its session makes no difference here (module StreamSession),   *)
(* but that a start is refused whose number another has taken meanwhile.     *)
StartSession(h) ==
  /\ hook[h] = "session"
  /\ \/ stream' = "streaming" /\ hook' = [hook EXCEPT ![h] = "queue"] /\ UNCHANGED job
     \/ /\ live \/ \E g \in Hooks \ {h} : hook[g] = "queue"
        /\ UNCHANGED stream /\ Returned(h)
  /\ UNCHANGED <<run, table, files, pass, fresh, control, live, cut, up, crashes, ghost>>

QueueDrive(h) ==
  /\ hook[h] = "queue"
  /\ live' = TRUE
  /\ Returned(h)
  /\ UNCHANGED <<run, table, files, pass, fresh, control, stream, cut, up, crashes, ghost>>

GoLive(h) == CreateStream(h) \/ StartSession(h) \/ QueueDrive(h)

-----------------------------------------------------------------------------
(* Requests: each checks the state it read, and writes another later.       *)

Ask(r, op, s) ==
  /\ call[r].at = "idle" /\ state[s] = "failed"
  /\ call' = [call EXCEPT ![r] = [at |-> op, sink |-> s]]
  /\ UNCHANGED <<run, table, files, job, pass, fresh, follow, boot, hook, line, up, crashes,
                 ghost>>

(* POST stream/start: the run is completed. *)
AskStart(r) ==
  /\ call[r].at = "idle" /\ stream # "streaming"
  /\ call' = [call EXCEPT ![r].at = "start"]
  /\ hook' = [hook EXCEPT ![<<r>>] = "check"]
  /\ UNCHANGED <<run, table, files, job, pass, fresh, follow, boot, line, up, crashes, ghost>>

MarkRetried(r) ==
  /\ call[r].at = "retry"
  /\ state' = [state EXCEPT ![call[r].sink] = "running"]
  /\ call' = [call EXCEPT ![r].at = "enqueue"]
  /\ UNCHANGED <<run, cursor, files, job, pass, fresh, follow, boot, hook, line, up, crashes,
                 ghost>>

EnqueueFresh(s) ==
  /\ fresh < Fresh
  /\ fresh' = fresh + 1
  /\ job' = [job EXCEPT ![<<s, fresh + 1>>] = "waiting"]

EnqueueRetry(r) ==
  /\ call[r].at = "enqueue"
  /\ EnqueueFresh(call[r].sink)
  /\ call' = [call EXCEPT ![r].at = "done"]
  /\ UNCHANGED <<run, table, files, pass, follow, boot, hook, line, up, crashes, ghost>>

SkipQuietly(r) ==   \* slip: nobody looks whether live may start now
  /\ call[r].at = "skip"
  /\ state' = [state EXCEPT ![call[r].sink] = "skipped"]
  /\ call' = [call EXCEPT ![r].at = "done"]
  /\ UNCHANGED <<run, cursor, files, job, pass, fresh, follow, boot, hook, line, up, crashes,
                 ghost>>

SkipDelivery(r) ==
  /\ call[r].at = "skip"
  /\ state' = [state EXCEPT ![call[r].sink] = "skipped"]
  /\ call' = [call EXCEPT ![r].at = "done"]
  /\ hook' = [hook EXCEPT ![<<r>>] = "check"]
  /\ UNCHANGED <<run, cursor, files, job, pass, fresh, follow, boot, line, up, crashes, ghost>>

-----------------------------------------------------------------------------
(* runDelivery: one pass over a sink's rows, from the cursor.               *)

Start(j) ==
  /\ up /\ job[j] = "waiting"
  /\ job' = [job EXCEPT ![j] = "active"]
  /\ pass' = [pass EXCEPT ![j] = [Idle EXCEPT !.at = "mark", !.pos = cursor[j[1]]]]
  /\ overlapped' = IF \E i \in Jobs : i # j /\ i[1] = j[1] /\ pass[i].at # "idle"
                   THEN overlapped \union {j[1]} ELSE overlapped
  /\ UNCHANGED <<run, table, files, fresh, control, hook, line, up, crashes, acked, slipped>>

MarkRunning(j) ==
  /\ pass[j].at = "mark"
  /\ state' = [state EXCEPT ![j[1]] = "running"]
  /\ pass' = [pass EXCEPT ![j].at = "open"]
  /\ UNCHANGED <<run, cursor, files, job, fresh, control, hook, line, up, crashes, ghost>>

(* The sink connects, or the pass fails; nextDroppedIndex counts the files. *)
OpenSink(j) ==
  /\ pass[j].at = "open"
  /\ \E next \in {"sending", "failing"} :
       pass' = [pass EXCEPT ![j].at = next,
                  ![j].idx = Cardinality({k \in FileIds : files[j[1]][k] # Absent})]
  /\ UNCHANGED <<run, table, files, job, fresh, control, hook, line, up, crashes, ghost>>

(* The next row is handed over; every CheckpointRows rows the pass drains. *)
Submit(j) ==
  /\ pass[j].at = "sending" /\ ~pass[j].broken /\ pass[j].pos < run.rows
  /\ LET row == pass[j].pos + 1
     IN  pass' = [pass EXCEPT ![j].pos = row, ![j].open = @ \union {row},
                    ![j].since = @ + 1,
                    ![j].at = IF pass[j].since + 1 >= CheckpointRows THEN "draining" ELSE @]
  /\ UNCHANGED <<run, table, files, job, fresh, control, hook, line, up, crashes, ghost>>

LastDrain(j) ==
  /\ pass[j].at = "sending" /\ ~pass[j].broken /\ pass[j].pos = run.rows
  /\ pass' = [pass EXCEPT ![j].at = "draining", ![j].final = TRUE]
  /\ UNCHANGED <<run, table, files, job, fresh, control, hook, line, up, crashes, ghost>>

(* submit throws, or drain rejects, the breaker's error. *)
Thrown(j) ==
  /\ pass[j].at = "sending" /\ pass[j].broken
  /\ pass' = [pass EXCEPT ![j].at = "failing"]
  /\ UNCHANGED <<run, table, files, job, fresh, control, hook, line, up, crashes, ghost>>

Acknowledge(j, row) ==
  /\ row \in pass[j].open
  /\ pass' = [pass EXCEPT ![j].open = @ \ {row}]
  /\ acked' = [acked EXCEPT ![j[1]] = @ \union {row}]
  /\ UNCHANGED <<run, table, files, job, fresh, control, hook, line, up, crashes, slipped,
                 overlapped>>

(* onDropped: the first label since the checkpoint opens a file; a file     *)
(* another pass has removed meanwhile stays removed.                        *)
WithLabel(j, row) ==
  [files EXCEPT ![j[1]][pass[j].idx] =
     IF ~pass[j].writing THEN {row} ELSE IF @ = Absent THEN @ ELSE @ \union {row}]

Drop(j, row) ==
  /\ row \in pass[j].open /\ pass[j].idx \in FileIds
  /\ pass' = [pass EXCEPT ![j].open = @ \ {row}, ![j].dropped = TRUE, ![j].writing = TRUE]
  /\ files' = WithLabel(j, row)
  /\ UNCHANGED <<run, table, job, fresh, control, hook, line, up, crashes, ghost>>

(* The breaker trips on the completion of a row, acknowledged, labelled or  *)
(* to be retried: the rest is abandoned.  A waiting drain rejects, or       *)
(* resolves if nothing but retries was outstanding.                         *)
Trip(j) ==
  /\ pass[j].at \in {"sending", "draining"} /\ ~pass[j].broken
  /\ \E row \in pass[j].open, end \in {"ack", "label", "retry"} :
       LET lost == IF end = "retry" THEN pass[j].open ELSE pass[j].open \ {row}
       IN  /\ acked' = IF end = "ack" THEN [acked EXCEPT ![j[1]] = @ \union {row}] ELSE acked
           /\ end = "label" => pass[j].idx \in FileIds
           /\ files' = IF end = "label" THEN WithLabel(j, row) ELSE files
           /\ \E next \in {"sending", "saving", "failing"} :
                /\ next = "sending" <=> pass[j].at = "sending"
                /\ next = "saving" => end # "label"
                /\ next = "failing" => end = "label" \/ lost # {}
                /\ pass' = [pass EXCEPT ![j].open = {}, ![j].broken = TRUE, ![j].at = next,
                               ![j].dropped = @ \/ end = "label",
                               ![j].writing = @ \/ end = "label"]
                /\ slipped' = IF next = "saving"
                              THEN [slipped EXCEPT ![j[1]] = @ \union lost] ELSE slipped
  /\ UNCHANGED <<run, table, job, fresh, control, hook, line, up, crashes, overlapped>>

DrainedEarly(j) ==   \* slip: the cursor is saved over outstanding rows
  /\ pass[j].at = "draining" /\ ~pass[j].broken
  /\ pass' = [pass EXCEPT ![j].at = "saving"]
  /\ UNCHANGED <<run, table, files, job, fresh, control, hook, line, up, crashes, ghost>>

Drained(j) ==
  /\ pass[j].at = "draining" /\ ~pass[j].broken /\ pass[j].open = {}
  /\ pass' = [pass EXCEPT ![j].at = "saving"]
  /\ UNCHANGED <<run, table, files, job, fresh, control, hook, line, up, crashes, ghost>>

(* checkpoint(): the label file is closed, then the cursor is saved. *)
CloseLabels(j) ==
  /\ pass[j].at = "saving"
  /\ pass' = [pass EXCEPT ![j].at = "recording", ![j].writing = FALSE,
                ![j].idx = IF pass[j].writing THEN @ + 1 ELSE @]
  /\ UNCHANGED <<run, table, files, job, fresh, control, hook, line, up, crashes, ghost>>

RecordProgress(j) ==
  /\ pass[j].at = "recording"
  /\ cursor' = [cursor EXCEPT ![j[1]] = pass[j].pos]
  /\ pass' = [pass EXCEPT ![j].since = 0,
                ![j].at = IF pass[j].final THEN "finishing" ELSE "sending"]
  /\ UNCHANGED <<run, state, files, job, fresh, control, hook, line, up, crashes, ghost>>

Ended(j, outcome) ==
  /\ state' = [state EXCEPT ![j[1]] = outcome]
  /\ pass' = [pass EXCEPT ![j] = Idle]
  /\ hook' = [hook EXCEPT ![j] = "check"]

Finish(j) ==
  /\ pass[j].at = "finishing"
  /\ Ended(j, IF pass[j].dropped THEN "failed" ELSE "done")
  /\ UNCHANGED <<run, cursor, files, job, fresh, control, line, up, crashes, ghost>>

FailKeepingLabels(j) ==   \* slip: the open label file is kept
  /\ pass[j].at = "failing"
  /\ Ended(j, "failed")
  /\ UNCHANGED <<run, cursor, files, job, fresh, control, line, up, crashes, ghost>>

Fail(j) ==
  /\ pass[j].at = "failing"
  /\ files' = IF pass[j].writing THEN [files EXCEPT ![j[1]][pass[j].idx] = Absent] ELSE files
  /\ Ended(j, "failed")
  /\ UNCHANGED <<run, cursor, job, fresh, control, line, up, crashes, ghost>>

-----------------------------------------------------------------------------
(* The worker dies and comes back.  An unclosed label file stays, unreadable. *)

InWorker == Jobs \union {Follow}
Halfway  == {"session", "queue"}   \* the stream has its row, not its job

Unread(s) == {pass[j].idx : j \in {i \in Jobs : i[1] = s /\ pass[i].writing}}

Crash ==
  /\ up /\ crashes < Crashes /\ run.sinks + run.rows + crashes < Budget
  /\ up' = FALSE /\ crashes' = crashes + 1
  /\ job' = [j \in Jobs |-> IF job[j] = "active" THEN "stalled" ELSE job[j]]
  /\ files' = [s \in 1..M |-> [k \in FileIds |-> IF k \in Unread(s) THEN {} ELSE files[s][k]]]
  /\ pass' = [j \in Jobs |-> Idle]
  /\ follow' = [follow EXCEPT !.at = "over"]
  /\ boot' = [boot EXCEPT !.at = "idle"]
  /\ hook' = [h \in Hooks |-> IF h \in InWorker THEN "idle" ELSE hook[h]]
  /\ cut' = (cut \/ \E h \in InWorker : hook[h] \in Halfway)
  /\ UNCHANGED <<run, table, fresh, call, stream, live, ghost>>

Restart ==
  /\ ~up
  /\ up' = TRUE
  /\ boot' = [boot EXCEPT !.at = "streams"]
  /\ UNCHANGED <<run, table, files, job, pass, fresh, follow, call, hook, line, crashes, ghost>>

(* reconcileStreams: a stream that streams without a job is stopped.        *)
LookForJob ==
  /\ boot.at = "streams"
  /\ boot' = IF stream = "streaming" /\ ~live THEN [boot EXCEPT !.at = "stop"]
             ELSE [at |-> "list", sink |-> 1, seen |-> state]
  /\ UNCHANGED <<run, table, files, job, pass, fresh, follow, call, hook, line, up, crashes,
                 ghost>>

StopStream ==
  /\ boot.at = "stop"
  /\ stream' = "stopped" /\ cut' = TRUE
  /\ boot' = [at |-> "list", sink |-> 1, seen |-> state]
  /\ UNCHANGED <<run, table, files, job, pass, fresh, follow, call, hook, live, up, crashes, ghost>>

OrphanRunning(s) ==   \* slip: only replays that had begun are queued again
  boot.seen[s] = "running" /\ \A k \in 0..Fresh : job[<<s, k>>] \notin Held

(* reconcileDeliveries: a row still to do that no job in Redis serves. *)
Orphan(s) == boot.seen[s] \in {"pending", "running"}
             /\ \A k \in 0..Fresh : job[<<s, k>>] \notin Held

Reconcile ==
  /\ boot.at = "list" /\ boot.sink \in Sinks
  /\ boot' = [boot EXCEPT !.sink = @ + 1]
  /\ \/ Orphan(boot.sink) /\ EnqueueFresh(boot.sink)
     \/ ~Orphan(boot.sink) /\ UNCHANGED <<run, job, fresh>>
  /\ UNCHANGED <<run, table, files, pass, follow, call, hook, line, up, crashes, ghost>>

HandBack(j) ==
  /\ up /\ job[j] = "stalled"
  /\ job' = [job EXCEPT ![j] = "waiting"]
  /\ UNCHANGED <<run, table, files, pass, fresh, control, hook, line, up, crashes, ghost>>

-----------------------------------------------------------------------------
Pass(j) ==
  \/ Start(j) \/ MarkRunning(j) \/ OpenSink(j) \/ Submit(j) \/ LastDrain(j) \/ Thrown(j)
  \/ \E row \in RowIds : Acknowledge(j, row) \/ Drop(j, row)
  \/ Trip(j) \/ Drained(j) \/ CloseLabels(j) \/ RecordProgress(j) \/ Finish(j) \/ Fail(j)
  \/ HandBack(j)

Serve(r) == MarkRetried(r) \/ EnqueueRetry(r) \/ SkipDelivery(r)
Decide(h) == CheckReplays(h) \/ GoLive(h)
Launch   == CreateRow \/ EnqueueRow \/ RowsCreated
Boot     == LookForJob \/ StopStream \/ Reconcile

Next ==
  \/ Launch
  \/ \E h \in Hooks : Decide(h)
  \/ \E r \in Requests : \/ \E op \in {"retry", "skip"}, s \in Sinks : Ask(r, op, s)
                         \/ AskStart(r) \/ Serve(r)
  \/ \E j \in Jobs : Pass(j)
  \/ Crash \/ Restart \/ Boot

(* Code that runs goes on, a destination answers, a dead worker restarts:   *)
(* one condition per job, request and boot.  No request is forced.          *)
Fairness ==
  /\ WF_vars(Launch \/ Decide(Follow)) /\ WF_vars(Restart) /\ WF_vars(Boot)
  /\ \A r \in Requests : WF_vars(Serve(r) \/ Decide(<<r>>))
  /\ \A j \in Jobs : WF_vars(Pass(j) \/ Decide(j))

Spec == Init /\ [][Next]_vars

FairSpec == Spec /\ Fairness

-----------------------------------------------------------------------------
Labelled(s) == (UNION {files[s][k] : k \in FileIds}) \ Absent
Settled(s)  == acked[s] \union Labelled(s) \union slipped[s]

(* The saved cursor, from which a retry resumes, is never ahead of a row    *)
(* without an outcome, through failed passes, retries and crashes; only     *)
(* rows slipped by a resolved drain and sinks replayed twice at once are    *)
(* excepted.                                                                *)
CursorCovered == \A s \in Sinks \ overlapped : 1..cursor[s] \subseteq Settled(s)

(* No row is labelled dropped in two files: the labels of a pass that ended *)
(* abnormally are discarded with it ("a retry resumes from the checkpoint   *)
(* and would label those same rows again").  A crash may repeat a label.    *)
LabelledOnce ==
  crashes = 0 =>
    \A s \in Sinks \ overlapped : \A k, l \in FileIds :
      k # l => files[s][k] \cap files[s][l] \subseteq Absent

(* Once every sink has its row, the check before going live lets nobody     *)
(* through while a sink neither skipped nor doubly replayed has a row to    *)
(* publish.                                                                 *)
ReplayBeforeLive ==
  [][\A h \in Hooks :
       hook[h] = "check" /\ hook'[h] = "create" /\ (\A s \in Sinks : state[s] # "none")
         => \A s \in Sinks \ overlapped : state[s] = "skipped" \/ RowIds \subseteq Settled(s)]_vars

(* Every replay that was asked for ends, through a crash of the worker: the *)
(* time comes again and again when none is pending or running.              *)
ReplayEnds == []<>(\A s \in Sinks : state[s] \notin {"pending", "running"})

(* Once every replay is done or skipped for good, live starts (FR-022):     *)
(* whoever finishes last notices, and neither a crash before the stream has *)
(* its row nor a request that meets the automatic start loses the trigger.  *)
(* Excepted is a stream cut off between its row and its job.                *)
LiveStarts == <>[](\A s \in Sinks : state[s] \in {"done", "skipped"}) => <>(live \/ cut)

(* Not checked: the code departs from it (README, "Departures").            *)
(* "Starts session 1 of a `history_then_live` run once its history is       *)
(* complete and every replay has finished" (services/stream-sessions.ts).   *)
LiveStartsAnyway == <>[](\A s \in Sinks : state[s] \in {"done", "skipped"}) => <>live

(* Not checked: the code departs from it (README, "Departures").            *)
(* "100% of the history's delivered copies for each broker sink ... appear  *)
(* on the destination before the first live event" (SC-009a), skipped sinks *)
(* apart.                                                                   *)
HistoryFirst ==
  [][~live /\ live' => \A s \in Sinks : state[s] = "skipped" \/ RowIds \subseteq Settled(s)]_vars
=============================================================================
