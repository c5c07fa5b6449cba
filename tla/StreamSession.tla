---------------------------- MODULE StreamSession ----------------------------
(***************************************************************************)
(* The live stream of one run: the streams and stream_sessions rows, the   *)
(* control requests of the API (routes/stream-control.ts, services/        *)
(* stream-sessions.ts), the stream-drive job of each session, the live     *)
(* thread that simulates days ahead of it and writes a checkpoint file per *)
(* day, and the boot-time reconciliation.  It follows the position of the  *)
(* stream: a delivery is the p-th since the end of history, day p \div     *)
(* DayLength, and a session that stops, or dies, leaves the day and the    *)
(* count from which the next one carries on.                               *)
(*                                                                         *)
(* The delivery loop is reduced to handing deliveries over, and to its     *)
(* breaker; pacing, metrics, labels, destinations, the partitions' files   *)
(* (written and read together) and the limit on streams are left out.      *)
(* A definition marked "slip" is not part of the model: it is a mistake    *)
(* the definition below it could contain, kept to show that a property     *)
(* of this module notices it.                                              *)
(***************************************************************************)
EXTENDS Integers, FiniteSets

CONSTANTS
  Sessions,    (* bound on sessions of the stream                          *)
  Total,       (* bound on deliveries of the stream                        *)
  DayLength,   (* deliveries of a day                                      *)
  Requests,    (* bound on control requests                                *)
  Faults       (* bound on crashes, unreachable sinks, tripped breakers    *)

ASSUME StreamAssumption ==
  /\ {Sessions, Total, DayLength} \subseteq Nat \ {0}
  /\ Faults \in Nat /\ Requests \in Nat

VARIABLES
  state, current,  (* streams.state, streams.current_session_id            *)
  row,             (* stream_sessions: ended or not, and the position      *)
  plan,            (* `resume` in each job's payload                       *)
  job,             (* the stream-drive job of each session                 *)
  file,            (* checkpoint files, per session directory and day      *)
  drive,           (* the job's local state, with its live thread          *)
  call, boot,      (* API requests, reconcileStreams                       *)
  faults,
  sent,            (* history: times each delivery was handed over; after  *)
                   (* a fault, whether it was                              *)
  published,       (* history: sessions that handed one over               *)
  early            (* history: a start, before any fault, read the         *)
                   (* position of a session that had not ended, or one     *)
                   (* that another start had read and not yet used         *)

stream == <<state, current>>
ghost  == <<sent, published, early>>
vars   == <<stream, row, plan, job, file, drive, call, boot, faults, ghost>>

Seqs  == 1..Sessions
Days  == 0..((Total - 1) \div DayLength)   \* the last one may be cut short
None  == -1                              \* no day
Calls == 1..Requests                     \* in the order they are made

Nowhere == [src |-> 0, day |-> None, skip |-> 0]   \* resume from the end of history

Asleep == [at |-> "idle", pos |-> 0, size |-> 0, left |-> 0, last |-> None, since |-> 0,
           seen |-> None, head |-> None, writing |-> FALSE,
           broken |-> FALSE, reported |-> FALSE, failing |-> FALSE]

Unmade == [at |-> "idle", to |-> "none", from |-> Nowhere, seq |-> 0]
Made   == [Unmade EXCEPT !.at = "done"]

(* maybeAutoStartLive has just started the first session. *)
Init ==
  /\ state = "streaming" /\ current = 1
  /\ row = [s \in Seqs |-> [at |-> IF s = 1 THEN "open" ELSE "none", day |-> None, skip |-> 0]]
  /\ plan = [s \in Seqs |-> Nowhere]
  /\ job = [s \in Seqs |-> IF s = 1 THEN "waiting" ELSE "none"]
  /\ file = [s \in Seqs |-> [d \in Days |-> "none"]]
  /\ drive = [s \in Seqs |-> Asleep]
  /\ call = [r \in Calls |-> Unmade]
  /\ boot = [at |-> "idle", seq |-> 0]
  /\ faults = 0
  /\ sent = [p \in 0..(Total - 1) |-> 0] /\ published = {} /\ early = FALSE

-----------------------------------------------------------------------------
(* Control requests.  Each checks the state it read and writes it later.    *)

NotYetMade(r) == call[r].at = "idle" /\ \A q \in 1..(r - 1) : call[q].at # "idle"

Ask(r, to) ==
  /\ NotYetMade(r)
  /\ state \in CASE to = "paused" -> {"streaming"}
                 [] to = "streaming" -> {"paused"}
                 [] to = "stopped" -> {"streaming", "paused", "error"}
  /\ call' = [call EXCEPT ![r].at = "write", ![r].to = to]
  /\ UNCHANGED <<stream, row, plan, job, file, drive, boot, faults, ghost>>

WriteState(r) ==
  /\ call[r].at = "write"
  /\ state' = call[r].to
  /\ call' = [call EXCEPT ![r] = Made]
  /\ UNCHANGED <<current, row, plan, job, file, drive, boot, faults, ghost>>

AskStart(r) ==
  /\ NotYetMade(r) /\ state = "stopped"
  /\ call' = [call EXCEPT ![r].at = "previous"]
  /\ UNCHANGED <<stream, row, plan, job, file, drive, boot, faults, ghost>>

(* createStreamSession: the last session that has a position. *)
ReadPrevious(r) ==
  /\ call[r].at = "previous"
  /\ LET had == {s \in Seqs : row[s].day # None}
         p   == CHOOSE s \in had : \A t \in had : t <= s
     IN  call' = [call EXCEPT ![r].at = "create",
                    ![r].from = IF had = {} THEN Nowhere
                                ELSE [src |-> p, day |-> row[p].day, skip |-> row[p].skip]]
  /\ early' = (early \/ (faults = 0 /\ \/ \E s \in Seqs : row[s].at = "open"
                                       \/ \E q \in Calls \ {r} : call[q].at = "create"))
  /\ UNCHANGED <<stream, row, plan, job, file, drive, boot, faults, sent, published>>

CreateSession(r) ==
  /\ call[r].at = "create"
  /\ \E s \in Seqs :
       /\ row[s].at = "none" /\ \A t \in 1..(s - 1) : row[t].at # "none"
       /\ row' = [row EXCEPT ![s].at = "open"]
       /\ plan' = [plan EXCEPT ![s] = call[r].from]
       /\ call' = [call EXCEPT ![r].at = "current", ![r].seq = s]
  /\ UNCHANGED <<stream, job, file, drive, boot, faults, ghost>>

SetCurrent(r) ==
  /\ call[r].at = "current"
  /\ current' = call[r].seq
  /\ call' = [call EXCEPT ![r].at = "set"]
  /\ UNCHANGED <<state, row, plan, job, file, drive, boot, faults, ghost>>

SetStreaming(r) ==
  /\ call[r].at = "set"
  /\ state' = "streaming"
  /\ call' = [call EXCEPT ![r].at = "add"]
  /\ UNCHANGED <<current, row, plan, job, file, drive, boot, faults, ghost>>

Enqueue(r) ==
  /\ call[r].at = "add"
  /\ job' = [job EXCEPT ![call[r].seq] = "waiting"]
  /\ call' = [call EXCEPT ![r] = Made]
  /\ UNCHANGED <<stream, row, plan, file, drive, boot, faults, ghost>>

Serve(r) ==
  \/ WriteState(r) \/ ReadPrevious(r) \/ CreateSession(r)
  \/ SetCurrent(r) \/ SetStreaming(r) \/ Enqueue(r)

-----------------------------------------------------------------------------
(* The stream-drive job: where the world continues from.                    *)

GoTo(s, at) == drive' = [drive EXCEPT ![s].at = at]

(* Its own position if it has one, else the payload's. *)
Resume(s) ==
  IF row[s].day # None THEN [src |-> s, day |-> row[s].day, skip |-> row[s].skip] ELSE plan[s]

Readable(r) == r.src \in Seqs => file[r.src][r.day] = "whole"

Point(day, skip) == IF day = None THEN 0 ELSE day * DayLength + skip

(* Nothing else writes this session's row and directory while its job waits *)
(* or opens, so the two reads are one step.                                 *)
Opened(s) ==
  /\ job[s] = "waiting"
  /\ LET r == Resume(s)
     IN  /\ Readable(r)
         /\ drive' = [drive EXCEPT ![s].at = "loop", ![s].pos = Point(r.day, r.skip),
                        ![s].last = r.day, ![s].since = r.skip]
  /\ job' = [job EXCEPT ![s] = "active"]
  /\ UNCHANGED <<stream, row, plan, file, call, boot, faults, ghost>>

(* Thrown before the job's `try`: the job fails, nothing else is recorded. *)
ThrownEarly(s) ==
  /\ job[s] = "waiting"
  /\ job' = [job EXCEPT ![s] = "failed"]
  /\ UNCHANGED <<stream, row, plan, drive, call, boot, ghost>>

NotOpened(s) == ~Readable(Resume(s)) /\ ThrownEarly(s) /\ UNCHANGED <<file, faults>>

Fault == faults < Faults /\ faults' = faults + 1

(* A sink cannot be created; the thread, already started, may have written  *)
(* its first checkpoint by then, or part of it.                             *)
Unreachable(s) ==
  LET r == Resume(s)
      d == Point(r.day, r.skip) \div DayLength
  IN  /\ Readable(r) /\ d \in Days
      /\ Fault /\ ThrownEarly(s)
      /\ \E left \in {file[s][d], "torn", "whole"} : file' = [file EXCEPT ![s][d] = left]

-----------------------------------------------------------------------------
(* The live thread: on the first batch of a day it writes that day's        *)
(* checkpoint into its session's directory, in place, then hands it over.   *)

Running(s) == drive[s].at \in {"loop", "taking", "handling", "stats", "reporting"}

NextDay(s) ==
  IF drive[s].head = None THEN drive[s].pos \div DayLength ELSE drive[s].head + 1

BeginWrite(s) ==
  /\ Running(s) /\ ~drive[s].writing /\ NextDay(s) \in Days
  /\ file' = [file EXCEPT ![s][NextDay(s)] = "torn"]
  /\ drive' = [drive EXCEPT ![s].writing = TRUE]
  /\ UNCHANGED <<stream, row, plan, job, call, boot, faults, ghost>>

EndWrite(s) ==
  /\ Running(s) /\ drive[s].writing
  /\ file' = [file EXCEPT ![s][NextDay(s)] = "whole"]
  /\ drive' = [drive EXCEPT ![s].writing = FALSE, ![s].head = NextDay(s)]
  /\ UNCHANGED <<stream, row, plan, job, call, boot, faults, ghost>>

-----------------------------------------------------------------------------
(* The job's loop.  Limit keeps a delivery for each later session.          *)

Limit(s) == Total - (Sessions - s)

Room(s) == drive[s].pos < Limit(s)

ToldToStopIfCurrent(s) ==   \* slip: a superseded job is not told
  state = "stopped" \/ (state = "error" /\ ~drive[s].reported)

ToldToStop(s) ==
  state = "stopped" \/ current # s \/ (state = "error" /\ ~drive[s].reported)

(* What is in flight gets five seconds to settle. *)
Leave(s) ==
  /\ drive[s].at = "loop" /\ ToldToStop(s)
  /\ GoTo(s, "closing")
  /\ UNCHANGED <<stream, row, plan, job, file, call, boot, faults, ghost>>

(* The token bucket lets some deliveries through in this tick, or none. *)
Tokens(s) ==
  /\ drive[s].at = "loop" /\ ~ToldToStop(s) /\ ~drive[s].broken
  /\ state = "streaming" /\ Room(s)
  /\ GoTo(s, "taking")
  /\ UNCHANGED <<stream, row, plan, job, file, call, boot, faults, ghost>>

Tick(s) ==
  /\ drive[s].at = "loop" /\ ~ToldToStop(s)
  /\ \/ ~drive[s].broken /\ GoTo(s, "stats")
     \/ drive[s].broken /\ ~drive[s].reported /\ GoTo(s, "reporting")
  /\ UNCHANGED <<stream, row, plan, job, file, call, boot, faults, ghost>>

(* onStreamError *)
Report(s) ==
  /\ drive[s].at = "reporting"
  /\ state' = "error"
  /\ drive' = [drive EXCEPT ![s].at = "loop", ![s].reported = TRUE]
  /\ UNCHANGED <<current, row, plan, job, file, call, boot, faults, ghost>>

(* Days before the previous one are pruned. *)
Pruned(s, d) == [file EXCEPT ![s] = [e \in Days |-> IF e < d - 1 THEN "none" ELSE @[e]]]

(* A chunk of n deliveries, all of one day; the first of a day brings the   *)
(* checkpoint the thread has written.                                       *)
Take(s, n) ==
  LET p == drive[s].pos
      d == p \div DayLength
  IN  /\ drive[s].at = "taking" /\ d <= drive[s].head
      /\ n <= DayLength - (p % DayLength) /\ p + n <= Limit(s)
      /\ drive' = [drive EXCEPT ![s].at = "handling", ![s].size = n, ![s].left = n, ![s].seen = d,
                     ![s].last = IF drive[s].seen # d THEN d ELSE @,
                     ![s].since = IF drive[s].seen # d THEN p % DayLength ELSE @]
      /\ file' = IF drive[s].seen # d THEN Pruned(s, d) ELSE file
      /\ UNCHANGED <<stream, row, plan, job, call, boot, faults, ghost>>

(* One delivery is handed over (submit is called; what becomes of it is     *)
(* module DeliveryPump's); after the last, the chunk is counted and the     *)
(* tick takes another, or ends.                                             *)
Submit(s) ==
  /\ drive[s].at = "handling" /\ ~drive[s].broken
  /\ sent' = [sent EXCEPT ![drive[s].pos] = IF faults = 0 THEN @ + 1 ELSE 1]
  /\ published' = published \union {s}
  /\ \/ /\ drive[s].left > 1
        /\ drive' = [drive EXCEPT ![s].pos = @ + 1, ![s].left = @ - 1]
     \/ /\ drive[s].left = 1
        /\ \E next \in {"stats"} \union (IF drive[s].pos + 1 < Limit(s) THEN {"taking"} ELSE {}) :
             drive' = [drive EXCEPT ![s].pos = @ + 1, ![s].left = 0, ![s].size = 0,
                         ![s].since = @ + drive[s].size, ![s].at = next]
  /\ UNCHANGED <<stream, row, plan, job, file, call, boot, faults, early>>

(* submit throws the breaker's error, or take the live thread's.            *)
Thrown(s) ==
  /\ \/ drive[s].at = "handling" /\ drive[s].broken /\ UNCHANGED faults
     \/ drive[s].at = "taking" /\ Fault
  /\ drive' = [drive EXCEPT ![s].at = "closing", ![s].failing = TRUE]
  /\ UNCHANGED <<stream, row, plan, job, file, call, boot, ghost>>

Trip(s) ==
  /\ drive[s].at \in {"loop", "taking", "handling"}   \* elsewhere the loop is not looking
  /\ s \in published /\ ~drive[s].broken
  /\ Fault
  /\ drive' = [drive EXCEPT ![s].broken = TRUE]
  /\ UNCHANGED <<stream, row, plan, job, file, call, boot, ghost>>

RecordedAhead(s) ==   \* slip: the chunk in hand counts as handed over
  row' = IF drive[s].last = None THEN row
         ELSE [row EXCEPT ![s].day = drive[s].last, ![s].skip = drive[s].since + drive[s].size]

(* onSessionProgress, once a second and at the end. *)
Recorded(s) ==
  row' = IF drive[s].last = None THEN row
         ELSE [row EXCEPT ![s].day = drive[s].last, ![s].skip = drive[s].since]

Progress(s) ==
  /\ drive[s].at = "stats"
  /\ Recorded(s) \/ UNCHANGED row
  /\ GoTo(s, "loop")
  /\ UNCHANGED <<stream, plan, job, file, call, boot, faults, ghost>>

-----------------------------------------------------------------------------
(* The end of a session: close the source, trim the checkpoints, record the *)
(* position, end the session.                                               *)

TrimmedToo(s) ==   \* slip: the day reached goes as well
  IF drive[s].last = None THEN file
  ELSE [file EXCEPT ![s] = [e \in Days |-> IF e = drive[s].last - 1 THEN @[e] ELSE "none"]]

Trimmed(s) ==
  IF drive[s].last = None THEN file
  ELSE [file EXCEPT ![s] =
          [e \in Days |-> IF e \in (drive[s].last - 1)..drive[s].last THEN @[e] ELSE "none"]]

Close(s) ==
  /\ drive[s].at = "closing"
  /\ file' = Trimmed(s)
  /\ LET d == drive[s]   \* what is still of use
     IN  drive' = [drive EXCEPT ![s] = [Asleep EXCEPT !.at = "recording", !.size = d.size,
                                          !.last = d.last, !.since = d.since,
                                          !.failing = d.failing]]
  /\ UNCHANGED <<stream, row, plan, job, call, boot, faults, ghost>>

RecordFinalSkipped(s) ==   \* slip: the position of the last second stands
  /\ drive[s].at = "recording"
  /\ GoTo(s, "ending")
  /\ UNCHANGED <<stream, row, plan, job, file, call, boot, faults, ghost>>

RecordFinal(s) ==
  /\ drive[s].at = "recording"
  /\ Recorded(s)
  /\ GoTo(s, "ending")
  /\ UNCHANGED <<stream, plan, job, file, call, boot, faults, ghost>>

End(s) ==
  /\ drive[s].at = "ending"
  /\ row' = [row EXCEPT ![s].at = "ended"]
  /\ job' = [job EXCEPT ![s] = IF drive[s].failing THEN "failed" ELSE "completed"]
  /\ drive' = [drive EXCEPT ![s] = Asleep]
  /\ UNCHANGED <<stream, plan, file, call, boot, faults, ghost>>

-----------------------------------------------------------------------------
(* The worker dies and comes back.                                          *)

(* The queue hands back the jobs it held.                                   *)
(* While it is away only requests move, as they may before the new process  *)
(* has read anything, so the two are one step.                              *)
Restart ==
  /\ Fault
  /\ job' = [s \in Seqs |-> IF job[s] = "active" THEN "waiting" ELSE job[s]]
  /\ drive' = [s \in Seqs |-> Asleep]
  /\ boot' = [at |-> "list", seq |-> 0]
  /\ UNCHANGED <<stream, row, plan, file, call, ghost>>

(* reconcileStreams: a stream whose session has no job in Redis, not even a *)
(* failed one, is stopped and its session ended.                            *)
Reconcile ==
  /\ \/ /\ boot.at = "list"
        /\ boot' = IF state \in {"streaming", "paused"} /\ job[current] = "none"
                   THEN [at |-> "stop", seq |-> current] ELSE [boot EXCEPT !.at = "idle"]
        /\ UNCHANGED <<state, row>>
     \/ /\ boot.at = "stop"
        /\ state' = "stopped"
        /\ boot' = [boot EXCEPT !.at = "end"]
        /\ UNCHANGED row
     \/ /\ boot.at = "end"
        /\ row' = [row EXCEPT ![boot.seq].at = "ended"]
        /\ boot' = [at |-> "idle", seq |-> 0]
        /\ UNCHANGED state
  /\ UNCHANGED <<current, plan, job, file, drive, call, faults, ghost>>

-----------------------------------------------------------------------------
Thread(s) == BeginWrite(s) \/ EndWrite(s)

Drive(s) ==
  \/ Opened(s) \/ NotOpened(s)
  \/ Leave(s) \/ Tokens(s) \/ Tick(s) \/ Report(s)
  \/ (\E n \in 1..DayLength : Take(s, n)) \/ Submit(s) \/ Progress(s)
  \/ Close(s) \/ RecordFinal(s) \/ End(s)

Next ==
  \/ \E r \in Calls : \/ \E to \in {"paused", "streaming", "stopped"} : Ask(r, to)
                         \/ AskStart(r) \/ Serve(r)
  \/ \E s \in Seqs : Drive(s) \/ Thread(s) \/ Unreachable(s) \/ Thrown(s) \/ Trip(s)
  \/ Restart \/ Reconcile

(* Requests under way, boot, jobs and threads go on.  Nothing forces a      *)
(* request, a fault or a token.  What takes finitely many steps in any      *)
(* behaviour shares one condition.                                          *)
Fairness ==
  /\ WF_vars(\/ \E r \in Calls : Serve(r)
             \/ \E s \in Seqs : Thread(s)
             \/ Reconcile)
  /\ \A s \in Seqs : WF_vars(Drive(s) \/ Thrown(s))

Spec == Init /\ [][Next]_vars

FairSpec == Spec /\ Fairness

-----------------------------------------------------------------------------
(* No session starts ahead of what was handed over: before a delivery is    *)
(* handed to the delivery loop every one since the end of history has been, *)
(* through stops, starts, errors, crashes and sessions that overlap.  What  *)
(* becomes of a delivery once it is handed over is not followed: those that *)
(* a tripped breaker, a stop or a crash finds in flight or waiting for a    *)
(* retry are behind the recorded position, and are not handed over again    *)
(* (README, "Departures").                                                  *)
HandedOverInOrder == \A p \in 1..(Total - 1) : sent[p] > 0 => sent[p - 1] > 0

(* "a new session continues from here without repeating anything": without  *)
(* faults, and when every start came after the last session had recorded    *)
(* its end, which a stop request does not wait for, and no two starts       *)
(* overlapped (README, "Departures"), each delivery is handed over once.    *)
NoRepeats == faults = 0 /\ ~early => \A p \in 0..(Total - 1) : sent[p] <= 1

(* A session that has handed over anything and ends without a fault leaves  *)
(* the checkpoint its position names, whole, however far ahead its thread   *)
(* had written: the next start finds the world to continue.                 *)
PublishedResumable ==
  faults = 0 =>
    \A s \in published :
      row[s].at = "ended" => row[s].day # None /\ file[s][row[s].day] = "whole"

(* A session that is stopped, or superseded by a newer one, for good, comes *)
(* to an end, through pauses, a tripped breaker and a crash.                *)
StopHonoured ==
  \A s \in Seqs : <>[](state = "stopped" \/ current # s) => <>[](drive[s].at = "idle")

(* Not checked: the code departs from it (README, "Departures").            *)
(* "Starting a stream that was previously stopped MUST publish events"      *)
(* (FR-026): the job of a session that was started does not fail before it  *)
(* has published anything.                                                  *)
RestartPublishes == faults = 0 /\ ~early => \A s \in Seqs : job[s] = "failed" => s \in published
=============================================================================
