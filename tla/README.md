# TxLoom: TLA+ specifications

TLA+ models of TxLoom where processes, jobs, timers, messages and crashes meet,
and of the algorithms that a resumed stream relies on. TLC checks them on small
instances; TLAPS proves every invariant and action property that they check, and both
refinements, for every value of the constants.

    tlc -config MCRunLifecycle.cfg MCRunLifecycle     # a run (see "Runs")
    tlapm DeliveryPump_proofs.tla                     # a module of proofs

`PROJECT.json` lists the components, runs, hazards and theorems, and maps every
definition that models code to its lines. In the modules, a definition marked
*slip* is not part of the model: it is a mistake the definition next to it could
contain, and for each property one slip shows that the property notices it.

## The system

TxLoom simulates a population of consumers and delivers its transactions to files,
brokers and webhooks: first a history, then, if asked to, a live stream. API, worker
and browser share MySQL (rows), Redis (BullMQ queues) and a data directory
(Parquet files, checkpoints).

| part | state it keeps | operations | talks to |
|---|---|---|---|
| API (`apps/api`) | rows: scenarios, spec versions, connections, runs, partitions, replays, streams and sessions, defaults | save, rollback, connections, launch, regenerate; pause, resume, retry, cancel; replay retry and skip; stream start, pause, resume, stop, rate; exports, deletion of outputs | MySQL, `queue.add`, `job.remove`, export manifests |
| Worker (`apps/worker`) | local variables of jobs | `generate-partition`, `deliver`, `stream-drive`, `export-build` and probe jobs; boot-time resume and reconciliation | MySQL, Redis, files, sinks |
| Delivery loop (`packages/sinks/src/pump.ts`) | retry heap, queue of due retries, slot waiters, counters, breaker window, pacer | submit, complete, retry timer, drain, stop, set the target | a sink's `publish`, its caller |
| Sinks (`packages/sinks/src`) | client connection and channel, `full`, `blocked` | publish, waitForCapacity, close, probe | Kafka, RabbitMQ, HTTP |
| Live source (`apps/worker/src/live`) | buffer of chunks, one request in flight, day checkpoint files | take, refill, close; simulate a day, write its checkpoint | a worker thread, files |
| Engine (`packages/engine`) | a partition's world, planned fraud, held and late deliveries, random streams, token bucket | simulate a day, transform, hand out a batch, checkpoint, restore | - |
| Web client (`apps/web`) | what its pages show | edit, save, launch, watch and steer a run | API calls, a WebSocket |

What is hard about it:

* **Concurrency without locks.** Routes check a state they read and write another
  later; callbacks of jobs do the same. API and worker interleave at every await.
* **At-least-once jobs.** BullMQ hands back the job of a dead worker, ignores an id
  it already knows, and retries with backoff; a partition or a sink can have two
  jobs at once.
* **Positions kept twice.** A replay's cursor and label files, a stream's day and
  count and checkpoint files, are written in separate steps; a crash, a stop or a
  tripped breaker can fall between any two.
* **Days done again.** A session continues by restoring a checkpoint and simulating
  the day again; held and late deliveries, planned fraud and random streams must all
  come back as they were.
* **Hand-overs.** Generation, replay, live: each started by whoever finishes last,
  with crashes in between.
* **Flow control.** A window, due retries and waiting submitters compete for slots,
  drain and stop wait on the same counters, and a token bucket, a pacer and a buffer
  are throttled from both ends.
* **Answers out of order.** A page hears of a row by its first GET, by polled messages
  and by the answers to its commands, and nothing orders the three.

What makes each part correct: the loop never exceeds its window, loses no wake-up
and settles each delivery once; a run completes exactly when it is whole and fails
only when a partition has used up its attempts; a cursor never passes a row without
an outcome and live never overtakes a history; a stream is handed over in order, again
only after a fault or a hasty start, and a stop is a stop; a day done again is the same day; labels
tell the truth about order; a completed export is whole; versions are append-only;
what a page would do is what it shows.

## Modules

Each module is one component: its state as variables, one action per handler, or per
stretch of code between two awaits. `MC*` modules instantiate them for TLC; `<module>_proofs` holds the theorems about `<module>`.
Four of these also prove those of a second component, which shares no definition with the first: `DeliveryPump_proofs` of `Sinks`,
`LiveSource_proofs` of `LiveWorld`, `PartitionWorld_proofs` of `Exports`, `Catalog_proofs` of `Web`. That is why some modules name their
specification after themselves (`SinkSpec`, `WorldSpec`, `ExportSpec`, `WebSpec`).

**`DeliveryContract`**: what the delivery loop promises, without its mechanism. A delivery handed
over ends delivered, labelled dropped, or, once the loop is stopped, abandoned or refused; never two of these.

**`DeliveryPump`** (`pump.ts`). One JavaScript thread, so an action is a synchronous
stretch of code: `Submit`, `AwaitCapacity` (the sink is saturated), `TakeSlot`, `AwaitSlot`, `NoSlot` (`reserveSlot`),
`Launch` and `Refuse` (submit resumes), `CompleteOk`, `CompleteRetry`, `CompleteAbandoned`,
`CompleteDropped` (`complete` with its `dispatch`, `checkBreaker` and `checkIdle`), `Labelled`,
`TimerFires`, `Drain`, `Stop`. `at[i]` says where a delivery is; `inFlight`, `pending`, `ready`, `slotWaiters`
are the code's fields. Time is a choice: which retries are due, which completions have left
the breaker's window. `ImplementsContract` is the refinement of `DeliveryContract`.

**`Pacing`** (`token-bucket.ts`, `AimdPacer` and the retry heap in `pump.ts`, the ticks of
`stream-drive.ts`): the same pump with a clock and without stop and breaker. `Tick`, `Chunk`, `Rest` are the drive loop,
`Take` and `Woken` the bucket and the pacer's wait, `Complete` and `RetriesDue` the heap with its one timer,
`Clock` one step of time, `SetTargetTps` the user.

**`RunLifecycle`** (`run-control.ts`, `run-launch-service.ts`, `handlers.ts`, `generate-partition.ts`, boot's
`resumeAfterRestart`). Rows `status`, `part`, `retryCount`; BullMQ's view of each job (`job`, `made`,
`stalls`), with ids `<run>-<n>` and `<run>-<n>-r<k>`; `step`, where the code of a job stands;
`call`, the loops of requests, launch and boot. Every database or queue operation is an action;
generation itself is one.

**`HistoryReplay`** (`deliver.ts`, `delivery-service.ts`, `maybeAutoStartLive`, replay retry and skip,
`reconcileDeliveries`). The row, cursor and label files of each sink and each pass's
position, outstanding rows, open label file and checkpoint. The delivery loop is taken at its contract, plus
the one thing `DeliveryPump` shows beyond it: when the breaker trips under a waiting drain, the
drain may resolve (`Trip`). The start of live is a chain of awaited writes, an action each: `CreateStream`, `StartSession`, `QueueDrive`; a crash of the worker, or the boot's
`LookForJob` and `StopStream`, may come between any two (`cut`).

**`StreamSession`** (`stream-control.ts`, `stream-sessions.ts`, `stream-drive.ts`, `live-checkpoints.ts`, the
live thread, `reconcileStreams`). The position of the stream: each delivery is a number, a day is
`DayLength` of them; a session's row holds a day and a count, its directory a checkpoint file per day (`torn`
while it is written). Control requests are numbered in the order they are made, which loses nothing: they
differ only in what they ask for. A crash and the next boot are one step (`Restart`): in between only requests
move, as they may after it.

**`PartitionWorld`** (`planner.ts`, `simulate-day.ts`, `partition-world.ts`). `HistoryDay` and `LiveDay` run a whole day: campaigns
are planned (`Planned`), consumers spend, the schedule of the day is drained (`Drained`), which produces,
spills, chains and drops; `Resume` restores a marked day's checkpoint. `Checkpoint` builds the stored form field by field, as `checkpointWorld`
writes it, and `Restored` a world from it: per consumer a row, the heap as its items, the map of recent purchases as its entries. Left out of both are `actorSeq` and
`partitionNo`, which only name actors, and the check of the engine version. The random stream is a tape: a world whose stream stands where the marked day's stood draws what
that day drew.

**`LiveWorld`** (`transformer.ts`, `live-world.ts`, `partition-worker.ts`): from events to what each sink is sent. `GenerateDay`,
`EndHistory` (flush and checkpoint), `Open`, `AdvanceDay`, `NextBatch`, `Restart`. `tr` has the heap of late deliveries,
the hold slot and the greatest order sent, of each partition and sink.

**`LiveFeed`** and **`LiveSource`** (`live-source.ts`, `live-world-thread.ts`): what a live source promises the drive loop (the days
in order, no slice across days, a day's checkpoint with its first slice), and the two sources that promise
it. `Thread` and `ThreadDies` are the thread's side, `Hear` the main thread's message handler, `TakeLoop`, the caller and close the
drive loop's; `port` and `inbox` the two channels. `IsAFeed` is the refinement.

**`Sinks`** (`kafka/producer.ts`, `rabbitmq/publisher.ts`, `webhook/publisher.ts`, `connection-test.ts`). The clients are external and do
what the sinks rely on; the module's header says what. `SubmitTo` and `Retry` are the pump's two ways to publish, `Dial`, `SetUp`, `SetUpFails`
the stretches of `connect`; `Drains`, `Blocks`, `Unblocks`, `ChannelCloses`, `ConnectionCloses` the events; `Probe` the connection test. `amqp` has RabbitMQ's connections,
`client` what became of the Kafka producer and of the admin client that a test connects besides.

**`Catalog`** (scenario, version, connection, launch and regenerate routes, boot). Every query is an action, so two handlers
interleave between any two of their queries; `Crash` loses the requests under way.

**`Exports`** (`export-service.ts`, `exports.ts`, `export-build.ts`, `run-outputs.ts`). `Write` (generation), `Replay` (drop files),
`RequestExport`, `QueueBuild`, `Step` (the build: list, read file by file, write, settle), `Crash`; `DeleteOutputs`, `RemoveFile`, `RemovalEnds` are a recursive removal, which takes the files
one by one in any order. `seen` is how far it was when a build listed a directory.

**`RunPage`** (`run-detail.tsx`, `stream-console/`, `run/index.tsx`, `ws/run-progress.ts`, `ws/run-stream.ts`). The panes of the run's page with the API's
side of their subscription. Every reading of the rows is a place in their history, so that what is shown can be
compared with what was known when.

**`Workspace`** (`scenario-workspace/`, `connection-form.tsx`). The editor with its validation behind the typing, Save, versions and rollback, the launch
drawer with its fetches, its connection form and Launch.

How they compose:

* `Web` composes `Workspace` and `RunPage`: the answer to a launch opens the run's page.
* `RunLifecycle`'s `FollowUp` is where `HistoryReplay` starts; the end of `HistoryReplay`'s `GoLive`, a queued session, is the
  initial state of `StreamSession`; both use the delivery loop as `DeliveryPump` describes it, and `DeliveryPump` uses a sink whose publishes
  settle, which `Sinks` shows (`CallsSettle`).
* `PartitionWorld` shows that a day can be done again; `LiveWorld` takes that and shows it of the
  deliveries; `LiveSource` hands out the days `LiveWorld` gives; `StreamSession` takes from `LiveSource` and says which position the next
  session starts from, any of those that `LiveWorld`'s `Restart` allows.
* `Pacing` is `DeliveryPump` with time and `StreamSession`'s `Tokens` with a clock.

## Runs

| run | bounds | states | shows |
|---|---|---|---|
| `MCDeliveryPump` | 3 deliveries, 1 slot, 2 attempts, breaker after 2 | 40 736 | `Accounting`, `WindowUsed`, `DrainMeansSettled`, `ImplementsContract`, `CallersAnswered` |
| `MCRunLifecycle` | 2 partitions, 2 attempts, one request or one crash | 296 901 | `CompletedIsWhole`, `FailureEarned`, `RunEnds` |
| `MCHistoryReplay` | sinks x rows 2x1, 1x2, or 1x1 with a crash; one request | 290 384 | `CursorCovered`, `LabelledOnce`, `ReplayBeforeLive`, `ReplayEnds`, `LiveStarts` |
| `MCStreamSession` | 2 sessions, 3 deliveries in days of 2, 2 requests, 1 fault | 660 104 | `HandedOverInOrder`, `NoRepeats`, `PublishedResumable`, `StopHonoured` |
| `MCPartitionWorld` | 2 consumers, 2 days of history, 1 live day | 609 838 | `PlannedAccounted`, `QuietVictims`, `DayRepeats` |
| `MCLiveWorld` | 2 partitions, 2 sinks, 3 events, 3 days | 100 216 | `Continues`, `EachOnce`, `LabelsTellOrder` |
| `MCLiveSource` | 6 days, buffer 5, chunks of 2, 2 faults | 5 005 | `BufferBounded`, `IsAFeed`, `TakeAnswered` |
| `MCSinks` | 3 attempts, 2 connections, 2 faults | 104 529 | `NothingLeftOpen`, `CallsSettle` |
| `MCCatalog` | 3 requests of any kind, 1 crash | 1 768 325 | `RecordsHold`, `HistoryKept` |
| `MCExports` | 2 partitions (2 segments and 1), 2 drop files, 1 export; a failed attempt, a crash or a deletion | 1 047 253 | `ExportsWhole`, `ExportEnds` |
| `MCWeb` | 2 edits and 2 versions, or 2 openings of the drawer and 1 new connection; 2 changes of the run | 462 108 | `DoesWhatItShows`, `ChoicesKept`, `LiveShown`, `CatchesUp` |
| `MCPacing` | rates 1 and 3, or 2 and two retries; half-second steps | 524 071 | `BurstBounded`, `RetriesOnTime`, `Recovers` |

Why these bounds are enough for the cases to happen:

* *Delivery loop.* One slot and three deliveries: one in flight, one due for a retry, one waiting to submit, so
  every completion decides who is served next. More slots only let more of them be served.
* *Run lifecycle.* Two partitions for "the last one", two attempts for "not the last attempt". The constraint
  `OneTrouble` leaves out behaviours with a request *and* a crash; a request meets every state of the jobs, a crash
  every state of rows and queue. The proofs have no such bound.
* *History replay.* `Budget` shares sinks, rows and troubles: two sinks of one row with a request, one sink of two rows with a request, or one of
  one row with a request and a crash. `Fresh` (2) is as many job ids as a request and a boot ask for, `Files` (3)
  as many label files as two passes of two rows open. Two rows per sink make a checkpoint with one row settled and one outstanding; two sinks make "the last to finish".
  A larger instance (two sinks of two rows, checkpoints of two rows, one request, no crash: 863 thousand states) was checked by hand and is too slow to repeat each time.
* *Stream session.* The second of two days begins, so a session ends in mid-day, at a day's end and with its thread a day ahead. `Limit` keeps a
  delivery for the later session, so that it has something to publish. Two requests are a stop and a start, or a pause that races with a stop.
* *World.* `PartitionWorld`: two consumers (a victim and a bystander), two moments of a day, each kind of campaign, one live day done again. `LiveWorld`:
  late, duplicated and held events in every mixture over a day of history and two live days, with a stop after any delivery.
* *Live source.* Days shorter than a chunk, longer than the buffer, empty, and begun by an earlier session; takes of nothing, one, a chunk and more.
* *Sinks.* A second connection, so that events of the first arrive behind its back.
* *Exports.* Segments give the two orders in which files are listed, two drop files "the first" and "the others". `OneTrouble` leaves out
  behaviours with a deletion *and* a failed attempt or crash, and deletions of a run that is still written; `InTurn` removes the second partition's files last, else in any order. The proof has none of
  these bounds.
* *Catalog.* Three overlapping requests: two that race and one whose record is read or edited meanwhile. Requests are interchangeable (symmetry; the
  run has no liveness).
* *Web.* The two scopes are the two halves of the page, which do not touch each other but through the saved spec.
* *Pacing.* `RecoverIn` is 2 seconds (20 in the code), so that recovery is over before the counters are; halving 3 gives the floor.

Consumers are interchangeable in `MCPartitionWorld` too. `CHECK_DEADLOCK` is off where a system may come to rest: a run that is
completed, a stream that is stopped, a page nobody clicks on.

### Fairness

Never of a user, a request, a fault or a crash. In detail:

* `DeliveryPump`: continuations and timers run, the pacer releases, a publish settles (`interface.ts`; `CallsSettle`). Nothing makes a saturated sink have capacity again
  (Departures, `CapacityAsDocumented`), and `CallersAnswered` promises nothing to a submit that waits for it.
* `RunLifecycle`, `HistoryReplay`: code that has started goes on, BullMQ runs waiting jobs and hands back stalled ones, a dead worker is restarted: one condition per job, request, loop and boot.
  A row's outcome is part of a pass's fairness in `HistoryReplay`: `CallersAnswered` justifies it, but for a sink that stays saturated.
* `StreamSession`: requests under way, boot and each session's job and thread go on; a tick may find the bucket empty every time. That a session's loop goes on assumes a sink that does
  not stay saturated, here too: `StopHonoured` and `ReplayEnds` say nothing of one that does.
* `LiveSource`: the thread, its messages and a take that was woken go on.
* `Sinks`: promises are resumed; a connect, a publish or a close is answered or fails; a full buffer drains and an alarm ends.
* `Exports`: the worker works its queue off.
* `Pacing`: the drive loop and timers run and time passes.
* `RunPage`: timers fire, calls are handled and answered, messages arrive.
* `PartitionWorld`, `LiveWorld`, `Catalog` and `Workspace` have safety and action properties only.

## Proofs

Each theorem holds for every value of the constants that the module's `ASSUME` allows. The assumptions are types and lower bounds, and these: sinks, deliveries,
consumers and control requests are finite sets; backoffs have a longest (`maxMs` in the code); a dormancy is shorter than the history
(`dormancy-satisfiable.ts` refuses such a spec); an exported run has ten partitions of ten segments at most, since the model orders file names within one digit;
the text of the editor is never the value that stands for no text. Bounds on crashes, faults and requests are any number; `Budget` (`HistoryReplay`) and the scopes of `Pacing` only divide the work
among TLC's instances and may be anything. Each proof is an inductive invariant with one lemma per action. Where an
invariant is about a sequence, a sum or a fold, the step from one index to the next is a lemma and the rest is an induction: a least counterexample, which
`WellFoundedInduction` gives, would have a predecessor.

| module | theorem | states |
|---|---|---|
| `DeliveryPump_proofs` | `CountersExact`, `WindowRespected`, `DrainSettles`, `PumpImplementsContract` | `Accounting`, `WindowUsed`, `DrainMeansSettled`, `ImplementsContract` |
| | `TestsLeaveNothing` | `NothingLeftOpen` |
| `Pacing_proofs` | `BurstsAreBounded`, `TimerIsEarliest` | `BurstBounded`, `RetriesOnTime` |
| `RunLifecycle_proofs` | `OnlyWholeRunsComplete`, `FailuresAreEarned` | `CompletedIsWhole`, `FailureEarned` |
| `HistoryReplay_proofs` | `ResumesCovered`, `LabelsDiscarded`, `LiveAfterReplay` | `CursorCovered`, `LabelledOnce`, `ReplayBeforeLive` |
| `StreamSession_proofs` | `NeverJumpsAhead`, `ContinuesWithoutRepeats`, `LeavesACheckpoint` | `HandedOverInOrder`, `NoRepeats`, `PublishedResumable` |
| `PartitionWorld_proofs` | `CountsTrue`, `VictimsKeepQuiet`, `RedoneDayIsTheSame` | `PlannedAccounted`, `QuietVictims`, `DayRepeats` |
| | `ExportsAreWhole` | `ExportsWhole` |
| `LiveSource_proofs` | `BufferCounted`, `SourceIsAFeed` | `BufferBounded`, `IsAFeed` |
| | `CarriesOn`, `EachIsTold`, `LabelsAreTrue` | `Continues`, `EachOnce`, `LabelsTellOrder` |
| `Catalog_proofs` | `VersionsAppendOnly`, `RecordsKept` | `HistoryKept`, `RecordsHold` |
| | `ShowsWhatItDoes`, `ChoicesStay` | `DoesWhatItShows`, `ChoicesKept` |

*Delivery loop.* `IInv` is `TypeOK`, `QueuesMatch`, `Accounting` and `WindowUsed`. `Accounting` alone is not inductive: `dispatch` adds the length of what it serves to
`inFlight`, which is the number of deliveries served only because the queues hold no delivery twice and agree with `at`; and `stop` subtracts what `QueuesMatch`
says is in the heap. `DispatchServes` and `StopReleases` say what the two do to the sets of deliveries, `MoveIn`, `MoveOut` and `MoveWithin` what one move does
to a cardinality. The refinement adds `CleanUntilStopped`: nothing is refused, rejected or abandoned while the pump runs. `CompleteMoves` reduces the
four kinds of completion to a place for the completed delivery and then dispatch, with or without the breaker; `OneFate`, `ClosesWith` and `SameFates` say which
changes of fates are steps of the contract, and each action is one of the three. For `DrainSettles`, a debt of nothing is by `Accounting` an empty set of owed deliveries.

*Pacing.* `Types` keeps the pacer's rate between one publish a second and the target. `Naps` says that the pacer's timer is set only while a publish waits for it. `RetriesOnTime` is inductive
with these. For the burst, `BurstInv` says it of every k and every rate T that the targets of the last k steps keep to: what was released in the last k
steps and the tokens held fit in a second's burst plus the time that passed at T. The sums over the ring of steps are `MapThenSumSet`; that a turned ring drops one summand and adds another is
proved by induction.

*Run lifecycle.* `Whole` says that a worker past `maybeCompleteRun`'s first check saw every partition done, and that what was done stays generated even when a
second job takes the row back; `Earned` that a job's failed attempts never exceed its partition's.

*History replay.* `CursorCovered` speaks of the saved cursor, but what saves it is a pass that knows more: `SinkOK` says of a pass's position, outstanding rows, label
files and checkpoint which rows have an outcome, which of those the end of the pass will not take back (`Kept`), and, while no crash left a file behind, that no row is
in two files. `JobsMatch` says whose pass it is, so that `Replaying` can say that a sink has one pass or rests; it exempts sinks replayed twice at once, as the properties do.

*Stream session.* Three layers. `Slots` and `Positions`: a session has one job, and every place that keeps a position (loop, row, payload, request) keeps one before which
everything was handed over; hence `HandedOverInOrder`, whatever overlaps. `Frontier`: while nothing failed, whoever has the stream, a start that read the last row, a payload or the
loop, stands where nothing further was handed over, and there is one of them; hence `NoRepeats`. That no second start is under way, and that the last session has recorded its end, is its one
assumption, in `early` (see Departures). `Checkpoints`: the day each stage of a session's end will record has its file whole, and neither pruning nor trimming takes it.

*World.* `Sound` relates the planner's counts to the pending steps and to what was produced (`Accounted`), and each takeover's victim to the dormancy and the first transfer that
are still to come (`Dormant`); `Marked` says the same of the world that the checkpoint rebuilds, that what the marked day gave and the
world it left are functions of that world and its draws, and that a session at the marked day has exactly that world. The rest is that
`Restored` undoes `Checkpoint` on every world that can come about: `Fits` is why rebuilding the rings of consumers that bought nothing, which are not stored, loses nothing. What is drained, dropped, chained or spilled is counted by cardinalities (`Gone`, `Sold`, `Made`).

*Live source.* `RoomKept` (what is buffered and the chunk on its way fit together) needs `OneAnswer`: one answer at most is asked for, being made or on its way, and `inFlight` lasts as
long. A failed thread leaves `inFlight` set for ever, so it is an implication. `IsAFeed` needs where each piece of the stream of chunks is: `Linked` says that each chunk in the
queue starts where the one before it, or what was handed out last, ended; `Aligned` and `Orderly` continue this through the inbox and the chunk being made to the world's
cursor. `BufferCounted` sums over the queue by induction.

*Catalog.* For the versions, `RowsNumbered` says that they are numbered by their place and that a rollback repeats an earlier one, `SavesTrue` that the
number a save has read is at most the next one, which the unique key turns into exactly the next one. For the runs, `Records` says what each request under way has
read and how much of it is still true: `Launching` says of a launch or regeneration that the version it read is that version, and that each destination it copied has
the sink's type and names a connection that is of that type or has gone since; `StillTrue` that no step of another request (`Later`: rows are added, connections deleted, runs forget deleted connections) makes it false. The operator's
connections are applied by a fold over a list of any length, which `FoldExists` and `AppliedGrows` take one entry at a time.

*Live world.* The order in which a heap is popped and partitions are merged is chosen (`InOrder`, `Merged`) and recursive functions carry the transformers through a day, so
the lemmas come first: a finite heap has exactly one enumeration in order, and a list woven from others has each of their elements once, in their order. The
tape of draws grows, so the proof says of what was drawn that it stays (`TapeOK`). A day's deliveries are a function of the tape and the
transformers the day began with; `Line` says that a sink's days so far follow from one another in this way, from the transformers the history left. `Steady` is then a disjunction:
`Early` (in the history), `Ready` (its end), `Resumed` (a session was opened, or opened again, from a checkpoint that stands between two days of the line) and `Playing` (a
day is under way that began from such a place, and gave `cursor` deliveries of its list). Hence `Continues`, for a day done again as for a first one.
`ToldOf` and `KeptOf` split the copies of what happened into those sent and those that wait, which gives `EachOnce`; `Tells` says what a list's labels must
be after the greatest order that came before it, and composes along the line and across the merge, which gives `LabelsTellOrder`.

*Sinks.* `OneDial` follows the connection of a test: it is being set up, or is the sink's, or was lost with nothing in its place; a test publishes nothing and dials once, and when it
has asked the broker its dial is over. So `close` finds the connection, if there is one to find. `ClientsHeld` does the same for Kafka: a producer that was told to connect is connected, as `close` looks
for it, still connecting, or was rejected, and the admin client is open only inside the `try` that disconnects it.

*Exports.* `WrittenSoFar` relates a writer's place to the files it opened and closed, so what is generated is whole. From then on they are there until a deletion begins, and gone when it is over
(`AskedWhole`); so by `BuildOf`, which goes by what the build has seen of the deletion at each of its listings, it has listed everything, or nothing, or is one of those the property
excepts. What it listed it reads to the end, or fails. That `SortedBy` lists each row of a finite set once is an induction.

*Web client.* `Tracks` says that the spec offered for saving is that of the text in the editor unless a validation of it is still to come, or an
older one was answered after it: the page takes the answers in the order in which they arrive, and the model numbers them to tell this apart. `Launches` says that the version the drawer would launch is the
last of the scenario, except between a save and its answer. `FormKept` says that the one answer that fills the form comes before the user can touch it, and that nothing changes it later but a
new connection, which it counts (`since`).

Only model-checked: liveness, which the provers cannot treat (`CallersAnswered`, `RunEnds`, `ReplayEnds`, `LiveStarts`, `StopHonoured`,
`TakeAnswered`, `CallsSettle`, `ExportEnds`, `LiveShown`, `CatchesUp`, `Recovers`).

## Departures

Where the code does something else than a doc, a comment or a reader would expect. The first group are stated as properties in the modules
("Not checked: the code departs from it"); TLC finds a counterexample to each in an instance a little different from the run's.

| property | what the code does |
|---|---|
| `DeliveryPump!DrainAsDocumented` | `drain()` resolves instead of rejecting when the breaker trips with only retries owed: `stop()` runs `checkIdle()` (`pump.ts:481`) before the waiters are rejected (`447-450`). A replay then saves a cursor past undelivered rows, which `CursorCovered` names (`slipped`) as its one exception besides overlapping passes. |
| `RunLifecycle!DoneRunEnds` | A run resumed, or retried, while its last partition finishes stays `running` (`run-control.ts:123-124`; FR-037). |
| `HistoryReplay!HistoryFirst` | Live can start before the later sinks' replay rows exist (`handlers.ts:48-53`; SC-009a). `ReplayBeforeLive` is what does hold. |
| `HistoryReplay!LiveStartsAnyway` | A worker that dies between creating the stream and queueing its job leaves a stream that never starts by itself: whoever checks again finds "run already has a stream" (`services/stream-sessions.ts:145-147`), and boot at most stops it (`apps/worker/src/index.ts:183-186`). `LiveStarts` is what does hold (`cut`); someone has to ask for the start. |
| `StreamSession!RestartPublishes` | A session stopped before its thread has written a checkpoint leaves a position nobody can resume from; later starts fail and the stream stays `streaming` (`stream-drive.ts:315-317`, `488-495`; FR-026). `PublishedResumable` is what does hold. |
| `PartitionWorld!DormancyKept` | Close to the end of history a takeover's first transfer is drawn between the last day and the horizon, before `dormancy_days` are over (`planner.ts:87`). `QuietVictims` holds: the victim does not spend until then. |
| `Sinks!CapacityAsDocumented` | `full` is only cleared by a `drain` of the channel that filled, and `waitForCapacity` listens to whatever connection there is: once channel or connection was replaced, a waiter may wait for ever (`rabbitmq/publisher.ts:102-120`). |
| `Exports!AllRowsOrNone` | `rm` removes a run's files one by one before the run is marked (`run-outputs.ts:22-23`), so a build that lists them in between completes with part of the rows. `ExportsWhole` is what does hold. |
| `Exports!SinkRowsOwnLabels` | A sink's merged export pairs rows and labels by place, but lists the label files by name, a partition's first segment after its others and the replay's drop files among them: rows and labels part ways (`export-build.ts:123-124`). |

The models also reproduce, or were narrowed because of, the following.

* Delivery loop: a target lowered to what a throttled pacer is at makes it an unthrottled one, so the next higher target lifts the
  throttle at once (`pump.ts:74-82`); retries do not pass the pacer (`pump.ts:410`); an `onDropped` that rejects is nobody's error, though the count is right (`pump.ts:369`).
* Run: pause and cancel do not find the jobs of a retried run (`run-control.ts:31`); `job.remove()` throws on a locked job and the request fails half way (`:32`); a crash after
  `completed` leaves a run without replay, live or report (`handlers.ts:48`); a job that stalls twice is failed without a callback, and boot adds the same id, which BullMQ ignores (`resume.ts:16-29`).
* Replay: a retry marks the row running before its job exists, and a boot in between queues another: two passes publish the same rows (`run-control.ts:209`).
* Stream: two starts that both read the last position before either has created its session (`stream-sessions.ts:67-92` in `services`) continue from the same one and hand over the same
  deliveries; the unique (stream_id, seq) makes an error of it only when they also read the same number (`db/repositories/stream-sessions.ts:45-64`). So does an ordinary stop and start in quick
  succession: the stop route does not wait for the session, and a start before it has recorded its end (`stream-drive.ts:489`) continues from an older position. `NoRepeats` excepts both (`early`).
* Stream: the recorded position counts what was handed to the delivery loop (`stream-drive.ts:384`), not what the destination acknowledged. Deliveries in flight or in the retry heap when the breaker trips, when a
  stop's drain takes longer than its five seconds (`:465-468`), or when the worker dies are behind that position, and no session hands them over again, while
  `specs/003-generation-delivery-overhaul/research.md:261-262` says that the sends in flight at a crash are re-published. `HandedOverInOrder` is about hand-overs only.
* Stream: a pause that overwrites a stop leaves a stream that can be resumed without a job; a breaker that trips inside a chunk ends the session without
  `onStreamError` (`stream-drive.ts:418`); the limit on streams is checked long before the session exists (`stream-control.ts:208`); `reconcileStreams` takes a failed job for a present one (`apps/worker/src/index.ts:183`).
* Sinks: a RabbitMQ connection whose channel or exchange cannot be set up is never closed (`rabbitmq/publisher.ts:55-85`), and a Kafka client whose `connect()` was rejected is never disconnected: a test's admin client connects before the
  `try` that disconnects it (`kafka/producer.ts:166`), and `close()` looks only for a producer that is connected or connecting (`:211-222`). These are the exceptions in `NothingLeftOpen`.
* Catalog: a regeneration whose source connection was deleted copies an empty connection id (`run-regenerate.ts:56`); a test result is recorded after the row was edited (`connections.ts:214`);
  two launches mix their defaults, which are kept query by query (`runs-launch.ts:177`).
* Exports: an API that dies before `queue.add` (`exports.ts:65`), or a second stall, leaves the manifest as it is; a deletion whose directory is written into meanwhile fails half way and leaves what is left (`run-outputs.ts:22`).
* Run page: a subscription that was ended (`run-progress.ts:92`, `run-stream.ts:46`) does not hear of a run that is retried or started again; a poll compares with what it sent last, so a status that
  changed and changed back is not sent again (`run-progress.ts:43`) though an overtaken answer may have shown the other; a failed first GET leaves the page or console empty; nothing reconnects a lost socket
  (`run-detail.tsx:76`); what other clients do to the run is not followed in the model.
* Scenario page: without a current version the editor falls back to the oldest of the list (`index.tsx:166`); text that is not JSON leaves the last valid spec savable (`spec-editor.tsx:38-42`), and so does an older validation answered
  last; the scenario is not fetched again after its first save, so the next edit disables the Launch button (`index.tsx:200`); "Saved." appears though the text was edited while saving (`:182`); any change of a destination sets the mode back to live
  if one is connected (`launch-drawer.tsx:152-155`); a connection saved late replaces the destination picked meanwhile (`:399-412`); a launch with a destination for a sink the spec does not name is not refused (`destinations.ts:33`).

## Not modelled

* MCP server, agent tools and CLI: each tool is one call of a route modelled here; nothing is kept between calls.
* Specification types, JSON schema validation, cost estimate: predicates and formulas without state, and no second definition to compare them with.
* Population, distributions, naming, realism report, truth queries: numerical code and read-only SQL; what matters about them is statistical.
* The rest of the web client: pages that show the answer to one request, the HTTP wrapper and its mock.
* End-to-end tests, benchmarks, analytics stacks: users of the program, not part of it.
* In what is modelled: engine-version checks, error texts, metrics, the limits on streams and deliveries, changes of a stream's destinations, labels on the live channel, database errors
  (except where a route's `queue.add` fails), a crash of the API in the middle of a request of `HistoryReplay`, credentials, clock skew, payloads, amounts and outcomes.

## What could come next

1. A composition of `HistoryReplay` and `StreamSession` through `maybeAutoStartLive`, with the limit on streams.
2. Label files that cannot be written, and database errors between two queries of a job.
