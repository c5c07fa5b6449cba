------------------------------ MODULE LiveSource ------------------------------
(***************************************************************************)
(* The bounded buffer between the thread that simulates the live days and  *)
(* the loop that delivers them: ThreadedLiveSource and InlineLiveSource    *)
(* (apps/worker/src/live/live-source.ts), the thread's side of the         *)
(* request and answer (live/live-world-thread.ts) and the order in which   *)
(* stream-drive.ts calls take and close.                                   *)
(*                                                                         *)
(* What the world gives is reduced to how many deliveries each day has; a  *)
(* batch is a day and a range of them (LiveWorld models what they are).    *)
(* The main thread runs one callback at a time and what it wakes before    *)
(* the next one; the thread is another process, joined by two FIFO ports.  *)
(* A definition marked "slip" is not part of the model (see                *)
(* PartitionWorld).                                                        *)
(***************************************************************************)
EXTENDS Integers, Sequences, FiniteSets

CONSTANTS
  DayLengths,   (* deliveries of each live day, the longest sink's         *)
  SkipFirst,    (* skipFirstDay                                            *)
  MaxBuffered,  (* maxBufferedEvents                                       *)
  ChunkEvents,  (* chunkEvents, cut to maxBuffered                         *)
  Wanted,       (* what a take may ask for                                 *)
  Faults        (* bound on what goes wrong in the thread                  *)

ASSUME LiveSourceAssumption ==
  /\ DayLengths \in Seq(Nat) /\ SkipFirst \in Nat /\ Faults \in Nat
  /\ MaxBuffered \in Nat \ {0} /\ ChunkEvents \in 1..MaxBuffered
  /\ Wanted \subseteq Nat

VARIABLES
  kind,      (* which LiveSource this is                                   *)
  world,     (* the LiveWorld: its day, cursor, and the day announced last *)
  thread,    (* what the thread is doing                                   *)
  making,    (* the chunk whose checkpoint the thread is writing           *)
  port,      (* requests on their way to the thread                        *)
  inbox,     (* the thread's messages on their way to the main thread      *)
  ready,     (* the promise `ready`                                        *)
  queue, buffered, inFlight, failure, closed,   \* ThreadedLiveSource
  take,      (* where the loop's call of take() is, and what it asked for  *)
  files,     (* days whose checkpoint is written                           *)
  given,     (* history: the slice handed out last, as LiveFeed sees it    *)
  faults     (* bound counter                                              *)

main == <<ready, queue, buffered, inFlight, failure, closed>>
vars == <<kind, world, thread, making, port, inbox, main, take, files, given, faults>>

Feed == INSTANCE LiveFeed WITH over <- failure \/ closed

Days    == DOMAIN DayLengths
NoChunk == [day |-> 0, from |-> 0, length |-> 0, endOfDay |-> FALSE, checkpoint |-> FALSE]
Lesser(n, m) == IF n < m THEN n ELSE m
AtLeastOne(n) == IF n < 1 THEN 1 ELSE n

Init ==
  /\ kind \in {"thread", "inline"}
  /\ world = [day |-> 0, cursor |-> 0, announced |-> 0]
  /\ thread = IF kind = "thread" THEN "opening" ELSE "none"
  /\ making = NoChunk /\ port = 0 /\ inbox = <<>>
  /\ ready = IF kind = "thread" THEN "pending" ELSE "resolved"
  /\ queue = <<>> /\ buffered = 0 /\ inFlight = FALSE /\ failure = FALSE /\ closed = FALSE
  /\ take = [at |-> "idle", max |-> 0] /\ files = {}
  /\ given = Feed!NothingYet /\ faults = 0

-----------------------------------------------------------------------------
(* nextBatch (LiveWorld): the next day with deliveries left, and a slice.   *)

Ahead ==
  IF world.day \in Days /\ world.cursor < DayLengths[world.day] THEN {<<world.day, world.cursor>>}
  ELSE {<<e, Feed!Opening(e)>> : e \in Feed!NextDay(world.day)}

Batch(day, from, max) ==
  LET to == Lesser(DayLengths[day], from + max)
  IN  [day |-> day, from |-> from, length |-> to - from, endOfDay |-> to = DayLengths[day],
       checkpoint |-> day # world.announced]

Reached(chunk) ==
  world' = [day |-> chunk.day, cursor |-> chunk.from + chunk.length, announced |-> chunk.day]

-----------------------------------------------------------------------------
(* live-world-thread.ts.                                                    *)

Say(message) == inbox' = Append(inbox, message)

Fault == faults < Faults /\ faults' = faults + 1

(* The world is opened from the checkpoints, or that throws.                *)
ThreadOpens ==
  /\ thread = "opening"
  /\ \/ Say([type |-> "ready"]) /\ UNCHANGED faults
     \/ Say([type |-> "error"]) /\ Fault
  /\ thread' = "idle"
  /\ UNCHANGED <<kind, world, making, port, main, take, files, given>>

(* A request: the batch is made; the first of a day waits for its           *)
(* checkpoint's file.  (A thread whose world never opened throws.)          *)
ThreadAnswers ==
  /\ thread = "idle" /\ port > 0
  /\ port' = port - 1
  /\ \E a \in Ahead :
       LET chunk == Batch(a[1], a[2], ChunkEvents)
       IN  /\ Reached(chunk)
           /\ IF chunk.checkpoint
              THEN thread' = "writing" /\ making' = chunk /\ UNCHANGED inbox
              ELSE Say([type |-> "chunk", chunk |-> chunk]) /\ UNCHANGED <<thread, making>>
  /\ UNCHANGED <<kind, main, take, files, given, faults>>

ThreadWrote ==
  /\ thread = "writing"
  /\ \/ /\ files' = files \union {making.day} /\ Say([type |-> "chunk", chunk |-> making])
        /\ UNCHANGED faults
     \/ Say([type |-> "error"]) /\ Fault /\ UNCHANGED files
  /\ thread' = "idle" /\ making' = NoChunk
  /\ UNCHANGED <<kind, world, port, main, take, given>>

(* The thread runs out of memory or throws: an `error` event.               *)
ThreadDies ==
  /\ thread \in {"opening", "idle", "writing"}
  /\ Say([type |-> "error"]) /\ Fault
  /\ thread' = "gone" /\ making' = NoChunk
  /\ UNCHANGED <<kind, world, port, main, take, files, given>>

-----------------------------------------------------------------------------
(* ThreadedLiveSource.                                                      *)

(* Slip: what the answer in flight will bring is asked for twice. *)
RefilledAlways(room, flying) ==
  IF closed' \/ failure' \/ room + ChunkEvents > MaxBuffered
  THEN inFlight' = flying /\ UNCHANGED port
  ELSE inFlight' = TRUE /\ port' = port + 1

(* refill: one request at a time, while there is room for its answer.       *)
Refilled(room, flying) ==
  IF closed' \/ failure' \/ flying \/ room + ChunkEvents > MaxBuffered
  THEN inFlight' = flying /\ UNCHANGED port
  ELSE inFlight' = TRUE /\ port' = port + 1

(* Slip: whoever waits is not woken by a failure. *)
WokenByChunks ==
  take' = IF take.at = "waiting" /\ ~failure' THEN [take EXCEPT !.at = "loop"] ELSE take

Woken == take' = IF take.at = "waiting" THEN [take EXCEPT !.at = "loop"] ELSE take

(* What a callback wakes runs before the next callback.                     *)
NothingWoken == take.at # "loop"

Heard(type) ==
  /\ NothingWoken /\ inbox # <<>> /\ Head(inbox).type = type
  /\ inbox' = Tail(inbox)
  /\ UNCHANGED <<kind, world, thread, making, files, given, faults, closed>>

HearReady ==
  /\ Heard("ready")
  /\ ready' = IF ready = "pending" THEN "resolved" ELSE ready
  /\ take' = IF take.at = "starting" THEN [take EXCEPT !.at = "loop"] ELSE take
  /\ UNCHANGED <<queue, buffered, failure>> /\ Refilled(buffered, inFlight)

HearChunk ==
  /\ Heard("chunk")
  /\ LET chunk == Head(inbox).chunk
     IN  /\ queue' = Append(queue, chunk) /\ buffered' = buffered + chunk.length
         /\ UNCHANGED <<ready, failure>> /\ Woken
         /\ Refilled(buffered + chunk.length, FALSE)

(* fail, and the rejection of `ready` when it is still pending.             *)
HearError ==
  /\ Heard("error")
  /\ failure' = TRUE
  /\ ready' = IF ready = "pending" THEN "rejected" ELSE ready
  /\ IF take.at = "starting" /\ ready = "pending"
     THEN take' = [take EXCEPT !.at = "idle"] ELSE Woken
  /\ UNCHANGED <<queue, buffered, inFlight, port>>

(* The loop calls take, one at a time, and not after it closed the source.  *)
CallTake(max) ==
  /\ kind = "thread" /\ take.at = "idle" /\ ~closed
  /\ take' = [at |-> CASE ready = "pending" -> "starting" [] ready = "resolved" -> "loop"
                       [] ready = "rejected" -> "idle",
              max |-> max]
  /\ UNCHANGED <<kind, world, thread, making, port, inbox, main, files, given, faults>>

Returned == take' = [take EXCEPT !.at = "idle"]

(* Slip: the day's checkpoint stays with what is left of the chunk too. *)
RestMarked(head, n) == [head EXCEPT !.from = @ + n, !.length = @ - n]

(* A chunk that is larger than what was asked for is split: what is left    *)
(* carries no checkpoint, what is handed out does not end the day.          *)
Rest(head, n) == [head EXCEPT !.from = @ + n, !.length = @ - n, !.checkpoint = FALSE]

Part(head, n) == [head EXCEPT !.length = n, !.endOfDay = FALSE]

TakeLoop ==
  /\ take.at = "loop"
  /\ IF failure
     THEN Returned /\ UNCHANGED <<port, main, given>>
     ELSE IF queue # <<>>
     THEN LET head == Head(queue)
              n    == Lesser(AtLeastOne(take.max), head.length)
              whole == n >= head.length
          IN  /\ given' = IF whole THEN head ELSE Part(head, n)
              /\ queue' = IF whole THEN Tail(queue) ELSE <<Rest(head, n)>> \o Tail(queue)
              /\ buffered' = buffered - n
              /\ Returned /\ UNCHANGED <<ready, failure, closed>>
              /\ Refilled(buffered - n, inFlight)
     ELSE IF closed
     THEN Returned /\ UNCHANGED <<port, main, given>>
     ELSE /\ take' = [take EXCEPT !.at = "waiting"]
          /\ UNCHANGED <<ready, queue, buffered, failure, closed, given>>
          /\ Refilled(buffered, inFlight)
  /\ UNCHANGED <<kind, world, thread, making, inbox, files, faults>>

(* The session ends between two takes, or after one threw.                  *)
Close ==
  /\ NothingWoken /\ take.at = "idle" /\ ~closed
  /\ closed' = TRUE
  /\ thread' = IF kind = "thread" THEN "gone" ELSE thread
  /\ making' = NoChunk
  /\ UNCHANGED <<kind, world, port, inbox, ready, queue, buffered, inFlight, failure, take,
                 files, given, faults>>

(* InlineLiveSource: the batch is made on the calling thread, and carries   *)
(* the checkpoint itself.                                                   *)
TakeInline(max) ==
  /\ kind = "inline" /\ ~closed
  /\ \E a \in Ahead :
       LET chunk == Batch(a[1], a[2], AtLeastOne(max))
       IN  Reached(chunk) /\ given' = chunk
  /\ UNCHANGED <<kind, thread, making, port, inbox, main, take, files, faults>>

-----------------------------------------------------------------------------
Thread == ThreadOpens \/ ThreadAnswers \/ ThreadWrote
Hear   == HearReady \/ HearChunk \/ HearError

Next ==
  \/ Thread \/ ThreadDies \/ Hear \/ TakeLoop \/ Close
  \/ \E n \in Wanted : CallTake(n) \/ TakeInline(n)

Spec == Init /\ [][Next]_vars

(* The thread runs, its messages arrive, and what is woken runs.  Nobody    *)
(* has to call take or close.                                               *)
FairSpec == Spec /\ WF_vars(Thread) /\ WF_vars(Hear) /\ WF_vars(TakeLoop)

-----------------------------------------------------------------------------
(* Deliveries in a sequence of chunks.                                      *)
Held(chunks) ==
  LET sum[i \in 0..Len(chunks)] == IF i = 0 THEN 0 ELSE sum[i - 1] + chunks[i].length
  IN  sum[Len(chunks)]

Chunk ==
  [day : Nat, from : Nat, length : 0..ChunkEvents, endOfDay : BOOLEAN, checkpoint : BOOLEAN]

Message == [type : {"ready", "error"}] \union [type : {"chunk"}, chunk : Chunk]

TypeOK ==
  /\ world \in [day : Nat, cursor : Nat, announced : Nat]
  /\ thread \in {"none", "opening", "idle", "writing", "gone"}
  /\ making \in Chunk /\ port \in Nat /\ inbox \in Seq(Message)
  /\ ready \in {"pending", "resolved", "rejected"}
  /\ queue \in Seq(Chunk) /\ buffered \in Int
  /\ inFlight \in BOOLEAN /\ failure \in BOOLEAN /\ closed \in BOOLEAN
  /\ take \in [at : {"idle", "starting", "loop", "waiting"}, max : Nat]

(* There is room for what an answer on its way may bring.                   *)
RoomKept == buffered + (IF inFlight THEN ChunkEvents ELSE 0) <= MaxBuffered

(* "Never holding more than `maxBufferedEvents`" (R5), counting what an     *)
(* answer on its way may bring, and the count is what the queue holds, for  *)
(* all splitting and refilling.                                             *)
BufferBounded == buffered = Held(queue) /\ RoomKept

(* Both sources are a LiveFeed: in order, nothing twice and nothing left    *)
(* out, no slice across days, a day's checkpoint with its first slice,      *)
(* whatever is buffered, split, refused or thrown.                          *)
IsAFeed == Feed!Spec

(* Whoever calls take is answered, with deliveries or an error, as long as  *)
(* the days go on (they are bounded here): no wake-up is lost between the   *)
(* thread's answers, failures and close.                                    *)
TakeAnswered == take.at # "idle" ~> take.at = "idle" \/ Ahead = {}
=============================================================================
