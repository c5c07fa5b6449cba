-------------------------- MODULE LiveSource_proofs --------------------------
(***************************************************************************)
(* The live buffer never exceeds its limit, whatever the days hold, the    *)
(* sizes of buffer, chunks and takes, and whatever fails: the room for an  *)
(* answer is set aside when it is asked for, and `buffered` is what the    *)
(* queue holds (by induction over the queue).  And what take() hands out   *)
(* is a LiveFeed: the days in order, each slice where the last one ended,  *)
(* a day's checkpoint with its first slice.                                *)
(*                                                                         *)
(* And what the days hold, for any partitions, sinks, events and fates:    *)
(* over all sessions a sink is handed the same deliveries in the same      *)
(* order, each copy of each event once, and the labels tell the order.     *)
(* The two components share no definition.                                 *)
(***************************************************************************)
EXTENDS LiveSource, LiveWorld, FiniteSetTheorems, WellFoundedInduction, TLAPS

Answers(messages) == {i \in DOMAIN messages : messages[i].type = "chunk"}

(* RoomKept alone is not inductive: that an answer finds the room set aside *)
(* for it needs at most one answer asked for, being made or on its way, and *)
(* inFlight for as long as there is.                                        *)
OneAnswer ==
  /\ port <= 1
  /\ port = 1 => inFlight /\ thread # "writing" /\ Answers(inbox) = {}
  /\ thread = "writing" => inFlight /\ Answers(inbox) = {}
  /\ Answers(inbox) # {} => inFlight
  /\ \A i, j \in Answers(inbox) : i = j

IInv == TypeOK /\ OneAnswer /\ RoomKept

-----------------------------------------------------------------------------
(* What a batch and the two ports are made of.                              *)

(* A batch starts where deliveries of its day are left, and is as long as   *)
(* was asked for at most.                                                   *)
LEMMA BatchIsAChunk ==
  ASSUME TypeOK, NEW a \in Ahead, NEW max \in Nat \ {0}
  PROVE  /\ Batch(a[1], a[2], max).day \in Nat
         /\ Batch(a[1], a[2], max).from \in Nat
         /\ Batch(a[1], a[2], max).length \in 0..max
         /\ max = ChunkEvents => Batch(a[1], a[2], max) \in Chunk
<1> USE LiveSourceAssumption
<1>1. /\ a[1] \in Nat /\ a[2] \in Nat
      /\ DayLengths[a[1]] \in Nat /\ a[2] < DayLengths[a[1]]
  <2>1. CASE world.day \in Days /\ world.cursor < DayLengths[world.day]
    BY SMTT(30), <2>1 DEF Ahead, Days, TypeOK
  <2>2. CASE ~(world.day \in Days /\ world.cursor < DayLengths[world.day])
    <3>1. PICK e \in Feed!NextDay(world.day) : a = <<e, Feed!Opening(e)>>
      BY <2>2 DEF Ahead
    <3>2. e \in (world.day + 1)..Len(DayLengths) /\ Feed!Opening(e) < DayLengths[e]
      BY DEF Feed!NextDay
    <3>3. world.day \in Nat
      BY DEF TypeOK
    <3>4. Feed!Opening(e) \in Nat
      BY DEF Feed!Opening
    <3>5. QED BY <3>1, <3>2, <3>3, <3>4
  <2>3. QED BY <2>1, <2>2
<1>2. QED BY <1>1, SMTT(30) DEF Batch, Lesser, Chunk

(* A message that is sent comes last.                                       *)
LEMMA Sent ==
  ASSUME NEW messages \in Seq(Message), NEW m \in Message
  PROVE  /\ Append(messages, m) \in Seq(Message)
         /\ m.type # "chunk" => Answers(Append(messages, m)) = Answers(messages)
         /\ Answers(messages) = {} =>
              \A i, j \in Answers(Append(messages, m)) : i = j
<1>1. /\ Append(messages, m) \in Seq(Message)
      /\ DOMAIN Append(messages, m) = 1..(Len(messages) + 1)
      /\ Append(messages, m)[Len(messages) + 1] = m
      /\ \A i \in 1..Len(messages) : Append(messages, m)[i] = messages[i]
      /\ DOMAIN messages = 1..Len(messages) /\ Len(messages) \in Nat
  OBVIOUS
<1>2. QED BY <1>1 DEF Answers

(* A message that is taken was the first.                                   *)
LEMMA Taken ==
  ASSUME NEW messages \in Seq(Message), messages # <<>>,
         \A i, j \in Answers(messages) : i = j
  PROVE  /\ Head(messages) \in Message /\ Tail(messages) \in Seq(Message)
         /\ Head(messages).type = "chunk" =>
              Answers(messages) # {} /\ Answers(Tail(messages)) = {}
         /\ Answers(messages) = {} => Answers(Tail(messages)) = {}
         /\ \A i, j \in Answers(Tail(messages)) : i = j
<1>1. /\ Head(messages) = messages[1] /\ messages[1] \in Message
      /\ Tail(messages) \in Seq(Message)
      /\ DOMAIN messages = 1..Len(messages) /\ Len(messages) \in Nat \ {0}
      /\ DOMAIN Tail(messages) = 1..(Len(messages) - 1)
      /\ \A i \in 1..(Len(messages) - 1) : Tail(messages)[i] = messages[i + 1]
  OBVIOUS
<1>2. \A i \in Answers(Tail(messages)) : i + 1 \in Answers(messages) /\ i \in Nat /\ i >= 1
  BY <1>1 DEF Answers
<1>3. Head(messages).type = "chunk" => 1 \in Answers(messages)
  BY <1>1 DEF Answers
<1>4. Head(messages).type = "chunk" => Answers(Tail(messages)) = {}
  <2> SUFFICES ASSUME 1 \in Answers(messages), NEW i \in Answers(Tail(messages))
               PROVE  FALSE
    BY <1>3
  <2>1. i + 1 = 1
    BY <1>2
  <2>2. QED BY <2>1, <1>2
<1>5. \A i, j \in Answers(Tail(messages)) : i = j
  <2> TAKE i, j \in Answers(Tail(messages))
  <2>1. i + 1 = j + 1
    BY <1>2
  <2>2. QED BY <2>1, <1>2
<1>6. QED BY <1>1, <1>2, <1>3, <1>4, <1>5

(* refill asks for an answer only when none is coming and there is room.    *)
LEMMA Refills ==
  ASSUME NEW STATE room, room \in Int, NEW STATE flying, flying \in BOOLEAN, Refilled(room, flying),
         room <= MaxBuffered, flying => room + ChunkEvents <= MaxBuffered
  PROVE  /\ inFlight' \in BOOLEAN
         /\ room + (IF inFlight' THEN ChunkEvents ELSE 0) <= MaxBuffered
         /\ \/ port' = port /\ inFlight' = flying
            \/ port' = port + 1 /\ inFlight' = TRUE /\ ~flying
<1> DEFINE full == room + ChunkEvents > MaxBuffered
<1>1. \/ inFlight' = flying /\ port' = port
      \/ ~flying /\ ~full /\ inFlight' = TRUE /\ port' = port + 1
  BY Zenon DEF Refilled
<1>2. CASE inFlight' = flying /\ port' = port
  BY <1>2
<1>3. CASE ~flying /\ ~full /\ inFlight' = TRUE /\ port' = port + 1
  <2>1. room + ChunkEvents <= MaxBuffered
    BY <1>3, LiveSourceAssumption
  <2>2. QED BY <1>3, <2>1
<1>4. QED BY <1>1, <1>2, <1>3

-----------------------------------------------------------------------------
(* The invariant holds at first and is kept by every step.                  *)

LEMMA InitKeeps == ASSUME Init PROVE IInv
<1> USE LiveSourceAssumption DEF Init
<1>1. TypeOK
  <2>1. making \in Chunk
    BY DEF Chunk, NoChunk
  <2>2. inbox \in Seq(Message) /\ queue \in Seq(Chunk)
    OBVIOUS
  <2>3. world \in [day : Nat, cursor : Nat, announced : Nat]
    OBVIOUS
  <2>4. take \in [at : {"idle", "starting", "loop", "waiting"}, max : Nat]
    OBVIOUS
  <2>5. /\ thread \in {"none", "opening", "idle", "writing", "gone"}
        /\ ready \in {"pending", "resolved", "rejected"}
        /\ port \in Nat /\ buffered \in Int
    OBVIOUS
  <2>6. inFlight \in BOOLEAN /\ failure \in BOOLEAN /\ closed \in BOOLEAN
    OBVIOUS
  <2> HIDE DEF Init
  <2>7. QED BY <2>1, <2>2, <2>3, <2>4, <2>5, <2>6 DEF TypeOK
<1>2. OneAnswer
  BY DEF OneAnswer, Answers
<1>3. RoomKept
  BY DEF RoomKept
<1>4. QED BY <1>1, <1>2, <1>3 DEF IInv

(* What the thread does leaves the buffer alone.                            *)
LEMMA ThreadKeeps == ASSUME IInv, Thread \/ ThreadDies PROVE IInv'
<1> USE DEF IInv
<1>0. /\ [type |-> "ready"] \in Message /\ [type |-> "error"] \in Message
      /\ \A c \in Chunk : [type |-> "chunk", chunk |-> c] \in Message
  BY DEF Message
<1>1. CASE ThreadOpens
  <2>1. PICK m \in Message : inbox' = Append(inbox, m) /\ m.type # "chunk"
    BY <1>0, <1>1 DEF ThreadOpens, Say
  <2>2. inbox' \in Seq(Message) /\ Answers(inbox') = Answers(inbox)
    BY <2>1, Sent DEF TypeOK
  <2>3. TypeOK'
    BY <1>1, <2>2 DEF ThreadOpens, TypeOK, main
  <2>4. OneAnswer' /\ RoomKept'
    BY <1>1, <2>2 DEF ThreadOpens, OneAnswer, RoomKept, main
  <2>5. QED BY <2>3, <2>4
<1>2. CASE ThreadAnswers
  <2>1. PICK a \in Ahead :
          LET chunk == Batch(a[1], a[2], ChunkEvents)
          IN  /\ Reached(chunk)
              /\ IF chunk.checkpoint
                 THEN thread' = "writing" /\ making' = chunk /\ UNCHANGED inbox
                 ELSE Say([type |-> "chunk", chunk |-> chunk]) /\ UNCHANGED <<thread, making>>
    BY <1>2 DEF ThreadAnswers
  <2> DEFINE chunk == Batch(a[1], a[2], ChunkEvents)
  <2>2. chunk \in Chunk
    BY BatchIsAChunk, LiveSourceAssumption
  <2>3. world' \in [day : Nat, cursor : Nat, announced : Nat]
    BY <2>1, <2>2 DEF Reached, Chunk
  <2>4. /\ port = 1 /\ port' = 0 /\ inFlight /\ Answers(inbox) = {} /\ thread = "idle"
        /\ UNCHANGED <<ready, queue, buffered, inFlight, failure, closed, take>>
    BY <1>2 DEF ThreadAnswers, OneAnswer, TypeOK, main
  <2>5. CASE chunk.checkpoint
    <3>1. thread' = "writing" /\ making' = chunk /\ inbox' = inbox
      BY <2>1, <2>5
    <3>2. TypeOK'
      BY <2>2, <2>3, <2>4, <3>1 DEF TypeOK
    <3>3. OneAnswer' /\ RoomKept'
      BY <2>4, <3>1 DEF OneAnswer, RoomKept
    <3>4. QED BY <3>2, <3>3
  <2>6. CASE ~chunk.checkpoint
    <3>1. /\ inbox' = Append(inbox, [type |-> "chunk", chunk |-> chunk])
          /\ thread' = "idle" /\ making' = making
      BY <2>1, <2>4, <2>6 DEF Say
    <3>2. inbox' \in Seq(Message) /\ \A i, j \in Answers(inbox') : i = j
      BY <1>0, <2>2, <2>4, <3>1, Sent DEF TypeOK
    <3>3. TypeOK'
      BY <2>3, <2>4, <3>1, <3>2 DEF TypeOK
    <3>4. OneAnswer' /\ RoomKept'
      BY <2>4, <3>1, <3>2 DEF OneAnswer, RoomKept
    <3>5. QED BY <3>3, <3>4
  <2>7. QED BY <2>5, <2>6
<1>3. CASE ThreadWrote
  <2>1. /\ thread = "writing" /\ thread' = "idle" /\ making' = NoChunk
        /\ inFlight /\ Answers(inbox) = {} /\ port # 1
        /\ UNCHANGED <<world, port, ready, queue, buffered, inFlight, failure, closed, take>>
    BY <1>3 DEF ThreadWrote, OneAnswer, main
  <2>2. PICK m \in Message : inbox' = Append(inbox, m)
    BY <1>0, <1>3 DEF ThreadWrote, Say, TypeOK
  <2>3. inbox' \in Seq(Message) /\ \A i, j \in Answers(inbox') : i = j
    BY <2>1, <2>2, Sent DEF TypeOK
  <2>4. TypeOK'
    BY <2>1, <2>3, LiveSourceAssumption DEF TypeOK, NoChunk, Chunk
  <2>5. OneAnswer' /\ RoomKept'
    BY <2>1, <2>3 DEF OneAnswer, RoomKept
  <2>6. QED BY <2>4, <2>5
<1>4. CASE ThreadDies
  <2>1. inbox' = Append(inbox, [type |-> "error"])
    BY <1>4 DEF ThreadDies, Say
  <2>2. inbox' \in Seq(Message) /\ Answers(inbox') = Answers(inbox)
    BY <1>0, <2>1, Sent DEF TypeOK
  <2>3. TypeOK'
    BY <1>4, <2>2, LiveSourceAssumption DEF ThreadDies, TypeOK, NoChunk, Chunk, main
  <2>4. OneAnswer' /\ RoomKept'
    BY <1>4, <2>2 DEF ThreadDies, OneAnswer, RoomKept, main
  <2>5. QED BY <2>3, <2>4
<1>5. QED BY <1>1, <1>2, <1>3, <1>4 DEF Thread

(* A message is heard: it leaves the inbox, and the thread is left alone.   *)
LEMMA HeardTakes ==
  ASSUME IInv, NEW type, Heard(type)
  PROVE  /\ inbox # <<>> /\ Head(inbox) \in Message /\ Head(inbox).type = type
         /\ inbox' \in Seq(Message) /\ \A i, j \in Answers(inbox') : i = j
         /\ type = "chunk" => inFlight /\ port = 0 /\ thread # "writing" /\ Answers(inbox') = {}
         /\ Answers(inbox) = {} => Answers(inbox') = {}
         /\ Answers(inbox) # {} => inFlight
         /\ UNCHANGED <<world, thread, making, closed>>
<1>1. /\ inbox # <<>> /\ Head(inbox).type = type /\ inbox' = Tail(inbox)
      /\ UNCHANGED <<world, thread, making, closed>>
  BY DEF Heard
<1>2. inbox \in Seq(Message) /\ \A i, j \in Answers(inbox) : i = j
  BY DEF IInv, TypeOK, OneAnswer
<1>3. /\ Head(inbox) \in Message /\ Tail(inbox) \in Seq(Message)
      /\ Head(inbox).type = "chunk" => Answers(inbox) # {} /\ Answers(Tail(inbox)) = {}
      /\ Answers(inbox) = {} => Answers(Tail(inbox)) = {}
      /\ \A i, j \in Answers(Tail(inbox)) : i = j
  BY <1>1, <1>2, Taken
<1>4. Answers(inbox) # {} => inFlight /\ port = 0 /\ thread # "writing"
  BY DEF IInv, OneAnswer, TypeOK
<1>5. QED BY <1>1, <1>3, <1>4

LEMMA HearKeeps == ASSUME IInv, Hear PROVE IInv'
<1> USE DEF IInv
<1>1. CASE HearReady
  <2>1. Heard("ready") /\ Refilled(buffered, inFlight) /\ UNCHANGED <<queue, buffered, failure>>
    BY <1>1 DEF HearReady
  <2>2. /\ inFlight' \in BOOLEAN
        /\ buffered + (IF inFlight' THEN ChunkEvents ELSE 0) <= MaxBuffered
        /\ \/ port' = port /\ inFlight' = inFlight
           \/ port' = port + 1 /\ inFlight' = TRUE /\ ~inFlight
    <3>1. /\ buffered \in Int /\ buffered <= MaxBuffered /\ inFlight \in BOOLEAN
          /\ inFlight => buffered + ChunkEvents <= MaxBuffered
      BY LiveSourceAssumption DEF RoomKept, TypeOK
    <3>2. QED BY <2>1, <3>1, Refills
  <2>3. ready' \in {"pending", "resolved", "rejected"}
    BY <1>1 DEF HearReady, TypeOK
  <2>4. take' \in [at : {"idle", "starting", "loop", "waiting"}, max : Nat]
    BY <1>1 DEF HearReady, TypeOK
  <2>5. TypeOK'
    BY <2>1, <2>2, <2>3, <2>4, HeardTakes DEF TypeOK
  <2>6. OneAnswer'
    BY SMTT(30), <2>1, <2>2, HeardTakes DEF OneAnswer, TypeOK
  <2>7. QED BY <2>1, <2>2, <2>5, <2>6 DEF RoomKept
<1>2. CASE HearChunk
  <2> DEFINE chunk == Head(inbox).chunk
             room  == buffered + chunk.length
  <2>1. /\ Heard("chunk") /\ queue' = Append(queue, chunk) /\ buffered' = room
        /\ UNCHANGED <<ready, failure>> /\ Woken /\ Refilled(room, FALSE)
    BY <1>2 DEF HearChunk
  <2>2. chunk \in Chunk
    BY <2>1, HeardTakes DEF Message
  <2>3. inFlight /\ buffered + ChunkEvents <= MaxBuffered
    BY <2>1, HeardTakes DEF RoomKept
  <2>4. room \in Int /\ room <= MaxBuffered
    <3> HIDE DEF chunk
    <3>1. chunk.length \in 0..ChunkEvents
      BY <2>2 DEF Chunk
    <3>2. QED BY <2>3, <3>1, LiveSourceAssumption DEF TypeOK
  <2>5. /\ inFlight' \in BOOLEAN
        /\ room + (IF inFlight' THEN ChunkEvents ELSE 0) <= MaxBuffered
        /\ \/ port' = port /\ inFlight' = FALSE
           \/ port' = port + 1 /\ inFlight' = TRUE
    <3> HIDE DEF room
    <3>1. QED BY <2>1, <2>4, Refills
  <2>6. take' \in [at : {"idle", "starting", "loop", "waiting"}, max : Nat]
    BY <2>1 DEF Woken, TypeOK
  <2>7. queue' \in Seq(Chunk)
    BY <2>1, <2>2 DEF TypeOK
  <2>8. TypeOK'
    <3>1. inbox' \in Seq(Message) /\ UNCHANGED <<world, thread, making, closed, ready, failure>>
      BY <2>1, HeardTakes
    <3>2. port' \in Nat
      BY <2>5 DEF TypeOK
    <3>3. buffered' \in Int
      BY <2>1, <2>4
    <3> HIDE DEF chunk, room
    <3>4. QED BY <2>5, <2>6, <2>7, <3>1, <3>2, <3>3 DEF TypeOK
  <2>9. OneAnswer'
    BY <2>1, <2>5, HeardTakes DEF OneAnswer, TypeOK
  <2>10. QED BY <2>1, <2>5, <2>8, <2>9 DEF RoomKept
<1>3. CASE HearError
  <2>1. Heard("error") /\ failure' = TRUE /\ UNCHANGED <<queue, buffered, inFlight, port>>
    BY <1>3 DEF HearError
  <2>2. ready' \in {"pending", "resolved", "rejected"}
    BY <1>3 DEF HearError, TypeOK
  <2>3. take' \in [at : {"idle", "starting", "loop", "waiting"}, max : Nat]
    BY <1>3 DEF HearError, Woken, TypeOK
  <2>4. TypeOK'
    BY <2>1, <2>2, <2>3, HeardTakes DEF TypeOK
  <2>5. OneAnswer' /\ RoomKept'
    BY <2>1, HeardTakes DEF OneAnswer, RoomKept
  <2>6. QED BY <2>4, <2>5
<1>4. QED BY <1>1, <1>2, <1>3 DEF Hear

(* What is left of a chunk that is split is a chunk.                        *)
LEMMA RestIsAChunk ==
  ASSUME NEW chunk \in Chunk, NEW n \in Nat, n <= chunk.length
  PROVE  Rest(chunk, n) \in Chunk
<1>1. /\ chunk.from + n \in Nat
      /\ chunk.length - n \in 0..ChunkEvents
  BY LiveSourceAssumption DEF Chunk
<1>2. QED BY <1>1 DEF Rest, Chunk

(* take() gives back at least no room, and asks again within what it gave.  *)
LEMMA TakeLoopKeeps == ASSUME IInv, TakeLoop PROVE IInv'
<1> USE DEF IInv
<1> DEFINE Takes == [at : {"idle", "starting", "loop", "waiting"}, max : Nat]
<1>0. UNCHANGED <<kind, world, thread, making, inbox, files, faults>>
  BY DEF TakeLoop
<1>1. CASE Returned /\ UNCHANGED <<port, main, given>>
  <2>1. take' \in Takes
    BY <1>1 DEF Returned, TypeOK
  <2>2. TypeOK' /\ OneAnswer' /\ RoomKept'
    BY <1>0, <1>1, <2>1 DEF main, TypeOK, OneAnswer, RoomKept
  <2>3. QED BY <2>2
<1>2. CASE ~failure /\ queue # <<>>
  <2> DEFINE head  == Head(queue)
             n     == Lesser(AtLeastOne(take.max), head.length)
             whole == n >= head.length
             room  == buffered - n
  <2>1. /\ queue' = IF whole THEN Tail(queue) ELSE <<Rest(head, n)>> \o Tail(queue)
        /\ buffered' = room /\ Returned /\ UNCHANGED <<ready, failure, closed>>
        /\ Refilled(room, inFlight)
    BY <1>2 DEF TakeLoop
  <2>2. head \in Chunk /\ Tail(queue) \in Seq(Chunk)
    BY <1>2 DEF TypeOK
  <2>3. n \in Nat /\ n <= head.length
    BY <2>2, SMTT(30) DEF Chunk, Lesser, AtLeastOne, TypeOK
  <2>4. Rest(head, n) \in Chunk
    BY <2>2, <2>3, RestIsAChunk
  <2>5. queue' \in Seq(Chunk)
    <3> HIDE DEF head, n
    <3>1. <<Rest(head, n)>> \o Tail(queue) \in Seq(Chunk)
      BY <2>2, <2>4
    <3>2. QED BY <2>1, <2>2, <3>1
  <2>6. /\ room \in Int /\ room <= MaxBuffered
        /\ inFlight => room + ChunkEvents <= MaxBuffered
    BY <2>3, LiveSourceAssumption, SMTT(30) DEF RoomKept, TypeOK
  <2>7. /\ inFlight' \in BOOLEAN
        /\ room + (IF inFlight' THEN ChunkEvents ELSE 0) <= MaxBuffered
        /\ \/ port' = port /\ inFlight' = inFlight
           \/ port' = port + 1 /\ inFlight' = TRUE /\ ~inFlight
    <3> HIDE DEF room
    <3>1. inFlight \in BOOLEAN
      BY DEF TypeOK
    <3>2. QED BY <2>1, <2>6, <3>1, Refills
  <2>8. take' \in Takes
    BY <2>1 DEF Returned, TypeOK
  <2>9. TypeOK' /\ OneAnswer' /\ RoomKept'
    <3> HIDE DEF room
    <3>1. TypeOK'
      BY <1>0, <2>1, <2>5, <2>6, <2>7, <2>8 DEF TypeOK
    <3>2. OneAnswer'
      BY <1>0, <2>7 DEF OneAnswer, TypeOK
    <3>3. QED BY <2>1, <2>7, <3>1, <3>2 DEF RoomKept
  <2>10. QED BY <2>9
<1>3. CASE ~failure /\ queue = <<>> /\ ~closed
  <2>1. /\ take' = [take EXCEPT !.at = "waiting"]
        /\ UNCHANGED <<ready, queue, buffered, failure, closed>> /\ Refilled(buffered, inFlight)
    BY <1>3 DEF TakeLoop
  <2>2. /\ buffered \in Int /\ buffered <= MaxBuffered /\ inFlight \in BOOLEAN
        /\ inFlight => buffered + ChunkEvents <= MaxBuffered
    BY LiveSourceAssumption DEF RoomKept, TypeOK
  <2>3. /\ inFlight' \in BOOLEAN
        /\ buffered + (IF inFlight' THEN ChunkEvents ELSE 0) <= MaxBuffered
        /\ \/ port' = port /\ inFlight' = inFlight
           \/ port' = port + 1 /\ inFlight' = TRUE /\ ~inFlight
    BY <2>1, <2>2, Refills
  <2>4. take' \in Takes
    BY <2>1 DEF TypeOK
  <2>5. TypeOK'
    BY <1>0, <2>1, <2>3, <2>4 DEF TypeOK
  <2>6. OneAnswer'
    BY <1>0, <2>3 DEF OneAnswer, TypeOK
  <2>7. QED BY <2>1, <2>3, <2>5, <2>6 DEF RoomKept
<1>4. QED BY <1>1, <1>2, <1>3 DEF TakeLoop

LEMMA CallerKeeps ==
  ASSUME IInv, Close \/ \E max \in Wanted : CallTake(max) \/ TakeInline(max)
  PROVE  IInv'
<1> USE LiveSourceAssumption DEF IInv
<1>1. CASE Close
  <2>1. thread' \in {thread, "gone"} /\ making' = NoChunk /\ closed' = TRUE
    BY <1>1 DEF Close
  <2>2. UNCHANGED <<world, port, inbox, ready, queue, buffered, inFlight, failure, take>>
    BY <1>1 DEF Close
  <2>3. NoChunk \in Chunk
    BY DEF NoChunk, Chunk
  <2>4. TypeOK'
    BY <2>1, <2>2, <2>3 DEF TypeOK
  <2>5. OneAnswer' /\ RoomKept'
    BY <2>1, <2>2 DEF OneAnswer, RoomKept
  <2>6. QED BY <2>4, <2>5
<1>2. ASSUME NEW max \in Wanted, CallTake(max) PROVE IInv'
  <2>1. take' \in [at : {"idle", "starting", "loop", "waiting"}, max : Nat]
    BY <1>2 DEF CallTake, TypeOK
  <2>2. UNCHANGED <<world, thread, making, port, inbox, main>>
    BY <1>2 DEF CallTake
  <2>3. TypeOK' /\ OneAnswer' /\ RoomKept'
    BY <2>1, <2>2 DEF TypeOK, OneAnswer, RoomKept, main
  <2>4. QED BY <2>3
<1>3. ASSUME NEW max \in Wanted, TakeInline(max) PROVE IInv'
  <2>1. UNCHANGED <<thread, making, port, inbox, main, take>>
    BY <1>3 DEF TakeInline
  <2>2. PICK a \in Ahead : Reached(Batch(a[1], a[2], AtLeastOne(max)))
    BY <1>3 DEF TakeInline
  <2>3. AtLeastOne(max) \in Nat \ {0}
    BY DEF AtLeastOne
  <2>4. world' \in [day : Nat, cursor : Nat, announced : Nat]
    BY <2>2, <2>3, BatchIsAChunk DEF Reached
  <2>5. TypeOK' /\ OneAnswer' /\ RoomKept'
    BY <2>1, <2>4 DEF TypeOK, OneAnswer, RoomKept, main
  <2>6. QED BY <2>5
<1>4. QED BY <1>1, <1>2, <1>3

LEMMA NextKeeps == ASSUME IInv, [Next]_vars PROVE IInv'
<1>1. CASE UNCHANGED vars
  BY <1>1 DEF vars, main, IInv, TypeOK, OneAnswer, RoomKept
<1>2. CASE Next
  BY <1>2, ThreadKeeps, HearKeeps, TakeLoopKeeps, CallerKeeps DEF Next
<1>3. QED BY <1>1, <1>2

(* Every variable of the source keeps its type.                             *)
THEOREM TypeCorrect == Spec => []TypeOK
<1>1. Init => IInv
  BY InitKeeps
<1>2. IInv /\ [Next]_vars => IInv'
  BY NextKeeps
<1>3. IInv => TypeOK
  BY DEF IInv
<1>4. QED BY <1>1, <1>2, <1>3, PTL DEF Spec

(* What is buffered, with the answer that was asked for, never exceeds      *)
(* maxBufferedEvents (live-source.ts, refill).                              *)
THEOREM BufferHasRoom == Spec => []RoomKept
<1>1. Init => IInv
  BY InitKeeps
<1>2. IInv /\ [Next]_vars => IInv'
  BY NextKeeps
<1>3. IInv => RoomKept
  BY DEF IInv
<1>4. QED BY <1>1, <1>2, <1>3, PTL DEF Spec

-----------------------------------------------------------------------------
(* The refinement: what was handed out, what is queued, the answer on its   *)
(* way, the one being made and where the world stands follow one another.   *)

(* The chunks that may follow one; where a world that made one stands.      *)
Following(c) ==
  IF c.endOfDay THEN UNION {Feed!Slices(e, Feed!Opening(e)) : e \in Feed!NextDay(c.day)}
                ELSE Feed!Slices(c.day, c.from + c.length)

After(c) == [day |-> c.day, cursor |-> c.from + c.length, announced |-> c.day]

Slice == [day : Nat, from : Nat, length : Nat, endOfDay : BOOLEAN, checkpoint : BOOLEAN]

PartOfDay(c) ==
  /\ c \in Slice /\ c.day \in Days /\ c.length >= 1 /\ c.from >= Feed!Opening(c.day)
  /\ c.from + c.length <= DayLengths[c.day]
  /\ c.endOfDay = (c.from + c.length = DayLengths[c.day])

Handed(c) == c = Feed!NothingYet \/ PartOfDay(c)

Behind(g, q, i) == IF i = 1 THEN g ELSE q[i - 1]

LastOf(g, q) == IF q = <<>> THEN g ELSE q[Len(q)]

Linked(g, q) ==
  /\ Handed(g)
  /\ \A i \in 1..Len(q) : PartOfDay(q[i]) /\ q[i] \in Following(Behind(g, q, i))

(* An answer under way is what comes next, and the world is past it.        *)
ComesNext(c, last, at) == PartOfDay(c) /\ c \in Following(last) /\ at = After(c)

AnswersNext(messages, last, at) ==
  \A i \in Answers(messages) : ComesNext(messages[i].chunk, last, at)

(* Unless an answer is under way, or was lost (inFlight stays TRUE, and     *)
(* nothing is asked for again), the world is where the queue ends.          *)
Aligned ==
  /\ Linked(given, queue)
  /\ ~inFlight \/ port = 1 => world = After(LastOf(given, queue))
  /\ AnswersNext(inbox, LastOf(given, queue), world)
  /\ thread = "writing" => ComesNext(making, LastOf(given, queue), world)

(* Nobody takes from a closed source; the inline one has no buffer.         *)
Orderly ==
  /\ kind \in {"thread", "inline"}
  /\ closed => take.at = "idle"
  /\ kind = "inline" => /\ thread = "none" /\ port = 0 /\ inbox = <<>> /\ queue = <<>>
                        /\ ~inFlight /\ ~failure /\ take.at = "idle"

FeedInv == IInv /\ Aligned /\ Orderly

-----------------------------------------------------------------------------
(* Slices of days.                                                          *)

LEMMA Lengths ==
  /\ DayLengths \in Seq(Nat) /\ Days = 1..Len(DayLengths) /\ Len(DayLengths) \in Nat
  /\ \A d \in Days : DayLengths[d] \in Nat
  /\ \A d : Feed!Opening(d) \in Nat
BY LiveSourceAssumption DEF Days, Feed!Opening

LEMMA SliceIsPart ==
  ASSUME NEW d \in Days, NEW from \in Nat, from >= Feed!Opening(d),
         NEW y \in Feed!Slices(d, from)
  PROVE  PartOfDay(y)
<1>1. DayLengths[d] \in Nat /\ d \in Nat
  BY Lengths
<1>2. PICK n \in 1..(DayLengths[d] - from) :
        y = [day |-> d, from |-> from, length |-> n, endOfDay |-> from + n = DayLengths[d],
             checkpoint |-> from = Feed!Opening(d)]
  BY DEF Feed!Slices
<1>3. n \in Nat /\ n >= 1 /\ from + n <= DayLengths[d]
  BY <1>1, <1>2
<1>4. y \in Slice
  BY <1>1, <1>2, <1>3 DEF Slice
<1>5. QED BY <1>2, <1>3, <1>4 DEF PartOfDay

LEMMA FollowerIsPart ==
  ASSUME NEW x, Handed(x), NEW y \in Following(x)
  PROVE  PartOfDay(y)
<1>1. CASE x.endOfDay
  <2>1. PICK e \in Feed!NextDay(x.day) : y \in Feed!Slices(e, Feed!Opening(e))
    BY <1>1 DEF Following
  <2>2. x.day \in Nat
    BY DEF Handed, PartOfDay, Slice, Feed!NothingYet
  <2>3. e \in (x.day + 1)..Len(DayLengths)
    BY <2>1 DEF Feed!NextDay
  <2>4. e \in Days /\ Feed!Opening(e) \in Nat
    BY <2>2, <2>3, Lengths
  <2>5. QED BY <2>1, <2>4, SliceIsPart
<1>2. CASE ~x.endOfDay
  <2>1. PartOfDay(x)
    BY <1>2 DEF Handed, Feed!NothingYet
  <2>2. y \in Feed!Slices(x.day, x.from + x.length)
    BY <1>2 DEF Following
  <2>3. /\ x.day \in Days /\ x.from + x.length \in Nat
        /\ x.from + x.length >= Feed!Opening(x.day)
    BY <2>1, Lengths DEF PartOfDay, Slice
  <2>4. QED BY <2>2, <2>3, SliceIsPart
<1>3. QED BY <1>1, <1>2

LEMMA BatchIsASlice ==
  ASSUME NEW d \in Days, NEW from \in Nat, from < DayLengths[d], NEW max \in Nat \ {0},
         (d # world.announced) = (from = Feed!Opening(d))
  PROVE  Batch(d, from, max) \in Feed!Slices(d, from)
<1> DEFINE to == Lesser(DayLengths[d], from + max)
           n == to - from
<1>1. DayLengths[d] \in Nat
  BY Lengths
<1>2. n \in 1..(DayLengths[d] - from) /\ from + n = to
  BY <1>1 DEF Lesser
<1>3. Batch(d, from, max) = [day |-> d, from |-> from, length |-> n,
                             endOfDay |-> from + n = DayLengths[d],
                             checkpoint |-> from = Feed!Opening(d)]
  <2>1. Batch(d, from, max) = [day |-> d, from |-> from, length |-> n,
                               endOfDay |-> to = DayLengths[d],
                               checkpoint |-> d # world.announced]
    BY DEF Batch
  <2> HIDE DEF n, to
  <2>2. QED BY <1>2, <2>1
<1> HIDE DEF n
<1>4. QED BY <1>2, <1>3 DEF Feed!Slices

(* What a world makes follows what it made last.                            *)
LEMMA BatchFollows ==
  ASSUME NEW x, Handed(x), world = After(x), NEW a \in Ahead, NEW max \in Nat \ {0}
  PROVE  Batch(a[1], a[2], max) \in Following(x)
<1>1. world.day = x.day /\ world.cursor = x.from + x.length /\ world.announced = x.day
  BY DEF After
<1>2. CASE x.endOfDay
  <2>1. ~(world.day \in Days /\ world.cursor < DayLengths[world.day])
    <3>1. CASE x = Feed!NothingYet
      BY <1>1, <3>1, Lengths DEF Feed!NothingYet
    <3>2. CASE PartOfDay(x)
      <4>1. /\ x.day \in Days /\ x.from + x.length = DayLengths[x.day]
            /\ DayLengths[x.day] \in Nat
        BY <1>2, <3>2, Lengths DEF PartOfDay
      <4>2. QED BY <1>1, <4>1
    <3>3. QED BY <3>1, <3>2 DEF Handed
  <2>2. PICK e \in Feed!NextDay(x.day) : a = <<e, Feed!Opening(e)>>
    BY <1>1, <2>1 DEF Ahead
  <2>3. x.day \in Nat
    BY DEF Handed, PartOfDay, Slice, Feed!NothingYet
  <2>4. e \in (x.day + 1)..Len(DayLengths) /\ Feed!Opening(e) < DayLengths[e]
    BY <2>2 DEF Feed!NextDay
  <2>5. e \in Days /\ Feed!Opening(e) \in Nat /\ e # world.announced
    BY <1>1, <2>3, <2>4, Lengths
  <2>6. Batch(e, Feed!Opening(e), max) \in Feed!Slices(e, Feed!Opening(e))
    BY <2>4, <2>5, BatchIsASlice
  <2>7. a[1] = e /\ a[2] = Feed!Opening(e)
    BY <2>2
  <2>8. QED BY <1>2, <2>2, <2>6, <2>7 DEF Following
<1>3. CASE ~x.endOfDay
  <2>1. PartOfDay(x)
    BY <1>3 DEF Handed, Feed!NothingYet
  <2>2. /\ x.day \in Days /\ x.from + x.length \in Nat /\ DayLengths[x.day] \in Nat
        /\ x.from + x.length < DayLengths[x.day] /\ Feed!Opening(x.day) \in Nat
        /\ x.from + x.length > Feed!Opening(x.day)
    BY <1>3, <2>1, Lengths, SMTT(30) DEF PartOfDay, Slice
  <2>3. a = <<x.day, x.from + x.length>>
    BY <1>1, <2>2 DEF Ahead
  <2>4. (x.day # world.announced) = (x.from + x.length = Feed!Opening(x.day))
    BY <1>1, <2>2
  <2>5. Batch(x.day, x.from + x.length, max) \in Feed!Slices(x.day, x.from + x.length)
    BY <2>2, <2>4, BatchIsASlice
  <2>6. a[1] = x.day /\ a[2] = x.from + x.length
    BY <2>3
  <2>7. QED BY <1>3, <2>5, <2>6 DEF Following
<1>4. QED BY <1>2, <1>3

-----------------------------------------------------------------------------
(* The queue.                                                               *)

LEMMA LastHanded ==
  ASSUME NEW g, NEW q \in Seq(Chunk), Linked(g, q)
  PROVE  Handed(LastOf(g, q))
BY DEF Linked, LastOf, Handed

LEMMA QueuedNext ==
  ASSUME NEW g, NEW q \in Seq(Chunk), Linked(g, q), NEW c \in Chunk,
         PartOfDay(c), c \in Following(LastOf(g, q))
  PROVE  Linked(g, Append(q, c)) /\ LastOf(g, Append(q, c)) = c
<1> DEFINE r == Append(q, c)
<1>1. /\ r # <<>> /\ Len(r) = Len(q) + 1 /\ r[Len(r)] = c /\ Len(q) \in Nat
      /\ \A i \in 1..Len(q) : r[i] = q[i]
  OBVIOUS
<1> HIDE DEF r
<1>2. ASSUME NEW i \in 1..Len(r)
      PROVE  PartOfDay(r[i]) /\ r[i] \in Following(Behind(g, r, i))
  <2>1. CASE i \in 1..Len(q)
    <3>1. r[i] = q[i] /\ Behind(g, r, i) = Behind(g, q, i)
      BY <1>1, <2>1 DEF Behind
    <3>2. QED BY <2>1, <3>1 DEF Linked
  <2>2. CASE i = Len(q) + 1
    <3>1. Behind(g, r, i) = LastOf(g, q)
      BY <1>1, <2>2 DEF Behind, LastOf
    <3>2. QED BY <1>1, <2>2, <3>1
  <2>3. QED BY <1>1, <2>1, <2>2
<1>3. QED BY <1>1, <1>2 DEF Linked, LastOf, r

LEMMA HeadTaken ==
  ASSUME NEW g, NEW q \in Seq(Chunk), Linked(g, q), q # <<>>
  PROVE  /\ PartOfDay(Head(q)) /\ Head(q) \in Following(g)
         /\ Linked(Head(q), Tail(q)) /\ LastOf(Head(q), Tail(q)) = LastOf(g, q)
<1> DEFINE r == Tail(q)
<1>1. /\ Head(q) = q[1] /\ Len(q) \in Nat \ {0} /\ Len(r) = Len(q) - 1 /\ r \in Seq(Chunk)
      /\ \A i \in 1..(Len(q) - 1) : r[i] = q[i + 1]
  OBVIOUS
<1>2. PartOfDay(q[1]) /\ q[1] \in Following(g)
  BY <1>1 DEF Linked, Behind
<1> HIDE DEF r
<1>3. ASSUME NEW i \in 1..Len(r)
      PROVE  PartOfDay(r[i]) /\ r[i] \in Following(Behind(q[1], r, i))
  <2>1. i + 1 \in 1..Len(q) /\ r[i] = q[i + 1]
    BY <1>1
  <2>2. Behind(q[1], r, i) = Behind(g, q, i + 1)
    BY <1>1, <2>1 DEF Behind
  <2>3. QED BY <2>1, <2>2 DEF Linked
<1>4. LastOf(q[1], r) = LastOf(g, q)
  <2>1. CASE r = <<>>
    <3>1. Len(r) = 0
      BY <2>1
    <3>2. Len(q) = 1 /\ q # <<>>
      BY <1>1, <3>1
    <3>3. QED BY <2>1, <3>2 DEF LastOf
  <2>2. CASE r # <<>>
    <3>1. Len(r) \in 1..(Len(q) - 1) /\ Len(r) + 1 = Len(q)
      BY <1>1, <2>2
    <3>2. r[Len(r)] = q[Len(r) + 1]
      BY <1>1, <3>1
    <3>3. q # <<>> /\ r[Len(r)] = q[Len(q)]
      BY <3>1, <3>2
    <3>4. QED BY <2>2, <3>3 DEF LastOf
  <2>3. QED BY <2>1, <2>2
<1>5. QED BY <1>1, <1>2, <1>3, <1>4 DEF Linked, Handed, r

(* A chunk that is split: its part comes next, its rest follows that, and   *)
(* what followed the chunk follows the rest.                                *)
LEMMA SplitFollows ==
  ASSUME NEW x, Handed(x), NEW c, PartOfDay(c), c \in Following(x),
         NEW n \in Nat, n >= 1, n < c.length
  PROVE  /\ Part(c, n) \in Following(x) /\ PartOfDay(Part(c, n))
         /\ Rest(c, n) \in Following(Part(c, n)) /\ PartOfDay(Rest(c, n))
         /\ Following(Rest(c, n)) = Following(c) /\ After(Rest(c, n)) = After(c)
<1>1. /\ c \in Slice /\ c.day \in Days /\ c.day \in Nat /\ c.from \in Nat /\ c.length \in Nat
      /\ c.from >= Feed!Opening(c.day) /\ Feed!Opening(c.day) \in Nat
      /\ DayLengths[c.day] \in Nat /\ c.from + c.length <= DayLengths[c.day]
      /\ c.endOfDay = (c.from + c.length = DayLengths[c.day])
  BY Lengths DEF PartOfDay, Slice
<1>2. /\ Part(c, n).day = c.day /\ Part(c, n).from = c.from /\ Part(c, n).length = n
      /\ Part(c, n).endOfDay = FALSE
      /\ Part(c, n) = [day |-> c.day, from |-> c.from, length |-> n, endOfDay |-> FALSE,
                       checkpoint |-> c.checkpoint]
  <2>1. PICK d \in Nat, f \in Nat, l \in Nat, e \in BOOLEAN, k \in BOOLEAN :
          c = [day |-> d, from |-> f, length |-> l, endOfDay |-> e, checkpoint |-> k]
    BY <1>1 DEF Slice
  <2>2. Part(c, n) = [c EXCEPT !.length = n, !.endOfDay = FALSE]
    BY DEF Part
  <2>3. Part(c, n) = [[day |-> d, from |-> f, length |-> l, endOfDay |-> e, checkpoint |-> k]
                        EXCEPT !.length = n, !.endOfDay = FALSE]
    BY <2>1, <2>2, Zenon
  <2>4. Part(c, n) = [day |-> d, from |-> f, length |-> n, endOfDay |-> FALSE, checkpoint |-> k]
    BY <2>3
  <2>5. QED BY <2>1, <2>4
<1>3. Rest(c, n) = [day |-> c.day, from |-> c.from + n, length |-> c.length - n,
                    endOfDay |-> c.endOfDay, checkpoint |-> FALSE]
  <2>1. PICK d \in Nat, f \in Nat, l \in Nat, e \in BOOLEAN, k \in BOOLEAN :
          c = [day |-> d, from |-> f, length |-> l, endOfDay |-> e, checkpoint |-> k]
    BY <1>1 DEF Slice
  <2>2. Rest(c, n) = [c EXCEPT !.from = c.from + n, !.length = c.length - n, !.checkpoint = FALSE]
    BY DEF Rest
  <2>3. Rest(c, n) = [[day |-> d, from |-> f, length |-> l, endOfDay |-> e, checkpoint |-> k]
                        EXCEPT !.from = c.from + n, !.length = c.length - n, !.checkpoint = FALSE]
    BY <2>1, <2>2, Zenon
  <2>4. Rest(c, n) = [day |-> d, from |-> c.from + n, length |-> c.length - n, endOfDay |-> e,
                      checkpoint |-> FALSE]
    BY <2>3
  <2>5. QED BY <2>1, <2>4
<1>4. ASSUME NEW d, NEW from, c \in Feed!Slices(d, from)
      PROVE  Part(c, n) \in Feed!Slices(d, from)
  <2>1. PICK m \in 1..(DayLengths[d] - from) :
          c = [day |-> d, from |-> from, length |-> m, endOfDay |-> from + m = DayLengths[d],
               checkpoint |-> from = Feed!Opening(d)]
    BY <1>4 DEF Feed!Slices
  <2>2. d = c.day /\ from = c.from /\ m = c.length /\ c.checkpoint = (from = Feed!Opening(d))
    BY <2>1
  <2>3. n \in 1..(DayLengths[d] - from) /\ (from + n = DayLengths[d]) = FALSE
    BY <1>1, <2>2
  <2>4. Part(c, n) = [day |-> d, from |-> from, length |-> n,
                      endOfDay |-> from + n = DayLengths[d],
                      checkpoint |-> from = Feed!Opening(d)]
    BY <1>2, <2>2, <2>3
  <2>5. QED BY <2>3, <2>4 DEF Feed!Slices
<1>5. Part(c, n) \in Following(x)
  BY <1>4 DEF Following
<1>6. PartOfDay(Part(c, n))
  BY <1>5, FollowerIsPart
<1>7. Rest(c, n) \in Following(Part(c, n))
  <2>1. Following(Part(c, n)) = Feed!Slices(c.day, c.from + n)
    BY <1>2 DEF Following
  <2>2. /\ c.length - n \in 1..(DayLengths[c.day] - (c.from + n))
        /\ (c.from + n) + (c.length - n) = c.from + c.length
        /\ (c.from + n = Feed!Opening(c.day)) = FALSE
    BY <1>1
  <2>3. Rest(c, n) = [day |-> c.day, from |-> c.from + n, length |-> c.length - n,
                      endOfDay |-> (c.from + n) + (c.length - n) = DayLengths[c.day],
                      checkpoint |-> c.from + n = Feed!Opening(c.day)]
    BY <1>1, <1>3, <2>2
  <2>4. QED BY <2>1, <2>2, <2>3 DEF Feed!Slices
<1>8. PartOfDay(Rest(c, n))
  BY <1>6, <1>7, FollowerIsPart DEF Handed
<1>9. (c.from + n) + (c.length - n) = c.from + c.length
  BY <1>1
<1>10. Following(Rest(c, n)) = Following(c) /\ After(Rest(c, n)) = After(c)
  BY <1>3, <1>9 DEF Following, After
<1>11. QED BY <1>5, <1>6, <1>7, <1>8, <1>10

(* What a queue holds once a part of its head was handed out.               *)
Left(q, n) == <<Rest(Head(q), n)>> \o Tail(q)

LEMMA HeadSplit ==
  ASSUME NEW g, NEW q \in Seq(Chunk), Linked(g, q), q # <<>>,
         NEW n \in Nat, n >= 1, n < Head(q).length,
         NEW h, h = Part(Head(q), n), NEW r, r = Left(q, n)
  PROVE  /\ h \in Following(g) /\ Linked(h, r)
         /\ Following(LastOf(h, r)) = Following(LastOf(g, q))
         /\ After(LastOf(h, r)) = After(LastOf(g, q))
<1> DEFINE c == Head(q)
           k == Rest(c, n)
           t == Tail(q)
<1>1. /\ PartOfDay(c) /\ c \in Following(g) /\ Handed(g)
      /\ Linked(c, t) /\ LastOf(c, t) = LastOf(g, q)
  BY HeadTaken DEF Linked
<1>2. /\ h \in Following(g) /\ PartOfDay(h) /\ k \in Following(h) /\ PartOfDay(k)
      /\ Following(k) = Following(c) /\ After(k) = After(c)
  BY <1>1, SplitFollows
<1>3. t \in Seq(Chunk)
  OBVIOUS
<1>4. r = <<k>> \o t
  BY DEF Left
<1> HIDE DEF c, k, t
<1>5. /\ Len(r) = Len(t) + 1 /\ Len(t) \in Nat /\ r[1] = k /\ r # <<>>
      /\ \A i \in 1..Len(t) : r[i + 1] = t[i]
  BY <1>3, <1>4
<1>6. ASSUME NEW i \in 1..Len(r)
      PROVE  PartOfDay(r[i]) /\ r[i] \in Following(Behind(h, r, i))
  <2>1. CASE i = 1
    BY <1>2, <1>5, <2>1 DEF Behind
  <2>2. CASE i # 1
    <3>1. /\ i - 1 \in 1..Len(t) /\ r[i] = t[i - 1] /\ Behind(h, r, i) = r[i - 1]
      <4>1. i - 1 \in 1..Len(t) /\ (i - 1) + 1 = i
        BY <1>5, <2>2
      <4>2. r[(i - 1) + 1] = t[i - 1]
        BY <1>5, <4>1
      <4>3. QED BY <2>2, <4>1, <4>2 DEF Behind
    <3>2. Following(r[i - 1]) = Following(Behind(c, t, i - 1))
      <4>1. CASE i = 2
        BY <1>2, <1>5, <4>1 DEF Behind
      <4>2. CASE i # 2
        <5>1. i - 2 \in 1..Len(t) /\ (i - 2) + 1 = i - 1 /\ i - 1 # 1 /\ (i - 1) - 1 = i - 2
          BY <1>5, <2>2, <4>2
        <5>2. r[(i - 2) + 1] = t[i - 2]
          BY <1>5, <5>1
        <5>3. Behind(c, t, i - 1) = t[i - 2]
          BY <5>1 DEF Behind
        <5>4. QED BY <5>1, <5>2, <5>3
      <4>3. QED BY <4>1, <4>2
    <3>3. QED BY <1>1, <3>1, <3>2 DEF Linked
  <2>3. QED BY <2>1, <2>2
<1>7. Linked(h, r)
  BY <1>2, <1>6 DEF Linked, Handed
<1>8. /\ Following(LastOf(h, r)) = Following(LastOf(c, t))
      /\ After(LastOf(h, r)) = After(LastOf(c, t))
  <2>1. CASE t = <<>>
    <3>1. Len(t) = 0
      BY <2>1
    <3>2. Len(r) = 1 /\ r # <<>> /\ r[1] = k
      BY <1>5, <3>1
    <3>3. LastOf(h, r) = k /\ LastOf(c, t) = c
      BY <2>1, <3>2 DEF LastOf
    <3>4. QED BY <1>2, <3>3
  <2>2. CASE t # <<>>
    <3>1. Len(t) \in 1..Len(t)
      BY <1>3, <2>2
    <3>2. r[Len(t) + 1] = t[Len(t)]
      BY <1>5, <3>1
    <3>3. LastOf(h, r) = t[Len(t)] /\ LastOf(c, t) = t[Len(t)]
      BY <1>5, <2>2, <3>2 DEF LastOf
    <3>4. QED BY <3>3
  <2>3. QED BY <2>1, <2>2
<1>9. QED BY <1>1, <1>2, <1>7, <1>8

-----------------------------------------------------------------------------
(* The ports.                                                               *)

LEMMA SentNext ==
  ASSUME NEW messages \in Seq(Message), NEW m \in Message, NEW last, NEW at,
         AnswersNext(messages, last, at), m.type = "chunk" => ComesNext(m.chunk, last, at)
  PROVE  AnswersNext(Append(messages, m), last, at)
<1>1. /\ DOMAIN Append(messages, m) = 1..(Len(messages) + 1)
      /\ Append(messages, m)[Len(messages) + 1] = m
      /\ \A i \in 1..Len(messages) : Append(messages, m)[i] = messages[i]
      /\ DOMAIN messages = 1..Len(messages) /\ Len(messages) \in Nat
  OBVIOUS
<1> SUFFICES ASSUME NEW i \in Answers(Append(messages, m))
             PROVE  ComesNext(Append(messages, m)[i].chunk, last, at)
  BY DEF AnswersNext
<1>2. CASE i = Len(messages) + 1
  BY <1>1, <1>2 DEF Answers
<1>3. CASE i \in 1..Len(messages)
  <2>1. i \in Answers(messages) /\ Append(messages, m)[i] = messages[i]
    BY <1>1, <1>3 DEF Answers
  <2>2. QED BY <2>1 DEF AnswersNext
<1>4. QED BY <1>1, <1>2, <1>3 DEF Answers

LEMMA TakenNext ==
  ASSUME NEW messages \in Seq(Message), messages # <<>>, NEW last, NEW at,
         AnswersNext(messages, last, at)
  PROVE  /\ AnswersNext(Tail(messages), last, at)
         /\ Head(messages).type = "chunk" => ComesNext(Head(messages).chunk, last, at)
<1>1. /\ Head(messages) = messages[1] /\ Len(messages) \in Nat \ {0}
      /\ DOMAIN messages = 1..Len(messages)
      /\ DOMAIN Tail(messages) = 1..(Len(messages) - 1)
      /\ \A i \in 1..(Len(messages) - 1) : Tail(messages)[i] = messages[i + 1]
  OBVIOUS
<1>2. ASSUME NEW i \in Answers(Tail(messages))
      PROVE  ComesNext(Tail(messages)[i].chunk, last, at)
  <2>1. i + 1 \in Answers(messages) /\ Tail(messages)[i] = messages[i + 1]
    BY <1>1 DEF Answers
  <2>2. QED BY <2>1 DEF AnswersNext
<1>3. Head(messages).type = "chunk" => 1 \in Answers(messages)
  BY <1>1 DEF Answers
<1>4. QED BY <1>1, <1>2, <1>3 DEF AnswersNext

LEMMA Asks ==
  ASSUME NEW STATE room, NEW STATE flying, Refilled(room, flying)
  PROVE  \/ inFlight' = flying /\ port' = port
         \/ ~flying /\ inFlight' = TRUE /\ port' = port + 1
BY Zenon DEF Refilled

-----------------------------------------------------------------------------
(* Every step hands out what comes next, ends the feed, or does neither.    *)

FeedStep == [Feed!Hand \/ Feed!End]_<<given, failure \/ closed>>

FeedKept == Aligned' /\ Orderly' /\ FeedStep

LEMMA Silent == ASSUME UNCHANGED <<given, failure, closed>> PROVE FeedStep
BY DEF FeedStep

LEMMA Ends == ASSUME UNCHANGED given, failure' = TRUE \/ closed' = TRUE PROVE FeedStep
BY DEF FeedStep, Feed!End

LEMMA HandsOut ==
  ASSUME given' \in Following(given), ~failure, ~closed, UNCHANGED <<failure, closed>>
  PROVE  FeedStep
BY DEF FeedStep, Feed!Hand, Following

LEMMA FeedInit == ASSUME Init PROVE Feed!Init /\ Aligned /\ Orderly
<1>1. /\ given = Feed!NothingYet /\ failure = FALSE /\ closed = FALSE
      /\ queue = <<>> /\ inbox = <<>> /\ port = 0 /\ inFlight = FALSE
      /\ thread \in {"opening", "none"} /\ take.at = "idle"
      /\ kind \in {"thread", "inline"} /\ (kind = "inline" => thread = "none")
      /\ world = [day |-> 0, cursor |-> 0, announced |-> 0]
  BY DEF Init
<1>2. Feed!Init
  BY <1>1 DEF Feed!Init
<1>3. world = After(given)
  BY <1>1 DEF After, Feed!NothingYet
<1>4. Aligned
  BY <1>1, <1>3 DEF Aligned, Linked, Handed, LastOf, AnswersNext, Answers
<1>5. QED BY <1>1, <1>2, <1>4 DEF Orderly

LEMMA ThreadFeeds == ASSUME FeedInv, Thread \/ ThreadDies PROVE FeedKept
<1> DEFINE last == LastOf(given, queue)
<1>0. /\ TypeOK /\ OneAnswer /\ Aligned /\ Orderly
      /\ [type |-> "ready"] \in Message /\ [type |-> "error"] \in Message
      /\ \A c \in Chunk : [type |-> "chunk", chunk |-> c] \in Message
  BY DEF FeedInv, IInv, Message
<1>1. CASE ThreadOpens
  <2>1. PICK m \in Message : inbox' = Append(inbox, m) /\ m.type # "chunk"
    BY <1>0, <1>1 DEF ThreadOpens, Say
  <2>2. /\ thread = "opening" /\ thread' = "idle"
        /\ UNCHANGED <<kind, world, port, queue, inFlight, failure, closed, take, given>>
    BY <1>1 DEF ThreadOpens, main
  <2>3. AnswersNext(inbox', last, world)
    BY <1>0, <2>1, SentNext DEF Aligned, TypeOK
  <2>4. Aligned' /\ Orderly'
    BY <1>0, <2>2, <2>3 DEF Aligned, Orderly
  <2>5. QED BY <2>2, <2>4, Silent DEF FeedKept
<1>2. CASE ThreadAnswers
  <2>1. PICK a \in Ahead :
          LET chunk == Batch(a[1], a[2], ChunkEvents)
          IN  /\ Reached(chunk)
              /\ IF chunk.checkpoint
                 THEN thread' = "writing" /\ making' = chunk /\ UNCHANGED inbox
                 ELSE Say([type |-> "chunk", chunk |-> chunk]) /\ UNCHANGED <<thread, making>>
    BY <1>2 DEF ThreadAnswers
  <2>2. /\ thread = "idle" /\ port = 1 /\ port' = 0 /\ inFlight /\ Answers(inbox) = {}
        /\ UNCHANGED <<kind, queue, inFlight, failure, closed, take, given>>
    BY <1>0, <1>2 DEF ThreadAnswers, OneAnswer, TypeOK, main
  <2>3. Handed(last) /\ world = After(last)
    BY <1>0, <2>2, LastHanded DEF Aligned, TypeOK
  <2>4. PICK chunk : chunk = Batch(a[1], a[2], ChunkEvents)
    OBVIOUS
  <2>5. chunk \in Following(last) /\ chunk \in Chunk
    <3>1. ChunkEvents \in Nat \ {0}
      BY LiveSourceAssumption
    <3> HIDE DEF last
    <3>2. chunk \in Following(last)
      BY <2>3, <2>4, <3>1, BatchFollows
    <3>3. chunk \in Chunk
      BY <1>0, <2>4, <3>1, BatchIsAChunk
    <3>4. QED BY <3>2, <3>3
  <2>6. ComesNext(chunk, last, world')
    BY <2>1, <2>3, <2>4, <2>5, FollowerIsPart DEF ComesNext, Reached, After
  <2>7. kind # "inline"
    BY <1>0, <2>2 DEF Orderly
  <2>8. AnswersNext(inbox, last, world')
    BY <2>2 DEF AnswersNext
  <2>9. CASE chunk.checkpoint
    <3>1. thread' = "writing" /\ making' = chunk /\ inbox' = inbox
      BY <2>1, <2>4, <2>9
    <3>2. Aligned' /\ Orderly'
      BY <1>0, <2>2, <2>6, <2>7, <2>8, <3>1 DEF Aligned, Orderly
    <3>3. QED BY <2>2, <3>2, Silent DEF FeedKept
  <2>10. CASE ~chunk.checkpoint
    <3>1. /\ inbox' = Append(inbox, [type |-> "chunk", chunk |-> chunk])
          /\ thread' = "idle"
      BY <2>1, <2>2, <2>4, <2>10 DEF Say
    <3>2. AnswersNext(inbox', last, world')
      BY <1>0, <2>5, <2>6, <2>8, <3>1, SentNext DEF TypeOK
    <3>3. Aligned' /\ Orderly'
      BY <1>0, <2>2, <2>7, <3>1, <3>2 DEF Aligned, Orderly
    <3>4. QED BY <2>2, <3>3, Silent DEF FeedKept
  <2>11. QED BY <2>9, <2>10
<1>3. CASE ThreadWrote
  <2>1. /\ thread = "writing" /\ thread' = "idle" /\ inFlight /\ Answers(inbox) = {} /\ port # 1
        /\ UNCHANGED <<kind, world, port, queue, inFlight, failure, closed, take, given>>
    BY <1>0, <1>3 DEF ThreadWrote, OneAnswer, main
  <2>2. making \in Chunk /\ ComesNext(making, last, world)
    BY <1>0, <2>1 DEF TypeOK, Aligned
  <2>3. PICK m \in Message : inbox' = Append(inbox, m) /\ (m.type = "chunk" => m.chunk = making)
    BY <1>0, <1>3, <2>2 DEF ThreadWrote, Say
  <2>4. AnswersNext(inbox', last, world)
    BY <1>0, <2>2, <2>3, SentNext DEF Aligned, TypeOK
  <2>5. Aligned' /\ Orderly'
    BY <1>0, <2>1, <2>4 DEF Aligned, Orderly
  <2>6. QED BY <2>1, <2>5, Silent DEF FeedKept
<1>4. CASE ThreadDies
  <2>1. /\ thread # "none" /\ thread' = "gone" /\ inbox' = Append(inbox, [type |-> "error"])
        /\ UNCHANGED <<kind, world, port, queue, inFlight, failure, closed, take, given>>
    BY <1>4 DEF ThreadDies, Say, main
  <2>2. AnswersNext(inbox', last, world)
    BY <1>0, <2>1, SentNext DEF Aligned, TypeOK
  <2>3. Aligned' /\ Orderly'
    BY <1>0, <2>1, <2>2 DEF Aligned, Orderly
  <2>4. QED BY <2>1, <2>3, Silent DEF FeedKept
<1>5. QED BY <1>1, <1>2, <1>3, <1>4 DEF Thread

LEMMA HearFeeds == ASSUME FeedInv, Hear PROVE FeedKept
<1> DEFINE last == LastOf(given, queue)
<1>0. TypeOK /\ OneAnswer /\ Aligned /\ Orderly /\ IInv
  BY DEF FeedInv, IInv
<1>1. ASSUME NEW type, Heard(type)
      PROVE  /\ AnswersNext(inbox', last, world)
             /\ type = "chunk" => ComesNext(Head(inbox).chunk, last, world)
             /\ kind # "inline" /\ UNCHANGED <<kind, world, thread, making, given, closed>>
  <2>1. /\ inbox # <<>> /\ Head(inbox).type = type /\ inbox' = Tail(inbox)
        /\ UNCHANGED <<kind, world, thread, making, given, closed>>
    BY <1>1 DEF Heard
  <2>2. inbox \in Seq(Message) /\ AnswersNext(inbox, last, world)
    BY <1>0 DEF TypeOK, Aligned
  <2>3. QED BY <1>0, <2>1, <2>2, TakenNext DEF Orderly
<1>2. CASE HearReady
  <2>1. Heard("ready") /\ Refilled(buffered, inFlight) /\ UNCHANGED <<queue, failure>>
    BY <1>2 DEF HearReady
  <2>2. take.at = "idle" => take' = take
    BY <1>2 DEF HearReady
  <2>3. \/ inFlight' = inFlight /\ port' = port
        \/ ~inFlight /\ inFlight' = TRUE /\ port' = port + 1
    BY <2>1, Asks
  <2>4. Aligned'
    BY <1>0, <1>1, <2>1, <2>3 DEF Aligned
  <2>5. Orderly'
    BY <1>0, <1>1, <2>1, <2>2 DEF Orderly
  <2>6. QED BY <1>1, <2>1, <2>4, <2>5, Silent DEF FeedKept
<1>3. CASE HearChunk
  <2> DEFINE chunk == Head(inbox).chunk
  <2>1. Heard("chunk") /\ queue' = Append(queue, chunk) /\ UNCHANGED failure /\ Woken
    BY <1>3 DEF HearChunk
  <2>2. chunk \in Chunk /\ thread # "writing" /\ Answers(inbox') = {}
    BY <1>0, <2>1, HeardTakes DEF Message
  <2>3. ComesNext(chunk, last, world)
    BY <1>1, <2>1
  <2>4. Linked(given, queue') /\ LastOf(given, queue') = chunk
    <3> HIDE DEF chunk
    <3>1. QED BY <1>0, <2>1, <2>2, <2>3, QueuedNext DEF Aligned, TypeOK, ComesNext
  <2>5. world = After(LastOf(given, queue')) /\ AnswersNext(inbox', LastOf(given, queue'), world)
    BY <2>2, <2>3, <2>4 DEF ComesNext, AnswersNext
  <2>6. Aligned'
    <3>1. given' = given /\ world' = world /\ thread' = thread
      BY <1>1, <2>1
    <3>2. QED BY <2>2, <2>4, <2>5, <3>1 DEF Aligned
  <2>7. Orderly'
    BY <1>0, <1>1, <2>1 DEF Orderly, Woken
  <2>8. QED BY <1>1, <2>1, <2>6, <2>7, Silent DEF FeedKept
<1>4. CASE HearError
  <2>1. Heard("error") /\ failure' = TRUE /\ UNCHANGED <<queue, inFlight, port>>
    BY <1>4 DEF HearError
  <2>2. take.at = "idle" => take'.at = "idle"
    BY <1>4 DEF HearError, Woken
  <2>3. Aligned'
    BY <1>0, <1>1, <2>1 DEF Aligned
  <2>4. Orderly'
    BY <1>0, <1>1, <2>1, <2>2 DEF Orderly
  <2>5. QED BY <1>1, <2>1, <2>3, <2>4, Ends DEF FeedKept
<1>5. QED BY <1>2, <1>3, <1>4 DEF Hear

LEMMA TakeLoopFeeds == ASSUME FeedInv, TakeLoop PROVE FeedKept
<1> DEFINE last == LastOf(given, queue)
<1>0. TypeOK /\ Aligned /\ Orderly
  BY DEF FeedInv, IInv
<1>1. /\ take.at = "loop" /\ ~closed /\ kind # "inline"
      /\ UNCHANGED <<kind, world, thread, making, inbox>>
  BY <1>0 DEF TakeLoop, Orderly
<1>2. CASE Returned /\ UNCHANGED <<port, main, given>>
  <2>1. UNCHANGED <<port, queue, inFlight, failure, closed, given>>
    BY <1>2 DEF main
  <2>2. Aligned' /\ Orderly'
    BY <1>0, <1>1, <2>1 DEF Aligned, Orderly
  <2>3. QED BY <2>1, <2>2, Silent DEF FeedKept
<1>3. CASE ~failure /\ queue # <<>>
  <2> DEFINE head  == Head(queue)
             n     == Lesser(AtLeastOne(take.max), head.length)
             whole == n >= head.length
  <2>1. /\ given' = IF whole THEN head ELSE Part(head, n)
        /\ queue' = IF whole THEN Tail(queue) ELSE <<Rest(head, n)>> \o Tail(queue)
        /\ UNCHANGED <<failure, closed>> /\ Refilled(buffered - n, inFlight)
    BY <1>3 DEF TakeLoop
  <2>2. queue \in Seq(Chunk) /\ Linked(given, queue)
    BY <1>0 DEF TypeOK, Aligned
  <2>3. PartOfDay(head)
    BY <1>3, <2>2, HeadTaken
  <2>4. head.length \in Nat /\ head.length >= 1 /\ n \in Nat /\ n >= 1
    BY <1>0, <2>3 DEF PartOfDay, Slice, Lesser, AtLeastOne, TypeOK
  <2>5. /\ given' \in Following(given) /\ Linked(given', queue')
        /\ Following(LastOf(given', queue')) = Following(last)
        /\ After(LastOf(given', queue')) = After(last)
    <3>1. CASE whole
      <4>1. given' = Head(queue) /\ queue' = Tail(queue)
        BY <2>1, <3>1
      <4>2. QED BY <1>3, <2>2, <4>1, HeadTaken
    <3>2. CASE ~whole
      <4>1. given' = Part(Head(queue), n) /\ queue' = <<Rest(Head(queue), n)>> \o Tail(queue)
        BY <2>1, <3>2
      <4>2. n < Head(queue).length
        BY <2>4, <3>2
      <4> HIDE DEF n, whole, head
      <4>3. ASSUME NEW h, h = Part(Head(queue), n),
                   NEW r, r = Left(queue, n)
            PROVE  /\ h \in Following(given) /\ Linked(h, r)
                   /\ Following(LastOf(h, r)) = Following(LastOf(given, queue))
                   /\ After(LastOf(h, r)) = After(LastOf(given, queue))
        <5>1. n \in Nat /\ n >= 1 /\ queue # <<>>
          BY <1>3, <2>4
        <5>2. QED BY <2>2, <4>2, <4>3, <5>1, HeadSplit
      <4>4. QED BY <4>1, <4>3 DEF Left
    <3>3. QED BY <3>1, <3>2
  <2>6. \/ inFlight' = inFlight /\ port' = port
        \/ ~inFlight /\ inFlight' = TRUE /\ port' = port + 1
    <3> HIDE DEF n
    <3>1. QED BY <2>1, Asks
  <2> HIDE DEF head, n, whole
  <2>7. AnswersNext(inbox, LastOf(given', queue'), world)
    BY <1>0, <2>5 DEF Aligned, AnswersNext, ComesNext
  <2>8. Aligned'
    BY <1>0, <1>1, <2>5, <2>6, <2>7 DEF Aligned, ComesNext
  <2>9. Orderly'
    BY <1>0, <1>1, <2>1 DEF Orderly
  <2>10. QED BY <1>1, <1>3, <2>1, <2>5, <2>8, <2>9, HandsOut DEF FeedKept
<1>4. CASE ~failure /\ queue = <<>> /\ ~closed
  <2>1. /\ UNCHANGED <<queue, failure, closed, given>> /\ Refilled(buffered, inFlight)
    BY <1>4 DEF TakeLoop
  <2>2. \/ inFlight' = inFlight /\ port' = port
        \/ ~inFlight /\ inFlight' = TRUE /\ port' = port + 1
    BY <2>1, Asks
  <2>3. Aligned' /\ Orderly'
    BY <1>0, <1>1, <2>1, <2>2 DEF Aligned, Orderly
  <2>4. QED BY <2>1, <2>3, Silent DEF FeedKept
<1>5. QED BY <1>2, <1>3, <1>4 DEF TakeLoop

LEMMA CallerFeeds ==
  ASSUME FeedInv, Close \/ \E max \in Wanted : CallTake(max) \/ TakeInline(max)
  PROVE  FeedKept
<1>0. TypeOK /\ Aligned /\ Orderly
  BY DEF FeedInv, IInv
<1>1. CASE Close
  <2>1. /\ take.at = "idle" /\ closed' = TRUE
        /\ thread' = IF kind = "thread" THEN "gone" ELSE thread
        /\ UNCHANGED <<kind, world, port, inbox, queue, inFlight, failure, take, given>>
    BY <1>1 DEF Close
  <2>2. thread' # "writing"
    BY <1>0, <2>1 DEF Orderly
  <2>3. Aligned' /\ Orderly'
    BY <1>0, <2>1, <2>2 DEF Aligned, Orderly
  <2>4. QED BY <2>1, <2>3, Ends DEF FeedKept
<1>2. ASSUME NEW max \in Wanted, CallTake(max) PROVE FeedKept
  <2>1. /\ kind = "thread" /\ ~closed
        /\ UNCHANGED <<kind, world, thread, making, port, inbox, given>>
        /\ UNCHANGED <<queue, inFlight, failure, closed>>
    BY <1>2 DEF CallTake, main
  <2>2. Aligned' /\ Orderly'
    BY <1>0, <2>1 DEF Aligned, Orderly
  <2>3. QED BY <2>1, <2>2, Silent DEF FeedKept
<1>3. ASSUME NEW max \in Wanted, TakeInline(max) PROVE FeedKept
  <2>1. /\ kind = "inline" /\ ~closed
        /\ UNCHANGED <<kind, thread, making, port, inbox, take>>
        /\ UNCHANGED <<queue, inFlight, failure, closed>>
    BY <1>3 DEF TakeInline, main
  <2>2. PICK a \in Ahead : /\ Reached(Batch(a[1], a[2], AtLeastOne(max)))
                          /\ given' = Batch(a[1], a[2], AtLeastOne(max))
    BY <1>3 DEF TakeInline
  <2>3. AtLeastOne(max) \in Nat \ {0}
    BY LiveSourceAssumption DEF AtLeastOne
  <2>4. /\ thread = "none" /\ port = 0 /\ inbox = <<>> /\ queue = <<>> /\ ~inFlight /\ ~failure
        /\ take.at = "idle"
    BY <1>0, <2>1 DEF Orderly
  <2>5. Handed(given) /\ world = After(given)
    BY <1>0, <2>4 DEF Aligned, Linked, LastOf
  <2>6. given' \in Following(given) /\ world' = After(given')
    BY <2>2, <2>3, <2>5, BatchFollows DEF Reached, After
  <2>7. PartOfDay(given')
    BY <2>5, <2>6, FollowerIsPart
  <2>8. Aligned' /\ Orderly'
    BY <2>1, <2>4, <2>6, <2>7
       DEF Aligned, Orderly, Linked, Handed, LastOf, AnswersNext, Answers
  <2>9. QED BY <2>1, <2>4, <2>6, <2>8, HandsOut DEF FeedKept
<1>4. QED BY <1>1, <1>2, <1>3

LEMMA NextFeeds == ASSUME FeedInv, [Next]_vars PROVE FeedInv' /\ FeedStep
<1>1. IInv'
  BY NextKeeps DEF FeedInv
<1>2. CASE Next
  BY <1>1, <1>2, ThreadFeeds, HearFeeds, TakeLoopFeeds, CallerFeeds
     DEF Next, FeedInv, FeedKept
<1>3. CASE UNCHANGED vars
  <2>1. UNCHANGED <<kind, world, thread, making, port, inbox, take, given>>
        /\ UNCHANGED <<queue, inFlight, failure, closed>>
    BY <1>3 DEF vars, main
  <2>2. Aligned' /\ Orderly'
    BY <2>1 DEF FeedInv, Aligned, Orderly
  <2>3. QED BY <1>1, <2>1, <2>2, Silent DEF FeedInv
<1>4. QED BY <1>2, <1>3

(* A LiveSource of either kind is a LiveFeed: the live days' deliveries in  *)
(* order, none twice and none left out, no slice across days, a day's       *)
(* checkpoint with its first slice, nothing once it failed or was closed    *)
(* (live-source.ts, take, refill, fail and close; live-world-thread.ts).    *)
THEOREM SourceIsAFeed == Spec => IsAFeed
<1>1. Init => FeedInv /\ Feed!Init
  BY InitKeeps, FeedInit DEF FeedInv
<1>2. FeedInv /\ [Next]_vars => FeedInv' /\ FeedStep
  BY NextFeeds
<1>3. QED BY <1>1, <1>2, PTL DEF Spec, IsAFeed, Feed!Spec, FeedStep

-----------------------------------------------------------------------------
(* What a queue holds, by induction: on the least counterexample.           *)

NatOrder == {ss \in Nat \X Nat : ss[1] < ss[2]}

LEMMA NatOrderWF == IsWellFoundedOn(NatOrder, Nat)
BY NatLessThanWellFounded DEF NatOrder, OpToRel

LEMMA LeastOf ==
  ASSUME NEW T, T \subseteq Nat, T # {}
  PROVE  \E n \in T : n \in Nat /\ \A m \in Nat : m < n => m \notin T
<1>1. \E n \in T : \A m \in T : ~ (<<m, n>> \in NatOrder)
  BY NatOrderWF, WFMin, Zenon
<1>2. PICK n \in T : \A m \in T : ~ (<<m, n>> \in NatOrder)
  BY <1>1
<1>3. ASSUME NEW m \in Nat, m < n PROVE m \notin T
  <2>1. n \in Nat
    BY <1>2
  <2>2. <<m, n>> \in NatOrder
    BY <2>1, <1>3 DEF NatOrder
  <2>3. QED BY <1>2, <2>2
<1>4. QED BY <1>2, <1>3

(* The running sums of a queue.                                             *)
Sums(g, q) == g = [i \in 0..Len(q) |-> IF i = 0 THEN 0 ELSE g[i - 1] + q[i].length]

LEMMA HeldIs ==
  ASSUME NEW q
  PROVE  Held(q) = (CHOOSE g : Sums(g, q))[Len(q)]
BY Zenon DEF Held, Sums

LEMMA LengthIs ==
  ASSUME NEW q \in Seq(Chunk)
  PROVE  Len(q) \in Nat /\ \A i \in 1..Len(q) : q[i] \in Chunk /\ q[i].length \in Nat
<1>1. Len(q) \in Nat /\ \A i \in 1..Len(q) : q[i] \in Chunk
  OBVIOUS
<1>2. \A c \in Chunk : c.length \in Nat
  BY LiveSourceAssumption DEF Chunk
<1>3. QED BY <1>1, <1>2

LEMMA SumsExist ==
  ASSUME NEW q \in Seq(Chunk)
  PROVE  \E g \in [0..Len(q) -> Nat] : Sums(g, q)
<1> DEFINE E(g, i) == IF i = 0 THEN 0 ELSE g[i - 1] + q[i].length
           Good(g, n) == \A i \in 0..Len(q) : i <= n => g[i] = E(g, i)
           Bad == {n \in Nat : ~ \E g \in [0..Len(q) -> Nat] : Good(g, n)}
<1>1. Len(q) \in Nat /\ \A i \in 1..Len(q) : q[i].length \in Nat
  BY LengthIs
<1>2. ASSUME NEW g \in [0..Len(q) -> Nat], NEW i \in 0..Len(q) PROVE E(g, i) \in Nat
  <2>1. CASE i # 0
    <3>1. i - 1 \in 0..Len(q) /\ i \in 1..Len(q)
      BY <1>1, <2>1
    <3>2. E(g, i) = g[i - 1] + q[i].length /\ g[i - 1] \in Nat /\ q[i].length \in Nat
      BY <1>1, <2>1, <3>1
    <3> HIDE DEF E
    <3>3. QED BY <3>2
  <2>2. QED BY <2>1
<1>3. Bad = {}
  <2>1. SUFFICES ASSUME Bad # {} PROVE FALSE
    OBVIOUS
  <2>2. PICK n \in Bad : n \in Nat /\ \A m \in Nat : m < n => m \notin Bad
    <3>1. Bad \subseteq Nat
      OBVIOUS
    <3> HIDE DEF Bad
    <3>2. QED BY <2>1, <3>1, LeastOf
  <2>3. n # 0
    <3>1. SUFFICES ASSUME n = 0 PROVE \E g \in [0..Len(q) -> Nat] : Good(g, n)
      BY <2>2
    <3>2. [i \in 0..Len(q) |-> 0] \in [0..Len(q) -> Nat]
      OBVIOUS
    <3>3. Good([i \in 0..Len(q) |-> 0], n)
      BY <1>1, <3>1
    <3>4. QED BY <3>2, <3>3
  <2>4. n - 1 \in Nat /\ n - 1 \notin Bad
    <3>1. n - 1 \in Nat /\ n - 1 < n
      BY <2>2, <2>3
    <3> HIDE DEF Bad
    <3>2. QED BY <2>2, <3>1
  <2>5. PICK g \in [0..Len(q) -> Nat] : Good(g, n - 1)
    BY <2>4
  <2> DEFINE h == [i \in 0..Len(q) |-> E(g, i)]
  <2>6. h \in [0..Len(q) -> Nat]
    BY <1>2
  <2>7. ASSUME NEW i \in 0..Len(q), i <= n PROVE h[i] = E(h, i)
    <3>1. CASE i = 0
      BY <3>1
    <3>2. CASE i # 0
      <4>1. i - 1 \in 0..Len(q) /\ i - 1 <= n - 1
        BY <1>1, <2>2, <2>7, <3>2
      <4>2. g[i - 1] = E(g, i - 1)
        BY <2>5, <4>1
      <4>3. h[i - 1] = E(g, i - 1)
        BY <4>1
      <4>4. h[i] = g[i - 1] + q[i].length /\ E(h, i) = h[i - 1] + q[i].length
        BY <3>2
      <4>5. QED BY <4>2, <4>3, <4>4, Zenon
    <3>3. QED BY <3>1, <3>2
  <2>8. Good(h, n)
    BY <2>7
  <2>9. QED BY <2>2, <2>6, <2>8, Zenon
<1>4. PICK g \in [0..Len(q) -> Nat] : Good(g, Len(q))
  BY <1>1, <1>3
<1>5. g = [i \in 0..Len(q) |-> E(g, i)]
  BY <1>1, <1>4
<1>6. QED BY <1>5, Zenon DEF Sums

(* Running sums go on where those of a queue that ends alike went on from.  *)
Follows(g, q, h, r, d, k) ==
  /\ q \in Seq(Chunk) /\ g \in [0..Len(q) -> Nat] /\ Sums(g, q)
  /\ r \in Seq(Chunk) /\ Sums(h, r)
  /\ d \in Nat /\ d <= Len(r) /\ k \in Int /\ h[d] = g[0] + k
  /\ \A i \in 1..Len(q) : i + d <= Len(r) => r[i + d].length = q[i].length

LEMMA SumsFollow ==
  ASSUME NEW q, NEW g, NEW r, NEW h, NEW d, NEW k, Follows(g, q, h, r, d, k)
  PROVE  \A i \in 0..Len(q) : i + d <= Len(r) => h[i + d] = g[i] + k
<1>0. /\ q \in Seq(Chunk) /\ g \in [0..Len(q) -> Nat] /\ Sums(g, q)
      /\ r \in Seq(Chunk) /\ Sums(h, r)
      /\ d \in Nat /\ d <= Len(r) /\ k \in Int /\ h[d] = g[0] + k
      /\ \A i \in 1..Len(q) : i + d <= Len(r) => r[i + d].length = q[i].length
  BY DEF Follows
<1> DEFINE Bad == {i \in 0..Len(q) : i + d <= Len(r) /\ h[i + d] # g[i] + k}
<1>1. SUFFICES ASSUME Bad # {} PROVE FALSE
  OBVIOUS
<1>2. Bad \subseteq Nat /\ Len(q) \in Nat /\ Len(r) \in Nat
  BY <1>0
<1>3. PICK i \in Bad : i \in Nat /\ \A m \in Nat : m < i => m \notin Bad
  <2> HIDE DEF Bad
  <2>1. QED BY <1>1, <1>2, LeastOf
<1>4. i \in 0..Len(q) /\ i + d <= Len(r) /\ h[i + d] # g[i] + k
  BY <1>3
<1>5. i # 0
  BY <1>0, <1>4
<1>6. /\ i - 1 \in 0..Len(q) /\ i - 1 \in Nat /\ i - 1 < i /\ (i - 1) + d <= Len(r)
      /\ i \in 1..Len(q) /\ i + d \in 0..Len(r) /\ i + d # 0 /\ (i + d) - 1 = (i - 1) + d
  BY <1>0, <1>2, <1>3, <1>4, <1>5
<1>7. h[(i - 1) + d] = g[i - 1] + k
  <2>1. i - 1 \notin Bad
    <3> HIDE DEF Bad
    <3>1. QED BY <1>3, <1>6
  <2>2. QED BY <1>6, <2>1
<1>8. g[i] = g[i - 1] + q[i].length
  <2>1. g[i] = IF i = 0 THEN 0 ELSE g[i - 1] + q[i].length
    BY <1>0, <1>4, Zenon DEF Sums
  <2>2. QED BY <1>5, <2>1
<1>9. h[i + d] = h[(i - 1) + d] + r[i + d].length
  <2>1. h[i + d] = IF i + d = 0 THEN 0 ELSE h[(i + d) - 1] + r[i + d].length
    BY <1>0, <1>6, Zenon DEF Sums
  <2>2. QED BY <1>6, <2>1
<1>10. r[i + d].length = q[i].length /\ q[i].length \in Nat /\ g[i - 1] \in Nat
  BY <1>0, <1>4, <1>6, LengthIs
<1>11. h[i + d] = g[i] + k
  <2>1. PICK hi, hp, gi, gp, len : /\ hi = h[i + d] /\ hp = h[(i - 1) + d] /\ gi = g[i]
                                   /\ gp = g[i - 1] /\ len = q[i].length
    OBVIOUS
  <2>2. hp = gp + k /\ gi = gp + len /\ hi = hp + len /\ len \in Nat /\ gp \in Nat /\ k \in Int
    BY <1>0, <1>7, <1>8, <1>9, <1>10, <2>1, Zenon
  <2>3. QED BY <2>1, <2>2
<1>12. QED BY <1>4, <1>11, Zenon

(* A queue's running sums are unique, and what it holds is the last.        *)
LEMMA HeldBy ==
  ASSUME NEW q \in Seq(Chunk)
  PROVE  \E g \in [0..Len(q) -> Nat] : Sums(g, q) /\ g[0] = 0 /\ Held(q) = g[Len(q)]
<1>1. PICK g \in [0..Len(q) -> Nat] : Sums(g, q)
  BY SumsExist
<1> DEFINE chosen == CHOOSE h : Sums(h, q)
<1>2. Sums(chosen, q)
  BY <1>1, Zenon
<1>3. Held(q) = chosen[Len(q)]
  BY HeldIs, Zenon
<1> HIDE DEF chosen
<1>4. 0 \in 0..Len(q) /\ Len(q) \in 0..Len(q)
  OBVIOUS
<1>5. g[0] = 0 /\ chosen[0] = 0
  <2>1. \A h : Sums(h, q) => h[0] = 0
    BY <1>4 DEF Sums
  <2>2. QED BY <1>1, <1>2, <2>1
<1>6. \A h : Sums(h, q) /\ h[0] = 0 => h[Len(q)] = g[Len(q)]
  <2>1. SUFFICES ASSUME NEW h, Sums(h, q), h[0] = 0 PROVE h[Len(q)] = g[Len(q)]
    OBVIOUS
  <2>2. \A i \in 0..Len(q) : i + 0 <= Len(q) => h[i + 0] = g[i] + 0
    <3>1. Follows(g, q, h, q, 0, 0)
      BY <1>1, <1>5, <2>1 DEF Follows
    <3>2. QED BY <3>1, SumsFollow
  <2>3. QED BY <2>2
<1>7. QED BY <1>1, <1>2, <1>3, <1>5, <1>6

(* A queue holds what its first chunk has and what the others hold.         *)
LEMMA HeldFirst ==
  ASSUME NEW q \in Seq(Chunk), NEW r \in Seq(Chunk), Len(r) = Len(q) + 1,
         \A i \in 1..Len(q) : r[i + 1] = q[i]
  PROVE  Held(r) = r[1].length + Held(q) /\ Held(q) \in Nat
<1>1. PICK g \in [0..Len(q) -> Nat] : Sums(g, q) /\ g[0] = 0 /\ Held(q) = g[Len(q)]
  BY HeldBy
<1>2. PICK h \in [0..Len(r) -> Nat] : Sums(h, r) /\ h[0] = 0 /\ Held(r) = h[Len(r)]
  BY HeldBy
<1>3. 1 \in 0..Len(r) /\ r[1].length \in Nat /\ Len(q) \in Nat
  BY LengthIs
<1>4. h[1] = h[0] + r[1].length
  <2>1. h[1] = IF 1 = 0 THEN 0 ELSE h[1 - 1] + r[1].length
    BY <1>2, <1>3, Zenon DEF Sums
  <2>2. QED BY <2>1
<1>5. h[1] = g[0] + r[1].length
  BY <1>1, <1>2, <1>3, <1>4
<1>6. \A i \in 0..Len(q) : i + 1 <= Len(r) => h[i + 1] = g[i] + r[1].length
  <2>1. PICK k \in Int : k = r[1].length
    BY <1>3
  <2>2. PICK d : d = 1
    OBVIOUS
  <2>3. Follows(g, q, h, r, d, k)
    BY <1>1, <1>2, <1>3, <1>5, <2>1, <2>2 DEF Follows
  <2>4. \A i \in 0..Len(q) : i + d <= Len(r) => h[i + d] = g[i] + k
    BY ONLY <2>3, SumsFollow
  <2>5. QED BY <2>1, <2>2, <2>4, Zenon
<1>7. Len(q) \in 0..Len(q) /\ g[Len(q)] \in Nat
  BY <1>3
<1>8. QED BY <1>1, <1>2, <1>3, <1>6, <1>7

(* And what the chunks before the last hold, with the last.                 *)
LEMMA HeldLast ==
  ASSUME NEW q \in Seq(Chunk), NEW c \in Chunk
  PROVE  Held(Append(q, c)) = Held(q) + c.length
<1> DEFINE r == Append(q, c)
<1>1. /\ r \in Seq(Chunk) /\ Len(r) = Len(q) + 1 /\ Len(q) \in Nat
      /\ \A i \in 1..Len(q) : r[i] = q[i]
      /\ r[Len(q) + 1] = c
  OBVIOUS
<1> HIDE DEF r
<1>2. PICK g \in [0..Len(q) -> Nat] : Sums(g, q) /\ g[0] = 0 /\ Held(q) = g[Len(q)]
  BY HeldBy
<1>3. PICK h \in [0..Len(r) -> Nat] : Sums(h, r) /\ h[0] = 0 /\ Held(r) = h[Len(r)]
  BY <1>1, HeldBy
<1>4. h[Len(q)] = g[Len(q)]
  <2>1. Follows(g, q, h, r, 0, 0)
    BY <1>1, <1>2, <1>3 DEF Follows
  <2>2. \A i \in 0..Len(q) : i + 0 <= Len(r) => h[i + 0] = g[i] + 0
    BY <2>1, SumsFollow
  <2>3. Len(q) \in 0..Len(q) /\ Len(q) + 0 = Len(q) /\ Len(q) <= Len(r) /\ g[Len(q)] \in Nat
    BY <1>1
  <2>4. QED BY <2>2, <2>3
<1>5. h[Len(r)] = h[Len(q)] + c.length
  <2>1. h[Len(r)] = IF Len(r) = 0 THEN 0 ELSE h[Len(r) - 1] + r[Len(r)].length
    <3>1. Len(r) \in 0..Len(r)
      BY <1>1
    <3>2. QED BY <1>3, <3>1, Zenon DEF Sums
  <2>2. Len(r) # 0 /\ Len(r) - 1 = Len(q) /\ r[Len(r)] = c
    BY <1>1
  <2>3. QED BY <2>1, <2>2
<1>6. QED BY <1>2, <1>3, <1>4, <1>5 DEF r

(* A chunk is taken from the head of a queue, or a part of it is.           *)
LEMMA HeldTaken ==
  ASSUME NEW q \in Seq(Chunk), q # <<>>, NEW n \in Nat, n <= Head(q).length,
         NEW r, r = IF n >= Head(q).length THEN Tail(q) ELSE Left(q, n)
  PROVE  Held(r) = Held(q) - n
<1>1. /\ Tail(q) \in Seq(Chunk) /\ Len(q) = Len(Tail(q)) + 1 /\ Head(q) = q[1] /\ q[1] \in Chunk
      /\ \A i \in 1..Len(Tail(q)) : q[i + 1] = Tail(q)[i]
  OBVIOUS
<1>2. Held(q) = q[1].length + Held(Tail(q)) /\ Held(Tail(q)) \in Nat
  BY <1>1, HeldFirst
<1>3. q[1].length \in Nat
  BY <1>1, LiveSourceAssumption DEF Chunk
<1>4. CASE n >= Head(q).length
  BY <1>1, <1>2, <1>3, <1>4
<1>5. CASE ~(n >= Head(q).length)
  <2> DEFINE c == Rest(Head(q), n)
  <2>1. c \in Chunk
    BY <1>1, RestIsAChunk
  <2>2. c.length = q[1].length - n
    BY <1>1 DEF Rest, Chunk
  <2>3. r = <<c>> \o Tail(q)
    BY <1>5 DEF Left
  <2> HIDE DEF c
  <2>4. /\ r \in Seq(Chunk) /\ Len(r) = Len(Tail(q)) + 1 /\ r[1] = c
        /\ \A i \in 1..Len(Tail(q)) : r[i + 1] = Tail(q)[i]
    <3>1. \A t \in Seq(Chunk) : \A u : u = <<c>> \o t =>
            /\ u \in Seq(Chunk) /\ Len(u) = Len(t) + 1 /\ u[1] = c
            /\ \A i \in 1..Len(t) : u[i + 1] = t[i]
      BY <2>1
    <3>2. QED BY <1>1, <2>3, <3>1, Zenon
  <2>5. Held(r) = r[1].length + Held(Tail(q))
    BY <1>1, <2>4, HeldFirst
  <2>6. QED BY <1>2, <1>3, <2>2, <2>4, <2>5
<1>6. QED BY <1>4, <1>5

-----------------------------------------------------------------------------
Counted == buffered = Held(queue)

LEMMA InitCounts == ASSUME Init PROVE Counted
<1>1. queue = <<>> /\ buffered = 0
  BY DEF Init
<1>2. <<>> \in Seq(Chunk) /\ Len(<<>>) = 0
  OBVIOUS
<1>3. Held(<<>>) = 0
  BY <1>2, HeldBy
<1>4. QED BY <1>1, <1>3 DEF Counted

LEMMA NextCounts == IInv /\ Counted /\ [Next]_vars => Counted'
<1> SUFFICES ASSUME IInv, Counted, [Next]_vars PROVE Counted'
  OBVIOUS
<1>1. queue \in Seq(Chunk) /\ buffered \in Int
  BY DEF IInv, TypeOK
<1>2. CASE UNCHANGED <<queue, buffered>>
  BY <1>2 DEF Counted
<1>3. CASE HearChunk
  <2> DEFINE c == Head(inbox).chunk
  <2>1. queue' = Append(queue, c) /\ buffered' = buffered + c.length /\ Heard("chunk")
    BY <1>3 DEF HearChunk
  <2>2. c \in Chunk
    BY <2>1, HeardTakes DEF Message
  <2> HIDE DEF c
  <2>3. Held(Append(queue, c)) = Held(queue) + c.length
    BY <1>1, <2>2, HeldLast
  <2>4. QED BY <2>1, <2>3, Zenon DEF Counted
<1>4. CASE TakeLoop
  <2>1. CASE failure \/ queue = <<>>
    <3>1. UNCHANGED <<queue, buffered>>
      BY <1>4, <2>1 DEF TakeLoop, main
    <3>2. QED BY <1>2, <3>1
  <2>2. CASE ~failure /\ queue # <<>>
    <3> DEFINE head == Head(queue)
               n    == Lesser(AtLeastOne(take.max), head.length)
               whole == n >= head.length
               left == IF whole THEN Tail(queue) ELSE Left(queue, n)
    <3>1. queue' = left /\ buffered' = buffered - n
      BY <1>4, <2>2 DEF TakeLoop, Left
    <3>2. n \in Nat /\ n <= head.length
      <4>1. head.length \in Nat
        <5>1. head = queue[1] /\ 1 \in 1..Len(queue)
          BY <1>1, <2>2
        <5>2. QED BY <1>1, <5>1, LengthIs
      <4>2. take.max \in Nat
        BY DEF IInv, TypeOK
      <4>3. QED BY <4>1, <4>2 DEF Lesser, AtLeastOne
    <3>3. \A m \in Nat : \A r :
            m <= head.length /\ r = (IF m >= head.length THEN Tail(queue) ELSE Left(queue, m))
              => Held(r) = Held(queue) - m
      BY <1>1, <2>2, HeldTaken
    <3> HIDE DEF n
    <3>4. Held(left) = Held(queue) - n
      BY <3>2, <3>3
    <3> HIDE DEF left
    <3>5. QED BY <3>1, <3>4 DEF Counted
  <2>3. QED BY <2>1, <2>2
<1>5. CASE Thread \/ ThreadDies \/ HearReady \/ HearError \/ UNCHANGED vars
  <2>1. UNCHANGED <<queue, buffered>>
    BY <1>5 DEF Thread, ThreadOpens, ThreadAnswers, ThreadWrote, ThreadDies, HearReady, HearError,
       vars, main
  <2>2. QED BY <1>2, <2>1
<1>6. CASE Close \/ \E m \in Wanted : CallTake(m) \/ TakeInline(m)
  <2>1. UNCHANGED <<queue, buffered>>
    BY <1>6 DEF Close, CallTake, TakeInline, main
  <2>2. QED BY <1>2, <2>1
<1>7. QED BY <1>3, <1>4, <1>5, <1>6 DEF Next, Hear

(* `buffered` is what the queue holds, and never more than the limit with   *)
(* the answer on its way, however chunks are split (live-source.ts, take    *)
(* and refill).                                                             *)
THEOREM BufferCounted == Spec => []BufferBounded
<1>1. Init => IInv /\ Counted
  BY InitKeeps, InitCounts
<1>2. (IInv /\ Counted) /\ [Next]_vars => (IInv /\ Counted)'
  BY NextKeeps, NextCounts
<1>3. IInv /\ Counted => BufferBounded
  BY DEF IInv, Counted, BufferBounded
<1>4. QED BY <1>1, <1>2, <1>3, PTL DEF Spec

-----------------------------------------------------------------------------
(* The live world, whose days the source hands out.                         *)

(* What is delivered, and what waits to be: the copies of one event.        *)
Item == [of : Partitions \X Nat, copy : Nat, at : Nat, outOfOrder : BOOLEAN]

Extras(tp, s, e) == Fate(tp, s, e[1], e[2] + 1).extras

DraftOK(tp, s, p, d) ==
  /\ d.at \in Nat /\ d.seq \in Nat /\ d.reorder \in BOOLEAN
  /\ d = [at |-> d.at, seq |-> d.seq, reorder |-> d.reorder,
          items |-> Copies(p, d.seq, d.at, Extras(tp, s, <<p, d.seq>>))]

-----------------------------------------------------------------------------
(* The heap is popped in order: a finite set of drafts can be enumerated so.*)

Keyed(S) ==
  /\ \A d \in S : d.at \in Nat /\ d.seq \in Nat
  /\ \A d, e \in S : d.seq = e.seq => d = e

Sorted(S, f) ==
  f \in [1..Cardinality(S) -> S] /\ \A i, j \in 1..Cardinality(S) : i < j => Before(f[i], f[j])

LEMMA Earliest ==
  ASSUME NEW S, Keyed(S), S # {}
  PROVE  \E d \in S : \A e \in S \ {d} : Before(d, e)
<1> DEFINE Ats == {d.at : d \in S}
<1>1. PICK a \in Ats : a \in Nat /\ \A m \in Nat : m < a => m \notin Ats
  <2>1. Ats \subseteq Nat /\ Ats # {}
    BY DEF Keyed
  <2> HIDE DEF Ats
  <2>2. QED BY <2>1, LeastOf
<1> DEFINE Seqs == {d.seq : d \in {e \in S : e.at = a}}
<1>2. PICK q \in Seqs : q \in Nat /\ \A m \in Nat : m < q => m \notin Seqs
  <2>1. Seqs \subseteq Nat /\ Seqs # {}
    BY <1>1 DEF Keyed
  <2> HIDE DEF Seqs
  <2>2. QED BY <2>1, LeastOf
<1>3. PICK d \in S : d.at = a /\ d.seq = q
  BY <1>2
<1>4. ASSUME NEW e \in S \ {d} PROVE Before(d, e)
  <2>1. e.at \in Nat /\ e.seq \in Nat /\ e.at \in Ats /\ e.seq # q
    BY <1>3 DEF Keyed
  <2>2. ~(e.at < a)
    BY <1>1, <2>1
  <2>3. e.at = a => ~(e.seq < q)
    <3>1. e.at = a => e.seq \in Seqs
      OBVIOUS
    <3>2. QED BY <1>2, <2>1, <3>1
  <2>4. QED BY <1>1, <1>2, <1>3, <2>1, <2>2, <2>3 DEF Before
<1>5. QED BY <1>4

LEMMA Sorts == ASSUME NEW S, IsFiniteSet(S), Keyed(S) PROVE \E f : Sorted(S, f)
<1> DEFINE Bad == {n \in Nat : \E T \in SUBSET S : Cardinality(T) = n /\ ~\E f : Sorted(T, f)}
<1>1. SUFFICES ASSUME ~\E f : Sorted(S, f) PROVE FALSE
  OBVIOUS
<1>2. Cardinality(S) \in Bad
  BY <1>1, FS_CardinalityType
<1>3. PICK n \in Bad : n \in Nat /\ \A m \in Nat : m < n => m \notin Bad
  <2>1. Bad \subseteq Nat /\ Bad # {}
    BY <1>2
  <2> HIDE DEF Bad
  <2>2. QED BY <2>1, LeastOf
<1>4. PICK T \in SUBSET S : Cardinality(T) = n /\ ~\E f : Sorted(T, f)
  OBVIOUS
<1>5. IsFiniteSet(T) /\ Keyed(T)
  BY <1>4, FS_Subset DEF Keyed
<1>6. T # {}
  <2>1. SUFFICES ASSUME T = {} PROVE FALSE
    OBVIOUS
  <2>2. Cardinality(T) = 0
    BY <2>1, FS_EmptySet
  <2>3. Sorted(T, [i \in 1..0 |-> i])
    BY <2>2 DEF Sorted
  <2>4. QED BY <1>4, <2>3
<1>7. PICK d \in T : \A e \in T \ {d} : Before(d, e)
  BY <1>5, <1>6, Earliest
<1>8. Cardinality(T \ {d}) = n - 1 /\ n - 1 \in Nat /\ IsFiniteSet(T \ {d})
  <2>1. Cardinality(T \ {d}) = n - 1 /\ IsFiniteSet(T \ {d})
    BY <1>4, <1>5, <1>7, FS_RemoveElement
  <2>2. QED BY <2>1, FS_CardinalityType
<1>9. PICK g : Sorted(T \ {d}, g)
  <2>1. n - 1 \notin Bad
    <3> HIDE DEF Bad
    <3>1. QED BY <1>3, <1>8
  <2>2. T \ {d} \in SUBSET S
    BY <1>4
  <2>3. QED BY <1>8, <2>1, <2>2
<1> DEFINE f == [i \in 1..n |-> IF i = 1 THEN d ELSE g[i - 1]]
<1>a. n \in Nat /\ n # 0 /\ g \in [1..(n - 1) -> T \ {d}]
  <2> HIDE DEF Bad
  <2>1. QED BY <1>3, <1>4, <1>5, <1>6, <1>8, <1>9, FS_EmptySet DEF Sorted
<1> HIDE DEF Bad
<1>10. \A i \in 2..n : i - 1 \in 1..(n - 1) /\ g[i - 1] \in T \ {d} /\ f[i] = g[i - 1]
  <2>1. \A i \in 2..n : i \in 1..n /\ i # 1 /\ i - 1 \in 1..(n - 1)
    BY <1>a
  <2>2. QED BY <1>a, <2>1
<1>11. f \in [1..n -> T] /\ f[1] = d
  <2>1. 1 \in 1..n /\ \A i \in 1..n : i = 1 \/ i \in 2..n
    BY <1>a
  <2>2. QED BY <1>7, <1>10, <2>1
<1>12. ASSUME NEW i \in 1..n, NEW j \in 1..n, i < j PROVE Before(f[i], f[j])
  <2>1. j \in 2..n
    BY <1>3, <1>12
  <2>2. CASE i = 1
    BY <1>7, <1>10, <1>11, <2>1, <2>2
  <2>3. CASE i # 1
    <3>1. i \in 2..n /\ i - 1 < j - 1
      BY <1>3, <1>12, <2>3
    <3>2. QED BY <1>8, <1>9, <1>10, <2>1, <3>1 DEF Sorted
  <2>4. QED BY <2>2, <2>3
<1>13. Sorted(T, f)
  BY <1>4, <1>11, <1>12 DEF Sorted
<1>14. QED BY <1>4, <1>13

(* What InOrder gives: each draft once.                                     *)
LEMMA Enumerates ==
  ASSUME NEW S, IsFiniteSet(S), Keyed(S)
  PROVE  LET f == InOrder(S)
             n == Cardinality(S)
         IN  /\ n \in Nat /\ f \in [1..n -> S] /\ Len(f) = n
             /\ \A i, j \in 1..n : i < j => Before(f[i], f[j]) /\ f[i] # f[j]
             /\ \A d \in S : \E i \in 1..n : f[i] = d
<1> DEFINE f == InOrder(S)
           n == Cardinality(S)
<1>1. n \in Nat
  BY FS_CardinalityType
<1>2. f = CHOOSE g \in [1..n -> S] : \A i, j \in DOMAIN g : i < j => Before(g[i], g[j])
  BY DEF InOrder
<1>3. \E g \in [1..n -> S] : \A i, j \in DOMAIN g : i < j => Before(g[i], g[j])
  <2>1. PICK g : Sorted(S, g)
    BY Sorts
  <2>2. g \in [1..n -> S] /\ DOMAIN g = 1..n
    BY <2>1 DEF Sorted
  <2>3. QED BY <2>1, <2>2 DEF Sorted
<1> HIDE DEF f
<1>4. f \in [1..n -> S] /\ \A i, j \in DOMAIN f : i < j => Before(f[i], f[j])
  BY <1>2, <1>3
<1>5. \A i, j \in 1..n : i < j => Before(f[i], f[j]) /\ f[i] # f[j]
  <2>1. \A i \in 1..n : f[i].at \in Nat /\ f[i].seq \in Nat
    BY <1>4 DEF Keyed
  <2>2. QED BY <1>4, <2>1 DEF Before
<1>6. f \in Injection(1..n, S)
  <2>1. \A i, j \in 1..n : f[i] = f[j] => i = j
    BY <1>1, <1>5
  <2>2. QED BY <1>4, <2>1 DEF Injection, IsInjective
<1>7. IsFiniteSet(1..n) /\ Cardinality(1..n) = n
  BY <1>1, FS_Interval
<1>8. f \in Surjection(1..n, S)
  BY <1>6, <1>7, FS_Injection
<1>9. \A d \in S : \E i \in 1..n : f[i] = d
  BY <1>8 DEF Surjection
<1>10. Len(f) = n
  BY <1>1, <1>4
<1>11. QED BY <1>1, <1>4, <1>5, <1>9, <1>10 DEF f

-----------------------------------------------------------------------------
(* Lists of lists, one after the other.                                     *)

Flattens(f, ss) == f = [i \in 1..Len(ss) |-> IF i = 1 THEN ss[i] ELSE f[i - 1] \o ss[i]]

LEMMA FlattenIs ==
  ASSUME NEW ss
  PROVE  FlattenSeq(ss) = IF Len(ss) = 0 THEN ss ELSE (CHOOSE f : Flattens(f, ss))[Len(ss)]
BY Zenon DEF FlattenSeq, Flattens

LEMMA FlattenExists ==
  ASSUME NEW A, NEW ss \in Seq(Seq(A))
  PROVE  \E f \in [1..Len(ss) -> Seq(A)] : Flattens(f, ss)
<1> DEFINE n == Len(ss)
           E(f, i) == IF i = 1 THEN ss[i] ELSE f[i - 1] \o ss[i]
           Good(f, m) == \A i \in 1..n : i <= m => f[i] = E(f, i)
           Bad == {m \in Nat : m <= n /\ ~\E f \in [1..n -> Seq(A)] : Good(f, m)}
<1>1. n \in Nat /\ (\A i \in 1..n : ss[i] \in Seq(A))
  OBVIOUS
<1>2. \A f \in [1..n -> Seq(A)] : \A i \in 1..n : E(f, i) \in Seq(A)
  <2>1. ASSUME NEW f \in [1..n -> Seq(A)], NEW i \in 1..n PROVE E(f, i) \in Seq(A)
    <3>1. CASE i = 1
      BY <1>1, <3>1
    <3>2. CASE i # 1
      <4>1. i - 1 \in 1..n
        BY <1>1, <3>2
      <4>2. f[i - 1] \in Seq(A) /\ ss[i] \in Seq(A)
        BY <1>1, <4>1
      <4>3. QED BY <3>2, <4>2
    <3>3. QED BY <3>1, <3>2
  <2>2. QED BY <2>1
<1>3. SUFFICES ASSUME Bad # {} PROVE FALSE
  <2>1. Bad = {} => \E f \in [1..n -> Seq(A)] : Good(f, n)
    <3>1. n \in Nat /\ n <= n
      BY <1>1
    <3> HIDE DEF Good
    <3>2. QED BY <3>1
  <2>2. ASSUME NEW f \in [1..n -> Seq(A)], Good(f, n) PROVE Flattens(f, ss)
    <3>1. \A i \in 1..n : f[i] = E(f, i)
      <4>1. \A i \in 1..n : i <= n
        BY <1>1
      <4> HIDE DEF E
      <4>2. QED BY <2>2, <4>1
    <3>2. f = [i \in 1..n |-> f[i]]
      OBVIOUS
    <3>3. [i \in 1..n |-> f[i]] = [i \in 1..n |-> E(f, i)]
      <4> HIDE DEF E
      <4>1. QED BY <3>1
    <3>4. QED BY <3>2, <3>3, Zenon DEF Flattens
  <2>3. QED BY <2>1, <2>2
<1>4. PICK m \in Bad : m \in Nat /\ \A k \in Nat : k < m => k \notin Bad
  <2>1. Bad \subseteq Nat
    OBVIOUS
  <2> HIDE DEF Bad
  <2>2. QED BY <1>3, <2>1, LeastOf
<1>5. m <= n /\ m \in Nat /\ ~\E f \in [1..n -> Seq(A)] : Good(f, m)
  BY <1>4
<1>6. m # 0
  <2>1. SUFFICES ASSUME m = 0 PROVE \E f \in [1..n -> Seq(A)] : Good(f, m)
    BY <1>5
  <2>2. [i \in 1..n |-> <<>>] \in [1..n -> Seq(A)]
    OBVIOUS
  <2>3. \A i \in 1..n : ~(i <= m)
    BY <1>1, <2>1
  <2>4. Good([i \in 1..n |-> <<>>], m)
    BY <2>3
  <2> HIDE DEF Good
  <2>5. QED BY <2>2, <2>4
<1>7. PICK g \in [1..n -> Seq(A)] : Good(g, m - 1)
  <2>1. m - 1 \in Nat /\ m - 1 < m /\ m - 1 <= n
    BY <1>1, <1>5, <1>6
  <2>2. m - 1 \notin Bad
    <3> HIDE DEF Bad
    <3>1. QED BY <1>4, <2>1
  <2>3. QED BY <2>1, <2>2
<1> HIDE DEF Bad
<1> DEFINE h == [i \in 1..n |-> E(g, i)]
<1>8. h \in [1..n -> Seq(A)]
  BY <1>2
<1>9. ASSUME NEW i \in 1..n, i <= m PROVE h[i] = E(h, i)
  <2>1. CASE i = 1
    BY <2>1
  <2>2. CASE i # 1
    <3>1. i - 1 \in 1..n /\ i - 1 <= m - 1
      BY <1>1, <1>5, <1>9, <2>2
    <3>2. g[i - 1] = E(g, i - 1) /\ h[i - 1] = E(g, i - 1)
      BY <1>7, <3>1
    <3>3. QED BY <2>2, <3>2
  <2>3. QED BY <2>1, <2>2
<1>10. Good(h, m)
  BY <1>9
<1> HIDE DEF h
<1>11. QED BY <1>5, <1>8, <1>10

(* One list more leaves the earlier ones as they were.                      *)
LEMMA FlattenAgrees ==
  ASSUME NEW A, NEW ss \in Seq(Seq(A)), NEW l \in Seq(A), NEW f, NEW g,
         Flattens(f, ss), Flattens(g, Append(ss, l))
  PROVE  \A i \in 1..Len(ss) : g[i] = f[i]
<1> DEFINE n == Len(ss)
           Bad == {i \in 1..n : g[i] # f[i]}
<1>1. n \in Nat /\ Len(Append(ss, l)) = n + 1 /\ (\A i \in 1..n : Append(ss, l)[i] = ss[i])
  OBVIOUS
<1>2. SUFFICES ASSUME Bad # {} PROVE FALSE
  OBVIOUS
<1>3. PICK i \in Bad : i \in Nat /\ \A k \in Nat : k < i => k \notin Bad
  <2>1. Bad \subseteq Nat
    OBVIOUS
  <2> HIDE DEF Bad
  <2>2. QED BY <1>2, <2>1, LeastOf
<1>4. i \in 1..n /\ i \in 1..(n + 1) /\ g[i] # f[i]
  BY <1>1, <1>3
<1>5. f[i] = IF i = 1 THEN ss[i] ELSE f[i - 1] \o ss[i]
  BY <1>4, Zenon DEF Flattens
<1>6. g[i] = IF i = 1 THEN ss[i] ELSE g[i - 1] \o ss[i]
  <2>1. g[i] = IF i = 1 THEN Append(ss, l)[i] ELSE g[i - 1] \o Append(ss, l)[i]
    BY <1>1, <1>4, Zenon DEF Flattens
  <2>2. QED BY <1>1, <1>4, <2>1
<1>7. i # 1 => g[i - 1] = f[i - 1]
  <2>1. SUFFICES ASSUME i # 1 PROVE g[i - 1] = f[i - 1]
    OBVIOUS
  <2>2. i - 1 \in 1..n /\ i - 1 \in Nat /\ i - 1 < i
    BY <1>1, <1>4, <2>1
  <2>3. i - 1 \notin Bad
    <3> HIDE DEF Bad
    <3>1. QED BY <1>3, <2>2
  <2>4. QED BY <2>2, <2>3
<1>8. QED BY <1>4, <1>5, <1>6, <1>7

LEMMA FlattenAppend ==
  ASSUME NEW A, NEW ss \in Seq(Seq(A)), NEW l \in Seq(A)
  PROVE  /\ FlattenSeq(ss) \in Seq(A)
         /\ FlattenSeq(Append(ss, l)) = FlattenSeq(ss) \o l
<1> DEFINE n == Len(ss)
           rr == Append(ss, l)
           f == CHOOSE h : Flattens(h, ss)
           g == CHOOSE h : Flattens(h, rr)
<1>1. n \in Nat /\ Len(rr) = n + 1 /\ rr \in Seq(Seq(A)) /\ rr[n + 1] = l
  OBVIOUS
<1>2. Flattens(f, ss) /\ Flattens(g, rr)
  <2>1. (\E h : Flattens(h, ss)) /\ (\E h : Flattens(h, rr))
    <3> HIDE DEF rr
    <3>1. QED BY <1>1, FlattenExists
  <2>2. QED BY <2>1, Zenon
<1>3. n # 0 => FlattenSeq(ss) = f[n]
  BY FlattenIs
<1>4. FlattenSeq(rr) = g[n + 1]
  <2>1. Len(rr) # 0
    BY <1>1
  <2> HIDE DEF rr
  <2>2. QED BY <1>1, <2>1, FlattenIs
<1>5. n = 0 => FlattenSeq(ss) = <<>> /\ ss = <<>>
  BY FlattenIs
<1>6. n # 0 => f[n] \in Seq(A)
  <2>1. PICK h \in [1..n -> Seq(A)] : Flattens(h, ss)
    BY FlattenExists
  <2>2. PICK hh \in [1..(n + 1) -> Seq(A)] : Flattens(hh, rr)
    <3> HIDE DEF rr
    <3>1. QED BY <1>1, FlattenExists
  <2>3. \A i \in 1..n : hh[i] = f[i]
    <3> HIDE DEF f
    <3>1. ss \in Seq(Seq(A)) /\ l \in Seq(A) /\ Flattens(f, ss) /\ Flattens(hh, Append(ss, l))
      BY <1>2, <2>2
    <3>2. QED BY ONLY <3>1, FlattenAgrees
  <2>4. n # 0 => n \in 1..n /\ n \in 1..(n + 1)
    BY <1>1
  <2> HIDE DEF f
  <2>5. QED BY <2>2, <2>3, <2>4
<1>7. \A i \in 1..n : g[i] = f[i]
  <2> HIDE DEF f, g
  <2>1. QED BY <1>2, FlattenAgrees
<1>8. g[n + 1] = IF n = 0 THEN l ELSE g[n] \o l
  <2> HIDE DEF g, rr
  <2>1. g[n + 1] = IF n + 1 = 1 THEN rr[n + 1] ELSE g[(n + 1) - 1] \o rr[n + 1]
    <3>1. n + 1 \in 1..Len(rr)
      BY <1>1
    <3>2. QED BY <1>2, <3>1, Zenon DEF Flattens
  <2>2. QED BY <1>1, <2>1
<1> HIDE DEF f, g, rr
<1>9. FlattenSeq(ss) \in Seq(A)
  BY <1>3, <1>5, <1>6
<1>10. FlattenSeq(rr) = FlattenSeq(ss) \o l
  <2>1. CASE n = 0
    BY <1>4, <1>5, <1>8, <2>1
  <2>2. CASE n # 0
    <3>1. n \in 1..n
      BY <1>1, <2>2
    <3>2. QED BY <1>3, <1>4, <1>7, <1>8, <2>2, <3>1
  <2>3. QED BY <2>1, <2>2
<1>11. QED BY <1>9, <1>10 DEF rr

-----------------------------------------------------------------------------
(* A list woven from others has each of their elements once, in their order.*)

TakenSoFar(h) == UNION {{p} \X (1..h[p]) : p \in Partitions}

Weaves(lists, X, out, w) ==
  /\ w \in [1..Len(out) -> X]
  /\ \A x \in X : \E k \in 1..Len(out) : w[k] = x
  /\ \A k \in 1..Len(out) : out[k] = lists[w[k][1]][w[k][2]]
  /\ \A j, k \in 1..Len(out) : j < k => w[j] # w[k] /\ (w[j][1] = w[k][1] => w[j][2] < w[k][2])

Woven(lists, out) == \E w : Weaves(lists, TakenSoFar([p \in Partitions |-> Len(lists[p])]), out, w)

LEMMA TakenIs ==
  ASSUME NEW h
  PROVE  /\ \A p \in Partitions : \A j \in 1..h[p] : <<p, j>> \in TakenSoFar(h)
         /\ \A x \in TakenSoFar(h) : x[1] \in Partitions /\ x[2] \in 1..h[x[1]]
                                       /\ x = <<x[1], x[2]>>
BY DEF TakenSoFar

LEMMA WeaveMore ==
  ASSUME NEW A, NEW lists, NEW out \in Seq(A), NEW l \in Seq(A), NEW X, NEW Y, NEW w, NEW v,
         Weaves(lists, X, out, w), Weaves(lists, Y, l, v),
         \A x \in X, y \in Y : x # y /\ (x[1] = y[1] => x[2] < y[2])
  PROVE  \E u : Weaves(lists, X \union Y, out \o l, u)
<1> DEFINE n == Len(out)
           m == Len(l)
           u == [k \in 1..(n + m) |-> IF k <= n THEN w[k] ELSE v[k - n]]
<1>1. n \in Nat /\ m \in Nat /\ Len(out \o l) = n + m
  OBVIOUS
<1>2. \A k \in 1..n : k \in 1..(n + m) /\ u[k] = w[k] /\ (out \o l)[k] = out[k] /\ w[k] \in X
  BY DEF Weaves
<1>3. \A k \in 1..m : k + n \in 1..(n + m) /\ u[k + n] = v[k]
                        /\ (out \o l)[k + n] = l[k] /\ v[k] \in Y
  <2>1. ASSUME NEW k \in 1..m
        PROVE  k + n \in 1..(n + m) /\ ~(k + n <= n) /\ (k + n) - n = k
    BY <1>1
  <2>2. \A k \in 1..m : (out \o l)[k + n] = l[k]
    BY <1>1
  <2>3. QED BY <2>1, <2>2 DEF Weaves
<1>4. \A k \in 1..(n + m) : k \in 1..n \/ (k - n \in 1..m /\ k = (k - n) + n)
  BY <1>1
<1> HIDE DEF u
<1>5. u \in [1..(n + m) -> X \union Y]
  <2>1. u = [k \in 1..(n + m) |-> u[k]]
    BY DEF u
  <2>2. \A k \in 1..(n + m) : u[k] \in X \union Y
    <3> HIDE DEF n, m
    <3>1. QED BY <1>2, <1>3, <1>4
  <2>3. QED BY <2>1, <2>2
<1>6. \A x \in X \union Y : \E k \in 1..(n + m) : u[k] = x
  <2>1. \A x \in X : \E k \in 1..n : w[k] = x
    BY DEF Weaves
  <2>2. \A y \in Y : \E k \in 1..m : v[k] = y
    BY DEF Weaves
  <2> HIDE DEF n, m
  <2>3. QED BY SMTT(30), <1>2, <1>3, <2>1, <2>2
<1>7. \A k \in 1..(n + m) : (out \o l)[k] = lists[u[k][1]][u[k][2]]
  <2>1. \A k \in 1..n : out[k] = lists[w[k][1]][w[k][2]]
    BY DEF Weaves
  <2>2. \A k \in 1..m : l[k] = lists[v[k][1]][v[k][2]]
    BY DEF Weaves
  <2>3. ASSUME NEW k \in 1..(n + m) PROVE (out \o l)[k] = lists[u[k][1]][u[k][2]]
    <3>1. CASE k \in 1..n
      BY <1>2, <2>1, <3>1
    <3>2. CASE k - n \in 1..m /\ k = (k - n) + n
      BY <1>3, <2>2, <3>2
    <3>3. QED BY <1>4, <3>1, <3>2
  <2>4. QED BY <2>3
<1>a. \A k \in 1..(n + m) : k - n \in 1..m => u[k] = v[k - n] /\ u[k] \in Y
  <2>1. ASSUME NEW k \in 1..(n + m), k - n \in 1..m PROVE u[k] = v[k - n] /\ u[k] \in Y
    <3>1. u[(k - n) + n] = v[k - n] /\ v[k - n] \in Y
      BY <1>3, <2>1
    <3>2. (k - n) + n = k
      BY <1>1
    <3>3. QED BY <3>1, <3>2
  <2>2. QED BY <2>1
<1>8. ASSUME NEW j \in 1..(n + m), NEW k \in 1..(n + m), j < k
      PROVE  u[j] # u[k] /\ (u[j][1] = u[k][1] => u[j][2] < u[k][2])
  <2>1. CASE k \in 1..n
    <3>1. j \in 1..n
      BY <1>8, <2>1
    <3>2. QED BY <1>2, <1>8, <2>1, <3>1 DEF Weaves
  <2>2. CASE j \in 1..n /\ k - n \in 1..m
    <3>1. u[j] \in X /\ u[k] \in Y
      BY <1>2, <1>a, <2>2
    <3>2. QED BY <3>1
  <2>3. CASE j - n \in 1..m /\ k - n \in 1..m
    <3>1. u[j] = v[j - n] /\ u[k] = v[k - n]
      BY <1>a, <2>3
    <3>2. j - n < k - n
      BY <1>1, <1>8
    <3> DEFINE a == j - n
               b == k - n
    <3>3. a \in 1..m /\ b \in 1..m /\ a < b /\ u[j] = v[a] /\ u[k] = v[b]
      BY <2>3, <3>1, <3>2
    <3> HIDE DEF a, b
    <3>4. QED BY <3>3 DEF Weaves
  <2>4. QED
    <3>1. j \in 1..n \/ j - n \in 1..m
      BY <1>4
    <3>2. k \in 1..n \/ k - n \in 1..m
      BY <1>4
    <3>3. j - n \in 1..m => ~(k \in 1..n)
      BY <1>1, <1>8
    <3>4. QED BY <2>1, <2>2, <2>3, <3>1, <3>2, <3>3
<1>9. Weaves(lists, X \union Y, out \o l, u)
  <2> DEFINE all == out \o l
  <2>1. Len(all) = n + m /\ \A k \in 1..(n + m) : all[k] = lists[u[k][1]][u[k][2]]
    BY <1>1, <1>7
  <2> HIDE DEF all, n, m
  <2>2. Weaves(lists, X \union Y, all, u)
    BY <1>5, <1>6, <1>8, <2>1 DEF Weaves
  <2>3. QED BY <2>2 DEF all
<1>10. QED BY <1>9

LEMMA TakenMore ==
  ASSUME NEW g, NEW h, NEW i \in Partitions, NEW S,
         \A p \in Partitions : p # i => h[p] = g[p],
         \A k : k \in 1..h[i] <=> k \in 1..g[i] \/ k \in S
  PROVE  \A x : x \in TakenSoFar(h) <=> x \in TakenSoFar(g) \/ x \in {i} \X S
<1>1. ASSUME NEW x \in TakenSoFar(h) PROVE x \in TakenSoFar(g) \union ({i} \X S)
  <2>1. x[1] \in Partitions /\ x[2] \in 1..h[x[1]] /\ x = <<x[1], x[2]>>
    BY TakenIs
  <2>2. CASE x[1] = i
    <3>1. x[2] \in 1..g[i] \/ x[2] \in S
      BY <2>1, <2>2
    <3>2. QED BY <2>1, <2>2, <3>1, TakenIs
  <2>3. CASE x[1] # i
    <3>1. x[2] \in 1..g[x[1]]
      BY <2>1, <2>3
    <3>2. QED BY <2>1, <3>1, TakenIs
  <2>4. QED BY <2>2, <2>3
<1>2. ASSUME NEW x \in TakenSoFar(g) PROVE x \in TakenSoFar(h)
  <2>1. x[1] \in Partitions /\ x[2] \in 1..g[x[1]] /\ x = <<x[1], x[2]>>
    BY TakenIs
  <2>2. x[2] \in 1..h[x[1]]
    BY <2>1
  <2>3. QED BY <2>1, <2>2, TakenIs
<1>3. ASSUME NEW x \in {i} \X S PROVE x \in TakenSoFar(h)
  <2>1. x = <<i, x[2]>> /\ x[2] \in 1..h[i]
    OBVIOUS
  <2>2. QED BY <2>1, TakenIs
<1>4. QED BY <1>1, <1>2, <1>3

LEMMA WeaveCounts ==
  ASSUME NEW lists, NEW X, NEW out, NEW w, Len(out) \in Nat, Weaves(lists, X, out, w)
  PROVE  IsFiniteSet(X) /\ Cardinality(X) = Len(out)
<1> DEFINE n == Len(out)
<1>1. w \in Bijection(1..n, X)
  <2>1. \A j, k \in 1..n : w[j] = w[k] => j = k
    <3>1. \A j, k \in 1..n : j < k \/ k < j \/ j = k
      OBVIOUS
    <3>2. QED BY <3>1 DEF Weaves
  <2> HIDE DEF n
  <2>2. w \in Injection(1..n, X)
    BY <2>1 DEF Weaves, Injection, IsInjective, n
  <2>3. w \in Surjection(1..n, X)
    BY DEF Weaves, Surjection, n
  <2>4. QED BY <2>2, <2>3 DEF Bijection
<1>2. IsFiniteSet(1..n) /\ Cardinality(1..n) = n
  <2>1. n \in Nat
    OBVIOUS
  <2> HIDE DEF n
  <2>2. QED BY SMTT(30), <2>1, FS_Interval
<1>3. ExistsBijection(1..n, X)
  BY <1>1 DEF ExistsBijection
<1>4. QED BY <1>2, <1>3, FS_Bijection

(* A whole list, as it is.                                                  *)
LEMMA WeaveList ==
  ASSUME NEW A, NEW lists, NEW p \in Partitions, lists[p] \in Seq(A)
  PROVE  Weaves(lists, {p} \X (1..Len(lists[p])), lists[p], [k \in 1..Len(lists[p]) |-> <<p, k>>])
<1> DEFINE l == lists[p]
           n == Len(l)
           w == [k \in 1..n |-> <<p, k>>]
<1>1. n \in Nat
  OBVIOUS
<1>2. \A k \in 1..n : w[k] = <<p, k>> /\ w[k][1] = p /\ w[k][2] = k
  OBVIOUS
<1>3. w \in [1..n -> {p} \X (1..n)]
  OBVIOUS
<1>4. \A x \in {p} \X (1..n) : x[2] \in 1..n /\ w[x[2]] = x
  OBVIOUS
<1> HIDE DEF w
<1>5. \A k \in 1..n : l[k] = lists[w[k][1]][w[k][2]]
  BY <1>2
<1>6. \A j, k \in 1..n : j < k => w[j] # w[k] /\ (w[j][1] = w[k][1] => w[j][2] < w[k][2])
  BY <1>1, <1>2
<1>7. Weaves(lists, {p} \X (1..n), l, w)
  <2> HIDE DEF l, n
  <2>1. Weaves(lists, {p} \X (1..n), l, w)
    BY <1>3, <1>4, <1>5, <1>6 DEF Weaves, n
  <2>2. QED BY <2>1
<1>8. QED BY <1>7 DEF w

LEMMA FlattenWoven ==
  ASSUME LiveWorldAssumption, NEW A, NEW lists \in [Partitions -> Seq(A)]
  PROVE  /\ FlattenSeq(lists) \in Seq(A) /\ Len(FlattenSeq(lists)) \in Nat
         /\ Woven(lists, FlattenSeq(lists))
<1>1. P \in Nat /\ P # 0 /\ Partitions = 1..P /\ lists \in Seq(Seq(A)) /\ Len(lists) = P
  BY DEF LiveWorldAssumption, Partitions
<1> DEFINE f == CHOOSE h : Flattens(h, lists)
           Upto(i) == [p \in Partitions |-> IF p <= i THEN Len(lists[p]) ELSE 0]
           Good(i) == f[i] \in Seq(A) /\ \E w : Weaves(lists, TakenSoFar(Upto(i)), f[i], w)
           Bad == {i \in 1..P : ~Good(i)}
<1>2. Flattens(f, lists)
  <2>1. \E h : Flattens(h, lists)
    BY <1>1, FlattenExists
  <2>2. QED BY <2>1, Zenon
<1>3. FlattenSeq(lists) = f[P]
  BY <1>1, FlattenIs
<1> HIDE DEF f
<1>4. \A p \in Partitions : lists[p] \in Seq(A) /\ Len(lists[p]) \in Nat
  OBVIOUS
<1>5. Bad = {}
  <2>1. SUFFICES ASSUME Bad # {} PROVE FALSE
    OBVIOUS
  <2>2. PICK i \in Bad : i \in Nat /\ \A k \in Nat : k < i => k \notin Bad
    <3>1. Bad \subseteq Nat
      OBVIOUS
    <3> HIDE DEF Bad
    <3>2. QED BY <2>1, <3>1, LeastOf
  <2>3. i \in 1..P /\ ~Good(i) /\ i \in Partitions
    BY <1>1, <2>2
  <2>4. f[i] = IF i = 1 THEN lists[i] ELSE f[i - 1] \o lists[i]
    BY <1>1, <1>2, <2>3, Zenon DEF Flattens
  <2> DEFINE Y == {i} \X (1..Len(lists[i]))
             v == [k \in 1..Len(lists[i]) |-> <<i, k>>]
  <2>5. Weaves(lists, Y, lists[i], v)
    BY <1>4, <2>3, WeaveList
  <2>6. CASE i = 1
    <3>1. TakenSoFar(Upto(i)) = Y
      <4>1. \A p \in Partitions : Upto(i)[p] = IF p = i THEN Len(lists[i]) ELSE 0
        BY <1>1, <2>6
      <4> HIDE DEF Upto
      <4>2. QED BY SMTT(30), <1>4, <2>3, <4>1 DEF TakenSoFar
    <3> HIDE DEF Upto, v, Y
    <3>2. QED BY <1>4, <2>3, <2>4, <2>5, <2>6, <3>1
  <2>7. CASE i # 1
    <3>1. i - 1 \in 1..P /\ i - 1 \in Nat /\ i - 1 < i /\ i - 1 \notin Bad
      <4>1. i - 1 \in 1..P /\ i - 1 \in Nat /\ i - 1 < i
        BY <1>1, <2>3, <2>7
      <4> HIDE DEF Bad
      <4>2. QED BY <2>2, <4>1
    <3>2. Good(i - 1)
      BY <3>1
    <3> DEFINE j == i - 1
               X == TakenSoFar(Upto(j))
    <3>3. PICK w : Weaves(lists, X, f[j], w)
      BY <3>2
    <3>4. TakenSoFar(Upto(i)) = X \union Y
      <4>1. \A p \in Partitions : /\ p <= i <=> (p = i \/ p <= j)
                                  /\ ~(i <= j)
        BY <1>1, <2>3
      <4>2. /\ \A p \in Partitions : p # i => Upto(i)[p] = Upto(j)[p]
            /\ Upto(i)[i] = Len(lists[i]) /\ Upto(j)[i] = 0
        BY <1>1, <2>3, <4>1
      <4> DEFINE h == Upto(i)
                 g == Upto(j)
                 S == 1..Len(lists[i])
      <4>3. \A k : k \in 1..h[i] <=> k \in 1..g[i] \/ k \in S
        <5>1. 1..0 = {} /\ 1..h[i] = S /\ g[i] = 0
          BY <4>2
        <5> HIDE DEF h, g, S
        <5>2. QED BY <5>1
      <4>a. i \in Partitions
        BY <2>3
      <4>4. \A p \in Partitions : p # i => h[p] = g[p]
        BY <4>2
      <4> HIDE DEF h, g, S
      <4>5. \A x : x \in TakenSoFar(h) <=> x \in TakenSoFar(g) \/ x \in {i} \X S
        <5>1. PICK hh, gg, ss : hh = h /\ gg = g /\ ss = S
          OBVIOUS
        <5>2. (\A p \in Partitions : p # i => hh[p] = gg[p])
              /\ \A k : k \in 1..hh[i] <=> k \in 1..gg[i] \/ k \in ss
          BY <5>1, <4>3, <4>4
        <5>3. \A x : x \in TakenSoFar(hh) <=> x \in TakenSoFar(gg) \/ x \in {i} \X ss
          BY <5>2, <4>a, TakenMore
        <5>4. QED BY <5>1, <5>3
      <4>6. QED BY <4>5 DEF h, g, S
    <3>5. \A x \in X, y \in Y : x[1] # y[1]
      <4>1. \A x \in X : x[1] \in Partitions /\ x[2] \in 1..Upto(j)[x[1]]
        <5> HIDE DEF Upto, j
        <5>1. QED BY TakenIs
      <4>2. Upto(j)[i] = 0
        BY <1>1, <2>3
      <4>3. \A y \in Y : y[1] = i
        OBVIOUS
      <4> HIDE DEF Upto, j, X, Y
      <4>4. ASSUME NEW x \in X, NEW y \in Y, x[1] = y[1] PROVE FALSE
        <5>1. x[1] = i /\ x[2] \in 1..Upto(j)[x[1]]
          BY <4>1, <4>3, <4>4
        <5>2. x[2] \in 1..0
          BY <4>2, <5>1
        <5>3. QED BY <5>2
      <4>5. QED BY <4>4
    <3>6. f[j] \in Seq(A) /\ f[i] = f[j] \o lists[i]
      BY <2>4, <2>7, <3>2
    <3> HIDE DEF j, X, Y, v, Upto
    <3>7. \E u : Weaves(lists, X \union Y, f[j] \o lists[i], u)
      BY <1>4, <2>3, <2>5, <3>3, <3>5, <3>6, WeaveMore
    <3>8. Good(i)
      BY <1>4, <2>3, <3>4, <3>6, <3>7
    <3>9. QED BY <2>3, <3>8
  <2>8. QED BY <2>6, <2>7
<1>6. P \in 1..P /\ Good(P)
  <2>1. P \in 1..P
    BY <1>1
  <2> HIDE DEF Good
  <2>2. QED BY <1>5, <2>1
<1>7. Upto(P) = [p \in Partitions |-> Len(lists[p])]
  BY <1>1
<1>8. PICK w : Weaves(lists, TakenSoFar(Upto(P)), f[P], w)
  BY <1>6
<1>9. Weaves(lists, TakenSoFar([p \in Partitions |-> Len(lists[p])]), FlattenSeq(lists), w)
  <2> DEFINE full == [p \in Partitions |-> Len(lists[p])]
  <2>1. Upto(P) = full
    BY <1>7
  <2> HIDE DEF Upto, full
  <2>2. Weaves(lists, TakenSoFar(full), FlattenSeq(lists), w)
    BY <1>3, <1>8, <2>1
  <2>3. QED BY <2>2 DEF full
<1>10. f[P] \in Seq(A)
  BY <1>6
<1>11. Woven(lists, FlattenSeq(lists))
  BY <1>9, Zenon DEF Woven
<1>12. QED BY <1>3, <1>10, <1>11

-----------------------------------------------------------------------------
(* The merge takes each element once, in the order of its partition.        *)

Merging(lists, A, i, acc) ==
  /\ acc = [heads |-> acc.heads, out |-> acc.out]
  /\ acc.heads \in [Partitions -> Nat \ {0}]
  /\ \A p \in Partitions : acc.heads[p] <= Len(lists[p]) + 1
  /\ acc.out \in Seq(A) /\ Len(acc.out) = i
  /\ \E w : Weaves(lists, TakenSoFar([p \in Partitions |-> acc.heads[p] - 1]), acc.out, w)

MergeFrom(lists) == [heads |-> [p \in DOMAIN lists |-> 1], out |-> <<>>]

Merges(lists, n, g) ==
  g = [i \in 0..n |-> IF i = 0 THEN MergeFrom(lists) ELSE MergeStep(lists, g[i - 1])]

LEMMA MergeIs ==
  ASSUME NEW lists
  PROVE  LET n == Len(FlattenSeq(lists))
         IN  MergeByDeliveredAt(lists) = (CHOOSE g : Merges(lists, n, g))[n].out
BY Zenon DEF MergeByDeliveredAt, Merges, MergeFrom

LEMMA MergeExists ==
  ASSUME NEW lists, NEW n \in Nat
  PROVE  \E g : Merges(lists, n, g)
<1> DEFINE E(f, i) == IF i = 0 THEN MergeFrom(lists) ELSE MergeStep(lists, f[i - 1])
           Good(f, m) == \A i \in 0..n : i <= m => f[i] = E(f, i)
           Bad == {m \in Nat : ~\E f : Good(f, m)}
<1>1. SUFFICES ASSUME Bad # {} PROVE FALSE
  <2>1. Bad = {} => \E f : Good(f, n)
    <3> HIDE DEF Good
    <3>1. QED OBVIOUS
  <2>2. ASSUME NEW f, Good(f, n) PROVE \E g : Merges(lists, n, g)
    <3>1. \A i \in 0..n : i <= n
      OBVIOUS
    <3>2. \A i \in 0..n : f[i] = E(f, i)
      <4> HIDE DEF E
      <4>1. QED BY <2>2, <3>1
    <3> DEFINE g == [i \in 0..n |-> f[i]]
    <3>3. \A i \in 0..n : g[i] = E(g, i)
      <4>1. ASSUME NEW i \in 0..n PROVE E(f, i) = E(g, i)
        <5>1. i = 0 \/ i - 1 \in 0..n
          OBVIOUS
        <5>2. QED BY <5>1
      <4> HIDE DEF E
      <4>2. QED BY <3>2, <4>1
    <3>4. g = [i \in 0..n |-> E(g, i)]
      <4>1. g = [i \in 0..n |-> g[i]]
        OBVIOUS
      <4>2. [i \in 0..n |-> g[i]] = [i \in 0..n |-> E(g, i)]
        <5> HIDE DEF g, E
        <5>1. QED BY <3>3
      <4>3. QED BY <4>1, <4>2
    <3> HIDE DEF g
    <3>5. Merges(lists, n, g)
      BY <3>4, Zenon DEF Merges
    <3>6. QED BY <3>5
  <2> HIDE DEF Bad, Good
  <2>3. QED BY <2>1, <2>2
<1>2. PICK m \in Bad : m \in Nat /\ \A k \in Nat : k < m => k \notin Bad
  <2>1. Bad \subseteq Nat
    OBVIOUS
  <2> HIDE DEF Bad
  <2>2. QED BY <1>1, <2>1, LeastOf
<1>3. m \in Nat /\ ~\E f : Good(f, m)
  <2> HIDE DEF Good
  <2>1. QED BY <1>2
<1>4. m # 0
  <2>1. SUFFICES ASSUME m = 0 PROVE \E f : Good(f, m)
    BY <1>3
  <2> DEFINE f == [i \in 0..n |-> MergeFrom(lists)]
  <2>2. \A i \in 0..n : i <= m => i = 0
    BY <2>1
  <2>3. \A i \in 0..n : i = 0 => f[i] = E(f, i)
    OBVIOUS
  <2>4. Good(f, m)
    <3> HIDE DEF f, E
    <3>1. QED BY <2>2, <2>3
  <2> HIDE DEF f, Good
  <2>5. QED BY <2>4
<1>5. PICK f : Good(f, m - 1)
  <2>1. m - 1 \in Nat /\ m - 1 < m
    BY <1>3, <1>4
  <2>2. m - 1 \notin Bad
    <3> HIDE DEF Bad
    <3>1. QED BY <1>2, <2>1
  <2> HIDE DEF Good
  <2>3. QED BY <2>1, <2>2
<1> HIDE DEF Bad
<1> DEFINE h == [i \in 0..n |-> E(f, i)]
<1>6. ASSUME NEW i \in 0..n, i <= m PROVE h[i] = E(h, i)
  <2>1. CASE i = 0
    BY <2>1
  <2>2. CASE i # 0
    <3>1. i - 1 \in 0..n /\ i - 1 <= m - 1
      BY <1>3, <1>6, <2>2
    <3>2. f[i - 1] = E(f, i - 1) /\ h[i - 1] = E(f, i - 1)
      <4> HIDE DEF E
      <4>1. QED BY <1>5, <3>1
    <3>3. h[i] = E(f, i)
      OBVIOUS
    <3>4. E(f, i) = MergeStep(lists, f[i - 1]) /\ E(h, i) = MergeStep(lists, h[i - 1])
      BY <2>2
    <3> HIDE DEF h, E
    <3>5. QED BY <3>2, <3>3, <3>4
  <2>3. QED BY <2>1, <2>2
<1>7. Good(h, m)
  BY <1>6
<1> HIDE DEF h, Good
<1>8. QED BY <1>3, <1>7

HeadsLeft(lists, acc) == {p \in Partitions : acc.heads[p] <= Len(lists[p])}

LEMMA HeadMoves ==
  ASSUME NEW lists, NEW h \in [Partitions -> Nat \ {0}], NEW b \in Partitions, NEW g,
         \A p \in Partitions : Len(lists[p]) \in Nat,
         \A p \in Partitions : h[p] <= Len(lists[p]) + 1,
         h[b] \in 1..Len(lists[b]), g = [h EXCEPT ![b] = @ + 1]
  PROVE  g \in [Partitions -> Nat \ {0}] /\ \A p \in Partitions : g[p] <= Len(lists[p]) + 1
<1>1. h[b] + 1 \in Nat \ {0} /\ h[b] + 1 <= Len(lists[b]) + 1
  OBVIOUS
<1>2. g[b] = h[b] + 1 /\ \A p \in Partitions : p # b => g[p] = h[p]
  OBVIOUS
<1>3. QED BY <1>1, <1>2

LEMMA MergeTakes ==
  ASSUME LiveWorldAssumption, NEW A, NEW lists \in [Partitions -> Seq(A)],
         \A x \in A : x.at \in Nat,
         NEW i \in Nat, NEW acc, Merging(lists, A, i, acc), HeadsLeft(lists, acc) # {}
  PROVE  Merging(lists, A, i + 1, MergeStep(lists, acc))
<1> DEFINE left == HeadsLeft(lists, acc)
           heads == acc.heads
           Best(p) == \A q \in left : \/ Head1(lists, heads, p) < Head1(lists, heads, q)
                                      \/ Head1(lists, heads, p) = Head1(lists, heads, q) /\ p <= q
           best == CHOOSE p \in left : Best(p)
           e == lists[best][heads[best]]
           k == heads[best]
           X == TakenSoFar([p \in Partitions |-> heads[p] - 1])
           Y == {best} \X {k}
           w1 == [n \in 1..1 |-> <<best, k>>]
<1>0. /\ heads \in [Partitions -> Nat \ {0}]
      /\ \A p \in Partitions : heads[p] <= Len(lists[p]) + 1
      /\ acc.out \in Seq(A) /\ Len(acc.out) = i /\ Partitions \subseteq Nat
      /\ DOMAIN lists = Partitions
      /\ acc = [heads |-> heads, out |-> acc.out]
  BY DEF Merging, Partitions
<1>1. \A p \in left : p \in Nat /\ p \in Partitions /\ Head1(lists, heads, p) \in Nat
                      /\ heads[p] \in 1..Len(lists[p]) /\ lists[p][heads[p]] \in A
  BY SMTT(30), <1>0 DEF HeadsLeft, Head1
<1>2. \E p \in left : Best(p)
  <2> DEFINE Ats == {Head1(lists, heads, p) : p \in left}
  <2>1. PICK a \in Ats : a \in Nat /\ \A m \in Nat : m < a => m \notin Ats
    <3>1. Ats \subseteq Nat /\ Ats # {}
      <4> HIDE DEF left
      <4>1. QED BY <1>1 DEF left
    <3> HIDE DEF Ats
    <3>2. QED BY <3>1, LeastOf
  <2> DEFINE Ps == {p \in left : Head1(lists, heads, p) = a}
  <2>2. PICK p \in Ps : p \in Nat /\ \A m \in Nat : m < p => m \notin Ps
    <3>1. Ps \subseteq Nat /\ Ps # {}
      <4> HIDE DEF left
      <4>1. QED BY <1>1, <2>1
    <3> HIDE DEF Ps
    <3>2. QED BY <3>1, LeastOf
  <2>3. ASSUME NEW q \in left
        PROVE  \/ Head1(lists, heads, p) < Head1(lists, heads, q)
               \/ Head1(lists, heads, p) = Head1(lists, heads, q) /\ p <= q
    <3>1. Head1(lists, heads, q) \in Ats /\ q \in Nat /\ Head1(lists, heads, q) \in Nat
      BY <1>1
    <3>2. ~(Head1(lists, heads, q) < a)
      <4> HIDE DEF Ats
      <4>1. QED BY <2>1, <3>1
    <3>3. Head1(lists, heads, q) = a => ~(q < p)
      <4>1. Head1(lists, heads, q) = a => q \in Ps
        OBVIOUS
      <4> HIDE DEF Ps
      <4>2. QED BY <2>2, <3>1, <4>1
    <3>4. Head1(lists, heads, p) = a
      BY <2>2
    <3>5. QED BY <2>1, <2>2, <3>1, <3>2, <3>3, <3>4
  <2>4. p \in left
    BY <2>2
  <2> HIDE DEF left
  <2>5. QED BY <2>3, <2>4
<1>3. best \in left
  <2> HIDE DEF left, Best
  <2>1. QED BY <1>2
<1>4. MergeStep(lists, acc) = [heads |-> [heads EXCEPT ![best] = @ + 1], out |-> Append(acc.out, e)]
  <2>1. {p \in DOMAIN lists : heads[p] <= Len(lists[p])} = left
    BY <1>0 DEF HeadsLeft
  <2>2. QED BY <2>1, Zenon DEF MergeStep
<1> HIDE DEF best
<1>5. best \in Partitions /\ k \in Nat \ {0} /\ k \in 1..Len(lists[best]) /\ e \in A
  BY SMTT(30), <1>1, <1>3
<1>6. Weaves(lists, Y, <<e>>, w1)
  <2>1. Len(<<e>>) = 1 /\ <<e>>[1] = e /\ 1..1 = {1}
    OBVIOUS
  <2>2. w1 \in [1..1 -> Y] /\ w1[1] = <<best, k>> /\ \A x \in Y : x = <<best, k>>
    OBVIOUS
  <2> DEFINE one == <<e>>
  <2>3. Len(one) = 1 /\ one[1] = lists[best][k]
    BY <2>1
  <2> HIDE DEF w1, one, Y
  <2>4. 1..Len(one) = 1..1 /\ \A j, n \in 1..1 : j = 1 /\ n = 1 /\ ~(j < n)
    BY <2>3
  <2>5. \A n \in 1..1 : one[n] = lists[w1[n][1]][w1[n][2]]
    BY <2>2, <2>3, <2>4
  <2>6. \A x \in Y : \E n \in 1..1 : w1[n] = x
    BY <2>2
  <2>7. Weaves(lists, Y, one, w1)
    BY <2>2, <2>4, <2>5, <2>6 DEF Weaves
  <2>8. QED BY <2>7 DEF one
<1>7. \A x \in X : x[1] \in Partitions /\ x[2] \in 1..(heads[x[1]] - 1)
  <2> DEFINE h == [p \in Partitions |-> heads[p] - 1]
  <2>1. \A x \in TakenSoFar(h) : x[1] \in Partitions /\ x[2] \in 1..h[x[1]]
    <3> HIDE DEF h
    <3>1. QED BY TakenIs
  <2>2. QED BY <2>1
<1>8. \A x \in X, y \in Y : x # y /\ (x[1] = y[1] => x[2] < y[2])
  <2> HIDE DEF X
  <2>1. QED BY SMTT(30), <1>5, <1>7
<1>9. \E u : Weaves(lists, X \union Y, acc.out \o <<e>>, u)
  <2> DEFINE one == <<e>>
  <2>1. one \in Seq(A)
    BY <1>5
  <2>2. PICK w : Weaves(lists, X, acc.out, w)
    BY DEF Merging
  <2>3. PICK xx, yy, ll, vv, aa : xx = X /\ yy = Y /\ ll = one /\ vv = w1 /\ aa = acc.out
    OBVIOUS
  <2> HIDE DEF X, Y, one, w1, e
  <2>4. \E u : Weaves(lists, xx \union yy, aa \o ll, u)
    BY <1>0, <1>6, <1>8, <2>1, <2>2, <2>3, WeaveMore DEF one
  <2>5. QED BY <2>3, <2>4 DEF one
<1> DEFINE heads1 == [heads EXCEPT ![best] = @ + 1]
           h1 == [p \in Partitions |-> heads1[p] - 1]
<1>10. TakenSoFar(h1) = X \union Y
  <2> DEFINE h0 == [p \in Partitions |-> heads[p] - 1]
  <2>1. \A p \in Partitions : p # best => h1[p] = h0[p]
    BY <1>0
  <2>2. \A j : j \in 1..h1[best] <=> j \in 1..h0[best] \/ j \in {k}
    <3>1. h1[best] = k /\ h0[best] = k - 1
      BY <1>0, <1>5
    <3>2. QED BY SMTT(30), <1>5, <3>1
  <2>3. PICK gg, hh, ss, b : gg = h0 /\ hh = h1 /\ ss = {k} /\ b = best
    OBVIOUS
  <2> HIDE DEF h0, h1, k
  <2>4. /\ b \in Partitions /\ \A p \in Partitions : p # b => hh[p] = gg[p]
        /\ \A j : j \in 1..hh[b] <=> j \in 1..gg[b] \/ j \in ss
    BY <1>5, <2>1, <2>2, <2>3
  <2>5. \A x : x \in TakenSoFar(hh) <=> x \in TakenSoFar(gg) \/ x \in {b} \X ss
    BY <2>4, TakenMore
  <2>a. \A x : x \in TakenSoFar(h1) <=> x \in TakenSoFar(h0) \/ x \in {best} \X {k}
    BY <2>3, <2>5
  <2>6. QED BY <2>a DEF h0
<1>11. \E u : Weaves(lists, TakenSoFar(h1), Append(acc.out, e), u)
  <2>1. acc.out \o <<e>> = Append(acc.out, e)
    BY <1>0, <1>5
  <2> HIDE DEF X, Y, h1, e
  <2>2. QED BY <1>9, <1>10, <2>1
<1>12. heads1 \in [Partitions -> Nat \ {0}] /\ \A p \in Partitions : heads1[p] <= Len(lists[p]) + 1
  <2>1. PICK hh, b, g : hh = heads /\ b = best /\ g = heads1
    OBVIOUS
  <2> HIDE DEF left, e, X, Y, w1, h1
  <2>2. g = [hh EXCEPT ![b] = @ + 1]
    BY <2>1
  <2>3. \A p \in Partitions : Len(lists[p]) \in Nat
    OBVIOUS
  <2>4. hh \in [Partitions -> Nat \ {0}] /\ \A p \in Partitions : hh[p] <= Len(lists[p]) + 1
    BY <1>0, <2>1
  <2>5. b \in Partitions /\ hh[b] \in 1..Len(lists[b])
    BY <1>5, <2>1
  <2> HIDE DEF heads, heads1, k
  <2>6. g \in [Partitions -> Nat \ {0}] /\ \A p \in Partitions : g[p] <= Len(lists[p]) + 1
    BY ONLY <2>2, <2>3, <2>4, <2>5, HeadMoves
  <2>7. QED BY <2>1, <2>6
<1>13. Append(acc.out, e) \in Seq(A) /\ Len(Append(acc.out, e)) = i + 1
  BY <1>0, <1>5
<1> DEFINE next1 == [heads |-> heads1, out |-> Append(acc.out, e)]
<1>14. next1.heads = heads1 /\ next1.out = Append(acc.out, e) /\ MergeStep(lists, acc) = next1
  BY <1>4
<1>15. next1 = [heads |-> next1.heads, out |-> next1.out]
  OBVIOUS
<1> HIDE DEF heads1, next1, e
<1>16. Merging(lists, A, i + 1, next1)
  BY <1>11, <1>12, <1>13, <1>14, <1>15 DEF Merging
<1>17. QED BY <1>14, <1>16

ListLengths(lists) == [p \in Partitions |-> Len(lists[p])]

LEMMA LengthsTaken ==
  ASSUME LiveWorldAssumption, NEW A, NEW lists \in [Partitions -> Seq(A)]
  PROVE  /\ IsFiniteSet(TakenSoFar(ListLengths(lists)))
         /\ Cardinality(TakenSoFar(ListLengths(lists))) = Len(FlattenSeq(lists))
<1>1. Len(FlattenSeq(lists)) \in Nat /\ Woven(lists, FlattenSeq(lists))
  BY FlattenWoven
<1>2. PICK w : Weaves(lists, TakenSoFar(ListLengths(lists)), FlattenSeq(lists), w)
  BY <1>1, Zenon DEF Woven, ListLengths
<1>3. QED BY <1>1, <1>2, WeaveCounts, Zenon

LEMMA MergeLeft ==
  ASSUME LiveWorldAssumption, NEW A, NEW lists \in [Partitions -> Seq(A)],
         NEW i \in Nat, NEW acc, Merging(lists, A, i, acc), i < Len(FlattenSeq(lists))
  PROVE  HeadsLeft(lists, acc) # {}
<1> DEFINE h == [p \in Partitions |-> acc.heads[p] - 1]
<1>1. SUFFICES ASSUME HeadsLeft(lists, acc) = {} PROVE FALSE
  OBVIOUS
<1>2. ASSUME NEW p \in Partitions PROVE acc.heads[p] - 1 = Len(lists[p])
  <2>1. ~ (acc.heads[p] <= Len(lists[p])) /\ acc.heads[p] <= Len(lists[p]) + 1
    BY <1>1 DEF HeadsLeft, Merging
  <2>2. acc.heads[p] \in Nat /\ Len(lists[p]) \in Nat
    BY DEF Merging
  <2>3. QED BY SMTT(30), <2>1, <2>2
<1>3. h = ListLengths(lists)
  BY <1>2 DEF ListLengths
<1>4. PICK w : Weaves(lists, TakenSoFar(h), acc.out, w)
  BY DEF Merging
<1>5. Len(acc.out) = i
  BY DEF Merging
<1> HIDE DEF h
<1>6. Cardinality(TakenSoFar(h)) = i
  BY <1>4, <1>5, WeaveCounts
<1>7. QED BY SMTT(30), <1>3, <1>6, LengthsTaken

LEMMA MergeEnds ==
  ASSUME LiveWorldAssumption, NEW A, NEW lists \in [Partitions -> Seq(A)],
         NEW acc, Merging(lists, A, Len(FlattenSeq(lists)), acc)
  PROVE  acc.out \in Seq(A) /\ Woven(lists, acc.out)
<1> DEFINE h == [p \in Partitions |-> acc.heads[p] - 1]
<1>1. Len(FlattenSeq(lists)) \in Nat
  BY FlattenWoven
<1>2. PICK w : Weaves(lists, TakenSoFar(h), acc.out, w)
  BY DEF Merging
<1>3. Len(acc.out) = Len(FlattenSeq(lists)) /\ acc.out \in Seq(A)
  BY DEF Merging
<1>4. \A p \in Partitions : h[p] \in Nat /\ h[p] <= ListLengths(lists)[p]
  <2>1. ASSUME NEW p \in Partitions PROVE h[p] \in Nat /\ h[p] <= Len(lists[p])
    <3>1. acc.heads[p] \in Nat \ {0} /\ acc.heads[p] <= Len(lists[p]) + 1 /\ Len(lists[p]) \in Nat
      BY DEF Merging
    <3>2. QED BY SMTT(30), <3>1
  <2>2. QED BY <2>1 DEF ListLengths
<1> HIDE DEF h
<1>5. \A x : x \in TakenSoFar(h) => x \in TakenSoFar(ListLengths(lists))
  <2>1. \A p \in Partitions : 1..h[p] \subseteq 1..ListLengths(lists)[p]
    <3>1. ASSUME NEW p \in Partitions PROVE 1..h[p] \subseteq 1..ListLengths(lists)[p]
      <4>1. ListLengths(lists)[p] \in Nat
        BY DEF ListLengths
      <4>2. PICK a, b : a = h[p] /\ b = ListLengths(lists)[p]
        OBVIOUS
      <4>3. a \in Nat /\ b \in Nat /\ a <= b
        BY <1>4, <4>1, <4>2
      <4>4. 1..a \subseteq 1..b
        BY <4>3
      <4>5. QED BY <4>2, <4>4, Zenon
    <3>2. QED BY <3>1
  <2>2. PICK u, v : u = h /\ v = ListLengths(lists)
    OBVIOUS
  <2>3. ASSUME NEW x \in TakenSoFar(u) PROVE x \in TakenSoFar(v)
    <3>1. x[1] \in Partitions /\ x[2] \in 1..u[x[1]] /\ x = <<x[1], x[2]>>
      BY TakenIs
    <3>2. x[2] \in 1..v[x[1]]
      BY <2>1, <2>2, <3>1
    <3>3. <<x[1], x[2]>> \in TakenSoFar(v)
      BY <3>1, <3>2, TakenIs
    <3>4. QED BY <3>1, <3>3
  <2>4. QED BY <2>2, <2>3
<1>6. Cardinality(TakenSoFar(h)) = Len(FlattenSeq(lists))
  BY <1>1, <1>2, <1>3, WeaveCounts
<1>7. TakenSoFar(h) = TakenSoFar(ListLengths(lists))
  <2>1. TakenSoFar(h) \subseteq TakenSoFar(ListLengths(lists))
    BY <1>5
  <2>2. QED BY <1>6, <2>1, LengthsTaken, FS_Subset
<1>8. Weaves(lists, TakenSoFar(ListLengths(lists)), acc.out, w)
  BY <1>2, <1>7
<1>9. Woven(lists, acc.out)
  BY <1>8, Zenon DEF Woven, ListLengths
<1>10. QED BY <1>3, <1>9

(* The merge of the partitions' lists has each of their elements once.      *)
LEMMA MergeWoven ==
  ASSUME LiveWorldAssumption, NEW A, NEW lists \in [Partitions -> Seq(A)], \A x \in A : x.at \in Nat
  PROVE  MergeByDeliveredAt(lists) \in Seq(A) /\ Woven(lists, MergeByDeliveredAt(lists))
<1> DEFINE n == Len(FlattenSeq(lists))
<1>1. n \in Nat
  BY FlattenWoven
<1>2. PICK g : Merges(lists, n, g) /\ MergeByDeliveredAt(lists) = g[n].out
  <2>1. \E g : Merges(lists, n, g)
    BY <1>1, MergeExists
  <2>2. Merges(lists, n, CHOOSE g : Merges(lists, n, g))
    BY <2>1, Zenon
  <2>3. MergeByDeliveredAt(lists) = (CHOOSE g : Merges(lists, n, g))[n].out
    BY MergeIs
  <2>4. QED BY <2>2, <2>3, Zenon
<1> HIDE DEF n
<1>3. g[0] = MergeFrom(lists) /\ \A i \in 0..n : i # 0 => g[i] = MergeStep(lists, g[i - 1])
  BY <1>1, <1>2 DEF Merges
<1> DEFINE Bad == {i \in 0..n : ~ Merging(lists, A, i, g[i])}
<1>4. Bad = {}
  <2>1. SUFFICES ASSUME Bad # {} PROVE FALSE
    OBVIOUS
  <2>2. Bad \subseteq Nat
    BY <1>1
  <2>3. PICK i \in Bad : i \in Nat /\ \A m \in Nat : m < i => m \notin Bad
    <3> HIDE DEF Bad
    <3>1. QED BY <2>1, <2>2, LeastOf
  <2>4. i \in 0..n /\ ~ Merging(lists, A, i, g[i])
    OBVIOUS
  <2>5. i # 0
    <3>1. SUFFICES Merging(lists, A, 0, MergeFrom(lists))
      BY <1>3, <2>4
    <3> DEFINE acc == MergeFrom(lists)
    <3>2. acc = [heads |-> [p \in Partitions |-> 1], out |-> <<>>]
      BY DEF MergeFrom
    <3> HIDE DEF acc
    <3>3. \A p \in Partitions : 1 <= Len(lists[p]) + 1
      OBVIOUS
    <3> DEFINE z == [p \in Partitions |-> acc.heads[p] - 1]
    <3>4. \A x : x \notin TakenSoFar(z)
      <4>1. \A p \in Partitions : z[p] = 0
        BY <3>2
      <4> HIDE DEF z
      <4>2. PICK y : y = z
        OBVIOUS
      <4>3. \A x : x \notin TakenSoFar(y)
        BY <4>1, <4>2 DEF TakenSoFar
      <4>4. QED BY <4>2, <4>3
    <3>5. \E w : Weaves(lists, TakenSoFar(z), acc.out, w)
      <4> HIDE DEF z
      <4>1. TakenSoFar(z) = {}
        BY <3>4
      <4>2. acc.out = <<>> /\ 1..Len(acc.out) = {}
        BY <3>2
      <4> DEFINE w == [k \in {} |-> k]
      <4>3. w \in [1..Len(acc.out) -> {}]
        BY <4>2
      <4> HIDE DEF w
      <4>4. Weaves(lists, {}, acc.out, w)
        BY <4>2, <4>3 DEF Weaves
      <4>5. QED BY <4>1, <4>4
    <3>6. Merging(lists, A, 0, acc)
      <4>1. acc = [heads |-> acc.heads, out |-> acc.out] /\ acc.heads \in [Partitions -> Nat \ {0}]
        BY <3>2
      <4>2. \A p \in Partitions : acc.heads[p] <= Len(lists[p]) + 1
        BY <3>2, <3>3
      <4>3. acc.out \in Seq(A) /\ Len(acc.out) = 0
        BY <3>2
      <4>4. QED BY <4>1, <4>2, <4>3, <3>5, Zenon DEF Merging
    <3>7. QED BY <3>6 DEF acc
  <2>6. i - 1 \in Nat /\ i - 1 \in 0..n /\ i - 1 < n /\ i - 1 + 1 = i
    BY <1>1, <2>4, <2>5
  <2>7. Merging(lists, A, i - 1, g[i - 1])
    BY <2>3, <2>6
  <2>8. HeadsLeft(lists, g[i - 1]) # {}
    BY <2>6, <2>7, MergeLeft DEF n
  <2>9. Merging(lists, A, i - 1 + 1, MergeStep(lists, g[i - 1]))
    BY <2>6, <2>7, <2>8, MergeTakes
  <2>10. g[i] = MergeStep(lists, g[i - 1])
    BY <1>3, <2>4, <2>5
  <2>11. QED BY <2>4, <2>6, <2>9, <2>10
<1>5. Merging(lists, A, n, g[n])
  BY <1>1, <1>4
<1>6. g[n].out \in Seq(A) /\ Woven(lists, g[n].out)
  BY <1>5, MergeEnds DEF n
<1>7. QED BY <1>2, <1>6

-----------------------------------------------------------------------------
(* What a list tells of: each copy of certain events, each once.            *)

Events == Partitions \X Nat

CopiesOf(tp, s, e) == {e} \X (0..Extras(tp, s, e))

Alike(x, y) == x.of = y.of /\ x.copy = y.copy

Told(tp, s, l, Q) ==
  /\ l \in Seq(Item) /\ Q \subseteq Events
  /\ \A i, j \in 1..Len(l) : Alike(l[i], l[j]) => i = j
  /\ \A i \in 1..Len(l) : l[i].of \in Q /\ <<l[i].of, l[i].copy>> \in CopiesOf(tp, s, l[i].of)
  /\ \A e \in Q : \A x \in CopiesOf(tp, s, e) : \E i \in 1..Len(l) : l[i].of = e /\ l[i].copy = x[2]

LEMMA ToldNone == ASSUME NEW tp, NEW s PROVE Told(tp, s, <<>>, {})
BY DEF Told

(* Where the elements of two lists, one after the other, come from.         *)
LEMMA Joined ==
  ASSUME NEW A, NEW l \in Seq(A), NEW m \in Seq(A)
  PROVE  /\ l \o m \in Seq(A) /\ Len(l) \in Nat /\ Len(m) \in Nat
         /\ Len(l \o m) = Len(l) + Len(m)
         /\ \A i \in 1..Len(l) : i \in 1..Len(l \o m) /\ (l \o m)[i] = l[i]
         /\ \A j \in 1..Len(m) : Len(l) + j \in 1..Len(l \o m) /\ (l \o m)[Len(l) + j] = m[j]
         /\ \A i \in 1..Len(l \o m) : i \in 1..Len(l) \/ \E j \in 1..Len(m) : i = Len(l) + j
<1>1. l \o m \in Seq(A) /\ Len(l) \in Nat /\ Len(m) \in Nat /\ Len(l \o m) = Len(l) + Len(m)
  OBVIOUS
<1>2. \A i \in 1..Len(l) : i \in 1..Len(l \o m) /\ (l \o m)[i] = l[i]
  BY <1>1
<1>3. \A j \in 1..Len(m) : Len(l) + j \in 1..Len(l \o m) /\ (l \o m)[Len(l) + j] = m[j]
  BY <1>1
<1>4. ASSUME NEW i \in 1..Len(l \o m), i \notin 1..Len(l)
      PROVE  \E j \in 1..Len(m) : i = Len(l) + j
  <2>1. i - Len(l) \in 1..Len(m) /\ i = Len(l) + (i - Len(l))
    BY <1>1, <1>4
  <2>2. QED BY <2>1
<1>5. QED BY <1>1, <1>2, <1>3, <1>4

LEMMA ToldMore ==
  ASSUME NEW tp, NEW s, NEW l, NEW m, NEW Q, NEW R, Told(tp, s, l, Q), Told(tp, s, m, R),
         \A e \in Q : e \notin R
  PROVE  Told(tp, s, l \o m, Q \union R)
<1>1. l \in Seq(Item) /\ m \in Seq(Item) /\ Q \union R \subseteq Events
  BY DEF Told
<1>2. PICK n : n = l \o m
  OBVIOUS
<1>3. /\ n \in Seq(Item) /\ Len(l) \in Nat /\ Len(m) \in Nat
      /\ \A i \in 1..Len(l) : i \in 1..Len(n) /\ n[i] = l[i]
      /\ \A j \in 1..Len(m) : Len(l) + j \in 1..Len(n) /\ n[Len(l) + j] = m[j]
      /\ \A i \in 1..Len(n) : i \in 1..Len(l) \/ \E j \in 1..Len(m) : i = Len(l) + j
  BY <1>1, <1>2, Joined
<1>4. \A i \in 1..Len(n) : \/ i \in 1..Len(l) /\ n[i] = l[i] /\ n[i].of \in Q
                           \/ /\ \E j \in 1..Len(m) : i = Len(l) + j /\ n[i] = m[j]
                              /\ n[i].of \in R
  <2>1. \A i \in 1..Len(l) : l[i].of \in Q
    BY DEF Told
  <2>2. \A j \in 1..Len(m) : m[j].of \in R
    BY DEF Told
  <2>3. TAKE i \in 1..Len(n)
  <2>4. CASE i \in 1..Len(l)
    BY <1>3, <2>1, <2>4
  <2>5. CASE \E j \in 1..Len(m) : i = Len(l) + j
    BY <1>3, <2>2, <2>5
  <2>6. QED BY <1>3, <2>4, <2>5
<1>5. ASSUME NEW i \in 1..Len(n), NEW j \in 1..Len(n), Alike(n[i], n[j])
      PROVE  i = j
  <2>1. n[i].of = n[j].of
    BY <1>5 DEF Alike
  <2>2. CASE n[i].of \in Q
    <3>1. i \in 1..Len(l) /\ n[i] = l[i] /\ j \in 1..Len(l) /\ n[j] = l[j]
      BY <1>4, <2>1, <2>2
    <3>2. QED BY <1>5, <3>1 DEF Told
  <2>3. CASE n[i].of \in R
    <3>1. PICK u \in 1..Len(m) : i = Len(l) + u /\ n[i] = m[u]
      BY <1>4, <2>3
    <3>2. PICK v \in 1..Len(m) : j = Len(l) + v /\ n[j] = m[v]
      BY <1>4, <2>1, <2>3
    <3>3. u = v
      BY <1>5, <3>1, <3>2 DEF Told
    <3>4. QED BY <3>1, <3>2, <3>3
  <2>4. QED BY <1>4, <2>2, <2>3
<1>6. ASSUME NEW i \in 1..Len(n)
      PROVE  n[i].of \in Q \union R /\ <<n[i].of, n[i].copy>> \in CopiesOf(tp, s, n[i].of)
  <2>1. \A k \in 1..Len(l) : <<l[k].of, l[k].copy>> \in CopiesOf(tp, s, l[k].of)
    BY DEF Told
  <2>2. \A j \in 1..Len(m) : <<m[j].of, m[j].copy>> \in CopiesOf(tp, s, m[j].of)
    BY DEF Told
  <2>3. QED BY <1>4, <2>1, <2>2
<1>7. ASSUME NEW e \in Q \union R, NEW x \in CopiesOf(tp, s, e)
      PROVE  \E i \in 1..Len(n) : n[i].of = e /\ n[i].copy = x[2]
  <2>1. CASE e \in Q
    <3>1. PICK i \in 1..Len(l) : l[i].of = e /\ l[i].copy = x[2]
      BY <2>1 DEF Told
    <3>2. QED BY <1>3, <3>1
  <2>2. CASE e \in R
    <3>1. PICK i \in 1..Len(m) : m[i].of = e /\ m[i].copy = x[2]
      BY <2>2 DEF Told
    <3>2. QED BY SMTT(30), <1>3, <3>1
  <2>3. QED BY <2>1, <2>2
<1>8. Told(tp, s, n, Q \union R)
  BY <1>1, <1>3, <1>5, <1>6, <1>7 DEF Told
<1>9. QED BY <1>2, <1>8

LEMMA Listed ==
  ASSUME NEW A, NEW n \in Nat, NEW o, o = [i \in 1..n |-> o[i]], \A i \in 1..n : o[i] \in A
  PROVE  o \in Seq(A) /\ Len(o) = n
OBVIOUS

LEMMA Marked ==
  ASSUME NEW e, NEW c, NEW at, NEW b \in BOOLEAN
  PROVE  [[of |-> e, copy |-> c, at |-> at, outOfOrder |-> FALSE] EXCEPT !.outOfOrder = b] =
           [of |-> e, copy |-> c, at |-> at, outOfOrder |-> b]
OBVIOUS

LEMMA Untagged ==
  \A e, c, at : ~ [of |-> e, copy |-> c, at |-> at, outOfOrder |-> FALSE].outOfOrder
OBVIOUS

(* The copies of one draft.                                                 *)
Ofs(tp, s, l, e, at) ==
  /\ l \in Seq(Item) /\ Len(l) = Extras(tp, s, e) + 1
  /\ \A i \in 1..Len(l) : l[i].of = e /\ l[i].copy = i - 1 /\ l[i].at = at

Tagged(l) == l[1].outOfOrder

LEMMA ItemsOf ==
  ASSUME NEW tp, NEW s, NEW p \in Partitions, NEW d, DraftOK(tp, s, p, d),
         Extras(tp, s, <<p, d.seq>>) \in Nat
  PROVE  LET n == Extras(tp, s, <<p, d.seq>>)
         IN  /\ Ofs(tp, s, d.items, <<p, d.seq>>, d.at) /\ ~ Tagged(d.items)
             /\ Ofs(tp, s, Overtaken(d.items), <<p, d.seq>>, d.at) /\ Tagged(Overtaken(d.items))
<1> DEFINE n == Extras(tp, s, <<p, d.seq>>)
           l == d.items
<1>1. n \in Nat /\ d.at \in Nat /\ d.seq \in Nat
  BY DEF DraftOK
<1>2. l = Copies(p, d.seq, d.at, n)
  BY DEF DraftOK
<1> HIDE DEF n, l
<1>3. PICK k, m : k = n /\ m = l
  OBVIOUS
<1>4. m = [i \in 1..(k + 1) |->
             [of |-> <<p, d.seq>>, copy |-> i - 1, at |-> d.at, outOfOrder |-> FALSE]]
  BY <1>2, <1>3 DEF Copies
<1>5. k \in Nat
  BY <1>1, <1>3
<1>6. ASSUME NEW i \in 1..(k + 1)
      PROVE  /\ m[i] = [of |-> <<p, d.seq>>, copy |-> i - 1, at |-> d.at, outOfOrder |-> FALSE]
             /\ m[i] \in Item
  BY <1>1, <1>4, <1>5 DEF Item
<1>7. m \in Seq(Item) /\ Len(m) = k + 1
  BY <1>4, <1>5, <1>6
<1>8. Ofs(tp, s, m, <<p, d.seq>>, d.at) /\ ~ Tagged(m)
  <2>1. 1 \in 1..(k + 1)
    BY <1>5
  <2>2. m[1] = [of |-> <<p, d.seq>>, copy |-> 1 - 1, at |-> d.at, outOfOrder |-> FALSE]
    BY <1>6, <2>1
  <2>3. ~ m[1].outOfOrder
    BY <2>2, Untagged, Zenon
  <2>4. Ofs(tp, s, m, <<p, d.seq>>, d.at)
    <3>1. Len(m) = Extras(tp, s, <<p, d.seq>>) + 1
      BY <1>3, <1>7 DEF n
    <3>2. \A i \in 1..Len(m) : m[i].of = <<p, d.seq>> /\ m[i].copy = i - 1 /\ m[i].at = d.at
      BY <1>6, <1>7
    <3>3. QED BY <1>7, <3>1, <3>2 DEF Ofs
  <2>5. QED BY <2>3, <2>4 DEF Tagged
<1>9. PICK o : o = Overtaken(m)
  OBVIOUS
<1>10. o = [i \in 1..(k + 1) |-> [m[i] EXCEPT !.outOfOrder = i = 1]]
  BY <1>7, <1>9 DEF Overtaken
<1>11. ASSUME NEW i \in 1..(k + 1)
       PROVE  /\ o[i].of = <<p, d.seq>> /\ o[i].copy = i - 1 /\ o[i].at = d.at
              /\ i = 1 => o[i].outOfOrder = TRUE
              /\ o[i] \in Item
  <2>1. o[i] = [m[i] EXCEPT !.outOfOrder = i = 1]
    BY <1>10, Zenon
  <2>2. i - 1 \in Nat
    BY <1>5
  <2>3. PICK b \in BOOLEAN : b = (i = 1)
    OBVIOUS
  <2>4. o[i] = [m[i] EXCEPT !.outOfOrder = b]
    BY <2>1, <2>3, Zenon
  <2>5. m[i] = [of |-> <<p, d.seq>>, copy |-> i - 1, at |-> d.at, outOfOrder |-> FALSE]
    BY <1>6
  <2>6. o[i] = [of |-> <<p, d.seq>>, copy |-> i - 1, at |-> d.at, outOfOrder |-> b]
    <3>1. [[of |-> <<p, d.seq>>, copy |-> i - 1, at |-> d.at, outOfOrder |-> FALSE]
             EXCEPT !.outOfOrder = b] =
            [of |-> <<p, d.seq>>, copy |-> i - 1, at |-> d.at, outOfOrder |-> b]
      BY Marked
    <3>2. QED BY <2>4, <2>5, <3>1, Zenon
  <2>7. <<p, d.seq>> \in Partitions \X Nat
    BY <1>1
  <2>8. o[i] \in Item
    BY <1>1, <2>2, <2>6, <2>7 DEF Item
  <2>9. o[i].of = <<p, d.seq>> /\ o[i].copy = i - 1 /\ o[i].at = d.at /\ o[i].outOfOrder = b
    BY <2>6
  <2>10. i = 1 => o[i].outOfOrder = TRUE
    BY <2>3, <2>9
  <2>11. QED BY <2>8, <2>9, <2>10
<1>12. o \in Seq(Item) /\ Len(o) = k + 1
  <2>1. k + 1 \in Nat
    BY <1>5
  <2>2. o = [i \in 1..(k + 1) |-> o[i]]
    BY <1>10, Zenon
  <2>3. \A i \in 1..(k + 1) : o[i] \in Item
    BY <1>11
  <2>4. QED BY <2>1, <2>2, <2>3, Listed
<1>13. Ofs(tp, s, o, <<p, d.seq>>, d.at) /\ Tagged(o)
  <2>1. 1 \in 1..(k + 1)
    BY <1>5
  <2>2. \A i \in 1..Len(o) : o[i].of = <<p, d.seq>> /\ o[i].copy = i - 1 /\ o[i].at = d.at
    BY <1>11, <1>12
  <2>3. o[1].outOfOrder = TRUE
    BY <1>11, <2>1
  <2>4. Ofs(tp, s, o, <<p, d.seq>>, d.at)
    <3>1. Len(o) = Extras(tp, s, <<p, d.seq>>) + 1
      BY <1>3, <1>12 DEF n
    <3>2. QED BY <1>12, <2>2, <3>1 DEF Ofs
  <2>5. QED BY <2>3, <2>4 DEF Tagged
<1>14. /\ Ofs(tp, s, l, <<p, d.seq>>, d.at) /\ ~ Tagged(l)
       /\ Ofs(tp, s, Overtaken(l), <<p, d.seq>>, d.at) /\ Tagged(Overtaken(l))
  BY <1>3, <1>8, <1>9, <1>13
<1>15. QED BY <1>14 DEF n, l

LEMMA ToldCopies ==
  ASSUME NEW tp, NEW s, NEW e \in Events, NEW l, NEW at,
         NEW n, n = Extras(tp, s, e), n \in Nat, Ofs(tp, s, l, e, at)
  PROVE  Told(tp, s, l, {e})
<1>1. CopiesOf(tp, s, e) = {e} \X (0..n)
  BY DEF CopiesOf
<1>2. l \in Seq(Item) /\ Len(l) = n + 1
      /\ \A i \in 1..Len(l) : l[i].of = e /\ l[i].copy = i - 1
  BY DEF Ofs
<1>3. \A i, j \in 1..Len(l) : Alike(l[i], l[j]) => i = j
  BY <1>2 DEF Alike
<1>4. \A i \in 1..Len(l) : l[i].of \in {e} /\ <<l[i].of, l[i].copy>> \in CopiesOf(tp, s, l[i].of)
  <2>1. \A i \in 1..Len(l) : i - 1 \in 0..n
    BY <1>2
  <2>2. QED BY <1>1, <1>2, <2>1
<1>5. ASSUME NEW x \in CopiesOf(tp, s, e)
      PROVE  \E i \in 1..Len(l) : l[i].of = e /\ l[i].copy = x[2]
  <2>1. x[2] \in 0..n
    BY <1>1
  <2>2. PICK c \in 0..n : c = x[2]
    BY <2>1
  <2>3. c + 1 \in 1..Len(l) /\ c + 1 - 1 = c
    BY <1>2
  <2>4. l[c + 1].of = e /\ l[c + 1].copy = c
    BY <1>2, <2>3
  <2>5. QED BY <2>2, <2>3, <2>4
<1>6. QED BY <1>2, <1>3, <1>4, <1>5 DEF Told

-----------------------------------------------------------------------------
(* Lists woven together tell of what each of them tells of.                 *)
LEMMA Strand ==
  ASSUME NEW lists, NEW X, NEW out, NEW w, Weaves(lists, X, out, w),
         \A x \in X : x[1] \in Partitions /\ x[2] \in 1..Len(lists[x[1]]) /\ x = <<x[1], x[2]>>,
         NEW k \in 1..Len(out)
  PROVE  \E p \in Partitions : \E j \in 1..Len(lists[p]) : w[k] = <<p, j>> /\ out[k] = lists[p][j]
<1>1. w[k] \in X /\ out[k] = lists[w[k][1]][w[k][2]]
  BY DEF Weaves
<1>2. PICK p, j : p = w[k][1] /\ j = w[k][2]
  OBVIOUS
<1>3. p \in Partitions /\ j \in 1..Len(lists[p]) /\ w[k] = <<p, j>> /\ out[k] = lists[p][j]
  BY <1>1, <1>2
<1>4. QED BY <1>3

LEMMA ToldWoven ==
  ASSUME NEW tp, NEW s, NEW lists, NEW out \in Seq(Item), Woven(lists, out), NEW Q, NEW R,
         \A p \in Partitions : Told(tp, s, lists[p], Q[p]) /\ \A e \in Q[p] : e[1] = p /\ e \in R,
         R \subseteq Events, \A e \in R : e \in Q[e[1]]
  PROVE  Told(tp, s, out, R)
<1> DEFINE X == TakenSoFar([p \in Partitions |-> Len(lists[p])])
<1>1. PICK w : Weaves(lists, X, out, w)
  BY DEF Woven
<1>2. /\ \A p \in Partitions : \A j \in 1..Len(lists[p]) : <<p, j>> \in X
      /\ \A x \in X : x[1] \in Partitions /\ x[2] \in 1..Len(lists[x[1]]) /\ x = <<x[1], x[2]>>
  <2>1. PICK h : h = [p \in Partitions |-> Len(lists[p])]
    OBVIOUS
  <2>2. \A p \in Partitions : h[p] = Len(lists[p])
    BY <2>1
  <2>3. \A p \in Partitions : \A j \in 1..h[p] : <<p, j>> \in TakenSoFar(h)
    BY TakenIs
  <2>4. \A x \in TakenSoFar(h) : x[1] \in Partitions /\ x[2] \in 1..h[x[1]] /\ x = <<x[1], x[2]>>
    BY TakenIs
  <2>5. X = TakenSoFar(h)
    BY <2>1
  <2> HIDE DEF X
  <2>6. QED BY <2>2, <2>3, <2>4, <2>5
<1> HIDE DEF X
<1>3. \A k \in 1..Len(out) :
        \E p \in Partitions : \E j \in 1..Len(lists[p]) : w[k] = <<p, j>> /\ out[k] = lists[p][j]
  BY <1>1, <1>2, Strand
<1>4. ASSUME NEW p \in Partitions
      PROVE  /\ \A i, j \in 1..Len(lists[p]) : Alike(lists[p][i], lists[p][j]) => i = j
             /\ \A i \in 1..Len(lists[p]) :
                  /\ lists[p][i].of \in Q[p]
                  /\ <<lists[p][i].of, lists[p][i].copy>> \in CopiesOf(tp, s, lists[p][i].of)
             /\ \A e \in Q[p] : \A x \in CopiesOf(tp, s, e) :
                  \E i \in 1..Len(lists[p]) : lists[p][i].of = e /\ lists[p][i].copy = x[2]
             /\ \A e \in Q[p] : e[1] = p /\ e \in R
  BY DEF Told
<1>5. ASSUME NEW i \in 1..Len(out), NEW j \in 1..Len(out), Alike(out[i], out[j])
      PROVE  i = j
  <2>1. PICK p, u : /\ p \in Partitions /\ u \in 1..Len(lists[p])
                   /\ w[i] = <<p, u>> /\ out[i] = lists[p][u]
    BY <1>3
  <2>2. PICK q, v : /\ q \in Partitions /\ v \in 1..Len(lists[q])
                   /\ w[j] = <<q, v>> /\ out[j] = lists[q][v]
    BY <1>3
  <2>3. lists[p][u].of = lists[q][v].of
    BY <1>5, <2>1, <2>2 DEF Alike
  <2>4. p = q
    <3>1. lists[p][u].of[1] = p /\ lists[q][v].of[1] = q
      BY <1>4, <2>1, <2>2
    <3>2. QED BY <2>3, <3>1
  <2>5. u = v
    BY <1>4, <1>5, <2>1, <2>2, <2>4
  <2>6. w[i] = w[j]
    BY <2>1, <2>2, <2>4, <2>5
  <2>7. Len(out) \in Nat /\ ~(i < j) /\ ~(j < i)
    BY <1>1, <2>6 DEF Weaves
  <2>8. QED BY <2>7
<1>6. \A i \in 1..Len(out) : /\ out[i].of \in R
                             /\ <<out[i].of, out[i].copy>> \in CopiesOf(tp, s, out[i].of)
  BY <1>3, <1>4
<1>7. ASSUME NEW e \in R, NEW x \in CopiesOf(tp, s, e)
      PROVE  \E i \in 1..Len(out) : out[i].of = e /\ out[i].copy = x[2]
  <2>1. PICK p \in Partitions : p = e[1] /\ e \in Q[p]
    BY DEF Events
  <2>2. PICK j \in 1..Len(lists[p]) : lists[p][j].of = e /\ lists[p][j].copy = x[2]
    BY <1>4, <2>1
  <2>3. <<p, j>> \in X
    BY <1>2
  <2>4. PICK k \in 1..Len(out) : w[k] = <<p, j>>
    BY <1>1, <2>3 DEF Weaves
  <2>5. out[k] = lists[p][j]
    BY <1>3, <2>4
  <2>6. QED BY <2>2, <2>5
<1>8. QED BY <1>5, <1>6, <1>7 DEF Told

-----------------------------------------------------------------------------
(* The order a list tells of, after what came before it.                    *)

Overtakes(x, y) ==
  x.of[1] = y.of[1] /\ (x.at > y.at \/ (x.at = y.at /\ x.of[2] > y.of[2]))

Tells(A, l) ==
  \A i \in 1..Len(l) : l[i].copy = 0 =>
    (l[i].outOfOrder <=> \/ \E x \in A : Overtakes(x, l[i])
                         \/ \E j \in 1..(i - 1) : Overtakes(l[j], l[i]))

TheItems(l) == {l[i] : i \in 1..Len(l)}

LEMMA TellsAll == ASSUME NEW l, Tells({}, l) PROVE TellsOrder(l)
BY DEF Tells, TellsOrder, Overtakes

LEMMA TellsMore ==
  ASSUME NEW A, NEW B, NEW l \in Seq(Item), NEW m \in Seq(Item), Tells(A, l), Tells(B, m),
         \A x : x \in B <=> x \in A \/ x \in TheItems(l)
  PROVE  Tells(A, l \o m)
<1>1. PICK n : n = l \o m
  OBVIOUS
<1>2. /\ n \in Seq(Item) /\ Len(l) \in Nat /\ Len(m) \in Nat /\ Len(n) = Len(l) + Len(m)
      /\ \A i \in 1..Len(l) : i \in 1..Len(n) /\ n[i] = l[i]
      /\ \A j \in 1..Len(m) : Len(l) + j \in 1..Len(n) /\ n[Len(l) + j] = m[j]
      /\ \A i \in 1..Len(n) : i \in 1..Len(l) \/ \E j \in 1..Len(m) : i = Len(l) + j
  BY <1>1, Joined
<1>3. ASSUME NEW i \in 1..Len(n), n[i].copy = 0
      PROVE  n[i].outOfOrder <=> \/ \E x \in A : Overtakes(x, n[i])
                                 \/ \E j \in 1..(i - 1) : Overtakes(n[j], n[i])
  <2>1. CASE i \in 1..Len(l)
    <3>1. n[i] = l[i]
      BY <1>2, <2>1
    <3>2. l[i].outOfOrder <=> \/ \E x \in A : Overtakes(x, l[i])
                              \/ \E j \in 1..(i - 1) : Overtakes(l[j], l[i])
      BY <1>3, <2>1, <3>1 DEF Tells
    <3>3. \A j \in 1..(i - 1) : n[j] = l[j]
      BY <1>2, <2>1
    <3>4. QED BY <3>1, <3>2, <3>3
  <2>2. CASE i \notin 1..Len(l)
    <3>1. PICK k \in 1..Len(m) : i = Len(l) + k /\ n[i] = m[k]
      BY <1>2, <2>2
    <3>2. m[k].outOfOrder <=> \/ \E x \in B : Overtakes(x, m[k])
                              \/ \E j \in 1..(k - 1) : Overtakes(m[j], m[k])
      BY <1>3, <3>1 DEF Tells
    <3>3. \A j \in 1..(k - 1) : j \in 1..Len(m) /\ Len(l) + j \in 1..(i - 1) /\ n[Len(l) + j] = m[j]
      BY <1>2, <3>1
    <3>4. \A j \in 1..Len(l) : j \in 1..(i - 1) /\ n[j] = l[j]
      BY <1>2, <3>1
    <3>5. \A j \in 1..(i - 1) : j \in 1..Len(l) \/ \E u \in 1..(k - 1) : j = Len(l) + u
      <4>1. TAKE j \in 1..(i - 1)
      <4>2. CASE j \in 1..Len(l)
        BY <4>2
      <4>3. CASE j \notin 1..Len(l)
        <5>1. j - Len(l) \in 1..(k - 1) /\ j = Len(l) + (j - Len(l))
          BY <1>2, <3>1, <4>3
        <5>2. QED BY <5>1
      <4>4. QED BY <4>2, <4>3
    <3>6. ASSUME NEW x \in B, Overtakes(x, m[k])
          PROVE  \/ \E y \in A : Overtakes(y, n[i])
                 \/ \E j \in 1..(i - 1) : Overtakes(n[j], n[i])
      <4>1. CASE x \in A
        BY <3>1, <3>6, <4>1
      <4>2. CASE x \in TheItems(l)
        <5>1. PICK j \in 1..Len(l) : x = l[j]
          BY <4>2 DEF TheItems
        <5>2. QED BY <3>1, <3>4, <3>6, <5>1
      <4>3. QED BY <4>1, <4>2
    <3>7. ASSUME NEW j \in 1..(k - 1), Overtakes(m[j], m[k])
          PROVE  \E u \in 1..(i - 1) : Overtakes(n[u], n[i])
      BY <3>1, <3>3, <3>7
    <3>8. ASSUME NEW y \in A, Overtakes(y, n[i]) PROVE \E x \in B : Overtakes(x, m[k])
      BY <3>1, <3>8
    <3>9. ASSUME NEW j \in 1..(i - 1), Overtakes(n[j], n[i])
          PROVE  \/ \E x \in B : Overtakes(x, m[k])
                 \/ \E u \in 1..(k - 1) : Overtakes(m[u], m[k])
      <4>1. CASE j \in 1..Len(l)
        <5>1. l[j] \in TheItems(l)
          BY <4>1 DEF TheItems
        <5>2. l[j] \in B /\ Overtakes(l[j], m[k])
          BY <3>1, <3>4, <3>9, <4>1, <5>1
        <5>3. QED BY <5>2
      <4>2. CASE \E u \in 1..(k - 1) : j = Len(l) + u
        BY <3>1, <3>3, <3>9, <4>2
      <4>3. QED BY <3>5, <4>1, <4>2
    <3>10. QED BY <3>1, <3>2, <3>6, <3>7, <3>8, <3>9
  <2>3. QED BY <2>1, <2>2
<1>4. Tells(A, n)
  BY <1>3 DEF Tells
<1>5. QED BY <1>1, <1>4

LEMMA TellsWoven ==
  ASSUME NEW A, NEW lists, NEW out \in Seq(Item), Woven(lists, out),
         \A p \in Partitions :
           /\ lists[p] \in Seq(Item) /\ Tells(A, lists[p])
           /\ \A k \in 1..Len(lists[p]) : lists[p][k].of[1] = p
  PROVE  Tells(A, out)
<1> DEFINE X == TakenSoFar([p \in Partitions |-> Len(lists[p])])
<1>1. PICK w : Weaves(lists, X, out, w)
  BY DEF Woven
<1>2. /\ \A p \in Partitions : \A j \in 1..Len(lists[p]) : <<p, j>> \in X
      /\ \A x \in X : x[1] \in Partitions /\ x[2] \in 1..Len(lists[x[1]]) /\ x = <<x[1], x[2]>>
  <2>1. PICK h : h = [p \in Partitions |-> Len(lists[p])]
    OBVIOUS
  <2>2. \A p \in Partitions : h[p] = Len(lists[p])
    BY <2>1
  <2>3. \A p \in Partitions : \A j \in 1..h[p] : <<p, j>> \in TakenSoFar(h)
    BY TakenIs
  <2>4. \A x \in TakenSoFar(h) : x[1] \in Partitions /\ x[2] \in 1..h[x[1]] /\ x = <<x[1], x[2]>>
    BY TakenIs
  <2>5. X = TakenSoFar(h)
    BY <2>1
  <2> HIDE DEF X
  <2>6. QED BY <2>2, <2>3, <2>4, <2>5
<1> HIDE DEF X
<1>3. \A k \in 1..Len(out) :
        \E p \in Partitions : \E j \in 1..Len(lists[p]) : w[k] = <<p, j>> /\ out[k] = lists[p][j]
  BY <1>1, <1>2, Strand
<1>4. ASSUME NEW k \in 1..Len(out), out[k].copy = 0
      PROVE  out[k].outOfOrder <=> \/ \E x \in A : Overtakes(x, out[k])
                                   \/ \E j \in 1..(k - 1) : Overtakes(out[j], out[k])
  <2>1. PICK p, i : /\ p \in Partitions /\ i \in 1..Len(lists[p])
                   /\ w[k] = <<p, i>> /\ out[k] = lists[p][i]
    BY <1>3
  <2>2. PICK l : l = lists[p]
    OBVIOUS
  <2>3. Tells(A, l) /\ i \in 1..Len(l) /\ out[k] = l[i] /\ \A j \in 1..Len(l) : l[j].of[1] = p
    BY <2>1, <2>2
  <2>4. l[i].outOfOrder <=> \/ \E x \in A : Overtakes(x, l[i])
                            \/ \E j \in 1..(i - 1) : Overtakes(l[j], l[i])
    BY <1>4, <2>3 DEF Tells
  <2>5. ASSUME NEW j \in 1..(i - 1), Overtakes(l[j], l[i])
        PROVE  \E u \in 1..(k - 1) : Overtakes(out[u], out[k])
    <3>1. j \in 1..Len(lists[p]) /\ j < i
      <4>1. Len(lists[p]) \in Nat
        BY <2>1
      <4>2. QED BY <2>1, <4>1
    <3>2. <<p, j>> \in X
      BY <1>2, <2>1, <3>1
    <3>3. PICK u \in 1..Len(out) : w[u] = <<p, j>>
      BY <1>1, <3>2 DEF Weaves
    <3>4. out[u] = l[j]
      BY <1>3, <2>2, <3>3
    <3>5. ~(k < u)
      <4>1. k < u => w[k][2] < w[u][2]
        BY <1>1, <2>1, <3>3 DEF Weaves
      <4>2. QED BY <2>1, <3>1, <3>3, <4>1
    <3>6. k # u
      BY <2>1, <3>1, <3>3
    <3>7. u \in 1..(k - 1)
      BY <3>5, <3>6
    <3>8. QED BY <2>3, <2>5, <3>4, <3>7
  <2>6. ASSUME NEW u \in 1..(k - 1), Overtakes(out[u], out[k])
        PROVE  \E j \in 1..(i - 1) : Overtakes(l[j], l[i])
    <3>1. u \in 1..Len(out) /\ u < k
      OBVIOUS
    <3>2. PICK q, j : /\ q \in Partitions /\ j \in 1..Len(lists[q])
                   /\ w[u] = <<q, j>> /\ out[u] = lists[q][j]
      BY <1>3, <3>1
    <3>3. out[u].of[1] = q /\ out[k].of[1] = p
      BY <2>3, <3>2
    <3>4. q = p
      BY <2>6, <3>3 DEF Overtakes
    <3>5. j < i
      <4>1. w[u][1] = w[k][1] => w[u][2] < w[k][2]
        BY <1>1, <3>1 DEF Weaves
      <4>2. QED BY <2>1, <3>2, <3>4, <4>1
    <3>6. j \in 1..(i - 1) /\ Overtakes(l[j], l[i])
      BY <2>2, <2>3, <2>6, <3>2, <3>4, <3>5
    <3>7. QED BY <3>6
  <2>7. QED BY <2>3, <2>4, <2>5, <2>6
<1>5. QED BY <1>4 DEF Tells

-----------------------------------------------------------------------------
(* What is sent, delivery by delivery.                                      *)

InHold(h) == {h} \ {Nothing}

Seqs(W) == {z.seq : z \in W}

Trails(x, z) == x.at < z.at \/ (x.at = z.at /\ x.of[2] < z.seq)

(* Of a transformer that has been sending out after A, hold waits, then F;  *)
(* C numbers all that waits or was sent, and what is sent is at B.      *)
Run(tp, s, p, A, C, B, hold, out, F) ==
  /\ \A z \in F \union InHold(hold) : DraftOK(tp, s, p, z) /\ z.seq \in C
  /\ \A y, z \in F \union InHold(hold) : y.seq = z.seq => y = z
  /\ \A z \in InHold(hold) : z.at \in B /\ \A y \in F : Before(z, y)
  /\ Told(tp, s, out, {p} \X (C \ Seqs(F \union InHold(hold))))
  /\ Tells(A, out)
  /\ \A x \in A \union TheItems(out) :
       x.of[1] = p => x.at \in B /\ \A z \in F \union InHold(hold) : Trails(x, z)

LEMMA DraftIsSome ==
  ASSUME NEW tp, NEW s, NEW p, NEW d, DraftOK(tp, s, p, d)
  PROVE  d # Nothing
<1>1. "none" \in DOMAIN Nothing
  BY DEF Nothing
<1>2. PICK l : d = [at |-> d.at, seq |-> d.seq, reorder |-> d.reorder, items |-> l]
  BY DEF DraftOK
<1>3. "none" \notin DOMAIN d
  BY <1>2
<1>4. QED BY <1>1, <1>3

Late(X, e, at) ==
  \E x \in X : x.of[1] = e[1] /\ (x.at > at \/ (x.at = at /\ x.of[2] > e[2]))

(* The copies of a draft are sent: the label tells whether something that   *)
(* should come after was sent before.                                       *)
Sendable(tp, s, A, out, Q, e, at, m) ==
  /\ Told(tp, s, out, Q) /\ Tells(A, out) /\ e \in Events /\ Extras(tp, s, e) \in Nat
  /\ Ofs(tp, s, m, e, at) /\ e \notin Q
  /\ Tagged(m) <=> Late(A \union TheItems(out), e, at)

Sent1(tp, s, A, out, Q, e, at, o) ==
  /\ Told(tp, s, o, Q \union {e}) /\ Tells(A, o)
  /\ \A x \in TheItems(o) : x \in TheItems(out) \/ (x.of = e /\ x.at = at)
  /\ \E x \in TheItems(o) : x.of = e /\ x.at = at

LEMMA Sends ==
  ASSUME NEW tp, NEW s, NEW A, NEW out, NEW Q, NEW e, NEW at, NEW m,
         Sendable(tp, s, A, out, Q, e, at, m)
  PROVE  Sent1(tp, s, A, out, Q, e, at, out \o m)
<1> /\ Told(tp, s, out, Q) /\ Tells(A, out) /\ e \in Events /\ Extras(tp, s, e) \in Nat
    /\ Ofs(tp, s, m, e, at) /\ e \notin Q
    /\ Tagged(m) <=> Late(A \union TheItems(out), e, at)
  BY DEF Sendable
<1>1. PICK n : n = Extras(tp, s, e)
  OBVIOUS
<1>2. /\ m \in Seq(Item) /\ Len(m) = n + 1 /\ n \in Nat
      /\ \A i \in 1..Len(m) : m[i].of = e /\ m[i].copy = i - 1 /\ m[i].at = at
  BY <1>1 DEF Ofs
<1>3. out \in Seq(Item)
  BY DEF Told
<1>4. Told(tp, s, m, {e})
  BY <1>1, <1>2, ToldCopies
<1>5. Told(tp, s, out \o m, Q \union {e})
  <2>1. \A x \in Q : x \notin {e}
    OBVIOUS
  <2>2. QED BY <1>4, <2>1, ToldMore
<1>6. Tells(A \union TheItems(out), m)
  <2>1. SUFFICES ASSUME NEW i \in 1..Len(m), m[i].copy = 0
                 PROVE  m[i].outOfOrder <=> \/ \E x \in A \union TheItems(out) : Overtakes(x, m[i])
                                            \/ \E j \in 1..(i - 1) : Overtakes(m[j], m[i])
    BY Zenon DEF Tells
  <2>2. i = 1
    BY <1>2, <2>1
  <2>3. m[i].of = e /\ m[i].at = at
    BY <1>2, <2>1, <2>2
  <2>4. \A x : Overtakes(x, m[i]) <=> x.of[1] = e[1] /\ (x.at > at \/ (x.at = at /\ x.of[2] > e[2]))
    BY <2>3 DEF Overtakes
  <2>5. ~ \E j \in 1..(i - 1) : Overtakes(m[j], m[i])
    BY <2>2
  <2>6. (\E x \in A \union TheItems(out) : Overtakes(x, m[i])) <=>
           Late(A \union TheItems(out), e, at)
    BY <2>4 DEF Late
  <2>7. m[i].outOfOrder <=> Tagged(m)
    BY <2>2 DEF Tagged
  <2>8. QED BY <2>5, <2>6, <2>7
<1>7. Tells(A, out \o m)
  BY <1>2, <1>3, <1>6, TellsMore
<1>8. PICK o : o = out \o m
  OBVIOUS
<1>9. /\ o \in Seq(Item) /\ Len(out) \in Nat /\ Len(m) \in Nat
      /\ \A i \in 1..Len(out) : i \in 1..Len(o) /\ o[i] = out[i]
      /\ \A j \in 1..Len(m) : Len(out) + j \in 1..Len(o) /\ o[Len(out) + j] = m[j]
      /\ \A i \in 1..Len(o) : i \in 1..Len(out) \/ \E j \in 1..Len(m) : i = Len(out) + j
  <2>1. m \in Seq(Item)
    BY <1>2
  <2>2. QED BY <1>3, <1>8, <2>1, Joined
<1>10. ASSUME NEW x \in TheItems(o) PROVE x \in TheItems(out) \/ (x.of = e /\ x.at = at)
  <2>1. PICK i \in 1..Len(o) : x = o[i]
    BY DEF TheItems
  <2>2. CASE i \in 1..Len(out)
    BY <1>9, <2>1, <2>2 DEF TheItems
  <2>3. CASE \E j \in 1..Len(m) : i = Len(out) + j
    <3>1. PICK j \in 1..Len(m) : i = Len(out) + j
      BY <2>3
    <3>2. x = m[j]
      BY <1>9, <2>1, <3>1
    <3>3. QED BY <1>2, <3>2
  <2>4. QED BY <1>9, <2>2, <2>3
<1>11. \E x \in TheItems(o) : x.of = e /\ x.at = at
  <2>1. 1 \in 1..Len(m)
    BY <1>2
  <2>2. Len(out) + 1 \in 1..Len(o) /\ o[Len(out) + 1].of = e /\ o[Len(out) + 1].at = at
    BY <1>2, <1>9, <2>1
  <2>3. o[Len(out) + 1] \in TheItems(o)
    BY <2>2 DEF TheItems
  <2>4. QED BY <2>2, <2>3
<1>12. QED BY <1>5, <1>7, <1>8, <1>10, <1>11 DEF Sent1

LEMMA InHoldIs ==
  /\ InHold(Nothing) = {}
  /\ \A d : d # Nothing => InHold(d) = {d}
BY DEF InHold

(* Before and after, of drafts and of deliveries.                           *)
LEMMA Orders ==
  ASSUME NEW d, NEW e, Before(d, e), d.at \in Nat, e.at \in Nat, d.seq \in Nat, e.seq \in Nat
  PROVE  /\ d.seq = e.seq => d.at < e.at
         /\ \A x : x.of[2] = d.seq /\ x.at = d.at => Trails(x, e)
         /\ ~ Before(e, d) /\ d # e
         /\ e.at > d.at \/ (e.at = d.at /\ e.seq > d.seq)
BY DEF Before, Trails

LEMMA NoneBehind ==
  ASSUME NEW z, z.at \in Nat, z.seq \in Nat, NEW x \in Item, Trails(x, z)
  PROVE  ~ (x.at > z.at \/ (x.at = z.at /\ x.of[2] > z.seq))
<1>1. x.at \in Nat /\ x.of[2] \in Nat
  BY DEF Item
<1>2. QED BY <1>1 DEF Trails

CountsCopies(tp, s, p) == \A i \in Nat : Extras(tp, s, <<p, i>>) \in Nat

Running(tp, s, p, A, C, B, acc, F) ==
  /\ p \in Partitions /\ A \subseteq Item /\ C \subseteq Nat /\ CountsCopies(tp, s, p)
  /\ acc = [hold |-> acc.hold, out |-> acc.out]
  /\ Run(tp, s, p, A, C, B, acc.hold, acc.out, F)

IsNext(F, B, d) == d \in F /\ d.at \in B /\ \A e \in F \ {d} : Before(d, e)

(* One more draft is given on: sent, or held, or sent before the one held.  *)
LEMMA EmitStep ==
  ASSUME NEW tp, NEW s, NEW p, NEW A, NEW C, NEW B, NEW acc, NEW F, NEW d,
         Running(tp, s, p, A, C, B, acc, F), IsNext(F, B, d)
  PROVE  Running(tp, s, p, A, C, B, Emit(acc, d), F \ {d})
<1>0. PICK new : new = Emit(acc, d)
  OBVIOUS
<1> /\ p \in Partitions /\ A \subseteq Item /\ C \subseteq Nat /\ CountsCopies(tp, s, p)
    /\ acc = [hold |-> acc.hold, out |-> acc.out]
    /\ Run(tp, s, p, A, C, B, acc.hold, acc.out, F)
    /\ d \in F /\ d.at \in B /\ \A e \in F \ {d} : Before(d, e)
  BY DEF Running, IsNext
<1> DEFINE Gives(n) ==
             \E x, y : n = [hold |-> x, out |-> y] /\ Run(tp, s, p, A, C, B, x, y, F \ {d})
<1>1. PICK h, o : h = acc.hold /\ o = acc.out
  OBVIOUS
<1>2. PICK W : W = F \union InHold(h)
  OBVIOUS
<1>3. /\ \A z \in W : DraftOK(tp, s, p, z) /\ z.seq \in C
      /\ \A y, z \in W : y.seq = z.seq => y = z
      /\ \A z \in InHold(h) : z.at \in B /\ \A y \in F : Before(z, y)
      /\ Told(tp, s, o, {p} \X (C \ Seqs(W)))
      /\ Tells(A, o)
      /\ \A x \in A \union TheItems(o) : x.of[1] = p => x.at \in B /\ \A z \in W : Trails(x, z)
  BY <1>1, <1>2 DEF Run
<1>4. \A z \in W : /\ z.at \in Nat /\ z.seq \in Nat
                   /\ Extras(tp, s, <<p, z.seq>>) \in Nat /\ z # Nothing
  <2>1. TAKE z \in W
  <2>2. DraftOK(tp, s, p, z)
    BY <1>3
  <2>3. z # Nothing
    BY <2>2, DraftIsSome
  <2>4. QED BY <2>2, <2>3 DEF DraftOK, CountsCopies
<1>5. d \in W
  BY <1>2
<1>6. PICK de : de = <<p, d.seq>>
  OBVIOUS
<1>7. /\ de \in Events /\ Extras(tp, s, de) \in Nat /\ Ofs(tp, s, d.items, de, d.at)
      /\ ~ Tagged(d.items) /\ de[1] = p /\ de[2] = d.seq
  BY <1>3, <1>4, <1>5, <1>6, ItemsOf DEF Events
<1>8. \A x \in A \union TheItems(o) : x \in Item
  <2>1. o \in Seq(Item)
    BY <1>3 DEF Told
  <2>2. \A x \in TheItems(o) : x \in Item
    BY <2>1 DEF TheItems
  <2>3. QED BY <2>2
<1>9. ~ \E x \in A \union TheItems(o) :
          x.of[1] = p /\ (x.at > d.at \/ (x.at = d.at /\ x.of[2] > d.seq))
  <2>1. SUFFICES ASSUME NEW x \in A \union TheItems(o), x.of[1] = p
                 PROVE  ~ (x.at > d.at \/ (x.at = d.at /\ x.of[2] > d.seq))
    OBVIOUS
  <2>2. Trails(x, d) /\ x \in Item
    BY <1>3, <1>5, <1>8, <2>1
  <2>3. d.at \in Nat /\ d.seq \in Nat
    BY <1>4, <1>5
  <2>4. QED BY <2>2, <2>3, NoneBehind
<1>10. PICK o1 : o1 = o \o d.items
  OBVIOUS
<1>11. <<p, d.seq>> \notin {p} \X (C \ Seqs(W))
  BY <1>5 DEF Seqs
<1>12. /\ Told(tp, s, o1, {p} \X (C \ Seqs(W)) \union {<<p, d.seq>>}) /\ Tells(A, o1)
       /\ \A x \in TheItems(o1) : x \in TheItems(o) \/ (x.of = <<p, d.seq>> /\ x.at = d.at)
       /\ \E x \in TheItems(o1) : x.of = <<p, d.seq>> /\ x.at = d.at
  <2>1. PICK m, Q, t : m = d.items /\ Q = {p} \X (C \ Seqs(W)) /\ t = d.at
    OBVIOUS
  <2>2. Ofs(tp, s, m, de, t) /\ ~ Tagged(m)
    BY <1>7, <2>1
  <2>3. Told(tp, s, o, Q) /\ de \notin Q /\ Tells(A, o)
    BY <1>3, <1>6, <1>11, <2>1
  <2>4. ~ Late(A \union TheItems(o), de, t)
    BY <1>7, <1>9, <2>1 DEF Late
  <2>5. /\ Told(tp, s, o \o m, Q \union {de}) /\ Tells(A, o \o m)
        /\ \A x \in TheItems(o \o m) : x \in TheItems(o) \/ (x.of = de /\ x.at = t)
        /\ \E x \in TheItems(o \o m) : x.of = de /\ x.at = t
    <3>1. de \in Events /\ Extras(tp, s, de) \in Nat
      BY <1>7
    <3>2. Tagged(m) <=> Late(A \union TheItems(o), de, t)
      BY <2>2, <2>4
    <3>3. Sendable(tp, s, A, o, Q, de, t, m)
      BY <2>2, <2>3, <3>1, <3>2 DEF Sendable
    <3>4. Sent1(tp, s, A, o, Q, de, t, o \o m)
      BY <3>3, Sends
    <3>5. QED BY <3>4 DEF Sent1
  <2>6. QED BY <1>6, <1>10, <2>1, <2>5
<1>13. \A x \in TheItems(o1) : x.of[1] = p =>
         /\ x.at \in B
         /\ \A z \in F \ {d} : Trails(x, z)
  <2>1. TAKE x \in TheItems(o1)
  <2>2. CASE x \in TheItems(o)
    BY <1>2, <1>3, <2>2
  <2>3. CASE x.of = <<p, d.seq>> /\ x.at = d.at
    <3>1. x.of[2] = d.seq
      BY <2>3
    <3>2. \A z \in F \ {d} : Trails(x, z)
      BY <1>2, <1>4, <1>5, <2>3, <3>1, Orders
    <3>3. QED BY <2>3, <3>2
  <2>4. QED BY <1>12, <2>2, <2>3
<1>14. ASSUME h # Nothing PROVE Gives(new)
  <2>1. h \in W /\ InHold(h) = {h} /\ Before(h, d) /\ h.at \in B /\ \A z \in F : Before(h, z)
    BY <1>2, <1>3, <1>14, InHoldIs
  <2>2. /\ h.at \in Nat /\ h.seq \in Nat /\ d.at \in Nat /\ d.seq \in Nat /\ h # d
        /\ d.at > h.at \/ (d.at = h.at /\ d.seq > h.seq)
    BY <1>4, <1>5, <2>1, Orders
  <2>3. h.seq # d.seq
    BY <1>3, <1>5, <2>1, <2>2
  <2>4. PICK he, m, t : he = <<p, h.seq>> /\ m = Overtaken(h.items) /\ t = h.at
    OBVIOUS
  <2>5. /\ he \in Events /\ Extras(tp, s, he) \in Nat /\ Ofs(tp, s, m, he, t) /\ Tagged(m)
        /\ he[1] = p /\ he[2] = h.seq
    BY <1>3, <1>4, <2>1, <2>4, ItemsOf DEF Events
  <2>6. PICK Q : Q = {p} \X (C \ Seqs(W)) \union {<<p, d.seq>>}
    OBVIOUS
  <2>7. he \notin Q
    BY <2>1, <2>3, <2>4, <2>6 DEF Seqs
  <2>8. Late(A \union TheItems(o1), he, t)
    <3>1. PICK x \in TheItems(o1) : x.of = <<p, d.seq>> /\ x.at = d.at
      BY <1>12
    <3>2. x.of[1] = p /\ x.of[2] = d.seq
      BY <3>1
    <3>3. x.at > t \/ (x.at = t /\ x.of[2] > he[2])
      BY <2>2, <2>4, <2>5, <3>1, <3>2
    <3>4. QED BY <2>5, <3>2, <3>3 DEF Late
  <2>9. PICK o2 : o2 = o1 \o m
    OBVIOUS
  <2>10. /\ Told(tp, s, o2, Q \union {he}) /\ Tells(A, o2)
         /\ \A x \in TheItems(o2) : x \in TheItems(o1) \/ (x.of = he /\ x.at = t)
    <3>1. he \in Events /\ Extras(tp, s, he) \in Nat /\ Told(tp, s, o1, Q) /\ Tells(A, o1)
      BY <1>12, <2>5, <2>6
    <3>2. Tagged(m) <=> Late(A \union TheItems(o1), he, t)
      BY <2>5, <2>8
    <3>3. /\ Told(tp, s, o1 \o m, Q \union {he}) /\ Tells(A, o1 \o m)
          /\ \A x \in TheItems(o1 \o m) : x \in TheItems(o1) \/ (x.of = he /\ x.at = t)
      <4>1. Sendable(tp, s, A, o1, Q, he, t, m)
        BY <2>5, <2>7, <3>1, <3>2 DEF Sendable
      <4>2. Sent1(tp, s, A, o1, Q, he, t, o1 \o m)
        BY <4>1, Sends
      <4>3. QED BY <4>2 DEF Sent1
    <3>4. QED BY <2>9, <3>3
  <2>11. PICK G : G = F \ {d}
    OBVIOUS
  <2>12. Q \union {he} = {p} \X (C \ Seqs(G))
    <3>1. Seqs(W) = Seqs(G) \union {d.seq, h.seq}
      <4>1. \A z : z \in W <=> z \in G \/ z = d \/ z = h
        BY <1>2, <2>1, <2>11
      <4>2. QED BY <2>4, <4>1 DEF Seqs
    <3>2. \A z \in G : z.seq # d.seq /\ z.seq # h.seq
      <4>1. \A z \in G : z \in W /\ z # d /\ z # h
        <5>1. TAKE z \in G
        <5>2. Before(h, z) /\ z \in W
          BY <1>2, <2>1, <2>11
        <5>3. z # h
          BY <1>4, <2>1, <5>2, Orders
        <5>4. QED BY <2>11, <5>2, <5>3
      <4>2. QED BY <1>3, <1>5, <2>1, <2>4, <4>1
    <3>3. d.seq \notin Seqs(G) /\ h.seq \notin Seqs(G)
      BY <3>2 DEF Seqs
    <3>4. d.seq \in C /\ h.seq \in C
      BY <1>3, <1>5, <2>1, <2>4
    <3>5. C \ Seqs(G) = (C \ Seqs(W)) \union {d.seq, h.seq}
      BY <3>1, <3>3, <3>4
    <3>6. QED BY <2>4, <2>6, <3>5
  <2>13. \A x \in A \union TheItems(o2) : x.of[1] = p => x.at \in B /\ \A z \in G : Trails(x, z)
    <3>1. TAKE x \in A \union TheItems(o2)
    <3>2. HAVE x.of[1] = p
    <3>3. CASE x \in A
      BY <1>2, <1>3, <2>11, <3>2, <3>3
    <3>4. CASE x \in TheItems(o1)
      BY <1>13, <2>11, <3>2, <3>4
    <3>5. CASE x.of = he /\ x.at = t
      <4>1. x.of[2] = h.seq /\ x.at = h.at
        BY <2>4, <2>5, <3>5
      <4>2. ASSUME NEW z \in G PROVE Trails(x, z)
        <5>1. Before(h, z) /\ z \in W
          BY <1>2, <2>1, <2>11
        <5>2. z.at \in Nat /\ z.seq \in Nat
          BY <1>4, <5>1
        <5>3. QED BY <2>2, <4>1, <5>1, <5>2, Orders
      <4>3. QED BY <2>1, <4>1, <4>2
    <3>6. QED BY <2>10, <3>3, <3>4, <3>5
  <2>14. Run(tp, s, p, A, C, B, Nothing, o2, G)
    <3>1. InHold(Nothing) = {} /\ G \union {} = G /\ \A z \in G : z \in W
      BY <1>2, <2>11, InHoldIs
    <3>2. \A z \in G : DraftOK(tp, s, p, z) /\ z.seq \in C
      BY <1>3, <3>1
    <3>3. \A y, z \in G : y.seq = z.seq => y = z
      BY <1>3, <3>1
    <3>4. Told(tp, s, o2, {p} \X (C \ Seqs(G)))
      BY <2>10, <2>12
    <3>5. QED BY <2>10, <2>13, <3>1, <3>2, <3>3, <3>4 DEF Run
  <2>15. Emit(acc, d) = [hold |-> Nothing, out |-> o2]
    BY <1>1, <1>10, <1>14, <2>4, <2>9 DEF Emit
  <2>16. QED BY <1>0, <2>11, <2>14, <2>15
<1>15. ASSUME h = Nothing /\ d.reorder PROVE Gives(new)
  <2>1. W = F /\ InHold(d) = {d} /\ (F \ {d}) \union InHold(d) = F
    <3>1. InHold(h) = {} /\ d # Nothing
      BY <1>4, <1>5, <1>15, InHoldIs
    <3>2. InHold(d) = {d}
      BY <3>1, InHoldIs
    <3>3. QED BY <1>2, <3>1, <3>2
  <2>2. Run(tp, s, p, A, C, B, d, o, F \ {d})
    BY <1>3, <2>1 DEF Run
  <2>3. Emit(acc, d) = [acc EXCEPT !.hold = d]
    BY <1>1, <1>15 DEF Emit
  <2>4. [acc EXCEPT !.hold = d] = [hold |-> d, out |-> o]
    BY <1>1
  <2>5. QED BY <1>0, <2>2, <2>3, <2>4
<1>16. ASSUME h = Nothing /\ ~ d.reorder PROVE Gives(new)
  <2>1. W = F /\ InHold(Nothing) = {}
    BY <1>2, <1>16, InHoldIs
  <2>2. PICK G : G = F \ {d}
    OBVIOUS
  <2>3. {p} \X (C \ Seqs(W)) \union {<<p, d.seq>>} = {p} \X (C \ Seqs(G))
    <3>1. Seqs(W) = Seqs(G) \union {d.seq}
      BY <2>1, <2>2 DEF Seqs
    <3>2. d.seq \notin Seqs(G)
      BY <1>3, <2>1, <2>2 DEF Seqs
    <3>3. d.seq \in C
      BY <1>3, <1>5
    <3>4. C \ Seqs(G) = (C \ Seqs(W)) \union {d.seq}
      BY <3>1, <3>2, <3>3
    <3>5. QED BY <3>4
  <2>4. \A x \in A \union TheItems(o1) : x.of[1] = p => x.at \in B /\ \A z \in G : Trails(x, z)
    BY <1>2, <1>3, <1>13, <2>2
  <2>5. Run(tp, s, p, A, C, B, Nothing, o1, G)
    <3>1. G \union InHold(Nothing) = G /\ \A z \in G : z \in W
      BY <1>2, <2>1, <2>2
    <3>2. \A z \in G : DraftOK(tp, s, p, z) /\ z.seq \in C
      BY <1>3, <3>1
    <3>3. \A y, z \in G : y.seq = z.seq => y = z
      BY <1>3, <3>1
    <3>4. Told(tp, s, o1, {p} \X (C \ Seqs(G)))
      BY <1>12, <2>3
    <3>5. QED BY <1>12, <2>1, <2>4, <3>1, <3>2, <3>3, <3>4 DEF Run
  <2>6. Emit(acc, d) = [acc EXCEPT !.out = o1]
    BY <1>1, <1>10, <1>16 DEF Emit
  <2>7. [acc EXCEPT !.out = o1] = [hold |-> Nothing, out |-> o1]
    BY <1>1, <1>16
  <2>8. QED BY <1>0, <2>2, <2>5, <2>6, <2>7
<1>17. PICK x, y : new = [hold |-> x, out |-> y] /\ Run(tp, s, p, A, C, B, x, y, F \ {d})
  BY <1>14, <1>15, <1>16
<1>18. new.hold = x /\ new.out = y
  BY <1>17
<1>19. QED BY <1>0, <1>17, <1>18 DEF Running

-----------------------------------------------------------------------------
(* What a transformer sends of its heap, in order.                          *)

EmitFrom(t) == [hold |-> t.hold, out |-> <<>>]

Emits(t, due, n, g) ==
  g = [i \in 0..n |-> IF i = 0 THEN EmitFrom(t) ELSE Emit(g[i - 1], due[i])]

LEMMA EmitIs ==
  ASSUME NEW t, NEW drafts
  PROVE  LET due == InOrder(drafts)
             n == Len(InOrder(drafts))
             end == (CHOOSE g : Emits(t, due, n, g))[n]
         IN  Emitted(t, drafts) =
               [t |-> [rng |-> t.rng, seq |-> t.seq, heap |-> t.heap \ drafts, hold |-> end.hold],
                 out |-> end.out]
BY Zenon DEF Emitted, Emits, EmitFrom

LEMMA EmitExists ==
  ASSUME NEW t, NEW due, NEW n \in Nat
  PROVE  \E g : Emits(t, due, n, g)
<1> DEFINE E(f, i) == IF i = 0 THEN EmitFrom(t) ELSE Emit(f[i - 1], due[i])
           Good(f, m) == \A i \in 0..n : i <= m => f[i] = E(f, i)
           Bad == {m \in Nat : ~\E f : Good(f, m)}
<1>1. SUFFICES ASSUME Bad # {} PROVE FALSE
  <2>1. Bad = {} => \E f : Good(f, n)
    <3> HIDE DEF Good
    <3>1. QED OBVIOUS
  <2>2. ASSUME NEW f, Good(f, n) PROVE \E g : Emits(t, due, n, g)
    <3>1. \A i \in 0..n : i <= n
      OBVIOUS
    <3>2. \A i \in 0..n : f[i] = E(f, i)
      <4> HIDE DEF E
      <4>1. QED BY <2>2, <3>1
    <3> DEFINE g == [i \in 0..n |-> f[i]]
    <3>3. \A i \in 0..n : g[i] = E(g, i)
      <4>1. ASSUME NEW i \in 0..n PROVE E(f, i) = E(g, i)
        <5>1. i = 0 \/ i - 1 \in 0..n
          OBVIOUS
        <5>2. QED BY <5>1
      <4> HIDE DEF E
      <4>2. QED BY <3>2, <4>1
    <3>4. g = [i \in 0..n |-> E(g, i)]
      <4>1. g = [i \in 0..n |-> g[i]]
        OBVIOUS
      <4>2. [i \in 0..n |-> g[i]] = [i \in 0..n |-> E(g, i)]
        <5> HIDE DEF g, E
        <5>1. QED BY <3>3
      <4>3. QED BY <4>1, <4>2
    <3> HIDE DEF g
    <3>5. Emits(t, due, n, g)
      BY <3>4, Zenon DEF Emits
    <3>6. QED BY <3>5
  <2> HIDE DEF Bad, Good
  <2>3. QED BY <2>1, <2>2
<1>2. PICK m \in Bad : m \in Nat /\ \A k \in Nat : k < m => k \notin Bad
  <2>1. Bad \subseteq Nat
    OBVIOUS
  <2> HIDE DEF Bad
  <2>2. QED BY <1>1, <2>1, LeastOf
<1>3. m \in Nat /\ ~\E f : Good(f, m)
  <2> HIDE DEF Good
  <2>1. QED BY <1>2
<1>4. m # 0
  <2>1. SUFFICES ASSUME m = 0 PROVE \E f : Good(f, m)
    BY <1>3
  <2> DEFINE f == [i \in 0..n |-> EmitFrom(t)]
  <2>2. \A i \in 0..n : i <= m => i = 0
    BY <2>1
  <2>3. \A i \in 0..n : i = 0 => f[i] = E(f, i)
    OBVIOUS
  <2>4. Good(f, m)
    <3> HIDE DEF f, E
    <3>1. QED BY <2>2, <2>3
  <2> HIDE DEF f, Good
  <2>5. QED BY <2>4
<1>5. PICK f : Good(f, m - 1)
  <2>1. m - 1 \in Nat /\ m - 1 < m
    BY <1>3, <1>4
  <2>2. m - 1 \notin Bad
    <3> HIDE DEF Bad
    <3>1. QED BY <1>2, <2>1
  <2> HIDE DEF Good
  <2>3. QED BY <2>1, <2>2
<1> HIDE DEF Bad
<1> DEFINE h == [i \in 0..n |-> E(f, i)]
<1>6. ASSUME NEW i \in 0..n, i <= m PROVE h[i] = E(h, i)
  <2>1. CASE i = 0
    BY <2>1
  <2>2. CASE i # 0
    <3>1. i - 1 \in 0..n /\ i - 1 <= m - 1
      BY <1>3, <1>6, <2>2
    <3>2. f[i - 1] = E(f, i - 1) /\ h[i - 1] = E(f, i - 1)
      <4> HIDE DEF E
      <4>1. QED BY <1>5, <3>1
    <3>3. h[i] = E(f, i)
      OBVIOUS
    <3>4. E(f, i) = Emit(f[i - 1], due[i]) /\ E(h, i) = Emit(h[i - 1], due[i])
      BY <2>2
    <3> HIDE DEF h, E
    <3>5. QED BY <3>2, <3>3, <3>4
  <2>3. QED BY <2>1, <2>2
<1>7. Good(h, m)
  BY <1>6
<1> HIDE DEF h, Good
<1>8. QED BY <1>3, <1>7

Due(tp, s, p, A, C, B, t, D) ==
  /\ p \in Partitions /\ A \subseteq Item /\ C \subseteq Nat /\ CountsCopies(tp, s, p)
  /\ t = [rng |-> t.rng, seq |-> t.seq, heap |-> t.heap, hold |-> t.hold]
  /\ Run(tp, s, p, A, C, B, t.hold, <<>>, t.heap)
  /\ D \subseteq t.heap /\ IsFiniteSet(D)
  /\ \A d \in D : d.at \in B /\ \A e \in t.heap \ D : Before(d, e)

(* The transformer after a drain: what is drained is gone from the heap.    *)
Drained(tp, s, p, A, C, B, t, D, end) ==
  /\ end.t = [rng |-> t.rng, seq |-> t.seq, heap |-> t.heap \ D, hold |-> end.t.hold]
  /\ Run(tp, s, p, A, C, B, end.t.hold, end.out, t.heap \ D)

(* What is due is sent, or one of it held; the rest waits as before.        *)
LEMMA EmittedRuns ==
  ASSUME NEW tp, NEW s, NEW p, NEW A, NEW C, NEW B, NEW t, NEW D, Due(tp, s, p, A, C, B, t, D),
         NEW end, end = Emitted(t, D)
  PROVE  Drained(tp, s, p, A, C, B, t, D, end)
<1> /\ p \in Partitions /\ A \subseteq Item /\ C \subseteq Nat /\ CountsCopies(tp, s, p)
    /\ t = [rng |-> t.rng, seq |-> t.seq, heap |-> t.heap, hold |-> t.hold]
    /\ Run(tp, s, p, A, C, B, t.hold, <<>>, t.heap)
    /\ D \subseteq t.heap /\ IsFiniteSet(D)
    /\ \A d \in D : d.at \in B /\ \A e \in t.heap \ D : Before(d, e)
  BY DEF Due
<1>1. PICK H : H = t.heap
  OBVIOUS
<1>2. PICK due, n : due = InOrder(D) /\ n = Len(InOrder(D))
  OBVIOUS
<1>3. \A z \in H : DraftOK(tp, s, p, z)
  BY <1>1 DEF Run
<1>4. \A y, z \in H : y.seq = z.seq => y = z
  BY <1>1 DEF Run
<1>5. Keyed(D)
  BY <1>1, <1>3, <1>4 DEF Keyed, DraftOK
<1>6. /\ n \in Nat /\ due \in [1..n -> D]
      /\ \A i, j \in 1..n : i < j => Before(due[i], due[j]) /\ due[i] # due[j]
      /\ \A d \in D : \E i \in 1..n : due[i] = d
  BY <1>2, <1>5, Enumerates
<1>7. PICK g : /\ Emits(t, due, n, g)
               /\ Emitted(t, D) = [t |-> [rng |-> t.rng, seq |-> t.seq, heap |-> t.heap \ D,
                                          hold |-> g[n].hold],
                                   out |-> g[n].out]
  <2>1. \E g : Emits(t, due, n, g)
    BY <1>6, EmitExists
  <2>2. Emits(t, due, n, CHOOSE g : Emits(t, due, n, g))
    BY <2>1, Zenon
  <2>3. LET acc == (CHOOSE g : Emits(t, due, n, g))[n]
        IN  Emitted(t, D) = [t |-> [rng |-> t.rng, seq |-> t.seq, heap |-> t.heap \ D,
                                    hold |-> acc.hold],
                             out |-> acc.out]
    BY <1>2, EmitIs, Zenon
  <2>4. QED BY <2>2, <2>3, Zenon
<1>8. g[0] = EmitFrom(t) /\ \A i \in 0..n : i # 0 => g[i] = Emit(g[i - 1], due[i])
  BY <1>6, <1>7 DEF Emits
<1> DEFINE Others(i) == {z \in H : \A j \in 1..i : z # due[j]}
           Good(i) == Running(tp, s, p, A, C, B, g[i], Others(i))
           Bad == {i \in 0..n : ~ Good(i)}
<1>9. Good(0)
  <2>1. Others(0) = t.heap
    BY <1>1
  <2>2. PICK a : a = g[0]
    OBVIOUS
  <2>3. a = [hold |-> t.hold, out |-> <<>>]
    BY <1>8, <2>2 DEF EmitFrom
  <2>4. a.hold = t.hold /\ a.out = <<>> /\ a = [hold |-> a.hold, out |-> a.out]
    BY <2>3
  <2>5. Running(tp, s, p, A, C, B, a, t.heap)
    BY <2>4 DEF Running
  <2> HIDE DEF Others
  <2>6. QED BY <2>1, <2>2, <2>5
<1>10. ASSUME NEW i \in 1..n, Good(i - 1) PROVE Good(i)
  <2>1. PICK F, d, acc : F = Others(i - 1) /\ d = due[i] /\ acc = g[i - 1]
    OBVIOUS
  <2>2. /\ i \in 0..n /\ i # 0 /\ g[i] = Emit(acc, d)
    BY <1>6, <1>8, <2>1
  <2>3. d \in D /\ d \in F /\ d.at \in B
    <3>1. d \in D /\ d.at \in B
      BY <1>6, <2>1
    <3>2. \A j \in 1..(i - 1) : j \in 1..n /\ j < i
      BY <1>6
    <3>3. \A j \in 1..(i - 1) : d # due[j]
      BY <1>6, <2>1, <3>2
    <3>4. QED BY <1>1, <2>1, <3>1, <3>3
  <2>4. ASSUME NEW e \in F \ {d} PROVE Before(d, e)
    <3>1. e \in H /\ \A j \in 1..(i - 1) : e # due[j]
      BY <2>1
    <3>2. CASE e \in D
      <4>1. PICK k \in 1..n : due[k] = e
        BY <1>6, <3>2
      <4>2. k \notin 1..(i - 1) /\ k # i
        BY <2>1, <2>4, <3>1, <4>1
      <4>3. i < k
        BY <1>6, <4>2
      <4>4. QED BY <1>6, <2>1, <4>1, <4>3
    <3>3. CASE e \notin D
      BY <1>1, <2>3, <3>1, <3>3
    <3>4. QED BY <3>2, <3>3
  <2>5. Running(tp, s, p, A, C, B, acc, F)
    <3> HIDE DEF Others
    <3>1. QED BY <1>10, <2>1
  <2>6. IsNext(F, B, d)
    BY <2>3, <2>4 DEF IsNext
  <2>7. Running(tp, s, p, A, C, B, Emit(acc, d), F \ {d})
    BY <2>5, <2>6, EmitStep
  <2>8. F \ {d} = Others(i)
    <3>1. \A z : (\A j \in 1..i : z # due[j]) <=> (\A j \in 1..(i - 1) : z # due[j]) /\ z # due[i]
      <4>1. \A j : j \in 1..i <=> j \in 1..(i - 1) \/ j = i
        BY <1>6
      <4>2. QED BY <4>1
    <3>2. QED BY <2>1, <3>1
  <2> HIDE DEF Others
  <2>9. QED BY <2>2, <2>7, <2>8
<1>11. Bad = {}
  <2>1. SUFFICES ASSUME Bad # {} PROVE FALSE
    OBVIOUS
  <2>2. Bad \subseteq Nat
    BY <1>6
  <2>3. PICK i \in Bad : i \in Nat /\ \A m \in Nat : m < i => m \notin Bad
    <3> HIDE DEF Bad
    <3>1. QED BY <2>1, <2>2, LeastOf
  <2>4. i \in 0..n /\ ~ Good(i)
    <3> HIDE DEF Good
    <3>1. QED OBVIOUS
  <2>5. i # 0
    <3> HIDE DEF Good
    <3>1. QED BY <1>9, <2>4
  <2>6. i - 1 \in Nat /\ i - 1 < i /\ i - 1 \in 0..n /\ i \in 1..n
    BY <1>6, <2>4, <2>5
  <2>7. Good(i - 1)
    <3> HIDE DEF Good
    <3>1. QED BY <2>3, <2>6
  <2> HIDE DEF Good, Bad
  <2>8. QED BY <1>10, <2>4, <2>6, <2>7
<1>12. Good(n)
  <2>1. n \in 0..n
    BY <1>6
  <2> HIDE DEF Good
  <2>2. QED BY <1>11, <2>1
<1>13. Others(n) = t.heap \ D
  <2>1. \A z \in H : (\A j \in 1..n : z # due[j]) <=> z \notin D
    BY <1>6
  <2>2. QED BY <1>1, <2>1
<1> HIDE DEF Good, Others, Bad
<1>14. Run(tp, s, p, A, C, B, g[n].hold, g[n].out, t.heap \ D)
  BY <1>12, <1>13 DEF Good, Running
<1>15. PICK em : em = end
  OBVIOUS
<1>16. PICK u : u = [rng |-> t.rng, seq |-> t.seq, heap |-> t.heap \ D, hold |-> g[n].hold]
  OBVIOUS
<1>17. em = [t |-> u, out |-> g[n].out]
  BY <1>7, <1>15, <1>16, Zenon
<1>18. em.t = u /\ em.out = g[n].out /\ u.hold = g[n].hold
  BY <1>16, <1>17
<1>19. Run(tp, s, p, A, C, B, em.t.hold, em.out, t.heap \ D)
  BY <1>14, <1>18
<1>20. em.t = [rng |-> t.rng, seq |-> t.seq, heap |-> t.heap \ D, hold |-> em.t.hold]
  BY <1>16, <1>18, Zenon
<1>21. Drained(tp, s, p, A, C, B, t, D, em)
  BY <1>19, <1>20 DEF Drained
<1>22. QED BY <1>15, <1>21

-----------------------------------------------------------------------------
(* A day's events are pushed, in order.                                     *)

Feed1(tp, s, p, d, u, i) ==
  Push(u, p, Start(d) + tp.events[p][d + 1][i], Fate(tp, s, p, u.rng + 1))

Feeds(tp, s, p, d, t, n, g) ==
  g = [i \in 0..n |-> IF i = 0 THEN t ELSE Feed1(tp, s, p, d, g[i - 1], i)]

LEMMA FeedIs ==
  ASSUME NEW tp, NEW s, NEW p, NEW d, NEW t
  PROVE  LET n == Len(tp.events[p][d + 1])
         IN  Fed(tp, s, p, d, t) = (CHOOSE g : Feeds(tp, s, p, d, t, n, g))[n]
BY Zenon DEF Fed, Feeds, Feed1

LEMMA FeedExists ==
  ASSUME NEW tp, NEW s, NEW p, NEW d, NEW t, NEW n \in Nat
  PROVE  \E g : Feeds(tp, s, p, d, t, n, g)
<1> DEFINE E(f, i) == IF i = 0 THEN t ELSE Feed1(tp, s, p, d, f[i - 1], i)
           Good(f, m) == \A i \in 0..n : i <= m => f[i] = E(f, i)
           Bad == {m \in Nat : ~\E f : Good(f, m)}
<1>1. SUFFICES ASSUME Bad # {} PROVE FALSE
  <2>1. Bad = {} => \E f : Good(f, n)
    <3> HIDE DEF Good
    <3>1. QED OBVIOUS
  <2>2. ASSUME NEW f, Good(f, n) PROVE \E g : Feeds(tp, s, p, d, t, n, g)
    <3>1. \A i \in 0..n : i <= n
      OBVIOUS
    <3>2. \A i \in 0..n : f[i] = E(f, i)
      <4> HIDE DEF E
      <4>1. QED BY <2>2, <3>1
    <3> DEFINE g == [i \in 0..n |-> f[i]]
    <3>3. \A i \in 0..n : g[i] = E(g, i)
      <4>1. ASSUME NEW i \in 0..n PROVE E(f, i) = E(g, i)
        <5>1. i = 0 \/ i - 1 \in 0..n
          OBVIOUS
        <5>2. QED BY <5>1
      <4> HIDE DEF E
      <4>2. QED BY <3>2, <4>1
    <3>4. g = [i \in 0..n |-> E(g, i)]
      <4>1. g = [i \in 0..n |-> g[i]]
        OBVIOUS
      <4>2. [i \in 0..n |-> g[i]] = [i \in 0..n |-> E(g, i)]
        <5> HIDE DEF g, E
        <5>1. QED BY <3>3
      <4>3. QED BY <4>1, <4>2
    <3> HIDE DEF g
    <3>5. Feeds(tp, s, p, d, t, n, g)
      BY <3>4, Zenon DEF Feeds
    <3>6. QED BY <3>5
  <2> HIDE DEF Bad, Good
  <2>3. QED BY <2>1, <2>2
<1>2. PICK m \in Bad : m \in Nat /\ \A k \in Nat : k < m => k \notin Bad
  <2>1. Bad \subseteq Nat
    OBVIOUS
  <2> HIDE DEF Bad
  <2>2. QED BY <1>1, <2>1, LeastOf
<1>3. m \in Nat /\ ~\E f : Good(f, m)
  <2> HIDE DEF Good
  <2>1. QED BY <1>2
<1>4. m # 0
  <2>1. SUFFICES ASSUME m = 0 PROVE \E f : Good(f, m)
    BY <1>3
  <2> DEFINE f == [i \in 0..n |-> t]
  <2>2. \A i \in 0..n : i <= m => i = 0
    BY <2>1
  <2>3. \A i \in 0..n : i = 0 => f[i] = E(f, i)
    OBVIOUS
  <2>4. Good(f, m)
    <3> HIDE DEF f, E
    <3>1. QED BY <2>2, <2>3
  <2> HIDE DEF f, Good
  <2>5. QED BY <2>4
<1>5. PICK f : Good(f, m - 1)
  <2>1. m - 1 \in Nat /\ m - 1 < m
    BY <1>3, <1>4
  <2>2. m - 1 \notin Bad
    <3> HIDE DEF Bad
    <3>1. QED BY <1>2, <2>1
  <2> HIDE DEF Good
  <2>3. QED BY <2>1, <2>2
<1> HIDE DEF Bad
<1> DEFINE h == [i \in 0..n |-> E(f, i)]
<1>6. ASSUME NEW i \in 0..n, i <= m PROVE h[i] = E(h, i)
  <2>1. CASE i = 0
    BY <2>1
  <2>2. CASE i # 0
    <3>1. i - 1 \in 0..n /\ i - 1 <= m - 1
      BY <1>3, <1>6, <2>2
    <3>2. f[i - 1] = E(f, i - 1) /\ h[i - 1] = E(f, i - 1)
      <4> HIDE DEF E
      <4>1. QED BY <1>5, <3>1
    <3>3. h[i] = E(f, i)
      OBVIOUS
    <3>4. E(f, i) = Feed1(tp, s, p, d, f[i - 1], i) /\ E(h, i) = Feed1(tp, s, p, d, h[i - 1], i)
      BY <2>2
    <3> HIDE DEF h, E
    <3>5. QED BY <3>2, <3>3, <3>4
  <2>3. QED BY <2>1, <2>2
<1>7. Good(h, m)
  BY <1>6
<1> HIDE DEF h, Good
<1>8. QED BY <1>3, <1>7

(* What a day's first i events make of a transformer that has numbered c.   *)
Feeding(tp, s, p, d, c, t, i, u) ==
  /\ u = [rng |-> c + i, seq |-> c + i, heap |-> u.heap, hold |-> t.hold]
  /\ IsFiniteSet(u.heap) /\ t.heap \subseteq u.heap
  /\ \A z \in u.heap : z \notin t.heap =>
       DraftOK(tp, s, p, z) /\ z.seq \in c..(c + i - 1) /\ z.at >= Start(d)
  /\ \A y, z \in u.heap : y \notin t.heap /\ z \notin t.heap /\ y.seq = z.seq => y = z
  /\ \A k \in c..(c + i - 1) : \E z \in u.heap : z \notin t.heap /\ z.seq = k

FateKind == [late : BOOLEAN, reorder : BOOLEAN, extras : Nat]

LEMMA DrawnDraft ==
  ASSUME LiveWorldAssumption, NEW tp, NEW s, NEW p, NEW seq \in Nat, NEW ts \in Nat,
         Fate(tp, s, p, seq + 1) \in FateKind
  PROVE  LET z == Draft(p, seq, ts, Fate(tp, s, p, seq + 1))
         IN  DraftOK(tp, s, p, z) /\ z.seq = seq /\ z.at \in Nat /\ z.at >= ts
<1>1. PICK fate : fate = Fate(tp, s, p, seq + 1)
  OBVIOUS
<1>2. fate.late \in BOOLEAN /\ fate.reorder \in BOOLEAN /\ fate.extras \in Nat /\ LateBy \in Nat
  BY <1>1 DEF FateKind, LiveWorldAssumption
<1>3. PICK at : at = ts + (IF fate.late THEN LateBy ELSE 0)
  OBVIOUS
<1>4. at \in Nat /\ at >= ts
  BY <1>2, <1>3
<1>5. Draft(p, seq, ts, fate) = [at |-> at, seq |-> seq, items |-> Copies(p, seq, at, fate.extras),
                                 reorder |-> fate.reorder]
  BY <1>3, Zenon DEF Draft
<1>6. fate.extras = Extras(tp, s, <<p, seq>>)
  BY <1>1 DEF Extras
<1>7. PICK z : z = Draft(p, seq, ts, fate)
  OBVIOUS
<1>8. z = [at |-> at, seq |-> seq, items |-> Copies(p, seq, at, Extras(tp, s, <<p, seq>>)),
           reorder |-> fate.reorder]
  BY <1>5, <1>6, <1>7, Zenon
<1>9. z.at = at /\ z.seq = seq /\ z.reorder = fate.reorder
  BY <1>8
<1>10. DraftOK(tp, s, p, z)
  <2>1. z = [at |-> z.at, seq |-> z.seq, reorder |-> z.reorder,
             items |-> Copies(p, z.seq, z.at, Extras(tp, s, <<p, z.seq>>))]
    BY <1>8, <1>9
  <2>2. QED BY <1>2, <1>4, <1>9, <2>1 DEF DraftOK
<1>11. QED BY <1>1, <1>4, <1>7, <1>9, <1>10

Fated(tp, s, p) == \A n \in Nat : Fate(tp, s, p, n + 1) \in FateKind

LEMMA StartIs ==
  ASSUME LiveWorldAssumption, NEW d \in Nat
  PROVE  /\ Start(d) \in Nat /\ Start(d + 1) = Start(d) + DayTicks /\ DayTicks \in Nat \ {0}
         /\ DayEnd(d) = Start(d + 1) - 1
<1>1. DayTicks \in Nat \ {0}
  BY DEF LiveWorldAssumption
<1>2. Start(d) \in Nat
  BY <1>1 DEF Start
<1>3. Start(d + 1) = Start(d) + DayTicks
  BY <1>1 DEF Start
<1>4. QED BY <1>1, <1>2, <1>3 DEF DayEnd

LEMMA FeedsOne ==
  ASSUME LiveWorldAssumption, NEW tp, NEW s, NEW p, Fated(tp, s, p), NEW d \in Nat, NEW c \in Nat,
         NEW t, NEW i \in Nat, NEW u, Feeding(tp, s, p, d, c, t, i, u),
         tp.events[p][d + 1][i + 1] \in Nat, \A z \in t.heap : z.seq \in Nat /\ z.seq < c
  PROVE  Feeding(tp, s, p, d, c, t, i + 1, Feed1(tp, s, p, d, u, i + 1))
<1>1. /\ u = [rng |-> c + i, seq |-> c + i, heap |-> u.heap, hold |-> t.hold]
      /\ IsFiniteSet(u.heap) /\ t.heap \subseteq u.heap
      /\ \A z \in u.heap : z \notin t.heap =>
           DraftOK(tp, s, p, z) /\ z.seq \in c..(c + i - 1) /\ z.at >= Start(d)
      /\ \A y, z \in u.heap : y \notin t.heap /\ z \notin t.heap /\ y.seq = z.seq => y = z
      /\ \A k \in c..(c + i - 1) : \E z \in u.heap : z \notin t.heap /\ z.seq = k
  BY DEF Feeding
<1>2. u.rng = c + i /\ u.seq = c + i /\ u.hold = t.hold /\ c + i \in Nat
  BY <1>1
<1>3. PICK n, ts : n = c + i /\ ts = Start(d) + tp.events[p][d + 1][i + 1]
  OBVIOUS
<1>4. n \in Nat /\ ts \in Nat /\ ts >= Start(d) /\ Start(d) \in Nat
  BY <1>3, StartIs
<1>5. Fate(tp, s, p, n + 1) \in FateKind
  BY <1>4 DEF Fated
<1>6. PICK z : z = Draft(p, n, ts, Fate(tp, s, p, n + 1))
  OBVIOUS
<1>7. DraftOK(tp, s, p, z) /\ z.seq = n /\ z.at \in Nat /\ z.at >= Start(d)
  BY <1>4, <1>5, <1>6, DrawnDraft
<1>8. PICK v, H : v = Feed1(tp, s, p, d, u, i + 1) /\ H = u.heap \union {z}
  OBVIOUS
<1>9. v = [rng |-> n + 1, seq |-> n + 1, heap |-> H, hold |-> t.hold]
  <2>1. v = Push(u, p, ts, Fate(tp, s, p, n + 1))
    BY <1>2, <1>3, <1>8 DEF Feed1
  <2>2. v = [rng |-> u.rng + 1, seq |-> u.seq + 1,
             heap |-> u.heap \union {Draft(p, u.seq, ts, Fate(tp, s, p, n + 1))},
             hold |-> u.hold]
    BY <2>1, Zenon DEF Push
  <2>3. u.heap \union {Draft(p, u.seq, ts, Fate(tp, s, p, n + 1))} = H
    BY <1>2, <1>3, <1>6, <1>8
  <2>4. u.rng = n /\ u.seq = n
    BY <1>2, <1>3
  <2>5. QED BY <1>2, <2>2, <2>3, <2>4
<1>10. v.heap = H
  BY <1>9
<1>11. z \notin t.heap
  <2>1. \A y \in t.heap : y.seq < c
    OBVIOUS
  <2>2. QED BY <1>3, <1>7, <2>1
<1>12. \A y \in u.heap : y \notin t.heap => y.seq # n
  BY <1>1, <1>3
<1>13. v = [rng |-> c + (i + 1), seq |-> c + (i + 1), heap |-> v.heap, hold |-> t.hold]
  <2>1. n + 1 = c + (i + 1)
    BY <1>3
  <2>2. QED BY <1>9, <1>10, <2>1
<1>14. IsFiniteSet(v.heap) /\ t.heap \subseteq v.heap
  BY <1>1, <1>8, <1>10, FS_AddElement
<1>15. \A y \in v.heap : y \notin t.heap =>
         DraftOK(tp, s, p, y) /\ y.seq \in c..(c + (i + 1) - 1) /\ y.at >= Start(d)
  <2>1. \A k : k \in c..(c + (i + 1) - 1) <=> k \in c..(c + i - 1) \/ k = n
    BY <1>3
  <2>2. \A y \in v.heap : y \in u.heap \/ y = z
    BY <1>8, <1>10
  <2>3. QED BY <1>1, <1>7, <2>1, <2>2
<1>16. \A x, y \in v.heap : x \notin t.heap /\ y \notin t.heap /\ x.seq = y.seq => x = y
  <2>1. \A y \in v.heap : y \in u.heap \/ y = z
    BY <1>8, <1>10
  <2>2. QED BY <1>1, <1>7, <1>12, <2>1
<1>17. \A k \in c..(c + (i + 1) - 1) : \E y \in v.heap : y \notin t.heap /\ y.seq = k
  <2>1. TAKE k \in c..(c + (i + 1) - 1)
  <2>2. CASE k \in c..(c + i - 1)
    BY <1>1, <1>8, <1>10, <2>2
  <2>3. CASE k = n
    BY <1>7, <1>8, <1>10, <1>11, <2>3
  <2>4. QED BY <1>3, <2>1, <2>2, <2>3
<1>18. QED BY <1>8, <1>13, <1>14, <1>15, <1>16, <1>17 DEF Feeding

(* The day's events are numbered on, and wait with the rest.                *)
LEMMA FedFeeds ==
  ASSUME LiveWorldAssumption, NEW tp, NEW s, NEW p, Fated(tp, s, p), NEW d \in Nat, NEW c \in Nat,
         NEW t, t = [rng |-> c, seq |-> c, heap |-> t.heap, hold |-> t.hold], IsFiniteSet(t.heap),
         \A z \in t.heap : z.seq \in Nat /\ z.seq < c, tp.events[p][d + 1] \in Seq(Moments)
  PROVE  Feeding(tp, s, p, d, c, t, Len(tp.events[p][d + 1]), Fed(tp, s, p, d, t))
<1>1. PICK n : n = Len(tp.events[p][d + 1])
  OBVIOUS
<1>2. n \in Nat /\ \A i \in 1..n : tp.events[p][d + 1][i] \in Nat
  <2>1. Moments \subseteq Nat
    BY DEF LiveWorldAssumption
  <2>2. PICK l : l = tp.events[p][d + 1]
    OBVIOUS
  <2>3. l \in Seq(Moments) /\ n = Len(l)
    BY <1>1, <2>2
  <2>4. n \in Nat /\ \A i \in 1..n : l[i] \in Nat
    BY <2>1, <2>3
  <2>5. QED BY <2>2, <2>4
<1>3. PICK g : Feeds(tp, s, p, d, t, n, g) /\ Fed(tp, s, p, d, t) = g[n]
  <2>1. \E g : Feeds(tp, s, p, d, t, n, g)
    BY <1>2, FeedExists
  <2>2. Feeds(tp, s, p, d, t, n, CHOOSE g : Feeds(tp, s, p, d, t, n, g))
    BY <2>1, Zenon
  <2>3. Fed(tp, s, p, d, t) = (CHOOSE g : Feeds(tp, s, p, d, t, n, g))[n]
    BY <1>1, FeedIs, Zenon
  <2>4. QED BY <2>2, <2>3, Zenon
<1>4. g[0] = t /\ \A i \in 0..n : i # 0 => g[i] = Feed1(tp, s, p, d, g[i - 1], i)
  <2>1. g = [i \in 0..n |-> IF i = 0 THEN t ELSE Feed1(tp, s, p, d, g[i - 1], i)]
    BY <1>3, Zenon DEF Feeds
  <2>2. 0 \in 0..n
    BY <1>2
  <2>3. g[0] = t
    BY <2>1, <2>2, Zenon
  <2>4. \A i \in 0..n : i # 0 => g[i] = Feed1(tp, s, p, d, g[i - 1], i)
    BY <2>1, Zenon
  <2>5. QED BY <2>3, <2>4
<1> DEFINE Good(i) == Feeding(tp, s, p, d, c, t, i, g[i])
           Bad == {i \in 0..n : ~ Good(i)}
<1>5. Good(0)
  <2>1. c + 0 = c /\ c..(c + 0 - 1) = {}
    OBVIOUS
  <2>2. Feeding(tp, s, p, d, c, t, 0, t)
    BY <2>1 DEF Feeding
  <2>3. QED BY <1>4, <2>2
<1>6. ASSUME NEW i \in 1..n, Good(i - 1) PROVE Good(i)
  <2>1. PICK j, u : j = i - 1 /\ u = g[i - 1]
    OBVIOUS
  <2>2. j \in Nat /\ j + 1 = i /\ i \in 0..n /\ i # 0
    BY SMTT(30), <1>2, <2>1
  <2>3. Feeding(tp, s, p, d, c, t, j, u)
    BY <1>6, <2>1
  <2>4. g[i] = Feed1(tp, s, p, d, u, j + 1)
    BY <1>4, <2>1, <2>2
  <2>5. tp.events[p][d + 1][j + 1] \in Nat
    BY <1>2, <2>2
  <2>6. Feeding(tp, s, p, d, c, t, j + 1, Feed1(tp, s, p, d, u, j + 1))
    BY <2>2, <2>3, <2>5, FeedsOne
  <2>7. QED BY <2>2, <2>4, <2>6
<1>7. Bad = {}
  <2>1. SUFFICES ASSUME Bad # {} PROVE FALSE
    OBVIOUS
  <2>2. Bad \subseteq Nat
    BY <1>2
  <2>3. PICK i \in Bad : i \in Nat /\ \A m \in Nat : m < i => m \notin Bad
    <3> HIDE DEF Bad
    <3>1. QED BY <2>1, <2>2, LeastOf
  <2>4. i \in 0..n /\ ~ Good(i)
    <3> HIDE DEF Good
    <3>1. QED OBVIOUS
  <2>5. i # 0
    <3> HIDE DEF Good
    <3>1. QED BY <1>5, <2>4
  <2>6. i - 1 \in Nat /\ i - 1 < i /\ i - 1 \in 0..n /\ i \in 1..n
    BY <1>2, <2>4, <2>5
  <2>7. Good(i - 1)
    <3> HIDE DEF Good
    <3>1. QED BY <2>3, <2>6
  <2> HIDE DEF Good, Bad
  <2>8. QED BY <1>6, <2>4, <2>6, <2>7
<1>8. Good(n)
  <2>1. n \in 0..n
    BY <1>2
  <2> HIDE DEF Good
  <2>2. QED BY <1>7, <2>1
<1>9. QED BY <1>1, <1>3, <1>8

-----------------------------------------------------------------------------
(* The events of the first d days, numbered from 0.                         *)

Count(tp, p, d) == Len(FlattenSeq(SubSeq(tp.events[p], 1, d)))

LEMMA CountMore ==
  ASSUME NEW tp, NEW p, tp.events[p] \in Seq(Seq(Moments)), NEW d \in Nat, d < Len(tp.events[p])
  PROVE  /\ Count(tp, p, d) \in Nat /\ Len(tp.events[p][d + 1]) \in Nat
         /\ tp.events[p][d + 1] \in Seq(Moments)
         /\ Count(tp, p, d + 1) = Count(tp, p, d) + Len(tp.events[p][d + 1])
<1>1. PICK e : e = tp.events[p]
  OBVIOUS
<1>2. e \in Seq(Seq(Moments)) /\ d < Len(e) /\ Len(e) \in Nat /\ d + 1 \in 1..Len(e)
  BY <1>1
<1>3. PICK l, m, n : l = e[d + 1] /\ m = SubSeq(e, 1, d) /\ n = SubSeq(e, 1, d + 1)
  OBVIOUS
<1>4. l \in Seq(Moments) /\ m \in Seq(Seq(Moments)) /\ n = Append(m, l)
  <2>1. l \in Seq(Moments)
    BY <1>2, <1>3
  <2>2. m \in Seq(Seq(Moments)) /\ Len(m) = d /\ \A i \in 1..d : m[i] = e[i]
    BY <1>2, <1>3
  <2>3. n \in Seq(Seq(Moments)) /\ Len(n) = d + 1 /\ \A i \in 1..(d + 1) : n[i] = e[i]
    BY <1>2, <1>3
  <2>4. Append(m, l) \in Seq(Seq(Moments)) /\ Len(Append(m, l)) = d + 1
    BY <2>1, <2>2
  <2>5. \A i \in 1..(d + 1) : Append(m, l)[i] = n[i]
    BY <1>3, <2>1, <2>2, <2>3
  <2>6. n = Append(m, l)
    BY <2>3, <2>4, <2>5
  <2>7. QED BY <2>1, <2>2, <2>6
<1>5. FlattenSeq(m) \in Seq(Moments) /\ FlattenSeq(n) = FlattenSeq(m) \o l
  BY <1>4, FlattenAppend
<1>6. PICK f : f = FlattenSeq(m)
  OBVIOUS
<1>7. Len(f \o l) = Len(f) + Len(l) /\ Len(f) \in Nat /\ Len(l) \in Nat
  BY <1>4, <1>5, <1>6
<1>8. Count(tp, p, d) = Len(f) /\ Count(tp, p, d + 1) = Len(f \o l)
  BY <1>1, <1>3, <1>5, <1>6 DEF Count
<1>9. QED BY <1>1, <1>3, <1>4, <1>7, <1>8

LEMMA CountNone == ASSUME NEW tp, NEW p PROVE Count(tp, p, 0) = 0
<1>1. PICK m : m = SubSeq(tp.events[p], 1, 0)
  OBVIOUS
<1>2. Len(m) = 0 /\ m = <<>>
  BY <1>1
<1>3. FlattenSeq(m) = m
  BY <1>2, FlattenIs
<1>4. QED BY <1>1, <1>2, <1>3 DEF Count

-----------------------------------------------------------------------------
(* A transformer between two days.                                          *)

Pend(t) == t.heap \union InHold(t.hold)

Queue(tp, s, p, d, t) ==
  /\ t = [rng |-> Count(tp, p, d), seq |-> Count(tp, p, d), heap |-> t.heap, hold |-> t.hold]
  /\ IsFiniteSet(t.heap)
  /\ \A z \in Pend(t) : DraftOK(tp, s, p, z) /\ z.seq < Count(tp, p, d)
  /\ \A y, z \in Pend(t) : y.seq = z.seq => y = z
  /\ \A z \in t.heap : z.at >= Start(d)
  /\ \A z \in InHold(t.hold) : z.at < Start(d)

(* What was sent before belongs before what waits, and before the day.      *)
Lagging(p, A, d, t) ==
  \A x \in A : x.of[1] = p => x.at < Start(d) /\ \A z \in Pend(t) : Trails(x, z)

(* The events of p that a transformer has sent by day d.                    *)
Gone(tp, p, d, t) == {k \in Nat : k < Count(tp, p, d) /\ k \notin Seqs(Pend(t))}

LEMMA FatedCounted == ASSUME NEW tp, NEW s, NEW p, Fated(tp, s, p) PROVE CountsCopies(tp, s, p)
<1>1. SUFFICES ASSUME NEW i \in Nat PROVE Extras(tp, s, <<p, i>>) \in Nat
  BY DEF CountsCopies
<1>2. Fate(tp, s, p, i + 1) \in FateKind
  BY DEF Fated
<1>3. Fate(tp, s, p, i + 1).extras \in Nat
  BY <1>2 DEF FateKind
<1>4. QED BY <1>3 DEF Extras

(* All of a heap and the hold slot, about to be sent.                       *)
LEMMA RunFrom ==
  ASSUME NEW tp, NEW s, NEW p, NEW A, NEW B, NEW u,
         \A z \in Pend(u) : DraftOK(tp, s, p, z),
         \A y, z \in Pend(u) : y.seq = z.seq => y = z,
         \A z \in InHold(u.hold) : z.at \in B /\ \A y \in u.heap : Before(z, y),
         \A x \in A : x.of[1] = p => x.at \in B /\ \A z \in Pend(u) : Trails(x, z)
  PROVE  /\ Run(tp, s, p, A, Seqs(Pend(u)), B, u.hold, <<>>, u.heap)
         /\ Seqs(Pend(u)) \subseteq Nat
<1>1. PICK W : W = u.heap \union InHold(u.hold)
  OBVIOUS
<1>2. Pend(u) = W
  BY <1>1 DEF Pend
<1>3. Told(tp, s, <<>>, {p} \X (Seqs(W) \ Seqs(W)))
  <2>1. {p} \X (Seqs(W) \ Seqs(W)) = {}
    OBVIOUS
  <2>2. QED BY <2>1, ToldNone
<1>4. Tells(A, <<>>)
  BY DEF Tells
<1>5. TheItems(<<>>) = {}
  BY DEF TheItems
<1>6. \A z \in W : DraftOK(tp, s, p, z) /\ z.seq \in Seqs(W)
  BY <1>2 DEF Seqs
<1>7. Seqs(W) \subseteq Nat
  BY <1>6 DEF Seqs, DraftOK
<1>8. \A x \in A \union TheItems(<<>>) :
        x.of[1] = p => x.at \in B /\ \A z \in W : Trails(x, z)
  BY <1>2, <1>5
<1>9. \A y, z \in W : y.seq = z.seq => y = z
  BY <1>2
<1>10. Run(tp, s, p, A, Seqs(W), B, u.hold, <<>>, u.heap)
  BY <1>1, <1>3, <1>4, <1>6, <1>8, <1>9 DEF Run
<1>11. QED BY <1>2, <1>7, <1>10

(* What a transformer sends of a day.                                       *)
Sends1(tp, s, p, A, d, t, r, N) ==
  /\ Queue(tp, s, p, d + 1, r.t) /\ Lagging(p, A \union TheItems(r.out), d + 1, r.t)
  /\ Told(tp, s, r.out, {p} \X N) /\ Tells(A, r.out)
  /\ \A k \in Nat : k \in N => k \notin Gone(tp, p, d, t)
  /\ \A k \in Nat : k \in Gone(tp, p, d + 1, r.t) <=> k \in Gone(tp, p, d, t) \/ k \in N

LEMMA DayPasses ==
  ASSUME LiveWorldAssumption, NEW tp, NEW s, NEW p \in Partitions, Fated(tp, s, p), NEW d \in Nat,
         tp.events[p] \in Seq(Seq(Moments)), d < Len(tp.events[p]), NEW t, Queue(tp, s, p, d, t),
         NEW A, A \subseteq Item, Lagging(p, A, d, t)
  PROVE  \E N : Sends1(tp, s, p, A, d, t, DrainUntil(Fed(tp, s, p, d, t), DayEnd(d)), N)
<1>1. PICK c, m, u : c = Count(tp, p, d) /\ m = Len(tp.events[p][d + 1]) /\ u = Fed(tp, s, p, d, t)
  OBVIOUS
<1>2. /\ c \in Nat /\ m \in Nat /\ Count(tp, p, d + 1) = c + m
      /\ tp.events[p][d + 1] \in Seq(Moments)
  BY <1>1, CountMore
<1>3. /\ Start(d) \in Nat /\ Start(d + 1) \in Nat /\ Start(d) < Start(d + 1)
      /\ DayEnd(d) = Start(d + 1) - 1
  <2>1. PICK a, b, k : a = Start(d) /\ b = Start(d + 1) /\ k = DayTicks
    OBVIOUS
  <2>2. a \in Nat /\ b = a + k /\ k \in Nat \ {0} /\ DayEnd(d) = b - 1
    BY <2>1, StartIs
  <2>3. a < b
    BY <2>2
  <2>4. QED BY ONLY <2>1, <2>2, <2>3
<1>4. /\ t = [rng |-> c, seq |-> c, heap |-> t.heap, hold |-> t.hold] /\ IsFiniteSet(t.heap)
      /\ \A z \in Pend(t) : DraftOK(tp, s, p, z) /\ z.seq < c
      /\ \A y, z \in Pend(t) : y.seq = z.seq => y = z
      /\ \A z \in t.heap : z.at >= Start(d)
      /\ \A z \in InHold(t.hold) : z.at < Start(d)
  BY <1>1 DEF Queue
<1>5. \A z \in Pend(t) : z.seq \in Nat /\ z.at \in Nat
  BY <1>4 DEF DraftOK
<1>6. Feeding(tp, s, p, d, c, t, m, u)
  <2>1. \A z \in t.heap : z.seq \in Nat /\ z.seq < c
    BY <1>4, <1>5 DEF Pend
  <2>2. QED BY <1>1, <1>2, <1>4, <2>1, FedFeeds
<1>7. /\ u = [rng |-> c + m, seq |-> c + m, heap |-> u.heap, hold |-> t.hold]
      /\ IsFiniteSet(u.heap) /\ t.heap \subseteq u.heap
      /\ \A z \in u.heap : z \notin t.heap =>
           DraftOK(tp, s, p, z) /\ z.seq \in c..(c + m - 1) /\ z.at >= Start(d)
      /\ \A y, z \in u.heap : y \notin t.heap /\ z \notin t.heap /\ y.seq = z.seq => y = z
      /\ \A k \in c..(c + m - 1) : \E z \in u.heap : z \notin t.heap /\ z.seq = k
  BY <1>6 DEF Feeding
<1>8. u.hold = t.hold /\ u.rng = c + m /\ u.seq = c + m
  BY <1>7
<1> DEFINE New(z) == z \in u.heap /\ z \notin t.heap
<1>9. \A z : z \in Pend(u) <=> z \in Pend(t) \/ New(z)
  BY <1>7, <1>8 DEF Pend
<1>10. \A z : New(z) => /\ DraftOK(tp, s, p, z) /\ z.seq \in c..(c + m - 1)
                        /\ z.at >= Start(d) /\ z.at \in Nat
  BY <1>7 DEF DraftOK
<1>11. \A y, z : New(y) /\ New(z) /\ y.seq = z.seq => y = z
  BY <1>7
<1>12. \A z \in u.heap : z.at >= Start(d) /\ z.at \in Nat
  <2>1. \A z \in u.heap : z \in t.heap \/ New(z)
    OBVIOUS
  <2>2. \A z \in t.heap : z \in Pend(t)
    BY DEF Pend
  <2> HIDE DEF New
  <2>3. QED BY <1>4, <1>5, <1>10, <2>1, <2>2
<1> HIDE DEF New
<1>13. \A z \in Pend(u) : DraftOK(tp, s, p, z) /\ z.seq < c + m /\ z.seq \in Nat /\ z.at \in Nat
  <2>1. TAKE z \in Pend(u)
  <2>2. CASE z \in Pend(t)
    <3>1. DraftOK(tp, s, p, z) /\ z.seq < c
      BY <1>4, <2>2
    <3>2. z.seq \in Nat /\ z.at \in Nat
      BY <1>5, <2>2
    <3>3. z.seq < c + m
      BY <1>2, <3>1, <3>2
    <3>4. QED BY <3>1, <3>2, <3>3
  <2>3. CASE New(z)
    <3>1. \A k \in c..(c + m - 1) : k \in Nat /\ k < c + m
      BY <1>2
    <3>2. QED BY <1>10, <2>3, <3>1
  <2>4. QED BY <1>9, <2>2, <2>3
<1>14. \A y, z \in Pend(u) : y.seq = z.seq => y = z
  <2>1. TAKE y, z \in Pend(u)
  <2>2. HAVE y.seq = z.seq
  <2>3. CASE y \in Pend(t) /\ z \in Pend(t)
    BY <1>4, <2>2, <2>3
  <2>4. CASE New(y) /\ New(z)
    BY <1>11, <2>2, <2>4
  <2>5. CASE y \in Pend(t) /\ New(z)
    BY SMTT(30), <1>2, <1>4, <1>5, <1>10, <2>2, <2>5
  <2>6. CASE New(y) /\ z \in Pend(t)
    BY <1>2, <1>4, <1>5, <1>10, <2>2, <2>6
  <2>7. QED BY <1>9, <2>3, <2>4, <2>5, <2>6
<1> DEFINE B == {n \in Nat : n < Start(d + 1)}
           D == {z \in u.heap : z.at <= DayEnd(d)}
<1>15. \A z \in InHold(u.hold) : z.at \in B /\ \A y \in u.heap : Before(z, y)
  <2>1. TAKE z \in InHold(u.hold)
  <2>2. z \in Pend(t) /\ z.at < Start(d)
    BY <1>4, <1>8 DEF Pend
  <2>3. z.at \in B
    BY <1>3, <1>5, <2>2
  <2>4. \A y \in u.heap : Before(z, y)
    BY SMTT(30), <1>3, <1>5, <1>12, <2>2 DEF Before
  <2>5. QED BY <2>3, <2>4
<1>16. \A x \in A : x.of[1] = p => x.at \in B /\ \A z \in Pend(u) : Trails(x, z)
  <2>1. TAKE x \in A
  <2>2. HAVE x.of[1] = p
  <2>3. x.at \in Nat /\ x.at < Start(d) /\ \A z \in Pend(t) : Trails(x, z)
    BY <2>2 DEF Lagging, Item
  <2>4. x.at \in B
    BY <1>3, <2>3
  <2>5. ASSUME NEW z, New(z) PROVE Trails(x, z)
    <3>1. x.at \in Nat /\ x.at < Start(d) /\ z.at >= Start(d) /\ z.at \in Nat /\ Start(d) \in Nat
      BY <1>3, <1>10, <2>3, <2>5
    <3>2. x.at < z.at
      BY <3>1
    <3>3. QED BY <3>2 DEF Trails
  <2>6. QED BY <1>9, <2>3, <2>4, <2>5
<1>17. /\ Run(tp, s, p, A, Seqs(Pend(u)), B, u.hold, <<>>, u.heap)
       /\ Seqs(Pend(u)) \subseteq Nat
  <2> HIDE DEF B
  <2>1. QED BY <1>13, <1>14, <1>15, <1>16, RunFrom
<1>18. \A z \in D : z.at \in B /\ \A e \in u.heap \ D : Before(z, e)
  <2>1. TAKE z \in D
  <2>2. z.at \in B
    BY <1>3, <1>12
  <2>3. \A e \in u.heap \ D : Before(z, e)
    BY SMTT(30), <1>3, <1>12 DEF Before
  <2>4. QED BY <2>2, <2>3
<1>19. D \subseteq u.heap /\ IsFiniteSet(D)
  BY <1>7, FS_Subset
<1>20. \A z \in u.heap \ D : z.at >= Start(d + 1)
  BY SMTT(30), <1>3, <1>12
<1>21. PICK r : r = DrainUntil(u, DayEnd(d))
  OBVIOUS
<1>22. r = Emitted(u, D)
  BY <1>21, Zenon DEF DrainUntil
<1> HIDE DEF B, D
<1>23. PICK C, H : C = Seqs(Pend(u)) /\ H = u.heap \ D
  OBVIOUS
<1>24. /\ r.t = [rng |-> u.rng, seq |-> u.seq, heap |-> H, hold |-> r.t.hold]
       /\ Run(tp, s, p, A, C, B, r.t.hold, r.out, H)
  <2>1. CountsCopies(tp, s, p)
    BY FatedCounted
  <2>2. u = [rng |-> u.rng, seq |-> u.seq, heap |-> u.heap, hold |-> u.hold]
    BY <1>7, <1>8
  <2>3. C \subseteq Nat /\ Run(tp, s, p, A, C, B, u.hold, <<>>, u.heap)
    BY <1>17, <1>23
  <2>4. Due(tp, s, p, A, C, B, u, D)
    BY <1>18, <1>19, <2>1, <2>2, <2>3 DEF Due
  <2>5. Drained(tp, s, p, A, C, B, u, D, r)
    <3>1. PICK E, T : E = D /\ T = B
      OBVIOUS
    <3>2. Due(tp, s, p, A, C, T, u, E) /\ r = Emitted(u, E)
      BY <1>22, <2>4, <3>1
    <3>3. Drained(tp, s, p, A, C, T, u, E, r)
      BY ONLY <3>2, EmittedRuns
    <3>4. QED BY <3>1, <3>3
  <2>6. QED BY <1>23, <2>5 DEF Drained
<1>25. PICK v, o : v = r.t /\ o = r.out
  OBVIOUS
<1>26. v.heap = H /\ v.rng = c + m /\ v.seq = c + m /\ Pend(v) = H \union InHold(v.hold)
  BY <1>8, <1>24, <1>25 DEF Pend
<1>27. /\ \A z \in Pend(v) : DraftOK(tp, s, p, z) /\ z.seq \in C
       /\ \A y, z \in Pend(v) : y.seq = z.seq => y = z
       /\ \A z \in InHold(v.hold) : z.at \in B
       /\ Told(tp, s, o, {p} \X (C \ Seqs(Pend(v))))
       /\ Tells(A, o)
       /\ \A x \in A \union TheItems(o) :
            x.of[1] = p => x.at \in B /\ \A z \in Pend(v) : Trails(x, z)
  BY <1>24, <1>25, <1>26 DEF Run
<1>28. \A k \in C : k \in Nat /\ k < c + m
  BY <1>13, <1>23 DEF Seqs
<1>29. Queue(tp, s, p, d + 1, v)
  <2>1. v = [rng |-> c + m, seq |-> c + m, heap |-> v.heap, hold |-> v.hold]
    BY <1>8, <1>24, <1>25, <1>26
  <2>2. IsFiniteSet(v.heap)
    BY <1>7, <1>23, <1>26, FS_Subset
  <2>3. \A z \in Pend(v) : DraftOK(tp, s, p, z) /\ z.seq < c + m
    BY <1>27, <1>28
  <2>4. \A z \in v.heap : z.at >= Start(d + 1)
    BY <1>20, <1>23, <1>26
  <2>5. \A z \in InHold(v.hold) : z.at < Start(d + 1)
    BY <1>27 DEF B
  <2>6. QED BY <1>2, <1>27, <2>1, <2>2, <2>3, <2>4, <2>5 DEF Queue
<1>30. Lagging(p, A \union TheItems(o), d + 1, v)
  BY <1>27 DEF Lagging, B
<1> DEFINE N == C \ Seqs(Pend(v))
<1>31. \A k \in Nat : k \in C <=> k \in Seqs(Pend(t)) \/ k \in c..(c + m - 1)
  <2>1. TAKE k \in Nat
  <2>2. k \in C => k \in Seqs(Pend(t)) \/ k \in c..(c + m - 1)
    BY <1>9, <1>10, <1>23 DEF Seqs
  <2>3. k \in Seqs(Pend(t)) => k \in C
    BY <1>9, <1>23 DEF Seqs
  <2>4. k \in c..(c + m - 1) => k \in C
    <3>1. ASSUME k \in c..(c + m - 1) PROVE \E z : New(z) /\ z.seq = k
      BY <1>7, <3>1 DEF New
    <3>2. QED BY <1>9, <1>23, <3>1 DEF Seqs
  <2>5. QED BY <2>2, <2>3, <2>4
<1>32. \A k \in Seqs(Pend(t)) : k < c
  BY <1>4 DEF Seqs
<1>33. \A k \in Seqs(Pend(v)) : k \in C
  BY <1>27 DEF Seqs
<1>34. \A k \in Nat : k \in N => k \notin Gone(tp, p, d, t)
  <2>1. TAKE k \in Nat
  <2>2. HAVE k \in N
  <2>3. k \in Seqs(Pend(t)) \/ ~ (k < c)
    BY <1>2, <1>31, <2>2
  <2>4. QED BY <1>1, <2>3 DEF Gone
<1>35. \A k \in Nat : k \in Gone(tp, p, d + 1, v) <=> k \in Gone(tp, p, d, t) \/ k \in N
  <2>1. TAKE k \in Nat
  <2>2. k \in Gone(tp, p, d + 1, v) <=> k < c + m /\ k \notin Seqs(Pend(v))
    BY <1>2 DEF Gone
  <2>3. k \in Gone(tp, p, d, t) <=> k < c /\ k \notin Seqs(Pend(t))
    BY <1>1 DEF Gone
  <2>4. k < c + m <=> k < c \/ k \in c..(c + m - 1)
    BY <1>2
  <2>5. k \in C => k < c + m
    BY <1>28
  <2>6. QED BY <1>2, <1>31, <1>32, <1>33, <2>2, <2>3, <2>4, <2>5
<1>36. Sends1(tp, s, p, A, d, t, r, N)
  <2> HIDE DEF N
  <2>1. Told(tp, s, o, {p} \X N)
    BY <1>27 DEF N
  <2>2. QED BY <1>25, <1>27, <1>29, <1>30, <1>34, <1>35, <2>1 DEF Sends1
<1>37. QED BY <1>1, <1>21, <1>36

-----------------------------------------------------------------------------
(* The end of the history: all that waits is sent, and nothing is held.     *)
Flushed(tp, s, p, A, d, t, r) ==
  /\ Queue(tp, s, p, d, r.t) /\ r.t.heap = {} /\ r.t.hold = Nothing
  /\ Told(tp, s, r.out, {p} \X Seqs(Pend(t))) /\ Tells(A, r.out)

LEMMA FlushIs ==
  ASSUME NEW t, NEW end, end = Emitted(t, t.heap),
         end.t = [rng |-> t.rng, seq |-> t.seq, heap |-> {}, hold |-> end.t.hold]
  PROVE  /\ end.t.hold = Nothing => Flush(t) = end
         /\ end.t.hold # Nothing =>
              Flush(t) = [t   |-> [rng |-> t.rng, seq |-> t.seq, heap |-> {}, hold |-> Nothing],
                          out |-> end.out \o end.t.hold.items]
<1>1. PICK u : u = end.t
  OBVIOUS
<1>2. u = [rng |-> t.rng, seq |-> t.seq, heap |-> {}, hold |-> u.hold]
  BY <1>1
<1>3. [u EXCEPT !.hold = Nothing] = [rng |-> t.rng, seq |-> t.seq, heap |-> {}, hold |-> Nothing]
  BY <1>2
<1>4. Flush(t) = IF u.hold = Nothing THEN end
                 ELSE [t |-> [u EXCEPT !.hold = Nothing], out |-> end.out \o u.hold.items]
  BY <1>1, Zenon DEF Flush
<1>5. QED BY <1>1, <1>3, <1>4

LEMMA EmptyQueue ==
  ASSUME NEW tp, NEW s, NEW p, NEW d, NEW t, NEW c, c = Count(tp, p, d),
         t = [rng |-> c, seq |-> c, heap |-> {}, hold |-> Nothing]
  PROVE  Queue(tp, s, p, d, t) /\ t.heap = {} /\ t.hold = Nothing /\ Pend(t) = {}
<1>1. t.heap = {} /\ t.hold = Nothing
  OBVIOUS
<1>2. InHold(t.hold) = {}
  BY <1>1, InHoldIs
<1>3. Pend(t) = {}
  BY <1>1, <1>2 DEF Pend
<1>4. IsFiniteSet(t.heap)
  BY <1>1, FS_EmptySet
<1>5. QED BY <1>1, <1>2, <1>3, <1>4 DEF Queue

LEMMA FlushPasses ==
  ASSUME LiveWorldAssumption, NEW tp, NEW s, NEW p \in Partitions, Fated(tp, s, p), NEW d \in Nat,
         NEW t, Queue(tp, s, p, d, t), NEW A, A \subseteq Item, Lagging(p, A, d, t)
  PROVE  Flushed(tp, s, p, A, d, t, Flush(t))
<1>1. PICK c, C, B : c = Count(tp, p, d) /\ C = Seqs(Pend(t)) /\ B = Nat
  OBVIOUS
<1>2. /\ t = [rng |-> c, seq |-> c, heap |-> t.heap, hold |-> t.hold] /\ IsFiniteSet(t.heap)
      /\ \A z \in Pend(t) : DraftOK(tp, s, p, z)
      /\ \A y, z \in Pend(t) : y.seq = z.seq => y = z
      /\ \A z \in t.heap : z.at >= Start(d)
      /\ \A z \in InHold(t.hold) : z.at < Start(d)
  BY <1>1 DEF Queue
<1>3. \A z \in Pend(t) : z.seq \in Nat /\ z.at \in Nat
  BY <1>2 DEF DraftOK
<1>4. Start(d) \in Nat
  BY StartIs
<1>5. \A z \in InHold(t.hold) : z.at \in B /\ \A y \in t.heap : Before(z, y)
  <2>1. \A z \in InHold(t.hold) : z \in Pend(t)
    BY DEF Pend
  <2>2. \A y \in t.heap : y \in Pend(t)
    BY DEF Pend
  <2>3. QED BY <1>1, <1>2, <1>3, <1>4, <2>1, <2>2 DEF Before
<1>6. \A x \in A : x.of[1] = p => x.at \in B /\ \A z \in Pend(t) : Trails(x, z)
  BY <1>1 DEF Lagging, Item
<1>7. Run(tp, s, p, A, C, B, t.hold, <<>>, t.heap) /\ C \subseteq Nat
  <2>1. (\A z \in Pend(t) : DraftOK(tp, s, p, z)) /\ \A y, z \in Pend(t) : y.seq = z.seq => y = z
    BY <1>2
  <2>2. Run(tp, s, p, A, Seqs(Pend(t)), B, t.hold, <<>>, t.heap) /\ Seqs(Pend(t)) \subseteq Nat
    BY ONLY ZenonT(60), <1>5, <1>6, <2>1, RunFrom
  <2>3. QED BY <1>1, <2>2
<1>8. Due(tp, s, p, A, C, B, t, t.heap)
  <2>1. CountsCopies(tp, s, p)
    BY FatedCounted
  <2>2. t = [rng |-> t.rng, seq |-> t.seq, heap |-> t.heap, hold |-> t.hold]
    BY <1>2
  <2>3. \A z \in t.heap : z.at \in B /\ \A e \in t.heap \ t.heap : Before(z, e)
    BY <1>1, <1>3 DEF Pend
  <2>4. QED BY <1>2, <1>7, <2>1, <2>2, <2>3 DEF Due
<1>9. PICK end, D : end = Emitted(t, D) /\ D = t.heap
  OBVIOUS
<1>10. Drained(tp, s, p, A, C, B, t, D, end)
  <2>1. Due(tp, s, p, A, C, B, t, D) /\ end = Emitted(t, D)
    BY <1>8, <1>9
  <2>2. QED BY ONLY <2>1, EmittedRuns
<1>11. t.heap \ D = {}
  BY <1>9
<1>12. /\ end.t = [rng |-> t.rng, seq |-> t.seq, heap |-> {}, hold |-> end.t.hold]
       /\ Run(tp, s, p, A, C, B, end.t.hold, end.out, {})
  BY <1>10, <1>11 DEF Drained
<1>13. /\ end.t.hold = Nothing => Flush(t) = end
       /\ end.t.hold # Nothing =>
            Flush(t) = [t   |-> [rng |-> t.rng, seq |-> t.seq, heap |-> {}, hold |-> Nothing],
                        out |-> end.out \o end.t.hold.items]
  BY <1>9, <1>12, FlushIs
<1>14. PICK h, o, r : h = end.t.hold /\ o = end.out /\ r = Flush(t)
  OBVIOUS
<1>15. /\ \A z \in InHold(h) : DraftOK(tp, s, p, z) /\ z.seq \in C
       /\ Told(tp, s, o, {p} \X (C \ Seqs(InHold(h)))) /\ Tells(A, o)
       /\ \A x \in A \union TheItems(o) :
            x.of[1] = p => x.at \in B /\ \A z \in InHold(h) : Trails(x, z)
  <2>1. {} \union InHold(h) = InHold(h)
    OBVIOUS
  <2>2. QED BY <1>12, <1>14, <2>1 DEF Run
<1>16. t.rng = c /\ t.seq = c
  BY <1>2
<1>17. CASE h = Nothing
  <2>1. r = end /\ InHold(h) = {}
    BY <1>13, <1>14, <1>17, InHoldIs
  <2>2. C \ Seqs({}) = C
    BY DEF Seqs
  <2>3. Told(tp, s, r.out, {p} \X C) /\ Tells(A, r.out)
    BY <1>14, <1>15, <2>1, <2>2
  <2>4. r.t = [rng |-> c, seq |-> c, heap |-> {}, hold |-> Nothing]
    BY <1>12, <1>14, <1>16, <1>17, <2>1
  <2>5. Queue(tp, s, p, d, r.t) /\ r.t.heap = {} /\ r.t.hold = Nothing
    BY <1>1, <2>4, EmptyQueue
  <2>6. QED BY <1>1, <1>14, <2>3, <2>5 DEF Flushed
<1>18. CASE h # Nothing
  <2>1. InHold(h) = {h}
    BY <1>18, InHoldIs
  <2>2. DraftOK(tp, s, p, h) /\ h.seq \in C /\ h.at \in Nat /\ h.seq \in Nat
    BY <1>15, <2>1 DEF DraftOK
  <2>3. PICK he, m, at : he = <<p, h.seq>> /\ m = h.items /\ at = h.at
    OBVIOUS
  <2>4. /\ he \in Events /\ Extras(tp, s, he) \in Nat /\ Ofs(tp, s, m, he, at) /\ ~ Tagged(m)
        /\ he[1] = p /\ he[2] = h.seq
    <3>1. Extras(tp, s, <<p, h.seq>>) \in Nat
      BY <2>2, FatedCounted DEF CountsCopies
    <3>2. QED BY <2>2, <2>3, <3>1, ItemsOf DEF Events
  <2>5. PICK Q : Q = {p} \X (C \ Seqs({h}))
    OBVIOUS
  <2>6. Told(tp, s, o, Q) /\ Tells(A, o) /\ he \notin Q
    BY <1>15, <2>1, <2>3, <2>5 DEF Seqs
  <2>7. \A x \in A \union TheItems(o) : x \in Item
    <3>1. o \in Seq(Item)
      BY <2>6 DEF Told
    <3>2. \A x \in TheItems(o) : x \in Item
      BY <3>1 DEF TheItems
    <3>3. QED BY <3>2
  <2>8. ~ Late(A \union TheItems(o), he, at)
    <3>1. SUFFICES ASSUME NEW x \in A \union TheItems(o), x.of[1] = p
                   PROVE  ~ (x.at > h.at \/ (x.at = h.at /\ x.of[2] > h.seq))
      BY <2>3, <2>4 DEF Late
    <3>2. Trails(x, h) /\ x \in Item
      BY <1>15, <2>1, <2>7, <3>1
    <3>3. QED BY <2>2, <3>2, NoneBehind
  <2>9. Sendable(tp, s, A, o, Q, he, at, m)
    BY <2>4, <2>6, <2>8 DEF Sendable
  <2>10. Sent1(tp, s, A, o, Q, he, at, o \o m)
    BY <2>9, Sends
  <2>11. Q \union {he} = {p} \X C
    <3>1. Seqs({h}) = {h.seq}
      BY DEF Seqs
    <3>2. PICK q, D2 : q = h.seq /\ D2 = C \ {q}
      OBVIOUS
    <3>3. Q = {p} \X D2 /\ he = <<p, q>> /\ D2 \union {q} = C
      BY <2>2, <2>3, <2>5, <3>1, <3>2
    <3>4. {p} \X D2 \union {<<p, q>>} = {p} \X (D2 \union {q})
      OBVIOUS
    <3>5. QED BY <3>3, <3>4
  <2>12. PICK o2 : o2 = o \o m
    OBVIOUS
  <2>13. Told(tp, s, o2, {p} \X C) /\ Tells(A, o2)
    BY <2>10, <2>11, <2>12 DEF Sent1
  <2>14. r = [t |-> [rng |-> c, seq |-> c, heap |-> {}, hold |-> Nothing], out |-> o2]
    BY <1>13, <1>14, <1>16, <1>18, <2>3, <2>12
  <2>15. r.t = [rng |-> c, seq |-> c, heap |-> {}, hold |-> Nothing] /\ r.out = o2
    BY <2>14
  <2>16. Queue(tp, s, p, d, r.t) /\ r.t.heap = {} /\ r.t.hold = Nothing
    BY <1>1, <2>15, EmptyQueue
  <2>17. QED BY <1>1, <1>14, <2>13, <2>15, <2>16 DEF Flushed
<1>19. QED BY <1>17, <1>18

-----------------------------------------------------------------------------
(* The tape: days alike for all partitions, a fate for every event drawn.   *)
TapeDays(tp) == Len(tp.events[1])

TapeOK(tp) ==
  /\ tp.events \in [Partitions -> Seq(Seq(Moments))]
  /\ \A p \in Partitions : Len(tp.events[p]) = TapeDays(tp)
  /\ \A s \in Sinks \ Plain, p \in Partitions :
       tp.fates[s][p] \in Seq(Fates) /\ Len(tp.fates[s][p]) = Count(tp, p, TapeDays(tp))

(* A tape that has more days has the same events and fates on those it had. *)
Grows(tp, tq) ==
  /\ \A p \in Partitions, d \in 0..TapeDays(tp) : Count(tq, p, d) = Count(tp, p, d)
  /\ \A s \in Sinks, p \in Partitions, i \in Nat :
       i < Count(tp, p, TapeDays(tp)) => Fate(tq, s, p, i + 1) = Fate(tp, s, p, i + 1)

LEMMA TapeFated ==
  ASSUME LiveWorldAssumption, NEW tp, TapeOK(tp), NEW s \in Sinks, NEW p \in Partitions
  PROVE  Fated(tp, s, p)
<1>1. Whole \in FateKind /\ Fates \subseteq FateKind
  BY DEF Whole, FateKind, LiveWorldAssumption
<1>2. SUFFICES ASSUME NEW n \in Nat PROVE Fate(tp, s, p, n + 1) \in FateKind
  BY DEF Fated
<1>3. CASE s \in Plain
  BY <1>1, <1>3 DEF Fate
<1>4. CASE s \notin Plain
  <2>1. PICK f : f = tp.fates[s][p]
    OBVIOUS
  <2>2. f \in Seq(Fates)
    BY <1>4, <2>1 DEF TapeOK
  <2>3. CASE n + 1 > Len(f)
    BY <1>1, <2>1, <2>3 DEF Fate
  <2>4. CASE ~ (n + 1 > Len(f))
    <3>1. f[n + 1] \in Fates
      BY <2>2, <2>4
    <3>2. QED BY <1>1, <1>4, <2>1, <2>4, <3>1 DEF Fate
  <2>5. QED BY <2>3, <2>4
<1>5. QED BY <1>3, <1>4

LEMMA GrowsDraft ==
  ASSUME NEW tp, NEW tq, Grows(tp, tq), NEW s \in Sinks, NEW p \in Partitions,
         NEW k \in Nat, k < Count(tp, p, TapeDays(tp))
  PROVE  Extras(tq, s, <<p, k>>) = Extras(tp, s, <<p, k>>)
<1>1. Fate(tq, s, p, k + 1) = Fate(tp, s, p, k + 1)
  BY DEF Grows
<1>2. PICK e : e = <<p, k>>
  OBVIOUS
<1>3. e[1] = p /\ e[2] = k
  BY <1>2
<1>4. Extras(tq, s, e) = Extras(tp, s, e)
  BY <1>1, <1>3 DEF Extras
<1>5. QED BY <1>2, <1>4

(* What was told stays told.                                                *)
LEMMA GrowsTold ==
  ASSUME NEW tp, NEW tq, Grows(tp, tq), NEW s \in Sinks, NEW l, NEW Q, Told(tp, s, l, Q),
         \A e \in Q : e[2] < Count(tp, e[1], TapeDays(tp))
  PROVE  Told(tq, s, l, Q)
<1>1. ASSUME NEW e \in Q PROVE CopiesOf(tq, s, e) = CopiesOf(tp, s, e)
  <2>1. PICK p, k : p \in Partitions /\ k \in Nat /\ e = <<p, k>>
    BY DEF Told, Events
  <2>2. k < Count(tp, p, TapeDays(tp))
    BY <2>1
  <2>3. Extras(tq, s, e) = Extras(tp, s, e)
    BY <2>1, <2>2, GrowsDraft
  <2>4. QED BY <2>3 DEF CopiesOf
<1>2. /\ l \in Seq(Item) /\ Q \subseteq Events
      /\ \A i, j \in 1..Len(l) : Alike(l[i], l[j]) => i = j
      /\ \A i \in 1..Len(l) : l[i].of \in Q /\ <<l[i].of, l[i].copy>> \in CopiesOf(tp, s, l[i].of)
      /\ \A e \in Q : \A x \in CopiesOf(tp, s, e) :
           \E i \in 1..Len(l) : l[i].of = e /\ l[i].copy = x[2]
  BY DEF Told
<1>3. \A i \in 1..Len(l) : l[i].of \in Q /\ <<l[i].of, l[i].copy>> \in CopiesOf(tq, s, l[i].of)
  BY <1>1, <1>2
<1>4. \A e \in Q : \A x \in CopiesOf(tq, s, e) :
        \E i \in 1..Len(l) : l[i].of = e /\ l[i].copy = x[2]
  BY <1>1, <1>2
<1>5. QED BY <1>2, <1>3, <1>4 DEF Told

LEMMA GrowsQueue ==
  ASSUME NEW tp, NEW tq, Grows(tp, tq), NEW s \in Sinks, NEW p \in Partitions, TapeDays(tp) \in Nat,
         NEW t, Queue(tp, s, p, TapeDays(tp), t)
  PROVE  /\ Queue(tq, s, p, TapeDays(tp), t)
         /\ Count(tq, p, TapeDays(tp)) = Count(tp, p, TapeDays(tp))
         /\ Gone(tq, p, TapeDays(tp), t) = Gone(tp, p, TapeDays(tp), t)
<1>1. PICK d, c : d = TapeDays(tp) /\ c = Count(tp, p, d)
  OBVIOUS
<1>2. Count(tq, p, d) = c
  BY <1>1 DEF Grows
<1>3. ASSUME NEW z \in Pend(t) PROVE DraftOK(tq, s, p, z) /\ z.seq < c
  <2>1. DraftOK(tp, s, p, z) /\ z.seq < c
    BY <1>1 DEF Queue
  <2>2. z.seq \in Nat
    BY <2>1 DEF DraftOK
  <2>3. Extras(tq, s, <<p, z.seq>>) = Extras(tp, s, <<p, z.seq>>)
    BY <1>1, <2>1, <2>2, GrowsDraft
  <2>4. QED BY <2>1, <2>3 DEF DraftOK
<1>4. Queue(tq, s, p, d, t)
  BY <1>1, <1>2, <1>3 DEF Queue
<1>5. Gone(tq, p, d, t) = Gone(tp, p, d, t)
  BY <1>1, <1>2 DEF Gone
<1>6. QED BY <1>1, <1>2, <1>4, <1>5

LEMMA PlanLists ==
  ASSUME NEW plan \in Plans, LiveWorldAssumption, NEW s \in Impaired
  PROVE  /\ Len(plan) \in Nat
         /\ [i \in 1..Len(plan) |-> plan[i].at] \in Seq(Moments)
         /\ Len([i \in 1..Len(plan) |-> plan[i].at]) = Len(plan)
         /\ [i \in 1..Len(plan) |-> plan[i].fate[s]] \in Seq(Fates)
         /\ Len([i \in 1..Len(plan) |-> plan[i].fate[s]]) = Len(plan)
<1>1. PICK n \in 0..EventsPerDay : plan \in [1..n -> [at : Moments, fate : [Impaired -> Fates]]]
  BY DEF Plans
<1>2. n \in Nat /\ Len(plan) = n
  BY <1>1 DEF LiveWorldAssumption
<1>3. \A i \in 1..n : plan[i].at \in Moments /\ plan[i].fate[s] \in Fates
  BY <1>1
<1>4. QED BY <1>2, <1>3

LEMMA PlanList ==
  ASSUME NEW plan \in Plans, LiveWorldAssumption
  PROVE  /\ Len(plan) \in Nat
         /\ [i \in 1..Len(plan) |-> plan[i].at] \in Seq(Moments)
         /\ Len([i \in 1..Len(plan) |-> plan[i].at]) = Len(plan)
<1>1. PICK n \in 0..EventsPerDay : plan \in [1..n -> [at : Moments, fate : [Impaired -> Fates]]]
  BY DEF Plans
<1>2. n \in Nat /\ Len(plan) = n
  BY <1>1 DEF LiveWorldAssumption
<1>3. \A i \in 1..n : plan[i].at \in Moments
  BY <1>1
<1>4. QED BY <1>2, <1>3

(* Another day's events on a tape.                                          *)
Another(tp, tq) ==
  \E plan \in [Partitions -> Plans] :
    /\ tq.events = [p \in Partitions |->
                      Append(tp.events[p], [i \in 1..Len(plan[p]) |-> plan[p][i].at])]
    /\ tq.fates = [s \in Sinks |-> [p \in Partitions |->
                     IF s \in Plain THEN <<>>
                     ELSE tp.fates[s][p] \o [i \in 1..Len(plan[p]) |-> plan[p][i].fate[s]]]]

LEMMA DrawnIs ==
  ASSUME NEW d, NEW tq \in Drawn(d)
  PROVE  /\ d < TapeDays(tape) => tq = tape
         /\ ~ (d < TapeDays(tape)) => Another(tape, tq)
<1>1. CASE d < TapeDays(tape)
  BY <1>1 DEF Drawn, TapeDays
<1>2. CASE ~ (d < TapeDays(tape))
  <2>1. PICK plan \in {f \in [Partitions -> Plans] :
                        InAll([p \in Partitions |-> Happened(p) + Len(f[p])]) <= EventsInAll} :
          tq = [events |-> [p \in Partitions |->
                  Append(tape.events[p], [i \in 1..Len(plan[p]) |-> plan[p][i].at])],
                fates  |-> [s \in Sinks |-> [p \in Partitions |->
                  IF s \in Plain THEN <<>>
                  ELSE tape.fates[s][p] \o [i \in 1..Len(plan[p]) |-> plan[p][i].fate[s]]]]]
    BY <1>2, Zenon DEF Drawn, TapeDays
  <2>2. plan \in [Partitions -> Plans]
    OBVIOUS
  <2>3. PICK E, F :
          /\ E = [p \in Partitions |->
                    Append(tape.events[p], [i \in 1..Len(plan[p]) |-> plan[p][i].at])]
          /\ F = [s \in Sinks |-> [p \in Partitions |->
                    IF s \in Plain THEN <<>>
                    ELSE tape.fates[s][p] \o [i \in 1..Len(plan[p]) |-> plan[p][i].fate[s]]]]
    OBVIOUS
  <2>4. tq = [events |-> E, fates |-> F]
    BY <2>1, <2>3, Zenon
  <2>5. tq.events = E /\ tq.fates = F
    BY <2>4
  <2>6. Another(tape, tq)
    BY <2>2, <2>3, <2>5, Zenon DEF Another
  <2>7. QED BY <1>2, <2>6
<1>3. QED BY <1>1, <1>2

LEMMA EarlierDays ==
  ASSUME NEW S, NEW e \in Seq(S), NEW l \in S, NEW d \in 0..Len(e)
  PROVE  SubSeq(Append(e, l), 1, d) = SubSeq(e, 1, d)
OBVIOUS

LEMMA AnotherGrows ==
  ASSUME LiveWorldAssumption, NEW tp, TapeOK(tp), NEW tq, Another(tp, tq)
  PROVE  /\ TapeOK(tq) /\ Grows(tp, tq)
         /\ TapeDays(tp) \in Nat /\ TapeDays(tq) = TapeDays(tp) + 1
<1>1. PICK plan \in [Partitions -> Plans] :
        /\ tq.events = [p \in Partitions |->
                          Append(tp.events[p], [i \in 1..Len(plan[p]) |-> plan[p][i].at])]
        /\ tq.fates = [s \in Sinks |-> [p \in Partitions |->
                         IF s \in Plain THEN <<>>
                         ELSE tp.fates[s][p] \o [i \in 1..Len(plan[p]) |-> plan[p][i].fate[s]]]]
  BY DEF Another
<1>2. 1 \in Partitions
  BY DEF Partitions, LiveWorldAssumption
<1>3. PICK N : N = TapeDays(tp)
  OBVIOUS
<1>4. /\ \A p \in Partitions : tp.events[p] \in Seq(Seq(Moments)) /\ Len(tp.events[p]) = N
      /\ N \in Nat
  BY <1>2, <1>3 DEF TapeOK, TapeDays
<1>5. ASSUME NEW p \in Partitions
      PROVE  /\ tq.events[p] \in Seq(Seq(Moments)) /\ Len(tq.events[p]) = N + 1
             /\ \A d \in 0..N : Count(tq, p, d) = Count(tp, p, d)
             /\ Count(tp, p, N) \in Nat /\ Len(plan[p]) \in Nat
             /\ Count(tq, p, N + 1) = Count(tp, p, N) + Len(plan[p])
  <2>1. PICK e, l : e = tp.events[p] /\ l = [i \in 1..Len(plan[p]) |-> plan[p][i].at]
    OBVIOUS
  <2>2. l \in Seq(Moments) /\ Len(l) = Len(plan[p]) /\ Len(l) \in Nat
    <3>1. plan[p] \in Plans
      OBVIOUS
    <3>2. QED BY <2>1, <3>1, PlanList
  <2>3. e \in Seq(Seq(Moments)) /\ Len(e) = N
    BY <1>4, <2>1
  <2>4. tq.events[p] = Append(e, l)
    BY <1>1, <2>1
  <2>5. tq.events[p] \in Seq(Seq(Moments)) /\ Len(tq.events[p]) = N + 1 /\ tq.events[p][N + 1] = l
    BY <1>4, <2>2, <2>3, <2>4
  <2>6. \A d \in 0..N : SubSeq(tq.events[p], 1, d) = SubSeq(e, 1, d)
    BY <2>2, <2>3, <2>4, EarlierDays
  <2>7. \A d \in 0..N : Count(tq, p, d) = Count(tp, p, d)
    BY <2>1, <2>6 DEF Count
  <2>8. Count(tq, p, N) \in Nat /\ Count(tq, p, N + 1) = Count(tq, p, N) + Len(l)
    BY SMTT(30), <1>4, <2>5, CountMore
  <2>9. Count(tq, p, N) = Count(tp, p, N)
    BY <1>4, <2>7
  <2>10. QED BY <2>2, <2>5, <2>7, <2>8, <2>9
<1>6. TapeDays(tq) = N + 1
  BY <1>2, <1>5 DEF TapeDays
<1>7. tq.events \in [Partitions -> Seq(Seq(Moments))]
  BY <1>1, <1>5
<1>8. ASSUME NEW s \in Sinks, NEW p \in Partitions, s \notin Plain
      PROVE  /\ tq.fates[s][p] \in Seq(Fates) /\ Len(tq.fates[s][p]) = Count(tq, p, N + 1)
             /\ \A i \in Nat : i < Count(tp, p, N) => Fate(tq, s, p, i + 1) = Fate(tp, s, p, i + 1)
  <2>1. PICK f, l, g : /\ f = tp.fates[s][p] /\ g = tq.fates[s][p]
                       /\ l = [i \in 1..Len(plan[p]) |-> plan[p][i].fate[s]]
    OBVIOUS
  <2>2. g = f \o l
    <3>1. PICK X : X = [q \in Partitions |->
                          IF s \in Plain THEN <<>>
                          ELSE tp.fates[s][q] \o [i \in 1..Len(plan[q]) |-> plan[q][i].fate[s]]]
      OBVIOUS
    <3>2. tq.fates[s] = X
      BY <1>1, <3>1, Zenon
    <3>3. X[p] = tp.fates[s][p] \o [i \in 1..Len(plan[p]) |-> plan[p][i].fate[s]]
      BY <1>8, <3>1, Zenon
    <3>4. QED BY <2>1, <3>2, <3>3
  <2>3. f \in Seq(Fates) /\ Len(f) = Count(tp, p, N)
    BY <1>3, <1>8, <2>1 DEF TapeOK
  <2>4. l \in Seq(Fates) /\ Len(l) = Len(plan[p]) /\ Len(l) \in Nat
    <3>1. plan[p] \in Plans /\ s \in Impaired
      BY <1>8 DEF Impaired
    <3>2. QED BY <2>1, <3>1, PlanLists
  <2>5. g \in Seq(Fates) /\ Len(g) = Len(f) + Len(l) /\ \A i \in 1..Len(f) : g[i] = f[i]
    <3>1. f \in Seq(Fates) /\ l \in Seq(Fates)
      BY <2>3, <2>4
    <3>2. /\ f \o l \in Seq(Fates) /\ Len(f \o l) = Len(f) + Len(l)
          /\ \A i \in 1..Len(f) : (f \o l)[i] = f[i]
      BY ONLY <3>1, Joined
    <3>3. QED BY ONLY <2>2, <3>2
  <2>6. Len(g) = Count(tq, p, N + 1)
    BY <1>5, <2>3, <2>4, <2>5
  <2>7. ASSUME NEW i \in Nat, i < Len(f) PROVE Fate(tq, s, p, i + 1) = Fate(tp, s, p, i + 1)
    <3>0. Len(f) \in Nat
      BY <2>3
    <3>1. ~ (i + 1 > Len(f)) /\ ~ (i + 1 > Len(g)) /\ i + 1 \in 1..Len(f)
      <4>1. PICK m, k : m = Len(f) /\ k = Len(l)
        OBVIOUS
      <4>2. m \in Nat /\ k \in Nat /\ Len(g) = m + k /\ i < m
        BY <2>4, <2>5, <2>7, <3>0, <4>1
      <4>3. ~ (i + 1 > m) /\ ~ (i + 1 > m + k) /\ i + 1 \in 1..m
        BY <4>2
      <4>4. QED BY <4>1, <4>2, <4>3
    <3>2. Fate(tq, s, p, i + 1) = g[i + 1]
      BY <1>8, <2>1, <3>1 DEF Fate
    <3>3. Fate(tp, s, p, i + 1) = f[i + 1]
      BY <1>8, <2>1, <3>1 DEF Fate
    <3>4. QED BY <2>5, <3>1, <3>2, <3>3
  <2>8. QED BY <2>1, <2>3, <2>5, <2>6, <2>7
<1>9. TapeOK(tq)
  BY <1>5, <1>6, <1>7, <1>8 DEF TapeOK
<1>10. ASSUME NEW s \in Sinks, NEW p \in Partitions, NEW i \in Nat, i < Count(tp, p, N)
       PROVE  Fate(tq, s, p, i + 1) = Fate(tp, s, p, i + 1)
  <2>1. CASE s \in Plain
    BY <2>1 DEF Fate
  <2>2. CASE s \notin Plain
    BY <1>8, <1>10, <2>2
  <2>3. QED BY <2>1, <2>2
<1>11. Grows(tp, tq)
  BY <1>3, <1>5, <1>10 DEF Grows
<1>12. QED BY <1>3, <1>4, <1>6, <1>9, <1>11

(* A day that is simulated is on the tape: as it was, or drawn.             *)
DayOn(tp, tq, d) ==
  /\ TapeOK(tq) /\ d \in Nat /\ d < TapeDays(tq)
  /\ d < TapeDays(tp) => tq = tp
  /\ d = TapeDays(tp) => Grows(tp, tq) /\ TapeDays(tq) = d + 1

LEMMA DrawnOn ==
  ASSUME LiveWorldAssumption, TapeOK(tape), NEW d \in Nat, d <= TapeDays(tape), NEW tq \in Drawn(d)
  PROVE  DayOn(tape, tq, d)
<1>1. TapeDays(tape) \in Nat
  <2>1. 1 \in Partitions
    BY DEF Partitions, LiveWorldAssumption
  <2>2. QED BY <2>1 DEF TapeDays, TapeOK
<1>2. CASE d < TapeDays(tape)
  <2>1. tq = tape
    BY <1>2, DrawnIs
  <2>2. QED BY <1>1, <1>2, <2>1 DEF DayOn
<1>3. CASE d = TapeDays(tape)
  <2>1. Another(tape, tq)
    BY <1>1, <1>3, DrawnIs
  <2>2. /\ TapeOK(tq) /\ Grows(tape, tq) /\ TapeDays(tq) = TapeDays(tape) + 1
    BY <2>1, AnotherGrows
  <2>3. QED BY <1>1, <1>3, <2>2 DEF DayOn
<1>4. QED BY <1>1, <1>2, <1>3

-----------------------------------------------------------------------------
(* A day of a partition's history, and its end.                             *)
LEMMA ItemsIn == ASSUME NEW l \in Seq(Item) PROVE TheItems(l) \subseteq Item
BY DEF TheItems

LEMMA ItemsMore ==
  ASSUME NEW l \in Seq(Item), NEW m \in Seq(Item)
  PROVE  \A x : x \in TheItems(l \o m) <=> x \in TheItems(l) \/ x \in TheItems(m)
<1>1. /\ Len(l) \in Nat /\ Len(m) \in Nat
      /\ \A i \in 1..Len(l) : i \in 1..Len(l \o m) /\ (l \o m)[i] = l[i]
      /\ \A j \in 1..Len(m) : Len(l) + j \in 1..Len(l \o m) /\ (l \o m)[Len(l) + j] = m[j]
      /\ \A i \in 1..Len(l \o m) : i \in 1..Len(l) \/ \E j \in 1..Len(m) : i = Len(l) + j
  BY Joined
<1>2. TAKE x
<1>3. ASSUME x \in TheItems(l \o m) PROVE x \in TheItems(l) \/ x \in TheItems(m)
  <2>1. PICK i \in 1..Len(l \o m) : x = (l \o m)[i]
    BY <1>3 DEF TheItems
  <2>2. CASE i \in 1..Len(l)
    BY <1>1, <2>1, <2>2 DEF TheItems
  <2>3. CASE \E j \in 1..Len(m) : i = Len(l) + j
    BY <1>1, <2>1, <2>3 DEF TheItems
  <2>4. QED BY <1>1, <2>2, <2>3
<1>4. ASSUME x \in TheItems(l) PROVE x \in TheItems(l \o m)
  <2>1. PICK i \in 1..Len(l) : x = l[i]
    BY <1>4 DEF TheItems
  <2>2. i \in 1..Len(l \o m) /\ (l \o m)[i] = x
    BY <1>1, <2>1
  <2>3. QED BY <2>2 DEF TheItems
<1>5. ASSUME x \in TheItems(m) PROVE x \in TheItems(l \o m)
  <2>1. PICK j \in 1..Len(m) : x = m[j]
    BY <1>5 DEF TheItems
  <2>2. Len(l) + j \in 1..Len(l \o m) /\ (l \o m)[Len(l) + j] = x
    BY <1>1, <2>1
  <2>3. QED BY <2>2 DEF TheItems
<1>6. QED BY <1>3, <1>4, <1>5

Filed(tp, s, p, d, t, W) ==
  /\ Queue(tp, s, p, d, t) /\ Lagging(p, TheItems(W), d, t)
  /\ Told(tp, s, W, {p} \X Gone(tp, p, d, t)) /\ Tells({}, W)

LEMMA FileDay ==
  ASSUME LiveWorldAssumption, NEW tp, TapeOK(tp), NEW s \in Sinks, NEW p \in Partitions,
         NEW d \in Nat, d < TapeDays(tp), NEW t, NEW W, Filed(tp, s, p, d, t, W),
         NEW r, r = DrainUntil(Fed(tp, s, p, d, t), DayEnd(d))
  PROVE  Filed(tp, s, p, d + 1, r.t, W \o r.out) /\ r.out \in Seq(Item)
<1>1. /\ Queue(tp, s, p, d, t) /\ Lagging(p, TheItems(W), d, t)
      /\ Told(tp, s, W, {p} \X Gone(tp, p, d, t)) /\ Tells({}, W) /\ W \in Seq(Item)
  BY DEF Filed, Told
<1>2. Fated(tp, s, p) /\ tp.events[p] \in Seq(Seq(Moments)) /\ d < Len(tp.events[p])
  BY TapeFated DEF TapeOK
<1>3. PICK A : A = TheItems(W)
  OBVIOUS
<1>4. A \subseteq Item /\ Lagging(p, A, d, t)
  BY <1>1, <1>3, ItemsIn
<1>5. PICK N : Sends1(tp, s, p, A, d, t, r, N)
  BY <1>1, <1>2, <1>4, DayPasses
<1>6. /\ Queue(tp, s, p, d + 1, r.t) /\ Lagging(p, A \union TheItems(r.out), d + 1, r.t)
      /\ Told(tp, s, r.out, {p} \X N) /\ Tells(A, r.out)
      /\ \A k \in Nat : k \in N => k \notin Gone(tp, p, d, t)
      /\ \A k \in Nat : k \in Gone(tp, p, d + 1, r.t) <=> k \in Gone(tp, p, d, t) \/ k \in N
  BY <1>5 DEF Sends1
<1>7. r.out \in Seq(Item) /\ {p} \X N \subseteq Events
  BY <1>6 DEF Told
<1>8. PICK o, G, H : o = r.out /\ G = Gone(tp, p, d, t) /\ H = Gone(tp, p, d + 1, r.t)
  OBVIOUS
<1>9. G \subseteq Nat /\ H \subseteq Nat
  BY <1>8 DEF Gone
<1>10. \A k \in N : k \in Nat
  <2>1. \A k \in N : <<p, k>> \in Events
    BY <1>7
  <2>2. QED BY <2>1 DEF Events
<1>11. \A k : k \in H <=> k \in G \/ k \in N
  BY <1>6, <1>8, <1>9, <1>10
<1>12. H = G \union N
  BY <1>11
<1>13. {p} \X H = ({p} \X G) \union ({p} \X N)
  BY <1>12
<1>14. \A e \in {p} \X G : e \notin {p} \X N
  BY <1>6, <1>8, <1>9
<1>15. Told(tp, s, W \o o, {p} \X H)
  <2>1. PICK X, Y : X = {p} \X G /\ Y = {p} \X N
    OBVIOUS
  <2>2. Told(tp, s, W, X) /\ Told(tp, s, o, Y) /\ \A e \in X : e \notin Y
    BY <1>1, <1>6, <1>8, <1>14, <2>1
  <2>3. Told(tp, s, W \o o, X \union Y)
    BY <2>2, ToldMore
  <2>4. QED BY <1>13, <2>1, <2>3
<1>16. Tells({}, W \o o)
  BY <1>1, <1>3, <1>6, <1>7, <1>8, TellsMore
<1>17. Lagging(p, TheItems(W \o o), d + 1, r.t)
  <2>1. \A x : x \in TheItems(W \o o) <=> x \in A \/ x \in TheItems(o)
    BY <1>1, <1>3, <1>7, <1>8, ItemsMore
  <2>2. TheItems(W \o o) = A \union TheItems(o)
    BY <2>1
  <2>3. QED BY <1>6, <1>8, <2>2
<1>18. Filed(tp, s, p, d + 1, r.t, W \o o)
  BY <1>6, <1>8, <1>15, <1>16, <1>17 DEF Filed
<1>19. QED BY <1>7, <1>8, <1>18

(* The whole of the history is told.                                        *)
Over(tp, p) == {k \in Nat : k < Count(tp, p, HistoryDays)}

Complete(tp, s, p, t, W) ==
  /\ Queue(tp, s, p, HistoryDays, t) /\ t.heap = {} /\ t.hold = Nothing
  /\ Told(tp, s, W, {p} \X Over(tp, p)) /\ Tells({}, W)

LEMMA FileEnds ==
  ASSUME LiveWorldAssumption, NEW tp, TapeOK(tp), NEW s \in Sinks, NEW p \in Partitions,
         NEW t, NEW W, Filed(tp, s, p, HistoryDays, t, W), NEW r, r = Flush(t)
  PROVE  Complete(tp, s, p, r.t, W \o r.out)
<1>1. PICK d, G, A, C : /\ d = HistoryDays /\ G = Gone(tp, p, d, t)
                        /\ A = TheItems(W) /\ C = Seqs(Pend(t))
  OBVIOUS
<1>2. d \in Nat
  BY <1>1 DEF LiveWorldAssumption
<1>3. /\ Queue(tp, s, p, d, t) /\ Lagging(p, A, d, t)
      /\ Told(tp, s, W, {p} \X G) /\ Tells({}, W) /\ W \in Seq(Item)
  BY <1>1 DEF Filed, Told
<1>4. A \subseteq Item
  BY <1>1, <1>3, ItemsIn
<1>5. Flushed(tp, s, p, A, d, t, r)
  BY <1>2, <1>3, <1>4, TapeFated, FlushPasses
<1>6. /\ Queue(tp, s, p, d, r.t) /\ r.t.heap = {} /\ r.t.hold = Nothing
      /\ Told(tp, s, r.out, {p} \X C) /\ Tells(A, r.out) /\ r.out \in Seq(Item)
  BY <1>1, <1>5 DEF Flushed, Told
<1>7. G \union C = Over(tp, p)
  <2>1. \A k \in C : k \in Nat /\ k < Count(tp, p, d)
    <3>1. \A z \in Pend(t) : z.seq \in Nat /\ z.seq < Count(tp, p, d)
      BY <1>3 DEF Queue, DraftOK
    <3>2. QED BY <1>1, <3>1 DEF Seqs
  <2>2. \A k : k \in G \union C <=> k \in Over(tp, p)
    BY <1>1, <2>1 DEF Gone, Over
  <2>3. QED BY <2>2
<1>8. \A e \in {p} \X G : e \notin {p} \X C
  <2>1. \A k \in G : k \notin C
    BY <1>1 DEF Gone
  <2>2. QED BY <2>1
<1>9. PICK X, Y, o : X = {p} \X G /\ Y = {p} \X C /\ o = r.out
  OBVIOUS
<1>10. Told(tp, s, W \o o, X \union Y)
  <2>1. Told(tp, s, W, X) /\ Told(tp, s, o, Y) /\ \A e \in X : e \notin Y
    BY <1>3, <1>6, <1>8, <1>9
  <2>2. QED BY <2>1, ToldMore
<1>11. X \union Y = {p} \X Over(tp, p)
  BY <1>7, <1>9
<1>12. Tells({}, W \o o)
  BY <1>1, <1>3, <1>6, <1>9, TellsMore
<1>13. QED BY <1>1, <1>6, <1>9, <1>10, <1>11, <1>12 DEF Complete

-----------------------------------------------------------------------------
(* A live day of a sink's transformers, xs, and the stream of its days, L.  *)
LEMMA FromWoven ==
  ASSUME NEW lists, NEW out, Woven(lists, out)
  PROVE  \A k \in 1..Len(out) :
           \E p \in Partitions : \E j \in 1..Len(lists[p]) : out[k] = lists[p][j]
<1>1. PICK h : h = [p \in Partitions |-> Len(lists[p])]
  OBVIOUS
<1>2. \A p \in Partitions : h[p] = Len(lists[p])
  BY <1>1
<1>3. \A x \in TakenSoFar(h) : x[1] \in Partitions /\ x[2] \in 1..h[x[1]] /\ x = <<x[1], x[2]>>
  BY TakenIs
<1>4. PICK X : X = TakenSoFar(h)
  OBVIOUS
<1>5. PICK w : Weaves(lists, X, out, w)
  BY <1>1, <1>4 DEF Woven
<1>6. \A x \in X : x[1] \in Partitions /\ x[2] \in 1..Len(lists[x[1]]) /\ x = <<x[1], x[2]>>
  BY <1>2, <1>3, <1>4
<1>7. QED BY <1>5, <1>6, Strand

Since(tp, d, xs) ==
  {e \in Events : e[2] \in Gone(tp, e[1], d, xs[e[1]]) /\ e[2] \notin Over(tp, e[1])}

Streamed(tp, s, d, xs, L) ==
  /\ L \in Seq(Item)
  /\ \A p \in Partitions : /\ Queue(tp, s, p, d, xs[p]) /\ Lagging(p, TheItems(L), d, xs[p])
                           /\ Over(tp, p) \subseteq Gone(tp, p, d, xs[p])
  /\ Told(tp, s, L, Since(tp, d, xs)) /\ Tells({}, L)

Passes(tp, s, d, xs, outs) ==
  outs = [p \in Partitions |-> DrainUntil(Fed(tp, s, p, d, xs[p]), DayEnd(d))]

Merged(outs) == MergeByDeliveredAt([p \in Partitions |-> outs[p].out])

LEMMA StreamDay ==
  ASSUME LiveWorldAssumption, NEW tp, TapeOK(tp), NEW s \in Sinks, NEW d \in Nat, d < TapeDays(tp),
         NEW xs, NEW L, Streamed(tp, s, d, xs, L), NEW outs, Passes(tp, s, d, xs, outs),
         NEW ys, ys = [p \in Partitions |-> outs[p].t], NEW M, M = Merged(outs)
  PROVE  M \in Seq(Item) /\ Streamed(tp, s, d + 1, ys, L \o M)
<1>1. PICK A : A = TheItems(L)
  OBVIOUS
<1>2. /\ L \in Seq(Item) /\ Told(tp, s, L, Since(tp, d, xs)) /\ Tells({}, L)
      /\ \A p \in Partitions : /\ Queue(tp, s, p, d, xs[p]) /\ Lagging(p, A, d, xs[p])
                               /\ Over(tp, p) \subseteq Gone(tp, p, d, xs[p])
  BY <1>1 DEF Streamed
<1>3. A \subseteq Item
  BY <1>1, <1>2, ItemsIn
<1>4. ASSUME NEW p \in Partitions PROVE \E N : Sends1(tp, s, p, A, d, xs[p], outs[p], N)
  <2>1. Fated(tp, s, p) /\ tp.events[p] \in Seq(Seq(Moments)) /\ d < Len(tp.events[p])
    BY TapeFated DEF TapeOK
  <2>2. PICK t : t = xs[p]
    OBVIOUS
  <2>3. Queue(tp, s, p, d, t) /\ Lagging(p, A, d, t)
    BY <1>2, <2>2
  <2>4. \E N : Sends1(tp, s, p, A, d, t, DrainUntil(Fed(tp, s, p, d, t), DayEnd(d)), N)
    BY <1>3, <2>1, <2>3, DayPasses
  <2>5. outs[p] = DrainUntil(Fed(tp, s, p, d, t), DayEnd(d))
    BY <2>2 DEF Passes
  <2>6. QED BY <2>2, <2>4, <2>5
<1>5. PICK F : F = [p \in Partitions |-> CHOOSE N : Sends1(tp, s, p, A, d, xs[p], outs[p], N)]
  OBVIOUS
<1>6. \A p \in Partitions : Sends1(tp, s, p, A, d, xs[p], outs[p], F[p])
  BY <1>4, <1>5, Zenon
<1>7. ASSUME NEW p \in Partitions
      PROVE  /\ Queue(tp, s, p, d + 1, outs[p].t)
             /\ Lagging(p, A \union TheItems(outs[p].out), d + 1, outs[p].t)
             /\ Told(tp, s, outs[p].out, {p} \X F[p]) /\ Tells(A, outs[p].out)
             /\ \A k \in Nat : k \in F[p] => k \notin Gone(tp, p, d, xs[p])
             /\ \A k \in Nat : k \in Gone(tp, p, d + 1, outs[p].t) <=>
                                 k \in Gone(tp, p, d, xs[p]) \/ k \in F[p]
  BY <1>6 DEF Sends1
<1>8. PICK lists : lists = [p \in Partitions |-> outs[p].out]
  OBVIOUS
<1>9. ASSUME NEW p \in Partitions
      PROVE  /\ lists[p] \in Seq(Item) /\ Told(tp, s, lists[p], {p} \X F[p]) /\ Tells(A, lists[p])
             /\ \A k \in 1..Len(lists[p]) : lists[p][k].of[1] = p
             /\ {p} \X F[p] \subseteq Events
  <2>1. PICK l, X : l = lists[p] /\ X = {p} \X F[p]
    OBVIOUS
  <2>2. l = outs[p].out
    BY <1>8, <2>1
  <2>3. Told(tp, s, l, X) /\ Tells(A, l)
    BY <1>7, <2>1, <2>2
  <2>4. l \in Seq(Item) /\ X \subseteq Events /\ \A k \in 1..Len(l) : l[k].of \in X
    BY <2>3 DEF Told
  <2>5. \A e \in X : e[1] = p
    BY <2>1
  <2>6. QED BY <2>1, <2>3, <2>4, <2>5
<1>10. lists \in [Partitions -> Seq(Item)] /\ M = MergeByDeliveredAt(lists)
  BY <1>8, <1>9 DEF Merged
<1>11. M \in Seq(Item) /\ Woven(lists, M)
  <2>1. \A x \in Item : x.at \in Nat
    BY DEF Item
  <2>2. QED BY <1>10, <2>1, MergeWoven
<1>12. PICK Q, R : Q = [p \in Partitions |-> {p} \X F[p]] /\ R = {e \in Events : e[2] \in F[e[1]]}
  OBVIOUS
<1>13. Told(tp, s, M, R)
  <2>1. ASSUME NEW p \in Partitions
        PROVE  Told(tp, s, lists[p], Q[p]) /\ \A e \in Q[p] : e[1] = p /\ e \in R
    <3>1. Q[p] = {p} \X F[p]
      BY <1>12
    <3>2. Told(tp, s, lists[p], Q[p])
      BY <1>9, <3>1
    <3>3. ASSUME NEW e \in Q[p] PROVE e[1] = p /\ e \in R
      <4>0. PICK X, f : X = {p} \X f /\ f = F[p] /\ X \subseteq Events /\ e \in X
        BY <1>9, <3>1
      <4>1. e[1] = p /\ e[2] \in F[p] /\ e \in Events
        BY <4>0
      <4>2. QED BY <1>12, <4>1
    <3>4. QED BY <3>2, <3>3
  <2>2. ASSUME NEW e \in R PROVE e \in Q[e[1]]
    <3>1. PICK p, k : p \in Partitions /\ k \in Nat /\ e = <<p, k>>
      BY <1>12 DEF Events
    <3>2. k \in F[p]
      BY <1>12, <3>1
    <3>3. e \in {p} \X F[p]
      BY <3>1, <3>2
    <3>4. QED BY <1>12, <3>1, <3>3
  <2>3. R \subseteq Events
    BY <1>12
  <2>4. QED BY <1>11, <2>1, <2>2, <2>3, ToldWoven
<1>14. Tells(A, M)
  <2>1. \A p \in Partitions :
          /\ lists[p] \in Seq(Item) /\ Tells(A, lists[p])
          /\ \A k \in 1..Len(lists[p]) : lists[p][k].of[1] = p
    BY <1>9
  <2>2. QED BY <1>11, <2>1, TellsWoven
<1>15. Tells({}, L \o M)
  BY <1>1, <1>2, <1>11, <1>14, TellsMore
<1>16. ASSUME NEW p \in Partitions, NEW k \in Nat
       PROVE  /\ k \in Gone(tp, p, d + 1, ys[p]) <=> k \in Gone(tp, p, d, xs[p]) \/ k \in F[p]
              /\ k \in F[p] => k \notin Gone(tp, p, d, xs[p])
  BY <1>7
<1>17. PICK S, T : S = Since(tp, d, xs) /\ T = Since(tp, d + 1, ys)
  OBVIOUS
<1>18. /\ \A e \in S : e \notin R
       /\ \A e : e \in T <=> e \in S \/ e \in R
  <2>1. \A e \in S : e \notin R
    <3>1. SUFFICES ASSUME NEW e \in S, e \in R PROVE FALSE
      OBVIOUS
    <3>2. PICK p, k : p \in Partitions /\ k \in Nat /\ e = <<p, k>>
      BY <1>12, <3>1 DEF Events
    <3>3. k \in Gone(tp, p, d, xs[p]) /\ k \in F[p]
      BY <1>12, <1>17, <3>1, <3>2 DEF Since
    <3>4. QED BY <1>16, <3>2, <3>3
  <2>2. ASSUME NEW e \in Events PROVE e \in T <=> e \in S \/ e \in R
    <3>1. PICK p, k : p \in Partitions /\ k \in Nat /\ e = <<p, k>>
      BY DEF Events
    <3>2. e[1] = p /\ e[2] = k
      BY <3>1
    <3>3. e \in T <=> k \in Gone(tp, p, d + 1, ys[p]) /\ k \notin Over(tp, p)
      BY <1>17, <3>2 DEF Since
    <3>4. e \in S <=> k \in Gone(tp, p, d, xs[p]) /\ k \notin Over(tp, p)
      BY <1>17, <3>2 DEF Since
    <3>5. e \in R <=> k \in F[p]
      BY <1>12, <3>2
    <3>6. k \in Over(tp, p) => k \in Gone(tp, p, d, xs[p])
      BY <1>2, <3>1
    <3>7. QED BY <1>16, <3>1, <3>3, <3>4, <3>5, <3>6
  <2>3. S \subseteq Events /\ T \subseteq Events /\ R \subseteq Events
    BY <1>12, <1>17 DEF Since
  <2>4. QED BY <2>1, <2>2, <2>3
<1>19. Told(tp, s, L \o M, T)
  <2>1. T = S \union R
    BY <1>18
  <2>2. Told(tp, s, L, S)
    BY <1>2, <1>17
  <2>3. QED BY <1>13, <1>18, <2>1, <2>2, ToldMore
<1>20. ASSUME NEW p \in Partitions PROVE Lagging(p, TheItems(L \o M), d + 1, ys[p])
  <2>1. SUFFICES ASSUME NEW x \in TheItems(L \o M), x.of[1] = p
                 PROVE  x \in A \union TheItems(lists[p])
    <3>1. ys[p] = outs[p].t /\ lists[p] = outs[p].out
      BY <1>8
    <3>2. Lagging(p, A \union TheItems(lists[p]), d + 1, ys[p])
      BY <1>7, <3>1
    <3>3. QED BY <2>1, <3>2 DEF Lagging
  <2>2. x \in A \/ x \in TheItems(M)
    BY <1>1, <1>2, <1>11, ItemsMore
  <2>3. CASE x \in TheItems(M)
    <3>1. PICK k \in 1..Len(M) : x = M[k]
      BY <2>3 DEF TheItems
    <3>0. \A i \in 1..Len(M) :
            \E q \in Partitions : \E j \in 1..Len(lists[q]) : M[i] = lists[q][j]
      BY SMTT(30), <1>11, FromWoven
    <3>a. \E q \in Partitions : \E j \in 1..Len(lists[q]) : M[k] = lists[q][j]
      BY ONLY ZenonT(30), <3>0, <3>1
    <3>2. PICK q, j : q \in Partitions /\ j \in 1..Len(lists[q]) /\ x = lists[q][j]
      BY ZenonT(30), <3>1, <3>a
    <3>3. q = p
      BY <1>9, <2>1, <3>2
    <3>4. QED BY <3>2, <3>3 DEF TheItems
  <2>4. QED BY <2>2, <2>3
<1>21. ASSUME NEW p \in Partitions
       PROVE  Queue(tp, s, p, d + 1, ys[p]) /\ Over(tp, p) \subseteq Gone(tp, p, d + 1, ys[p])
  <2>1. ys[p] = outs[p].t
    OBVIOUS
  <2>2. Queue(tp, s, p, d + 1, ys[p])
    BY <1>7, <2>1
  <2>3. \A k \in Over(tp, p) : k \in Nat /\ k \in Gone(tp, p, d, xs[p])
    BY <1>2 DEF Over
  <2>4. QED BY <1>16, <2>2, <2>3
<1>22. L \o M \in Seq(Item)
  BY <1>2, <1>11
<1>23. Streamed(tp, s, d + 1, ys, L \o M)
  BY <1>15, <1>17, <1>19, <1>20, <1>21, <1>22 DEF Streamed
<1>24. QED BY <1>11, <1>23

-----------------------------------------------------------------------------
(* A sink's stream: fs, the days' deliveries, and xs, the transformers at   *)
(* the start of day d, after the days before it.                            *)
Past(fs, d) == FlattenSeq(SubSeq(fs, 1, d - HistoryDays))

Line(tp, s, d, xs, fs) ==
  /\ fs \in Seq(Seq(Item)) /\ d \in HistoryDays..TapeDays(tp) /\ d - HistoryDays <= Len(fs)
  /\ Streamed(tp, s, d, xs, Past(fs, d))

Outs(tp, s, d, xs) == [p \in Partitions |-> DrainUntil(Fed(tp, s, p, d, xs[p]), DayEnd(d))]
Becomes(outs) == [p \in Partitions |-> outs[p].t]
DayGives(tp, s, d, xs) == Merged(Outs(tp, s, d, xs))

LEMMA OneMore ==
  ASSUME NEW A, NEW ss \in Seq(Seq(A)), NEW n \in Nat, n < Len(ss)
  PROVE  /\ FlattenSeq(SubSeq(ss, 1, n)) \in Seq(A) /\ ss[n + 1] \in Seq(A)
         /\ FlattenSeq(SubSeq(ss, 1, n + 1)) = FlattenSeq(SubSeq(ss, 1, n)) \o ss[n + 1]
<1>1. PICK a, l : a = SubSeq(ss, 1, n) /\ l = ss[n + 1]
  OBVIOUS
<1>2. a \in Seq(Seq(A)) /\ l \in Seq(A)
  BY <1>1
<1>3. SubSeq(ss, 1, n + 1) = Append(a, l)
  BY <1>1
<1>4. QED BY <1>1, <1>2, <1>3, FlattenAppend

LEMMA NoneYet == FlattenSeq(SubSeq(<<>>, 1, 0)) = <<>>
<1>1. SubSeq(<<>>, 1, 0) = <<>> /\ Len(<<>>) = 0
  OBVIOUS
<1>2. QED BY <1>1, FlattenIs

LEMMA LineBegins ==
  ASSUME LiveWorldAssumption, NEW tp, TapeOK(tp), TapeDays(tp) = HistoryDays,
         NEW s \in Sinks, NEW xs,
         \A p \in Partitions : \E W : Complete(tp, s, p, xs[p], W)
  PROVE  Line(tp, s, HistoryDays, xs, <<>>)
<1>1. HistoryDays \in Nat
  BY DEF LiveWorldAssumption
<1>2. ASSUME NEW p \in Partitions
      PROVE  /\ Queue(tp, s, p, HistoryDays, xs[p]) /\ Lagging(p, {}, HistoryDays, xs[p])
             /\ Gone(tp, p, HistoryDays, xs[p]) = Over(tp, p)
  <2>1. PICK t : t = xs[p]
    OBVIOUS
  <2>2. Queue(tp, s, p, HistoryDays, t) /\ t.heap = {} /\ t.hold = Nothing
    BY <2>1 DEF Complete
  <2>3. Pend(t) = {}
    BY <2>2, InHoldIs DEF Pend
  <2>4. Gone(tp, p, HistoryDays, t) = Over(tp, p)
    BY <2>3 DEF Gone, Over, Seqs
  <2>5. Lagging(p, {}, HistoryDays, t)
    BY DEF Lagging
  <2>6. QED BY <2>1, <2>2, <2>4, <2>5
<1>3. Since(tp, HistoryDays, xs) = {}
  <2>1. ASSUME NEW e \in Events PROVE e[1] \in Partitions
    BY DEF Events
  <2>2. QED BY <1>2, <2>1 DEF Since
<1>4. TheItems(<<>>) = {} /\ Tells({}, <<>>)
  BY DEF TheItems, Tells
<1>5. Streamed(tp, s, HistoryDays, xs, <<>>)
  <2>1. PICK L, d : L = <<>> /\ d = HistoryDays
    OBVIOUS
  <2>2. L \in Seq(Item)
    BY <2>1
  <2>3. TheItems(L) = {} /\ Tells({}, L) /\ Told(tp, s, L, {}) /\ Since(tp, d, xs) = {}
    BY <1>3, <1>4, <2>1, ToldNone
  <2>4. ASSUME NEW p \in Partitions
        PROVE  /\ Queue(tp, s, p, d, xs[p]) /\ Lagging(p, {}, d, xs[p])
               /\ Over(tp, p) \subseteq Gone(tp, p, d, xs[p])
    BY <1>2, <2>1
  <2>5. Streamed(tp, s, d, xs, L)
    BY <2>2, <2>3, <2>4 DEF Streamed
  <2>6. QED BY <2>1, <2>5
<1>6. Past(<<>>, HistoryDays) = <<>>
  BY <1>1, NoneYet DEF Past
<1>7. QED BY <1>1, <1>5, <1>6 DEF Line

LEMMA OverGrows ==
  ASSUME NEW tp, NEW tq, Grows(tp, tq), HistoryDays \in 0..TapeDays(tp), NEW p \in Partitions
  PROVE  Over(tq, p) = Over(tp, p)
BY DEF Grows, Over

LEMMA StreamGrows ==
  ASSUME NEW tp, NEW tq, Grows(tp, tq), TapeDays(tp) \in Nat, HistoryDays \in 0..TapeDays(tp),
         NEW s \in Sinks, NEW xs, NEW L, Streamed(tp, s, TapeDays(tp), xs, L)
  PROVE  Streamed(tq, s, TapeDays(tp), xs, L)
<1>1. PICK d : d = TapeDays(tp)
  OBVIOUS
<1>2. /\ L \in Seq(Item) /\ Told(tp, s, L, Since(tp, d, xs)) /\ Tells({}, L)
      /\ \A p \in Partitions : /\ Queue(tp, s, p, d, xs[p]) /\ Lagging(p, TheItems(L), d, xs[p])
                               /\ Over(tp, p) \subseteq Gone(tp, p, d, xs[p])
  BY <1>1 DEF Streamed
<1>3. ASSUME NEW p \in Partitions
      PROVE  /\ Queue(tq, s, p, d, xs[p]) /\ Gone(tq, p, d, xs[p]) = Gone(tp, p, d, xs[p])
             /\ Over(tq, p) = Over(tp, p)
  BY <1>1, <1>2, GrowsQueue, OverGrows
<1>4. Since(tq, d, xs) = Since(tp, d, xs)
  <2>1. ASSUME NEW e \in Events PROVE e[1] \in Partitions
    BY DEF Events
  <2>2. QED BY <1>3, <2>1 DEF Since
<1>5. \A e \in Since(tp, d, xs) : e[2] < Count(tp, e[1], TapeDays(tp))
  BY <1>1 DEF Since, Gone
<1>6. Told(tq, s, L, Since(tq, d, xs))
  <2>1. PICK Q : Q = Since(tp, d, xs)
    OBVIOUS
  <2>2. Told(tp, s, L, Q) /\ \A e \in Q : e[2] < Count(tp, e[1], TapeDays(tp))
    BY <1>2, <1>5, <2>1
  <2>3. QED BY <1>4, <2>1, <2>2, GrowsTold
<1>7. QED BY <1>1, <1>2, <1>3, <1>6 DEF Streamed

(* What was written is complete on a tape that has grown.                   *)
Written(tp, s, p, W) == Told(tp, s, W, {p} \X Over(tp, p)) /\ Tells({}, W)

LEMMA WrittenGrows ==
  ASSUME NEW tp, NEW tq, Grows(tp, tq), TapeDays(tp) \in Nat, HistoryDays \in 0..TapeDays(tp),
         NEW s \in Sinks, NEW xs, NEW L, Streamed(tp, s, TapeDays(tp), xs, L),
         NEW p \in Partitions, NEW W, Written(tp, s, p, W)
  PROVE  Written(tq, s, p, W)
<1>1. Over(tq, p) = Over(tp, p)
  BY OverGrows
<1>2. \A k \in Over(tp, p) : k < Count(tp, p, TapeDays(tp))
  BY DEF Streamed, Gone
<1>3. PICK Q : Q = {p} \X Over(tp, p)
  OBVIOUS
<1>4. \A e \in Q : e[2] < Count(tp, e[1], TapeDays(tp))
  BY <1>2, <1>3
<1>5. Told(tp, s, W, Q) /\ Tells({}, W)
  BY <1>3 DEF Written
<1>6. Told(tq, s, W, Q)
  BY <1>4, <1>5, GrowsTold
<1>7. QED BY <1>1, <1>3, <1>5, <1>6 DEF Written

LEMMA Appended ==
  ASSUME NEW S, NEW e \in Seq(S), NEW l \in S, NEW k, k = Len(e)
  PROVE  /\ Append(e, l) \in Seq(S) /\ Len(Append(e, l)) = k + 1 /\ Append(e, l)[k + 1] = l
         /\ SubSeq(Append(e, l), 1, k) = SubSeq(e, 1, k)
OBVIOUS

LEMMA LineGrows ==
  ASSUME NEW tp, NEW tq, Grows(tp, tq), NEW d \in Nat, d = TapeDays(tp), TapeDays(tq) = d + 1,
         HistoryDays \in Nat, NEW s \in Sinks, NEW xs, NEW fs, Line(tp, s, d, xs, fs),
         NEW gs \in Seq(Seq(Item)), Len(gs) >= d - HistoryDays, Past(gs, d) = Past(fs, d)
  PROVE  Line(tq, s, d, xs, gs)
<1>1. d \in HistoryDays..TapeDays(tp) /\ Streamed(tp, s, d, xs, Past(fs, d))
  BY DEF Line
<1>2. HistoryDays \in 0..TapeDays(tp) /\ d \in HistoryDays..TapeDays(tq)
  BY <1>1
<1>3. Streamed(tq, s, d, xs, Past(fs, d))
  BY <1>1, <1>2, StreamGrows
<1>4. d - HistoryDays <= Len(gs)
  <2>1. Len(gs) \in Nat
    OBVIOUS
  <2>2. QED BY <2>1
<1>5. QED BY <1>2, <1>3, <1>4 DEF Line

LEMMA LineDay ==
  ASSUME LiveWorldAssumption, NEW tp, TapeOK(tp), NEW s \in Sinks, NEW d \in Nat, d < TapeDays(tp),
         NEW xs, NEW fs, Line(tp, s, d, xs, fs)
  PROVE  LET outs == Outs(tp, s, d, xs)
             M    == DayGives(tp, s, d, xs)
         IN  /\ M \in Seq(Item)
             /\ Streamed(tp, s, d + 1, Becomes(outs), Past(fs, d) \o M)
<1>1. PICK outs, ys, M, L : /\ outs = Outs(tp, s, d, xs) /\ ys = Becomes(outs)
                            /\ M = DayGives(tp, s, d, xs) /\ L = Past(fs, d)
  OBVIOUS
<1>2. Passes(tp, s, d, xs, outs)
  BY <1>1 DEF Outs, Passes
<1>3. M = Merged(outs) /\ ys = [p \in Partitions |-> outs[p].t]
  BY <1>1 DEF DayGives, Becomes
<1>4. Streamed(tp, s, d, xs, L)
  BY <1>1 DEF Line
<1>5. M \in Seq(Item) /\ Streamed(tp, s, d + 1, ys, L \o M)
  BY <1>2, <1>3, <1>4, StreamDay
<1>6. QED BY <1>1, <1>5

(* The days' deliveries, with one day more if it is new.                    *)
Kept(fs, k, M) == IF k < Len(fs) THEN fs ELSE Append(fs, M)

(* A line before a day: the day is next, or it was simulated before.        *)
Before1(tp, s, d, xs, fs) ==
  /\ Line(tp, s, d, xs, fs) /\ TapeDays(tp) \in {d, d + 1} /\ Len(fs) = TapeDays(tp) - HistoryDays
  /\ d < TapeDays(tp) => fs[d - HistoryDays + 1] = DayGives(tp, s, d, xs)

(* And after it.                                                            *)
After1(tp, s, d, xs, fs) ==
  /\ Line(tp, s, d, xs, fs) /\ TapeDays(tp) = d + 1 /\ Len(fs) = TapeDays(tp) - HistoryDays
  /\ fs[d - HistoryDays + 1] = DayGives(tp, s, d, xs)
  /\ Line(tp, s, d + 1, Becomes(Outs(tp, s, d, xs)), fs)

LEMMA LineStep ==
  ASSUME LiveWorldAssumption, NEW tp, NEW tq, NEW d \in Nat, DayOn(tp, tq, d),
         NEW s \in Sinks, NEW xs, NEW fs, Before1(tp, s, d, xs, fs),
         NEW gs, gs = Kept(fs, d - HistoryDays, DayGives(tq, s, d, xs))
  PROVE  After1(tq, s, d, xs, gs) /\ Past(gs, d) = Past(fs, d)
<1>1. PICK k, M, L, outs, ys :
        /\ k = d - HistoryDays /\ M = DayGives(tq, s, d, xs) /\ L = Past(fs, d)
        /\ outs = Outs(tq, s, d, xs) /\ ys = Becomes(outs)
  OBVIOUS
<1>2. /\ fs \in Seq(Seq(Item)) /\ d \in HistoryDays..TapeDays(tp) /\ HistoryDays \in Nat
      /\ Line(tp, s, d, xs, fs) /\ Len(fs) = TapeDays(tp) - HistoryDays
      /\ TapeDays(tp) \in {d, d + 1}
  BY DEF Before1, Line, LiveWorldAssumption
<1>3. k \in Nat /\ TapeDays(tp) \in Nat
  BY SMTT(30), <1>1, <1>2
<1>4. TapeOK(tq) /\ d < TapeDays(tq)
  BY DEF DayOn
<1>5. CASE d < TapeDays(tp)
  <2>1. tq = tp /\ TapeDays(tp) = d + 1 /\ Len(fs) = k + 1
    BY SMTT(30), <1>1, <1>2, <1>3, <1>5 DEF DayOn
  <2>2. gs = fs
    BY SMTT(30), <1>1, <1>3, <2>1 DEF Kept
  <2>3. fs[k + 1] = M
    BY <1>1, <1>5, <2>1 DEF Before1
  <2>4. M \in Seq(Item) /\ Streamed(tq, s, d + 1, ys, L \o M)
    BY <1>1, <1>2, <1>4, <2>1, LineDay
  <2>5. Past(fs, d + 1) = L \o M
    <3>1. (d + 1) - HistoryDays = k + 1
      BY <1>1, <1>2
    <3>0. fs \in Seq(Seq(Item)) /\ k \in Nat /\ k < Len(fs)
      BY <1>2, <1>3, <2>1
    <3>2. FlattenSeq(SubSeq(fs, 1, k + 1)) = FlattenSeq(SubSeq(fs, 1, k)) \o fs[k + 1]
      BY ONLY <3>0, OneMore
    <3>3. QED BY <1>1, <2>3, <3>1, <3>2 DEF Past
  <2>6. Line(tq, s, d + 1, ys, fs)
    <3>0. HistoryDays <= d /\ TapeDays(tq) = d + 1 /\ k = d - HistoryDays /\ Len(fs) = k + 1
      BY <1>1, <1>2, <2>1
    <3>1. d + 1 \in HistoryDays..TapeDays(tq) /\ (d + 1) - HistoryDays <= Len(fs)
      BY ONLY SMTT(30), d \in Nat, <1>2, <3>0
    <3>2. QED BY <1>2, <2>4, <2>5, <3>1 DEF Line
  <2>7. After1(tq, s, d, xs, fs)
    BY <1>1, <1>2, <2>1, <2>3, <2>6 DEF After1
  <2>8. QED BY <2>2, <2>7
<1>6. CASE d = TapeDays(tp)
  <2>1. Grows(tp, tq) /\ TapeDays(tq) = d + 1
    BY <1>6 DEF DayOn
  <2>2. Len(fs) = k
    BY <1>1, <1>2, <1>6
  <2>3. gs = Append(fs, M)
    BY <1>1, <1>3, <2>2 DEF Kept
  <2>4. Line(tq, s, d, xs, fs)
    BY <1>1, <1>2, <1>3, <1>6, <2>1, <2>2, LineGrows
  <2>5. M \in Seq(Item) /\ Streamed(tq, s, d + 1, ys, L \o M)
    BY <1>1, <1>4, <2>4, LineDay
  <2>6. /\ gs \in Seq(Seq(Item)) /\ Len(gs) = k + 1 /\ gs[k + 1] = M
        /\ SubSeq(gs, 1, k) = SubSeq(fs, 1, k)
    <3>1. fs \in Seq(Seq(Item)) /\ M \in Seq(Item) /\ k = Len(fs)
      BY <1>2, <2>2, <2>5
    <3>2. QED BY ONLY <2>3, <3>1, Appended
  <2>7. Past(gs, d) = L
    BY <1>1, <2>6 DEF Past
  <2>8. Line(tq, s, d, xs, gs)
    <3>1. Len(gs) >= d - HistoryDays /\ Past(gs, d) = Past(fs, d)
      BY <1>1, <1>3, <2>6, <2>7
    <3>2. QED BY SMTT(30), <1>2, <1>6, <2>1, <2>6, <3>1, LineGrows
  <2>9. Past(gs, d + 1) = L \o M
    <3>1. (d + 1) - HistoryDays = k + 1
      BY <1>1, <1>2
    <3>0. gs \in Seq(Seq(Item)) /\ k \in Nat /\ k < Len(gs)
      BY <1>3, <2>6
    <3>2. FlattenSeq(SubSeq(gs, 1, k + 1)) = FlattenSeq(SubSeq(gs, 1, k)) \o gs[k + 1]
      BY ONLY <3>0, OneMore
    <3>3. QED BY <1>1, <2>6, <2>7, <3>1, <3>2 DEF Past
  <2>10. Line(tq, s, d + 1, ys, gs)
    <3>0. HistoryDays <= d /\ TapeDays(tq) = d + 1 /\ k = d - HistoryDays /\ Len(gs) = k + 1
      BY <1>1, <1>2, <2>1, <2>6
    <3>1. d + 1 \in HistoryDays..TapeDays(tq) /\ (d + 1) - HistoryDays <= Len(gs)
      BY ONLY SMTT(30), d \in Nat, <1>2, <3>0
    <3>2. QED BY <2>5, <2>6, <2>9, <3>1 DEF Line
  <2>11. Len(gs) = TapeDays(tq) - HistoryDays
    <3>1. (d + 1) - HistoryDays = k + 1
      BY <1>1, <1>2
    <3>2. QED BY <2>1, <2>6, <3>1
  <2>12. After1(tq, s, d, xs, gs)
    BY <1>1, <2>1, <2>6, <2>8, <2>10, <2>11 DEF After1
  <2>13. QED BY <1>1, <2>7, <2>12
<1>7. QED BY <1>2, <1>3, <1>5, <1>6

-----------------------------------------------------------------------------
(* What a sink was handed: the days past, and n deliveries of today's.      *)
HandedOn(rec, past, today, n) == rec = past \o SubSeq(today, 1, Shorter(n, Len(today)))

LEMMA ShorterIs ==
  ASSUME NEW n \in Nat, NEW m \in Nat
  PROVE  /\ Shorter(n, m) \in Nat /\ Shorter(n, m) <= n /\ Shorter(n, m) <= m
         /\ n <= m => Shorter(n, m) = n
         /\ m <= n => Shorter(n, m) = m
BY DEF Shorter

LEMMA Slices ==
  ASSUME NEW A, NEW l \in Seq(A), NEW a \in Nat, NEW b \in Nat, a <= b, b <= Len(l)
  PROVE  /\ SubSeq(l, 1, a) \in Seq(A) /\ Len(SubSeq(l, 1, a)) = a
         /\ SubSeq(l, 1, a) \o SubSeq(l, a + 1, b) = SubSeq(l, 1, b)
         /\ SubSeq(SubSeq(l, 1, b), 1, a) = SubSeq(l, 1, a)
OBVIOUS

LEMMA ASlice ==
  ASSUME NEW A, NEW l \in Seq(A), NEW a \in Nat \ {0}, NEW b \in Nat, b <= Len(l)
  PROVE  SubSeq(l, a, b) \in Seq(A)
OBVIOUS

LEMMA NoSlice ==
  ASSUME NEW A, NEW l \in Seq(A), NEW a \in Nat, NEW b \in Nat, b < a
  PROVE  SubSeq(l, a, b) = <<>>
OBVIOUS

LEMMA WholeSlice ==
  ASSUME NEW A, NEW l \in Seq(A)
  PROVE  SubSeq(l, 1, Len(l)) = l /\ SubSeq(l, 1, 0) = <<>> /\ l \o <<>> = l
OBVIOUS

LEMMA Before2 ==
  ASSUME NEW A, NEW l \in Seq(A), NEW m \in Seq(A), NEW k \in Nat, k <= Len(m)
  PROVE  /\ l \o m \in Seq(A) /\ Len(l \o m) = Len(l) + Len(m)
         /\ SubSeq(l \o m, 1, Len(l) + k) = l \o SubSeq(m, 1, k)
OBVIOUS

LEMMA Reassociated ==
  ASSUME NEW A, NEW l \in Seq(A), NEW m \in Seq(A), NEW k \in Seq(A)
  PROVE  (l \o m) \o k = l \o (m \o k)
OBVIOUS

LEMMA HandMore ==
  ASSUME NEW A, NEW past \in Seq(A), NEW today \in Seq(A), NEW n \in Nat, NEW to \in Nat, n <= to,
         NEW rec, HandedOn(rec, past, today, n)
  PROVE  HandedOn(rec \o SubSeq(today, n + 1, Shorter(to, Len(today))), past, today, to)
<1>1. PICK m, a, b : m = Len(today) /\ a = Shorter(n, m) /\ b = Shorter(to, m)
  OBVIOUS
<1>2. m \in Nat /\ a \in Nat /\ b \in Nat /\ a <= b /\ b <= m
  BY <1>1 DEF Shorter
<1>3. rec = past \o SubSeq(today, 1, a)
  BY <1>1 DEF HandedOn
<1>4. SubSeq(today, 1, a) \o SubSeq(today, n + 1, b) = SubSeq(today, 1, b)
  <2>1. CASE n <= m
    <3>1. a = n
      BY <1>1, <1>2, <2>1, ShorterIs
    <3>2. n <= b /\ b <= Len(today)
      BY <1>1, <1>2, <3>1
    <3>3. SubSeq(today, 1, n) \o SubSeq(today, n + 1, b) = SubSeq(today, 1, b)
      BY <1>2, <3>2, Slices
    <3>4. QED BY <3>1, <3>3
  <2>2. CASE m < n
    <3>1. a = m /\ b = m /\ m < n + 1
      BY <1>1, <1>2, <2>2, ShorterIs
    <3>2. SubSeq(today, n + 1, b) = <<>>
      <4>1. n + 1 \in Nat /\ b < n + 1
        BY <3>1
      <4>2. QED BY <1>2, <4>1, NoSlice
    <3>3. SubSeq(today, 1, b) \o <<>> = SubSeq(today, 1, b)
      BY <1>1, <3>1, WholeSlice
    <3>4. QED BY <3>1, <3>2, <3>3
  <2>3. QED BY <1>2, <2>1, <2>2
<1>5. SubSeq(today, 1, a) \in Seq(A) /\ SubSeq(today, n + 1, b) \in Seq(A)
  <2>1. n + 1 \in Nat \ {0} /\ 1 \in Nat \ {0} /\ a <= Len(today) /\ b <= Len(today)
    BY <1>1, <1>2
  <2>2. QED BY <1>2, <2>1, ASlice
<1>6. rec \o SubSeq(today, n + 1, b) = past \o SubSeq(today, 1, b)
  <2>1. PICK x, y, z : /\ x = SubSeq(today, 1, a) /\ y = SubSeq(today, n + 1, b)
                       /\ z = SubSeq(today, 1, b)
    OBVIOUS
  <2>2. x \in Seq(A) /\ y \in Seq(A) /\ x \o y = z /\ rec = past \o x
    BY <1>3, <1>4, <1>5, <2>1
  <2>3. (past \o x) \o y = past \o (x \o y)
    <3>1. past \in Seq(A) /\ x \in Seq(A) /\ y \in Seq(A)
      BY <2>2
    <3>2. QED BY ONLY <3>1, Reassociated
  <2>4. QED BY <2>1, <2>2, <2>3
<1>7. QED BY <1>1, <1>6 DEF HandedOn

LEMMA HandIs ==
  ASSUME NEW A, NEW past \in Seq(A), NEW today \in Seq(A), NEW n \in Nat,
         NEW rec, HandedOn(rec, past, today, n)
  PROVE  /\ rec \in Seq(A) /\ Len(rec) = Len(past) + Shorter(n, Len(today))
         /\ IsPrefix(rec, past \o today)
         /\ n >= Len(today) => rec = past \o today
<1>1. PICK m, a : m = Len(today) /\ a = Shorter(n, m)
  OBVIOUS
<1>2. m \in Nat /\ a \in Nat /\ a <= m
  BY <1>1 DEF Shorter
<1>3. rec = past \o SubSeq(today, 1, a)
  BY <1>1 DEF HandedOn
<1>4. PICK l, all : l = SubSeq(today, 1, a) /\ all = past \o today
  OBVIOUS
<1>5. l \in Seq(A) /\ Len(l) = a
  BY <1>1, <1>2, <1>4
<1>6. /\ rec \in Seq(A) /\ Len(rec) = Len(past) + a
      /\ all \in Seq(A) /\ Len(all) = Len(past) + m
  BY <1>1, <1>3, <1>4, <1>5
<1>7. SubSeq(all, 1, Len(past) + a) = rec
  BY <1>1, <1>2, <1>3, <1>4, Before2
<1>8. Len(past) \in Nat
  OBVIOUS
<1>9. IsPrefix(rec, all)
  <2>1. Len(rec) <= Len(all)
    BY <1>2, <1>6, <1>8
  <2>2. SubSeq(rec, 1, Len(rec)) = rec
    BY <1>6, WholeSlice
  <2>3. SubSeq(all, 1, Len(rec)) = rec
    BY <1>6, <1>7
  <2>4. QED BY <2>1, <2>2, <2>3 DEF IsPrefix
<1>10. ASSUME n >= m PROVE rec = all
  <2>1. a = m
    BY <1>1, <1>2, <1>10, ShorterIs
  <2>2. l = today
    BY <1>1, <1>4, <2>1, WholeSlice
  <2>3. QED BY <1>3, <1>4, <2>2
<1>11. QED BY <1>1, <1>4, <1>6, <1>9, <1>10

LEMMA HandLess ==
  ASSUME NEW A, NEW past \in Seq(A), NEW today \in Seq(A), NEW n \in Nat, NEW k \in Nat, k <= n,
         NEW rec, HandedOn(rec, past, today, n)
  PROVE  HandedOn(SubSeq(rec, 1, Shorter(Len(rec), Len(past) + k)), past, today, k)
<1>1. PICK m, a, b, c : m = Len(today) /\ a = Shorter(n, m) /\ b = Shorter(k, m) /\ c = Len(past)
  OBVIOUS
<1>2. m \in Nat /\ a \in Nat /\ b \in Nat /\ b <= a /\ a <= m /\ c \in Nat
  BY <1>1 DEF Shorter
<1>3. rec = past \o SubSeq(today, 1, a)
  BY <1>1 DEF HandedOn
<1>4. PICK l : l = SubSeq(today, 1, a)
  OBVIOUS
<1>5. l \in Seq(A) /\ Len(l) = a /\ SubSeq(l, 1, b) = SubSeq(today, 1, b)
  BY <1>1, <1>2, <1>4, Slices
<1>6. Len(rec) = c + a
  BY <1>1, <1>3, <1>4, <1>5
<1>7. Shorter(c + a, c + k) = c + b
  <2>1. /\ a = IF n < m THEN n ELSE m
        /\ b = IF k < m THEN k ELSE m
        /\ Shorter(c + a, c + k) = IF c + a < c + k THEN c + a ELSE c + k
    BY <1>1 DEF Shorter
  <2>2. CASE a < k
    BY <1>2, <2>1, <2>2
  <2>3. CASE ~ (a < k)
    BY <1>2, <2>1, <2>3
  <2>4. QED BY <2>2, <2>3
<1>8. SubSeq(rec, 1, c + b) = past \o SubSeq(l, 1, b)
  <2>1. b <= Len(l) /\ rec = past \o l
    BY <1>2, <1>3, <1>4, <1>5
  <2>2. SubSeq(past \o l, 1, Len(past) + b) = past \o SubSeq(l, 1, b)
    BY <1>2, <1>5, <2>1, Before2
  <2>3. QED BY <1>1, <2>1, <2>2
<1>9. SubSeq(rec, 1, Shorter(Len(rec), c + k)) = past \o SubSeq(today, 1, b)
  BY <1>5, <1>6, <1>7, <1>8
<1>10. QED BY <1>1, <1>9 DEF HandedOn

LEMMA HandNone ==
  ASSUME NEW A, NEW past \in Seq(A), NEW today \in Seq(A)
  PROVE  HandedOn(past, past, today, 0)
<1>1. Len(today) \in Nat
  OBVIOUS
<1>2. Shorter(0, Len(today)) = 0
  BY <1>1, ShorterIs
<1>3. SubSeq(today, 1, 0) = <<>> /\ past \o <<>> = past
  BY WholeSlice
<1>4. QED BY <1>2, <1>3 DEF HandedOn

LEMMA HandCut ==
  ASSUME NEW A, NEW today \in Seq(A), NEW n \in Nat, NEW m \in Nat, Len(today) <= m,
         NEW rec, NEW past, HandedOn(rec, past, today, n)
  PROVE  HandedOn(rec, past, today, Shorter(n, m))
<1>1. PICK c : c = Len(today)
  OBVIOUS
<1>2. c \in Nat /\ c <= m
  BY <1>1
<1>3. Shorter(Shorter(n, m), c) = Shorter(n, c)
  BY <1>2 DEF Shorter
<1>4. QED BY <1>1, <1>3 DEF HandedOn

(* The longest of the sinks' lists.                                         *)
LEMMA LongestIs ==
  ASSUME LiveWorldAssumption, NEW f, \A s \in Sinks : f[s] \in Nat
  PROVE  \E n \in {f[s] : s \in Sinks} : \A s \in Sinks : f[s] <= n
<1>1. IsFiniteSet(Sinks) /\ Sinks # {}
  BY DEF LiveWorldAssumption
<1>2. PICK m \in Nat : \E g : g \in Bijection(1..m, Sinks)
  BY <1>1, FS_NatBijection DEF ExistsBijection
<1>3. PICK g : g \in Bijection(1..m, Sinks)
  BY <1>2
<1>4. g \in [1..m -> Sinks] /\ \A s \in Sinks : \E i \in 1..m : g[i] = s
  BY <1>3 DEF Bijection, Injection, Surjection
<1> DEFINE Top(i) == \E j \in 1..i : \A k \in 1..i : f[g[k]] <= f[g[j]]
           Bad == {i \in 1..m : ~ Top(i)}
<1>5. ASSUME NEW i \in 1..m, i # 1, Top(i - 1) PROVE Top(i)
  <2>1. PICK j \in 1..(i - 1) : \A k \in 1..(i - 1) : f[g[k]] <= f[g[j]]
    BY <1>5
  <2>2. f[g[i]] \in Nat /\ f[g[j]] \in Nat /\ \A k \in 1..i : f[g[k]] \in Nat
    <3>1. \A k \in 1..m : f[g[k]] \in Nat
      BY <1>4
    <3>2. j \in 1..m /\ \A k \in 1..i : k \in 1..m
      BY <1>2, <2>1
    <3>3. QED BY <3>1, <3>2
  <2>3. \A k \in 1..i : k \in 1..(i - 1) \/ k = i
    OBVIOUS
  <2>4. CASE f[g[i]] <= f[g[j]]
    <3>1. j \in 1..i /\ \A k \in 1..i : f[g[k]] <= f[g[j]]
      BY <2>1, <2>3, <2>4
    <3>2. QED BY <3>1
  <2>5. CASE f[g[j]] < f[g[i]]
    <3>1. i \in 1..i /\ \A k \in 1..i : f[g[k]] <= f[g[i]]
      BY <2>1, <2>2, <2>3, <2>5
    <3>2. QED BY <3>1
  <2>6. QED BY <2>2, <2>4, <2>5
<1>6. m # 0 /\ 1 \in 1..m
  <2>1. m # 0
    BY <1>1, <1>4
  <2>2. QED BY <1>2, <2>1
<1>7. Top(1)
  <2>1. f[g[1]] \in Nat
    BY <1>4, <1>6
  <2>2. \A k \in 1..1 : k = 1
    OBVIOUS
  <2>3. QED BY <2>1, <2>2
<1>8. Bad = {}
  <2>1. SUFFICES ASSUME Bad # {} PROVE FALSE
    OBVIOUS
  <2>2. Bad \subseteq Nat
    BY <1>2
  <2>3. PICK i \in Bad : i \in Nat /\ \A k \in Nat : k < i => k \notin Bad
    <3> HIDE DEF Bad
    <3>1. QED BY <2>1, <2>2, LeastOf
  <2> HIDE DEF Top
  <2>4. i \in 1..m /\ ~ Top(i) /\ i # 1
    BY <1>7
  <2>5. i - 1 \in Nat /\ i - 1 < i /\ i - 1 \in 1..m
    BY <1>2, <2>4
  <2>6. Top(i - 1)
    BY <2>3, <2>5
  <2>7. QED BY <1>5, <2>4, <2>6
<1>9. Top(m)
  <2>1. m \in 1..m
    BY <1>2, <1>6
  <2> HIDE DEF Top
  <2>2. QED BY <1>8, <2>1
<1>10. PICK j \in 1..m : \A k \in 1..m : f[g[k]] <= f[g[j]]
  BY <1>9
<1>11. \A s \in Sinks : f[s] <= f[g[j]]
  BY <1>4, <1>10
<1>12. QED BY <1>4, <1>11

-----------------------------------------------------------------------------
(* The states of the world.                                                 *)

(* The history is being written.                                            *)
Early ==
  /\ saved = Nothing /\ live = Nothing /\ next = TapeDays(tape) /\ next \in 0..HistoryDays
  /\ \A s \in Sinks, p \in Partitions : Filed(tape, s, p, next, tr[s][p], written[s][p])
  /\ \A s \in Sinks : first[s] = <<>> /\ received[s] = <<>> /\ base[s] = 0

(* It is written.                                                           *)
FilesOK ==
  /\ saved = [day |-> HistoryDays, tr |-> saved.tr] /\ saved # Nothing
  /\ \A s \in Sinks, p \in Partitions :
       saved.tr[s][p].heap = {} /\ saved.tr[s][p].hold = Nothing
  /\ \A s \in Sinks, p \in Partitions : Written(tape, s, p, written[s][p])

Ready ==
  /\ FilesOK /\ live = Nothing /\ next = HistoryDays /\ TapeDays(tape) = HistoryDays
  /\ tr = saved.tr
  /\ \A s \in Sinks : /\ Line(tape, s, next, tr[s], first[s])
                      /\ first[s] = <<>> /\ received[s] = <<>> /\ base[s] = 0

(* A sink before the next day, which gives today: what it was handed.       *)
Between(tp, s, d, xs, fs, skip, rec, b) ==
  /\ Before1(tp, s, d, xs, fs)
  /\ skip \in Nat
  /\ IF skip > 0 THEN b = Len(Past(fs, d)) ELSE Len(rec) = Len(Past(fs, d))
  /\ TapeDays(tp) = d => rec = Past(fs, d) /\ skip = 0
  /\ d < TapeDays(tp) => HandedOn(rec, Past(fs, d), DayGives(tp, s, d, xs), skip)

Betweens == \A s \in Sinks :
  Between(tape, s, next, tr[s], first[s], live.skip, received[s], base[s])

(* A session was opened, at the start or again.                             *)
Resumed ==
  /\ FilesOK /\ live = Opened(live.skip) /\ live # Nothing /\ next \in Nat
  /\ Betweens

(* A sink in the middle of a day.                                           *)
Amid(tp, s, d, xs, ys, fs, all, cursor, length, rec, b) ==
  /\ After1(tp, s, d, xs, fs)
  /\ ys = Becomes(Outs(tp, s, d, xs))
  /\ all = DayGives(tp, s, d, xs) /\ Len(all) <= length
  /\ HandedOn(rec, Past(fs, d), all, cursor)
  /\ b = Len(Past(fs, d))

Playing ==
  /\ FilesOK /\ live # Nothing /\ live.current # Nothing
  /\ live = [current |-> live.current, checkpoint |-> live.checkpoint, cursor |-> live.cursor,
             length |-> live.length, skip |-> 0]
  /\ live.cursor \in Nat /\ live.length \in Nat /\ live.cursor <= live.length
  /\ live.current.day \in Nat /\ live.checkpoint.day = live.current.day
  /\ next = live.current.day + 1
  /\ \A s \in Sinks :
       Amid(tape, s, live.current.day, live.checkpoint.tr[s], tr[s], first[s],
            live.current.deliveries[s], live.cursor, live.length, received[s], base[s])

Steady == TapeOK(tape) /\ (Early \/ Ready \/ Resumed \/ Playing)

-----------------------------------------------------------------------------
(* A sink's day, from between two days to amid the next.                    *)
LEMMA PastIn ==
  ASSUME NEW tp, NEW s, NEW d, NEW xs, NEW fs, Line(tp, s, d, xs, fs)
  PROVE  Past(fs, d) \in Seq(Item)
BY DEF Line, Streamed

(* Today's deliveries, of a day on the tape.                                *)
LEMMA GivesIn ==
  ASSUME LiveWorldAssumption, NEW tp, TapeOK(tp), NEW s \in Sinks, NEW d \in Nat, d < TapeDays(tp),
         NEW xs, NEW fs, Line(tp, s, d, xs, fs)
  PROVE  DayGives(tp, s, d, xs) \in Seq(Item)
BY LineDay

LEMMA SinkDay ==
  ASSUME LiveWorldAssumption, NEW tp, NEW tq, NEW d \in Nat, DayOn(tp, tq, d), NEW s \in Sinks,
         NEW xs, NEW fs, NEW skip, NEW rec, NEW b, Between(tp, s, d, xs, fs, skip, rec, b),
         NEW all, all = DayGives(tq, s, d, xs), NEW longest \in Nat, Len(all) <= longest,
         NEW gs, gs = Kept(fs, d - HistoryDays, all),
         NEW c, c = (IF skip > 0 THEN b ELSE Len(rec)),
         NEW ys, ys = Becomes(Outs(tq, s, d, xs))
  PROVE  Amid(tq, s, d, xs, ys, gs, all, Shorter(skip, longest), longest, rec, c)
<1>1. PICK L : L = Past(fs, d)
  OBVIOUS
<1>2. /\ Before1(tp, s, d, xs, fs) /\ skip \in Nat /\ c = Len(L)
      /\ TapeDays(tp) = d => rec = L /\ skip = 0
      /\ d < TapeDays(tp) => HandedOn(rec, L, DayGives(tp, s, d, xs), skip)
      /\ TapeDays(tp) \in {d, d + 1}
  BY <1>1 DEF Between, Before1
<1>3. After1(tq, s, d, xs, gs) /\ Past(gs, d) = L
  BY SMTT(30), <1>1, <1>2, LineStep
<1>4. L \in Seq(Item) /\ Line(tq, s, d, xs, gs) /\ TapeOK(tq) /\ d < TapeDays(tq)
  BY <1>3, PastIn DEF After1, DayOn
<1>5. all \in Seq(Item)
  BY <1>4, GivesIn
<1>6. HandedOn(rec, L, all, Shorter(skip, longest))
  <2>1. CASE TapeDays(tp) = d
    <3>1. rec = L /\ Shorter(skip, longest) = 0
      BY <1>2, <2>1, ShorterIs
    <3>2. QED BY <1>4, <1>5, <3>1, HandNone
  <2>2. CASE d < TapeDays(tp)
    <3>1. tq = tp
      BY <2>2 DEF DayOn
    <3>2. HandedOn(rec, L, all, skip)
      BY <1>2, <2>2, <3>1
    <3>3. QED BY <1>2, <1>5, <3>2, HandCut
  <2>3. QED BY <1>2, <2>1, <2>2
<1>7. QED BY <1>2, <1>3, <1>6 DEF Amid

(* A sink whose day is done is between two days.                            *)
LEMMA SinkDone ==
  ASSUME LiveWorldAssumption, NEW tp, TapeOK(tp), NEW d \in Nat, NEW s \in Sinks, NEW xs, NEW ys,
         NEW fs, NEW all, NEW cursor \in Nat, NEW length \in Nat, cursor >= length, NEW rec, NEW b,
         Amid(tp, s, d, xs, ys, fs, all, cursor, length, rec, b)
  PROVE  Between(tp, s, d + 1, ys, fs, 0, rec, b)
<1>1. PICK L : L = Past(fs, d)
  OBVIOUS
<1>2. /\ After1(tp, s, d, xs, fs) /\ ys = Becomes(Outs(tp, s, d, xs))
      /\ all = DayGives(tp, s, d, xs) /\ Len(all) <= length /\ HandedOn(rec, L, all, cursor)
  BY <1>1 DEF Amid
<1>3. /\ Line(tp, s, d, xs, fs) /\ TapeDays(tp) = d + 1 /\ Len(fs) = TapeDays(tp) - HistoryDays
      /\ fs[d - HistoryDays + 1] = all /\ Line(tp, s, d + 1, ys, fs)
  BY <1>2 DEF After1
<1>4. L \in Seq(Item) /\ all \in Seq(Item)
  <2>1. L \in Seq(Item)
    BY <1>1, <1>3, PastIn
  <2>2. d < TapeDays(tp)
    BY <1>3
  <2>3. DayGives(tp, s, d, xs) \in Seq(Item)
    <3>1. Line(tp, s, d, xs, fs)
      BY <1>3
    <3>2. QED BY <2>2, <3>1, GivesIn
  <2>4. QED BY <1>2, <2>1, <2>3
<1>5. rec = L \o all
  <2>1. cursor >= Len(all)
    <3>1. Len(all) \in Nat
      BY <1>4
    <3>2. QED BY <1>2, <3>1
  <2>2. HandedOn(rec, L, all, cursor)
    BY <1>2
  <2>3. cursor >= Len(all) => rec = L \o all
    BY <1>4, <2>2, HandIs
  <2>4. QED BY <2>1, <2>3
<1>6. Past(fs, d + 1) = L \o all
  <2>1. PICK k : k = d - HistoryDays
    OBVIOUS
  <2>2. fs \in Seq(Seq(Item)) /\ d \in HistoryDays..TapeDays(tp) /\ HistoryDays \in Nat
    BY <1>3 DEF Line, LiveWorldAssumption
  <2>3. k \in Nat /\ k < Len(fs) /\ (d + 1) - HistoryDays = k + 1
    <3>1. HistoryDays <= d /\ TapeDays(tp) = d + 1 /\ Len(fs) = (d + 1) - HistoryDays
      BY <1>3, <2>2
    <3>2. QED BY ONLY SMTT(30), HistoryDays \in Nat, d \in Nat, <2>1, <2>2, <3>1
  <2>4. FlattenSeq(SubSeq(fs, 1, k + 1)) = FlattenSeq(SubSeq(fs, 1, k)) \o fs[k + 1]
    BY <2>2, <2>3, OneMore
  <2>5. QED BY <1>1, <1>3, <2>1, <2>3, <2>4 DEF Past
<1>7. Before1(tp, s, d + 1, ys, fs)
  BY <1>3 DEF Before1
<1>8. ~ (d + 1 < TapeDays(tp)) /\ ~ (0 > 0)
  BY <1>3
<1>9. QED BY <1>3, <1>5, <1>6, <1>7, <1>8 DEF Between

(* A sink whose day is taken up again.                                      *)
LEMMA SinkAgain ==
  ASSUME LiveWorldAssumption, NEW tp, TapeOK(tp), NEW d \in Nat, NEW s \in Sinks, NEW xs, NEW ys,
         NEW fs, NEW all, NEW cursor \in Nat, NEW length, NEW rec, NEW b,
         Amid(tp, s, d, xs, ys, fs, all, cursor, length, rec, b), NEW made \in 0..cursor
  PROVE  Between(tp, s, d, xs, fs, made, SubSeq(rec, 1, Shorter(Len(rec), b + made)), b)
<1>1. PICK L, l : L = Past(fs, d) /\ l = SubSeq(rec, 1, Shorter(Len(rec), b + made))
  OBVIOUS
<1>2. /\ After1(tp, s, d, xs, fs) /\ all = DayGives(tp, s, d, xs)
      /\ HandedOn(rec, L, all, cursor) /\ b = Len(L)
  BY <1>1 DEF Amid
<1>3. /\ Line(tp, s, d, xs, fs) /\ TapeDays(tp) = d + 1 /\ Len(fs) = TapeDays(tp) - HistoryDays
      /\ fs[d - HistoryDays + 1] = all
  BY <1>2 DEF After1
<1>4. L \in Seq(Item) /\ all \in Seq(Item) /\ made \in Nat /\ made <= cursor
  <2>1. L \in Seq(Item)
    BY <1>1, <1>3, PastIn
  <2>2. d < TapeDays(tp)
    BY <1>3
  <2>3. DayGives(tp, s, d, xs) \in Seq(Item)
    <3>1. Line(tp, s, d, xs, fs)
      BY <1>3
    <3>2. QED BY <2>2, <3>1, GivesIn
  <2>4. QED BY <1>2, <2>1, <2>3
<1>5. HandedOn(l, L, all, made)
  BY <1>1, <1>2, <1>4, HandLess
<1>6. Before1(tp, s, d, xs, fs)
  BY <1>2, <1>3 DEF Before1
<1>7. ~ (made > 0) => Len(l) = Len(L)
  <2>1. SUFFICES ASSUME made = 0 PROVE Len(l) = Len(L)
    BY <1>4
  <2>2. Len(l) = Len(L) + Shorter(made, Len(all))
    BY <1>4, <1>5, HandIs
  <2>3. Len(all) \in Nat /\ Len(L) \in Nat
    BY <1>4
  <2>4. Shorter(made, Len(all)) = 0
    BY <2>1, <2>3, ShorterIs
  <2>5. QED BY <2>2, <2>3, <2>4
<1>8. TapeDays(tp) # d
  BY <1>3
<1>9. QED BY <1>1, <1>2, <1>4, <1>5, <1>6, <1>7, <1>8 DEF Between

(* A sink that is handed a batch.                                           *)
LEMMA SinkBatch ==
  ASSUME LiveWorldAssumption, NEW tp, TapeOK(tp), NEW d \in Nat, NEW s \in Sinks, NEW xs, NEW ys,
         NEW fs, NEW all, NEW cursor \in Nat, NEW length, NEW rec, NEW b,
         Amid(tp, s, d, xs, ys, fs, all, cursor, length, rec, b), NEW to \in Nat, cursor <= to
  PROVE  Amid(tp, s, d, xs, ys, fs, all, to, length,
              rec \o SubSeq(all, cursor + 1, Shorter(to, Len(all))), b)
<1>1. PICK L, l : L = Past(fs, d) /\ l = rec \o SubSeq(all, cursor + 1, Shorter(to, Len(all)))
  OBVIOUS
<1>2. /\ After1(tp, s, d, xs, fs) /\ all = DayGives(tp, s, d, xs) /\ HandedOn(rec, L, all, cursor)
  BY <1>1 DEF Amid
<1>3. Line(tp, s, d, xs, fs) /\ d < TapeDays(tp)
  BY <1>2 DEF After1
<1>4. L \in Seq(Item) /\ all \in Seq(Item)
  BY <1>1, <1>2, <1>3, PastIn, GivesIn
<1>5. HandedOn(l, L, all, to)
  BY <1>1, <1>2, <1>4, HandMore
<1>6. QED BY <1>1, <1>5 DEF Amid

-----------------------------------------------------------------------------
(* The history, day by day.                                                 *)
LEMMA FiledGrows ==
  ASSUME NEW tp, NEW tq, Grows(tp, tq), TapeDays(tp) \in Nat, NEW s \in Sinks, NEW p \in Partitions,
         NEW t, NEW W, Filed(tp, s, p, TapeDays(tp), t, W)
  PROVE  Filed(tq, s, p, TapeDays(tp), t, W)
<1>1. PICK d, Q : d = TapeDays(tp) /\ Q = {p} \X Gone(tp, p, d, t)
  OBVIOUS
<1>2. /\ Queue(tp, s, p, d, t) /\ Lagging(p, TheItems(W), d, t) /\ Told(tp, s, W, Q) /\ Tells({}, W)
  BY <1>1 DEF Filed
<1>3. Queue(tq, s, p, d, t) /\ Gone(tq, p, d, t) = Gone(tp, p, d, t)
  BY <1>1, <1>2, GrowsQueue
<1>4. \A e \in Q : e[2] < Count(tp, e[1], TapeDays(tp))
  BY <1>1 DEF Gone
<1>5. Told(tq, s, W, Q)
  BY <1>2, <1>4, GrowsTold
<1>6. QED BY <1>1, <1>2, <1>3, <1>5 DEF Filed

LEMMA StartsSteady == ASSUME LiveWorldAssumption, WorldInit PROVE Steady
<1>1. 1 \in Partitions /\ HistoryDays \in Nat
  BY DEF Partitions, LiveWorldAssumption
<1>2. PICK E, F : /\ tape = [events |-> E, fates |-> F]
                  /\ E = [p \in Partitions |-> <<>>]
                  /\ F = [s \in Sinks |-> [p \in Partitions |-> <<>>]]
  BY DEF WorldInit, Each
<1>3. \A p \in Partitions : tape.events[p] = <<>>
  BY <1>2
<1>4. \A s \in Sinks, p \in Partitions : tape.fates[s][p] = <<>>
  BY <1>2
<1>5. TapeDays(tape) = 0
  BY <1>1, <1>3 DEF TapeDays
<1>6. tape.events \in [Partitions -> Seq(Seq(Moments))]
  BY <1>2
<1>7. \A p \in Partitions : Count(tape, p, 0) = 0
  BY CountNone
<1>8. TapeOK(tape)
  BY <1>3, <1>4, <1>5, <1>6, <1>7 DEF TapeOK
<1>9. /\ next = 0 /\ saved = Nothing /\ live = Nothing
      /\ \A s \in Sinks : first[s] = <<>> /\ received[s] = <<>> /\ base[s] = 0
      /\ tr = Each(Fresh) /\ written = Each(<<>>)
  BY DEF WorldInit
<1>10. ASSUME NEW s \in Sinks, NEW p \in Partitions
       PROVE  Filed(tape, s, p, 0, tr[s][p], written[s][p])
  <2>1. PICK t, W : t = tr[s][p] /\ W = written[s][p]
    OBVIOUS
  <2>2. t = [rng |-> 0, seq |-> 0, heap |-> {}, hold |-> Nothing] /\ W = <<>>
    BY <1>9, <2>1 DEF Each, Fresh
  <2>3. Queue(tape, s, p, 0, t)
    BY <1>7, <2>2, EmptyQueue
  <2>4. TheItems(W) = {} /\ Tells({}, W)
    BY <2>2 DEF TheItems, Tells
  <2>5. Lagging(p, TheItems(W), 0, t)
    BY <2>4 DEF Lagging
  <2>6. Gone(tape, p, 0, t) = {}
    BY <1>7 DEF Gone
  <2>7. {p} \X Gone(tape, p, 0, t) = {}
    BY <2>6
  <2>8. Told(tape, s, W, {p} \X Gone(tape, p, 0, t))
    BY <2>2, <2>7, ToldNone
  <2>9. QED BY <2>1, <2>3, <2>4, <2>5, <2>8 DEF Filed
<1>11. Early
  BY <1>1, <1>5, <1>9, <1>10 DEF Early
<1>12. QED BY <1>8, <1>11 DEF Steady

(* Only the early world simulates days of the history.                      *)
LEMMA EarlyOnly ==
  ASSUME LiveWorldAssumption, Steady, next < HistoryDays \/ saved = Nothing
  PROVE  Early
<1>1. HistoryDays \in Nat /\ Sinks # {}
  BY DEF LiveWorldAssumption
<1>2. CASE Ready
  BY <1>1, <1>2 DEF Ready, FilesOK
<1>3. CASE Resumed
  <2>1. PICK s \in Sinks : TRUE
    BY <1>1
  <2>2. Line(tape, s, next, tr[s], first[s])
    BY <1>3 DEF Resumed, Betweens, Between, Before1
  <2>3. next \in HistoryDays..TapeDays(tape) /\ saved # Nothing
    BY <1>3, <2>2 DEF Line, Resumed, FilesOK
  <2>4. ~ (next < HistoryDays)
    BY <1>1, <2>3
  <2>5. QED BY <2>3, <2>4
<1>4. CASE Playing
  <2>1. PICK s \in Sinks : TRUE
    BY <1>1
  <2>2. PICK d : d = live.current.day
    OBVIOUS
  <2>3. Line(tape, s, d, live.checkpoint.tr[s], first[s]) /\ next = d + 1 /\ saved # Nothing
    BY <1>4, <2>2 DEF Playing, Amid, After1, FilesOK
  <2>4. d \in HistoryDays..TapeDays(tape)
    BY <2>3 DEF Line
  <2>5. ~ (next < HistoryDays)
    BY <1>1, <2>3, <2>4
  <2>6. QED BY <2>3, <2>5
<1>5. QED BY <1>2, <1>3, <1>4 DEF Steady

LEMMA GenerateDaySteady ==
  ASSUME LiveWorldAssumption, Steady, GenerateDay
  PROVE  Steady'
<1>1. Early /\ TapeOK(tape) /\ next < HistoryDays
  <2>1. next < HistoryDays
    BY DEF GenerateDay
  <2>2. QED BY <2>1, EarlyOnly DEF Steady
<1>2. /\ saved = Nothing /\ live = Nothing /\ next = TapeDays(tape) /\ next \in 0..HistoryDays
      /\ HistoryDays \in Nat
  BY <1>1 DEF Early, LiveWorldAssumption
<1>3. PICK tp \in Drawn(next) :
        LET passed == Passed(tp, next)
        IN  /\ tape' = tp
            /\ tr' = [s \in Sinks |-> [p \in Partitions |-> passed[s][p].t]]
            /\ written' = [s \in Sinks |-> [p \in Partitions |-> written[s][p] \o passed[s][p].out]]
  BY Zenon DEF GenerateDay
<1>4. PICK d, f : d = next /\ f = Passed(tp, next)
  OBVIOUS
<1>5. /\ tape' = tp /\ next' = d + 1 /\ d \in Nat /\ d = TapeDays(tape)
      /\ tr' = [s \in Sinks |-> [p \in Partitions |-> f[s][p].t]]
      /\ written' = [s \in Sinks |-> [p \in Partitions |-> written[s][p] \o f[s][p].out]]
  <2>1. next' = d + 1
    BY <1>4 DEF GenerateDay
  <2>2. QED BY <1>2, <1>3, <1>4, <2>1
<1>6. DayOn(tape, tp, d)
  BY <1>1, <1>2, <1>4, DrawnOn
<1>7. TapeOK(tp) /\ Grows(tape, tp) /\ TapeDays(tp) = d + 1 /\ TapeDays(tape) \in Nat
  BY <1>5, <1>6 DEF DayOn
<1>8. ASSUME NEW s \in Sinks, NEW p \in Partitions
      PROVE  Filed(tp, s, p, d + 1, tr'[s][p], written'[s][p])
  <2>1. PICK t, W, r : t = tr[s][p] /\ W = written[s][p] /\ r = f[s][p]
    OBVIOUS
  <2>2. Filed(tape, s, p, d, t, W)
    BY <1>1, <1>4, <2>1 DEF Early
  <2>3. Filed(tp, s, p, d, t, W)
    BY <1>5, <1>7, <2>2, FiledGrows
  <2>4. r = DrainUntil(Fed(tp, s, p, d, t), DayEnd(d))
    BY <1>4, <2>1, Zenon DEF Passed
  <2>5. Filed(tp, s, p, d + 1, r.t, W \o r.out)
    <3>1. d < TapeDays(tp)
      BY <1>5, <1>7
    <3>2. QED BY <1>5, <1>7, <2>3, <2>4, <3>1, FileDay
  <2>6. tr'[s][p] = r.t /\ written'[s][p] = W \o r.out
    BY <1>5, <2>1
  <2>7. QED BY <2>5, <2>6
<1>9. /\ saved' = Nothing /\ live' = Nothing
      /\ \A s \in Sinks : first'[s] = <<>> /\ received'[s] = <<>> /\ base'[s] = 0
  <2>1. saved' = saved /\ live' = live /\ ghost' = ghost
    BY DEF GenerateDay
  <2>2. QED BY <1>1, <1>2, <2>1 DEF ghost, Early
<1>10. next' = TapeDays(tape') /\ next' \in 0..HistoryDays
  BY <1>1, <1>2, <1>4, <1>5, <1>7
<1>11. Early'
  BY <1>5, <1>8, <1>9, <1>10 DEF Early
<1>12. QED BY <1>5, <1>7, <1>11 DEF Steady

LEMMA EndHistorySteady ==
  ASSUME LiveWorldAssumption, Steady, EndHistory
  PROVE  Steady'
<1>1. Early /\ TapeOK(tape) /\ next = HistoryDays /\ HistoryDays \in Nat
  <2>1. next = HistoryDays /\ saved = Nothing
    BY DEF EndHistory
  <2>2. QED BY <2>1, EarlyOnly DEF Steady, LiveWorldAssumption
<1>2. /\ tape' = tape /\ next' = next /\ live' = live /\ ghost' = ghost
      /\ saved' = [day |-> next, tr |-> tr']
      /\ written' = [s \in Sinks |-> [p \in Partitions |-> written[s][p] \o Flush(tr[s][p]).out]]
      /\ tr' = [s \in Sinks |-> [p \in Partitions |-> Flush(tr[s][p]).t]]
  BY DEF EndHistory
<1>3. ASSUME NEW s \in Sinks, NEW p \in Partitions
      PROVE  Complete(tape, s, p, tr'[s][p], written'[s][p])
  <2>1. PICK t, W, r : t = tr[s][p] /\ W = written[s][p] /\ r = Flush(t)
    OBVIOUS
  <2>2. Filed(tape, s, p, HistoryDays, t, W)
    BY <1>1, <2>1 DEF Early
  <2>3. Complete(tape, s, p, r.t, W \o r.out)
    BY <1>1, <2>1, <2>2, FileEnds
  <2>4. tr'[s][p] = r.t /\ written'[s][p] = W \o r.out
    BY <1>2, <2>1
  <2>5. QED BY <2>3, <2>4
<1>4. saved' = [day |-> HistoryDays, tr |-> tr'] /\ saved'.tr = tr'
  BY <1>1, <1>2
<1>5. saved' # Nothing
  <2>1. DOMAIN saved' = {"day", "tr"} /\ DOMAIN Nothing = {"none"}
    BY <1>4 DEF Nothing
  <2>2. "day" # "none"
    OBVIOUS
  <2>3. QED BY <2>1, <2>2
<1>6. FilesOK'
  <2>1. \A s \in Sinks, p \in Partitions : tr'[s][p].heap = {} /\ tr'[s][p].hold = Nothing
    BY <1>3 DEF Complete
  <2>2. \A s \in Sinks, p \in Partitions : Written(tape', s, p, written'[s][p])
    BY <1>2, <1>3 DEF Complete, Written
  <2>3. saved' = [day |-> HistoryDays, tr |-> saved'.tr]
    BY <1>4
  <2>4. QED BY <1>4, <1>5, <2>1, <2>2, <2>3 DEF FilesOK
<1>7. TapeDays(tape') = HistoryDays /\ next' = HistoryDays /\ live' = Nothing
  BY <1>1, <1>2 DEF Early
<1>8. ASSUME NEW s \in Sinks
      PROVE  /\ Line(tape', s, next', tr'[s], first'[s])
             /\ first'[s] = <<>> /\ received'[s] = <<>> /\ base'[s] = 0
  <2>1. first' = first /\ received' = received /\ base' = base
    BY <1>2 DEF ghost
  <2>2. first[s] = <<>> /\ received[s] = <<>> /\ base[s] = 0
    BY <1>1 DEF Early
  <2>3. Line(tape, s, HistoryDays, tr'[s], <<>>)
    <3>1. PICK xs : xs = tr'[s]
      OBVIOUS
    <3>2. \A p \in Partitions : \E W : Complete(tape, s, p, xs[p], W)
      BY <1>3, <3>1
    <3>3. TapeDays(tape) = HistoryDays
      BY <1>2, <1>7
    <3>4. QED BY <1>1, <3>1, <3>2, <3>3, LineBegins
  <2>4. QED BY <1>1, <1>2, <2>1, <2>2, <2>3
<1>9. Ready'
  BY <1>4, <1>6, <1>7, <1>8 DEF Ready
<1>10. QED BY <1>1, <1>2, <1>9 DEF Steady

-----------------------------------------------------------------------------
(* Live days.                                                               *)
LEMMA OpenedIs ==
  ASSUME NEW n
  PROVE  /\ Opened(n) # Nothing /\ Opened(n).skip = n /\ Opened(n).current = Nothing
<1>1. "current" \in DOMAIN Opened(n) /\ DOMAIN Nothing = {"none"}
  BY DEF Opened, Nothing
<1>2. "current" # "none"
  OBVIOUS
<1>3. Opened(n) # Nothing
  BY <1>1, <1>2
<1>4. QED BY <1>3 DEF Opened

(* After the history, files and written stay, on whatever tape.             *)
LEMMA FilesStay ==
  ASSUME LiveWorldAssumption, FilesOK, TapeOK(tape), NEW tq, NEW d \in Nat, DayOn(tape, tq, d),
         d <= TapeDays(tape),
         \A s \in Sinks : Line(tape, s, d, tr[s], first[s])
  PROVE  \A s \in Sinks, p \in Partitions : Written(tq, s, p, written[s][p])
<1>1. SUFFICES ASSUME NEW s \in Sinks, NEW p \in Partitions PROVE Written(tq, s, p, written[s][p])
  OBVIOUS
<1>2. Written(tape, s, p, written[s][p])
  BY DEF FilesOK
<1>3. CASE d < TapeDays(tape)
  BY <1>2, <1>3 DEF DayOn
<1>4. CASE d = TapeDays(tape)
  <2>1. Grows(tape, tq)
    BY <1>4 DEF DayOn
  <2>2. d \in HistoryDays..TapeDays(tape) /\ HistoryDays \in Nat
    BY DEF Line, LiveWorldAssumption
  <2>3. PICK xs, L, W : xs = tr[s] /\ L = Past(first[s], d) /\ W = written[s][p]
    OBVIOUS
  <2>4. Streamed(tape, s, TapeDays(tape), xs, L)
    BY <1>4, <2>3 DEF Line
  <2>5. Written(tape, s, p, W) /\ HistoryDays \in 0..TapeDays(tape) /\ TapeDays(tape) \in Nat
    BY <1>2, <1>4, <2>2, <2>3
  <2>6. QED BY <2>1, <2>3, <2>4, <2>5, WrittenGrows
<1>5. TapeDays(tape) \in Nat
  <2>1. 1 \in Partitions
    BY DEF Partitions, LiveWorldAssumption
  <2>2. QED BY <2>1 DEF TapeDays, TapeOK
<1>6. QED BY <1>3, <1>4, <1>5

LEMMA OpenSteady ==
  ASSUME LiveWorldAssumption, Steady, Open
  PROVE  Steady'
<1>1. saved # Nothing /\ live = Nothing
  BY DEF Open
<1>2. Ready /\ TapeOK(tape)
  <2>1. ~ Early /\ ~ Resumed /\ ~ Playing
    BY <1>1 DEF Early, Resumed, Playing
  <2>2. QED BY <2>1 DEF Steady
<1>3. /\ FilesOK /\ next = HistoryDays /\ TapeDays(tape) = HistoryDays /\ tr = saved.tr
      /\ HistoryDays \in Nat
  BY <1>2 DEF Ready, LiveWorldAssumption
<1>4. /\ next' = saved.day /\ tr' = saved.tr /\ live' = Opened(0)
      /\ tape' = tape /\ written' = written /\ saved' = saved
      /\ received' = received /\ base' = base /\ first' = first
  BY DEF Open, ghost
<1>5. saved.day = HistoryDays
  BY <1>3 DEF FilesOK
<1>6. next' = next /\ tr' = tr
  BY <1>3, <1>4, <1>5
<1>7. live'.skip = 0 /\ live' = Opened(live'.skip) /\ live' # Nothing
  BY <1>4, OpenedIs
<1>8. ASSUME NEW s \in Sinks
      PROVE  Between(tape, s, next, tr[s], first[s], 0, received[s], base[s])
  <2>1. PICK d, xs, fs, rec, b :
          d = next /\ xs = tr[s] /\ fs = first[s] /\ rec = received[s] /\ b = base[s]
    OBVIOUS
  <2>2. Line(tape, s, d, xs, fs) /\ fs = <<>> /\ rec = <<>> /\ b = 0
    BY <1>2, <2>1 DEF Ready
  <2>3. d = HistoryDays /\ d = TapeDays(tape) /\ d \in Nat
    BY <1>3, <2>1
  <2>4. Past(fs, d) = <<>>
    BY <2>2, <2>3, NoneYet DEF Past
  <2>5. Before1(tape, s, d, xs, fs)
    <3>1. Len(fs) = 0 /\ TapeDays(tape) - HistoryDays = 0 /\ ~ (d < TapeDays(tape))
      BY <2>2, <2>3
    <3>2. QED BY <2>2, <2>3, <3>1 DEF Before1
  <2>6. ~ (d < TapeDays(tape)) /\ ~ (0 > 0)
    BY <2>3
  <2>7. Between(tape, s, d, xs, fs, 0, rec, b)
    BY <2>2, <2>4, <2>5, <2>6 DEF Between
  <2>8. QED BY <2>1, <2>7
<1>9. Betweens'
  BY <1>4, <1>6, <1>7, <1>8 DEF Betweens
<1>10. FilesOK'
  BY <1>3, <1>4 DEF FilesOK
<1>11. Resumed'
  BY <1>3, <1>6, <1>7, <1>9, <1>10 DEF Resumed
<1>12. QED BY <1>2, <1>4, <1>11 DEF Steady

(* A day done: every sink is between two days.                              *)
LEMMA DayDone ==
  ASSUME LiveWorldAssumption, TapeOK(tape), Playing, live.cursor >= live.length
  PROVE  Betweens /\ next \in Nat
<1>1. PICK d, cp, cur : /\ d = live.current.day /\ cp = live.checkpoint.tr
                       /\ cur = live.current.deliveries
  OBVIOUS
<1>2. /\ live.cursor \in Nat /\ live.length \in Nat /\ d \in Nat /\ next = d + 1
      /\ live.skip = 0
  BY <1>1 DEF Playing
<1>3. ASSUME NEW s \in Sinks
      PROVE  Between(tape, s, next, tr[s], first[s], live.skip, received[s], base[s])
  <2>1. PICK xs, ys, fs, all, cursor, length, rec, b :
          /\ xs = cp[s] /\ ys = tr[s] /\ fs = first[s] /\ all = cur[s]
          /\ cursor = live.cursor /\ length = live.length /\ rec = received[s] /\ b = base[s]
    OBVIOUS
  <2>2. Amid(tape, s, d, xs, ys, fs, all, cursor, length, rec, b)
    BY <1>1, <2>1 DEF Playing
  <2>3. Between(tape, s, d + 1, ys, fs, 0, rec, b)
    BY <1>2, <2>1, <2>2, SinkDone
  <2>4. QED BY <1>2, <2>1, <2>3
<1>4. QED BY <1>2, <1>3 DEF Betweens

(* Before a day is simulated.                                               *)
LEMMA BeforeDay ==
  ASSUME LiveWorldAssumption, Steady, live # Nothing,
         live.current = Nothing \/ live.cursor >= live.length
  PROVE  TapeOK(tape) /\ FilesOK /\ Betweens /\ next \in Nat
<1>1. ~ Early /\ ~ Ready
  BY DEF Early, Ready
<1>2. CASE Resumed
  BY <1>2 DEF Resumed, Steady
<1>3. CASE Playing
  <2>1. live.cursor >= live.length
    BY <1>3 DEF Playing
  <2>2. Betweens /\ next \in Nat
    BY <1>3, <2>1, DayDone DEF Steady
  <2>3. QED BY <1>3, <2>2 DEF Playing, Steady
<1>4. QED BY <1>1, <1>2, <1>3 DEF Steady

LEMMA AdvanceDaySteady ==
  ASSUME LiveWorldAssumption, Steady, AdvanceDay
  PROVE  Steady'
<1>1. /\ live # Nothing /\ (live.current = Nothing \/ live.cursor >= live.length)
      /\ next' = next + 1
      /\ base' = [s \in Sinks |-> IF live.skip > 0 THEN base[s] ELSE Len(received[s])]
      /\ written' = written /\ saved' = saved /\ received' = received
  BY DEF AdvanceDay
<1>2. TapeOK(tape) /\ FilesOK /\ Betweens /\ next \in Nat
  BY <1>1, BeforeDay
<1>3. PICK tp \in Drawn(next) :
       LET passed     == Passed(tp, next)
           deliveries == [s \in Sinks |->
                            MergeByDeliveredAt([p \in Partitions |-> passed[s][p].out])]
           Longest    == CHOOSE n \in {Len(deliveries[s]) : s \in Sinks} :
                           \A s \in Sinks : Len(deliveries[s]) <= n
           n          == next - HistoryDays
       IN  /\ tape' = tp
           /\ tr' = [s \in Sinks |-> [p \in Partitions |-> passed[s][p].t]]
           /\ live' = Advanced([day |-> next, deliveries |-> deliveries],
                               [day |-> next, tr |-> tr], Longest)
           /\ first' = [s \in Sinks |-> IF n < Len(first[s]) THEN first[s]
                                        ELSE Append(first[s], deliveries[s])]
  BY Zenon DEF AdvanceDay
<1>4. PICK d, f, dels, k :
        /\ d = next /\ f = Passed(tp, next) /\ k = next - HistoryDays
        /\ dels = [s \in Sinks |-> MergeByDeliveredAt([p \in Partitions |-> f[s][p].out])]
  OBVIOUS
<1>5. PICK longest :
        longest = CHOOSE n \in {Len(dels[s]) : s \in Sinks} : \A s \in Sinks : Len(dels[s]) <= n
  OBVIOUS
<1>6. /\ tape' = tp
      /\ tr' = [s \in Sinks |-> [p \in Partitions |-> f[s][p].t]]
      /\ live' = Advanced([day |-> d, deliveries |-> dels], [day |-> d, tr |-> tr], longest)
      /\ first' = [s \in Sinks |-> IF k < Len(first[s]) THEN first[s]
                                   ELSE Append(first[s], dels[s])]
  BY <1>3, <1>4, <1>5, Zenon
<1>7. /\ \A s \in Sinks : Between(tape, s, d, tr[s], first[s], live.skip, received[s], base[s])
      /\ \A s \in Sinks : Line(tape, s, d, tr[s], first[s]) /\ TapeDays(tape) \in {d, d + 1}
      /\ d \in Nat /\ live.skip \in Nat
  <2>1. \A s \in Sinks : Between(tape, s, d, tr[s], first[s], live.skip, received[s], base[s])
    BY <1>2, <1>4 DEF Betweens
  <2>2. \A s \in Sinks : /\ Line(tape, s, d, tr[s], first[s]) /\ TapeDays(tape) \in {d, d + 1}
                         /\ live.skip \in Nat
    BY <2>1 DEF Between, Before1
  <2>3. Sinks # {}
    BY DEF LiveWorldAssumption
  <2>4. QED BY <1>2, <1>4, <2>1, <2>2, <2>3
<1>8. DayOn(tape, tp, d) /\ d <= TapeDays(tape)
  <2>1. PICK s \in Sinks : TapeDays(tape) \in {d, d + 1}
    BY <1>7 DEF LiveWorldAssumption
  <2>2. d <= TapeDays(tape)
    BY <1>7, <2>1
  <2>3. QED BY <1>2, <1>4, <1>7, <2>2, DrawnOn
<1>9. TapeOK(tp) /\ d < TapeDays(tp)
  BY <1>8 DEF DayOn
<1>10. ASSUME NEW s \in Sinks
       PROVE  /\ f[s] = Outs(tp, s, d, tr[s]) /\ dels[s] = DayGives(tp, s, d, tr[s])
              /\ tr'[s] = Becomes(Outs(tp, s, d, tr[s]))
              /\ first'[s] = Kept(first[s], d - HistoryDays, dels[s])
  <2>1. f[s] = Outs(tp, s, d, tr[s])
    BY <1>4, Zenon DEF Passed, Outs
  <2>2. PICK o : o = f[s]
    OBVIOUS
  <2>3. dels[s] = MergeByDeliveredAt([p \in Partitions |-> o[p].out])
    BY <1>4, <2>2, Zenon
  <2>4. dels[s] = DayGives(tp, s, d, tr[s])
    BY <2>1, <2>2, <2>3 DEF DayGives, Merged
  <2>5. tr'[s] = [p \in Partitions |-> o[p].t]
    BY <1>6, <2>2, Zenon
  <2>6. tr'[s] = Becomes(Outs(tp, s, d, tr[s]))
    BY <2>1, <2>2, <2>5 DEF Becomes
  <2>7. first'[s] = Kept(first[s], d - HistoryDays, dels[s])
    BY <1>4, <1>6 DEF Kept
  <2>8. QED BY <2>1, <2>4, <2>6, <2>7
<1>11. \A s \in Sinks : dels[s] \in Seq(Item)
  <2>1. TAKE s \in Sinks
  <2>2. PICK xs, fs, gs : xs = tr[s] /\ fs = first[s] /\ gs = first'[s]
    OBVIOUS
  <2>3. Before1(tape, s, d, xs, fs)
    BY <1>7, <2>2 DEF Between
  <2>4. gs = Kept(fs, d - HistoryDays, DayGives(tp, s, d, xs))
    BY <1>10, <2>2
  <2>5. After1(tp, s, d, xs, gs)
    BY <1>7, <1>8, <2>3, <2>4, LineStep
  <2>6. Line(tp, s, d, xs, gs)
    BY <2>5 DEF After1
  <2>7. DayGives(tp, s, d, xs) \in Seq(Item)
    BY <1>7, <1>9, <2>6, GivesIn
  <2>8. QED BY <1>10, <2>2, <2>7
<1>12. longest \in Nat /\ \A s \in Sinks : Len(dels[s]) <= longest
  <2>1. PICK g : g = [s \in Sinks |-> Len(dels[s])]
    OBVIOUS
  <2>2. \A s \in Sinks : g[s] \in Nat /\ g[s] = Len(dels[s])
    BY <1>11, <2>1
  <2>3. \E n \in {g[s] : s \in Sinks} : \A s \in Sinks : g[s] <= n
    BY <2>2, LongestIs
  <2>4. {g[s] : s \in Sinks} = {Len(dels[s]) : s \in Sinks}
    BY <2>2
  <2>5. \E n \in {Len(dels[s]) : s \in Sinks} : \A s \in Sinks : Len(dels[s]) <= n
    BY <2>2, <2>3, <2>4
  <2>6. longest \in {Len(dels[s]) : s \in Sinks} /\ \A s \in Sinks : Len(dels[s]) <= longest
    BY <1>5, <2>5, Zenon
  <2>7. QED BY <2>2, <2>6
<1>13. PICK cur, cp, c :
         /\ cur = [day |-> d, deliveries |-> dels] /\ cp = [day |-> d, tr |-> tr]
         /\ c = Shorter(live.skip, longest)
  OBVIOUS
<1>14. live' = [current |-> cur, checkpoint |-> cp, length |-> longest, cursor |-> c, skip |-> 0]
  BY <1>6, <1>13 DEF Advanced
<1>15. /\ live'.current = cur /\ live'.checkpoint = cp /\ live'.cursor = c
       /\ live'.length = longest
       /\ cur.day = d /\ cur.deliveries = dels /\ cp.day = d /\ cp.tr = tr
       /\ live' = [current |-> live'.current, checkpoint |-> live'.checkpoint,
                   cursor |-> live'.cursor, length |-> live'.length, skip |-> 0]
  <2>1. cur.day = d /\ cur.deliveries = dels /\ cp.day = d /\ cp.tr = tr
    BY <1>13
  <2>2. PICK v : v = live'
    OBVIOUS
  <2>3. v.current = cur /\ v.checkpoint = cp /\ v.cursor = c /\ v.length = longest
    BY <1>14, <2>2
  <2>4. v = [current |-> v.current, checkpoint |-> v.checkpoint,
             cursor |-> v.cursor, length |-> v.length, skip |-> 0]
    BY <1>14, <2>2, <2>3
  <2>5. QED BY <2>1, <2>2, <2>3, <2>4
<1>16. live' # Nothing /\ live'.current # Nothing
  <2>1. DOMAIN Nothing = {"none"} /\ "current" # "none" /\ "day" # "none"
    BY DEF Nothing
  <2>2. "current" \in DOMAIN live' /\ "day" \in DOMAIN cur
    BY <1>13, <1>14
  <2>3. QED BY <1>15, <2>1, <2>2
<1>17. c \in Nat /\ c <= longest
  BY <1>7, <1>12, <1>13, ShorterIs
<1>18. ASSUME NEW s \in Sinks
       PROVE  Amid(tp, s, d, cp.tr[s], tr'[s], first'[s], dels[s], c, longest,
                   received[s], base'[s])
  <2>1. PICK xs, fs, skip, rec, b, all, gs, b2, ys :
          /\ xs = tr[s] /\ fs = first[s] /\ skip = live.skip /\ rec = received[s] /\ b = base[s]
          /\ all = dels[s] /\ gs = first'[s] /\ b2 = base'[s] /\ ys = tr'[s]
    OBVIOUS
  <2>2. Between(tape, s, d, xs, fs, skip, rec, b)
    BY <1>7, <2>1
  <2>3. all = DayGives(tp, s, d, xs) /\ ys = Becomes(Outs(tp, s, d, xs))
    BY <1>10, <2>1
  <2>4. gs = Kept(fs, d - HistoryDays, all)
    BY <1>10, <2>1
  <2>5. b2 = IF skip > 0 THEN b ELSE Len(rec)
    BY <1>1, <2>1
  <2>6. Len(all) <= longest
    BY <1>12, <2>1
  <2>7. Amid(tp, s, d, xs, ys, gs, all, Shorter(skip, longest), longest, rec, b2)
    BY <1>7, <1>8, <1>12, <2>2, <2>3, <2>4, <2>5, <2>6, SinkDay
  <2>8. QED BY <1>13, <1>15, <2>1, <2>7
<1>19. FilesOK'
  <2>1. \A s \in Sinks, p \in Partitions : Written(tp, s, p, written[s][p])
    BY <1>2, <1>7, <1>8, FilesStay
  <2>2. QED BY <1>1, <1>2, <1>6, <2>1 DEF FilesOK
<1>20. Playing'
  <2>1. ASSUME NEW s \in Sinks
        PROVE  Amid(tape', s, live'.current.day, live'.checkpoint.tr[s], tr'[s], first'[s],
                    live'.current.deliveries[s], live'.cursor, live'.length, received'[s], base'[s])
    <3>1. /\ live'.current.day = d /\ live'.checkpoint.tr = tr /\ cp.tr = tr
          /\ live'.current.deliveries = dels /\ live'.cursor = c /\ live'.length = longest
      BY <1>15
    <3>2. tape' = tp /\ received' = received
      BY <1>1, <1>6
    <3>3. Amid(tp, s, d, tr[s], tr'[s], first'[s], dels[s], c, longest, received[s], base'[s])
      BY <1>18, <3>1
    <3>4. QED BY <3>1, <3>2, <3>3
  <2>2. /\ live'.current.day \in Nat /\ live'.checkpoint.day = live'.current.day
        /\ next' = live'.current.day + 1
    BY <1>1, <1>4, <1>7, <1>15
  <2>3. live'.cursor \in Nat /\ live'.length \in Nat /\ live'.cursor <= live'.length
    BY <1>12, <1>15, <1>17
  <2>4. live' = [current |-> live'.current, checkpoint |-> live'.checkpoint,
                 cursor |-> live'.cursor, length |-> live'.length, skip |-> 0]
    BY <1>15
  <2>5. QED BY <1>16, <1>19, <2>1, <2>2, <2>3, <2>4 DEF Playing
<1>21. QED BY <1>6, <1>9, <1>20 DEF Steady

LEMMA NextBatchSteady ==
  ASSUME LiveWorldAssumption, Steady, NextBatch
  PROVE  Steady'
<1>1. /\ live # Nothing /\ live.current # Nothing /\ live.cursor < live.length
      /\ tape' = tape /\ next' = next /\ tr' = tr /\ written' = written /\ saved' = saved
      /\ base' = base /\ first' = first
  BY DEF NextBatch
<1>2. Playing /\ TapeOK(tape)
  <2>1. ~ Early /\ ~ Ready /\ ~ Resumed
    BY <1>1, OpenedIs DEF Early, Ready, Resumed
  <2>2. QED BY <2>1 DEF Steady
<1>3. PICK to : to = Shorter(live.length, live.cursor + BatchSize)
  OBVIOUS
<1>4. /\ live' = [live EXCEPT !.cursor = to]
      /\ received' = [s \in Sinks |-> received[s] \o
           SubSeq(live.current.deliveries[s], live.cursor + 1,
                  Shorter(to, Len(live.current.deliveries[s])))]
  BY <1>3, Zenon DEF NextBatch
<1>5. /\ live.cursor \in Nat /\ live.length \in Nat /\ BatchSize \in Nat
      /\ live = [current |-> live.current, checkpoint |-> live.checkpoint, cursor |-> live.cursor,
                 length |-> live.length, skip |-> 0]
  BY <1>2 DEF Playing, LiveWorldAssumption
<1>6. to \in Nat /\ live.cursor <= to /\ to <= live.length
  BY <1>1, <1>3, <1>5 DEF Shorter
<1>7. PICK cur, cp, length, cursor :
         /\ cur = live.current /\ cp = live.checkpoint /\ length = live.length
         /\ cursor = live.cursor
  OBVIOUS
<1>8. live' = [current |-> cur, checkpoint |-> cp, cursor |-> to, length |-> length, skip |-> 0]
  BY <1>4, <1>5, <1>7
<1>9. /\ live'.current = cur /\ live'.checkpoint = cp /\ live'.cursor = to
      /\ live'.length = length
      /\ live' = [current |-> live'.current, checkpoint |-> live'.checkpoint,
                  cursor |-> live'.cursor, length |-> live'.length, skip |-> 0]
  <2>1. PICK v : v = live'
    OBVIOUS
  <2>2. v.current = cur /\ v.checkpoint = cp /\ v.cursor = to /\ v.length = length
    BY <1>8, <2>1
  <2>3. v = [current |-> v.current, checkpoint |-> v.checkpoint,
             cursor |-> v.cursor, length |-> v.length, skip |-> 0]
    BY <1>8, <2>1, <2>2
  <2>4. QED BY <2>1, <2>2, <2>3
<1>10. live' # Nothing
  <2>1. DOMAIN Nothing = {"none"} /\ "current" # "none" /\ "current" \in DOMAIN live'
    BY <1>8 DEF Nothing
  <2>2. QED BY <2>1
<1>11. ASSUME NEW s \in Sinks
       PROVE  Amid(tape, s, cur.day, cp.tr[s], tr[s], first[s], cur.deliveries[s], to, length,
                   received'[s], base[s])
  <2>1. PICK d, xs, ys, fs, all, rec, b, nrec :
          /\ d = cur.day /\ xs = cp.tr[s] /\ ys = tr[s] /\ fs = first[s] /\ all = cur.deliveries[s]
          /\ rec = received[s] /\ b = base[s] /\ nrec = received'[s]
    OBVIOUS
  <2>2. Amid(tape, s, d, xs, ys, fs, all, cursor, length, rec, b) /\ d \in Nat
    BY <1>2, <1>7, <2>1 DEF Playing
  <2>3. nrec = rec \o SubSeq(all, cursor + 1, Shorter(to, Len(all)))
    BY <1>4, <1>7, <2>1
  <2>4. Amid(tape, s, d, xs, ys, fs, all, to, length,
             rec \o SubSeq(all, cursor + 1, Shorter(to, Len(all))), b)
    BY <1>2, <1>5, <1>6, <1>7, <2>2, SinkBatch
  <2>5. QED BY <2>1, <2>3, <2>4
<1>12. FilesOK'
  BY <1>1, <1>2 DEF Playing, FilesOK
<1>13. Playing'
  <2>1. /\ live'.current # Nothing /\ live'.current.day \in Nat
        /\ live'.checkpoint.day = live'.current.day /\ next' = live'.current.day + 1
    BY <1>1, <1>2, <1>7, <1>9 DEF Playing
  <2>2. live'.cursor \in Nat /\ live'.length \in Nat /\ live'.cursor <= live'.length
    BY <1>5, <1>6, <1>7, <1>9
  <2>3. ASSUME NEW s \in Sinks
        PROVE  Amid(tape', s, live'.current.day, live'.checkpoint.tr[s], tr'[s], first'[s],
                    live'.current.deliveries[s], live'.cursor, live'.length, received'[s], base'[s])
    BY <1>1, <1>9, <1>11
  <2>4. live' = [current |-> live'.current, checkpoint |-> live'.checkpoint,
                 cursor |-> live'.cursor, length |-> live'.length, skip |-> 0]
    BY <1>9
  <2>5. QED BY <1>10, <1>12, <2>1, <2>2, <2>3, <2>4 DEF Playing
<1>14. QED BY <1>1, <1>2, <1>13 DEF Steady

LEMMA RestartSteady ==
  ASSUME LiveWorldAssumption, Steady, Restart
  PROVE  Steady'
<1>1. /\ live # Nothing /\ live.current # Nothing
      /\ tape' = tape /\ written' = written /\ saved' = saved /\ base' = base /\ first' = first
  BY DEF Restart
<1>2. Playing /\ TapeOK(tape)
  <2>1. ~ Early /\ ~ Ready /\ ~ Resumed
    BY <1>1, OpenedIs DEF Early, Ready, Resumed
  <2>2. QED BY <2>1 DEF Steady
<1>3. PICK made \in 0..live.cursor :
        /\ next' = live.checkpoint.day /\ tr' = live.checkpoint.tr
        /\ live' = Opened(made)
        /\ received' = [s \in Sinks |->
             SubSeq(received[s], 1, Shorter(Len(received[s]), base[s] + made))]
  BY Zenon DEF Restart
<1>4. PICK d, cp, cursor :
        d = live.current.day /\ cp = live.checkpoint.tr /\ cursor = live.cursor
  OBVIOUS
<1>5. /\ d \in Nat /\ next' = d /\ tr' = cp /\ cursor \in Nat /\ made \in 0..cursor
      /\ live.length \in Nat
  BY <1>2, <1>3, <1>4 DEF Playing
<1>6. live'.skip = made /\ live' = Opened(live'.skip) /\ live' # Nothing
  BY <1>3, OpenedIs
<1>7. ASSUME NEW s \in Sinks
      PROVE  Between(tape, s, d, cp[s], first[s], made, received'[s], base[s])
  <2>1. PICK xs, ys, fs, all, length, rec, b, nrec :
          /\ xs = cp[s] /\ ys = tr[s] /\ fs = first[s] /\ all = live.current.deliveries[s]
          /\ length = live.length /\ rec = received[s] /\ b = base[s] /\ nrec = received'[s]
    OBVIOUS
  <2>2. Amid(tape, s, d, xs, ys, fs, all, cursor, length, rec, b)
    BY <1>2, <1>4, <2>1 DEF Playing
  <2>3. nrec = SubSeq(rec, 1, Shorter(Len(rec), b + made))
    BY <1>3, <2>1
  <2>4. Between(tape, s, d, xs, fs, made, SubSeq(rec, 1, Shorter(Len(rec), b + made)), b)
    BY <1>2, <1>5, <2>2, SinkAgain
  <2>5. QED BY <2>1, <2>3, <2>4
<1>8. Betweens'
  BY <1>1, <1>5, <1>6, <1>7 DEF Betweens
<1>9. FilesOK'
  BY <1>1, <1>2 DEF Playing, FilesOK
<1>10. Resumed'
  BY <1>5, <1>6, <1>8, <1>9 DEF Resumed
<1>11. QED BY <1>1, <1>2, <1>10 DEF Steady

LEMMA IdleSteady == ASSUME Steady, UNCHANGED worldVars PROVE Steady'
<1>1. /\ tape' = tape /\ next' = next /\ tr' = tr /\ written' = written /\ saved' = saved
      /\ live' = live /\ received' = received /\ base' = base /\ first' = first
  BY DEF worldVars, ghost
<1>2. Early => Early'
  BY <1>1 DEF Early
<1>3. FilesOK => FilesOK'
  BY <1>1 DEF FilesOK
<1>4. Ready => Ready'
  BY <1>1, <1>3 DEF Ready
<1>5. Resumed => Resumed'
  <2>1. Betweens => Betweens'
    BY <1>1 DEF Betweens
  <2>2. QED BY <1>1, <1>3, <2>1 DEF Resumed
<1>6. Playing => Playing'
  BY <1>1, <1>3 DEF Playing
<1>7. TapeOK(tape) => TapeOK(tape')
  BY <1>1
<1>8. QED BY <1>2, <1>4, <1>5, <1>6, <1>7 DEF Steady

LEMMA NextSteady == ASSUME LiveWorldAssumption, Steady, [WorldNext]_worldVars PROVE Steady'
<1>1. CASE GenerateDay
  BY <1>1, GenerateDaySteady
<1>2. CASE EndHistory
  BY <1>2, EndHistorySteady
<1>3. CASE Open
  BY <1>3, OpenSteady
<1>4. CASE AdvanceDay
  BY <1>4, AdvanceDaySteady
<1>5. CASE NextBatch
  BY <1>5, NextBatchSteady
<1>6. CASE Restart
  BY <1>6, RestartSteady
<1>7. CASE UNCHANGED worldVars
  BY <1>7, IdleSteady
<1>8. QED BY <1>1, <1>2, <1>3, <1>4, <1>5, <1>6, <1>7 DEF WorldNext

LEMMA StaysSteady == WorldSpec => []Steady
<1>1. WorldInit => Steady
  BY LiveWorldAssumption, StartsSteady
<1>2. Steady /\ [WorldNext]_worldVars => Steady'
  BY LiveWorldAssumption, NextSteady
<1>3. QED BY <1>1, <1>2, PTL DEF WorldSpec

-----------------------------------------------------------------------------
(* What the states of the world say of the streams.                         *)
LEMMA FlatNone == FlattenSeq(<<>>) = <<>>
<1>1. Len(<<>>) = 0
  OBVIOUS
<1>2. QED BY <1>1, FlattenIs

LEMMA LineWhole ==
  ASSUME LiveWorldAssumption, NEW tp, NEW s, NEW d, NEW xs, NEW fs, Line(tp, s, d, xs, fs),
         Len(fs) = TapeDays(tp) - HistoryDays, TapeDays(tp) = d
  PROVE  Past(fs, d) = FlattenSeq(fs)
<1>1. fs \in Seq(Seq(Item))
  BY DEF Line
<1>2. SubSeq(fs, 1, Len(fs)) = fs
  BY <1>1, WholeSlice
<1>3. QED BY <1>2 DEF Past

LEMMA AgainAfter ==
  ASSUME LiveWorldAssumption, NEW tp, TapeOK(tp), NEW d \in Nat, d < TapeDays(tp), NEW s \in Sinks,
         NEW xs, NEW fs, Before1(tp, s, d, xs, fs)
  PROVE  After1(tp, s, d, xs, fs)
<1>1. DayOn(tp, tp, d)
  BY DEF DayOn
<1>2. PICK gs : gs = Kept(fs, d - HistoryDays, DayGives(tp, s, d, xs))
  OBVIOUS
<1>3. After1(tp, s, d, xs, gs)
  BY <1>1, <1>2, LineStep
<1>4. gs = fs
  <2>1. Len(fs) = TapeDays(tp) - HistoryDays /\ TapeDays(tp) \in {d, d + 1} /\ HistoryDays \in Nat
    BY DEF Before1, LiveWorldAssumption
  <2>2. d - HistoryDays < Len(fs)
    BY <2>1
  <2>3. QED BY <1>2, <2>2 DEF Kept
<1>5. QED BY <1>3, <1>4

(* All the days' deliveries: the past and today's.                          *)
Halves(fs, L, M) ==
  /\ FlattenSeq(fs) = L \o M /\ L \in Seq(Item) /\ M \in Seq(Item)

LEMMA AfterWhole ==
  ASSUME LiveWorldAssumption, NEW tp, NEW d \in Nat, NEW s, NEW xs, NEW fs, After1(tp, s, d, xs, fs)
  PROVE  Halves(fs, Past(fs, d), DayGives(tp, s, d, xs)) /\ Tells({}, FlattenSeq(fs))
<1>1. PICK k, M, ys : /\ k = d - HistoryDays /\ M = DayGives(tp, s, d, xs)
                      /\ ys = Becomes(Outs(tp, s, d, xs))
  OBVIOUS
<1>2. /\ Line(tp, s, d, xs, fs) /\ Line(tp, s, d + 1, ys, fs)
      /\ TapeDays(tp) = d + 1 /\ Len(fs) = TapeDays(tp) - HistoryDays /\ fs[k + 1] = M
  BY <1>1 DEF After1
<1>3. /\ fs \in Seq(Seq(Item)) /\ d \in HistoryDays..TapeDays(tp) /\ HistoryDays \in Nat
  BY <1>2 DEF Line, LiveWorldAssumption
<1>4. k \in Nat /\ Len(fs) = k + 1
  BY <1>1, <1>2, <1>3
<1>5. /\ FlattenSeq(SubSeq(fs, 1, k)) \in Seq(Item) /\ fs[k + 1] \in Seq(Item)
      /\ FlattenSeq(SubSeq(fs, 1, k + 1)) = FlattenSeq(SubSeq(fs, 1, k)) \o fs[k + 1]
  <2>1. k < Len(fs)
    BY <1>4
  <2>2. QED BY <1>3, <1>4, <2>1, OneMore
<1>6. SubSeq(fs, 1, k + 1) = fs
  BY <1>3, <1>4, WholeSlice
<1>7. Past(fs, d) = FlattenSeq(SubSeq(fs, 1, k))
  BY <1>1 DEF Past
<1>8. Tells({}, FlattenSeq(fs))
  <2>1. Past(fs, d + 1) = FlattenSeq(fs)
    BY <1>2, LineWhole
  <2>2. Tells({}, Past(fs, d + 1))
    BY <1>2 DEF Line, Streamed
  <2>3. QED BY <2>1, <2>2
<1>9. PICK L : L = Past(fs, d)
  OBVIOUS
<1>10. Halves(fs, L, M)
  BY <1>2, <1>5, <1>6, <1>7, <1>9 DEF Halves
<1>11. QED BY <1>1, <1>8, <1>9, <1>10

LEMMA EmptyPrefix == IsPrefix(<<>>, FlattenSeq(<<>>))
BY FlatNone DEF IsPrefix

LEMMA SteadyContinues == ASSUME LiveWorldAssumption, Steady PROVE Continues
<1>1. TapeOK(tape)
  BY DEF Steady
<1>2. CASE Early \/ Ready
  <2>1. live = Nothing /\ \A s \in Sinks : first[s] = <<>> /\ received[s] = <<>>
    BY <1>2 DEF Early, Ready
  <2>2. \A s \in Sinks : IsPrefix(received[s], FlattenSeq(first[s]))
    BY <2>1, EmptyPrefix
  <2>3. QED BY <2>1, <2>2, Zenon DEF Continues
<1>3. CASE Resumed
  <2>1. live.current = Nothing
    BY <1>3, OpenedIs DEF Resumed
  <2>2. ASSUME NEW s \in Sinks PROVE IsPrefix(received[s], FlattenSeq(first[s]))
    <3>1. PICK d, xs, fs, skip, rec, b :
            /\ d = next /\ xs = tr[s] /\ fs = first[s] /\ skip = live.skip /\ rec = received[s]
            /\ b = base[s]
      OBVIOUS
    <3>2. Between(tape, s, d, xs, fs, skip, rec, b) /\ d \in Nat
      BY <1>3, <3>1 DEF Resumed, Betweens
    <3>3. /\ Before1(tape, s, d, xs, fs) /\ Line(tape, s, d, xs, fs) /\ skip \in Nat
          /\ TapeDays(tape) \in {d, d + 1} /\ Len(fs) = TapeDays(tape) - HistoryDays
          /\ TapeDays(tape) = d => rec = Past(fs, d)
          /\ d < TapeDays(tape) => HandedOn(rec, Past(fs, d), DayGives(tape, s, d, xs), skip)
      BY <3>2 DEF Between, Before1
    <3>4. CASE TapeDays(tape) = d
      <4>1. rec = FlattenSeq(fs) /\ rec \in Seq(Item)
        BY <3>3, <3>4, LineWhole, PastIn
      <4>2. IsPrefix(rec, rec)
        BY <4>1 DEF IsPrefix
      <4>3. QED BY <3>1, <4>1, <4>2
    <3>5. CASE d < TapeDays(tape)
      <4>1. After1(tape, s, d, xs, fs)
        BY <1>1, <3>2, <3>3, <3>5, AgainAfter
      <4>2. PICK L, M : L = Past(fs, d) /\ M = DayGives(tape, s, d, xs)
        OBVIOUS
      <4>3. FlattenSeq(fs) = L \o M /\ L \in Seq(Item) /\ M \in Seq(Item)
        <5>1. Halves(fs, Past(fs, d), DayGives(tape, s, d, xs))
          BY <3>2, <4>1, AfterWhole
        <5>2. QED BY <4>2, <5>1 DEF Halves
      <4>4. HandedOn(rec, L, M, skip)
        BY <3>3, <3>5, <4>2
      <4>5. IsPrefix(rec, L \o M)
        BY <3>3, <4>3, <4>4, HandIs
      <4>6. QED BY <3>1, <4>3, <4>5
    <3>6. QED BY <3>2, <3>3, <3>4, <3>5
  <2>3. QED BY <2>1, <2>2, Zenon DEF Continues
<1>4. CASE Playing
  <2>1. PICK d : d = live.current.day
    OBVIOUS
  <2>2. ASSUME NEW s \in Sinks
        PROVE  /\ IsPrefix(received[s], FlattenSeq(first[s]))
               /\ Len(received[s]) = Len(FlattenSeq(SubSeq(first[s], 1, d - HistoryDays)))
                                       + Shorter(live.cursor, Len(live.current.deliveries[s]))
    <3>1. PICK xs, ys, fs, all, cursor, length, rec, b :
            /\ xs = live.checkpoint.tr[s] /\ ys = tr[s] /\ fs = first[s]
            /\ all = live.current.deliveries[s] /\ cursor = live.cursor /\ length = live.length
            /\ rec = received[s] /\ b = base[s]
      OBVIOUS
    <3>2. Amid(tape, s, d, xs, ys, fs, all, cursor, length, rec, b) /\ d \in Nat /\ cursor \in Nat
      BY <1>4, <2>1, <3>1 DEF Playing
    <3>3. PICK L : L = Past(fs, d)
      OBVIOUS
    <3>4. /\ After1(tape, s, d, xs, fs) /\ all = DayGives(tape, s, d, xs)
          /\ HandedOn(rec, L, all, cursor)
      BY <3>2, <3>3 DEF Amid
    <3>5. FlattenSeq(fs) = L \o all /\ L \in Seq(Item) /\ all \in Seq(Item)
      <4>1. Halves(fs, Past(fs, d), DayGives(tape, s, d, xs))
        BY <3>2, <3>4, AfterWhole
      <4>2. QED BY <3>3, <3>4, <4>1 DEF Halves
    <3>6. IsPrefix(rec, L \o all) /\ Len(rec) = Len(L) + Shorter(cursor, Len(all))
      BY <3>2, <3>4, <3>5, HandIs
    <3>7. L = FlattenSeq(SubSeq(fs, 1, d - HistoryDays))
      BY <3>3 DEF Past
    <3>8. QED BY <3>1, <3>5, <3>6, <3>7
  <2>3. QED BY <2>1, <2>2, Zenon DEF Continues
<1>5. QED BY <1>2, <1>3, <1>4 DEF Steady

(* Over all sessions a sink is handed the days' deliveries, each once, in   *)
(* order, whatever was stopped or crashed where (live-world.ts).            *)
THEOREM CarriesOn == WorldSpec => []Continues
<1>1. Steady => Continues
  BY LiveWorldAssumption, SteadyContinues
<1>2. QED BY <1>1, StaysSteady, PTL

LEMMA SteadyTells == ASSUME LiveWorldAssumption, Steady PROVE LabelsTellOrder
<1>1. TapeOK(tape)
  BY DEF Steady
<1>2. ASSUME NEW s \in Sinks, NEW p \in Partitions PROVE TellsOrder(written[s][p])
  <2>1. Tells({}, written[s][p])
    BY DEF Steady, Early, Ready, Resumed, Playing, FilesOK, Filed, Written
  <2>2. QED BY <2>1, TellsAll
<1>3. ASSUME NEW s \in Sinks PROVE Tells({}, FlattenSeq(first[s]))
  <2>1. CASE Early \/ Ready
    <3>1. first[s] = <<>>
      BY <2>1 DEF Early, Ready
    <3>2. QED BY <3>1, FlatNone DEF Tells
  <2>2. CASE Resumed
    <3>1. PICK d, xs, fs : d = next /\ xs = tr[s] /\ fs = first[s]
      OBVIOUS
    <3>2. Before1(tape, s, d, xs, fs) /\ d \in Nat
      BY <2>2, <3>1 DEF Resumed, Betweens, Between
    <3>3. /\ Line(tape, s, d, xs, fs) /\ TapeDays(tape) \in {d, d + 1}
          /\ Len(fs) = TapeDays(tape) - HistoryDays
      BY <3>2 DEF Before1
    <3>4. CASE TapeDays(tape) = d
      <4>1. Past(fs, d) = FlattenSeq(fs)
        BY <3>3, <3>4, LineWhole
      <4>2. Tells({}, Past(fs, d))
        BY <3>3 DEF Line, Streamed
      <4>3. QED BY <3>1, <4>1, <4>2
    <3>5. CASE d < TapeDays(tape)
      <4>1. After1(tape, s, d, xs, fs)
        BY <1>1, <3>2, <3>5, AgainAfter
      <4>2. QED BY <3>1, <3>2, <4>1, AfterWhole
    <3>6. QED BY <3>2, <3>3, <3>4, <3>5
  <2>3. CASE Playing
    <3>1. PICK d, xs, fs : d = live.current.day /\ xs = live.checkpoint.tr[s] /\ fs = first[s]
      OBVIOUS
    <3>2. After1(tape, s, d, xs, fs) /\ d \in Nat
      BY <2>3, <3>1 DEF Playing, Amid
    <3>3. QED BY <3>1, <3>2, AfterWhole
  <2>4. QED BY <2>1, <2>2, <2>3 DEF Steady
<1>4. QED BY <1>2, <1>3, TellsAll DEF LabelsTellOrder

(* The answer key is right about the order of what a sink is sent           *)
(* (imperfections/transformer.ts).                                          *)
THEOREM LabelsAreTrue == WorldSpec => []LabelsTellOrder
<1>1. Steady => LabelsTellOrder
  BY LiveWorldAssumption, SteadyTells
<1>2. QED BY <1>1, StaysSteady, PTL

-----------------------------------------------------------------------------
(* All that was sent by day d: of every event that was pushed and does not  *)
(* wait, in the transformers xs, every copy.                                *)
SoFar(tp, d, xs) == {e \in Events : e[2] \in Gone(tp, e[1], d, xs[e[1]])}

Telling(tp, s, d, xs, L) ==
  /\ Told(tp, s, L, SoFar(tp, d, xs))
  /\ \A p \in Partitions : Queue(tp, s, p, d, xs[p])

(* The partitions' files tell what each of them tells.                      *)
LEMMA FilesTold ==
  ASSUME LiveWorldAssumption, NEW tp, NEW s, NEW lists, lists = [p \in Partitions |-> lists[p]],
         NEW K, \A p \in Partitions : Told(tp, s, lists[p], {p} \X K[p]), NEW R,
         R = {e \in Events : e[2] \in K[e[1]]}
  PROVE  Told(tp, s, FlattenSeq(lists), R)
<1>1. \A p \in Partitions : lists[p] \in Seq(Item)
  BY DEF Told
<1>2. lists \in [Partitions -> Seq(Item)]
  BY <1>1
<1>3. FlattenSeq(lists) \in Seq(Item) /\ Woven(lists, FlattenSeq(lists))
  BY <1>2, FlattenWoven
<1>4. PICK out : out = FlattenSeq(lists)
  OBVIOUS
<1>5. PICK Q : Q = [p \in Partitions |-> {p} \X K[p]]
  OBVIOUS
<1>6. ASSUME NEW p \in Partitions PROVE Told(tp, s, lists[p], Q[p])
  BY <1>5
<1>7. ASSUME NEW p \in Partitions, NEW e \in Q[p] PROVE e[1] = p /\ e \in R
  <2>1. e \in {p} \X K[p] /\ e[1] = p /\ e[2] \in K[p]
    BY <1>5
  <2>2. {p} \X K[p] \subseteq Events
    BY DEF Told
  <2>3. e \in Events
    BY <2>1, <2>2
  <2>4. QED BY <2>1, <2>3
<1>8. R \subseteq Events
  OBVIOUS
<1>9. ASSUME NEW e \in R PROVE e \in Q[e[1]]
  <2>1. PICK p, k : p \in Partitions /\ k \in Nat /\ e = <<p, k>> /\ k \in K[p]
    BY DEF Events
  <2>2. QED BY <1>5, <2>1
<1>10. Told(tp, s, out, R)
  BY <1>3, <1>4, <1>6, <1>7, <1>8, <1>9, ToldWoven
<1>11. QED BY <1>4, <1>10

(* The files and the days past tell all that was sent.                      *)
LEMMA LineTold ==
  ASSUME LiveWorldAssumption, NEW tp, NEW s, NEW d, NEW xs, NEW fs, Line(tp, s, d, xs, fs),
         Len(fs) = TapeDays(tp) - HistoryDays, TapeDays(tp) = d,
         NEW lists, lists = [p \in Partitions |-> lists[p]],
         \A p \in Partitions : Written(tp, s, p, lists[p])
  PROVE  Telling(tp, s, d, xs, FlattenSeq(lists) \o FlattenSeq(fs))
<1>1. PICK L, M, R : /\ L = FlattenSeq(lists) /\ M = FlattenSeq(fs)
                     /\ R = {e \in Events : e[2] \in Over(tp, e[1])}
  OBVIOUS
<1>2. Told(tp, s, L, R)
  <2>1. PICK K : K = [p \in Partitions |-> Over(tp, p)]
    OBVIOUS
  <2>2. \A p \in Partitions : Told(tp, s, lists[p], {p} \X K[p])
    BY <2>1 DEF Written
  <2>3. R = {e \in Events : e[2] \in K[e[1]]}
    BY <1>1, <2>1 DEF Events
  <2>4. Told(tp, s, FlattenSeq(lists), R)
    BY <2>2, <2>3, FilesTold
  <2>5. QED BY <1>1, <2>4
<1>3. Past(fs, d) = M
  BY <1>1, LineWhole
<1>4. Streamed(tp, s, d, xs, M)
  BY <1>3 DEF Line
<1>5. PICK S : S = Since(tp, d, xs)
  OBVIOUS
<1>6. Told(tp, s, M, S)
  BY <1>4, <1>5 DEF Streamed
<1>7. \A e \in R : e \notin S
  BY <1>1, <1>5 DEF Since
<1>8. Told(tp, s, L \o M, R \union S)
  BY <1>2, <1>6, <1>7, ToldMore
<1>9. R \union S = SoFar(tp, d, xs)
  <2>1. \A e \in Events : Over(tp, e[1]) \subseteq Gone(tp, e[1], d, xs[e[1]])
    <3>1. \A e \in Events : e[1] \in Partitions
      BY DEF Events
    <3>2. QED BY <1>4, <3>1 DEF Streamed
  <2>2. QED BY <1>1, <1>5, <2>1 DEF SoFar, Since
<1>10. \A p \in Partitions : Queue(tp, s, p, d, xs[p])
  BY <1>4 DEF Streamed
<1>11. QED BY <1>1, <1>8, <1>9, <1>10 DEF Telling

LEMMA SteadyTelling ==
  ASSUME LiveWorldAssumption, Steady, next = TapeDays(tape), NEW s \in Sinks
  PROVE  Telling(tape, s, next, tr[s], Delivered(s))
<1>1. PICK lists, fs, d, xs :
        /\ lists = [p \in Partitions |-> written[s][p]] /\ fs = first[s] /\ d = next /\ xs = tr[s]
  OBVIOUS
<1>2. lists = [p \in Partitions |-> lists[p]] /\ Delivered(s) = FlattenSeq(lists) \o FlattenSeq(fs)
  BY <1>1 DEF Delivered
<1>3. CASE Early
  <2>1. \A p \in Partitions : Filed(tape, s, p, d, xs[p], lists[p])
    BY <1>1, <1>3 DEF Early
  <2>2. FlattenSeq(fs) = <<>>
    BY <1>1, <1>3, FlatNone DEF Early
  <2>3. PICK K : K = [p \in Partitions |-> Gone(tape, p, d, xs[p])]
    OBVIOUS
  <2>4. \A p \in Partitions : Told(tape, s, lists[p], {p} \X K[p])
    BY <2>1, <2>3 DEF Filed
  <2>5. PICK R : R = SoFar(tape, d, xs)
    OBVIOUS
  <2>6. R = {e \in Events : e[2] \in K[e[1]]}
    BY <2>3, <2>5 DEF SoFar, Events
  <2>7. Told(tape, s, FlattenSeq(lists), R)
    BY <1>2, <2>4, <2>6, FilesTold
  <2>8. FlattenSeq(lists) \in Seq(Item)
    BY <2>7 DEF Told
  <2>9. FlattenSeq(lists) \o <<>> = FlattenSeq(lists)
    BY <2>8, WholeSlice
  <2>10. QED BY <1>1, <1>2, <2>1, <2>2, <2>5, <2>7, <2>9 DEF Telling, Filed
<1>4. CASE ~ Early
  <2>1. Line(tape, s, d, xs, fs) /\ Len(fs) = TapeDays(tape) - HistoryDays /\ FilesOK
    <3>1. CASE Ready
      BY <1>1, <3>1 DEF Ready, LiveWorldAssumption
    <3>2. CASE Resumed
      BY <1>1, <3>2 DEF Resumed, Betweens, Between, Before1
    <3>3. CASE Playing
      <4>1. PICK e, ws, all, cursor, length, rec, b :
              /\ e = live.current.day /\ ws = live.checkpoint.tr[s]
              /\ all = live.current.deliveries[s]
              /\ cursor = live.cursor /\ length = live.length /\ rec = received[s] /\ b = base[s]
        OBVIOUS
      <4>2. Amid(tape, s, e, ws, xs, fs, all, cursor, length, rec, b) /\ d = e + 1 /\ FilesOK
        BY <1>1, <3>3, <4>1 DEF Playing
      <4>3. QED BY <4>2 DEF Amid, After1
    <3>4. QED BY <1>4, <3>1, <3>2, <3>3 DEF Steady
  <2>2. \A p \in Partitions : Written(tape, s, p, lists[p])
    BY <1>1, <2>1 DEF FilesOK
  <2>3. TapeDays(tape) = d
    BY <1>1
  <2>4. Telling(tape, s, d, xs, FlattenSeq(lists) \o FlattenSeq(fs))
    BY <1>2, <2>1, <2>2, <2>3, LineTold
  <2>5. QED BY <1>1, <1>2, <2>4
<1>5. QED BY <1>3, <1>4

-----------------------------------------------------------------------------
(* Told or kept: the copies of a partition's events of certain numbers.     *)
ACopy(tp, s, p, k, x) == \E c \in 0..Extras(tp, s, <<p, k>>) : x = <<<<p, k>>, c>>

LEMMA OneCopy ==
  ASSUME NEW tp, NEW s, NEW p, NEW k, NEW q, NEW j, NEW x, ACopy(tp, s, p, k, x),
         ACopy(tp, s, q, j, x)
  PROVE  p = q /\ k = j
BY DEF ACopy

(* What a list tells, what waits in the transformers xs, and what was due   *)
(* of a partition's first n events.                                         *)
ToldOf(L) == {<<L[i].of, L[i].copy>> : i \in 1..Len(L)}
KeptOf(xs) ==
  UNION {{<<z.items[i].of, z.items[i].copy>> : i \in 1..Len(z.items)}
           : z \in UNION {Pend(xs[p]) : p \in Partitions}}
DueOf(tp, s, p, n) ==
  UNION {{<<<<p, i - 1>>, c>> : c \in 0..Fate(tp, s, p, i).extras} : i \in 1..n}

LEMMA ToldIs ==
  ASSUME NEW tp, NEW s, NEW d, NEW xs, NEW L, Telling(tp, s, d, xs, L)
  PROVE  /\ \A i, j \in 1..Len(L) : i # j => <<L[i].of, L[i].copy>> # <<L[j].of, L[j].copy>>
         /\ \A x : x \in ToldOf(L) <=>
              \E p \in Partitions : \E k \in Gone(tp, p, d, xs[p]) : ACopy(tp, s, p, k, x)
<1>1. PICK Q : Q = SoFar(tp, d, xs)
  OBVIOUS
<1>2. /\ \A i, j \in 1..Len(L) : Alike(L[i], L[j]) => i = j
      /\ \A i \in 1..Len(L) : L[i].of \in Q /\ <<L[i].of, L[i].copy>> \in CopiesOf(tp, s, L[i].of)
      /\ \A e \in Q : \A x \in CopiesOf(tp, s, e) :
           \E i \in 1..Len(L) : L[i].of = e /\ L[i].copy = x[2]
  BY <1>1 DEF Telling, Told
<1>3. ASSUME NEW i \in 1..Len(L), NEW j \in 1..Len(L), i # j
      PROVE  <<L[i].of, L[i].copy>> # <<L[j].of, L[j].copy>>
  BY <1>2, <1>3 DEF Alike
<1>4. ASSUME NEW i \in 1..Len(L)
      PROVE  \E p \in Partitions : \E k \in Gone(tp, p, d, xs[p]) :
               ACopy(tp, s, p, k, <<L[i].of, L[i].copy>>)
  <2>1. PICK e, c : e = L[i].of /\ c = L[i].copy
    OBVIOUS
  <2>2. e \in Q /\ <<e, c>> \in CopiesOf(tp, s, e)
    BY <1>2, <2>1
  <2>3. PICK p, k : p \in Partitions /\ k \in Gone(tp, p, d, xs[p]) /\ e = <<p, k>>
    BY <1>1, <2>2 DEF SoFar, Events
  <2>4. c \in 0..Extras(tp, s, <<p, k>>)
    BY <2>2, <2>3 DEF CopiesOf
  <2>5. QED BY <2>1, <2>3, <2>4 DEF ACopy
<1>5. ASSUME NEW p \in Partitions, NEW k \in Gone(tp, p, d, xs[p]), NEW x, ACopy(tp, s, p, k, x)
      PROVE  \E i \in 1..Len(L) : x = <<L[i].of, L[i].copy>>
  <2>1. PICK e : e = <<p, k>>
    OBVIOUS
  <2>2. PICK c \in 0..Extras(tp, s, e) : x = <<e, c>>
    BY <1>5, <2>1 DEF ACopy
  <2>3. k \in Nat
    BY DEF Gone
  <2>4. e \in Events /\ e[1] = p /\ e[2] = k
    BY <2>1, <2>3 DEF Events
  <2>5. e \in Q
    BY <1>1, <2>4 DEF SoFar
  <2>6. x \in CopiesOf(tp, s, e) /\ x[2] = c
    BY <2>2 DEF CopiesOf
  <2>7. PICK i \in 1..Len(L) : L[i].of = e /\ L[i].copy = c
    BY <1>2, <2>5, <2>6
  <2>8. QED BY <2>2, <2>7
<1>6. QED BY <1>3, <1>4, <1>5 DEF ToldOf

LEMMA KeptIs ==
  ASSUME LiveWorldAssumption, NEW tp, NEW s, NEW p \in Partitions, Fated(tp, s, p), NEW d, NEW t,
         Queue(tp, s, p, d, t), NEW x
  PROVE  (\E z \in Pend(t) : x \in {<<z.items[i].of, z.items[i].copy>> : i \in 1..Len(z.items)})
           <=> \E k \in Seqs(Pend(t)) : ACopy(tp, s, p, k, x)
<1>1. ASSUME NEW z \in Pend(t)
      PROVE  x \in {<<z.items[i].of, z.items[i].copy>> : i \in 1..Len(z.items)}
               <=> ACopy(tp, s, p, z.seq, x)
  <2>1. DraftOK(tp, s, p, z) /\ z.seq \in Nat
    BY DEF Queue, DraftOK
  <2>2. PICK e, l, at, n : /\ e = <<p, z.seq>> /\ l = z.items /\ at = z.at
                           /\ n = Extras(tp, s, <<p, z.seq>>)
    OBVIOUS
  <2>3. n \in Nat
    BY <2>1, <2>2, FatedCounted DEF CountsCopies
  <2>4. Ofs(tp, s, l, e, at)
    BY <2>1, <2>2, <2>3, ItemsOf
  <2>5. Len(l) = n + 1 /\ \A i \in 1..Len(l) : l[i].of = e /\ l[i].copy = i - 1
    BY <2>2, <2>4 DEF Ofs
  <2>6. x \in {<<l[i].of, l[i].copy>> : i \in 1..Len(l)} <=> \E i \in 1..(n + 1) : x = <<e, i - 1>>
    BY <2>5
  <2>7. (\E i \in 1..(n + 1) : x = <<e, i - 1>>) <=> \E c \in 0..n : x = <<e, c>>
    <3>1. ASSUME NEW i \in 1..(n + 1) PROVE i - 1 \in 0..n
      BY <2>3
    <3>2. ASSUME NEW c \in 0..n PROVE c + 1 \in 1..(n + 1) /\ (c + 1) - 1 = c
      BY <2>3
    <3>3. QED BY <3>1, <3>2
  <2>8. QED BY <2>2, <2>6, <2>7 DEF ACopy
<1>2. (\E k \in Seqs(Pend(t)) : ACopy(tp, s, p, k, x)) <=> \E z \in Pend(t) : ACopy(tp, s, p, z.seq, x)
  BY DEF Seqs
<1>3. QED BY <1>1, <1>2

LEMMA AllKept ==
  ASSUME LiveWorldAssumption, NEW tp, TapeOK(tp), NEW s \in Sinks, NEW d, NEW xs,
         \A p \in Partitions : Queue(tp, s, p, d, xs[p]), NEW x
  PROVE  x \in KeptOf(xs)
           <=> \E p \in Partitions : \E k \in Seqs(Pend(xs[p])) : ACopy(tp, s, p, k, x)
<1>1. ASSUME NEW p \in Partitions
      PROVE  (\E z \in Pend(xs[p]) :
                x \in {<<z.items[i].of, z.items[i].copy>> : i \in 1..Len(z.items)})
               <=> \E k \in Seqs(Pend(xs[p])) : ACopy(tp, s, p, k, x)
  <2>1. Fated(tp, s, p)
    BY TapeFated
  <2>2. PICK t : t = xs[p]
    OBVIOUS
  <2>3. Queue(tp, s, p, d, t)
    BY <2>2
  <2>4. (\E z \in Pend(t) : x \in {<<z.items[i].of, z.items[i].copy>> : i \in 1..Len(z.items)})
          <=> \E k \in Seqs(Pend(t)) : ACopy(tp, s, p, k, x)
    BY <2>1, <2>3, KeptIs
  <2>5. QED BY <2>2, <2>4
<1>2. x \in KeptOf(xs)
        <=> \E p \in Partitions : \E z \in Pend(xs[p]) :
              x \in {<<z.items[i].of, z.items[i].copy>> : i \in 1..Len(z.items)}
  BY SMTT(30) DEF KeptOf
<1>3. QED BY <1>1, <1>2

(* What was pushed.                                                         *)
LEMMA DueIs ==
  ASSUME NEW tp, NEW s, NEW p, NEW n, n \in Nat, NEW x
  PROVE  x \in DueOf(tp, s, p, n)
           <=> \E k \in Nat : k < n /\ ACopy(tp, s, p, k, x)
<1>1. ASSUME NEW k
      PROVE  ACopy(tp, s, p, k, x)
               <=> \E c \in 0..Fate(tp, s, p, k + 1).extras : x = <<<<p, k>>, c>>
  <2>1. PICK e : e = <<p, k>>
    OBVIOUS
  <2>2. e[1] = p /\ e[2] = k
    BY <2>1
  <2>3. Extras(tp, s, e) = Fate(tp, s, p, k + 1).extras
    BY <2>2 DEF Extras
  <2>4. QED BY <2>1, <2>3 DEF ACopy
<1>2. ASSUME NEW i \in 1..n
      PROVE  /\ i - 1 \in Nat /\ i - 1 < n
             /\ ACopy(tp, s, p, i - 1, x) <=>
                  x \in {<<<<p, i - 1>>, c>> : c \in 0..Fate(tp, s, p, i).extras}
  <2>1. PICK k : k = i - 1
    OBVIOUS
  <2>2. k \in Nat /\ k < n /\ k + 1 = i
    BY <2>1
  <2>3. ACopy(tp, s, p, k, x) <=> \E c \in 0..Fate(tp, s, p, i).extras : x = <<<<p, k>>, c>>
    BY <1>1, <2>2
  <2>4. QED BY <2>1, <2>2, <2>3
<1>3. ASSUME NEW k \in Nat, k < n PROVE k + 1 \in 1..n /\ (k + 1) - 1 = k
  BY <1>3
<1>4. ASSUME NEW k \in Nat, k < n, ACopy(tp, s, p, k, x)
      PROVE  \E i \in 1..n : ACopy(tp, s, p, i - 1, x)
  <2>1. PICK i : i = k + 1
    OBVIOUS
  <2>2. i \in 1..n /\ i - 1 = k
    BY <1>3, <1>4, <2>1
  <2>3. ACopy(tp, s, p, i - 1, x)
    BY <1>4, <2>2
  <2>4. QED BY <2>2, <2>3
<1>5. x \in DueOf(tp, s, p, n) <=> \E i \in 1..n : ACopy(tp, s, p, i - 1, x)
  BY <1>2 DEF DueOf
<1>6. QED BY <1>2, <1>4, <1>5

-----------------------------------------------------------------------------
(* Told and kept are apart, and together all that was pushed.               *)
TwoParts(told, kept, due) == told \cap kept = {} /\ told \union kept = due

LEMMA ToldOrKept ==
  ASSUME LiveWorldAssumption, NEW tp, TapeOK(tp), NEW s \in Sinks, NEW d, NEW xs, NEW L,
         Telling(tp, s, d, xs, L), \A p \in Partitions : Count(tp, p, d) \in Nat
  PROVE  TwoParts(ToldOf(L), KeptOf(xs),
                  UNION {DueOf(tp, s, p, Count(tp, p, d)) : p \in Partitions})
<1>1. ASSUME NEW x
      PROVE  x \in ToldOf(L) <=>
               \E p \in Partitions : \E k \in Gone(tp, p, d, xs[p]) : ACopy(tp, s, p, k, x)
  BY ToldIs
<1>2. ASSUME NEW x
      PROVE  x \in KeptOf(xs) <=>
               \E p \in Partitions : \E k \in Seqs(Pend(xs[p])) : ACopy(tp, s, p, k, x)
  <2>1. \A p \in Partitions : Queue(tp, s, p, d, xs[p])
    BY DEF Telling
  <2>2. QED BY <2>1, AllKept
<1>3. PICK due : due = UNION {DueOf(tp, s, p, Count(tp, p, d)) : p \in Partitions}
  OBVIOUS
<1>4. ASSUME NEW x
      PROVE  x \in due <=>
               \E p \in Partitions : \E k \in Nat : k < Count(tp, p, d) /\ ACopy(tp, s, p, k, x)
  <2>1. ASSUME NEW p \in Partitions
        PROVE  x \in DueOf(tp, s, p, Count(tp, p, d))
                 <=> \E k \in Nat : k < Count(tp, p, d) /\ ACopy(tp, s, p, k, x)
    BY DueIs
  <2>2. QED BY <1>3, <2>1
<1>5. ASSUME NEW p \in Partitions
      PROVE  /\ \A k \in Gone(tp, p, d, xs[p]) : k \notin Seqs(Pend(xs[p]))
             /\ \A k : k \in Gone(tp, p, d, xs[p]) \/ k \in Seqs(Pend(xs[p]))
                         <=> k \in Nat /\ k < Count(tp, p, d)
  <2>1. \A z \in Pend(xs[p]) : z.seq \in Nat /\ z.seq < Count(tp, p, d)
    BY DEF Telling, Queue, DraftOK
  <2>2. \A k \in Seqs(Pend(xs[p])) : k \in Nat /\ k < Count(tp, p, d)
    BY <2>1 DEF Seqs
  <2>3. QED BY <2>2 DEF Gone
<1>6. ASSUME NEW x, x \in ToldOf(L), x \in KeptOf(xs) PROVE FALSE
  <2>1. PICK p \in Partitions : \E k \in Gone(tp, p, d, xs[p]) : ACopy(tp, s, p, k, x)
    BY <1>1, <1>6
  <2>2. PICK k : k \in Gone(tp, p, d, xs[p]) /\ ACopy(tp, s, p, k, x)
    BY <2>1
  <2>3. PICK q \in Partitions : \E j \in Seqs(Pend(xs[q])) : ACopy(tp, s, q, j, x)
    BY <1>2, <1>6
  <2>4. PICK j : j \in Seqs(Pend(xs[q])) /\ ACopy(tp, s, q, j, x)
    BY <2>3
  <2>5. p = q /\ k = j
    BY <2>2, <2>4, OneCopy
  <2>6. QED BY <1>5, <2>2, <2>4, <2>5
<1>7. ASSUME NEW x PROVE x \in ToldOf(L) \/ x \in KeptOf(xs) <=> x \in due
  BY <1>1, <1>2, <1>4, <1>5
<1>8. TwoParts(ToldOf(L), KeptOf(xs), due)
  BY <1>6, <1>7 DEF TwoParts
<1>9. QED BY <1>3, <1>8

LEMMA SteadyOnce == ASSUME LiveWorldAssumption, Steady PROVE EachOnce
<1>1. ASSUME saved # Nothing, NEW s \in Sinks, NEW p \in Partitions
      PROVE  saved.tr[s][p].heap = {} /\ saved.tr[s][p].hold = Nothing
  BY <1>1 DEF Steady, Early, Ready, Resumed, Playing, FilesOK
<1>2. ASSUME next = TapeDays(tape), NEW s \in Sinks
      PROVE  LET sent == Delivered(s)
                 id(x) == <<x.of, x.copy>>
                 told == {id(sent[i]) : i \in 1..Len(sent)}
                 kept == UNION {{id(d.items[i]) : i \in 1..Len(d.items)}
                                  : d \in UNION {Waiting(s, p) : p \in Partitions}}
                 copies(p, i) == {<<<<p, i - 1>>, c>> : c \in 0..Fate(tape, s, p, i).extras}
                 due == UNION {UNION {copies(p, i) : i \in 1..Happened(p)} : p \in Partitions}
             IN  /\ \A i, j \in 1..Len(sent) : i # j => id(sent[i]) # id(sent[j])
                 /\ told \cap kept = {} /\ told \union kept = due
  <2>1. TapeOK(tape)
    BY DEF Steady
  <2>2. PICK sent, d, xs : sent = Delivered(s) /\ d = next /\ xs = tr[s]
    OBVIOUS
  <2>3. Telling(tape, s, d, xs, sent)
    BY <1>2, <2>2, SteadyTelling
  <2>4. \A i, j \in 1..Len(Delivered(s)) :
          i # j => <<Delivered(s)[i].of, Delivered(s)[i].copy>>
                     # <<Delivered(s)[j].of, Delivered(s)[j].copy>>
    <3>1. \A i, j \in 1..Len(sent) :
            i # j => <<sent[i].of, sent[i].copy>> # <<sent[j].of, sent[j].copy>>
      BY <2>3, ToldIs
    <3>2. QED BY <2>2, <3>1
  <2>5. ASSUME NEW p \in Partitions PROVE Waiting(s, p) = Pend(xs[p])
    BY <2>2 DEF Waiting, Pend, InHold
  <2>6. ASSUME NEW p \in Partitions
        PROVE  Happened(p) = Count(tape, p, d) /\ Count(tape, p, d) \in Nat
    <3>1. PICK evs : evs = tape.events[p]
      OBVIOUS
    <3>2. evs \in Seq(Seq(Moments)) /\ Len(evs) = d
      BY <1>2, <2>1, <2>2, <3>1 DEF TapeOK
    <3>3. SubSeq(evs, 1, d) = evs
      BY <3>2, WholeSlice
    <3>4. Happened(p) = Count(tape, p, d)
      BY <3>1, <3>3 DEF Happened, Count
    <3>5. FlattenSeq(evs) \in Seq(Moments)
      <4>1. <<>> \in Seq(Moments)
        OBVIOUS
      <4>2. QED BY <3>2, <4>1, FlattenAppend
    <3>6. QED BY <3>1, <3>3, <3>4, <3>5 DEF Count
  <2>7. PICK told, kept, due :
          /\ told = ToldOf(sent) /\ kept = KeptOf(xs)
          /\ due = UNION {DueOf(tape, s, p, Count(tape, p, d)) : p \in Partitions}
    OBVIOUS
  <2>8. TwoParts(told, kept, due)
    BY <2>1, <2>3, <2>6, <2>7, ToldOrKept
  <2>9. told \cap kept = {} /\ told \union kept = due
    BY <2>8 DEF TwoParts
  <2>10. {<<Delivered(s)[i].of, Delivered(s)[i].copy>> : i \in 1..Len(Delivered(s))} = told
    BY <2>2, <2>7 DEF ToldOf
  <2>11. UNION {{<<z.items[i].of, z.items[i].copy>> : i \in 1..Len(z.items)}
                  : z \in UNION {Waiting(s, p) : p \in Partitions}} = kept
    <3>1. UNION {Waiting(s, p) : p \in Partitions} = UNION {Pend(xs[p]) : p \in Partitions}
      BY <2>5
    <3>2. QED BY <2>7, <3>1 DEF KeptOf
  <2>12. UNION {UNION {{<<<<p, i - 1>>, c>> : c \in 0..Fate(tape, s, p, i).extras}
                         : i \in 1..Happened(p)} : p \in Partitions} = due
    BY <2>6, <2>7 DEF DueOf
  <2>13. QED BY <2>4, <2>9, <2>10, <2>11, <2>12, Zenon
<1>3. QED BY <1>1, <1>2 DEF EachOnce, TapeDays

(* Every copy of every event is sent once, or waits in a transformer, and   *)
(* nothing waits when the live days begin (imperfections/transformer.ts).   *)
THEOREM EachIsTold == WorldSpec => []EachOnce
<1>1. Steady => EachOnce
  BY LiveWorldAssumption, SteadyOnce
<1>2. QED BY <1>1, StaysSteady, PTL
=============================================================================
