------------------------ MODULE StreamSession_proofs ------------------------
(***************************************************************************)
(* The live stream: it never jumps ahead, whatever stops, starts, crashes  *)
(* or overlaps; without faults, starts that do not overlap repeat nothing, *)
(* and a session that published leaves the checkpoint its position names;  *)
(* for any number of sessions, deliveries, requests and faults and any     *)
(* length of day.                                                          *)
(***************************************************************************)
EXTENDS StreamSession, TLAPS

Looping == {"loop", "taking", "handling", "stats", "reporting"}
Driving == Looping \union {"closing"}
DayOrNone == Days \union {None}

Session == [at : {"none", "open", "ended"}, day : DayOrNone, skip : Nat]

Place == [src : Seqs \union {0}, day : DayOrNone, skip : Nat]

Work == [at : Driving \union {"idle", "recording", "ending"}, pos : Nat, size : Nat, left : Nat,
         last : DayOrNone, since : Nat, seen : DayOrNone, head : Nat \union {None}, writing : BOOLEAN,
         broken : BOOLEAN, reported : BOOLEAN, failing : BOOLEAN]

Creating == {"current", "set", "add"}

Request == [at : {"idle", "write", "previous", "create", "done"} \union Creating,
            to : {"none", "paused", "streaming", "stopped"}, from : Place,
            seq : Seqs \union {0}]

TypeOK ==
  /\ state \in {"streaming", "paused", "stopped", "error"} /\ current \in Seqs
  /\ row \in [Seqs -> Session]
  /\ plan \in [Seqs -> Place]
  /\ job \in [Seqs -> {"none", "waiting", "active", "completed", "failed"}]
  /\ file \in [Seqs -> [Days -> {"none", "torn", "whole"}]]
  /\ drive \in [Seqs -> Work]
  /\ call \in [Calls -> Request]
  /\ \A r \in Calls : /\ call[r].at = "write" => call[r].to # "none"
                      /\ call[r].at \in Creating => call[r].seq \in Seqs
  /\ boot \in [at : {"idle", "list", "stop", "end"}, seq : Seqs \union {0}]
  /\ faults \in Nat
  /\ sent \in [0..(Total - 1) -> Nat] /\ published \in SUBSET Seqs /\ early \in BOOLEAN

(* Of the sessions that recorded a position there is a last one.            *)
Unrecorded == \A s \in Seqs : row[s].day = None
Newest(s)  == row[s].day # None /\ \A t \in Seqs : row[t].day # None => t <= s
Ordered    == Unrecorded \/ \E s \in Seqs : Newest(s)

(* A job at work is active in the queue; a session has one job, put there   *)
(* once, by the request that created it; sessions are numbered in order.    *)
Slots ==
  /\ \A s \in Seqs :
       /\ drive[s].at # "idle" <=> job[s] = "active"
       /\ drive[s].at = "idle" => drive[s] = Asleep
       /\ row[s].at = "none" => /\ job[s] = "none" /\ row[s].day = None
                                /\ \A t \in Seqs : t > s => row[t].at = "none"
  /\ \A r \in Calls : call[r].at \in Creating =>
       /\ row[call[r].seq].at # "none" /\ job[call[r].seq] = "none"
       /\ \A q \in Calls \ {r} : call[q].at \in Creating => call[q].seq # call[r].seq
  /\ row[current].at # "none"
  /\ boot.seq # 0 => row[boot.seq].at # "none"

-----------------------------------------------------------------------------
(* Numbers.                                                                 *)

LEMMA Numbers ==
  /\ Sessions \in Nat \ {0} /\ Total \in Nat \ {0} /\ DayLength \in Nat \ {0}
  /\ Requests \in Nat /\ Faults \in Nat
  /\ Seqs \subseteq Nat \ {0} /\ Days \subseteq Nat /\ None = -1 /\ 1 \in Seqs
BY StreamAssumption DEF Seqs, Days, None

LEMMA DayOf ==
  ASSUME NEW p \in Nat
  PROVE  /\ p \div DayLength \in Nat /\ p % DayLength \in Nat
         /\ (p \div DayLength) * DayLength + (p % DayLength) = p
         /\ \A d \in Nat : d * DayLength <= p => d <= p \div DayLength
<1>1. DayLength \in Nat \ {0}
  BY Numbers
<1>2. /\ p \div DayLength \in Nat /\ p % DayLength \in 0..(DayLength - 1)
      /\ (p \div DayLength) * DayLength + (p % DayLength) = p
  BY <1>1
<1>3. \A d \in Nat : d * DayLength <= p => d <= p \div DayLength
  BY <1>1
<1>4. QED BY <1>1, <1>2, <1>3

LEMMA PointIsNat ==
  ASSUME NEW day \in DayOrNone, NEW skip \in Nat
  PROVE  Point(day, skip) \in Nat
<1>1. CASE day = None
  BY <1>1 DEF Point
<1>2. CASE day # None
  <2>1. day \in Nat /\ DayLength \in Nat
    BY <1>2, Numbers DEF DayOrNone
  <2>2. day * DayLength \in Nat
    BY <2>1
  <2>3. QED BY <2>2, <1>2 DEF Point
<1>3. QED BY <1>1, <1>2

-----------------------------------------------------------------------------
(* Types.                                                                   *)

LEMMA AsleepTyped == Asleep \in Work /\ Nowhere \in Place /\ Asleep.at = "idle"
BY Numbers DEF Asleep, Work, DayOrNone, Nowhere, Place, Driving, Looping

LEMMA TypesAtInit == Init => TypeOK
<1>1. SUFFICES ASSUME Init PROVE TypeOK
  OBVIOUS
<1>2. Unmade \in Request
  BY AsleepTyped DEF Unmade, Request
<1>3. drive \in [Seqs -> Work] /\ plan \in [Seqs -> Place] /\ call \in [Calls -> Request]
  BY <1>1, <1>2, AsleepTyped DEF Init
<1>4. row \in [Seqs -> Session]
  BY <1>1 DEF Init, DayOrNone, Session
<1>5. sent \in [0..(Total - 1) -> Nat] /\ current \in Seqs
  BY <1>1, Numbers DEF Init
<1>6. QED BY <1>1, <1>3, <1>4, <1>5 DEF Init, TypeOK, Unmade, Creating

(* createStreamSession finds the last one.                                  *)
LEMMA PreviousIsNewest ==
  ASSUME TypeOK, Ordered
  PROVE  LET had == {s \in Seqs : row[s].day # None}
             p == CHOOSE s \in had : \A t \in had : t <= s
         IN  had # {} => p \in Seqs /\ Newest(p)
<1> DEFINE had == {s \in Seqs : row[s].day # None}
           p == CHOOSE s \in had : \A t \in had : t <= s
<1> SUFFICES ASSUME had # {} PROVE p \in Seqs /\ Newest(p)
  OBVIOUS
<1>1. PICK m \in Seqs : Newest(m)
  BY DEF Ordered, Unrecorded
<1>2. m \in had /\ \A t \in had : t <= m
  BY <1>1 DEF Newest
<1>3. p \in had /\ \A t \in had : t <= p
  BY <1>2
<1>4. QED BY <1>3 DEF Newest

(* The place a new session, or the job of this one, continues from.         *)
LEMMA ResumeTyped ==
  ASSUME TypeOK, NEW s \in Seqs
  PROVE  Resume(s) \in Place
BY DEF TypeOK, Resume, Place, Session

LEMMA RequestsKeepTypes ==
  ASSUME TypeOK, Ordered, NEW r \in Calls,
         \/ \E to \in {"paused", "streaming", "stopped"} : Ask(r, to)
         \/ AskStart(r) \/ Serve(r)
  PROVE  TypeOK'
<1> DEFINE Told(c) == /\ c \in Request
                      /\ c.at = "write" => c.to # "none"
                      /\ c.at \in Creating => c.seq \in Seqs
<1>1. call \in [Calls -> Request] /\ Told(call[r])
  BY DEF TypeOK
<1>2. ASSUME NEW c, Told(c), call' = [call EXCEPT ![r] = c]
      PROVE  /\ call' \in [Calls -> Request]
             /\ \A q \in Calls : /\ call'[q].at = "write" => call'[q].to # "none"
                                 /\ call'[q].at \in Creating => call'[q].seq \in Seqs
  BY <1>2 DEF TypeOK
<1>3. Told(Made)
  BY AsleepTyped DEF Made, Unmade, Request, Creating
<1>4. CASE \E to \in {"paused", "streaming", "stopped"} : Ask(r, to)
  <2>1. PICK to \in {"paused", "streaming", "stopped"} : Ask(r, to)
    BY <1>4
  <2> DEFINE c == [call[r] EXCEPT !.at = "write", !.to = to]
  <2>2. Told(c)
    BY <1>1 DEF Request, Creating
  <2>3. call' = [call EXCEPT ![r] = c]
    BY <2>1 DEF Ask
  <2> HIDE DEF c
  <2>4. QED BY <1>2, <2>1, <2>2, <2>3 DEF TypeOK, Ask, stream, ghost
<1>5. CASE AskStart(r)
  <2> DEFINE c == [call[r] EXCEPT !.at = "previous"]
  <2>1. Told(c)
    BY <1>1 DEF Request, Creating
  <2>2. call' = [call EXCEPT ![r] = c]
    BY <1>5 DEF AskStart
  <2> HIDE DEF c
  <2>3. QED BY <1>2, <1>5, <2>1, <2>2 DEF TypeOK, AskStart, stream, ghost
<1>6. CASE WriteState(r)
  <2>1. call[r].to \in {"paused", "streaming", "stopped"}
    BY <1>1, <1>6 DEF WriteState, Request
  <2>2. QED BY <1>2, <1>3, <1>6, <2>1 DEF TypeOK, WriteState, ghost
<1>7. CASE ReadPrevious(r)
  <2> DEFINE had == {s \in Seqs : row[s].day # None}
             p == CHOOSE s \in had : \A t \in had : t <= s
             from == IF had = {} THEN Nowhere
                     ELSE [src |-> p, day |-> row[p].day, skip |-> row[p].skip]
  <2>1. call' = [call EXCEPT ![r].at = "create", ![r].from = from]
    BY <1>7 DEF ReadPrevious
  <2>2. from \in Place
    <3>1. had # {} => p \in Seqs
      BY PreviousIsNewest
    <3>2. p \in Seqs => row[p].day \in DayOrNone /\ row[p].skip \in Nat
      BY DEF TypeOK, Session
    <3> HIDE DEF p, had
    <3>3. QED BY <3>1, <3>2, AsleepTyped DEF Place
  <2> HIDE DEF from
  <2> DEFINE c == [call[r] EXCEPT !.at = "create", !.from = from]
  <2>3. Told(c)
    BY <1>1, <2>2 DEF Request, Creating
  <2>4. call' = [call EXCEPT ![r] = c]
    BY <2>1
  <2> HIDE DEF c
  <2>5. early' \in BOOLEAN
    BY <1>7 DEF ReadPrevious
  <2>6. UNCHANGED <<stream, row, plan, job, file, drive, boot, faults, sent, published>>
    BY <1>7 DEF ReadPrevious
  <2>7. QED BY <1>2, <2>3, <2>4, <2>5, <2>6 DEF TypeOK, stream
<1>8. CASE CreateSession(r)
  <2>1. PICK s \in Seqs : /\ row' = [row EXCEPT ![s].at = "open"]
                          /\ plan' = [plan EXCEPT ![s] = call[r].from]
                          /\ call' = [call EXCEPT ![r].at = "current", ![r].seq = s]
    BY <1>8 DEF CreateSession
  <2> DEFINE c == [call[r] EXCEPT !.at = "current", !.seq = s]
  <2>2. Told(c) /\ call[r].from \in Place
    BY <1>1 DEF Request, Creating
  <2>3. call' = [call EXCEPT ![r] = c]
    BY <2>1
  <2> HIDE DEF c
  <2>4. row' \in [Seqs -> Session]
    BY <2>1, ZenonT(30) DEF TypeOK, Session
  <2>5. QED BY <1>2, <1>8, <2>1, <2>2, <2>3, <2>4 DEF TypeOK, CreateSession, stream, ghost
<1>9. CASE SetCurrent(r) \/ SetStreaming(r)
  <2>1. PICK at \in {"set", "add"} : call' = [call EXCEPT ![r].at = at]
    BY <1>9 DEF SetCurrent, SetStreaming
  <2>2. call[r].at \in Creating
    BY <1>9 DEF SetCurrent, SetStreaming, Creating
  <2> DEFINE c == [call[r] EXCEPT !.at = at]
  <2>3. Told(c)
    BY <1>1, <2>2 DEF Request, Creating
  <2>4. call' = [call EXCEPT ![r] = c]
    BY <2>1
  <2> HIDE DEF c
  <2>5. state' \in {"streaming", "paused", "stopped", "error"} /\ current' \in Seqs
    BY <1>1, <1>9, <2>2 DEF TypeOK, SetCurrent, SetStreaming
  <2>6. QED BY <1>2, <1>9, <2>3, <2>4, <2>5 DEF TypeOK, SetCurrent, SetStreaming, ghost
<1>10. CASE Enqueue(r)
  BY <1>2, <1>3, <1>10 DEF TypeOK, Enqueue, stream, ghost
<1>11. QED BY <1>4, <1>5, <1>6, <1>7, <1>8, <1>9, <1>10 DEF Serve

(* What a step of the job, or of its thread, does to the job's state.       *)
LEMMA JobKeepsTypes ==
  ASSUME TypeOK, NEW s \in Seqs,
         Drive(s) \/ Thread(s) \/ Unreachable(s) \/ Thrown(s) \/ Trip(s)
  PROVE  TypeOK'
<1>1. drive[s] \in Work /\ row[s] \in Session /\ file[s] \in [Days -> {"none", "torn", "whole"}]
  BY DEF TypeOK
<1>2. ASSUME NEW d \in Work, drive' = [drive EXCEPT ![s] = d]
      PROVE  drive' \in [Seqs -> Work]
  BY <1>2 DEF TypeOK
<1>3. ASSUME NEW at \in Driving \union {"idle", "recording", "ending"}, GoTo(s, at)
      PROVE  drive' \in [Seqs -> Work]
  <2>1. [drive[s] EXCEPT !.at = at] \in Work
    BY <1>1 DEF Work
  <2>2. drive' = [drive EXCEPT ![s] = [drive[s] EXCEPT !.at = at]]
    BY <1>3 DEF GoTo
  <2>3. QED BY <1>2, <2>1, <2>2
<1>4. Recorded(s) => row' \in [Seqs -> Session]
  <2>1. CASE drive[s].last = None
    BY <2>1 DEF Recorded, TypeOK
  <2>2. CASE drive[s].last # None
    <3>1. [row[s] EXCEPT !.day = drive[s].last, !.skip = drive[s].since] \in Session
      BY <1>1 DEF Work, Session
    <3>2. Recorded(s) => row' = [row EXCEPT ![s] = [row[s] EXCEPT !.day = drive[s].last,
                                                               !.skip = drive[s].since]]
      BY <2>2 DEF Recorded
    <3>3. QED BY <3>1, <3>2 DEF TypeOK
  <2>3. QED BY <2>1, <2>2
<1>5. CASE Opened(s)
  <2>1. PICK p \in Place : drive' = [drive EXCEPT ![s].at = "loop", ![s].pos = Point(p.day, p.skip),
                                                  ![s].last = p.day, ![s].since = p.skip]
    BY <1>5, ResumeTyped DEF Opened
  <2>2. Point(p.day, p.skip) \in Nat /\ p.day \in DayOrNone /\ p.skip \in Nat
    BY PointIsNat DEF Place
  <2> DEFINE d == [drive[s] EXCEPT !.at = "loop", !.pos = Point(p.day, p.skip),
                                   !.last = p.day, !.since = p.skip]
  <2>3. d \in Work
    BY <1>1, <2>2 DEF Work, Driving, Looping
  <2>4. drive' = [drive EXCEPT ![s] = d]
    BY <2>1
  <2> HIDE DEF d
  <2>5. QED BY <1>2, <1>5, <2>3, <2>4 DEF TypeOK, Opened, stream, ghost
<1>6. CASE NotOpened(s)
  BY <1>6 DEF TypeOK, NotOpened, ThrownEarly, stream, ghost
<1>7. CASE Unreachable(s)
  <2>1. faults' \in Nat /\ ThrownEarly(s)
    BY <1>7 DEF Unreachable, Fault, TypeOK
  <2>2. PICK d \in Days, left \in {"none", "torn", "whole"} : file' = [file EXCEPT ![s][d] = left]
    <3> DEFINE d == Point(Resume(s).day, Resume(s).skip) \div DayLength
    <3>1. d \in Days
      BY <1>7 DEF Unreachable
    <3>2. \E left \in {file[s][d], "torn", "whole"} : file' = [file EXCEPT ![s][d] = left]
      BY <1>7 DEF Unreachable
    <3>3. file[s][d] \in {"none", "torn", "whole"}
      BY <1>1, <3>1
    <3> HIDE DEF d
    <3>4. QED BY <3>1, <3>2, <3>3
  <2>3. file' \in [Seqs -> [Days -> {"none", "torn", "whole"}]]
    BY <2>2 DEF TypeOK
  <2>4. QED BY <2>1, <2>3 DEF TypeOK, ThrownEarly, stream, ghost
<1>8. CASE Leave(s) \/ Tokens(s)
  <2>1. drive' \in [Seqs -> Work]
    BY <1>3, <1>8 DEF Leave, Tokens, Driving, Looping
  <2>2. QED BY <1>8, <2>1 DEF TypeOK, Leave, Tokens, stream, ghost
<1>9. CASE Tick(s)
  <2>1. drive' \in [Seqs -> Work]
    BY <1>3, <1>9 DEF Tick, Driving, Looping
  <2>2. QED BY <1>9, <2>1 DEF TypeOK, Tick, stream, ghost
<1>10. CASE Report(s)
  <2> DEFINE d == [drive[s] EXCEPT !.at = "loop", !.reported = TRUE]
  <2>1. d \in Work
    BY <1>1 DEF Work, Driving, Looping
  <2>2. drive' = [drive EXCEPT ![s] = d]
    BY <1>10 DEF Report
  <2> HIDE DEF d
  <2>3. QED BY <1>2, <1>10, <2>1, <2>2 DEF TypeOK, Report, ghost
<1>11. ASSUME NEW n \in 1..DayLength, Take(s, n) PROVE TypeOK'
  <2> DEFINE p == drive[s].pos
             k == p \div DayLength
             d == [drive[s] EXCEPT !.at = "handling", !.size = n, !.left = n, !.seen = k,
                     !.last = IF drive[s].seen # k THEN k ELSE drive[s].last,
                     !.since = IF drive[s].seen # k THEN p % DayLength ELSE drive[s].since]
  <2>1. p \in Nat /\ k \in Nat /\ p % DayLength \in Nat /\ n \in Nat
    BY <1>1, DayOf, Numbers DEF Work
  <2>2. k \in Days
    <3>1. p <= Total - 1 /\ (k * DayLength) <= p /\ k * DayLength \in Nat
      BY <1>11, <2>1, DayOf, Numbers DEF Take, Limit, Seqs
    <3>2. Total - 1 \in Nat /\ (k * DayLength) <= Total - 1
      BY <2>1, <3>1, Numbers
    <3>3. k <= (Total - 1) \div DayLength
      BY <2>1, <3>2, DayOf
    <3>4. QED BY <2>1, <3>3 DEF Days
  <2>3. drive' = [drive EXCEPT ![s] = d]
    BY <1>11 DEF Take
  <2>4. file' \in [Seqs -> [Days -> {"none", "torn", "whole"}]]
    BY <1>1, <1>11 DEF Take, TypeOK, Pruned
  <2>5. d \in Work
    <3> HIDE DEF p, k
    <3>1. QED BY <1>1, <2>1, <2>2 DEF Work, Driving, Looping, DayOrNone
  <2> HIDE DEF d
  <2>6. QED BY <1>2, <1>11, <2>3, <2>4, <2>5 DEF TypeOK, Take, stream, ghost
<1>12. CASE Submit(s)
  <2>1. /\ drive[s].pos + 1 \in Nat /\ drive[s].since + drive[s].size \in Nat
        /\ drive[s].left > 1 => drive[s].left - 1 \in Nat
    BY <1>1 DEF Work
  <2>2. drive' \in [Seqs -> Work]
    <3>1. CASE /\ drive[s].left > 1
               /\ drive' = [drive EXCEPT ![s].pos = @ + 1, ![s].left = @ - 1]
      <4> DEFINE d == [drive[s] EXCEPT !.pos = drive[s].pos + 1, !.left = drive[s].left - 1]
      <4>1. d \in Work
        BY <1>1, <2>1, <3>1 DEF Work
      <4>2. drive' = [drive EXCEPT ![s] = d]
        BY <3>1
      <4> HIDE DEF d
      <4>3. QED BY <1>2, <4>1, <4>2
    <3>2. ASSUME NEW next \in {"stats", "taking"},
                 drive' = [drive EXCEPT ![s].pos = @ + 1, ![s].left = 0, ![s].size = 0,
                             ![s].since = @ + drive[s].size, ![s].at = next]
          PROVE  drive' \in [Seqs -> Work]
      <4> DEFINE d == [drive[s] EXCEPT !.pos = drive[s].pos + 1, !.left = 0, !.size = 0,
                         !.since = drive[s].since + drive[s].size, !.at = next]
      <4>1. d \in Work
        BY <1>1, <2>1 DEF Work, Driving, Looping
      <4>2. drive' = [drive EXCEPT ![s] = d]
        BY <3>2
      <4> HIDE DEF d
      <4>3. QED BY <1>2, <4>1, <4>2
    <3>3. QED BY <1>12, <3>1, <3>2 DEF Submit
  <2>3. sent' \in [0..(Total - 1) -> Nat]
    <3> DEFINE n == IF faults = 0 THEN sent[drive[s].pos] + 1 ELSE 1
    <3>1. sent' = [sent EXCEPT ![drive[s].pos] = n]
      BY <1>12 DEF Submit
    <3>2. drive[s].pos \in 0..(Total - 1) => n \in Nat
      BY DEF TypeOK
    <3> HIDE DEF n
    <3>3. QED BY <3>1, <3>2 DEF TypeOK
  <2>4. published' \in SUBSET Seqs
    BY <1>12 DEF TypeOK, Submit
  <2>5. QED BY <1>12, <2>2, <2>3, <2>4 DEF TypeOK, Submit, stream
<1>13. CASE Thrown(s)
  <2> DEFINE d == [drive[s] EXCEPT !.at = "closing", !.failing = TRUE]
  <2>1. d \in Work
    BY <1>1 DEF Work, Driving
  <2>2. drive' = [drive EXCEPT ![s] = d]
    BY <1>13 DEF Thrown
  <2> HIDE DEF d
  <2>3. faults' \in Nat
    BY <1>13 DEF Thrown, Fault, TypeOK
  <2>4. QED BY <1>2, <1>13, <2>1, <2>2, <2>3 DEF TypeOK, Thrown, stream, ghost
<1>14. CASE Trip(s)
  <2> DEFINE d == [drive[s] EXCEPT !.broken = TRUE]
  <2>1. d \in Work
    BY <1>1 DEF Work
  <2>2. drive' = [drive EXCEPT ![s] = d]
    BY <1>14 DEF Trip
  <2> HIDE DEF d
  <2>3. faults' \in Nat
    BY <1>14 DEF Trip, Fault, TypeOK
  <2>4. QED BY <1>2, <1>14, <2>1, <2>2, <2>3 DEF TypeOK, Trip, stream, ghost
<1>15. CASE Progress(s)
  <2>1. drive' \in [Seqs -> Work]
    BY <1>3, <1>15 DEF Progress, Driving, Looping
  <2>2. row' \in [Seqs -> Session]
    BY <1>4, <1>15 DEF Progress, TypeOK
  <2>3. QED BY <1>15, <2>1, <2>2 DEF TypeOK, Progress, stream, ghost
<1>16. CASE Close(s)
  <2> DEFINE d == [Asleep EXCEPT !.at = "recording", !.size = drive[s].size, !.last = drive[s].last,
                                 !.since = drive[s].since, !.failing = drive[s].failing]
  <2>1. d \in Work
    BY <1>1, AsleepTyped DEF Work
  <2>2. drive' = [drive EXCEPT ![s] = d]
    BY <1>16 DEF Close
  <2> HIDE DEF d
  <2>3. file' \in [Seqs -> [Days -> {"none", "torn", "whole"}]]
    BY <1>1, <1>16 DEF Close, Trimmed, TypeOK
  <2>4. QED BY <1>2, <1>16, <2>1, <2>2, <2>3 DEF TypeOK, Close, stream, ghost
<1>17. CASE RecordFinal(s)
  <2>1. drive' \in [Seqs -> Work]
    BY <1>3, <1>17 DEF RecordFinal
  <2>2. QED BY <1>4, <1>17, <2>1 DEF TypeOK, RecordFinal, stream, ghost
<1>18. CASE End(s)
  <2>1. row' = [row EXCEPT ![s] = [row[s] EXCEPT !.at = "ended"]]
    BY <1>18 DEF End
  <2>2. [row[s] EXCEPT !.at = "ended"] \in Session
    BY <1>1 DEF Session
  <2>3. row' \in [Seqs -> Session]
    BY <2>1, <2>2 DEF TypeOK
  <2>4. drive' \in [Seqs -> Work]
    BY <1>2, <1>18, AsleepTyped DEF End
  <2>5. QED BY <1>18, <2>3, <2>4 DEF TypeOK, End, stream, ghost
<1>19. CASE Thread(s)
  <2>1. NextDay(s) \in Nat
    BY <1>1, DayOf, Numbers DEF NextDay, Work
  <2>2. PICK left \in {"torn", "whole"} : file' = [file EXCEPT ![s][NextDay(s)] = left]
    BY <1>19 DEF Thread, BeginWrite, EndWrite
  <2>3. file' \in [Seqs -> [Days -> {"none", "torn", "whole"}]]
    BY <2>2 DEF TypeOK
  <2>4. drive' \in [Seqs -> Work]
    <3>1. CASE BeginWrite(s)
      <4>1. [drive[s] EXCEPT !.writing = TRUE] \in Work
        BY <1>1 DEF Work
      <4>2. drive' = [drive EXCEPT ![s] = [drive[s] EXCEPT !.writing = TRUE]]
        BY <3>1 DEF BeginWrite
      <4>3. QED BY <1>2, <4>1, <4>2
    <3>2. CASE EndWrite(s)
      <4>1. [drive[s] EXCEPT !.writing = FALSE, !.head = NextDay(s)] \in Work
        BY <1>1, <2>1 DEF Work
      <4>2. drive' = [drive EXCEPT ![s] = [drive[s] EXCEPT !.writing = FALSE,
                                                           !.head = NextDay(s)]]
        BY <3>2 DEF EndWrite
      <4>3. QED BY <1>2, <4>1, <4>2
    <3>3. QED BY <1>19, <3>1, <3>2 DEF Thread
  <2>5. QED BY <1>19, <2>3, <2>4 DEF TypeOK, Thread, BeginWrite, EndWrite, stream, ghost
<1>20. QED
  BY <1>5, <1>6, <1>7, <1>8, <1>9, <1>10, <1>11, <1>12, <1>13, <1>14, <1>15, <1>16, <1>17, <1>18,
     <1>19 DEF Drive

LEMMA Reconciled ==
  ASSUME TypeOK, Reconcile
  PROVE  /\ row' \in [Seqs -> Session]
         /\ \A t \in Seqs : /\ row'[t].day = row[t].day /\ row'[t].skip = row[t].skip
                            /\ row'[t].at # row[t].at => row'[t].at = "ended" /\ t = boot.seq
<1>1. row' = row \/ row' = [row EXCEPT ![boot.seq].at = "ended"]
  BY DEF Reconcile
<1>2. CASE row' = row \/ boot.seq \notin Seqs
  BY <1>1, <1>2 DEF TypeOK
<1>3. CASE boot.seq \in Seqs /\ row' = [row EXCEPT ![boot.seq].at = "ended"]
  <2> DEFINE x == [row[boot.seq] EXCEPT !.at = "ended"]
  <2>1. /\ x \in Session /\ x.at = "ended"
        /\ x.day = row[boot.seq].day /\ x.skip = row[boot.seq].skip
    BY <1>3, ZenonT(30) DEF TypeOK, Session
  <2>2. row' = [row EXCEPT ![boot.seq] = x]
    BY <1>3
  <2> HIDE DEF x
  <2>3. row \in [Seqs -> Session]
    BY DEF TypeOK
  <2>4. row'[boot.seq] = x /\ \A t \in Seqs \ {boot.seq} : row'[t] = row[t]
    BY <1>3, <2>2, <2>3
  <2>5. row' \in [Seqs -> Session]
    BY <1>3, <2>1, <2>2, <2>3
  <2>6. QED BY <2>1, <2>4, <2>5
<1>4. QED BY <1>1, <1>2, <1>3

(* What a step leaves of the positions in the rows: all, or all but that of *)
(* the session that records.                                                *)
LEMMA RowsMove ==
  ASSUME TypeOK, [Next]_vars
  PROVE  \/ \A t \in Seqs : row'[t].day = row[t].day /\ row'[t].skip = row[t].skip
         \/ \E s \in Seqs :
              /\ drive[s].last # None
              /\ row'[s].day = drive[s].last /\ row'[s].skip = drive[s].since
              /\ \A t \in Seqs \ {s} : row'[t] = row[t]
<1> DEFINE Rest == \A t \in Seqs : row'[t].day = row[t].day /\ row'[t].skip = row[t].skip
           Move == \E s \in Seqs :
                     /\ drive[s].last # None
                     /\ row'[s].day = drive[s].last /\ row'[s].skip = drive[s].since
                     /\ \A t \in Seqs \ {s} : row'[t] = row[t]
<1> SUFFICES Rest \/ Move
  OBVIOUS
<1>1. ASSUME NEW s \in Seqs, Recorded(s) PROVE Rest \/ Move
  <2>1. CASE drive[s].last = None
    BY <1>1, <2>1 DEF Recorded
  <2>2. CASE drive[s].last # None
    <3>1. row' = [row EXCEPT ![s].day = drive[s].last, ![s].skip = drive[s].since]
      BY <1>1, <2>2 DEF Recorded
    <3>2. /\ row'[s].day = drive[s].last /\ row'[s].skip = drive[s].since
          /\ \A t \in Seqs \ {s} : row'[t] = row[t]
      BY <3>1 DEF TypeOK, Session
    <3>3. QED BY <2>2, <3>2
  <2>3. QED BY <2>1, <2>2
<1>2. ASSUME NEW r \in Calls, CreateSession(r) PROVE Rest
  BY <1>2 DEF CreateSession, TypeOK, Session
<1>3. ASSUME NEW r \in Calls,
             \/ \E to \in {"paused", "streaming", "stopped"} : Ask(r, to)
             \/ AskStart(r) \/ Serve(r)
      PROVE  Rest
  BY <1>2, <1>3 DEF Ask, AskStart, Serve, WriteState, ReadPrevious, SetCurrent, SetStreaming, Enqueue
<1>4. ASSUME NEW s \in Seqs, End(s) PROVE Rest
  BY <1>4 DEF End, TypeOK, Session
<1>5. ASSUME NEW s \in Seqs, Progress(s) \/ RecordFinal(s) PROVE Rest \/ Move
  BY <1>1, <1>5 DEF Progress, RecordFinal
<1>6. ASSUME NEW s \in Seqs,
             \/ Opened(s) \/ NotOpened(s) \/ Leave(s) \/ Tokens(s) \/ Tick(s) \/ Report(s)
             \/ (\E n \in 1..DayLength : Take(s, n)) \/ Submit(s) \/ Close(s)
             \/ Thread(s) \/ Unreachable(s) \/ Thrown(s) \/ Trip(s)
      PROVE  Rest
  BY <1>6 DEF Opened, NotOpened, ThrownEarly, Leave, Tokens, Tick, Report, Take, Submit, Close,
              Thread, BeginWrite, EndWrite, Unreachable, Thrown, Trip
<1>7. CASE Restart
  BY <1>7 DEF Restart
<1>8. CASE Reconcile
  BY <1>8, Reconciled
<1>9. CASE UNCHANGED vars
  BY <1>9 DEF vars
<1> HIDE DEF Rest, Move
<1>10. ASSUME NEW s \in Seqs, Drive(s) \/ Thread(s) \/ Unreachable(s) \/ Thrown(s) \/ Trip(s)
       PROVE  Rest \/ Move
  BY <1>4, <1>5, <1>6, <1>10 DEF Drive
<1>11. QED BY <1>3, <1>7, <1>8, <1>9, <1>10 DEF Next

LEMMA OrderedKept ==
  ASSUME TypeOK, Ordered, [Next]_vars
  PROVE  Ordered'
<1>1. CASE \A t \in Seqs : row'[t].day = row[t].day
  BY <1>1 DEF Ordered, Unrecorded, Newest
<1>2. CASE \E s \in Seqs : /\ drive[s].last # None /\ row'[s].day = drive[s].last
                           /\ \A t \in Seqs \ {s} : row'[t] = row[t]
  <2>1. PICK s \in Seqs : /\ row'[s].day # None /\ \A t \in Seqs \ {s} : row'[t] = row[t]
    BY <1>2
  <2>2. CASE Unrecorded
    BY <2>1, <2>2, Numbers DEF Ordered, Unrecorded, Newest
  <2>3. ASSUME NEW m \in Seqs, Newest(m) PROVE Ordered'
    <3>1. CASE m <= s
      BY <2>1, <2>3, <3>1, Numbers DEF Ordered, Newest
    <3>2. CASE s < m
      BY <2>1, <2>3, <3>2, Numbers DEF Ordered, Newest
    <3>3. QED BY <3>1, <3>2, Numbers
  <2>4. QED BY <2>2, <2>3 DEF Ordered
<1>3. QED BY <1>1, <1>2, RowsMove

LEMMA TypesKept ==
  ASSUME TypeOK, Ordered, [Next]_vars
  PROVE  TypeOK'
<1>1. ASSUME NEW s \in Seqs, Drive(s) \/ Thread(s) \/ Unreachable(s) \/ Thrown(s) \/ Trip(s)
      PROVE  TypeOK'
  BY <1>1, JobKeepsTypes
<1>2. ASSUME NEW r \in Calls,
             \/ \E to \in {"paused", "streaming", "stopped"} : Ask(r, to)
             \/ AskStart(r) \/ Serve(r)
      PROVE  TypeOK'
  BY <1>2, RequestsKeepTypes
<1>3. CASE Restart
  <2>1. faults' \in Nat /\ drive' \in [Seqs -> Work]
    BY <1>3, AsleepTyped DEF Restart, Fault, TypeOK
  <2>2. job' \in [Seqs -> {"none", "waiting", "active", "completed", "failed"}]
    BY <1>3 DEF Restart, TypeOK
  <2>3. QED BY <1>3, <2>1, <2>2 DEF Restart, TypeOK, stream, ghost
<1>4. CASE Reconcile
  <2>1. boot' \in [at : {"idle", "list", "stop", "end"}, seq : Seqs \union {0}]
    BY <1>4 DEF Reconcile, TypeOK
  <2>2. row' \in [Seqs -> Session]
    BY <1>4, Reconciled
  <2>3. state' \in {"streaming", "paused", "stopped", "error"}
    BY <1>4 DEF Reconcile, TypeOK
  <2>4. QED BY <1>4, <2>1, <2>2, <2>3 DEF Reconcile, TypeOK, ghost
<1>5. CASE UNCHANGED vars
  BY <1>5 DEF vars, stream, ghost, TypeOK
<1>6. QED BY <1>1, <1>2, <1>3, <1>4, <1>5 DEF Next

(* Every variable stays in its domain: in particular the day a chunk is of  *)
(* is one of the stream's, and a request that sets the current session has  *)
(* created one.                                                             *)
THEOREM TypeCorrect == Spec => []TypeOK
<1>1. Init => TypeOK /\ Ordered
  BY TypesAtInit DEF Init, Ordered, Unrecorded
<1>2. TypeOK /\ Ordered /\ [Next]_vars => (TypeOK /\ Ordered)'
  BY TypesKept, OrderedKept
<1>3. QED BY <1>1, <1>2, PTL DEF Spec

LEMMA RecordsOrdered == Spec => []Ordered
<1>1. Init => TypeOK /\ Ordered
  BY TypesAtInit DEF Init, Ordered, Unrecorded
<1>2. TypeOK /\ Ordered /\ [Next]_vars => (TypeOK /\ Ordered)'
  BY TypesKept, OrderedKept
<1>3. QED BY <1>1, <1>2, PTL DEF Spec

-----------------------------------------------------------------------------
(* Jobs and sessions.                                                       *)

(* The steps of a job between its first and its last, and its thread's. *)
Moves(s) ==
  \/ Leave(s) \/ Tokens(s) \/ Tick(s) \/ Report(s)
  \/ (\E n \in 1..DayLength : Take(s, n)) \/ Submit(s) \/ Progress(s)
  \/ Close(s) \/ RecordFinal(s) \/ Thread(s) \/ Thrown(s) \/ Trip(s)

LEMMA Taken ==
  ASSUME TypeOK, NEW s \in Seqs, NEW n \in 1..DayLength, Take(s, n),
         NEW k, k = drive[s].pos \div DayLength
  PROVE  /\ drive'[s].at = "handling" /\ drive'[s].size = n /\ drive'[s].left = n
         /\ drive'[s].seen = k /\ drive'[s].pos = drive[s].pos
         /\ drive'[s].last = IF drive[s].seen # k THEN k ELSE drive[s].last
         /\ drive'[s].since = IF drive[s].seen # k THEN drive[s].pos % DayLength ELSE drive[s].since
         /\ drive'[s].head = drive[s].head /\ drive'[s].broken = drive[s].broken
         /\ drive[s].at = "taking" /\ k <= drive[s].head /\ drive[s].pos + n <= Limit(s)
         /\ \A t \in Seqs \ {s} : drive'[t] = drive[t]
<1> DEFINE last == IF drive[s].seen # k THEN k ELSE drive[s].last
           since == IF drive[s].seen # k THEN drive[s].pos % DayLength ELSE drive[s].since
<1>1. drive' = [drive EXCEPT ![s].at = "handling", ![s].size = n, ![s].left = n, ![s].seen = k,
                             ![s].last = last, ![s].since = since]
  BY DEF Take
<1> HIDE DEF last, since
<1>2. /\ drive'[s].at = "handling" /\ drive'[s].size = n /\ drive'[s].left = n
      /\ drive'[s].seen = k /\ drive'[s].pos = drive[s].pos
      /\ drive'[s].last = last /\ drive'[s].since = since
      /\ drive'[s].head = drive[s].head /\ drive'[s].broken = drive[s].broken
      /\ \A t \in Seqs \ {s} : drive'[t] = drive[t]
  BY <1>1 DEF TypeOK, Work
<1>3. drive[s].at = "taking" /\ k <= drive[s].head /\ drive[s].pos + n <= Limit(s)
  BY DEF Take
<1>4. QED BY <1>2, <1>3 DEF last, since

LEMMA Submitted ==
  ASSUME TypeOK, NEW s \in Seqs, Submit(s)
  PROVE  /\ drive'[s].pos = drive[s].pos + 1
         /\ drive'[s].last = drive[s].last /\ drive'[s].seen = drive[s].seen
         /\ drive'[s].head = drive[s].head /\ drive'[s].broken = drive[s].broken
         /\ drive[s].at = "handling" /\ ~drive[s].broken
         /\ \/ /\ drive[s].left > 1 /\ drive'[s].at = "handling"
               /\ drive'[s].left = drive[s].left - 1
               /\ drive'[s].size = drive[s].size /\ drive'[s].since = drive[s].since
            \/ /\ drive[s].left = 1 /\ drive'[s].at \in {"stats", "taking"}
               /\ drive'[s].left = 0 /\ drive'[s].size = 0
               /\ drive'[s].since = drive[s].since + drive[s].size
         /\ \A t \in Seqs \ {s} : drive'[t] = drive[t]
<1>1. drive[s].at = "handling" /\ ~drive[s].broken
  BY DEF Submit
<1>2. CASE drive[s].left > 1 /\ drive' = [drive EXCEPT ![s].pos = @ + 1, ![s].left = @ - 1]
  BY <1>1, <1>2 DEF TypeOK, Work
<1>3. ASSUME drive[s].left = 1, NEW next \in {"stats", "taking"},
             drive' = [drive EXCEPT ![s].pos = @ + 1, ![s].left = 0, ![s].size = 0,
                         ![s].since = @ + drive[s].size, ![s].at = next]
      PROVE  /\ drive'[s].pos = drive[s].pos + 1
             /\ drive'[s].last = drive[s].last /\ drive'[s].seen = drive[s].seen
             /\ drive'[s].head = drive[s].head /\ drive'[s].broken = drive[s].broken
             /\ drive'[s].at \in {"stats", "taking"}
             /\ drive'[s].left = 0 /\ drive'[s].size = 0
             /\ drive'[s].since = drive[s].since + drive[s].size
             /\ \A t \in Seqs \ {s} : drive'[t] = drive[t]
  BY <1>3 DEF TypeOK, Work
<1>4. \/ drive[s].left > 1 /\ drive' = [drive EXCEPT ![s].pos = @ + 1, ![s].left = @ - 1]
      \/ /\ drive[s].left = 1
         /\ \E next \in {"stats", "taking"} :
              drive' = [drive EXCEPT ![s].pos = @ + 1, ![s].left = 0, ![s].size = 0,
                          ![s].since = @ + drive[s].size, ![s].at = next]
  BY DEF Submit
<1>5. QED BY <1>1, <1>2, <1>3, <1>4

LEMMA Moving ==
  ASSUME TypeOK, NEW s \in Seqs, Moves(s)
  PROVE  /\ drive[s].at # "idle" /\ drive'[s].at # "idle"
         /\ \A t \in Seqs \ {s} : drive'[t] = drive[t]
         /\ UNCHANGED <<current, plan, job, call, boot, early>>
         /\ row' = row \/ Recorded(s)
<1>1. \A t \in Seqs \ {s} : drive'[t] = drive[t]
  <2>1. CASE Leave(s) \/ Tokens(s) \/ Tick(s) \/ Progress(s) \/ RecordFinal(s)
    BY <2>1 DEF TypeOK, GoTo, Leave, Tokens, Tick, Progress, RecordFinal
  <2>2. CASE Report(s) \/ (\E n \in 1..DayLength : Take(s, n)) \/ Close(s) \/ Thrown(s) \/ Trip(s)
    BY <2>2 DEF TypeOK, Report, Take, Close, Thrown, Trip
  <2>3. CASE Submit(s)
    BY <2>3 DEF TypeOK, Submit
  <2>4. CASE Thread(s)
    BY <2>4 DEF TypeOK, Thread, BeginWrite, EndWrite
  <2>5. QED BY <2>1, <2>2, <2>3, <2>4 DEF Moves
<1>2. drive[s].at # "idle"
  BY DEF Moves, Leave, Tokens, Tick, Report, Take, Submit, Progress, Close, RecordFinal, Thread,
         BeginWrite, EndWrite, Running, Thrown, Trip
<1>3. drive'[s].at # "idle"
  <2> USE DEF TypeOK, Work
  <2>1. ASSUME NEW at, at # "idle", GoTo(s, at) PROVE drive'[s].at # "idle"
    BY <2>1 DEF GoTo
  <2>2. CASE Leave(s) \/ Tokens(s) \/ Tick(s) \/ Progress(s) \/ RecordFinal(s)
    BY <2>1, <2>2 DEF Leave, Tokens, Tick, Progress, RecordFinal
  <2>3. CASE Report(s) \/ Thrown(s) \/ Trip(s)
    <3>1. CASE Report(s)
      BY <3>1 DEF Report
    <3>2. CASE Thrown(s)
      BY <3>2 DEF Thrown
    <3>3. CASE Trip(s)
      BY <1>2, <3>3 DEF Trip
    <3>4. QED BY <2>3, <3>1, <3>2, <3>3
  <2>4. ASSUME NEW n \in 1..DayLength, Take(s, n) PROVE drive'[s].at # "idle"
    BY <2>4, Taken
  <2>5. CASE Close(s)
    BY <2>5 DEF Close, Asleep
  <2>6. CASE Submit(s)
    BY <2>6, Submitted
  <2>7. CASE Thread(s)
    BY <1>2, <2>7 DEF Thread, BeginWrite, EndWrite
  <2>8. QED BY <2>2, <2>3, <2>4, <2>5, <2>6, <2>7 DEF Moves
<1>4. UNCHANGED <<current, plan, job, call, boot, early>> /\ (row' = row \/ Recorded(s))
  BY DEF Moves, Leave, Tokens, Tick, Report, Take, Submit, Progress, Close, RecordFinal, Thread,
         BeginWrite, EndWrite, Thrown, Trip, stream, ghost
<1>5. QED BY <1>1, <1>2, <1>3, <1>4

(* What a request's steps leave.                                            *)
LEMMA SlotsRequest ==
  ASSUME TypeOK, Slots, NEW r \in Calls, UNCHANGED <<row, job, drive, boot>>,
         current' = current \/ (call[r].at \in Creating /\ current' = call[r].seq),
         \A q \in Calls : call'[q].at \in Creating =>
                           call[q].at \in Creating /\ call'[q].seq = call[q].seq
  PROVE  Slots'
<1>1. row[current'].at # "none"
  BY DEF Slots
<1>2. \A q \in Calls : call'[q].at \in Creating =>
         /\ row[call'[q].seq].at # "none" /\ job[call'[q].seq] = "none"
         /\ \A p \in Calls \ {q} : call'[p].at \in Creating => call'[p].seq # call'[q].seq
  BY DEF Slots
<1>3. /\ boot.seq # 0 => row[boot.seq].at # "none"
      /\ \A s \in Seqs :
           /\ drive[s].at # "idle" <=> job[s] = "active"
           /\ drive[s].at = "idle" => drive[s] = Asleep
           /\ row[s].at = "none" => /\ job[s] = "none" /\ row[s].day = None
                                    /\ \A t \in Seqs : t > s => row[t].at = "none"
  BY DEF Slots
<1>4. QED BY <1>1, <1>2, <1>3 DEF Slots

(* What a job's steps leave.                                                *)
LEMMA SlotsJob ==
  ASSUME TypeOK, Slots, NEW s \in Seqs, UNCHANGED <<current, call, boot>>,
         \A t \in Seqs : (row'[t].at = "none" <=> row[t].at = "none"),
         \A t \in Seqs : row'[t].at = "none" => row'[t].day = row[t].day,
         \A t \in Seqs \ {s} : job'[t] = job[t] /\ drive'[t] = drive[t],
         job[s] # "none", job'[s] # "none", drive'[s].at # "idle" <=> job'[s] = "active",
         drive'[s].at = "idle" => drive'[s] = Asleep
  PROVE  Slots'
<1>1. row'[current].at # "none" /\ (boot.seq # 0 => row'[boot.seq].at # "none")
  BY DEF Slots, TypeOK
<1>2. \A r \in Calls : call[r].at \in Creating => call[r].seq \in Seqs /\ call[r].seq # s
  BY DEF Slots, TypeOK
<1>3. \A r \in Calls : call[r].at \in Creating =>
         /\ row'[call[r].seq].at # "none" /\ job'[call[r].seq] = "none"
         /\ \A q \in Calls \ {r} : call[q].at \in Creating => call[q].seq # call[r].seq
  BY <1>2 DEF Slots
<1>4. ASSUME NEW t \in Seqs
      PROVE  /\ drive'[t].at # "idle" <=> job'[t] = "active"
             /\ drive'[t].at = "idle" => drive'[t] = Asleep
             /\ row'[t].at = "none" => /\ job'[t] = "none" /\ row'[t].day = None
                                       /\ \A u \in Seqs : u > t => row'[u].at = "none"
  BY DEF Slots
<1>5. QED BY <1>1, <1>3, <1>4 DEF Slots

LEMMA CallsSet ==
  ASSUME TypeOK, NEW r \in Calls, SetCurrent(r) \/ SetStreaming(r)
  PROVE  /\ call[r].at \in Creating /\ call'[r].at \in Creating
         /\ \A q \in Calls : call'[q].from = call[q].from /\ call'[q].seq = call[q].seq
         /\ \A q \in Calls \ {r} : call'[q] = call[q]
<1>1. call \in [Calls -> Request]
  BY DEF TypeOK
<1>2. CASE SetCurrent(r)
  BY <1>1, <1>2 DEF SetCurrent, Request, Creating
<1>3. CASE SetStreaming(r)
  BY <1>1, <1>3 DEF SetStreaming, Request, Creating
<1>4. QED BY <1>2, <1>3

LEMMA SlotsCreate ==
  ASSUME TypeOK, Slots, NEW r \in Calls, CreateSession(r)
  PROVE  Slots'
<1>1. PICK s \in Seqs :
        /\ row[s].at = "none" /\ \A t \in 1..(s - 1) : row[t].at # "none"
        /\ row' = [row EXCEPT ![s].at = "open"]
        /\ call' = [call EXCEPT ![r].at = "current", ![r].seq = s]
  BY DEF CreateSession
<1>2. UNCHANGED <<current, job, drive, boot>> /\ call[r].at = "create"
  BY DEF CreateSession, stream
<1>3. row'[s].at = "open" /\ job[s] = "none" /\ \A t \in Seqs \ {s} : row'[t] = row[t]
  BY <1>1 DEF TypeOK, Session, Slots
<1>4. /\ call'[r].at = "current" /\ call'[r].seq = s
      /\ \A q \in Calls \ {r} : call'[q] = call[q]
  BY <1>1 DEF TypeOK, Request
<1>5. \A q \in Calls : call[q].at \in Creating => call[q].seq \in Seqs \ {s}
  BY <1>1 DEF TypeOK, Slots
<1>6. ASSUME NEW u \in Seqs, row'[u].at = "none"
      PROVE  /\ u # s /\ job[u] = "none" /\ row'[u].day = None
             /\ \A t \in Seqs : t > u => row'[t].at = "none"
  <2>1. u # s /\ row'[u] = row[u]
    BY <1>3, <1>6
  <2>2. ~(u < s)
    BY <1>1, <1>6, <2>1, Numbers DEF Seqs
  <2>3. QED BY <1>3, <1>6, <2>1, <2>2, Numbers DEF Slots
<1>7. row'[current].at # "none" /\ (boot.seq # 0 => row'[boot.seq].at # "none")
  <2>1. /\ current \in Seqs /\ row[current].at # "none"
        /\ boot.seq # 0 => boot.seq \in Seqs /\ row[boot.seq].at # "none"
    BY DEF Slots, TypeOK
  <2>2. \A t \in Seqs : row[t].at # "none" => row'[t].at # "none"
    BY <1>3
  <2>3. QED BY <2>1, <2>2, Zenon
<1>8. ASSUME NEW q \in Calls, call'[q].at \in Creating
      PROVE  /\ row'[call'[q].seq].at # "none" /\ job[call'[q].seq] = "none"
             /\ \A p \in Calls \ {q} : call'[p].at \in Creating => call'[p].seq # call'[q].seq
  <2>1. CASE q = r
    BY <1>3, <1>4, <1>5, <2>1
  <2>2. CASE q # r
    <3>1. call[q].at \in Creating /\ call[q].seq \in Seqs \ {s} /\ call'[q] = call[q]
      BY <1>4, <1>5, <1>8, <2>2
    <3>2. /\ row[call[q].seq].at # "none" /\ job[call[q].seq] = "none"
          /\ \A p \in Calls \ {q} : call[p].at \in Creating => call[p].seq # call[q].seq
      BY <3>1 DEF Slots
    <3>3. QED BY <1>3, <1>4, <3>1, <3>2
  <2>3. QED BY <2>1, <2>2
<1>9. QED
  <2>1. \A t \in Seqs : /\ drive[t].at # "idle" <=> job[t] = "active"
                        /\ drive[t].at = "idle" => drive[t] = Asleep
    BY DEF Slots
  <2>2. QED BY <1>2, <1>6, <1>7, <1>8, <2>1 DEF Slots

LEMMA SlotsKept ==
  ASSUME TypeOK, Slots, [Next]_vars
  PROVE  Slots'
<1>1. ASSUME NEW r \in Calls,
             \/ \E to \in {"paused", "streaming", "stopped"} : Ask(r, to)
             \/ AskStart(r) \/ WriteState(r) \/ ReadPrevious(r)
      PROVE  Slots'
  <2>1. UNCHANGED <<current, row, job, drive, boot>>
    BY <1>1 DEF Ask, AskStart, WriteState, ReadPrevious, stream
  <2>2. \A q \in Calls : call'[q].at \in Creating => call'[q] = call[q]
    BY <1>1 DEF Ask, AskStart, WriteState, ReadPrevious, TypeOK, Request, Creating, Made, Unmade
  <2>3. QED BY <2>1, <2>2, SlotsRequest
<1>2. ASSUME NEW r \in Calls, SetCurrent(r) \/ SetStreaming(r)
      PROVE  Slots'
  <2>1. /\ UNCHANGED <<row, job, drive, boot>> /\ call[r].at \in Creating
        /\ current' = current \/ current' = call[r].seq
    BY <1>2 DEF SetCurrent, SetStreaming, Creating
  <2>2. \A q \in Calls : call'[q].at \in Creating =>
                          call[q].at \in Creating /\ call'[q].seq = call[q].seq
    BY <1>2, <2>1, CallsSet
  <2>3. QED BY <2>1, <2>2, SlotsRequest
<1>3. ASSUME NEW r \in Calls, CreateSession(r) PROVE Slots'
  BY <1>3, SlotsCreate
<1>4. ASSUME NEW r \in Calls, Enqueue(r) PROVE Slots'
  <2>1. call[r].seq \in Seqs /\ call[r].at \in Creating
    BY <1>4 DEF Enqueue, TypeOK, Creating
  <2>2. /\ job'[call[r].seq] = "waiting" /\ call'[r].at = "done"
        /\ \A t \in Seqs \ {call[r].seq} : job'[t] = job[t]
        /\ \A q \in Calls \ {r} : call'[q] = call[q]
        /\ UNCHANGED <<current, row, drive, boot>>
    BY <1>4, <2>1 DEF Enqueue, TypeOK, Made, Unmade, stream
  <2>3. \A q \in Calls : call'[q].at \in Creating =>
           /\ call[q].at \in Creating /\ call'[q].seq = call[q].seq /\ call[q].seq # call[r].seq
           /\ call[q].seq \in Seqs
    BY <2>1, <2>2 DEF Slots, Creating, TypeOK
  <2>4. ASSUME NEW q \in Calls, call'[q].at \in Creating
        PROVE  /\ row[call'[q].seq].at # "none" /\ job'[call'[q].seq] = "none"
               /\ \A p \in Calls \ {q} : call'[p].at \in Creating => call'[p].seq # call'[q].seq
    <3>1. /\ row[call[q].seq].at # "none" /\ job[call[q].seq] = "none"
          /\ \A p \in Calls \ {q} : call[p].at \in Creating => call[p].seq # call[q].seq
      BY <2>3, <2>4 DEF Slots
    <3>2. QED BY <2>2, <2>3, <2>4, <3>1
  <2>5. ASSUME NEW t \in Seqs
        PROVE  /\ drive[t].at # "idle" <=> job'[t] = "active"
               /\ drive[t].at = "idle" => drive[t] = Asleep
               /\ row[t].at = "none" => /\ job'[t] = "none" /\ row[t].day = None
                                        /\ \A u \in Seqs : u > t => row[u].at = "none"
    BY <2>1, <2>2 DEF Slots
  <2>6. row[current].at # "none" /\ (boot.seq # 0 => row[boot.seq].at # "none")
    BY DEF Slots
  <2>7. QED BY <2>2, <2>4, <2>5, <2>6 DEF Slots
<1>5. ASSUME NEW s \in Seqs, Drive(s) \/ Thread(s) \/ Unreachable(s) \/ Thrown(s) \/ Trip(s)
      PROVE  Slots'
  <2>1. CASE Moves(s)
    <3>1. job[s] = "active" /\ job' = job
      BY <2>1, Moving DEF Slots
    <3>2. /\ \A t \in Seqs : row'[t].at = row[t].at
          /\ row'[s].at # "none" /\ \A t \in Seqs \ {s} : row'[t] = row[t]
      <4>1. row[s].at # "none"
        BY <3>1 DEF Slots
      <4>2. row' = row \/ Recorded(s)
        BY <2>1, Moving
      <4>3. \/ row' = row
            \/ row' = [row EXCEPT ![s].day = drive[s].last, ![s].skip = drive[s].since]
        BY <4>2 DEF Recorded
      <4>4. row \in [Seqs -> Session]
        BY DEF TypeOK
      <4>5. QED BY <4>1, <4>3, <4>4 DEF Session
    <3>3. QED BY <2>1, <3>1, <3>2, Moving, SlotsJob
  <2>2. CASE Opened(s)
    <3>1. UNCHANGED <<current, call, boot, row>> /\ job[s] = "waiting" /\ job'[s] = "active"
      BY <2>2 DEF Opened, TypeOK, stream
    <3>2. drive'[s].at = "loop" /\ \A t \in Seqs \ {s} : job'[t] = job[t] /\ drive'[t] = drive[t]
      BY <2>2 DEF Opened, TypeOK, Work
    <3>3. QED BY <3>1, <3>2, SlotsJob
  <2>3. CASE NotOpened(s) \/ Unreachable(s)
    <3>1. /\ UNCHANGED <<current, call, boot, row, drive>>
          /\ job[s] = "waiting" /\ job'[s] = "failed" /\ \A t \in Seqs \ {s} : job'[t] = job[t]
      BY <2>3 DEF NotOpened, Unreachable, ThrownEarly, TypeOK, stream
    <3>2. drive[s] = Asleep
      BY <3>1 DEF Slots
    <3>3. QED BY <3>1, <3>2, AsleepTyped, SlotsJob
  <2>4. CASE End(s)
    <3>1. job[s] = "active" /\ row[s].at # "none"
      BY <2>4 DEF End, Slots
    <3>2. /\ UNCHANGED <<current, call, boot>> /\ drive'[s] = Asleep
          /\ job'[s] \in {"failed", "completed"}
          /\ \A t \in Seqs \ {s} : job'[t] = job[t] /\ drive'[t] = drive[t]
      BY <2>4 DEF End, TypeOK, stream
    <3>3. row'[s].at = "ended" /\ \A t \in Seqs \ {s} : row'[t] = row[t]
      BY <2>4 DEF End, TypeOK, Session
    <3>4. QED BY <3>1, <3>2, <3>3, AsleepTyped, SlotsJob
  <2>5. QED BY <1>5, <2>1, <2>2, <2>3, <2>4 DEF Drive, Moves
<1>6. CASE Restart
  <2>1. \A t \in Seqs : /\ drive'[t] = Asleep /\ job'[t] # "active"
                        /\ job'[t] = "none" <=> job[t] = "none"
    BY <1>6 DEF Restart, TypeOK
  <2>2. UNCHANGED <<current, row, call>> /\ boot'.seq = 0
    BY <1>6 DEF Restart, stream
  <2>3. \A r \in Calls : call[r].at \in Creating =>
       /\ row[call[r].seq].at # "none" /\ job'[call[r].seq] = "none"
       /\ \A q \in Calls \ {r} : call[q].at \in Creating => call[q].seq # call[r].seq
    BY <2>1 DEF Slots, TypeOK
  <2>4. \A t \in Seqs : row[t].at = "none" => /\ job'[t] = "none" /\ row[t].day = None
                                              /\ \A u \in Seqs : u > t => row[u].at = "none"
    BY <2>1 DEF Slots
  <2>5. row[current].at # "none"
    BY DEF Slots
  <2>6. QED BY <2>1, <2>2, <2>3, <2>4, <2>5, AsleepTyped DEF Slots
<1>7. CASE Reconcile
  <2>1. UNCHANGED <<current, call, job, drive>> /\ boot'.seq \in {0, current, boot.seq}
    BY <1>7 DEF Reconcile, TypeOK
  <2>2. \A t \in Seqs : /\ row'[t].day = row[t].day
                        /\ row'[t].at = "none" <=> row[t].at = "none"
    <3>1. boot.seq \in Seqs => row[boot.seq].at # "none"
      BY Numbers DEF Slots
    <3>2. QED BY <1>7, <3>1, Reconciled
  <2>3. row'[current].at # "none" /\ (boot'.seq # 0 => row'[boot'.seq].at # "none")
    BY <2>1, <2>2 DEF Slots, TypeOK
  <2>4. \A r \in Calls : call[r].at \in Creating =>
       /\ row'[call[r].seq].at # "none" /\ job[call[r].seq] = "none"
       /\ \A q \in Calls \ {r} : call[q].at \in Creating => call[q].seq # call[r].seq
    BY <2>2 DEF Slots, TypeOK
  <2>5. \A t \in Seqs :
           /\ drive[t].at # "idle" <=> job[t] = "active"
           /\ drive[t].at = "idle" => drive[t] = Asleep
           /\ row'[t].at = "none" => /\ job[t] = "none" /\ row'[t].day = None
                                     /\ \A u \in Seqs : u > t => row'[u].at = "none"
    BY <2>2 DEF Slots
  <2>6. QED BY <2>1, <2>3, <2>4, <2>5 DEF Slots
<1>8. CASE UNCHANGED vars
  BY <1>8 DEF vars, stream, Slots
<1>9. QED BY <1>1, <1>2, <1>3, <1>4, <1>5, <1>6, <1>7, <1>8 DEF Next, Serve

-----------------------------------------------------------------------------
(* Positions.                                                               *)

(* The position a job's record names, with the chunk in hand, is the one it *)
(* has reached; a chunk fits below the limit.                               *)
InStep(d, limit) ==
  /\ d.at \in Driving =>
       /\ d.last = None => d.pos = 0
       /\ d.last # None => d.last * DayLength + d.since + d.size = d.pos + d.left
       /\ d.seen # None => d.last = d.seen
  /\ d.at \in Driving \ {"handling", "closing"} => d.size = 0 /\ d.left = 0
  /\ d.at = "handling" => d.left \in 1..d.size /\ d.pos + d.left <= limit /\ d.seen # None

Handed(q) == \A p \in 0..(Total - 1) : p < q => sent[p] > 0

(* Every position kept anywhere is one before which all was handed over.    *)
Positions ==
  /\ \A s \in Seqs :
       /\ InStep(drive[s], Limit(s))
       /\ Handed(drive[s].pos) /\ Handed(Point(drive[s].last, drive[s].since))
       /\ Handed(Point(row[s].day, row[s].skip)) /\ Handed(Point(plan[s].day, plan[s].skip))
  /\ \A r \in Calls : Handed(Point(call[r].from.day, call[r].from.skip))
  /\ HandedOverInOrder

(* What the steps of a job do to its state d, as facts about one record.    *)

LEMMA SameStep ==
  ASSUME NEW d, NEW q, NEW limit, InStep(d, limit), q.at = d.at, q.pos = d.pos, q.size = d.size,
         q.left = d.left, q.last = d.last, q.since = d.since, q.seen = d.seen
  PROVE  InStep(q, limit)
BY DEF InStep

LEMMA MovedOn ==
  ASSUME NEW d \in Work, NEW q, NEW limit, InStep(d, limit), q.pos = d.pos, q.size = d.size,
         q.left = d.left, q.last = d.last, q.since = d.since, q.seen = d.seen,
         \/ d.at \in {"loop", "stats", "reporting"} /\ q.at \in Driving \ {"handling"}
         \/ d.at \in Driving /\ q.at = "closing"
  PROVE  InStep(q, limit)
BY DEF InStep, Driving, Looping

LEMMA Opens ==
  ASSUME NEW limit, NEW day \in DayOrNone, NEW skip \in Nat, NEW q,
         q = [Asleep EXCEPT !.at = "loop", !.pos = Point(day, skip), !.last = day, !.since = skip]
  PROVE  InStep(q, limit)
<1>1. /\ q.at = "loop" /\ q.pos = Point(day, skip) /\ q.last = day /\ q.since = skip
      /\ q.size = 0 /\ q.left = 0 /\ q.seen = None
  BY DEF Asleep
<1>2. CASE day = None
  BY <1>1, <1>2 DEF InStep, Point
<1>3. CASE day # None
  <2>1. day \in Nat /\ DayLength \in Nat /\ day * DayLength \in Nat
    BY <1>3, Numbers DEF DayOrNone
  <2>2. q.last * DayLength + q.since + q.size = q.pos + q.left
    BY <1>1, <1>3, <2>1 DEF Point
  <2>3. QED BY <1>1, <1>3, <2>2 DEF InStep
<1>4. QED BY <1>2, <1>3

LEMMA Takes ==
  ASSUME NEW d \in Work, NEW limit \in Int, InStep(d, limit), d.at = "taking",
         NEW n \in Nat \ {0}, d.pos + n <= limit,
         NEW k, k = d.pos \div DayLength, NEW q, q.at = "handling", q.pos = d.pos,
         q.size = n, q.left = n, q.seen = k,
         q.last = IF d.seen # k THEN k ELSE d.last,
         q.since = IF d.seen # k THEN d.pos % DayLength ELSE d.since
  PROVE  InStep(q, limit) /\ Point(q.last, q.since) = d.pos /\ q.last # None
<1>1. /\ d.pos \in Nat /\ d.since \in Nat /\ k \in Nat /\ d.pos % DayLength \in Nat
      /\ DayLength \in Nat /\ k * DayLength \in Nat
      /\ k * DayLength + (d.pos % DayLength) = d.pos
  BY DayOf, Numbers DEF Work
<1>2. d.size = 0 /\ d.left = 0 /\ k # None
  BY <1>1, Numbers DEF InStep, Driving, Looping
<1>3. d.seen = k => d.last = k /\ k * DayLength + d.since = d.pos
  BY <1>1, <1>2 DEF InStep, Driving, Looping
<1>4. q.last = k /\ k * DayLength + q.since = d.pos /\ q.since \in Nat
  BY <1>1, <1>3
<1>5. Point(q.last, q.since) = d.pos /\ q.last # None
  BY <1>2, <1>4 DEF Point
<1>6. q.last * DayLength + q.since + q.size = q.pos + q.left
  BY <1>1, <1>4
<1>7. QED BY <1>2, <1>4, <1>5, <1>6 DEF InStep

LEMMA Submits ==
  ASSUME NEW d \in Work, NEW limit \in Int, InStep(d, limit), d.at = "handling",
         NEW q, q.pos = d.pos + 1, q.last = d.last, q.seen = d.seen,
         \/ /\ d.left > 1 /\ q.at = "handling" /\ q.left = d.left - 1
            /\ q.size = d.size /\ q.since = d.since
         \/ /\ d.left = 1 /\ q.at \in {"stats", "taking"} /\ q.left = 0 /\ q.size = 0
            /\ q.since = d.since + d.size
  PROVE  /\ InStep(q, limit) /\ d.pos < limit
         /\ Point(q.last, q.since) \in {d.pos + 1, Point(d.last, d.since)}
<1>1. /\ d.pos \in Nat /\ d.since \in Nat /\ d.size \in Nat /\ d.left \in 1..d.size
      /\ d.pos + d.left <= limit /\ d.seen # None /\ d.last = d.seen /\ DayLength \in Nat
      /\ d.last \in Nat /\ d.last * DayLength \in Nat
      /\ d.last * DayLength + d.since + d.size = d.pos + d.left
  <2>1. /\ d.pos \in Nat /\ d.since \in Nat /\ d.size \in Nat /\ d.left \in 1..d.size
        /\ d.pos + d.left <= limit /\ d.seen # None /\ d.last = d.seen /\ DayLength \in Nat
        /\ d.last * DayLength + d.since + d.size = d.pos + d.left
    BY Numbers DEF Work, InStep, Driving, Looping
  <2>2. d.last \in Nat
    BY <2>1, Numbers DEF Work, DayOrNone
  <2>3. QED BY <2>1, <2>2
<1>2. CASE d.left > 1 /\ q.at = "handling" /\ q.left = d.left - 1 /\ q.size = d.size
           /\ q.since = d.since
  BY <1>1, <1>2 DEF InStep, Driving, Looping
<1>3. CASE d.left = 1 /\ q.at \in {"stats", "taking"} /\ q.left = 0 /\ q.size = 0
           /\ q.since = d.since + d.size
  <2>1. Point(q.last, q.since) = d.pos + 1
    BY <1>1, <1>3 DEF Point
  <2>2. QED BY <1>1, <1>3, <2>1 DEF InStep, Driving, Looping
<1>4. QED BY <1>2, <1>3

-----------------------------------------------------------------------------
(* Positions, from one step to the next.                                    *)

LEMMA PositionsJob ==
  ASSUME TypeOK, Positions, NEW s \in Seqs, UNCHANGED <<plan, call, sent>>,
         \A t \in Seqs \ {s} : drive'[t] = drive[t],
         InStep(drive'[s], Limit(s)), Handed(drive'[s].pos),
         Handed(Point(drive'[s].last, drive'[s].since)),
         \/ \A t \in Seqs : row'[t].day = row[t].day /\ row'[t].skip = row[t].skip
         \/ Recorded(s)
  PROVE  Positions'
<1>1. \A q : Handed(q)' <=> Handed(q)
  BY DEF Handed
<1>2. ASSUME NEW t \in Seqs
      PROVE  /\ InStep(drive'[t], Limit(t))
             /\ Handed(drive'[t].pos) /\ Handed(Point(drive'[t].last, drive'[t].since))
  BY DEF Positions
<1>3. ASSUME NEW t \in Seqs PROVE Handed(Point(row'[t].day, row'[t].skip))
  <2>1. CASE row'[t].day = row[t].day /\ row'[t].skip = row[t].skip
    BY <2>1 DEF Positions
  <2>2. CASE row' = [row EXCEPT ![s].day = drive[s].last, ![s].skip = drive[s].since]
    <3>1. CASE t = s
      <4>1. row'[t].day = drive[s].last /\ row'[t].skip = drive[s].since
        BY <2>2, <3>1 DEF TypeOK, Session
      <4>2. QED BY <4>1 DEF Positions
    <3>2. CASE t # s
      <4>1. row'[t] = row[t]
        BY <2>2, <3>2 DEF TypeOK
      <4>2. QED BY <4>1 DEF Positions
    <3>3. QED BY <3>1, <3>2
  <2>3. QED BY <2>1, <2>2 DEF Recorded
<1>4. HandedOverInOrder'
  BY DEF HandedOverInOrder, Positions
<1>5. \A t \in Seqs : Handed(Point(plan[t].day, plan[t].skip))
  BY DEF Positions
<1>6. \A r \in Calls : Handed(Point(call[r].from.day, call[r].from.skip))
  BY DEF Positions
<1>7. QED BY <1>1, <1>2, <1>3, <1>4, <1>5, <1>6 DEF Positions

(* The steps of a job that hand nothing over.                               *)
LEMMA QuietSteps ==
  ASSUME TypeOK, Positions, NEW s \in Seqs, Moves(s), ~Submit(s)
  PROVE  /\ InStep(drive'[s], Limit(s)) /\ Handed(drive'[s].pos)
         /\ Handed(Point(drive'[s].last, drive'[s].since))
         /\ UNCHANGED sent
<1> DEFINE d == drive[s]
           q == drive'[s]
<1>1. d \in Work /\ InStep(d, Limit(s)) /\ Handed(d.pos) /\ Handed(Point(d.last, d.since))
  BY DEF TypeOK, Positions
<1>2. ASSUME q.pos = d.pos, q.last = d.last, q.since = d.since, InStep(q, Limit(s))
      PROVE  InStep(q, Limit(s)) /\ Handed(q.pos) /\ Handed(Point(q.last, q.since))
  BY <1>1, <1>2
<1>3. CASE Leave(s) \/ Tick(s) \/ Progress(s) \/ Tokens(s)
  <2>1. PICK at \in Driving \ {"handling"} : GoTo(s, at)
    BY <1>3 DEF Leave, Tick, Progress, Tokens, Driving, Looping
  <2>2. /\ q.at = at /\ q.pos = d.pos /\ q.last = d.last /\ q.since = d.since /\ q.size = d.size
        /\ q.left = d.left /\ q.seen = d.seen
    BY <2>1 DEF GoTo, TypeOK, Work
  <2>3. d.at \in {"loop", "stats"} /\ UNCHANGED sent
    BY <1>3 DEF Leave, Tick, Progress, Tokens, ghost
  <2> HIDE DEF d, q
  <2>4. QED BY <1>1, <1>2, <2>2, <2>3, MovedOn DEF d, q
<1>4. CASE RecordFinal(s)
  <2>1. /\ q.at = "ending" /\ q.pos = d.pos /\ q.last = d.last /\ q.since = d.since
        /\ UNCHANGED sent
    BY <1>4 DEF RecordFinal, GoTo, TypeOK, Work, ghost
  <2>2. InStep(q, Limit(s))
    BY <2>1 DEF InStep, Driving, Looping
  <2> HIDE DEF d, q
  <2>3. QED BY <1>2, <2>1, <2>2 DEF d, q
<1>5. CASE Report(s) \/ Thrown(s)
  <2>1. /\ q.pos = d.pos /\ q.last = d.last /\ q.since = d.since /\ q.size = d.size
        /\ q.left = d.left /\ q.seen = d.seen
        /\ \/ d.at = "reporting" /\ q.at = "loop"
           \/ d.at \in {"taking", "handling"} /\ q.at = "closing"
        /\ UNCHANGED sent
    <3>1. CASE Report(s)
      BY <3>1 DEF Report, TypeOK, Work, ghost
    <3>2. CASE Thrown(s)
      BY <3>2 DEF Thrown, TypeOK, Work, ghost
    <3>3. QED BY <1>5, <3>1, <3>2
  <2> HIDE DEF d, q
  <2>2. InStep(q, Limit(s))
    BY <1>1, <2>1, MovedOn DEF Driving, Looping
  <2>3. QED BY <1>2, <2>1, <2>2 DEF d, q
<1>6. CASE Trip(s) \/ Thread(s)
  <2>1. /\ q.at = d.at /\ q.pos = d.pos /\ q.last = d.last /\ q.since = d.since
        /\ q.size = d.size /\ q.left = d.left /\ q.seen = d.seen
        /\ UNCHANGED sent
    <3>1. CASE Trip(s)
      BY <3>1 DEF Trip, TypeOK, Work, ghost
    <3>2. CASE BeginWrite(s)
      BY <3>2 DEF BeginWrite, TypeOK, Work, ghost
    <3>3. CASE EndWrite(s)
      BY <3>3 DEF EndWrite, TypeOK, Work, ghost
    <3>4. QED BY <1>6, <3>1, <3>2, <3>3 DEF Thread
  <2> HIDE DEF d, q
  <2>2. InStep(q, Limit(s))
    BY <1>1, <2>1, SameStep
  <2>3. QED BY <1>2, <2>1, <2>2 DEF d, q
<1>7. CASE Close(s)
  <2>1. /\ q.at = "recording" /\ q.pos = 0 /\ q.last = d.last /\ q.since = d.since
        /\ UNCHANGED sent
    BY <1>7 DEF Close, TypeOK, Work, Asleep, ghost
  <2>2. InStep(q, Limit(s)) /\ Handed(q.pos)
    BY <2>1 DEF InStep, Handed, Driving, Looping
  <2> HIDE DEF d, q
  <2>3. QED BY <1>1, <2>1, <2>2 DEF d, q
<1>8. ASSUME NEW n \in 1..DayLength, Take(s, n)
      PROVE  /\ InStep(q, Limit(s)) /\ Handed(q.pos) /\ Handed(Point(q.last, q.since))
             /\ UNCHANGED sent
  <2>1. PICK k : k = d.pos \div DayLength
    OBVIOUS
  <2>2. /\ q.at = "handling" /\ q.size = n /\ q.left = n /\ q.seen = k /\ q.pos = d.pos
        /\ q.last = IF d.seen # k THEN k ELSE d.last
        /\ q.since = IF d.seen # k THEN d.pos % DayLength ELSE d.since
        /\ d.at = "taking" /\ d.pos + n <= Limit(s)
    BY <1>8, <2>1, Taken
  <2>3. n \in Nat \ {0} /\ Limit(s) \in Int
    BY Numbers DEF Limit, Seqs
  <2>4. UNCHANGED sent
    BY <1>8 DEF Take, ghost
  <2> HIDE DEF d, q
  <2>5. InStep(q, Limit(s)) /\ Point(q.last, q.since) = d.pos
    BY <1>1, <2>1, <2>2, <2>3, Takes
  <2>6. QED BY <1>1, <2>2, <2>4, <2>5
<1>9. QED BY <1>3, <1>4, <1>5, <1>6, <1>7, <1>8 DEF Moves

LEMMA PositionsSubmit ==
  ASSUME TypeOK, Positions, NEW s \in Seqs, Submit(s)
  PROVE  Positions'
<1>1. PICK x : x = drive[s].pos
  OBVIOUS
<1>2. Limit(s) \in Int /\ Limit(s) <= Total /\ Total \in Nat
  BY Numbers DEF Limit, Seqs
<1>3. drive[s] \in Work /\ InStep(drive[s], Limit(s)) /\ Handed(x) /\ x \in Nat
  BY <1>1 DEF TypeOK, Positions, Work
<1>4. /\ InStep(drive'[s], Limit(s)) /\ x < Limit(s) /\ drive'[s].pos = x + 1
      /\ \/ Point(drive'[s].last, drive'[s].since) = x + 1
         \/ Point(drive'[s].last, drive'[s].since) = Point(drive[s].last, drive[s].since)
      /\ \A t \in Seqs \ {s} : drive'[t] = drive[t]
  BY <1>1, <1>2, <1>3, Submitted, Submits
<1>5. x \in 0..(Total - 1)
  BY <1>2, <1>3, <1>4
<1>6. /\ sent'[x] > 0
      /\ \A p \in 0..(Total - 1) : p # x => sent'[p] = sent[p]
  <2>1. sent[x] \in Nat /\ sent \in [0..(Total - 1) -> Nat]
    BY <1>5 DEF TypeOK
  <2>2. sent' = [sent EXCEPT ![x] = sent[x] + 1] \/ sent' = [sent EXCEPT ![x] = 1]
    BY <1>1 DEF Submit
  <2>3. PICK n \in {sent[x] + 1, 1} : sent' = [sent EXCEPT ![x] = n]
    BY <2>2
  <2>4. n > 0
    BY <2>1
  <2>5. sent'[x] = n /\ \A p \in 0..(Total - 1) : p # x => sent'[p] = sent[p]
    BY <1>5, <2>1, <2>3
  <2>6. QED BY <2>4, <2>5
<1>7. UNCHANGED <<row, plan, call>>
  BY DEF Submit
<1>8. \A y : Handed(y) => Handed(y)'
  BY <1>6 DEF Handed
<1>9. Handed(x + 1)'
  BY <1>3, <1>5, <1>6 DEF Handed
<1>10. HandedOverInOrder'
  <2> SUFFICES ASSUME NEW p \in 1..(Total - 1), sent'[p] > 0 PROVE sent'[p - 1] > 0
    BY DEF HandedOverInOrder
  <2>1. p \in 0..(Total - 1) /\ p - 1 \in 0..(Total - 1) /\ p - 1 # p /\ p - 1 < p
    BY <1>2
  <2>2. CASE p = x
    BY <1>3, <1>6, <2>1, <2>2 DEF Handed
  <2>3. CASE p # x
    <3>1. sent[p - 1] > 0
      BY <1>6, <2>1, <2>3 DEF Positions, HandedOverInOrder
    <3>2. QED BY <1>6, <2>1, <3>1
  <2>4. QED BY <2>2, <2>3
<1>11. ASSUME NEW t \in Seqs
       PROVE  /\ InStep(drive'[t], Limit(t))
              /\ Handed(drive[t].pos)' /\ Handed(Point(drive[t].last, drive[t].since))'
  <2>1. CASE t = s
    <3>1. Handed(drive[t].pos)'
      BY <1>4, <1>9, <2>1
    <3>2. Handed(Point(drive[s].last, drive[s].since))
      BY DEF Positions
    <3>3. PICK y : y = Point(drive[s].last, drive[s].since)
      OBVIOUS
    <3>4. Handed(y)'
      BY <1>8, <3>2, <3>3
    <3>5. Handed(Point(drive[t].last, drive[t].since))'
      BY <1>4, <1>9, <2>1, <3>3, <3>4
    <3>6. QED BY <1>4, <2>1, <3>1, <3>5
  <2>2. CASE t # s
    <3>1. /\ InStep(drive[t], Limit(t)) /\ Handed(drive[t].pos)
          /\ Handed(Point(drive[t].last, drive[t].since)) /\ drive'[t] = drive[t]
      BY <1>4, <2>2 DEF Positions
    <3>2. QED BY <1>8, <3>1
  <2>3. QED BY <2>1, <2>2
<1>12. \A t \in Seqs : /\ Handed(Point(row[t].day, row[t].skip))'
                       /\ Handed(Point(plan[t].day, plan[t].skip))'
  BY <1>7, <1>8 DEF Positions
<1>13. \A r \in Calls : Handed(Point(call[r].from.day, call[r].from.skip))'
  BY <1>7, <1>8 DEF Positions
<1>14. QED BY <1>10, <1>11, <1>12, <1>13 DEF Positions

LEMMA PositionsKept ==
  ASSUME TypeOK, Ordered, Slots, Positions, [Next]_vars
  PROVE  Positions'
<1>1. \A x : UNCHANGED sent => (Handed(x)' <=> Handed(x))
  BY DEF Handed
<1>2. ASSUME UNCHANGED <<drive, sent>>,
             \A t \in Seqs : /\ row'[t].day = row[t].day /\ row'[t].skip = row[t].skip
                            /\ Handed(Point(plan'[t].day, plan'[t].skip)),
             \A r \in Calls : Handed(Point(call'[r].from.day, call'[r].from.skip))
      PROVE  Positions'
  <2>1. \A t \in Seqs :
       /\ InStep(drive[t], Limit(t))
       /\ Handed(drive[t].pos) /\ Handed(Point(drive[t].last, drive[t].since))
       /\ Handed(Point(row'[t].day, row'[t].skip))
    BY <1>2 DEF Positions
  <2>2. HandedOverInOrder'
    BY <1>2 DEF Positions, HandedOverInOrder
  <2>3. QED BY <1>1, <1>2, <2>1, <2>2 DEF Positions
<1>3. ASSUME NEW r \in Calls,
             \/ \E to \in {"paused", "streaming", "stopped"} : Ask(r, to)
             \/ AskStart(r) \/ WriteState(r) \/ SetCurrent(r) \/ SetStreaming(r) \/ Enqueue(r)
      PROVE  Positions'
  <2>1. UNCHANGED <<drive, sent, row, plan>>
    BY <1>3 DEF Ask, AskStart, WriteState, SetCurrent, SetStreaming, Enqueue, ghost
  <2>2. \A q \in Calls : call'[q].from \in {call[q].from, Nowhere}
    <3>1. CASE WriteState(r) \/ Enqueue(r)
      BY <3>1, SMTT(30) DEF WriteState, Enqueue, TypeOK, Made, Unmade
    <3>2. CASE AskStart(r) \/ SetCurrent(r) \/ SetStreaming(r)
      BY <3>2, CallsSet DEF AskStart, TypeOK, Request
    <3>3. CASE \E to \in {"paused", "streaming", "stopped"} : Ask(r, to)
      BY <3>3 DEF Ask, TypeOK, Request
    <3>4. QED BY <1>3, <3>1, <3>2, <3>3
  <2>3. Handed(Point(Nowhere.day, Nowhere.skip))
    BY DEF Nowhere, Point, Handed
  <2>4. \A q \in Calls : Handed(Point(call'[q].from.day, call'[q].from.skip))
    BY <2>2, <2>3 DEF Positions
  <2>5. QED BY <1>2, <2>1, <2>4 DEF Positions
<1>4. ASSUME NEW r \in Calls, ReadPrevious(r) PROVE Positions'
  <2> DEFINE had == {s \in Seqs : row[s].day # None}
             p == CHOOSE s \in had : \A t \in had : t <= s
             from == IF had = {} THEN Nowhere
                     ELSE [src |-> p, day |-> row[p].day, skip |-> row[p].skip]
  <2>1. call' = [call EXCEPT ![r].at = "create", ![r].from = from]
    BY <1>4 DEF ReadPrevious
  <2>2. Handed(Point(from.day, from.skip))
    <3>1. had # {} => p \in Seqs
      BY PreviousIsNewest
    <3> HIDE DEF had, p
    <3>2. CASE had = {}
      BY <3>2 DEF Nowhere, Point, Handed
    <3>3. CASE had # {}
      BY <3>1, <3>3 DEF Positions
    <3>4. QED BY <3>2, <3>3
  <2> HIDE DEF from
  <2>3. call'[r].from = from /\ \A q \in Calls \ {r} : call'[q] = call[q]
    BY <2>1 DEF TypeOK, Request
  <2>4. UNCHANGED <<drive, sent, row, plan>>
    BY <1>4 DEF ReadPrevious
  <2>5. \A q \in Calls : Handed(Point(call'[q].from.day, call'[q].from.skip))
    BY <2>2, <2>3 DEF Positions
  <2>6. QED BY <1>2, <2>4, <2>5 DEF Positions
<1>5. ASSUME NEW r \in Calls, CreateSession(r) PROVE Positions'
  <2>1. PICK s \in Seqs : /\ row' = [row EXCEPT ![s].at = "open"]
                          /\ plan' = [plan EXCEPT ![s] = call[r].from]
                          /\ call' = [call EXCEPT ![r].at = "current", ![r].seq = s]
    BY <1>5 DEF CreateSession
  <2>2. \A t \in Seqs : plan'[t] \in {plan[t], call[r].from}
    BY <2>1 DEF TypeOK
  <2>3. \A q \in Calls : call'[q].from = call[q].from
    BY <2>1 DEF TypeOK, Request
  <2>4. \A t \in Seqs : row'[t].day = row[t].day /\ row'[t].skip = row[t].skip
    BY <2>1 DEF TypeOK, Session
  <2>5. UNCHANGED <<drive, sent>>
    BY <1>5 DEF CreateSession, ghost
  <2>6. /\ \A t \in Seqs : Handed(Point(plan'[t].day, plan'[t].skip))
        /\ \A q \in Calls : Handed(Point(call'[q].from.day, call'[q].from.skip))
    BY <2>2, <2>3 DEF Positions
  <2>7. QED BY <1>2, <2>4, <2>5, <2>6
<1>6. ASSUME NEW s \in Seqs, Moves(s) PROVE Positions'
  <2>1. CASE Submit(s)
    BY <2>1, PositionsSubmit
  <2>2. CASE ~Submit(s)
    BY <1>6, <2>2, Moving, QuietSteps, PositionsJob
  <2>3. QED BY <2>1, <2>2
<1>7. ASSUME NEW s \in Seqs, Opened(s) PROVE Positions'
  <2>1. PICK p : p = Resume(s)
    OBVIOUS
  <2>2. p \in Place /\ Handed(Point(p.day, p.skip))
    BY <2>1, ResumeTyped DEF Resume, Positions
  <2>3. drive' = [drive EXCEPT ![s].at = "loop", ![s].pos = Point(p.day, p.skip),
                               ![s].last = p.day, ![s].since = p.skip]
    BY <1>7, <2>1 DEF Opened
  <2>4. drive[s] = Asleep
    BY <1>7 DEF Opened, Slots
  <2>5. drive'[s] = [Asleep EXCEPT !.at = "loop", !.pos = Point(p.day, p.skip),
                                   !.last = p.day, !.since = p.skip]
    BY <2>3, <2>4 DEF TypeOK
  <2>6. InStep(drive'[s], Limit(s))
    BY <2>2, <2>5, Opens DEF Place
  <2>7. drive'[s].pos = Point(p.day, p.skip) /\ drive'[s].last = p.day /\ drive'[s].since = p.skip
    BY <2>5 DEF Asleep
  <2>8. /\ UNCHANGED <<plan, call, sent, row>> /\ \A t \in Seqs \ {s} : drive'[t] = drive[t]
    BY <1>7, <2>3 DEF Opened, TypeOK, ghost
  <2>9. QED BY <2>2, <2>6, <2>7, <2>8, PositionsJob
<1>8. ASSUME NEW s \in Seqs, NotOpened(s) \/ Unreachable(s) PROVE Positions'
  <2>1. UNCHANGED <<drive, sent, row, plan, call>>
    BY <1>8 DEF NotOpened, Unreachable, ThrownEarly, ghost
  <2>2. QED BY <1>2, <2>1 DEF Positions
<1>9. /\ InStep(Asleep, 0) /\ Handed(Asleep.pos) /\ Handed(Point(Asleep.last, Asleep.since))
      /\ \A limit : InStep(Asleep, limit)
  BY DEF InStep, Asleep, Handed, Point, Driving, Looping
<1>10. ASSUME NEW s \in Seqs, End(s) PROVE Positions'
  <2>1. /\ UNCHANGED <<plan, call, sent>> /\ drive'[s] = Asleep
        /\ \A t \in Seqs \ {s} : drive'[t] = drive[t]
    BY <1>10 DEF End, TypeOK, ghost
  <2>2. \A t \in Seqs : row'[t].day = row[t].day /\ row'[t].skip = row[t].skip
    BY <1>10 DEF End, TypeOK, Session
  <2>3. QED BY <1>9, <2>1, <2>2, PositionsJob
<1>11. CASE Restart
  <2>1. UNCHANGED <<row, plan, call, sent>> /\ \A t \in Seqs : drive'[t] = Asleep
    BY <1>11 DEF Restart, ghost
  <2>2. \A t \in Seqs : /\ Handed(Point(row[t].day, row[t].skip))
                        /\ Handed(Point(plan[t].day, plan[t].skip))
    BY DEF Positions
  <2>3. \A r \in Calls : Handed(Point(call[r].from.day, call[r].from.skip))
    BY DEF Positions
  <2>4. HandedOverInOrder'
    BY <2>1 DEF Positions, HandedOverInOrder
  <2>5. QED BY <1>1, <1>9, <2>1, <2>2, <2>3, <2>4 DEF Positions
<1>12. CASE Reconcile
  <2>1. UNCHANGED <<drive, sent, plan, call>>
    BY <1>12 DEF Reconcile, ghost
  <2>2. QED BY <1>2, <1>12, <2>1, Reconciled DEF Positions
<1>13. CASE UNCHANGED vars
  BY <1>2, <1>13 DEF Positions, vars, ghost
<1>14. ASSUME NEW s \in Seqs, Drive(s) \/ Thread(s) \/ Unreachable(s) \/ Thrown(s) \/ Trip(s)
       PROVE  Positions'
  BY <1>6, <1>7, <1>8, <1>10, <1>14 DEF Drive, Moves
<1>15. ASSUME NEW r \in Calls, Serve(r) PROVE Positions'
  BY <1>3, <1>4, <1>5, <1>15 DEF Serve
<1>16. QED BY <1>3, <1>11, <1>12, <1>13, <1>14, <1>15 DEF Next

(* At the beginning nothing is handed over and nobody is anywhere.          *)
LEMMA PositionsAtInit == Init => Slots /\ Positions
<1> SUFFICES ASSUME Init PROVE Slots /\ Positions
  OBVIOUS
<1>1. /\ \A s \in Seqs : /\ drive[s] = Asleep /\ row[s].day = None /\ plan[s] = Nowhere
                         /\ row[s].at = "none" <=> s # 1
                         /\ job[s] # "active" /\ (s # 1 => job[s] = "none")
      /\ \A r \in Calls : call[r].at = "idle" /\ call[r].from = Nowhere
      /\ current = 1 /\ boot.seq = 0 /\ sent = [p \in 0..(Total - 1) |-> 0]
  BY DEF Init, Unmade
<1>2. Slots
  BY <1>1, AsleepTyped, Numbers DEF Slots, Creating
<1>3. \A limit : InStep(Asleep, limit)
  BY DEF InStep, Asleep, Driving, Looping
<1>4. Handed(0) /\ Point(None, 0) = 0
  BY DEF Handed, Point
<1>5. Asleep.pos = 0 /\ Asleep.last = None /\ Asleep.since = 0 /\ Nowhere.day = None /\ Nowhere.skip = 0
  BY DEF Asleep, Nowhere
<1>6. \A s \in Seqs : Point(row[s].day, row[s].skip) = 0
  BY <1>1 DEF Point
<1>7. HandedOverInOrder
  BY <1>1, Numbers DEF HandedOverInOrder
<1>8. QED BY <1>1, <1>2, <1>3, <1>4, <1>5, <1>6, <1>7 DEF Positions

(* Wherever a position is kept, everything before it was handed over.       *)
THEOREM PositionsCovered == Spec => [](Slots /\ Positions)
<1>1. Init => Slots /\ Positions
  BY PositionsAtInit
<1>2. TypeOK /\ Ordered /\ Slots /\ Positions /\ [Next]_vars => (Slots /\ Positions)'
  BY SlotsKept, PositionsKept
<1>3. QED BY <1>1, <1>2, TypeCorrect, RecordsOrdered, PTL DEF Spec

(* HandedOverInOrder: before a delivery is handed over every one since the  *)
(* end of history has been, whatever stops, starts, fails, dies or overlaps *)
(* (createStreamSession, runStreamDrive).                                   *)
THEOREM NeverJumpsAhead == Spec => []HandedOverInOrder
<1>1. Positions => HandedOverInOrder
  BY DEF Positions
<1>2. QED BY <1>1, PositionsCovered, PTL

-----------------------------------------------------------------------------
(* The frontier.                                                            *)

Untouched(q) == \A p \in 0..(Total - 1) : p >= q => sent[p] = 0

(* p is where the last session that recorded anything left off. *)
Latest(p) ==
  \/ Unrecorded /\ p.day = None
  \/ \E s \in Seqs : Newest(s) /\ p.day = row[s].day /\ p.skip = row[s].skip

FaultFree ==
  /\ boot.at = "idle"
  /\ \A s \in Seqs :
       /\ ~drive[s].broken
       /\ drive[s].at = "closing" => drive[s].size = 0 /\ drive[s].left = 0
       /\ drive[s].at # "idle" \/ job[s] = "waiting" => row[s].at = "open"
       /\ drive[s].at = "idle" /\ row[s].at = "open" => row[s].day = None
  /\ \A r \in Calls : call[r].at \in Creating => row[call[r].seq].at = "open"

(* One session, or one start, has the stream, and the newest at that.       *)
Alone ==
  /\ \A s, t \in Seqs : row[s].at = "open" /\ row[t].at = "open" => s = t
  /\ \A q, r \in Calls : call[q].at = "create" /\ call[r].at = "create" => q = r
  /\ \A s \in Seqs, r \in Calls : ~(row[s].at = "open" /\ call[r].at = "create")
  /\ \A s, t \in Seqs : row[s].at = "open" /\ t > s => row[t].at = "none"

(* Nothing was handed over past the position of whoever has it.             *)
AtFrontier ==
  /\ \A s \in Seqs :
       /\ row[s].at = "open" /\ drive[s].at = "idle" => Latest(plan[s])
       /\ drive[s].at \in Driving => Untouched(drive[s].pos)
       /\ drive[s].at = "recording" => Untouched(Point(drive[s].last, drive[s].since))
       /\ drive[s].at \in Driving \union {"recording"} /\ drive[s].last = None => Unrecorded
  /\ \A r \in Calls : call[r].at = "create" => Latest(call[r].from)
  /\ (\A s \in Seqs : drive[s].at \in {"idle", "ending"}) =>
       /\ Unrecorded => Untouched(0)
       /\ \A s \in Seqs : Newest(s) => Untouched(Point(row[s].day, row[s].skip))

Frontier ==
  /\ faults = 0 => FaultFree
  /\ faults = 0 /\ ~early => Alone /\ AtFrontier /\ \A p \in 0..(Total - 1) : sent[p] <= 1

LEMMA CalmBefore ==
  ASSUME TypeOK, [Next]_vars
  PROVE  /\ faults' = 0 => faults = 0
         /\ ~early' => ~early
<1> DEFINE Goal == (faults' = 0 => faults = 0) /\ (~early' => ~early)
<1> SUFFICES Goal
  OBVIOUS
<1>1. faults \in Nat
  BY DEF TypeOK
<1>2. ASSUME UNCHANGED early, UNCHANGED faults \/ Fault PROVE Goal
  BY <1>1, <1>2 DEF Fault
<1>3. ASSUME NEW r \in Calls, ReadPrevious(r) PROVE Goal
  BY <1>3 DEF ReadPrevious
<1> HIDE DEF Goal
<1>4. ASSUME NEW r \in Calls,
             \/ \E to \in {"paused", "streaming", "stopped"} : Ask(r, to)
             \/ AskStart(r) \/ WriteState(r) \/ CreateSession(r) \/ SetCurrent(r)
             \/ SetStreaming(r) \/ Enqueue(r)
      PROVE  Goal
  BY <1>2, <1>4 DEF Ask, AskStart, WriteState, CreateSession, SetCurrent, SetStreaming, Enqueue, ghost
<1>5. ASSUME NEW s \in Seqs, Drive(s) PROVE Goal
  BY <1>2, <1>5 DEF Drive, Opened, NotOpened, ThrownEarly, Leave, Tokens, Tick, Report, Take, Submit,
                    Progress, Close, RecordFinal, End, ghost
<1>6. ASSUME NEW s \in Seqs, Thread(s) \/ Unreachable(s) \/ Thrown(s) \/ Trip(s) PROVE Goal
  BY <1>2, <1>6 DEF Thread, BeginWrite, EndWrite, Unreachable, ThrownEarly, Thrown, Trip, ghost
<1>7. CASE Restart \/ Reconcile \/ UNCHANGED vars
  BY <1>2, <1>7 DEF Restart, Reconcile, vars, ghost
<1>8. QED BY <1>3, <1>4, <1>5, <1>6, <1>7 DEF Next, Serve

LEMMA SameRows ==
  ASSUME \A t \in Seqs : row'[t].day = row[t].day /\ row'[t].skip = row[t].skip
  PROVE  /\ Unrecorded' <=> Unrecorded
         /\ \A t \in Seqs : Newest(t)' <=> Newest(t)
         /\ \A p : Latest(p)' <=> Latest(p)
<1>1. /\ Unrecorded' <=> Unrecorded
      /\ \A t \in Seqs : Newest(t)' <=> Newest(t)
  BY DEF Unrecorded, Newest
<1>2. QED BY <1>1 DEF Latest

LEMMA SameSent ==
  ASSUME UNCHANGED sent
  PROVE  \A x : Untouched(x)' <=> Untouched(x)
BY DEF Untouched

(* Where nothing failed, a step between the first and the last of a job     *)
(* stays where it is, hands a delivery over, closes or records the end.     *)
LEMMA Effects ==
  ASSUME TypeOK, Positions, FaultFree, faults' = 0, NEW s \in Seqs, Moves(s)
  PROVE  /\ ~drive'[s].broken
         /\ drive'[s].at = "closing" => drive'[s].size = 0 /\ drive'[s].left = 0
         /\ \/ /\ drive[s].at \in Driving /\ drive'[s].at \in Driving
               /\ drive'[s].pos = drive[s].pos
               /\ drive'[s].last = None => drive[s].last = None
               /\ UNCHANGED sent
            \/ Submit(s) \/ Close(s) \/ RecordFinal(s)
<1>1. drive[s] \in Work /\ InStep(drive[s], Limit(s)) /\ ~drive[s].broken /\ faults \in Nat
  BY DEF TypeOK, Positions, FaultFree
<1>2. CASE Leave(s) \/ Tick(s) \/ Tokens(s) \/ Progress(s)
  <2>1. PICK at \in Driving : /\ GoTo(s, at) /\ drive[s].at \in {"loop", "stats"}
                              /\ UNCHANGED sent
    BY <1>2 DEF Leave, Tick, Tokens, Progress, Driving, Looping, ghost
  <2>2. /\ drive'[s].at = at /\ drive'[s].pos = drive[s].pos /\ drive'[s].last = drive[s].last
        /\ drive'[s].size = drive[s].size /\ drive'[s].left = drive[s].left
        /\ drive'[s].broken = drive[s].broken
    BY <2>1 DEF GoTo, TypeOK, Work
  <2>3. drive[s].size = 0 /\ drive[s].left = 0
    BY <1>1, <2>1 DEF InStep, Driving, Looping
  <2>4. QED BY <1>1, <2>1, <2>2, <2>3 DEF Driving, Looping
<1>3. CASE Report(s)
  BY <1>1, <1>3 DEF Report, TypeOK, Work, Driving, Looping, ghost
<1>4. ASSUME NEW n \in 1..DayLength, Take(s, n)
      PROVE  /\ ~drive'[s].broken /\ drive[s].at \in Driving /\ drive'[s].at = "handling"
             /\ drive'[s].pos = drive[s].pos /\ (drive'[s].last = None => drive[s].last = None)
             /\ UNCHANGED sent
  <2>1. PICK k : k = drive[s].pos \div DayLength
    OBVIOUS
  <2>2. k # None
    BY <1>1, <2>1, DayOf, Numbers DEF Work
  <2>3. /\ drive'[s].at = "handling" /\ drive'[s].pos = drive[s].pos
        /\ drive'[s].last \in {k, drive[s].last} /\ drive'[s].broken = drive[s].broken
        /\ drive[s].at = "taking"
    BY <1>4, <2>1, Taken
  <2>4. UNCHANGED sent
    BY <1>4 DEF Take, ghost
  <2>5. QED BY <1>1, <2>2, <2>3, <2>4 DEF Driving, Looping
<1>5. CASE Submit(s)
  <2>1. /\ ~drive'[s].broken /\ drive'[s].at \in {"handling", "stats", "taking"}
    BY <1>5, Submitted
  <2>2. QED BY <1>5, <2>1
<1>6. CASE Close(s) \/ RecordFinal(s)
  <2>1. CASE Close(s)
    BY <1>1, <2>1 DEF Close, TypeOK, Work, Asleep
  <2>2. CASE RecordFinal(s)
    BY <1>1, <2>2 DEF RecordFinal, GoTo, TypeOK, Work
  <2>3. QED BY <1>6, <2>1, <2>2
<1>7. CASE Thread(s)
  <2>1. /\ drive'[s].at = drive[s].at /\ drive'[s].pos = drive[s].pos
        /\ drive'[s].last = drive[s].last /\ drive'[s].broken = drive[s].broken
        /\ Running(s) /\ UNCHANGED sent
    <3>1. CASE BeginWrite(s)
      BY <3>1 DEF BeginWrite, TypeOK, Work, ghost
    <3>2. CASE EndWrite(s)
      BY <3>2 DEF EndWrite, TypeOK, Work, ghost
    <3>3. QED BY <1>7, <3>1, <3>2 DEF Thread
  <2>2. QED BY <1>1, <2>1 DEF Running, Driving, Looping
<1>8. CASE Thrown(s) \/ Trip(s)
  BY <1>1, <1>8 DEF Thrown, Trip, Fault
<1>9. QED BY <1>2, <1>3, <1>4, <1>5, <1>6, <1>7, <1>8 DEF Moves, Driving, Looping

LEMMA RowsOfMove ==
  ASSUME TypeOK, Slots, NEW s \in Seqs, Moves(s)
  PROVE  /\ \A t \in Seqs : row'[t].at = row[t].at
         /\ \A t \in Seqs \ {s} : row'[t] = row[t]
         /\ drive[s].last = None => row' = row
         /\ \/ row' = row
            \/ row'[s].day = drive[s].last /\ row'[s].skip = drive[s].since
<1>1. row' = row \/ Recorded(s)
  BY Moving
<1>2. CASE row' = row
  BY <1>2
<1>3. CASE Recorded(s) /\ drive[s].last # None
  BY <1>3 DEF Recorded, TypeOK, Session
<1>4. CASE Recorded(s) /\ drive[s].last = None
  BY <1>4 DEF Recorded
<1>5. QED BY <1>1, <1>2, <1>3, <1>4

LEMMA FaultFreeKept ==
  ASSUME TypeOK, Slots, Positions, FaultFree, faults = 0, faults' = 0, [Next]_vars
  PROVE  FaultFree'
<1>1. ASSUME NEW s \in Seqs, Moves(s) PROVE FaultFree'
  <2>1. row[s].at = "open" /\ UNCHANGED <<job, call, boot>> /\ job[s] = "active"
    BY <1>1, Moving DEF FaultFree, Slots
  <2>2. \A t \in Seqs : row'[t].at = row[t].at
    BY <1>1, RowsOfMove
  <2>3. \A r \in Calls : call[r].at \in Creating => row'[call[r].seq].at = "open"
    BY <2>2 DEF FaultFree, TypeOK
  <2>4. ASSUME NEW t \in Seqs
        PROVE  /\ ~drive'[t].broken
               /\ drive'[t].at = "closing" => drive'[t].size = 0 /\ drive'[t].left = 0
               /\ drive'[t].at # "idle" \/ job[t] = "waiting" => row'[t].at = "open"
               /\ drive'[t].at = "idle" /\ row'[t].at = "open" => row'[t].day = None
    <3>1. CASE t = s
      BY <1>1, <2>1, <2>2, <3>1, Moving, Effects
    <3>2. CASE t # s
      <4>1. drive'[t] = drive[t] /\ row'[t] = row[t]
        BY <1>1, <3>2, Moving, RowsOfMove
      <4>2. QED BY <4>1 DEF FaultFree
    <3>3. QED BY <3>1, <3>2
  <2>5. QED BY <2>1, <2>3, <2>4 DEF FaultFree
<1>2. ASSUME NEW s \in Seqs, Opened(s) PROVE FaultFree'
  <2>1. /\ UNCHANGED <<row, call, boot>> /\ job[s] = "waiting"
        /\ \A t \in Seqs \ {s} : drive'[t] = drive[t] /\ job'[t] = job[t]
        /\ drive'[s].at = "loop" /\ drive'[s].broken = drive[s].broken /\ job'[s] = "active"
    BY <1>2 DEF Opened, TypeOK, Work
  <2>2. QED BY <2>1 DEF FaultFree
<1>3. ASSUME NEW s \in Seqs, NotOpened(s) PROVE FaultFree'
  <2>1. UNCHANGED <<row, call, boot, drive>> /\ \A t \in Seqs : job'[t] \in {job[t], "failed"}
    BY <1>3 DEF NotOpened, ThrownEarly, TypeOK
  <2>2. QED BY <2>1 DEF FaultFree
<1>4. ASSUME NEW s \in Seqs, End(s) PROVE FaultFree'
  <2>1. /\ UNCHANGED <<call, boot>> /\ drive[s].at = "ending" /\ drive'[s] = Asleep
        /\ \A t \in Seqs \ {s} : drive'[t] = drive[t] /\ job'[t] = job[t]
        /\ job'[s] \in {"failed", "completed"}
    BY <1>4 DEF End, TypeOK
  <2>2. row'[s].at = "ended" /\ \A t \in Seqs \ {s} : row'[t] = row[t]
    BY <1>4 DEF End, TypeOK, Session
  <2>3. job[s] = "active"
    BY <2>1 DEF Slots
  <2>4. \A r \in Calls : call[r].at \in Creating => call[r].seq \in Seqs \ {s}
    BY <2>3 DEF Slots, TypeOK
  <2>5. Asleep.at = "idle" /\ ~Asleep.broken
    BY DEF Asleep
  <2>6. QED BY <2>1, <2>2, <2>4, <2>5 DEF FaultFree
<1>5. ASSUME NEW s \in Seqs, Drive(s) \/ Thread(s) \/ Unreachable(s) \/ Thrown(s) \/ Trip(s)
      PROVE  FaultFree'
  <2>1. ~Unreachable(s)
    BY DEF Unreachable, Fault
  <2>2. QED BY <1>1, <1>2, <1>3, <1>4, <1>5, <2>1 DEF Drive, Moves
<1>6. ASSUME NEW r \in Calls,
             \/ \E to \in {"paused", "streaming", "stopped"} : Ask(r, to)
             \/ AskStart(r) \/ WriteState(r) \/ ReadPrevious(r)
      PROVE  FaultFree'
  <2>1. UNCHANGED <<row, job, drive, boot>>
    BY <1>6 DEF Ask, AskStart, WriteState, ReadPrevious
  <2>2. \A q \in Calls : call'[q].at \in Creating => call'[q] = call[q]
    BY <1>6 DEF Ask, AskStart, WriteState, ReadPrevious, TypeOK, Request, Creating, Made, Unmade
  <2>3. QED BY <2>1, <2>2 DEF FaultFree
<1>7. ASSUME NEW r \in Calls, SetCurrent(r) \/ SetStreaming(r) PROVE FaultFree'
  <2>1. UNCHANGED <<row, job, drive, boot>> /\ call[r].at \in Creating
    BY <1>7 DEF SetCurrent, SetStreaming, Creating
  <2>2. \A q \in Calls : call'[q].at \in Creating => /\ call[q].at \in Creating
                                                     /\ call'[q].seq = call[q].seq
    BY <1>7, <2>1, CallsSet
  <2>3. QED BY <2>1, <2>2 DEF FaultFree
<1>8. ASSUME NEW r \in Calls, CreateSession(r) PROVE FaultFree'
  <2>1. PICK s \in Seqs : /\ row[s].at = "none" /\ row' = [row EXCEPT ![s].at = "open"]
                          /\ call' = [call EXCEPT ![r].at = "current", ![r].seq = s]
    BY <1>8 DEF CreateSession
  <2>2. UNCHANGED <<job, drive, boot>>
    BY <1>8 DEF CreateSession
  <2>3. row'[s].at = "open" /\ row'[s].day = None /\ \A t \in Seqs \ {s} : row'[t] = row[t]
    BY <2>1 DEF TypeOK, Session, Slots
  <2>4. call'[r].seq = s /\ \A q \in Calls \ {r} : call'[q] = call[q]
    BY <2>1 DEF TypeOK, Request
  <2>5. \A q \in Calls : call'[q].at \in Creating => row'[call'[q].seq].at = "open"
    BY <2>3, <2>4 DEF FaultFree, TypeOK
  <2>6. QED BY <2>2, <2>3, <2>5 DEF FaultFree
<1>9. ASSUME NEW r \in Calls, Enqueue(r) PROVE FaultFree'
  <2>1. call[r].seq \in Seqs /\ call[r].at \in Creating
    BY <1>9 DEF Enqueue, TypeOK, Creating
  <2>2. /\ UNCHANGED <<row, drive, boot>> /\ call'[r].at = "done"
        /\ \A t \in Seqs \ {call[r].seq} : job'[t] = job[t]
        /\ \A q \in Calls \ {r} : call'[q] = call[q]
    BY <1>9, <2>1 DEF Enqueue, TypeOK, Made, Unmade
  <2>3. row[call[r].seq].at = "open"
    BY <2>1 DEF FaultFree
  <2>4. \A q \in Calls : call'[q].at \in Creating => row[call'[q].seq].at = "open"
    BY <2>2 DEF FaultFree, Creating
  <2>5. QED BY <2>2, <2>3, <2>4 DEF FaultFree
<1>10. CASE Restart \/ Reconcile
  BY <1>10 DEF Restart, Fault, Reconcile, FaultFree
<1>11. CASE UNCHANGED vars
  BY <1>11 DEF vars, FaultFree
<1>12. ASSUME NEW r \in Calls, Serve(r) PROVE FaultFree'
  BY <1>6, <1>7, <1>8, <1>9, <1>12 DEF Serve
<1>13. QED BY <1>5, <1>6, <1>10, <1>11, <1>12 DEF Next

(* One session has the stream: nothing else is left to show.                *)
LEMMA Sole ==
  ASSUME NEW s \in Seqs, FaultFree', Alone', row'[s].at = "open", drive'[s].at # "idle",
         drive'[s].at \in Driving => Untouched(drive[s].pos)',
         drive'[s].at = "recording" => Untouched(Point(drive[s].last, drive[s].since))',
         drive'[s].at \in Driving \union {"recording"} /\ drive'[s].last = None => Unrecorded',
         drive'[s].at \notin {"idle", "ending"}
         \/ /\ Unrecorded' => Untouched(0)'
            /\ \A t \in Seqs : Newest(t)' => Untouched(Point(row[t].day, row[t].skip))'
  PROVE  AtFrontier'
<1>1. \A t \in Seqs \ {s} : row'[t].at # "open" /\ drive'[t].at = "idle"
  BY DEF FaultFree, Alone
<1>2. \A r \in Calls : call'[r].at # "create"
  BY DEF Alone
<1>3. QED BY <1>1, <1>2 DEF AtFrontier, Driving, Looping

OnceEach == \A p \in 0..(Total - 1) : sent[p] <= 1

(* The conditions under which starts do not overlap and nothing failed. *)
Peace == /\ TypeOK /\ Ordered /\ Slots /\ Positions
         /\ faults = 0 /\ FaultFree /\ ~early /\ Alone /\ AtFrontier /\ OnceEach

LEMMA MoveAtFrontier ==
  ASSUME Peace, FaultFree', faults' = 0, NEW s \in Seqs, Moves(s)
  PROVE  Alone' /\ AtFrontier' /\ OnceEach'
<1> USE DEF Peace
<1>1. row[s].at = "open" /\ UNCHANGED call /\ drive[s].at # "idle" /\ drive'[s].at # "idle"
  BY Moving DEF FaultFree
<1>2. /\ \A t \in Seqs : row'[t].at = row[t].at
      /\ \A t \in Seqs \ {s} : row'[t] = row[t]
      /\ drive[s].last = None => row' = row
      /\ \/ row' = row
         \/ row'[s].day = drive[s].last /\ row'[s].skip = drive[s].since
  BY RowsOfMove
<1>3. Alone'
  BY <1>1, <1>2 DEF Alone
<1>4. drive[s] \in Work /\ InStep(drive[s], Limit(s))
  BY DEF TypeOK, Positions
<1>5. ASSUME drive[s].last = None, Unrecorded PROVE Unrecorded'
  BY <1>2, <1>5 DEF Unrecorded
<1>6. CASE /\ drive[s].at \in Driving /\ drive'[s].at \in Driving
           /\ drive'[s].pos = drive[s].pos
           /\ drive'[s].last = None => drive[s].last = None
           /\ UNCHANGED sent
  <2>1. Untouched(drive[s].pos)'
    BY <1>6, SameSent DEF AtFrontier
  <2>2. drive'[s].last = None => Unrecorded'
    BY <1>5, <1>6 DEF AtFrontier
  <2>3. OnceEach'
    BY <1>6 DEF OnceEach
  <2>4. drive'[s].at \notin {"idle", "ending", "recording"}
    BY <1>6 DEF Driving, Looping
  <2>5. QED BY <1>1, <1>2, <1>3, <2>1, <2>2, <2>3, <2>4, Sole
<1>7. CASE Submit(s)
  <2>1. PICK x : x = drive[s].pos
    OBVIOUS
  <2>2. /\ drive'[s].pos = x + 1 /\ drive'[s].last = drive[s].last /\ drive[s].at = "handling"
        /\ drive'[s].at \in {"handling", "stats", "taking"}
    BY <1>7, <2>1, Submitted
  <2>3. x \in Nat /\ Untouched(x) /\ (drive[s].last = None => Unrecorded)
    BY <1>4, <2>1, <2>2 DEF AtFrontier, Work, Driving, Looping
  <2>4. UNCHANGED row /\ sent' = [sent EXCEPT ![x] = @ + 1]
    BY <1>7, <2>1 DEF Submit
  <2>5. sent \in [0..(Total - 1) -> Nat]
    BY DEF TypeOK
  <2>6. Untouched(x + 1)'
    BY <2>3, <2>4, <2>5 DEF Untouched
  <2>7. OnceEach'
    <3>1. \A p \in 0..(Total - 1) : sent'[p] = IF p = x THEN sent[p] + 1 ELSE sent[p]
      BY <2>4, <2>5
    <3>2. x \in 0..(Total - 1) => sent[x] = 0
      BY <2>3 DEF Untouched
    <3>3. QED BY <3>1, <3>2 DEF OnceEach
  <2>8. Untouched(drive[s].pos)'
    BY <2>2, <2>6
  <2>9. drive'[s].last = None => Unrecorded'
    BY <1>5, <2>2, <2>3
  <2>10. QED BY <1>1, <1>2, <1>3, <2>2, <2>7, <2>8, <2>9, Sole
<1>8. CASE Close(s)
  <2>1. /\ drive[s].at = "closing" /\ drive'[s].at = "recording"
        /\ drive'[s].last = drive[s].last /\ drive'[s].since = drive[s].since
        /\ UNCHANGED <<sent, row>>
    BY <1>8 DEF Close, TypeOK, Work, Asleep, ghost
  <2>2. drive[s].size = 0 /\ drive[s].left = 0
    BY <2>1 DEF FaultFree
  <2>3. Point(drive[s].last, drive[s].since) = drive[s].pos
    <3>1. CASE drive[s].last = None
      BY <1>4, <2>1, <3>1 DEF InStep, Point, Driving
    <3>2. CASE drive[s].last # None
      <4>1. /\ drive[s].last * DayLength + drive[s].since + drive[s].size
                 = drive[s].pos + drive[s].left
            /\ drive[s].last \in Nat /\ drive[s].since \in Nat /\ drive[s].pos \in Nat
        BY <1>4, <2>1, <3>2, Numbers DEF InStep, Driving, Work, DayOrNone
      <4>2. drive[s].last * DayLength \in Nat
        BY <4>1, Numbers
      <4>3. QED BY <2>2, <3>2, <4>1, <4>2 DEF Point
    <3>3. QED BY <3>1, <3>2
  <2>4. Untouched(Point(drive[s].last, drive[s].since)) /\ (drive[s].last = None => Unrecorded)
    BY <2>1, <2>3 DEF AtFrontier, Driving
  <2>5. Untouched(Point(drive[s].last, drive[s].since))'
    BY <2>1, <2>4 DEF Untouched
  <2>6. drive'[s].last = None => Unrecorded'
    BY <1>5, <2>1, <2>4
  <2>7. OnceEach'
    BY <2>1 DEF OnceEach
  <2>8. drive'[s].at \notin Driving \union {"idle", "ending"}
    BY <2>1 DEF Driving, Looping
  <2>9. QED BY <1>1, <1>2, <1>3, <2>5, <2>6, <2>7, <2>8, Sole
<1>9. CASE RecordFinal(s)
  <2>1. /\ drive[s].at = "recording" /\ drive'[s].at = "ending" /\ UNCHANGED sent /\ Recorded(s)
    BY <1>9 DEF RecordFinal, GoTo, TypeOK, Work, ghost
  <2>2. PICK x : x = Point(drive[s].last, drive[s].since)
    OBVIOUS
  <2>3. Untouched(x) /\ (drive[s].last = None => Unrecorded)
    BY <2>1, <2>2 DEF AtFrontier
  <2>4. Untouched(x)'
    BY <2>1, <2>3, SameSent
  <2>5. CASE drive[s].last = None
    <3>1. Unrecorded' /\ x = 0
      BY <1>5, <2>2, <2>3, <2>5 DEF Point
    <3>2. \A t \in Seqs : ~Newest(t)'
      BY <3>1 DEF Unrecorded, Newest
    <3>3. QED BY <2>4, <3>1, <3>2, <2>1, <1>1, <1>2, <1>3, Sole DEF OnceEach, Driving, Looping
  <2>6. CASE drive[s].last # None
    <3>1. row'[s].day = drive[s].last /\ row'[s].skip = drive[s].since
      BY <2>1, <2>6 DEF Recorded, TypeOK, Session
    <3>2. \A t \in Seqs : t > s => row'[t].day = None
      BY <1>1, <1>2, Numbers DEF Alone, Slots
    <3>3. ASSUME NEW t \in Seqs, Newest(t)' PROVE t = s
      <4>1. row'[t].day # None /\ s <= t
        BY <2>6, <3>1, <3>3 DEF Newest
      <4>2. ~(t > s)
        BY <3>2, <4>1
      <4>3. QED BY <4>1, <4>2, Numbers
    <3>4. Untouched(Point(row[s].day, row[s].skip))'
      BY <2>2, <2>4, <3>1
    <3>5. ~Unrecorded'
      BY <2>6, <3>1 DEF Unrecorded
    <3>6. \A t \in Seqs : Newest(t)' => Untouched(Point(row[t].day, row[t].skip))'
      BY <3>3, <3>4
    <3>7. QED BY <3>5, <3>6, <2>1, <1>1, <1>2, <1>3, Sole DEF OnceEach, Driving, Looping
  <2>7. QED BY <2>5, <2>6
<1>10. QED BY <1>6, <1>7, <1>8, <1>9, Effects

LEMMA OpenAtFrontier ==
  ASSUME Peace, FaultFree', NEW s \in Seqs, Opened(s)
  PROVE  Alone' /\ AtFrontier' /\ OnceEach'
<1> USE DEF Peace
<1>1. PICK p : p = Resume(s)
  OBVIOUS
<1>2. /\ job[s] = "waiting" /\ UNCHANGED <<row, call, sent>>
      /\ drive'[s].at = "loop" /\ drive'[s].pos = Point(p.day, p.skip) /\ drive'[s].last = p.day
  BY <1>1 DEF Opened, TypeOK, Work, ghost
<1>3. drive[s].at = "idle" /\ row[s].at = "open" /\ row[s].day = None
  BY <1>2 DEF Slots, FaultFree
<1>4. p = plan[s] /\ Latest(p)
  BY <1>1, <1>3 DEF Resume, AtFrontier
<1>5. Alone'
  BY <1>2 DEF Alone
<1>6. \A t \in Seqs : drive[t].at \in {"idle", "ending"}
  BY <1>3 DEF FaultFree, Alone
<1>7. Untouched(Point(p.day, p.skip)) /\ (p.day = None => Unrecorded)
  <2>1. CASE Unrecorded /\ p.day = None
    BY <1>6, <2>1 DEF AtFrontier, Point
  <2>2. CASE \E m \in Seqs : Newest(m) /\ p.day = row[m].day /\ p.skip = row[m].skip
    BY <1>6, <2>2 DEF AtFrontier, Newest
  <2>3. QED BY <1>4, <2>1, <2>2 DEF Latest
<1>8. Untouched(drive[s].pos)'
  BY <1>2, <1>7, SameSent
<1>9. drive'[s].last = None => Unrecorded'
  BY <1>2, <1>7 DEF Unrecorded
<1>10. OnceEach'
  BY <1>2 DEF OnceEach
<1>11. QED BY <1>2, <1>3, <1>5, <1>8, <1>9, <1>10, Sole

LEMMA EndAtFrontier ==
  ASSUME Peace, NEW s \in Seqs, End(s)
  PROVE  Alone' /\ AtFrontier' /\ OnceEach'
<1> USE DEF Peace
<1>1. /\ drive[s].at = "ending" /\ drive'[s] = Asleep /\ UNCHANGED <<call, sent>>
      /\ \A t \in Seqs \ {s} : drive'[t] = drive[t]
  BY DEF End, TypeOK, ghost
<1>2. /\ row'[s].at = "ended"
      /\ \A t \in Seqs : /\ t # s => row'[t].at = row[t].at
                         /\ row'[t].day = row[t].day /\ row'[t].skip = row[t].skip
  BY DEF End, TypeOK, Session
<1>3. row[s].at = "open"
  BY <1>1 DEF FaultFree
<1>4. \A t \in Seqs : row'[t].at # "open"
  BY <1>2, <1>3 DEF Alone
<1>5. \A r \in Calls : call'[r].at # "create"
  BY <1>1, <1>3 DEF Alone
<1>6. Alone'
  BY <1>4, <1>5 DEF Alone
<1>7. \A t \in Seqs : drive'[t].at = "idle" /\ drive[t].at \in {"idle", "ending"}
  BY <1>1, <1>3, AsleepTyped DEF FaultFree, Alone
<1>8. /\ Unrecorded => Untouched(0)
      /\ \A t \in Seqs : Newest(t) => Untouched(Point(row[t].day, row[t].skip))
  BY <1>7 DEF AtFrontier
<1>9. /\ Unrecorded' => Untouched(0)'
      /\ \A t \in Seqs : Newest(t)' => Untouched(Point(row[t].day, row[t].skip))'
  BY <1>1, <1>2, <1>8, SameRows, SameSent
<1>10. AtFrontier'
  BY <1>4, <1>5, <1>7, <1>9 DEF AtFrontier, Driving, Looping
<1>11. QED BY <1>1, <1>6, <1>10 DEF OnceEach

(* Steps that leave rows, jobs' states and what was handed over alone, and  *)
(* bring no start to `create`.                                              *)
LEMMA RestAtFrontier ==
  ASSUME Peace, UNCHANGED <<drive, sent, row, plan>>,
         \A q \in Calls : call'[q].at = "create" => call'[q] = call[q]
  PROVE  Alone' /\ AtFrontier' /\ OnceEach'
<1> USE DEF Peace
<1>1. Alone'
  BY DEF Alone
<1>2. \A p : Latest(p)' <=> Latest(p)
  BY SameRows
<1>3. /\ \A t \in Seqs : Newest(t)' <=> Newest(t)
      /\ Unrecorded' <=> Unrecorded
  BY SameRows
<1>4. \A x : Untouched(x)' <=> Untouched(x)
  BY SameSent
<1>5. \A q \in Calls : call'[q].at = "create" => Latest(call'[q].from)
  BY DEF AtFrontier
<1>6. /\ \A q \in Calls : call'[q].at = "create" => Latest(call[q].from)'
      /\ \A t \in Seqs : row[t].at = "open" /\ drive[t].at = "idle" => Latest(plan[t])'
  BY <1>2, <1>5 DEF AtFrontier
<1>7. \A t \in Seqs :
        /\ drive[t].at \in Driving => Untouched(drive[t].pos)'
        /\ drive[t].at = "recording" => Untouched(Point(drive[t].last, drive[t].since))'
        /\ drive[t].at \in Driving \union {"recording"} /\ drive[t].last = None => Unrecorded'
  BY <1>3, <1>4 DEF AtFrontier
<1>8. (\A t \in Seqs : drive[t].at \in {"idle", "ending"}) =>
        /\ Unrecorded' => Untouched(0)'
        /\ \A t \in Seqs : Newest(t)' => Untouched(Point(row[t].day, row[t].skip))'
  BY <1>3, <1>4 DEF AtFrontier
<1>9. AtFrontier'
  BY <1>6, <1>7, <1>8 DEF AtFrontier
<1>10. QED BY <1>1, <1>9 DEF OnceEach

LEMMA ReadAtFrontier ==
  ASSUME Peace, ~early', NEW r \in Calls, ReadPrevious(r)
  PROVE  Alone' /\ AtFrontier' /\ OnceEach'
<1> DEFINE had == {s \in Seqs : row[s].day # None}
           p == CHOOSE s \in had : \A t \in had : t <= s
           from == IF had = {} THEN Nowhere
                   ELSE [src |-> p, day |-> row[p].day, skip |-> row[p].skip]
<1>1. call' = [call EXCEPT ![r].at = "create", ![r].from = from]
  BY DEF ReadPrevious
<1>2. Latest(from)
  <2>1. had # {} => p \in Seqs /\ Newest(p)
    BY PreviousIsNewest DEF Peace
  <2>2. had = {} => Unrecorded
    BY DEF Unrecorded
  <2> HIDE DEF had, p
  <2>3. CASE had = {}
    BY <2>2, <2>3 DEF Latest, Nowhere
  <2>4. CASE had # {}
    BY <2>1, <2>4 DEF Latest
  <2>5. QED BY <2>3, <2>4
<1> HIDE DEF from
<1>3. call'[r].from = from /\ \A q \in Calls \ {r} : call'[q] = call[q]
  BY <1>1 DEF Peace, TypeOK, Request
<1>4. /\ UNCHANGED <<row, plan, drive, sent>>
      /\ \A s \in Seqs : row[s].at # "open"
      /\ \A q \in Calls \ {r} : call[q].at # "create"
  BY DEF ReadPrevious, Peace
<1>5. Alone'
  BY <1>3, <1>4 DEF Alone
<1>6. \A s \in Seqs : drive[s].at = "idle"
  BY <1>4 DEF Peace, FaultFree
<1>7. /\ \A x : Latest(x)' <=> Latest(x)
      /\ \A t \in Seqs : Newest(t)' <=> Newest(t)
      /\ Unrecorded' <=> Unrecorded
      /\ \A x : Untouched(x)' <=> Untouched(x)
  BY <1>4, SameRows, SameSent
<1>8. \A q \in Calls : call'[q].at = "create" => Latest(call[q].from)'
  BY <1>2, <1>3, <1>4, <1>7
<1>9. /\ Unrecorded' => Untouched(0)'
      /\ \A t \in Seqs : Newest(t)' => Untouched(Point(row[t].day, row[t].skip))'
  BY <1>4, <1>6, <1>7 DEF Peace, AtFrontier
<1>10. AtFrontier'
  BY <1>4, <1>6, <1>8, <1>9 DEF AtFrontier, Driving, Looping
<1>11. QED BY <1>4, <1>5, <1>10 DEF OnceEach, Peace

LEMMA CreateAtFrontier ==
  ASSUME Peace, NEW r \in Calls, CreateSession(r)
  PROVE  Alone' /\ AtFrontier' /\ OnceEach'
<1> USE DEF Peace
<1>1. PICK s \in Seqs :
        /\ row[s].at = "none"
        /\ row' = [row EXCEPT ![s].at = "open"]
        /\ plan' = [plan EXCEPT ![s] = call[r].from]
        /\ call' = [call EXCEPT ![r].at = "current", ![r].seq = s]
  BY DEF CreateSession
<1>2. call[r].at = "create" /\ UNCHANGED <<drive, sent>>
  BY DEF CreateSession, ghost
<1>3. \A t \in Seqs : row[t].at # "open" /\ drive[t].at = "idle"
  BY <1>2 DEF Alone, FaultFree
<1>4. \A q \in Calls : call'[q].at # "create"
  BY <1>1, <1>2 DEF Alone, TypeOK, Request
<1>5. /\ row'[s].at = "open"
      /\ \A t \in Seqs : /\ t # s => row'[t].at = row[t].at
                         /\ row'[t].day = row[t].day /\ row'[t].skip = row[t].skip
  BY <1>1 DEF TypeOK, Session
<1>6. \A t \in Seqs : t > s => row'[t].at = "none"
  BY <1>1, <1>5, Numbers DEF Slots
<1>7. Alone'
  BY <1>3, <1>4, <1>5, <1>6 DEF Alone
<1>8. Latest(plan'[s])
  BY <1>1, <1>2 DEF AtFrontier, TypeOK
<1>9. /\ \A x : Latest(x)' <=> Latest(x)
      /\ \A t \in Seqs : Newest(t)' <=> Newest(t)
      /\ Unrecorded' <=> Unrecorded
      /\ \A x : Untouched(x)' <=> Untouched(x)
  BY <1>2, <1>5, SameRows, SameSent
<1>10. \A t \in Seqs : row'[t].at = "open" => Latest(plan[t])'
  BY <1>3, <1>5, <1>8, <1>9
<1>11. /\ Unrecorded => Untouched(0)
       /\ \A t \in Seqs : Newest(t) => Untouched(Point(row[t].day, row[t].skip))
  BY <1>3 DEF AtFrontier
<1>12. /\ Unrecorded' => Untouched(0)'
       /\ \A t \in Seqs : Newest(t)' => Untouched(Point(row[t].day, row[t].skip))'
  BY <1>5, <1>9, <1>11
<1>13. AtFrontier'
  BY <1>2, <1>3, <1>4, <1>10, <1>12 DEF AtFrontier, Driving, Looping
<1>14. QED BY <1>2, <1>7, <1>13 DEF OnceEach

LEMMA PeaceKept ==
  ASSUME Peace, FaultFree', faults' = 0, ~early', [Next]_vars
  PROVE  Alone' /\ AtFrontier' /\ OnceEach'
<1> DEFINE Goal == Alone' /\ AtFrontier' /\ OnceEach'
<1> SUFFICES Goal
  OBVIOUS
<1>1. ASSUME NEW r \in Calls,
             \/ \E to \in {"paused", "streaming", "stopped"} : Ask(r, to)
             \/ AskStart(r) \/ WriteState(r) \/ SetCurrent(r) \/ SetStreaming(r) \/ Enqueue(r)
      PROVE  Goal
  <2>1. UNCHANGED <<drive, sent, row, plan>>
    BY <1>1 DEF Ask, AskStart, WriteState, SetCurrent, SetStreaming, Enqueue, ghost
  <2>2. \A q \in Calls : call'[q].at = "create" => call'[q] = call[q]
    <3>1. CASE WriteState(r) \/ Enqueue(r)
      BY <3>1 DEF WriteState, Enqueue, Peace, TypeOK, Made, Unmade
    <3>2. CASE SetCurrent(r) \/ SetStreaming(r)
      BY <3>2, CallsSet DEF Peace, Creating
    <3>3. CASE AskStart(r) \/ \E to \in {"paused", "streaming", "stopped"} : Ask(r, to)
      BY <3>3 DEF Ask, AskStart, Peace, TypeOK, Request
    <3>4. QED BY <1>1, <3>1, <3>2, <3>3
  <2>3. QED BY <2>1, <2>2, RestAtFrontier
<1>2. ASSUME NEW r \in Calls, ReadPrevious(r) PROVE Goal
  BY <1>2, ReadAtFrontier
<1>3. ASSUME NEW r \in Calls, CreateSession(r) PROVE Goal
  BY <1>3, CreateAtFrontier
<1>4. ASSUME NEW s \in Seqs, Moves(s) PROVE Goal
  BY <1>4, MoveAtFrontier
<1>5. ASSUME NEW s \in Seqs, Opened(s) PROVE Goal
  BY <1>5, OpenAtFrontier
<1>6. ASSUME NEW s \in Seqs, End(s) PROVE Goal
  BY <1>6, EndAtFrontier
<1>7. ASSUME NEW s \in Seqs, NotOpened(s) PROVE Goal
  <2>1. UNCHANGED <<drive, sent, row, plan, call>>
    BY <1>7 DEF NotOpened, ThrownEarly, ghost
  <2>2. QED BY <2>1, RestAtFrontier
<1>8. ASSUME NEW s \in Seqs PROVE ~Unreachable(s)
  BY DEF Unreachable, Fault, Peace
<1>9. CASE Restart \/ Reconcile
  BY <1>9 DEF Restart, Fault, Reconcile, FaultFree, Peace
<1>10. CASE UNCHANGED vars
  <2>1. UNCHANGED <<drive, sent, row, plan, call>>
    BY <1>10 DEF vars, ghost
  <2>2. QED BY <2>1, RestAtFrontier
<1> HIDE DEF Goal
<1>11. ASSUME NEW s \in Seqs, Drive(s) \/ Thread(s) \/ Unreachable(s) \/ Thrown(s) \/ Trip(s)
       PROVE  Goal
  BY <1>4, <1>5, <1>6, <1>7, <1>8, <1>11 DEF Drive, Moves
<1>12. ASSUME NEW r \in Calls, Serve(r) PROVE Goal
  BY <1>1, <1>2, <1>3, <1>12 DEF Serve
<1>13. QED BY <1>1, <1>9, <1>10, <1>11, <1>12 DEF Next

LEMMA FrontierKept ==
  ASSUME TypeOK, Ordered, Slots, Positions, Frontier, [Next]_vars
  PROVE  Frontier'
<1>1. faults' = 0 => faults = 0 /\ FaultFree'
  BY CalmBefore, FaultFreeKept DEF Frontier
<1>2. ASSUME faults' = 0, ~early' PROVE Alone' /\ AtFrontier' /\ OnceEach'
  <2>1. Peace
    BY <1>1, <1>2, CalmBefore DEF Peace, Frontier, OnceEach
  <2>2. QED BY <1>1, <1>2, <2>1, PeaceKept
<1>3. QED BY <1>1, <1>2 DEF Frontier, OnceEach

LEMMA FrontierAtInit == Init => Frontier
<1> SUFFICES ASSUME Init PROVE Frontier
  OBVIOUS
<1>1. /\ \A s \in Seqs : /\ drive[s] = Asleep /\ row[s].day = None /\ plan[s] = Nowhere
                         /\ row[s].at = "open" <=> s = 1
                         /\ row[s].at = "none" <=> s # 1
                         /\ job[s] = "waiting" <=> s = 1
      /\ \A r \in Calls : call[r].at = "idle"
      /\ boot.at = "idle" /\ sent = [p \in 0..(Total - 1) |-> 0]
  BY DEF Init, Unmade
<1>2. Asleep.at = "idle" /\ ~Asleep.broken
  BY DEF Asleep
<1>3. FaultFree
  BY <1>1, <1>2 DEF FaultFree, Creating
<1>4. Alone
  BY <1>1, Numbers DEF Alone
<1>5. Unrecorded /\ Latest(Nowhere) /\ Untouched(0)
  BY <1>1 DEF Unrecorded, Latest, Nowhere, Untouched
<1>6. \A s \in Seqs : ~Newest(s)
  BY <1>1 DEF Newest
<1>7. AtFrontier
  BY <1>1, <1>2, <1>5, <1>6 DEF AtFrontier, Driving, Looping
<1>8. \A p \in 0..(Total - 1) : sent[p] <= 1
  BY <1>1
<1>9. QED BY <1>3, <1>4, <1>7, <1>8 DEF Frontier

(* Without faults and overlapping starts, whoever has the stream is where   *)
(* nothing further was handed over.                                         *)
THEOREM FrontierHeld == Spec => []Frontier
<1>1. Init => Frontier
  BY FrontierAtInit
<1>2. TypeOK /\ Ordered /\ (Slots /\ Positions) /\ Frontier /\ [Next]_vars => Frontier'
  BY FrontierKept
<1>3. QED BY <1>1, <1>2, TypeCorrect, RecordsOrdered, PositionsCovered, PTL DEF Spec

(* NoRepeats: without a fault, and when every start came after the last     *)
(* session had recorded its end, a new session continues from where the     *)
(* last one left off and hands nothing over again.                          *)
THEOREM ContinuesWithoutRepeats == Spec => []NoRepeats
<1>1. Frontier => NoRepeats
  BY DEF Frontier, NoRepeats
<1>2. QED BY <1>1, FrontierHeld, PTL

-----------------------------------------------------------------------------
(* The checkpoints.                                                         *)

(* Of a job d of session s with files f: those from the day it is in, or    *)
(* will take first, up to the thread's are whole.                           *)
Whole(d, f) ==
  d.at \in Driving =>
    /\ d.seen # None => d.seen <= d.head
    /\ \A e \in Days : e <= d.head /\ e >= (IF d.seen = None THEN d.pos \div DayLength ELSE d.seen)
                         => f[e] = "whole"

(* What a session that published keeps until it is over, and after.         *)
Keeps(s) ==
  /\ job[s] \notin {"none", "waiting"}
  /\ drive[s].at \in Driving => drive[s].seen # None
  /\ drive[s].at \in {"recording", "ending"} =>
       drive[s].last # None /\ file[s][drive[s].last] = "whole"
  /\ drive[s].at = "ending" => row[s].day = drive[s].last
  /\ drive[s].at = "idle" => row[s].day # None /\ file[s][row[s].day] = "whole"

Checkpoints ==
  faults = 0 => /\ \A s \in Seqs : Whole(drive[s], file[s])
                /\ \A s \in published : Keeps(s)

LEMMA SameKeeps ==
  ASSUME NEW t, drive'[t] = drive[t], file'[t] = file[t], row'[t].day = row[t].day,
         job[t] \notin {"none", "waiting"} => job'[t] \notin {"none", "waiting"}
  PROVE  /\ Whole(drive[t], file[t]) => Whole(drive[t], file[t])'
         /\ Keeps(t) => Keeps(t)'
BY DEF Whole, Keeps

(* A step of one session leaves the others what they have. *)
LEMMA OthersKeep ==
  ASSUME TypeOK, Checkpoints, faults = 0, NEW s \in Seqs,
         \A t \in Seqs \ {s} : /\ drive'[t] = drive[t] /\ file'[t] = file[t]
                               /\ row'[t].day = row[t].day /\ job'[t] = job[t],
         published' \subseteq published \union {s},
         Whole(drive[s], file[s])', s \in published' => Keeps(s)'
  PROVE  Checkpoints'
<1>1. ASSUME NEW t \in Seqs PROVE Whole(drive[t], file[t])'
  BY SameKeeps DEF Checkpoints
<1>2. ASSUME NEW t \in published' PROVE Keeps(t)'
  <2>1. t = s \/ (t \in Seqs \ {s} /\ t \in published)
    BY <1>2 DEF TypeOK
  <2>2. QED BY <2>1, <1>2, SameKeeps DEF Checkpoints
<1>3. QED BY <1>1, <1>2 DEF Checkpoints

(* The thread writes past what has been written. *)
LEMMA WholeThread ==
  ASSUME TypeOK, NEW s \in Seqs, Whole(drive[s], file[s]), Thread(s)
  PROVE  Whole(drive[s], file[s])' /\ drive[s].at \in Driving
<1> DEFINE d == drive[s]
<1>1. /\ d.pos \in Nat /\ d.head \in Nat \union {None} /\ d.seen \in DayOrNone
      /\ file[s] \in [Days -> {"none", "torn", "whole"}] /\ d.pos \div DayLength \in Nat
  BY DayOf DEF TypeOK, Work
<1>2. PICK k : k = NextDay(s)
  OBVIOUS
<1>3. /\ k \in Nat
      /\ d.head = None => k = d.pos \div DayLength
      /\ d.head # None => k = d.head + 1
  BY <1>1, <1>2 DEF NextDay
<1>4. /\ d.at \in Driving /\ drive'[s].at = d.at /\ drive'[s].pos = d.pos /\ drive'[s].seen = d.seen
      /\ \/ drive'[s].head = d.head
            /\ file'[s] = [file[s] EXCEPT ![k] = "torn"]
         \/ drive'[s].head = k /\ file'[s] = [file[s] EXCEPT ![k] = "whole"]
  <2>1. CASE BeginWrite(s)
    BY <1>2, <2>1 DEF BeginWrite, Running, TypeOK, Work, Driving, Looping
  <2>2. CASE EndWrite(s)
    BY <1>2, <2>2 DEF EndWrite, Running, TypeOK, Work, Driving, Looping
  <2>3. QED BY <2>1, <2>2 DEF Thread
<1>5. /\ d.seen # None => d.seen <= d.head
      /\ \A e \in Days : e <= d.head /\ e >= (IF d.seen = None THEN d.pos \div DayLength ELSE d.seen)
                           => file[s][e] = "whole"
  BY <1>4 DEF Whole
<1>6. d.head = None => d.seen = None
  <2>1. d.seen # None => d.seen \in Nat /\ d.seen <= d.head
    BY <1>1, <1>5, Numbers DEF DayOrNone
  <2>2. None = -1
    BY Numbers
  <2>3. QED BY <2>1, <2>2
<1>7. CASE drive'[s].head = d.head /\ file'[s] = [file[s] EXCEPT ![k] = "torn"]
  <2>1. \A e \in Days : e <= d.head => e # k
    BY <1>1, <1>3, Numbers
  <2>2. QED BY <1>1, <1>4, <1>5, <1>7, <2>1 DEF Whole
<1>8. CASE drive'[s].head = k /\ file'[s] = [file[s] EXCEPT ![k] = "whole"]
  <2>1. d.seen # None => d.seen <= k
    <3>1. d.seen # None => d.seen \in Nat /\ d.seen <= d.head /\ d.head # None
      BY <1>1, <1>5, <1>6, Numbers DEF DayOrNone
    <3>2. QED BY <1>1, <1>3, <3>1
  <2>2. ASSUME NEW e \in Days, e <= k, e >= (IF d.seen = None THEN d.pos \div DayLength ELSE d.seen)
        PROVE  file'[s][e] = "whole"
    <3>1. CASE e = k
      BY <1>1, <1>8, <3>1
    <3>2. CASE e # k
      <4>1. d.head # None /\ e <= d.head
        BY <1>1, <1>3, <1>6, <2>2, <3>2, Numbers
      <4>2. QED BY <1>1, <1>5, <1>8, <2>2, <3>2, <4>1
    <3>3. QED BY <3>1, <3>2
  <2>3. QED BY <1>4, <1>8, <2>1, <2>2 DEF Whole
<1>9. QED BY <1>4, <1>7, <1>8

(* The chunk taken is of a day that was written; only older ones go. *)
LEMMA WholeTake ==
  ASSUME TypeOK, Positions, NEW s \in Seqs, Whole(drive[s], file[s]), NEW n \in 1..DayLength, Take(s, n)
  PROVE  Whole(drive[s], file[s])' /\ drive'[s].at \in Driving /\ drive'[s].seen # None
<1> DEFINE d == drive[s]
<1>1. PICK k : k = d.pos \div DayLength
  OBVIOUS
<1>2. /\ d \in Work /\ d.pos \in Nat /\ d.head \in Nat \union {None} /\ d.seen \in DayOrNone
      /\ d.since \in Nat /\ file[s] \in [Days -> {"none", "torn", "whole"}] /\ k \in Nat
      /\ DayLength \in Nat
  BY <1>1, DayOf, Numbers DEF TypeOK, Work
<1>3. /\ drive'[s].at = "handling" /\ drive'[s].seen = k /\ drive'[s].pos = d.pos
      /\ drive'[s].head = d.head /\ d.at = "taking" /\ k <= d.head
  BY <1>1, Taken
<1>4. /\ d.seen # None => d.seen <= d.head
      /\ \A e \in Days : e <= d.head /\ e >= (IF d.seen = None THEN k ELSE d.seen)
                           => file[s][e] = "whole"
  BY <1>1, <1>3 DEF Whole, Driving, Looping
<1>5. d.seen # None => d.seen <= k
  <2> SUFFICES ASSUME d.seen # None PROVE d.seen <= k
    OBVIOUS
  <2>1. d.last = d.seen /\ d.last * DayLength + d.since + d.size = d.pos + d.left
        /\ d.size = 0 /\ d.left = 0
    BY <1>3 DEF Positions, InStep, Driving, Looping
  <2>2. d.seen \in Nat
    BY <1>2, Numbers DEF DayOrNone
  <2>3. d.seen * DayLength \in Nat
    BY <1>2, <2>2
  <2>4. d.seen * DayLength <= d.pos
    BY <1>2, <2>1, <2>3
  <2>5. QED BY <1>1, <1>2, <2>2, <2>4, DayOf
<1>6. \A e \in Days : e >= k => file'[s][e] = file[s][e]
  <2>1. CASE d.seen # k
    <3>1. file' = [file EXCEPT ![s] = [e \in Days |-> IF e < k - 1 THEN "none" ELSE file[s][e]]]
      BY <1>1, <2>1 DEF Take, Pruned
    <3>2. file'[s] = [e \in Days |-> IF e < k - 1 THEN "none" ELSE file[s][e]]
      BY <3>1 DEF TypeOK
    <3>3. QED BY <1>2, <3>2, Numbers
  <2>2. CASE d.seen = k
    BY <1>1, <2>2 DEF Take
  <2>3. QED BY <2>1, <2>2
<1>7. k # None
  BY <1>2, Numbers
<1>8. ASSUME NEW e \in Days, e <= d.head, e >= k PROVE file'[s][e] = "whole"
  <2>1. e >= (IF d.seen = None THEN k ELSE d.seen)
    BY <1>2, <1>5, <1>8, Numbers DEF DayOrNone
  <2>2. QED BY <1>4, <1>6, <1>8, <2>1
<1>9. QED BY <1>3, <1>7, <1>8 DEF Whole, Driving, Looping

(* A session in its last steps keeps the day it recorded, and that day's    *)
(* checkpoint.                                                              *)
LEMMA KeepsAtClose ==
  ASSUME TypeOK, Positions, NEW s \in Seqs, Whole(drive[s], file[s]), Keeps(s), Close(s),
         UNCHANGED job
  PROVE  Keeps(s)'
<1> DEFINE d == drive[s]
<1>1. PICK k : k = d.last
  OBVIOUS
<1>2. d.at \in Driving /\ d.seen # None /\ d.head \in Nat \union {None} /\ d.seen \in DayOrNone
  BY DEF Keeps, Close, Driving, TypeOK, Work
<1>3. d.seen = k /\ k # None
  BY <1>1, <1>2 DEF Positions, InStep
<1>4. k \in Days /\ k \in Nat
  BY <1>2, <1>3, Numbers DEF DayOrNone
<1>5. file[s][k] = "whole"
  BY <1>2, <1>3, <1>4 DEF Whole
<1>6. file' = [file EXCEPT ![s] = [e \in Days |-> IF e \in (k - 1)..k THEN file[s][e] ELSE "none"]]
  BY <1>1, <1>3 DEF Close, Trimmed
<1>7. file'[s] = [e \in Days |-> IF e \in (k - 1)..k THEN file[s][e] ELSE "none"]
  BY <1>6 DEF TypeOK
<1>8. k \in (k - 1)..k
  BY <1>4
<1>9. file'[s][k] = "whole"
  BY <1>4, <1>5, <1>7, <1>8
<1>10. drive'[s].at = "recording" /\ drive'[s].last = k
  BY <1>1 DEF Close, TypeOK, Work, Asleep
<1>11. QED BY <1>3, <1>9, <1>10 DEF Keeps, Driving, Looping

LEMMA CheckpointsMove ==
  ASSUME TypeOK, Slots, Positions, FaultFree, faults = 0, faults' = 0, Checkpoints,
         NEW s \in Seqs, Moves(s)
  PROVE  Checkpoints'
<1> DEFINE Goal == Checkpoints'
<1> SUFFICES Goal
  OBVIOUS
<1>1. /\ Whole(drive[s], file[s])
      /\ s \in published => Keeps(s)
  BY DEF Checkpoints
<1>2. job[s] = "active" /\ UNCHANGED job /\ \A t \in Seqs \ {s} : drive'[t] = drive[t]
  BY Moving DEF Slots
<1>3. \A t \in Seqs \ {s} : row'[t] = row[t]
  BY RowsOfMove
<1>4. ASSUME \A t \in Seqs \ {s} : file'[t] = file[t], published' \subseteq published \union {s},
             Whole(drive[s], file[s])', s \in published' => Keeps(s)'
      PROVE  Goal
  BY <1>2, <1>3, <1>4, OthersKeep
<1>5. ASSUME drive'[s].at \in Driving, drive'[s].seen # None
      PROVE  Keeps(s)'
  BY <1>2, <1>5 DEF Keeps, Driving, Looping
<1>6. s \in published /\ drive[s].at \in Driving => drive[s].seen # None
  BY <1>1 DEF Keeps
<1> HIDE DEF Goal
<1>7. CASE Leave(s) \/ Tokens(s) \/ Tick(s) \/ Report(s) \/ Progress(s)
  <2>1. /\ UNCHANGED <<file, published>> /\ drive[s].at \in Driving /\ drive'[s].at \in Driving
        /\ drive'[s].pos = drive[s].pos /\ drive'[s].seen = drive[s].seen
        /\ drive'[s].head = drive[s].head
    <3>1. CASE Report(s)
      BY <3>1 DEF Report, TypeOK, Work, Driving, Looping, ghost
    <3>2. CASE Leave(s) \/ Tokens(s) \/ Tick(s) \/ Progress(s)
      <4>1. PICK at \in Driving : GoTo(s, at)
        BY <3>2 DEF Leave, Tokens, Tick, Progress, Driving, Looping
      <4>2. /\ drive'[s].at = at /\ drive'[s].pos = drive[s].pos /\ drive'[s].seen = drive[s].seen
            /\ drive'[s].head = drive[s].head
        BY <4>1 DEF GoTo, TypeOK, Work
      <4>3. UNCHANGED <<file, published>> /\ drive[s].at \in Driving
        BY <3>2 DEF Leave, Tokens, Tick, Progress, Driving, Looping, ghost
      <4>4. QED BY <4>1, <4>2, <4>3
    <3>3. QED BY <1>7, <3>1, <3>2
  <2>2. Whole(drive[s], file[s])'
    BY <1>1, <2>1 DEF Whole
  <2>3. s \in published' => Keeps(s)'
    BY <1>5, <1>6, <2>1
  <2>4. QED BY <1>4, <2>1, <2>2, <2>3
<1>8. CASE Thread(s)
  <2>1. Whole(drive[s], file[s])' /\ drive[s].at \in Driving
    BY <1>1, <1>8, WholeThread
  <2>2. /\ UNCHANGED published /\ \A t \in Seqs \ {s} : file'[t] = file[t]
        /\ drive'[s].at = drive[s].at /\ drive'[s].seen = drive[s].seen
    BY <1>8 DEF Thread, BeginWrite, EndWrite, TypeOK, Work, ghost
  <2>3. s \in published' => Keeps(s)'
    BY <1>5, <1>6, <2>1, <2>2
  <2>4. QED BY <1>4, <2>1, <2>2, <2>3
<1>9. ASSUME NEW n \in 1..DayLength, Take(s, n) PROVE Goal
  <2>1. Whole(drive[s], file[s])' /\ drive'[s].at \in Driving /\ drive'[s].seen # None
    BY <1>1, <1>9, WholeTake
  <2>2. UNCHANGED published
    BY <1>9 DEF Take, ghost
  <2>3. \A t \in Seqs \ {s} : file'[t] = file[t]
    BY <1>9 DEF Take, Pruned, TypeOK
  <2>4. QED BY <1>4, <1>5, <2>1, <2>2, <2>3
<1>10. CASE Submit(s)
  <2>1. /\ drive'[s].seen = drive[s].seen /\ drive'[s].head = drive[s].head
        /\ drive[s].at = "handling" /\ drive'[s].at \in {"handling", "stats", "taking"}
    BY <1>10, Submitted
  <2>2. UNCHANGED file /\ published' = published \union {s}
    BY <1>10 DEF Submit
  <2>3. drive[s].seen # None
    BY <2>1 DEF Positions, InStep
  <2>4. Whole(drive[s], file[s])' /\ Keeps(s)'
    BY <1>1, <1>5, <2>1, <2>2, <2>3 DEF Whole, Driving, Looping
  <2>5. QED BY <1>4, <2>2, <2>4
<1>11. CASE Close(s)
  <2>1. drive'[s].at = "recording" /\ UNCHANGED published
    BY <1>11 DEF Close, TypeOK, Work, Asleep, ghost
  <2>2. \A t \in Seqs \ {s} : file'[t] = file[t]
    BY <1>11 DEF Close, Trimmed, TypeOK
  <2>3. Whole(drive[s], file[s])'
    BY <2>1 DEF Whole, Driving, Looping
  <2>4. s \in published' => Keeps(s)'
    BY <1>1, <1>2, <1>11, <2>1, KeepsAtClose
  <2>5. QED BY <1>4, <2>1, <2>2, <2>3, <2>4
<1>12. CASE RecordFinal(s)
  <2>1. /\ drive[s].at = "recording" /\ drive'[s].at = "ending" /\ drive'[s].last = drive[s].last
        /\ UNCHANGED <<file, published>> /\ Recorded(s)
    BY <1>12 DEF RecordFinal, GoTo, TypeOK, Work, ghost
  <2>2. Whole(drive[s], file[s])'
    BY <2>1 DEF Whole, Driving, Looping
  <2>3. ASSUME s \in published' PROVE Keeps(s)'
    <3>1. drive[s].last # None /\ file[s][drive[s].last] = "whole"
      BY <1>1, <2>1, <2>3 DEF Keeps
    <3>2. row'[s].day = drive[s].last
      BY <2>1, <3>1 DEF Recorded, TypeOK, Session
    <3>3. QED BY <1>2, <2>1, <3>1, <3>2 DEF Keeps, Driving, Looping
  <2>4. QED BY <1>4, <2>1, <2>2, <2>3
<1>13. ~Thrown(s) /\ ~Trip(s)
  BY DEF Thrown, Trip, Fault, FaultFree
<1>14. QED BY <1>7, <1>8, <1>9, <1>10, <1>11, <1>12, <1>13 DEF Moves

LEMMA CheckpointsKept ==
  ASSUME TypeOK, Ordered, Slots, Positions, Frontier, Checkpoints, [Next]_vars
  PROVE  Checkpoints'
<1> DEFINE Goal == Checkpoints'
<1>1. CASE faults' # 0
  BY <1>1 DEF Checkpoints
<1>2. CASE faults' = 0
  <2>1. faults = 0 /\ FaultFree
    BY <1>2, CalmBefore DEF Frontier
  <2>2. ASSUME UNCHANGED <<drive, file, published>>,
               \A t \in Seqs : row'[t].day = row[t].day,
               \A t \in Seqs : job[t] \notin {"none", "waiting"} => job'[t] \notin {"none", "waiting"}
        PROVE  Goal
    <3>1. published \subseteq Seqs
      BY DEF TypeOK
    <3>2. QED BY <2>1, <2>2, <3>1, SameKeeps DEF Checkpoints
  <2>3. ASSUME NEW r \in Calls,
               \/ \E to \in {"paused", "streaming", "stopped"} : Ask(r, to)
               \/ AskStart(r) \/ WriteState(r) \/ ReadPrevious(r) \/ SetCurrent(r) \/ SetStreaming(r)
        PROVE  Goal
    <3>1. UNCHANGED <<drive, file, published, row, job>>
      BY <2>3 DEF Ask, AskStart, WriteState, ReadPrevious, SetCurrent, SetStreaming, ghost
    <3> HIDE DEF Goal
    <3>2. QED BY <2>2, <3>1
  <2>4. ASSUME NEW r \in Calls, CreateSession(r) PROVE Goal
    <3>1. UNCHANGED <<drive, file, published, job>> /\ \A t \in Seqs : row'[t].day = row[t].day
      BY <2>4 DEF CreateSession, TypeOK, Session, ghost
    <3> HIDE DEF Goal
    <3>2. QED BY <2>2, <3>1
  <2>5. ASSUME NEW r \in Calls, Enqueue(r) PROVE Goal
    <3>1. call[r].seq \in Seqs /\ job[call[r].seq] = "none"
      BY <2>5 DEF Enqueue, Slots, TypeOK, Creating
    <3>2. UNCHANGED <<drive, file, published, row>>
      BY <2>5 DEF Enqueue, ghost
    <3>3. \A t \in Seqs : job[t] \notin {"none", "waiting"} => job'[t] = job[t]
      BY <2>5, <3>1 DEF Enqueue, TypeOK
    <3> HIDE DEF Goal
    <3>4. QED BY <2>2, <3>2, <3>3
  <2>6. ASSUME NEW s \in Seqs, Moves(s) PROVE Goal
    BY <1>2, <2>1, <2>6, CheckpointsMove
  <2>7. ASSUME NEW s \in Seqs, Opened(s) PROVE Goal
    <3>1. /\ job[s] = "waiting" /\ UNCHANGED <<file, published, row>>
          /\ \A t \in Seqs \ {s} : drive'[t] = drive[t] /\ job'[t] = job[t]
          /\ drive'[s].seen = drive[s].seen /\ drive'[s].head = drive[s].head
      BY <2>7 DEF Opened, TypeOK, Work, ghost
    <3>2. drive[s] = Asleep /\ s \notin published
      BY <2>1, <3>1 DEF Slots, Checkpoints, Keeps
    <3>3. drive'[s].seen = None /\ drive'[s].head = None
      BY <3>1, <3>2 DEF Asleep
    <3>4. \A e \in Days : ~(e <= None)
      BY Numbers
    <3>5. Whole(drive[s], file[s])'
      BY <3>3, <3>4 DEF Whole
    <3>6. QED BY <2>1, <3>1, <3>2, <3>5, OthersKeep
  <2>8. ASSUME NEW s \in Seqs, NotOpened(s) PROVE Goal
    <3>1. UNCHANGED <<drive, file, published, row>>
      BY <2>8 DEF NotOpened, ThrownEarly, ghost
    <3>2. \A t \in Seqs : job'[t] \in {job[t], "failed"}
      BY <2>8 DEF NotOpened, ThrownEarly, TypeOK
    <3> HIDE DEF Goal
    <3>3. QED BY <2>2, <3>1, <3>2
  <2>9. ASSUME NEW s \in Seqs, End(s) PROVE Goal
    <3>1. /\ drive[s].at = "ending" /\ drive'[s] = Asleep /\ UNCHANGED <<file, published>>
          /\ \A t \in Seqs \ {s} : drive'[t] = drive[t] /\ job'[t] = job[t]
          /\ job'[s] \in {"failed", "completed"}
      BY <2>9 DEF End, TypeOK, ghost
    <3>2. row'[s].day = row[s].day /\ \A t \in Seqs \ {s} : row'[t] = row[t]
      BY <2>9 DEF End, TypeOK, Session
    <3>3. Whole(drive[s], file[s])'
      BY <3>1, AsleepTyped DEF Whole, Driving, Looping
    <3>4. s \in published => Keeps(s)'
      <4>1. s \in published => Keeps(s)
        BY <2>1 DEF Checkpoints
      <4>2. QED BY <3>1, <3>2, <4>1, AsleepTyped DEF Keeps, Driving, Looping
    <3>5. QED BY <2>1, <3>1, <3>2, <3>3, <3>4, OthersKeep
  <2>10. ~Restart /\ ~Reconcile /\ \A s \in Seqs : ~Unreachable(s)
    BY <1>2, <2>1 DEF Restart, Reconcile, Unreachable, Fault, FaultFree
  <2>11. ASSUME UNCHANGED vars PROVE Goal
    <3>1. UNCHANGED <<drive, file, published, row, job>>
      BY <2>11 DEF vars, ghost
    <3> HIDE DEF Goal
    <3>2. QED BY <2>2, <3>1
  <2> HIDE DEF Goal
  <2>12. ASSUME NEW s \in Seqs, Drive(s) \/ Thread(s) \/ Unreachable(s) \/ Thrown(s) \/ Trip(s)
         PROVE  Goal
    BY <2>6, <2>7, <2>8, <2>9, <2>10, <2>12 DEF Drive, Moves
  <2>13. ASSUME NEW r \in Calls, Serve(r) PROVE Goal
    BY <2>3, <2>4, <2>5, <2>13 DEF Serve
  <2>14. Goal
    BY <2>3, <2>10, <2>11, <2>12, <2>13 DEF Next
  <2>15. QED BY <2>14 DEF Goal
<1>3. QED BY <1>1, <1>2

LEMMA CheckpointsAtInit == Init => Checkpoints
<1> SUFFICES ASSUME Init PROVE Checkpoints
  OBVIOUS
<1>1. published = {} /\ \A s \in Seqs : drive[s].at = "idle"
  BY AsleepTyped DEF Init
<1>2. QED BY <1>1 DEF Checkpoints, Whole, Driving, Looping

(* PublishedResumable: a session that handed anything over and ends without *)
(* a fault leaves the checkpoint its position names, whole: neither the     *)
(* thread writing ahead of it, nor the pruning while it runs, nor the       *)
(* trimming at its end takes that file away.                                *)
THEOREM LeavesACheckpoint == Spec => []PublishedResumable
<1>1. Init => Checkpoints
  BY CheckpointsAtInit
<1>2. TypeOK /\ Ordered /\ (Slots /\ Positions) /\ Frontier /\ Checkpoints /\ [Next]_vars
        => Checkpoints'
  BY CheckpointsKept
<1>3. TypeOK /\ Frontier /\ Checkpoints => PublishedResumable
  <2> SUFFICES ASSUME TypeOK, Frontier, Checkpoints, faults = 0, NEW s \in published,
                      row[s].at = "ended"
               PROVE  row[s].day # None /\ file[s][row[s].day] = "whole"
    BY DEF PublishedResumable
  <2>1. s \in Seqs /\ Keeps(s)
    BY DEF TypeOK, Checkpoints
  <2>2. drive[s].at = "idle"
    BY <2>1 DEF Frontier, FaultFree
  <2>3. QED BY <2>1, <2>2 DEF Keeps
<1>4. QED BY <1>1, <1>2, <1>3, TypeCorrect, RecordsOrdered, PositionsCovered, FrontierHeld,
             PTL DEF Spec

=============================================================================
