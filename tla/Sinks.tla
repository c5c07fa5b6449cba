-------------------------------- MODULE Sinks --------------------------------
(***************************************************************************)
(* The three broker sinks behind DeliveryPump (packages/sinks/src): what   *)
(* publish, waitForCapacity and close do to the client's connections, and  *)
(* what a delivery's publish settles with.  One sink is modelled, of any   *)
(* kind: KafkaSink, RabbitMqSink or WebhookSink.                           *)
(*                                                                         *)
(* The clients are external (librdkafka, amqplib, fetch) and do what the   *)
(* sinks rely on: a publish that returns false is followed by one `drain`; *)
(* an alarm at the broker blocks a connection and its confirms; a channel  *)
(* or a connection that closes fails the confirms that are pending on it   *)
(* and emits `close`.  Deliveries are the pump's attempts: new ones look   *)
(* at `saturated` first, retries do not (pump.ts, submit and dispatch).    *)
(* A definition marked "slip" is not part of the model (see                *)
(* PartitionWorld).                                                        *)
(***************************************************************************)
EXTENDS Integers, FiniteSets

CONSTANTS
  Attempts,   (* publishes the pump asks for                               *)
  Conns,      (* bound: connections the RabbitMQ client may open, 1..n     *)
  Faults      (* bound on alarms, lost connections, closed channels        *)

ASSUME SinksAssumption == IsFiniteSet(Attempts) /\ Conns \in Nat /\ Faults \in Nat

VARIABLES
  kind,       (* "kafka", "rabbitmq" or "webhook"                          *)
  probe,      (* "none": the sink delivers; else it serves one test of     *)
              (* its connection: "asked", "connect", "admin" (Kafka's      *)
              (* second client connects), "ask", "closing", "over"         *)
  stands,     (* where each attempt stands, see Stations                   *)
  on,         (* the connection an attempt waits for or is published on    *)
  connected, connecting,                    \* KafkaSink, RabbitMqSink
  client,     (* librdkafka's clients, a producer and a test's admin:      *)
              (* "none", "open" (connecting or connected), "failed" (its   *)
              (* connect was rejected), "closed" (disconnect was called)   *)
  full, blocked, connection, channel,       \* RabbitMqSink
  amqp,       (* each connection at the broker's end: see Dead             *)
  opening,    (* the connection RabbitMqSink.connect is setting up         *)
  used,       (* connections opened so far                                 *)
  signal,     (* the pump's abort signal                                   *)
  closed,     (* close() was called                                        *)
  lost,       (* history: connections left open without their channel      *)
  faults      (* bound counter                                             *)

rabbit   == <<full, blocked, connection, channel, amqp, opening, used, lost>>
kafka    == <<connected, client>>
sinkVars == <<kind, probe, stands, on, kafka, connecting, rabbit, signal, closed, faults>>

(* "alarm" and "drain": in waitForCapacity; "go": publish is called next;   *)
(* "connect": awaits the connection; "flight": published, unconfirmed.      *)
Waiting  == {"alarm", "drain"}
Open     == {"go", "connect", "flight"}
Stations == {"new"} \union Waiting \union Open \union {"ok", "failed", "refused"}

None == 0
Ids  == 1..Conns
Dead == [up |-> FALSE, chan |-> FALSE, alarm |-> FALSE, buffer |-> FALSE]

SinkInit ==
  /\ kind \in {"kafka", "rabbitmq", "webhook"} /\ probe \in {"none", "asked"}
  /\ stands = [i \in Attempts |-> "new"] /\ on = [i \in Attempts |-> None]
  /\ connected = FALSE /\ connecting = FALSE /\ client = [producer |-> "none", admin |-> "none"]
  /\ full = FALSE /\ blocked = FALSE /\ connection = None /\ channel = None
  /\ amqp = [c \in Ids |-> Dead] /\ opening = None /\ used = 0
  /\ signal = FALSE /\ closed = FALSE /\ faults = 0 /\ lost = {}

At(place)       == {i \in Attempts : stands[i] = place}
AtOn(place, c)  == {i \in At(place) : on[i] = c}
Move(who, place, a) == [i \in Attempts |-> IF i \in who THEN place ELSE a[i]]

Fault == faults < Faults /\ faults' = faults + 1

saturated == full \/ blocked

-----------------------------------------------------------------------------
(* waitForCapacity.                                                         *)

(* Past the alarm: wait for `drain` only on a channel that is there.        *)
PastAlarm(isFull, ch) == IF ~isFull \/ ch = None THEN "go" ELSE "drain"

(* submit(): a saturated sink is waited for; an alarm is waited out first,  *)
(* or until the connection of that moment closes.                           *)
SubmitTo(i) ==
  /\ probe = "none" /\ stands[i] = "new" /\ ~signal
  /\ LET to == IF ~saturated THEN "go" ELSE IF blocked THEN "alarm" ELSE PastAlarm(full, channel)
     IN  /\ stands' = [stands EXCEPT ![i] = to]
         /\ on' = [on EXCEPT ![i] = CASE to = "alarm" -> connection [] to = "drain" -> channel
                                      [] OTHER -> None]
  /\ UNCHANGED <<kind, probe, kafka, connecting, rabbit, signal, closed, faults>>

(* dispatch(): a retry is published at once.                                *)
Retry(i) ==
  /\ probe = "none" /\ stands[i] = "new" /\ ~signal
  /\ stands' = [stands EXCEPT ![i] = "go"]
  /\ UNCHANGED <<kind, probe, on, kafka, connecting, rabbit, signal, closed, faults>>

-----------------------------------------------------------------------------
(* publish.                                                                 *)

(* Every sink answers at once when the signal has been raised.              *)
Aborted(i) ==
  /\ stands[i] = "go" /\ signal
  /\ stands' = [stands EXCEPT ![i] = "failed"]
  /\ UNCHANGED <<kind, probe, on, kafka, connecting, rabbit, signal, closed, faults>>

(* ensureConnected: whoever comes first has the producer connect.           *)
Dialled == IF connected \/ connecting THEN client ELSE [client EXCEPT !.producer = "open"]

PublishKafka(i) ==
  /\ kind = "kafka" /\ stands[i] = "go" /\ ~signal
  /\ stands' = [stands EXCEPT ![i] = IF connected THEN "flight" ELSE "connect"]
  /\ connecting' = (connecting \/ ~connected) /\ client' = Dialled
  /\ UNCHANGED <<kind, probe, on, connected, rabbit, signal, closed, faults>>

PublishWebhook(i) ==
  /\ kind = "webhook" /\ stands[i] = "go" /\ ~signal
  /\ stands' = [stands EXCEPT ![i] = "flight"]
  /\ UNCHANGED <<kind, probe, on, kafka, connecting, rabbit, signal, closed, faults>>

(* channel.publish(): the write buffer takes it, and may be full now.       *)
Written(who, c) ==
  /\ stands' = Move(who, "flight", stands) /\ on' = Move(who, c, on)
  /\ \E accepted \in IF amqp[c].buffer THEN {FALSE} ELSE BOOLEAN :
       /\ full' = (full \/ ~accepted)
       /\ amqp' = [amqp EXCEPT ![c].buffer = @ \/ ~accepted]

PublishRabbit(i) ==
  /\ kind = "rabbitmq" /\ stands[i] = "go" /\ ~signal
  /\ IF channel # None
     THEN Written({i}, channel) /\ UNCHANGED <<connecting, opening>>
     ELSE /\ stands' = [stands EXCEPT ![i] = "connect"] /\ connecting' = TRUE
          /\ UNCHANGED <<on, full, amqp, opening>>
  /\ UNCHANGED <<kind, probe, kafka, blocked, connection, channel, used, lost, signal,
                 closed, faults>>

-----------------------------------------------------------------------------
(* The connection: Kafka's connects once for whoever waits.                 *)

ProbeTold(next) == probe' = IF probe = "connect" THEN next ELSE probe

Connected ==
  /\ connected' = TRUE /\ UNCHANGED client
  /\ stands' = Move(At("connect"), "flight", stands) /\ ProbeTold("admin")

NotConnected ==
  /\ client' = [client EXCEPT !.producer = IF @ = "open" THEN "failed" ELSE @]
  /\ ProbeTold("closing") /\ UNCHANGED connected

(* Slip: who finds the connection failed leaves the others waiting. *)
KafkaConnectsForOne ==
  /\ kind = "kafka" /\ connecting /\ connecting' = FALSE
  /\ \/ Connected
     \/ NotConnected /\ \E i \in At("connect") : stands' = [stands EXCEPT ![i] = "failed"]
  /\ UNCHANGED <<kind, on, rabbit, signal, closed, faults>>

KafkaConnects ==
  /\ kind = "kafka" /\ connecting /\ connecting' = FALSE
  /\ Connected \/ (NotConnected /\ stands' = Move(At("connect"), "failed", stands))
  /\ UNCHANGED <<kind, on, rabbit, signal, closed, faults>>

(* RabbitMqSink.connect: amqp.connect, then the channel and the exchange.   *)
(* When that fails nobody closes the connection, and the caller's catch     *)
(* forgets whatever connection there was.                                   *)
ConnectFails ==
  /\ connecting' = FALSE /\ opening' = None
  /\ connection' = None /\ channel' = None
  /\ stands' = Move(At("connect"), "failed", stands)
  /\ ProbeTold("closing")

Dial ==
  /\ kind = "rabbitmq" /\ connecting /\ opening = None
  /\ \/ /\ used < Conns
        /\ used' = used + 1 /\ opening' = used + 1
        /\ amqp' = [amqp EXCEPT ![used + 1] = [Dead EXCEPT !.up = TRUE]]
        /\ UNCHANGED <<probe, stands, connecting, connection, channel>>
     \/ ConnectFails /\ UNCHANGED <<amqp, used>>
  /\ UNCHANGED <<kind, on, kafka, full, blocked, lost, signal, closed, faults>>

SetUp ==
  /\ opening # None
  /\ connecting' = FALSE /\ opening' = None
  /\ connection' = opening /\ channel' = opening
  /\ stands' = Move(At("connect"), "flight", stands) /\ on' = Move(At("connect"), opening, on)
  /\ ProbeTold("ask")
  /\ \E accepted \in IF At("connect") = {} THEN {TRUE} ELSE BOOLEAN :
       /\ full' = (full \/ ~accepted)
       /\ amqp' = [amqp EXCEPT ![opening].chan = TRUE, ![opening].buffer = ~accepted]
  /\ UNCHANGED <<kind, kafka, blocked, used, lost, signal, closed, faults>>

SetUpFails ==
  /\ opening # None
  /\ ConnectFails
  /\ lost' = lost \union {opening}
  /\ UNCHANGED <<kind, on, kafka, full, blocked, amqp, used, signal, closed, faults>>

-----------------------------------------------------------------------------
(* What the destination answers.                                            *)

Answers(i) ==
  /\ stands[i] = "flight"
  /\ kind = "rabbitmq" => amqp[on[i]].chan /\ ~amqp[on[i]].alarm
  /\ stands' \in {[stands EXCEPT ![i] = "ok"], [stands EXCEPT ![i] = "failed"]}
               \union (IF kind = "webhook" THEN {[stands EXCEPT ![i] = "refused"]} ELSE {})
  /\ UNCHANGED <<kind, probe, on, kafka, connecting, rabbit, signal, closed, faults>>

(* `drain`: only who waits at that moment clears `full`.                    *)
Drains(c) ==
  /\ amqp[c].buffer
  /\ amqp' = [amqp EXCEPT ![c].buffer = FALSE]
  /\ full' = (full /\ AtOn("drain", c) = {})
  /\ stands' = Move(AtOn("drain", c), "go", stands)
  /\ UNCHANGED <<kind, probe, on, kafka, connecting, blocked, connection, channel,
                 opening, used, lost, signal, closed, faults>>

(* connection.blocked and connection.unblocked, of any connection.          *)
Blocks(c) ==
  /\ amqp[c].up /\ ~amqp[c].alarm /\ Fault
  /\ amqp' = [amqp EXCEPT ![c].alarm = TRUE]
  /\ blocked' = TRUE
  /\ UNCHANGED <<kind, probe, stands, on, kafka, connecting, full, connection, channel,
                 opening, used, lost, signal, closed>>

Unblocks(c) ==
  /\ amqp[c].alarm
  /\ amqp' = [amqp EXCEPT ![c].alarm = FALSE]
  /\ blocked' = FALSE
  /\ stands' = Move(At("alarm"), PastAlarm(full, channel), stands)
  /\ on' = Move(At("alarm"), channel, on)
  /\ UNCHANGED <<kind, probe, kafka, connecting, full, connection, channel, opening, used,
                 lost, signal, closed, faults>>

(* A channel closes: an error at the broker.  Its connection stays open.    *)
ChannelCloses(c) ==
  /\ amqp[c].chan /\ Fault
  /\ amqp' = [amqp EXCEPT ![c].chan = FALSE, ![c].buffer = FALSE]
  /\ lost' = lost \union {c}
  /\ channel' = IF channel = c THEN None ELSE channel
  /\ stands' = Move(AtOn("flight", c), "failed", Move(AtOn("drain", c), "go", stands))
  /\ UNCHANGED <<kind, probe, on, kafka, connecting, full, blocked, connection, opening,
                 used, signal, closed>>

(* A connection closes: whichever it is, the sink forgets its connection.   *)
Loses(c) ==
  /\ amqp' = [amqp EXCEPT ![c] = Dead]
  /\ connection' = None /\ channel' = None /\ blocked' = FALSE
  /\ stands' = Move(AtOn("flight", c), "failed",
                Move(AtOn("drain", c) \union AtOn("alarm", c), "go", stands))

ConnectionCloses(c) ==
  /\ amqp[c].up /\ opening # c /\ Fault
  /\ Loses(c)
  /\ UNCHANGED <<kind, probe, on, kafka, connecting, full, opening, used, lost, signal,
                 closed>>

-----------------------------------------------------------------------------
(* probe(): a test of the connection, made by a sink of its own, which is   *)
(* closed after it.  Kafka's gives up at a fatal error the client logs; the *)
(* topic's metadata, the exchange or a POST are asked for then.             *)

ProbeBegins ==
  /\ probe = "asked"
  /\ IF kind = "webhook" THEN probe' = "ask" /\ UNCHANGED connecting
                         ELSE probe' = "connect" /\ connecting' = TRUE
  /\ client' = IF kind = "kafka" THEN Dialled ELSE client
  /\ UNCHANGED <<kind, stands, on, connected, rabbit, signal, closed, faults>>

FatalLogged ==
  /\ kind = "kafka" /\ probe = "connect"
  /\ probe' = "closing"
  /\ UNCHANGED <<kind, stands, on, kafka, connecting, rabbit, signal, closed, faults>>

(* The admin client's connect stands before the try that disconnects it.    *)
AdminConnects ==
  /\ probe = "admin"
  /\ \/ probe' = "ask" /\ client' = [client EXCEPT !.admin = "open"]
     \/ probe' = "closing" /\ client' = [client EXCEPT !.admin = "failed"]
  /\ UNCHANGED <<kind, stands, on, connected, connecting, rabbit, signal, closed, faults>>

(* The answer, or an error; an exchange that is not there closes the        *)
(* channel it was asked for on.                                             *)
ProbeAnswered ==
  /\ probe = "ask" /\ probe' = "closing"
  /\ \/ UNCHANGED <<amqp, channel>>
     \/ /\ channel # None
        /\ amqp' = [amqp EXCEPT ![channel].chan = FALSE] /\ channel' = None
  /\ client' = [client EXCEPT !.admin = IF @ = "open" THEN "closed" ELSE @]
  /\ UNCHANGED <<kind, stands, on, connected, connecting, full, blocked, connection, opening,
                 used, lost, signal, closed, faults>>

-----------------------------------------------------------------------------
(* The pump stops: a raised signal is heard by what is published already,   *)
(* not by Kafka's sends nor by who still waits for a connection.            *)
Abort ==
  /\ probe = "none" /\ ~signal /\ signal' = TRUE
  /\ stands' = IF kind = "kafka" THEN stands ELSE Move(At("flight"), "failed", stands)
  /\ UNCHANGED <<kind, probe, on, kafka, connecting, rabbit, closed, faults>>

(* Slip: only a producer that is connected is disconnected. *)
DisconnectedIfConnected ==
  IF connected
  THEN [client EXCEPT !.producer = IF @ = "open" THEN "closed" ELSE @] ELSE client

(* A producer is disconnected if it is connected, or still connects; with a *)
(* connect that was rejected close() has nothing to do.                     *)
Disconnected ==
  IF connected \/ connecting
  THEN [client EXCEPT !.producer = IF @ = "open" THEN "closed" ELSE @] ELSE client

(* Slip: what has no channel has no connection. *)
CloseByChannel ==
  /\ signal \/ probe = "closing"
  /\ ~closed /\ closed' = TRUE
  /\ probe' = IF probe = "closing" THEN "over" ELSE probe
  /\ IF kind = "rabbitmq" /\ channel # None
     THEN Loses(channel)
     ELSE UNCHANGED <<stands, amqp, connection, channel, blocked>>
  /\ connected' = FALSE /\ client' = Disconnected
  /\ UNCHANGED <<kind, on, connecting, full, opening, used, lost, signal, faults>>

(* close(), once the pump has stopped or the probe is answered.  A          *)
(* connection that is being set up is not waited for, or not for long.      *)
Close ==
  /\ signal \/ probe = "closing"
  /\ ~closed /\ closed' = TRUE
  /\ probe' = IF probe = "closing" THEN "over" ELSE probe
  /\ IF kind = "rabbitmq" /\ connection # None
     THEN Loses(connection)
     ELSE UNCHANGED <<stands, amqp, connection, channel, blocked>>
  /\ connected' = FALSE /\ client' = Disconnected
  /\ UNCHANGED <<kind, on, connecting, full, opening, used, lost, signal, faults>>

-----------------------------------------------------------------------------
Probe == ProbeBegins \/ FatalLogged \/ AdminConnects \/ ProbeAnswered
Publish(i) == PublishKafka(i) \/ PublishRabbit(i) \/ PublishWebhook(i) \/ Aborted(i)

SinkNext ==
  \/ \E i \in Attempts : SubmitTo(i) \/ Retry(i) \/ Publish(i) \/ Answers(i)
  \/ KafkaConnects \/ Dial \/ SetUp \/ SetUpFails
  \/ \E c \in Ids : \/ Drains(c) \/ Blocks(c) \/ Unblocks(c)
                    \/ ChannelCloses(c) \/ ConnectionCloses(c)
  \/ Abort \/ Probe \/ Close

(* Promises are resumed, connects and publishes are answered or fail, a     *)
(* full buffer drains and an alarm ends.  Nothing has to fail, and nobody   *)
(* has to stop.                                                             *)
SinkSpec ==
  /\ SinkInit /\ [][SinkNext]_sinkVars
  /\ \A i \in Attempts : WF_sinkVars(Publish(i)) /\ WF_sinkVars(Answers(i))
  /\ WF_sinkVars(Probe) /\ WF_sinkVars(probe = "closing" /\ Close)
  /\ WF_sinkVars(KafkaConnects) /\ WF_sinkVars(Dial) /\ WF_sinkVars(SetUp \/ SetUpFails)
  /\ \A c \in Ids : WF_sinkVars(Drains(c)) /\ WF_sinkVars(Unblocks(c))

-----------------------------------------------------------------------------
(* A publish settles, whatever fails or is lost meanwhile: the pump gets    *)
(* its window slot back ("resolves only once the destination has            *)
(* acknowledged the message, or with ok: false"); and a test is answered.   *)
CallsSettle ==
  /\ \A i \in Attempts : stands[i] \in Open ~> stands[i] \notin Open
  /\ probe = "asked" ~> probe = "over"

(* A test leaves nothing open, whatever it found: RabbitMQ's connection is  *)
(* closed, but one whose channel or exchange could not be set up, which     *)
(* nobody knows of any more; Kafka's producer, also one that still          *)
(* connects, and its admin client have been told to disconnect, but one     *)
(* whose connect was rejected (README, "Departures", for both exceptions).  *)
(* A webhook keeps no connection.                                           *)
NothingLeftOpen ==
  probe = "over" =>
    /\ \A c \in Ids : amqp[c].up => c \in lost /\ c # connection
    /\ client.producer # "open" /\ client.admin # "open"

(* Not checked: the code departs from it (README, "Departures").            *)
(* "Resolves once `saturated` clears" (interface.ts), "do not strand the    *)
(* pump" (publisher.ts): whoever waits for capacity is let go.              *)
CapacityAsDocumented == \A i \in Attempts : stands[i] \in Waiting ~> stands[i] \notin Waiting
=============================================================================
