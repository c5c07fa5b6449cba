-------------------------------- MODULE RunPage --------------------------------
(***************************************************************************)
(* A run watched and steered from its page in the web client: the page     *)
(* shell that follows a run to its Live tab (web surfaces/run/index.tsx),  *)
(* the two panes that show it, RunDetail (run-control/run-detail.tsx) and  *)
(* LiveTab with StreamConsole (stream-console/), and the API's side of     *)
(* their WebSocket subscription (apps/api/src/ws/).                        *)
(*                                                                         *)
(* A pane hears of the same rows in three ways that nothing orders: its    *)
(* first GET, the messages of a subscription that polls once a second and  *)
(* sends what changed, and the answers to its own commands.  Each reading  *)
(* of the rows is a place in their history `past`, so that what is shown   *)
(* can be compared with what was known when.                               *)
(*                                                                         *)
(* Gauges, tickers, partition ticks and error texts are left out.  A       *)
(* command is handled when it is clicked, only its answer travels; one     *)
(* that is refused leaves the pane as it was.  Nobody but this page and    *)
(* the worker changes the run, and the answers to commands and refetches   *)
(* are not lost (the README says what happens otherwise).                  *)
(* A definition marked "slip" is not part of the model.                    *)
(***************************************************************************)
EXTENDS Naturals, Sequences, FiniteSets

CONSTANTS
  MaxChanges,   (* bound on the changes of the run's rows                  *)
  MaxCalls,     (* bound on the calls of one kind under way                *)
  MaxPolls,     (* bound on the polls of a subscription under way          *)
  MaxWire       (* bound on the messages under way                         *)

ASSUME RunPageAssumption ==
  /\ MaxChanges \in Nat /\ {MaxCalls, MaxPolls} \subseteq Nat \ {0} /\ MaxWire \in Nat \ {0, 1}

VARIABLES
  past,     (* the rows of the run, its replay and its stream, by change   *)
  tab,      (* the tab the page shows                                      *)
  follow,   (* followRun                                                   *)
  known,    (* hasStream of the Live tab                                   *)
  row,      (* what the mounted pane shows, as readings; 0: nothing        *)
  seen,     (* history: the newest readings the pane was given             *)
  sub,      (* the pane's subscription at the API                          *)
  polls,    (* polls of it under way                                       *)
  wire,     (* its messages under way                                      *)
  calls     (* HTTP calls under way; of = 0: not handled yet               *)

pane == <<row, seen, sub, polls, wire>>
page == <<tab, follow, known>>
pageVars == <<past, page, pane, calls>>

Now   == Len(past)
Rows(run, replay, stream) == [run |-> run, replay |-> replay, stream |-> stream]
Blank == [status |-> 0, replay |-> 0]
NoSub == [state |-> "closed", told |-> "nothing",
          payload |-> [phase |-> "nothing", replay |-> "nothing"]]
Larger(n, m) == IF n > m THEN n ELSE m

Pane == IF tab = "progress" THEN "detail" ELSE IF known = "yes" THEN "console" ELSE "none"

(* What a pane calls the status: the run's, or the stream's. *)
Status(of) == IF Pane = "detail" THEN past[of].run ELSE past[of].stream
(* A row without a reading of its replays shows none. *)
Replay(of) == IF of = 0 THEN "none" ELSE past[of].replay

(***************************************************************************)
(* The rows, and what changes them.                                        *)
(***************************************************************************)

(* derivePhase *)
Phase(r) ==
  CASE r.run \in {"failed", "cancelled"} -> "done"
    [] r.run \in {"running", "paused"}   -> "generating"
    [] r.replay \in {"pending", "failed"} -> "replaying"
    [] r.stream \in {"streaming", "paused"} -> "live"
    [] OTHER -> "done"

(* The worker: generation ends, replays are created and end, live starts,  *)
(* and a stream fails or is put down at boot.                              *)
Proceeds(r) ==
  CASE r.run = "running" -> {[r EXCEPT !.run = s] : s \in {"completed", "failed"}}
    [] r.run = "completed" /\ r.replay = "pending" ->
         {[r EXCEPT !.replay = s] : s \in {"done", "failed"}}
    [] r.run = "completed" /\ r.stream = "streaming" ->
         {[r EXCEPT !.stream = s] : s \in {"error", "stopped"}}
    [] r.run = "completed" /\ r.replay = "done" /\ r.stream = "none" ->
         {[r EXCEPT !.stream = "streaming"]}
    [] r.run = "completed" /\ r.replay = "none" /\ r.stream = "none" ->
         {[r EXCEPT !.replay = "pending"], [r EXCEPT !.stream = "streaming"]}
    [] OTHER -> {}

RunMoves    == {<<"pause", "running", "paused">>, <<"resume", "paused", "running">>,
                <<"retry", "failed", "running">>}
                 \cup {<<"cancel", s, "cancelled">> : s \in {"running", "paused", "failed"}}
ReplayMoves == {<<"again", "failed", "pending">>, <<"skip", "failed", "done">>}
StreamMoves == {<<"hold", "streaming", "paused">>, <<"release", "paused", "streaming">>,
                <<"start", "stopped", "streaming">>}
                 \cup {<<"stop", s, "stopped">> : s \in {"streaming", "paused", "error"}}

After(moves, command, from) == {m[3] : m \in {x \in moves : x[1] = command /\ x[2] = from}}

(* What the API makes of a command: at most one change of the rows. *)
Handled(command) ==
  LET r == past[Now] IN
  {[r EXCEPT !.run = s] : s \in After(RunMoves, command, r.run)}
    \cup {[r EXCEPT !.replay = s] : s \in After(ReplayMoves, command, r.replay)}
    \cup {[r EXCEPT !.stream = s] : s \in After(StreamMoves, command, r.stream)}
    \cup IF command = "launch" /\ r.run = "completed" /\ r.replay \in {"none", "done"}
              /\ r.stream \in {"none", "stopped"}
         THEN {[r EXCEPT !.stream = "streaming"]} ELSE {}

Changes(next) == /\ Now <= MaxChanges /\ past' = Append(past, next)

Worker ==
  /\ \E next \in Proceeds(past[Now]) : Changes(next)
  /\ UNCHANGED <<page, pane, calls>>

(***************************************************************************)
(* Calls.  Answers arrive in any order.                                    *)
(***************************************************************************)
Call(what, of) == [what |-> what, of |-> of]
Room(what)     == Cardinality({c \in calls : c.what = what}) < MaxCalls
Reads          == {"load", "deliveries", "look"}
OfPane(what)   == what \notin {"page", "look", "launch"}
Unmounted      == {c \in calls : ~OfPane(c.what)}

Serve(c) ==
  /\ c.of = 0 /\ calls' = (calls \ {c}) \cup {Call(c.what, Now)}
  /\ UNCHANGED <<past, page, pane>>

(***************************************************************************)
(* The page shell.                                                         *)
(***************************************************************************)

(* A pane mounts with nothing known: it asks for the row and opens its     *)
(* socket.  The answers and the socket of the pane before it are gone.     *)
Mounts(first, kept) ==
  /\ row' = Blank /\ seen' = Blank /\ polls' = {} /\ wire' = <<>> /\ sub' = NoSub
  /\ calls' = kept \cup {Call(w, 0) : w \in first}

OpensTab(t, kept) ==
  /\ tab' = t /\ known' = "unknown"
  /\ Mounts(IF t = "progress" THEN {"load"} ELSE IF t = "live" THEN {"look"} ELSE {}, kept)

PickTab(t) ==
  /\ t # tab /\ follow' = FALSE
  /\ OpensTab(t, {c \in Unmounted : c.what = "page"})
  /\ UNCHANGED past

Asks(what) == Room(what) /\ calls' = calls \cup {Call(what, 0)} /\ UNCHANGED <<past, page,
                                                                               pane>>

(* The shell's timer, every two seconds; what it fetches once the page no  *)
(* longer follows the run is only its title and badge, and is left out.    *)
PageTimer == follow /\ Asks("page")

Follows(of) == Phase(past[of]) = "live" /\ follow /\ tab = "progress"

PageLoaded(c) ==
  /\ c.what = "page" /\ c.of # 0
  /\ IF Follows(c.of)
     THEN follow' = FALSE /\ OpensTab("live", Unmounted \ {c})
     ELSE calls' = calls \ {c} /\ UNCHANGED <<page, pane>>
  /\ UNCHANGED past

(***************************************************************************)
(* The Live tab: the launcher until a stream is known of, then the console *)
(***************************************************************************)
Learns(answer, c) ==
  /\ known' = answer
  /\ IF answer = "yes" /\ known # "yes" THEN Mounts({"load"}, calls \ {c})
     ELSE IF answer # "yes" /\ known = "yes" THEN Mounts({}, Unmounted \ {c})
     ELSE calls' = calls \ {c} /\ UNCHANGED pane
  /\ UNCHANGED <<tab, follow>>

(* slip: the tab looks again until an answer, of whatever kind *)
LookTimerUntilAnswer == tab = "live" /\ known = "unknown" /\ Asks("look")
LookTimer == tab = "live" /\ known # "yes" /\ Asks("look")

Looked(c) ==
  /\ c.what = "look" /\ c.of # 0
  /\ Learns(IF past[c.of].stream = "none" THEN "no" ELSE "yes", c)
  /\ UNCHANGED past

(* StreamStart: start, and onStarted once it is answered. *)
LaunchStream ==
  /\ tab = "live" /\ known = "no" /\ Room("launch")
  /\ \E next \in Handled("launch") : Changes(next)
  /\ calls' = calls \cup {Call("launch", Now + 1)}
  /\ UNCHANGED <<page, pane>>

Launched(c) ==
  /\ c.what = "launch" /\ Learns("yes", c) /\ UNCHANGED past

(***************************************************************************)
(* The subscription, at the API.                                           *)
(***************************************************************************)
SocketOpens ==
  /\ Pane # "none" /\ sub.state = "closed"
  /\ sub' = [NoSub EXCEPT !.state = "open"]
  /\ UNCHANGED <<past, page, row, seen, polls, wire, calls>>

Message(kind, of) == [kind |-> kind, of |-> of]

(* A tick of the interval: the poll reads the run, or the stream.  Nothing *)
(* keeps a slow poll from being overtaken by the next.                     *)
Tick ==
  /\ sub.state = "open"
  /\ Cardinality(polls) < MaxPolls /\ polls' = polls \cup {Now}
  /\ UNCHANGED <<past, page, row, seen, sub, wire, calls>>

IsOver(status) ==
  status \in IF Pane = "detail" THEN {"failed", "cancelled"} ELSE {"none", "stopped"}

(* slip: the payload says only which phase the run is in *)
PayloadOfPhase(of) ==
  [phase |-> Phase([past[Now] EXCEPT !.run = past[of].run]), replay |-> "none"]
(* The replays and the stream are read after the run. *)
Payload(of) ==
  [phase |-> Phase([past[Now] EXCEPT !.run = past[of].run]), replay |-> past[Now].replay]

HasPayload(of) == Pane = "detail" /\ Payload(of) # sub.payload

(* slip: a status that comes with a new payload travels in its message *)
TellsAlone(of) == Status(of) \notin {sub.told, "none"} /\ ~HasPayload(of)
Tells(of) == Status(of) \notin {sub.told, "none"}

(* The poll's reads are back: a status that is new is sent, then a payload *)
(* that is, and the interval is cleared at a status that ends it.          *)
Report(of) ==
  /\ polls' = polls \ {of} /\ Len(wire) + 2 <= MaxWire
  /\ wire' = wire \o (IF Tells(of) THEN <<Message("status", of)>> ELSE <<>>)
                  \o (IF HasPayload(of) THEN <<Message("phase", Now)>> ELSE <<>>)
  /\ sub' = [state |-> IF IsOver(Status(of)) THEN "ended" ELSE sub.state,
             told |-> Status(of),
             payload |-> IF Pane = "detail" THEN Payload(of) ELSE sub.payload]
  /\ UNCHANGED <<past, page, row, seen, calls>>

(***************************************************************************)
(* The mounted pane.                                                       *)
(***************************************************************************)

(* A message: a status is taken over once the row is loaded; a phase makes *)
(* the pane fetch the replays again.                                       *)
Hear ==
  /\ wire # <<>> /\ wire' = Tail(wire)
  /\ LET m == Head(wire) IN
     IF m.kind = "status"
     THEN /\ row' = IF row.status = 0 THEN row ELSE [row EXCEPT !.status = m.of]
          /\ seen' = [seen EXCEPT !.status = Larger(@, m.of)]
          /\ UNCHANGED calls
     ELSE /\ Room("deliveries") /\ calls' = calls \cup {Call("deliveries", 0)}
          /\ UNCHANGED <<row, seen>>
  /\ UNCHANGED <<past, page, sub, polls>>

Shows(status, replay) ==
  /\ row' = [status |-> status, replay |-> replay]
  /\ seen' = [status |-> Larger(seen.status, status), replay |-> Larger(seen.replay, replay)]

Loaded(c) ==
  /\ c.what = "load" /\ c.of # 0 /\ calls' = calls \ {c}
  /\ IF Pane = "console" /\ past[c.of].stream = "none" THEN UNCHANGED <<row, seen>>
     ELSE Shows(c.of, c.of)
  /\ UNCHANGED <<past, page, sub, polls, wire>>

(* Only into a row that is loaded. *)
Refetched(c) ==
  /\ c.what = "deliveries" /\ c.of # 0 /\ calls' = calls \ {c}
  /\ row' = IF row.status = 0 THEN row ELSE [row EXCEPT !.replay = c.of]
  /\ seen' = [seen EXCEPT !.replay = Larger(@, c.of)]
  /\ UNCHANGED <<past, page, sub, polls, wire>>

(* The buttons a row offers. *)
Offered ==
  IF row.status = 0 THEN {}
  ELSE IF Pane = "console" THEN {m[1] : m \in {x \in StreamMoves : x[2] = Status(row.status)}}
  ELSE {m[1] : m \in {x \in RunMoves : x[2] = Status(row.status)}}
         \cup {m[1] : m \in {x \in ReplayMoves : x[2] = Replay(row.replay)}}

Decisions == {"again", "skip"}

(* control, retry, startAgain and decide.  Once a decision is answered the *)
(* replays are fetched; the other answers carry the row as it was left.    *)
Click(command) ==
  /\ command \in Offered
  /\ LET what == IF command \in Decisions THEN "deliveries" ELSE "command" IN
     /\ Room(what)
     /\ \E next \in Handled(command) : Changes(next)
     /\ calls' = calls \cup {Call(what, IF command \in Decisions THEN 0 ELSE Now + 1)}
  /\ UNCHANGED <<page, pane>>

(* The row of a run that a command answers has no replays in it. *)
Answered(c) ==
  /\ c.what = "command" /\ calls' = calls \ {c}
  /\ Shows(c.of, IF Pane = "detail" THEN 0 ELSE c.of)
  /\ UNCHANGED <<past, page, sub, polls, wire>>

(* A GET made by a mounting pane, or a look, fails: the pane stays empty,   *)
(* and the look is taken for a stream.                                     *)
Lose(c) ==
  /\ c.what \in {"load", "look"}
  /\ IF c.what = "look" THEN Learns("yes", c)
     ELSE calls' = calls \ {c} /\ UNCHANGED <<page, pane>>
  /\ UNCHANGED past

-----------------------------------------------------------------------------
PageInit ==
  /\ past \in {<<Rows("running", "none", "none")>>, <<Rows("completed", "pending", "none")>>,
               <<Rows("completed", "done", "streaming")>>}
  /\ tab \in {"progress", "live"} /\ follow = (tab = "progress")
  /\ known = "unknown" /\ row = Blank /\ seen = Blank
  /\ polls = {} /\ wire = <<>> /\ sub = NoSub
  /\ calls = {Call(IF tab = "progress" THEN "load" ELSE "look", 0)}

PageNext ==
  \/ Worker \/ PageTimer \/ LookTimer \/ LaunchStream \/ SocketOpens \/ Tick \/ Hear
  \/ \E t \in {"progress", "live", "other"} : PickTab(t)
  \/ \E command \in Offered : Click(command)
  \/ \E of \in polls : Report(of)
  \/ \E c \in calls : \/ Serve(c) \/ PageLoaded(c) \/ Looked(c) \/ Launched(c)
                      \/ Loaded(c) \/ Refetched(c) \/ Answered(c) \/ Lose(c)

PageSpec == PageInit /\ [][PageNext]_pageVars

(* Timers fire, calls are handled and answered, messages arrive.  Nothing  *)
(* is assumed of the user, of the worker or of failures.                   *)
Fairness ==
  /\ WF_pageVars(LookTimer) /\ WF_pageVars(SocketOpens) /\ WF_pageVars(Tick) /\ WF_pageVars(Hear)
  /\ WF_pageVars(\E of \in polls : Report(of))
  /\ \A what \in Reads : WF_pageVars(\E c \in calls : c.what = what /\ Serve(c))
  /\ WF_pageVars(\E c \in calls : Looked(c))
  /\ WF_pageVars(\E c \in calls : Loaded(c)) /\ WF_pageVars(\E c \in calls : Refetched(c))
  /\ WF_pageVars(\E c \in calls : Answered(c)) /\ WF_pageVars(\E c \in calls : Launched(c))

FairPage == PageSpec /\ Fairness

(***************************************************************************)
(* Properties                                                              *)
(***************************************************************************)

(* A Live tab left open on a run that has a stream ends up showing it,     *)
(* whatever older look says there is none; only a first GET that failed    *)
(* leaves the console empty.                                               *)
GetFailed == row.status = 0 /\ ~\E c \in calls : c.what = "load"
LiveShown ==
  <>[](tab = "live" /\ past[Now].stream # "none")
    => <>[](known = "yes" /\ (row.status # 0 \/ GetFailed))

(* What a pane shows is in the end what the rows say, through overlapping  *)
(* polls, messages that come before the row and answers that come after    *)
(* them, unless the subscription was ended or an answer put an older       *)
(* reading over a newer one.                                               *)
CatchesUp ==
  <>[](row.status # 0 /\ sub.state = "open" =>
         /\ Status(row.status) = Status(Now) \/ row.status < seen.status
         /\ Pane = "detail" =>
              (Replay(row.replay) = Replay(Now) \/ row.replay < seen.replay))
=============================================================================
