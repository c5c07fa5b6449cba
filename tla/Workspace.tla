------------------------------- MODULE Workspace -------------------------------
(***************************************************************************)
(* The scenario page of the web client (surfaces/scenario-workspace/): the *)
(* editor that validates a spec behind the user's typing, Save, the list   *)
(* of versions with its rollback, and the launch drawer with its form for  *)
(* a new connection.  Web composes it with the page of the launched run.   *)
(*                                                                         *)
(* Every call has its answer, or loses it, whenever it likes.  The drawer  *)
(* and the form in it are modal: what is behind them is not clicked, but   *)
(* answers and timers for it arrive.  A GET reads the rows at the moment   *)
(* its answer arrives; Catalog has the API's side step by step.  Broker    *)
(* sinks and connections are of one type.  Rates, seeds, topics, the label *)
(* channel, the estimate and the tests of a connection are left out.       *)
(* A definition marked "slip" is not part of the model (see                *)
(* PartitionWorld).                                                        *)
(***************************************************************************)
EXTENDS Naturals, Sequences, FiniteSets, SequencesExt

CONSTANTS       (* Web states what is assumed of them                    *)
  Texts,        (* what the editor may hold                                *)
  Valid,        (* those that are valid specs                              *)
  Broken,       (* those that are not JSON                                 *)
  SinksOf,      (* the broker sinks a valid spec names                     *)
  First,        (* what the editor shows when there is no version: {}      *)
  Scopes        (* bounds on the edits, the versions, the connections and  *)
                (* the openings of the drawer                              *)

Sinks == UNION {SinksOf[t] : t \in Valid}

VARIABLES
  scope,        (* the member of Scopes a behaviour keeps to               *)
  api,          (* rows: versions, connections, and what a launch keeps    *)
  load,         (* the page's GETs: the row, then the versions             *)
  editor,       (* the text, the debounce timer, validations by number     *)
  checks,       (* validations under way                                   *)
  currentSpec,  (* what Save would store                                   *)
  saved,        (* the "Saved." badge                                      *)
  savedSpec,    (* what the drawer takes for the spec it launches          *)
  saving,       (* the save under way                                      *)
  drawer,       (* LaunchDrawer                                            *)
  loads,        (* openings of it whose connections and defaults are       *)
                (* being fetched                                           *)
  creating,     (* connections being created from it                       *)
  launching,    (* the launch under way                                    *)
  away,         (* a launched run's page is shown                          *)
  chosen,       (* history: the form as the user last left it, and the     *)
                (* sinks a new connection has been bound to since          *)
  elsewhere     (* history: a version the page was not told of             *)

edited == <<load, editor, checks, currentSpec, saved>>
vars   == <<scope, api, edited, savedSpec, saving, drawer, loads, creating, launching, away,
            chosen, elsewhere>>

None     == "none"
Unbound  == [s \in Sinks |-> 0]
Idle     == [at |-> "idle", text |-> None]
NoLaunch == [at |-> "idle", dests |-> Unbound, mode |-> "only"]
Form(d)  == [mode |-> d.mode, dests |-> d.dests]
Left(d)  == [mode |-> d.mode, dests |-> d.dests, since |-> {}]
Closed   == [open |-> FALSE, no |-> 0, loaded |-> FALSE, offer |-> FALSE, conns |-> {},
             newFor |-> 0, busy |-> FALSE, mode |-> "only", dests |-> Unbound]

Needed(text) == IF text \in Valid THEN SinksOf[text] ELSE {}
Missing(text, dests) == {s \in Needed(text) : dests[s] = 0}

NoRows   == [versions |-> <<>>, conns |-> {}, kept |-> Form(Closed)]
Fetching == [at |-> "row", current |-> 0]
Untyped  == [text |-> None, timer |-> None, edits |-> 0, asked |-> 0, taken |-> 0]

Blank ==
  /\ load = Fetching /\ editor = Untyped /\ checks = {}
  /\ currentSpec = None /\ saved = FALSE /\ savedSpec = None /\ saving = Idle
  /\ drawer = Closed /\ loads = {} /\ creating = {} /\ launching = NoLaunch
  /\ chosen = Left(Closed) /\ elsewhere = FALSE

(* A scenario without a version, with one, or one that was launched before. *)
Init ==
  /\ scope \in Scopes /\ away = FALSE /\ Blank
  /\ \/ api \in {[NoRows EXCEPT !.versions = v] : v \in {<<>>} \union {<<t>> : t \in Valid}}
     \/ /\ scope.opens # 0   \* only the drawer asks for them
        /\ \E t \in Valid, m \in {"only", "live"} :
             api = [versions |-> <<t>>, conns |-> {1},
                    kept |-> [mode |-> m,
                              dests |-> [s \in Sinks |-> IF s \in SinksOf[t] THEN 1 ELSE 0]]]

-----------------------------------------------------------------------------
(* The page: the scenario's row, then its versions; a GET may fail.         *)

RowLoaded ==
  /\ load.at = "row"
  /\ \E no \in {0, Len(api.versions)} : load' = [load EXCEPT !.at = "versions", !.current = no]
  /\ UNCHANGED <<api, editor, checks, currentSpec, saved, savedSpec, saving, drawer, loads,
                 creating, launching, away, chosen, elsewhere>>

(* validate(): text that is not JSON is not asked about. *)
Validated(e, text) ==
  IF text \in Broken THEN editor' = e /\ UNCHANGED checks
  ELSE /\ editor' = [e EXCEPT !.asked = @ + 1]
       /\ checks' = checks \union {[no |-> e.asked + 1, text |-> text]}

(* The version the row names; without it the last of the list, which is the *)
(* oldest version.  The editor mounts with it.                              *)
VersionsLoaded ==
  /\ load.at = "versions"
  /\ load' = [load EXCEPT !.at = "ready"]
  /\ \E got \in {<<>>, api.versions} :
       LET no   == IF load.current \in DOMAIN got THEN load.current ELSE 1
           text == IF got = <<>> THEN First ELSE got[no]
       IN  /\ savedSpec' = IF got = <<>> THEN None ELSE text
           /\ Validated([editor EXCEPT !.text = text], text)
           /\ elsewhere' = (no # Len(api.versions))
  /\ UNCHANGED <<api, currentSpec, saved, saving, drawer, loads, creating, launching, away, chosen>>

-----------------------------------------------------------------------------
(* The editor.  Nothing is typed behind the drawer.                         *)

Edit(text) ==
  /\ load.at = "ready" /\ ~drawer.open /\ text # editor.text /\ editor.edits < scope.edits
  /\ editor' = [editor EXCEPT !.text = text, !.timer = text, !.edits = @ + 1]
  /\ UNCHANGED <<api, load, checks, currentSpec, saved, savedSpec, saving, drawer, loads, creating,
                 launching, away, chosen, elsewhere>>

Debounced ==
  /\ editor.timer # None
  /\ Validated([editor EXCEPT !.timer = None], editor.timer)
  /\ UNCHANGED <<api, load, currentSpec, saved, savedSpec, saving, drawer, loads, creating,
                 launching, away, chosen, elsewhere>>

(* onValidChange: answers are taken in the order they arrive. *)
Checked(c) ==
  /\ checks' = checks \ {c}
  /\ editor' = [editor EXCEPT !.taken = c.no]
  /\ currentSpec' = IF c.text \in Valid THEN c.text ELSE None
  /\ saved' = FALSE
  /\ UNCHANGED <<api, load, savedSpec, saving, drawer, loads, creating, launching, away,
                 chosen, elsewhere>>

CheckFails(c) ==
  /\ checks' = checks \ {c}
  /\ UNCHANGED <<api, load, editor, currentSpec, saved, savedSpec, saving, drawer, loads, creating,
                 launching, away, chosen, elsewhere>>

-----------------------------------------------------------------------------
(* Save, and what others save (an agent, another tab).                      *)

Stored(text) == api' = [api EXCEPT !.versions = Append(@, text)]

Save ==
  /\ ~drawer.open /\ currentSpec # None /\ saving = Idle /\ Len(api.versions) < scope.versions
  /\ saving' = [at |-> "sent", text |-> currentSpec] /\ saved' = FALSE
  /\ UNCHANGED <<api, load, editor, checks, currentSpec, savedSpec, drawer, loads, creating,
                 launching, away, chosen, elsewhere>>

SaveHandled ==
  /\ saving.at = "sent" /\ saving' = [saving EXCEPT !.at = "stored"]
  /\ Stored(saving.text)
  /\ UNCHANGED <<edited, savedSpec, drawer, loads, creating, launching, away, chosen,
                 elsewhere>>

SaveAnsweredNow ==   \* slip: the drawer gets what Save would store now
  /\ saving.at = "stored" /\ saving' = Idle
  /\ savedSpec' = currentSpec /\ saved' = TRUE
  /\ UNCHANGED <<api, load, editor, checks, currentSpec, drawer, loads, creating, launching, away,
                 chosen, elsewhere>>

SaveAnswered ==
  /\ saving.at = "stored" /\ saving' = Idle
  /\ savedSpec' = saving.text /\ saved' = TRUE
  /\ UNCHANGED <<api, load, editor, checks, currentSpec, drawer, loads, creating, launching, away,
                 chosen, elsewhere>>

(* The save fails, or its answer is lost. *)
SaveFails ==
  /\ saving # Idle /\ saving' = Idle
  /\ elsewhere' = (elsewhere \/ saving.at = "stored")
  /\ UNCHANGED <<api, edited, savedSpec, drawer, loads, creating, launching, away, chosen>>

(* VersionHistory lists the versions as it mounts, and again after a        *)
(* rollback; here any version there is may be the one that is picked.       *)
Rollback(no) ==
  /\ ~drawer.open /\ Len(api.versions) < scope.versions
  /\ Stored(api.versions[no]) /\ elsewhere' = TRUE
  /\ UNCHANGED <<edited, savedSpec, saving, drawer, loads, creating, launching, away, chosen>>

OthersSave(text) ==
  /\ Len(api.versions) < scope.versions /\ Stored(text)
  /\ elsewhere' = (load.at = "ready" \/ elsewhere)
  /\ UNCHANGED <<edited, savedSpec, saving, drawer, loads, creating, launching, away, chosen>>

-----------------------------------------------------------------------------
(* The launch drawer.  Each opening fetches the connections, the remembered *)
(* defaults and the suggestion, and shows the form once all are there.      *)

(* The page's address may ask for the drawer (?launch=1) as the page mounts *)
Open ==
  /\ ~drawer.open /\ drawer.no < scope.opens
  /\ load.current # 0 \/ saved \/ (drawer.no = 0 /\ load.at = "row")
  /\ drawer' = [drawer EXCEPT !.open = TRUE, !.no = @ + 1, !.loaded = FALSE]
  /\ loads' = loads \union {drawer.no + 1}
  /\ UNCHANGED <<api, edited, savedSpec, saving, creating, launching, away, chosen, elsewhere>>

(* What is typed stays, and so does newConnectionFor. *)
Close ==
  /\ drawer.open /\ drawer' = [drawer EXCEPT !.open = FALSE, !.busy = FALSE]
  /\ UNCHANGED <<api, edited, savedSpec, saving, loads, creating, launching, away, chosen,
                 elsewhere>>

CancelledIfClosed(no) == ~drawer.open   \* slip: only the drawer's closing counts
Cancelled(no) == ~drawer.open \/ no # drawer.no

(* setDestinations: an effect turns the mode to live once a broker is bound.*)
Bound(d, dests) ==
  [d EXCEPT !.dests = dests, !.mode = IF \E s \in Sinks : dests[s] # 0 THEN "live" ELSE @]

(* The defaults: destinations of sinks that the current version still has.  *)
Defaults ==
  LET now == Needed(Last(api.versions))
  IN  [api.kept EXCEPT !.dests = [s \in Sinks |-> IF s \in now THEN @[s] ELSE 0]]

Shown(d, offer) ==
  LET f == Defaults
  IN  [Bound([d EXCEPT !.mode = f.mode], f.dests)
         EXCEPT !.loaded = TRUE, !.conns = api.conns, !.offer = offer]

FormLoaded(no) ==
  /\ loads' = loads \ {no}
  /\ IF Cancelled(no) THEN UNCHANGED <<drawer, chosen>>
     ELSE /\ \/ api.versions # <<>> /\ \E offer \in BOOLEAN : drawer' = Shown(drawer, offer)
             \/ drawer' = [drawer EXCEPT !.loaded = TRUE]
          /\ chosen' = IF drawer.loaded THEN chosen ELSE Left(drawer')
  /\ UNCHANGED <<api, edited, savedSpec, saving, creating, launching, away, elsewhere>>

(* What the user does to the form, unless the form of a connection is over it. *)
InForm == drawer.open /\ drawer.loaded /\ drawer.newFor = 0

Chooses(d) ==
  /\ drawer' = d /\ chosen' = Left(d)
  /\ UNCHANGED <<api, edited, savedSpec, saving, loads, creating, launching, away, elsewhere>>

PickDestination(s, conn) ==
  InForm /\ s \in Needed(savedSpec) /\ Chooses(Bound(drawer, [drawer.dests EXCEPT ![s] = conn]))

PickMode(mode) == InForm /\ Chooses([drawer EXCEPT !.mode = mode])

-----------------------------------------------------------------------------
(* A new connection, from its form or from the suggested local Kafka.       *)

Room == Cardinality(api.conns) + Cardinality({c \in creating : c.conn = 0}) < scope.conns

AskNew(s) ==
  /\ InForm /\ s \in Needed(savedSpec) /\ drawer' = [drawer EXCEPT !.newFor = s, !.busy = FALSE]
  /\ UNCHANGED <<api, edited, savedSpec, saving, loads, creating, launching, away, chosen,
                 elsewhere>>

CancelNew ==
  /\ drawer.open /\ drawer.newFor # 0 /\ drawer' = [drawer EXCEPT !.newFor = 0]
  /\ UNCHANGED <<api, edited, savedSpec, saving, loads, creating, launching, away, chosen,
                 elsewhere>>

Creates(s, panel) ==
  /\ Room /\ creating' = creating \union {[for |-> s, panel |-> panel, conn |-> 0]}
  /\ UNCHANGED <<api, edited, savedSpec, saving, loads, launching, away, chosen, elsewhere>>

SaveNew ==
  /\ drawer.open /\ drawer.newFor # 0 /\ ~drawer.busy
  /\ drawer' = [drawer EXCEPT !.busy = TRUE] /\ Creates(drawer.newFor, TRUE)

AddLocalKafka ==
  /\ InForm /\ drawer.offer /\ UNCHANGED drawer
  /\ \E s \in Missing(savedSpec, drawer.dests) :
       (\A r \in Missing(savedSpec, drawer.dests) : s <= r) /\ Creates(s, FALSE)

CreateHandled(c) ==
  /\ c.conn = 0
  /\ LET id == Cardinality(api.conns) + 1
     IN  /\ api' = [api EXCEPT !.conns = @ \union {id}]
         /\ creating' = (creating \ {c}) \union {[c EXCEPT !.conn = id]}
  /\ UNCHANGED <<edited, savedSpec, saving, drawer, loads, launching, away, chosen, elsewhere>>

(* onSaved: it selects the connection for the sink it was asked for,        *)
(* whatever became of the form meanwhile.                                   *)
CreateAnswered(c) ==
  /\ c.conn # 0 /\ creating' = creating \ {c}
  /\ LET told == [drawer EXCEPT !.conns = @ \union {c.conn},
                    !.newFor = IF c.panel THEN 0 ELSE @, !.offer = @ /\ c.panel]
     IN  drawer' = Bound(told, [s \in Sinks |-> IF s = c.for THEN c.conn ELSE drawer.dests[s]])
  /\ chosen' = [chosen EXCEPT !.since = @ \union {c.for}]
  /\ UNCHANGED <<api, edited, savedSpec, saving, loads, launching, away, elsewhere>>

CreateFails(c) ==
  /\ creating' = creating \ {c} /\ drawer' = [drawer EXCEPT !.busy = @ /\ ~c.panel]
  /\ UNCHANGED <<api, edited, savedSpec, saving, loads, launching, away, chosen, elsewhere>>

-----------------------------------------------------------------------------
(* Launch.                                                                  *)

Launch ==
  /\ InForm /\ launching = NoLaunch /\ Missing(savedSpec, drawer.dests) = {}
  /\ launching' = [at |-> "sent", dests |-> drawer.dests, mode |-> drawer.mode]
  /\ UNCHANGED <<api, edited, savedSpec, saving, drawer, loads, creating, away, chosen,
                 elsewhere>>

(* validateDestinations: each sink of the spec needs one; a destination of  *)
(* no sink of it is not refused.                                            *)
Accepted(spec, bound) == SinksOf[spec] \subseteq bound

(* The API launches the current version, and keeps the choices for the next *)
(* launch.                                                                  *)
LaunchHandled ==
  /\ launching.at = "sent"
  /\ LET bound == {s \in Sinks : launching.dests[s] # 0}
     IN  IF api.versions # <<>> /\ Accepted(Last(api.versions), bound)
         THEN /\ launching' = [launching EXCEPT !.at = "launched"]
              /\ api' = [api EXCEPT !.kept =
                   [mode |-> launching.mode,
                    dests |-> [s \in Sinks |->
                                 IF s \in bound THEN launching.dests[s] ELSE @.dests[s]]]]
         ELSE launching' = [launching EXCEPT !.at = "refused"] /\ UNCHANGED api
  /\ UNCHANGED <<edited, savedSpec, saving, drawer, loads, creating, away, chosen, elsewhere>>

(* The answer: the drawer closes and the run's page opens.  With this page  *)
(* its state is gone, and nothing reads the rows of scenarios any more.     *)
Launched ==
  /\ launching.at = "launched" /\ away' = TRUE
  /\ api' = NoRows /\ load' = Fetching /\ editor' = Untyped /\ checks' = {}
  /\ currentSpec' = None /\ saved' = FALSE /\ savedSpec' = None /\ saving' = Idle
  /\ drawer' = Closed /\ loads' = {} /\ creating' = {} /\ launching' = NoLaunch
  /\ chosen' = Left(Closed) /\ elsewhere' = FALSE

LaunchFails ==
  /\ launching # NoLaunch /\ launching' = NoLaunch
  /\ UNCHANGED <<api, edited, savedSpec, saving, drawer, loads, creating, away, chosen,
                 elsewhere>>

-----------------------------------------------------------------------------
Page ==
  \/ RowLoaded \/ VersionsLoaded \/ Debounced
  \/ \E text \in Texts \ {First} : Edit(text)
  \/ \E c \in checks : Checked(c) \/ CheckFails(c)
  \/ Save \/ SaveHandled \/ SaveAnswered \/ SaveFails
  \/ \E no \in DOMAIN api.versions : Rollback(no)
  \/ \E text \in Valid : OthersSave(text)

Drawer ==
  \/ Open \/ Close \/ \E no \in loads : FormLoaded(no)
  \/ \E s \in Sinks : AskNew(s) \/ \E conn \in drawer.conns \union {0} : PickDestination(s, conn)
  \/ \E mode \in {"only", "live"} : PickMode(mode)
  \/ CancelNew \/ SaveNew \/ AddLocalKafka
  \/ \E c \in creating : CreateHandled(c) \/ CreateAnswered(c) \/ CreateFails(c)
  \/ Launch \/ LaunchHandled \/ LaunchFails

Next == ~away /\ (Page \/ Drawer \/ Launched) /\ UNCHANGED scope
Spec == Init /\ [][Next]_vars

-----------------------------------------------------------------------------
(* With no timer, validation or save under way: Save stores the text in the *)
(* editor, unless that is not JSON or an older validation was answered      *)
(* last; and Launch runs the spec whose sinks the drawer shows ("what a     *)
(* launch actually runs: the saved version"), unless the page was not told  *)
(* of a version.  In what is excepted something else is saved, or launched  *)
(* (README, "Departures").                                                  *)
DoesWhatItShows ==
  /\ editor.timer = None /\ checks = {} /\ editor.taken = editor.asked /\ editor.text \notin Broken
       => currentSpec = IF editor.text \in Valid THEN editor.text ELSE None
  /\ saving = Idle /\ ~elsewhere /\ savedSpec # None => savedSpec = Last(api.versions)

(* "Keeps a late response from overwriting a choice the user has already    *)
(* made" (launch-drawer.tsx), "keep every other entered value" (FR-046):    *)
(* late defaults never change the form the user has touched, however the    *)
(* drawer is closed and opened again while they are on their way.  The      *)
(* answer to a new connection does change it, in the destination of the     *)
(* sink it was asked for, which may be a later choice (README,              *)
(* "Departures"), and in the mode that follows from it; in nothing else.    *)
ChoicesKept ==
  drawer.open /\ drawer.loaded =>
    /\ \A s \in Sinks \ chosen.since : drawer.dests[s] = chosen.dests[s]
    /\ drawer.mode = chosen.mode \/ (chosen.since # {} /\ drawer.mode = "live")
=============================================================================
