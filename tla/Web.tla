---------------------------------- MODULE Web ----------------------------------
(***************************************************************************)
(* The web client on its way through a run: the scenario page with its     *)
(* launch drawer (Workspace), and the page of the run, which the answer to *)
(* the launch opens (RunPage).  A user may also come straight to the page  *)
(* of a run.  The worker of a run nobody looks at is not followed.         *)
(***************************************************************************)
EXTENDS RunPage

CONSTANTS Texts, Valid, Broken, SinksOf, First, Scopes   \* see Workspace

VARIABLES
  scope, api, load, editor, checks, currentSpec, saved, savedSpec, saving, drawer,
  loads, creating, launching, away, chosen, elsewhere    \* see Workspace

Work == INSTANCE Workspace

ASSUME WebAssumption ==
  /\ Valid \union Broken \union {First} \subseteq Texts /\ Valid \intersect Broken = {}
  /\ First \notin Valid \union Broken
  /\ Work!None \notin Texts /\ DOMAIN SinksOf = Valid /\ Work!Sinks \subseteq Nat \ {0}
  /\ Scopes \subseteq [edits : Nat, versions : Nat, conns : Nat, opens : Nat]

workVars == <<scope, api, load, editor, checks, currentSpec, saved, savedSpec, saving, drawer,
              loads, creating, launching, away, chosen, elsewhere>>
webVars  == <<pageVars, workVars>>

(* No page of a run is open. *)
NoRunPage ==
  /\ past = <<Rows("running", "none", "none")>> /\ tab = "other" /\ follow = FALSE
  /\ known = "unknown" /\ row = Blank /\ seen = Blank
  /\ polls = {} /\ wire = <<>> /\ sub = NoSub /\ calls = {}

WebInit ==
  \/ Work!Init /\ NoRunPage
  \/ PageInit /\ away = TRUE /\ api = Work!NoRows /\ Work!Blank
     /\ scope \in {s \in Scopes : s.opens > 0}

OnScenarioPage == ~away /\ (Work!Page \/ Work!Drawer) /\ UNCHANGED <<scope, pageVars>>

(* onLaunched: navigate(`/runs/${run.id}/progress`) *)
Navigates ==
  /\ ~away /\ Work!Launched /\ UNCHANGED <<scope, past>>
  /\ follow' = TRUE /\ OpensTab("progress", {})

OnRunPage == away /\ PageNext /\ UNCHANGED workVars

WebNext == OnScenarioPage \/ Navigates \/ OnRunPage
WebSpec == WebInit /\ [][WebNext]_webVars /\ Fairness

(* What the scenario page promises: see Workspace. *)
DoesWhatItShows == Work!DoesWhatItShows
ChoicesKept     == Work!ChoicesKept
=============================================================================
