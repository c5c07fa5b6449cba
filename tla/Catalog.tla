------------------------------ MODULE Catalog ------------------------------
(***************************************************************************)
(* What the API keeps in MySQL: a scenario with its spec versions, the     *)
(* connections, the runs with the destinations they were launched with,    *)
(* and the defaults of the last launch.  Requests are asynchronous: every  *)
(* query is one action, and another request may run between two queries    *)
(* of the same handler.  A crash of the API loses the requests under way;  *)
(* the next boot applies the operator's connections and seeds the local    *)
(* broker before it listens.                                               *)
(*                                                                         *)
(* Ids are positions: a version, connection or run is known by its place   *)
(* in the sequence of rows ever inserted; 0 is SQL's NULL.  Specs are      *)
(* known by their broker sinks, configs by identity.  Left out: the text   *)
(* and validity of specs and configs (inputs are valid ones), credentials, *)
(* seeds, names and descriptions of scenarios, several scenarios.          *)
(* A definition marked "slip" is a mistake the definition below it could   *)
(* contain, kept to show that a property notices it.                       *)
(***************************************************************************)
EXTENDS Naturals, SequencesExt

CONSTANTS
  Calls,      (* requests, each made at most once                          *)
  Broker,     (* of each spec: the type of each of its sinks but files     *)
  Template,   (* the spec of the template a scenario can be cloned from    *)
  Sinks,      (* sink names a launch may give a destination for            *)
  Types,      (* connection types                                          *)
  Names, Configs,
  Local,      (* the connection seedOnBoot registers: [name, type, cfg]    *)
  Env,        (* TXLOOM_CONNECTIONS_JSON: a sequence of [name, type, cfg]  *)
  Crashes     (* bound on crashes of the API                               *)

Specs == DOMAIN Broker
Modes == {"history_only", "history_then_live"}

ASSUME CatalogAssumption ==
  /\ Template \in Specs /\ Crashes \in Nat /\ IsFiniteSet(Sinks)
  /\ \A s \in Specs : Broker[s] \in UNION {[S -> Types] : S \in SUBSET Sinks}
  /\ Local \in [name : Names, type : Types, cfg : Configs]
  /\ Env \in Seq([name : Names, type : Types, cfg : Configs])

VARIABLES
  scenario,   (* "none", "kept" or "gone"                                  *)
  versions,   (* spec_versions: [no, spec, author, parent]                 *)
  current,    (* scenarios.current_version_id                              *)
  conns,      (* connections: [name, type, cfg, by, tested], or Gone       *)
  runs,       (* runs and run_destinations: [version, spec, from, status, dests] *)
  defaults,   (* [mode, dests]: launch and destination defaults            *)
  seeded,     (* settings.local_kafka_seeded                               *)
  server,     (* "env", "seed", "mark": booting; "up"                      *)
  crashes,
  call        (* where each request stands                                 *)

tables == <<scenario, versions, current, conns, runs, defaults, seeded>>
vars   == <<tables, server, crashes, call>>

Gone     == [by |-> "gone"]
Idle     == [op |-> "idle"]
Done     == [op |-> "done"]
NoConfig == "none"
NoDefaults == [mode |-> "none", dests |-> <<>>]

Kept(k) == k \in DOMAIN conns /\ conns[k] # Gone
Named(name) == {k \in DOMAIN conns : Kept(k) /\ conns[k].name = name}
Row(x, by) == [name |-> x.name, type |-> x.type, cfg |-> x.cfg, by |-> by,
               tested |-> NoConfig]
Version(n, s, a, p) == [no |-> n, spec |-> s, author |-> a, parent |-> p]

(* A new install, or one where a template was cloned, a connection saved    *)
(* for each of its sinks and a run launched.                                *)
Stock ==
  LET K    == SetToSeq(DOMAIN Broker[Template])
      rank == [s \in DOMAIN Broker[Template] |-> CHOOSE i \in DOMAIN K : K[i] = s]
      dest == [s \in DOMAIN Broker[Template] |->
                 [conn |-> rank[s], type |-> Broker[Template][s]]]
  IN  /\ scenario = "kept" /\ current = 1
      /\ versions = <<Version(1, Template, "user", 0)>>
      /\ \E name \in [DOMAIN K -> Names \ {Local.name}], cfg \in Configs :
           /\ IsInjective(name)
           /\ conns = [i \in DOMAIN K |->
                Row([name |-> name[i], type |-> Broker[Template][K[i]], cfg |-> cfg], "user")]
      /\ runs = << [version |-> 1, spec |-> Template, from |-> 0, status |-> "running",
                    dests |-> dest] >>
      /\ defaults = [mode |-> "history_then_live", dests |-> rank]

Init ==
  /\ \/ /\ scenario = "none" /\ current = 0 /\ versions = <<>> /\ conns = <<>>
        /\ runs = <<>> /\ defaults = NoDefaults
     \/ Stock
  /\ seeded = FALSE
  /\ server = "env"
  /\ crashes = 0
  /\ call = [c \in Calls |-> Idle]

(***************************************************************************)
(* Requests.  Begin starts one; At is a request that waits at its step     *)
(* "at"; To moves it on and Ends answers it.                               *)
(***************************************************************************)
Begin(c) == server = "up" /\ call[c] = Idle
At(c, op, at) == call[c].op = op /\ call[c].at = at
To(c, s)  == call' = [call EXCEPT ![c] = s] /\ UNCHANGED <<server, crashes>>
Ends(c)   == To(c, Done)

---------------------------------------------------------------------------
(* Scenarios and spec versions.                                            *)

ToSave(s, a, p) == [op |-> "save", at |-> "number", spec |-> s, author |-> a,
                    parent |-> p, no |-> 0]

(* POST /scenarios: a blank scenario, or a clone whose first version is the *)
(* template's spec.                                                         *)
CreateScenario(c) ==
  /\ Begin(c) /\ scenario = "none"
  /\ scenario' = "kept"
  /\ Ends(c) \/ To(c, ToSave(Template, "user", 0))
  /\ UNCHANGED <<versions, current, conns, runs, defaults, seeded>>

DeleteScenario(c) ==
  /\ Begin(c) /\ scenario = "kept"
  /\ scenario' = "gone" /\ current' = 0
  /\ versions' = <<>> /\ runs' = <<>> /\ defaults' = NoDefaults
  /\ Ends(c)
  /\ UNCHANGED <<conns, seeded>>

(* POST versions and POST rollback, up to SpecVersionRepository.create.  A  *)
(* version is never updated: that rollback reads it twice changes nothing.  *)
Save(c) ==
  /\ Begin(c) /\ scenario # "none"
  /\ \/ \E s \in Specs : To(c, ToSave(s, "user", 0))
     \/ \E v \in DOMAIN versions : To(c, ToSave(versions[v].spec, "rollback", v))
  /\ UNCHANGED tables

LastNo == IF versions = <<>> THEN 0 ELSE Last(versions).no

ReadLast(c) ==
  /\ At(c, "save", "number")
  /\ To(c, [call[c] EXCEPT !.at = "insert", !.no = LastNo + 1])
  /\ UNCHANGED tables

\* slip: the table has no unique (scenario_id, version_no)
InsertsTwice(s) == scenario = "kept"

(* The row's foreign key and the unique (scenario_id, version_no).          *)
Inserts(s) == scenario = "kept" /\ \A v \in DOMAIN versions : versions[v].no # s.no

InsertVersion(c) ==
  LET s == call[c] IN
  /\ At(c, "save", "insert")
  /\ IF Inserts(s)
       THEN /\ versions' = Append(versions, Version(s.no, s.spec, s.author, s.parent))
            /\ To(c, [op |-> "save", at |-> "point", version |-> Len(versions')])
       ELSE Ends(c) /\ UNCHANGED versions
  /\ UNCHANGED <<scenario, current, conns, runs, defaults, seeded>>

SetCurrentVersion(c) ==
  /\ At(c, "save", "point")
  /\ current' = IF scenario = "kept" THEN call[c].version ELSE current
  /\ Ends(c)
  /\ UNCHANGED <<scenario, versions, conns, runs, defaults, seeded>>

---------------------------------------------------------------------------
(* Connections.                                                            *)

CreateConnection(c) ==
  /\ Begin(c)
  /\ \E n \in Names, t \in Types, g \in Configs :
       IF Named(n) # {} THEN Ends(c)
       ELSE To(c, [op |-> "connect", at |-> "insert",
                   row |-> Row([name |-> n, type |-> t, cfg |-> g], "user")])
  /\ UNCHANGED tables

InsertConnection(c) ==
  /\ At(c, "connect", "insert")
  /\ conns' = IF Named(call[c].row.name) = {} THEN Append(conns, call[c].row) ELSE conns
  /\ Ends(c)
  /\ UNCHANGED <<scenario, versions, current, runs, defaults, seeded>>

(* PATCH and DELETE read the row first: it must exist and not be the        *)
(* operator's.  A new name must be free.                                    *)
EditConnection(c) ==
  /\ Begin(c)
  /\ \E k \in DOMAIN conns, n \in Names, g \in Configs :
       IF Kept(k) /\ conns[k].by # "env" /\ Named(n) \subseteq {k}
         THEN To(c, [op |-> "edit", at |-> "update", conn |-> k, name |-> n, cfg |-> g])
         ELSE Ends(c)
  /\ UNCHANGED tables

UpdateConnection(c) ==
  LET e == call[c] IN
  /\ At(c, "edit", "update")
  /\ conns' = IF Kept(e.conn) /\ Named(e.name) \subseteq {e.conn}
                THEN [conns EXCEPT ![e.conn].name = e.name, ![e.conn].cfg = e.cfg]
                ELSE conns
  /\ Ends(c)
  /\ UNCHANGED <<scenario, versions, current, runs, defaults, seeded>>

DeleteConnection(c) ==
  /\ Begin(c)
  /\ \E k \in DOMAIN conns :
       IF Kept(k) /\ conns[k].by # "env" THEN To(c, [op |-> "remove", at |-> "delete", conn |-> k])
       ELSE Ends(c)
  /\ UNCHANGED tables

(* run_destinations keep their row with no connection; the destination      *)
(* defaults that name it go with it.                                        *)
Forget(dests, k) ==
  [s \in DOMAIN dests |-> [dests[s] EXCEPT !.conn = IF @ = k THEN 0 ELSE @]]

Forgotten(k) == [r \in DOMAIN runs |-> [runs[r] EXCEPT !.dests = Forget(@, k)]]

RemoveConnection(c) ==
  LET k == call[c].conn IN
  /\ At(c, "remove", "delete")
  /\ conns' = [conns EXCEPT ![k] = Gone]
  /\ runs' = Forgotten(k)
  /\ defaults' = [defaults EXCEPT !.dests =
       [s \in {x \in DOMAIN @ : @[x] # k} |-> @[s]]]
  /\ Ends(c)
  /\ UNCHANGED <<scenario, versions, current, seeded>>

(* POST /connections/:id/test: the worker probes the config the row had     *)
(* when it was read; no answer within 15 s (there is no worker, or it is    *)
(* late) is an error, and the answer is lost.                               *)
TestConnection(c) ==
  /\ Begin(c)
  /\ \E k \in {x \in DOMAIN conns : Kept(x)} :
       To(c, [op |-> "test", at |-> "probing", conn |-> k, cfg |-> conns[k].cfg])
  /\ UNCHANGED tables

Probed(c) ==
  /\ At(c, "test", "probing")
  /\ To(c, [call[c] EXCEPT !.at = "record"])
  /\ UNCHANGED tables

WorkerUnavailable(c) ==
  /\ At(c, "test", "probing")
  /\ Ends(c)
  /\ UNCHANGED tables

RecordTestResult(c) ==
  LET t == call[c] IN
  /\ At(c, "test", "record")
  /\ conns' = IF Kept(t.conn) THEN [conns EXCEPT ![t.conn].tested = t.cfg] ELSE conns
  /\ Ends(c)
  /\ UNCHANGED <<scenario, versions, current, runs, defaults, seeded>>

---------------------------------------------------------------------------
(* Launching: POST runs and POST regenerate, up to the jobs.               *)

(* A destination map: connection of each sink the client names.             *)
Bindings == UNION {[S -> DOMAIN conns] : S \in SUBSET Sinks}

Launch(c) ==
  /\ Begin(c)
  /\ \E d \in Bindings, mode \in Modes :
       IF current = 0 THEN Ends(c)
       ELSE To(c, [op |-> "launch", at |-> "spec", version |-> current, dests |-> d,
                   mode |-> mode])
  /\ UNCHANGED tables

ReadVersion(c) ==
  LET l == call[c] IN
  /\ At(c, "launch", "spec")
  /\ IF l.version \in DOMAIN versions
       THEN To(c, [op |-> "launch", at |-> "check", version |-> l.version, dests |-> l.dests,
                   mode |-> l.mode, spec |-> versions[l.version].spec])
       ELSE Ends(c)
  /\ UNCHANGED tables

(* validateDestinations, then snapshotDestinations, which throws on a       *)
(* connection that does not exist for a sink the spec does not have.        *)
Validated(spec, d) ==
  /\ \A s \in DOMAIN Broker[spec] :
       s \in DOMAIN d /\ Kept(d[s]) /\ conns[d[s]].type = Broker[spec][s]
  /\ \A s \in DOMAIN d : Kept(d[s])

Snapshot(d) == [s \in DOMAIN d |-> [conn |-> d[s], type |-> conns[d[s]].type]]

CheckDestinations(c) ==
  LET l == call[c] IN
  /\ At(c, "launch", "check")
  /\ IF Validated(l.spec, l.dests)
       THEN To(c, [op |-> "launch", at |-> "insert", mode |-> l.mode,
                   run |-> [version |-> l.version, spec |-> l.spec, from |-> 0,
                            status |-> "running", dests |-> Snapshot(l.dests)]])
       ELSE Ends(c)
  /\ UNCHANGED tables

Regenerate(c) ==
  /\ Begin(c)
  /\ \E r \in DOMAIN runs :
       To(c, [op |-> "regenerate", at |-> "list", from |-> r,
              run |-> [runs[r] EXCEPT !.from = r, !.status = "running", !.dests = <<>>]])
  /\ UNCHANGED tables

ListDestinations(c) ==
  LET g == call[c] IN
  /\ At(c, "regenerate", "list")
  /\ To(c, [op |-> "regenerate", at |-> "insert", mode |-> "none",
            run |-> [g.run EXCEPT !.dests =
              IF g.from \in DOMAIN runs THEN runs[g.from].dests ELSE <<>>]])
  /\ UNCHANGED tables

\* slip: no transaction, so the run stays when its destinations are refused
InsertedInSteps(run) ==
  IF scenario # "kept" THEN runs
  ELSE Append(runs, [run EXCEPT !.dests =
         IF \A s \in DOMAIN @ : Kept(@[s].conn) THEN @ ELSE <<>>])

(* The transaction of launchGeneration: the run, its destinations and its   *)
(* partitions, or nothing.  A connection that is gone, and the "" that      *)
(* regenerate passes for one that was already, break the foreign key.       *)
Inserted(run) ==
  IF /\ scenario = "kept"
     /\ \A s \in DOMAIN run.dests : Kept(run.dests[s].conn)
    THEN Append(runs, run) ELSE runs

Insert(c) ==
  LET l == call[c] IN
  /\ l.op \in {"launch", "regenerate"} /\ l.at = "insert"
  /\ runs' = Inserted(l.run)
  /\ IF runs' # runs
       THEN To(c, [op |-> l.op, at |-> "queue", mode |-> l.mode, left |-> l.run.dests,
                   id |-> Len(runs')])
       ELSE Ends(c)
  /\ UNCHANGED <<scenario, versions, current, conns, defaults, seeded>>

(* The jobs are added after the commit; when that fails, so has the run.    *)
Queue(c) ==
  LET l == call[c] IN
  /\ l.op \in {"launch", "regenerate"} /\ l.at = "queue"
  /\ \/ /\ UNCHANGED runs
        /\ IF l.op = "launch" THEN To(c, [l EXCEPT !.at = "mode"]) ELSE Ends(c)
     \/ /\ runs' = IF l.id \in DOMAIN runs THEN [runs EXCEPT ![l.id].status = "failed"]
                   ELSE runs
        /\ Ends(c)
  /\ UNCHANGED <<scenario, versions, current, conns, defaults, seeded>>

(* A launch keeps its choices as the defaults of the next: the mode, then   *)
(* one destination at a time.  A row that breaks a foreign key ends it.     *)
KeepMode(c) ==
  LET l == call[c] IN
  /\ At(c, "launch", "mode")
  /\ defaults' = IF scenario = "kept" THEN [defaults EXCEPT !.mode = l.mode] ELSE defaults
  /\ IF scenario = "kept" THEN To(c, [l EXCEPT !.at = "destinations"]) ELSE Ends(c)
  /\ UNCHANGED <<scenario, versions, current, conns, runs, seeded>>

KeepDestination(c) ==
  LET l == call[c] IN
  /\ At(c, "launch", "destinations")
  /\ IF l.left = <<>> THEN Ends(c) /\ UNCHANGED defaults
     ELSE \E s \in DOMAIN l.left :
       LET k == l.left[s].conn IN
       IF scenario = "kept" /\ Kept(k)
         THEN /\ defaults' = [defaults EXCEPT !.dests = (s :> k) @@ @]
              /\ To(c, [l EXCEPT !.left = Restrict(@, DOMAIN @ \ {s})])
         ELSE Ends(c) /\ UNCHANGED defaults
  /\ UNCHANGED <<scenario, versions, current, conns, runs, seeded>>

---------------------------------------------------------------------------
(* The API boots and crashes.                                              *)

(* Every entry in order, by name.  The row that has the name keeps its type. *)
Upserted(rows, e) ==
  LET same == {k \in DOMAIN rows : rows[k] # Gone /\ rows[k].name = e.name} IN
  IF same = {} THEN Append(rows, Row(e, "env"))
  ELSE [k \in DOMAIN rows |->
         IF k \in same THEN [rows[k] EXCEPT !.cfg = e.cfg, !.by = "env"] ELSE rows[k]]

ApplyEnvConnections ==
  /\ server = "env"
  /\ conns' = FoldLeft(Upserted, conns, Env)
  /\ server' = "seed"
  /\ UNCHANGED <<scenario, versions, current, runs, defaults, seeded, crashes, call>>

IsRegistered == \E k \in DOMAIN conns :
  Kept(k) /\ conns[k].type = Local.type /\ conns[k].cfg = Local.cfg

(* The broker is reachable, or it is not.                                   *)
SeedOnBoot ==
  /\ server = "seed"
  /\ \/ server' = "up" /\ UNCHANGED conns
     \/ /\ ~seeded /\ ~IsRegistered
        /\ server' = "mark"
        /\ conns' = IF Named(Local.name) = {} THEN Append(conns, Row(Local, "auto")) ELSE conns
  /\ UNCHANGED <<scenario, versions, current, runs, defaults, seeded, crashes, call>>

MarkSeeded ==
  /\ server = "mark"
  /\ seeded' = TRUE
  /\ server' = "up"
  /\ UNCHANGED <<scenario, versions, current, conns, runs, defaults, crashes, call>>

Crash ==
  /\ crashes < Crashes
  /\ crashes' = crashes + 1
  /\ server' = "env"
  /\ call' = [c \in Calls |-> IF call[c] = Idle THEN Idle ELSE Done]
  /\ UNCHANGED tables

---------------------------------------------------------------------------
Next ==
  \/ ApplyEnvConnections \/ SeedOnBoot \/ MarkSeeded \/ Crash
  \/ \E c \in Calls :
       \/ CreateScenario(c) \/ DeleteScenario(c)
       \/ Save(c) \/ ReadLast(c) \/ InsertVersion(c) \/ SetCurrentVersion(c)
       \/ CreateConnection(c) \/ InsertConnection(c)
       \/ EditConnection(c) \/ UpdateConnection(c)
       \/ DeleteConnection(c) \/ RemoveConnection(c)
       \/ TestConnection(c) \/ Probed(c) \/ WorkerUnavailable(c) \/ RecordTestResult(c)
       \/ Launch(c) \/ ReadVersion(c) \/ CheckDestinations(c)
       \/ Regenerate(c) \/ ListDestinations(c)
       \/ Insert(c) \/ Queue(c) \/ KeepMode(c) \/ KeepDestination(c)

Spec == Init /\ [][Next]_vars

---------------------------------------------------------------------------
(* History is append-only however many saves and rollbacks overlap: a row   *)
(* once inserted stays as it is, numbers count up from 1 without a gap, and *)
(* a rollback's content is that of the version it names                     *)
(* (SpecVersionRepository).                                                 *)
HistoryKept == [][
  scenario' = "gone" \/
    /\ IsPrefix(versions, versions')
    /\ \A v \in DOMAIN versions' :
         LET row == versions'[v] IN
         /\ row.no = v
         /\ row.author = "rollback" => row.spec = versions'[row.parent].spec ]_vars

(* Whatever was edited, rolled back or deleted since, a run's record holds  *)
(* together: its snapshot is the content of its version; every broker sink  *)
(* of it has a destination of the sink's type, whose connection is that     *)
(* type's or was deleted; and a regenerated run has the snapshot and the    *)
(* destinations of the run it came from (launchGeneration, run-regenerate). *)
RecordsHold ==
  \A r \in DOMAIN runs :
    LET run == runs[r] IN
    /\ versions[run.version].spec = run.spec
    /\ \A s \in DOMAIN Broker[run.spec] :
         s \in DOMAIN run.dests /\ run.dests[s].type = Broker[run.spec][s]
    /\ \A s \in DOMAIN run.dests :
         LET d == run.dests[s] IN d.conn # 0 => Kept(d.conn) /\ conns[d.conn].type = d.type
    /\ run.from # 0 => run.spec = runs[run.from].spec /\ run.dests = runs[run.from].dests
=============================================================================
