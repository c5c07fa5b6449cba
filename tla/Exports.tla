------------------------------ MODULE Exports ------------------------------
(***************************************************************************)
(* Exports of a run's output while the run is generated, replayed, retried *)
(* and deleted.  Generation writes, per partition, a data file and an      *)
(* aligned label file, both in segments; a replay adds files of dropped    *)
(* deliveries; POST /runs/:id/exports writes a manifest and queues a job,  *)
(* whose build lists the directories, reads the files one after another    *)
(* and moves the manifest on.  Worker, API and the deletion of the outputs *)
(* share nothing but the run's directory.                                  *)
(*                                                                         *)
(* A segment is one row, known as <<partition, segment>>: rows of a file   *)
(* stay together.  The truth store and a sink's delivered copy are written *)
(* alike, so one pair of directories stands for either.  A Parquet file    *)
(* that is still open has no footer and cannot be read.  Left out: formats *)
(* and columns, the corruption labels (listed and read like the labels),   *)
(* the limit of two builds at a time.                                      *)
(* A definition marked "slip" is a mistake the definition below it could   *)
(* contain, kept to show that a property notices it.                       *)
(***************************************************************************)
EXTENDS Integers, SequencesExt

CONSTANTS
  Segs,       (* segments of each partition; at most ten of either, which  *)
              (* keeps the order of names within one digit                 *)
  Drops,      (* drop files the replay opens at most                       *)
  Exports,    (* exports, each asked for at most once                      *)
  Troubles    (* bound on failed attempts of generation and crashes of the *)
              (* worker, together                                          *)

Partitions == DOMAIN Segs
Rows == UNION {{p} \X (0..Segs[p] - 1) : p \in Partitions}
Dirs == {"data", "labels"}

ASSUME ExportsAssumption ==
  /\ Segs \in Seq(1..10) /\ Len(Segs) <= 10
  /\ Drops \in Nat /\ Troubles \in Nat

VARIABLES
  file,       (* of each directory and row: "none", "open" or "closed"     *)
  pos,        (* what each partition's writer has done, in file operations *)
  failures,
  drop,       (* of each drop file: "none", "open" or "closed"             *)
  deletion,   (* how far DELETE /runs/:id/outputs is                       *)
  manifest,   (* of each export: its manifest's status; "none": no file    *)
  request,    (* of each export: what was asked for                        *)
  job,        (* of each export: the state of its BullMQ job               *)
  stalls,     (* times a job was handed back                               *)
  build,      (* of each export: where its build stands                    *)
  crashes,
  whole,      (* history: the exports asked for once the files were whole, *)
              (* with the drop files there were then                       *)
  seen        (* history: how far the deletion was when the build of an    *)
              (* export listed its files                                   *)

disk  == <<file, pos, failures, drop, deletion>>
queue == <<manifest, request, job, stalls, build>>
told  == <<whole, seen>>
exportVars == <<disk, queue, crashes, told>>

Sources   == {"truth", "sink"}
NoRequest == [source |-> "none", merged |-> FALSE]
NoBuild   == [at |-> "idle"]

ExportInit ==
  /\ file = [d \in Dirs |-> [r \in Rows |-> "none"]]
  /\ pos = [p \in Partitions |-> 0]
  /\ failures = 0 /\ deletion = "none" /\ crashes = 0
  /\ drop = [i \in 1..Drops |-> "none"]
  /\ manifest = [e \in Exports |-> "none"]
  /\ request = [e \in Exports |-> NoRequest]
  /\ job = [e \in Exports |-> "none"]
  /\ stalls = [e \in Exports |-> 0]
  /\ build = [e \in Exports |-> NoBuild]
  /\ whole = [e \in Exports |-> [files |-> FALSE, drops |-> {}]]
  /\ seen = [e \in Exports |-> {}]

---------------------------------------------------------------------------
(* Generation: data and labels in lockstep, one row at a time.             *)

Generated == \A p \in Partitions : pos[p] = 4 * Segs[p]

(* The four operations of a segment: its data file opens, its label file    *)
(* opens, the data file closes, the label file closes.                      *)
Written(p) ==
  LET r == <<p, pos[p] \div 4>>
      k == pos[p] % 4
      d == IF k \in {0, 2} THEN "data" ELSE "labels"
  IN  IF k < 2 THEN [file EXCEPT ![d][r] = "open"]
      ELSE [file EXCEPT ![d][r] = IF @ = "open" THEN "closed" ELSE @]

Write(p) ==
  /\ pos[p] < 4 * Segs[p]
  /\ file' = Written(p)
  /\ pos' = [pos EXCEPT ![p] = @ + 1]
  /\ UNCHANGED <<failures, drop, deletion, queue, crashes, told>>

(* An attempt throws: its writers are closed, and the next starts over.     *)
AttemptFails(p) ==
  /\ 0 < pos[p] /\ pos[p] < 4 * Segs[p] /\ failures + crashes < Troubles
  /\ failures' = failures + 1
  /\ file' = [d \in Dirs |-> [r \in Rows |->
       IF r[1] = p /\ file[d][r] = "open" THEN "closed" ELSE file[d][r]]]
  /\ pos' = [pos EXCEPT ![p] = 0]
  /\ UNCHANGED <<drop, deletion, queue, crashes, told>>

(* The replay of the run opens a drop file for the first delivery it drops  *)
(* after a checkpoint, closes it at the next, or fails and removes it.      *)
Replay(i) ==
  /\ Generated
  /\ \/ /\ drop[i] = "none" /\ \A j \in 1..i-1 : drop[j] = "closed"
        /\ drop' = [drop EXCEPT ![i] = "open"]
     \/ /\ drop[i] = "open"
        /\ \E s \in {"closed", "none"} : drop' = [drop EXCEPT ![i] = s]
  /\ UNCHANGED <<file, pos, failures, deletion, queue, crashes, told>>

(* The files there are, complete or not.                                    *)
Present(d) == {r \in Rows : file[d][r] # "none"}

\* slip: the answer key takes the first drop file only
FirstDrop == {i \in 1..Drops : drop[i] # "none" /\ i = 1}

DropFiles == {i \in 1..Drops : drop[i] # "none"}

\* slip: the outputs are marked as deleted while they are still there
MarkedFirst ==
  /\ deletion = "none"
  /\ deletion' = "done"
  /\ UNCHANGED <<file, pos, failures, drop, queue, crashes, told>>

(* DELETE /runs/:id/outputs removes the run's directory, the manifests with *)
(* it, whatever is running; the route does not look.                        *)
DeleteOutputs ==
  /\ deletion = "none"
  /\ deletion' = "removing"
  /\ UNCHANGED <<file, pos, failures, drop, queue, crashes, told>>

(* rm, recursive: the files go one by one, in no order.                     *)
RemoveFile ==
  /\ deletion = "removing"
  /\ \/ \E d \in Dirs : \E r \in Present(d) :
          file' = [file EXCEPT ![d][r] = "none"] /\ UNCHANGED <<drop, manifest>>
     \/ \E i \in DropFiles :
          drop' = [drop EXCEPT ![i] = "none"] /\ UNCHANGED <<file, manifest>>
     \/ \E e \in Exports :
          /\ manifest[e] # "none"
          /\ manifest' = [manifest EXCEPT ![e] = "none"] /\ UNCHANGED <<file, drop>>
  /\ UNCHANGED <<pos, failures, deletion, request, job, stalls, build, crashes, told>>

(* The directory is empty, goes too, and the run is marked.  Written into   *)
(* meanwhile, rm fails, and what is left stays until DELETE is sent again.  *)
RemovalEnds ==
  /\ deletion = "removing"
  /\ \A d \in Dirs : Present(d) = {}
  /\ DropFiles = {} /\ \A e \in Exports : manifest[e] = "none"
  /\ deletion' = "done"
  /\ UNCHANGED <<file, pos, failures, drop, queue, crashes, told>>

---------------------------------------------------------------------------
(* The API.                                                                *)

RequestExport(e) ==
  /\ request[e] = NoRequest
  /\ \E source \in Sources, merged \in BOOLEAN :
       request' = [request EXCEPT ![e] = [source |-> source, merged |-> merged]]
  /\ manifest' = [manifest EXCEPT ![e] = "queued"]
  /\ whole' = [whole EXCEPT ![e] =
       [files |-> Generated /\ deletion = "none", drops |-> {i \in 1..Drops : drop[i] = "closed"}]]
  /\ UNCHANGED <<disk, job, stalls, build, crashes, seen>>

(* The job is added, or the manifest says that it could not be.  An API     *)
(* that dies in between does neither, and this never happens.               *)
QueueBuild(e) ==
  /\ request[e] # NoRequest /\ job[e] = "none"
  /\ \/ job' = [job EXCEPT ![e] = "waiting"] /\ UNCHANGED manifest
     \/ /\ job' = [job EXCEPT ![e] = "refused"]
        /\ manifest' = [manifest EXCEPT ![e] = "failed"]
  /\ UNCHANGED <<disk, request, stalls, build, crashes, told>>

---------------------------------------------------------------------------
(* The worker's build.                                                     *)

To(e, b) == build' = [build EXCEPT ![e] = b]
At(e, at) == job[e] = "active" /\ build[e].at = at

(* runExportBuild reads the manifest, which the deletion may have taken.    *)
TakeJob(e) ==
  /\ job[e] = "waiting"
  /\ IF manifest[e] = "none"
       THEN job' = [job EXCEPT ![e] = "failed"] /\ UNCHANGED build
       ELSE job' = [job EXCEPT ![e] = "active"] /\ To(e, [at |-> "start"])
  /\ UNCHANGED <<disk, manifest, request, stalls, crashes, told>>

MarkRunning(e) ==
  /\ At(e, "start")
  /\ manifest' = [manifest EXCEPT ![e] = "running"]
  /\ To(e, [at |-> "labels"])
  /\ seen' = [seen EXCEPT ![e] = {}]
  /\ UNCHANGED <<disk, request, job, stalls, crashes, whole>>

SortedBy(R, key) ==
  CHOOSE f \in [1..Cardinality(R) -> R] :
    \A i, j \in DOMAIN f : i < j => key[f[i]] < key[f[j]]

(* listPartSegments: by partition, then by segment.                         *)
BySegment(R) == SortedBy(R, [r \in Rows |-> 10 * r[1] + r[2]])

(* listAll: by name.  "labels-part-0.1.parquet" comes before                *)
(* "labels-part-0.parquet", so the first segment is last of its partition.  *)
Place(r) == IF r[2] = 0 THEN 10 ELSE r[2]
ByName(R) == SortedBy(R, [r \in Rows |-> 10 * r[1] + Place(r)])

Listing(e) == seen' = [seen EXCEPT ![e] = @ \union {deletion}]

ListLabels(e) ==
  /\ At(e, "labels")
  /\ To(e, [at |-> "data", labels |-> BySegment(Present("labels"))])
  /\ Listing(e)
  /\ UNCHANGED <<disk, manifest, request, job, stalls, crashes, whole>>

Fails(e) == To(e, [at |-> "failing"])

ListData(e) ==
  LET data == BySegment(Present("data")) IN
  /\ At(e, "data")
  /\ CASE request[e].source = "truth" ->
            To(e, [at |-> "rows", data |-> data, aligned |-> build[e].labels,
                   key |-> build[e].labels, drops |-> {}, rows |-> <<>>])
       [] request[e].source = "sink" /\ data = <<>> -> Fails(e)
       [] OTHER -> To(e, [at |-> "aligned", data |-> data, key |-> build[e].labels])
  /\ Listing(e)
  /\ UNCHANGED <<disk, manifest, request, job, stalls, crashes, whole>>

(* The sink's own label files, then its corruptions and drop files.         *)
ListSink(e) ==
  LET b == build[e] IN
  /\ At(e, "aligned")
  /\ To(e, [at |-> "rows", data |-> b.data, aligned |-> ByName(Present("labels")),
            key |-> b.key, drops |-> DropFiles, rows |-> <<>>])
  /\ Listing(e)
  /\ UNCHANGED <<disk, manifest, request, job, stalls, crashes, whole>>

Readable(d, r) == file[d][r] = "closed"
None == <<>>

(* The next data file and, when labels are merged, the label file that is   *)
(* as far down its list; past the list's end there is no label.             *)
ReadRow(e) ==
  LET b == build[e]
      i == Len(b.rows) + 1
      label == IF request[e].merged /\ i <= Len(b.aligned) THEN b.aligned[i] ELSE None
  IN
  /\ At(e, "rows") /\ i <= Len(b.data)
  /\ IF Readable("data", b.data[i]) /\ (label # None => Readable("labels", label))
       THEN To(e, [b EXCEPT !.rows = Append(@, [row |-> b.data[i], label |-> label])])
       ELSE Fails(e)
  /\ UNCHANGED <<disk, manifest, request, job, stalls, crashes, told>>

(* The answer key, a file of its own unless the labels were merged.         *)
ReadKey(e) ==
  LET b == build[e] IN
  /\ At(e, "rows") /\ Len(b.rows) = Len(b.data)
  /\ IF \/ request[e].merged
        \/ /\ \A i \in DOMAIN b.key : Readable("labels", b.key[i])
           /\ \A i \in b.drops : drop[i] = "closed"
       THEN To(e, [b EXCEPT !.at = "completing"])
       ELSE Fails(e)
  /\ UNCHANGED <<disk, manifest, request, job, stalls, crashes, told>>

(* The manifest is written again even when the outputs are gone.            *)
Finish(e) ==
  /\ job[e] = "active" /\ build[e].at \in {"completing", "failing"}
  /\ manifest' = [manifest EXCEPT ![e] =
       IF build[e].at = "completing" THEN "completed" ELSE "failed"]
  /\ job' = [job EXCEPT ![e] = "done"]
  /\ UNCHANGED <<disk, request, stalls, build, crashes, told>>

---------------------------------------------------------------------------
(* The worker dies.  Files stay as they are, unfinished ones too; BullMQ    *)
(* hands a stalled job back once, and fails it the next time, telling no    *)
(* one.                                                                     *)
\* slip: a stalled build is failed at once
HandedBackNever(e) == FALSE

HandedBack(e) == stalls[e] = 0

Crash ==
  /\ failures + crashes < Troubles
  /\ crashes' = crashes + 1
  /\ pos' = [p \in Partitions |-> IF pos[p] < 4 * Segs[p] THEN 0 ELSE pos[p]]
  /\ job' = [e \in Exports |-> IF job[e] # "active" THEN job[e]
                               ELSE IF HandedBack(e) THEN "waiting" ELSE "failed"]
  /\ stalls' = [e \in Exports |-> IF job[e] = "active" THEN stalls[e] + 1 ELSE stalls[e]]
  /\ build' = [e \in Exports |-> IF job[e] = "active" THEN NoBuild ELSE build[e]]
  /\ UNCHANGED <<file, failures, drop, deletion, manifest, request, told>>

Step(e) ==
  \/ TakeJob(e) \/ MarkRunning(e) \/ ListLabels(e) \/ ListData(e) \/ ListSink(e)
  \/ ReadRow(e) \/ ReadKey(e) \/ Finish(e)

ExportNext ==
  \/ \E p \in Partitions : Write(p) \/ AttemptFails(p)
  \/ \E i \in 1..Drops : Replay(i)
  \/ DeleteOutputs \/ RemoveFile \/ RemovalEnds \/ Crash
  \/ \E e \in Exports : RequestExport(e) \/ QueueBuild(e) \/ Step(e)

ExportSpec == ExportInit /\ [][ExportNext]_exportVars

(* The worker is restarted and works its queue off.                         *)
FairExports == ExportSpec /\ \A e \in Exports : WF_exportVars(Step(e))

---------------------------------------------------------------------------
(* An export that completed and was asked for when the run's files were     *)
(* whole, and listed them before a deletion began, has every row once, in   *)
(* partition and segment order, even if they are removed under it; a truth  *)
(* export with merged labels has each row's own label next to it; and a     *)
(* sink's answer key has every label and every delivery that was dropped by *)
(* then (SC-004), however the replay, a crash and a deletion interleave     *)
(* with the build.  One that listed when the deletion was over has no row.  *)
ExportsWhole ==
  \A e \in Exports :
    LET b == build[e] IN
    manifest[e] = "completed" /\ whole[e].files =>
      /\ seen[e] = {"done"} => b.rows = <<>>
      /\ seen[e] = {"none"} =>
           /\ [i \in DOMAIN b.rows |-> b.rows[i].row] = BySegment(Rows)
           /\ request[e] = [source |-> "truth", merged |-> TRUE] =>
                \A i \in DOMAIN b.rows : b.rows[i].label = b.rows[i].row
           /\ request[e] = [source |-> "sink", merged |-> FALSE] =>
                ToSet(b.key) = Rows /\ whole[e].drops \subseteq b.drops

(* A queued build settles its manifest through one crash of the worker,     *)
(* unless the outputs are deleted (runExportBuild).                         *)
ExportEnds ==
  \A e \in Exports :
    job[e] = "waiting" ~> deletion # "none" \/ manifest[e] \in {"completed", "failed"}

(* Not checked: the code departs from it (README, "Departures").  A         *)
(* completed export of whole files has all of their rows or, the outputs    *)
(* deleted, none: never some of them.                                       *)
AllRowsOrNone ==
  \A e \in Exports :
    manifest[e] = "completed" /\ whole[e].files =>
      ToSet([i \in DOMAIN build[e].rows |-> build[e].rows[i].row]) \in {{}, Rows}

(* Not checked: the code departs from it (README, "Departures").            *)
(* "Fraud labels aligned 1:1 with the delivered rows" (export-build.ts:123) *)
(* and "row i of `labels` is the label of row i of `data`" (:43), for a     *)
(* sink's export of a finished run.                                         *)
SinkRowsOwnLabels ==
  \A e \in Exports :
    (/\ manifest[e] = "completed" /\ whole[e].files
     /\ request[e] = [source |-> "sink", merged |-> TRUE])
    => \A i \in DOMAIN build[e].rows : build[e].rows[i].label = build[e].rows[i].row
=============================================================================
