---------------------------- MODULE Catalog_proofs ----------------------------
(***************************************************************************)
(* A scenario's versions are append-only, and the record of a run holds    *)
(* together, for any number of requests, specs, connections and crashes,   *)
(* however saves, launches, regenerations, edits and deletions overlap,    *)
(* and whatever connections the operator configures (by induction over     *)
(* the configured list).  The web client over these tables does what its   *)
(* scenario page shows, and keeps what the user chose in its drawer.       *)
(***************************************************************************)
EXTENDS Catalog, Web, FiniteSetTheorems, WellFoundedInduction, TLAPS

VersionRows == [no : Nat, spec : Specs, author : {"user", "rollback"}, parent : Nat]

SaveCalls == [op : {"save"}, at : {"number", "insert"}, spec : Specs,
              author : {"user", "rollback"}, parent : Nat, no : Nat]

(* A row that was inserted is numbered by its place, and a rollback repeats *)
(* a row before it.  Only a scenario that is there has any.                 *)
RowsNumbered ==
  /\ scenario \in {"none", "kept", "gone"}
  /\ versions \in Seq(VersionRows)
  /\ scenario # "kept" => versions = <<>>
  /\ \A v \in 1..Len(versions) :
       /\ versions[v].no = v
       /\ versions[v].author = "rollback" =>
            /\ versions[v].parent \in 1..Len(versions)
            /\ versions[v].spec = versions[versions[v].parent].spec

Saving(c) == call[c].op = "save" /\ call[c].at # "point"

(* What a save under way has read stays true while the scenario is there:   *)
(* the number it will insert is at most the next one, and a rollback's      *)
(* version still has the spec that was read.                                *)
SavesTrue ==
  /\ call = [c \in Calls |-> call[c]]
  /\ \A c \in Calls : "op" \in DOMAIN call[c]
  /\ \A c \in Calls : Saving(c) =>
       /\ call[c] \in SaveCalls
       /\ scenario # "none"
       /\ scenario = "kept" =>
            /\ call[c].at = "insert" => call[c].no \in 1..(Len(versions) + 1)
            /\ call[c].author = "rollback" =>
                 /\ call[c].parent \in 1..Len(versions)
                 /\ call[c].spec = versions[call[c].parent].spec

IInv == RowsNumbered /\ SavesTrue

-----------------------------------------------------------------------------
(* The invariant holds at first and is kept by every step.                  *)

LEMMA InitKeeps == ASSUME Init PROVE IInv
<1>1. RowsNumbered
  <2>1. CASE scenario = "none" /\ versions = <<>>
    BY <2>1 DEF RowsNumbered
  <2>2. CASE Stock
    <3>1. scenario = "kept" /\ versions = <<Version(1, Template, "user", 0)>>
      BY <2>2 DEF Stock
    <3>2. Version(1, Template, "user", 0) \in VersionRows
      BY CatalogAssumption DEF Version, VersionRows
    <3>3. /\ Len(versions) = 1 /\ versions \in Seq(VersionRows)
          /\ versions[1].no = 1 /\ versions[1].author = "user"
      BY <3>1, <3>2 DEF Version
    <3>4. QED BY <3>1, <3>3 DEF RowsNumbered
  <2>3. QED BY <2>1, <2>2 DEF Init
<1>2. SavesTrue
  BY DEF Init, SavesTrue, Saving, Idle
<1>3. QED BY <1>1, <1>2 DEF IInv

(* A request that goes on, or ends, without a save and without a change of  *)
(* scenario and versions.                                                   *)
LEMMA CallKeeps ==
  ASSUME IInv, NEW c \in Calls, NEW STATE s, To(c, s), "op" \in DOMAIN s, s.op # "save",
         UNCHANGED <<scenario, versions>>
  PROVE  IInv'
<1>1. RowsNumbered'
  BY DEF IInv, RowsNumbered
<1>2. call' = [call EXCEPT ![c] = s] /\ call = [d \in Calls |-> call[d]]
  BY DEF To, IInv, SavesTrue
<1>3. \A d \in Calls : call'[d] = IF d = c THEN s ELSE call[d]
  BY <1>2
<1>4. call' = [d \in Calls |-> call'[d]]
  BY <1>2
<1>5. \A d \in Calls : Saving(d)' => d # c /\ Saving(d)
  BY <1>3 DEF Saving
<1>6. SavesTrue'
  BY <1>3, <1>4, <1>5 DEF IInv, SavesTrue
<1>7. QED BY <1>1, <1>6 DEF IInv

(* Any other step that leaves scenario, versions and requests alone.        *)
LEMMA RestKeeps ==
  ASSUME IInv, UNCHANGED <<scenario, versions, call>> PROVE IInv'
<1>1. RowsNumbered'
  BY DEF IInv, RowsNumbered
<1>2. SavesTrue'
  BY DEF IInv, SavesTrue, Saving
<1>3. QED BY <1>1, <1>2 DEF IInv

(* A save goes on with what it has read, while the rows stay as they are.   *)
LEMMA SaveKeeps ==
  ASSUME IInv, NEW c \in Calls, NEW STATE s, To(c, s), s \in SaveCalls,
         UNCHANGED <<scenario, versions>>, scenario # "none",
         scenario = "kept" =>
            /\ s.at = "insert" => s.no \in 1..(Len(versions) + 1)
            /\ s.author = "rollback" =>
                 s.parent \in 1..Len(versions) /\ s.spec = versions[s.parent].spec
  PROVE  IInv'
<1>1. RowsNumbered'
  BY DEF IInv, RowsNumbered
<1>2. call' = [call EXCEPT ![c] = s] /\ call = [d \in Calls |-> call[d]]
  BY DEF To, IInv, SavesTrue
<1>3. \A d \in Calls : call'[d] = IF d = c THEN s ELSE call[d]
  BY <1>2
<1>4. call' = [d \in Calls |-> call'[d]]
  BY <1>2
<1>5. \A d \in Calls : "op" \in DOMAIN call'[d]
  BY <1>3 DEF IInv, SavesTrue, SaveCalls
<1>6. \A d \in Calls : Saving(d)' /\ d # c => Saving(d) /\ call'[d] = call[d]
  BY <1>3 DEF Saving
<1>7. SavesTrue'
  <2> SUFFICES ASSUME NEW d \in Calls, Saving(d)'
               PROVE  /\ call'[d] \in SaveCalls
                      /\ scenario' # "none"
                      /\ scenario' = "kept" =>
                           /\ call'[d].at = "insert" => call'[d].no \in 1..(Len(versions') + 1)
                           /\ call'[d].author = "rollback" =>
                                /\ call'[d].parent \in 1..Len(versions')
                                /\ call'[d].spec = versions'[call'[d].parent].spec
    BY <1>4, <1>5 DEF SavesTrue
  <2>1. CASE d = c
    BY <1>3, <2>1
  <2>2. CASE d # c
    BY <1>6, <2>2 DEF IInv, SavesTrue
  <2>3. QED BY <2>1, <2>2
<1>8. QED BY <1>1, <1>7 DEF IInv

LEMMA CreateScenarioKeeps ==
  ASSUME IInv, NEW c \in Calls, CreateScenario(c) PROVE IInv'
<1>1. /\ scenario = "none" /\ scenario' = "kept" /\ versions' = versions
      /\ Ends(c) \/ To(c, ToSave(Template, "user", 0))
  BY DEF CreateScenario
<1>2. RowsNumbered'
  BY <1>1 DEF IInv, RowsNumbered
<1>3. \A d \in Calls : ~Saving(d)
  BY <1>1 DEF IInv, SavesTrue
<1>4. PICK s \in {Done, ToSave(Template, "user", 0)} : call' = [call EXCEPT ![c] = s]
  BY <1>1 DEF Ends, To
<1>5. /\ call' = [d \in Calls |-> call'[d]]
      /\ \A d \in Calls : call'[d] = IF d = c THEN s ELSE call[d]
  BY <1>4 DEF IInv, SavesTrue
<1>6. /\ "op" \in DOMAIN s
      /\ s.op = "save" => s \in SaveCalls /\ s.at = "number" /\ s.author = "user"
  BY CatalogAssumption DEF Done, ToSave, SaveCalls
<1>7. SavesTrue'
  <2> SUFFICES ASSUME NEW d \in Calls, Saving(d)'
               PROVE  call'[d] \in SaveCalls /\ call'[d].at = "number" /\ call'[d].author = "user"
    BY <1>1, <1>5, <1>6 DEF SavesTrue, IInv
  <2>1. d = c
    BY <1>3, <1>5 DEF Saving
  <2>2. QED BY <1>5, <1>6, <2>1 DEF Saving
<1>8. QED BY <1>2, <1>7 DEF IInv

LEMMA DeleteScenarioKeeps ==
  ASSUME IInv, NEW c \in Calls, DeleteScenario(c) PROVE IInv'
<1>1. /\ scenario' = "gone" /\ versions' = <<>>
      /\ call' = [call EXCEPT ![c] = Done]
  BY DEF DeleteScenario, Ends, To
<1>2. RowsNumbered'
  BY <1>1 DEF RowsNumbered
<1>3. /\ call' = [d \in Calls |-> call'[d]]
      /\ \A d \in Calls : call'[d] = IF d = c THEN Done ELSE call[d]
  BY <1>1 DEF IInv, SavesTrue
<1>4. \A d \in Calls : Saving(d)' => Saving(d) /\ call'[d] = call[d]
  BY <1>3 DEF Saving, Done
<1>5. SavesTrue'
  BY <1>1, <1>3, <1>4 DEF IInv, SavesTrue, Done
<1>6. QED BY <1>2, <1>5 DEF IInv

LEMMA SaveBegins ==
  ASSUME IInv, NEW c \in Calls, Save(c) PROVE IInv'
<1>1. UNCHANGED <<scenario, versions>> /\ scenario # "none"
  BY DEF Save, tables
<1>2. CASE \E s \in Specs : To(c, ToSave(s, "user", 0))
  <2>1. PICK s \in Specs : To(c, ToSave(s, "user", 0))
    BY <1>2
  <2>2. ToSave(s, "user", 0) \in SaveCalls
    BY DEF ToSave, SaveCalls
  <2>3. ToSave(s, "user", 0).at = "number" /\ ToSave(s, "user", 0).author = "user"
    BY DEF ToSave
  <2>4. QED BY <1>1, <2>1, <2>2, <2>3, SaveKeeps
<1>3. CASE \E v \in DOMAIN versions : To(c, ToSave(versions[v].spec, "rollback", v))
  <2>1. PICK v \in DOMAIN versions : To(c, ToSave(versions[v].spec, "rollback", v))
    BY <1>3
  <2> DEFINE s == ToSave(versions[v].spec, "rollback", v)
  <2>2. v \in 1..Len(versions) /\ versions[v] \in VersionRows
    BY <2>1 DEF IInv, RowsNumbered
  <2>3. /\ s \in SaveCalls
        /\ s.at = "number" /\ s.parent = v /\ s.spec = versions[v].spec
    BY <2>2 DEF ToSave, SaveCalls, VersionRows
  <2> HIDE DEF s
  <2>4. To(c, s)
    BY <2>1 DEF s
  <2>5. QED BY <1>1, <2>2, <2>3, <2>4, SaveKeeps
<1>4. QED BY <1>2, <1>3 DEF Save

(* A save that has read the last number keeps what it read before.          *)
LEMMA Renumbered ==
  ASSUME NEW save \in SaveCalls, NEW n \in Nat
  PROVE  LET s == [save EXCEPT !.at = "insert", !.no = n]
         IN  /\ s \in SaveCalls /\ s.no = n
             /\ s.author = save.author /\ s.parent = save.parent /\ s.spec = save.spec
  BY DEF SaveCalls

LEMMA ReadLastKeeps ==
  ASSUME IInv, NEW c \in Calls, ReadLast(c) PROVE IInv'
<1> DEFINE s == [call[c] EXCEPT !.at = "insert", !.no = LastNo + 1]
<1>1. /\ UNCHANGED <<scenario, versions>> /\ To(c, s)
      /\ call[c].op = "save" /\ call[c].at = "number"
  BY DEF ReadLast, At, tables
<1>2. /\ call[c] \in SaveCalls /\ scenario # "none"
      /\ scenario = "kept" /\ call[c].author = "rollback" =>
           call[c].parent \in 1..Len(versions) /\ call[c].spec = versions[call[c].parent].spec
  BY <1>1 DEF IInv, SavesTrue, Saving
<1>3. LastNo + 1 \in 1..(Len(versions) + 1)
  <2>1. CASE versions = <<>>
    BY <2>1 DEF LastNo
  <2>2. CASE versions # <<>>
    <3>1. Len(versions) \in 1..Len(versions)
      BY <2>2 DEF IInv, RowsNumbered
    <3>2. LastNo = Len(versions)
      BY <2>2, <3>1 DEF LastNo, Last, IInv, RowsNumbered
    <3>3. QED BY <3>1, <3>2
  <2>3. QED BY <2>1, <2>2
<1>4. /\ s \in SaveCalls /\ s.no = LastNo + 1
      /\ s.author = call[c].author /\ s.parent = call[c].parent /\ s.spec = call[c].spec
  <2>1. LastNo + 1 \in Nat
    BY <1>3
  <2>2. QED BY <1>2, <2>1, Renumbered
<1> HIDE DEF s
<1>5. QED BY <1>1, <1>2, <1>3, <1>4, SaveKeeps

(* The unique key turns "at most the next number" into the next number.     *)
LEMMA NextNumber ==
  ASSUME IInv, NEW c \in Calls, InsertVersion(c), Inserts(call[c])
  PROVE  /\ scenario' = "kept" /\ scenario = "kept"
         /\ \E entry \in VersionRows :
              /\ versions' = Append(versions, entry)
              /\ entry.no = Len(versions) + 1
              /\ entry.author = "rollback" =>
                   entry.parent \in 1..Len(versions) /\ entry.spec = versions[entry.parent].spec
<1> DEFINE entry == Version(call[c].no, call[c].spec, call[c].author, call[c].parent)
<1>1. /\ scenario = "kept" /\ scenario' = scenario
      /\ call[c].op = "save" /\ call[c].at = "insert"
      /\ versions' = Append(versions, entry)
      /\ \A v \in DOMAIN versions : versions[v].no # call[c].no
  BY DEF InsertVersion, Inserts, At
<1>2. /\ call[c] \in SaveCalls /\ call[c].no \in 1..(Len(versions) + 1)
      /\ call[c].author = "rollback" =>
           call[c].parent \in 1..Len(versions) /\ call[c].spec = versions[call[c].parent].spec
  BY <1>1 DEF IInv, SavesTrue, Saving
<1>3. call[c].no \notin 1..Len(versions)
  BY <1>1 DEF IInv, RowsNumbered
<1>4. call[c].no = Len(versions) + 1
  BY <1>2, <1>3 DEF IInv, RowsNumbered
<1>5. /\ entry \in VersionRows
      /\ entry.no = call[c].no /\ entry.author = call[c].author
      /\ entry.parent = call[c].parent /\ entry.spec = call[c].spec
  BY <1>2 DEF Version, VersionRows, SaveCalls
<1> HIDE DEF entry
<1>6. QED BY <1>1, <1>2, <1>4, <1>5

(* One more row at the end leaves those before it as they are.              *)
LEMMA OneMoreRow ==
  ASSUME NEW rows \in Seq(VersionRows), NEW entry \in VersionRows
  PROVE  /\ Append(rows, entry) \in Seq(VersionRows)
         /\ Len(Append(rows, entry)) = Len(rows) + 1 /\ Len(rows) \in Nat
         /\ Append(rows, entry)[Len(rows) + 1] = entry
         /\ \A v \in 1..Len(rows) : Append(rows, entry)[v] = rows[v]
         /\ IsPrefix(rows, Append(rows, entry))
<1>1. /\ Append(rows, entry) \in Seq(VersionRows)
      /\ Len(Append(rows, entry)) = Len(rows) + 1 /\ Len(rows) \in Nat
      /\ Append(rows, entry)[Len(rows) + 1] = entry
      /\ \A v \in 1..Len(rows) : Append(rows, entry)[v] = rows[v]
  OBVIOUS
<1>2. SubSeq(rows, 1, Len(rows)) = SubSeq(Append(rows, entry), 1, Len(rows))
  BY <1>1
<1>3. QED BY <1>1, <1>2 DEF IsPrefix

LEMMA InsertVersionKeeps ==
  ASSUME IInv, NEW c \in Calls, InsertVersion(c) PROVE IInv'
<1>1. CASE Inserts(call[c])
  <2>1. PICK entry \in VersionRows :
          /\ scenario' = "kept" /\ scenario = "kept"
          /\ versions' = Append(versions, entry) /\ entry.no = Len(versions) + 1
          /\ entry.author = "rollback" =>
               entry.parent \in 1..Len(versions) /\ entry.spec = versions[entry.parent].spec
    BY <1>1, NextNumber
  <2>2. /\ versions' \in Seq(VersionRows)
        /\ Len(versions') = Len(versions) + 1 /\ Len(versions) \in Nat
        /\ versions'[Len(versions) + 1] = entry
        /\ \A v \in 1..Len(versions) : versions'[v] = versions[v]
    BY <2>1, OneMoreRow DEF IInv, RowsNumbered
  <2>3. \A v \in 1..Len(versions') : v \in 1..Len(versions) \/ v = Len(versions) + 1
    BY <2>2
  <2>4. RowsNumbered'
    <3> SUFFICES ASSUME NEW v \in 1..Len(versions')
                 PROVE  /\ versions'[v].no = v
                        /\ versions'[v].author = "rollback" =>
                             /\ versions'[v].parent \in 1..Len(versions')
                             /\ versions'[v].spec = versions'[versions'[v].parent].spec
      BY <2>1, <2>2 DEF RowsNumbered
    <3>1. CASE v \in 1..Len(versions)
      <4>1. versions'[v] = versions[v] /\ versions[v].no = v
        BY <2>2, <3>1 DEF IInv, RowsNumbered
      <4>2. versions[v].author = "rollback" =>
              /\ versions[v].parent \in 1..Len(versions)
              /\ versions[v].spec = versions[versions[v].parent].spec
        BY <3>1 DEF IInv, RowsNumbered
      <4>3. QED BY <2>2, <4>1, <4>2
    <3>2. CASE v = Len(versions) + 1
      BY <2>1, <2>2, <3>2
    <3>3. QED BY <2>3, <3>1, <3>2
  <2> DEFINE s == [op |-> "save", at |-> "point", version |-> Len(versions')]
  <2>5. call' = [call EXCEPT ![c] = s] /\ "op" \in DOMAIN s /\ s.at = "point"
    BY <1>1 DEF InsertVersion, To
  <2> HIDE DEF s
  <2>6. /\ call' = [d \in Calls |-> call'[d]]
        /\ \A d \in Calls : call'[d] = IF d = c THEN s ELSE call[d]
    BY <2>5 DEF IInv, SavesTrue
  <2>7. \A d \in Calls : Saving(d)' => Saving(d) /\ call'[d] = call[d]
    BY <2>5, <2>6 DEF Saving
  <2>8. SavesTrue'
    <3> SUFFICES ASSUME NEW d \in Calls, Saving(d)'
                 PROVE  /\ call'[d] \in SaveCalls
                        /\ scenario' # "none"
                        /\ call'[d].at = "insert" => call'[d].no \in 1..(Len(versions') + 1)
                        /\ call'[d].author = "rollback" =>
                             /\ call'[d].parent \in 1..Len(versions')
                             /\ call'[d].spec = versions'[call'[d].parent].spec
      BY <2>5, <2>6 DEF IInv, SavesTrue
    <3>1. /\ call'[d] = call[d] /\ call[d] \in SaveCalls
          /\ call[d].at = "insert" => call[d].no \in 1..(Len(versions) + 1)
          /\ call[d].author = "rollback" =>
               call[d].parent \in 1..Len(versions) /\ call[d].spec = versions[call[d].parent].spec
      BY <2>1, <2>7 DEF IInv, SavesTrue
    <3>2. QED BY <2>1, <2>2, <3>1
  <2>9. QED BY <2>4, <2>8 DEF IInv
<1>2. CASE ~Inserts(call[c])
  <2>1. To(c, Done) /\ UNCHANGED <<scenario, versions>>
    BY <1>2 DEF InsertVersion, Ends
  <2>2. QED BY <2>1, CallKeeps DEF Done
<1>3. QED BY <1>1, <1>2

(* The steps of a request that is no save.                                  *)
LEMMA OthersKeep ==
  ASSUME IInv, NEW c \in Calls,
         \/ SetCurrentVersion(c)
         \/ CreateConnection(c) \/ InsertConnection(c)
         \/ EditConnection(c) \/ UpdateConnection(c)
         \/ DeleteConnection(c) \/ RemoveConnection(c)
         \/ TestConnection(c) \/ Probed(c) \/ WorkerUnavailable(c) \/ RecordTestResult(c)
         \/ Launch(c) \/ ReadVersion(c) \/ CheckDestinations(c)
         \/ Regenerate(c) \/ ListDestinations(c)
         \/ Insert(c) \/ Queue(c) \/ KeepMode(c) \/ KeepDestination(c)
  PROVE  IInv'
<1> DEFINE Moves == \E s : To(c, s) /\ "op" \in DOMAIN s /\ s.op # "save"
<1>1. UNCHANGED <<scenario, versions>>
  BY DEF SetCurrentVersion, CreateConnection, InsertConnection, EditConnection,
         UpdateConnection, DeleteConnection, RemoveConnection, TestConnection, Probed,
         WorkerUnavailable, RecordTestResult, Launch, ReadVersion, CheckDestinations,
         Regenerate, ListDestinations, Insert, Queue, KeepMode, KeepDestination, tables
<1>2. "op" \in DOMAIN call[c]
  BY DEF IInv, SavesTrue
<1>3. Ends(c) => Moves
  BY DEF Ends, Done
<1>4. ASSUME SetCurrentVersion(c) \/ InsertConnection(c) \/ UpdateConnection(c)
             \/ RemoveConnection(c) \/ WorkerUnavailable(c) \/ RecordTestResult(c)
      PROVE  Moves
  BY <1>3, <1>4 DEF SetCurrentVersion, InsertConnection, UpdateConnection, RemoveConnection,
                    WorkerUnavailable, RecordTestResult
<1>5. ASSUME CreateConnection(c) PROVE Moves
  BY <1>3, <1>5 DEF CreateConnection
<1>6. ASSUME EditConnection(c) PROVE Moves
  BY <1>3, <1>6 DEF EditConnection
<1>7. ASSUME DeleteConnection(c) PROVE Moves
  BY <1>3, <1>7 DEF DeleteConnection
<1>8. ASSUME TestConnection(c) PROVE Moves
  BY <1>8 DEF TestConnection
<1>9. ASSUME Probed(c) PROVE Moves
  BY <1>2, <1>9 DEF Probed, At
<1>10. ASSUME Launch(c) PROVE Moves
  BY <1>3, <1>10 DEF Launch
<1>11. ASSUME ReadVersion(c) PROVE Moves
  BY <1>3, <1>11 DEF ReadVersion
<1>12. ASSUME CheckDestinations(c) PROVE Moves
  BY <1>3, <1>12 DEF CheckDestinations
<1>13. ASSUME Regenerate(c) PROVE Moves
  <2>1. PICK r \in DOMAIN runs :
          To(c, [op |-> "regenerate", at |-> "list", from |-> r,
                 run |-> [runs[r] EXCEPT !.from = r, !.status = "running", !.dests = <<>>]])
    BY <1>13 DEF Regenerate
  <2> DEFINE run == [runs[r] EXCEPT !.from = r, !.status = "running", !.dests = <<>>]
             s   == [op |-> "regenerate", at |-> "list", from |-> r, run |-> run]
  <2>2. To(c, s)
    BY <2>1
  <2> HIDE DEF run
  <2>3. "op" \in DOMAIN s /\ s.op # "save"
    OBVIOUS
  <2> HIDE DEF s
  <2>4. QED BY <2>2, <2>3
<1>14. ASSUME ListDestinations(c) PROVE Moves
  BY <1>14 DEF ListDestinations
<1>15. ASSUME Insert(c) PROVE Moves
  BY <1>3, <1>15 DEF Insert
<1>16. ASSUME Queue(c) PROVE Moves
  BY <1>2, <1>3, <1>16 DEF Queue
<1>17. ASSUME KeepMode(c) PROVE Moves
  BY <1>2, <1>3, <1>17 DEF KeepMode, At
<1>18. ASSUME KeepDestination(c) PROVE Moves
  <2>1. CASE Ends(c)
    BY <1>3, <2>1
  <2>2. CASE ~Ends(c)
    <3>1. PICK s0 \in DOMAIN call[c].left :
            To(c, [call[c] EXCEPT !.left = Restrict(@, DOMAIN @ \ {s0})])
      BY <1>18, <2>2 DEF KeepDestination
    <3> DEFINE left == Restrict(call[c].left, DOMAIN call[c].left \ {s0})
               s    == [call[c] EXCEPT !.left = left]
    <3>2. To(c, s)
      BY <3>1
    <3> HIDE DEF left
    <3>3. call[c].op # "save"
      BY <1>18 DEF KeepDestination, At
    <3>4. "op" \in DOMAIN s /\ s.op # "save"
      BY <1>2, <3>3
    <3> HIDE DEF s
    <3>5. QED BY <3>2, <3>4
  <2>3. QED BY <2>1, <2>2
<1>19. Moves
  BY <1>4, <1>5, <1>6, <1>7, <1>8, <1>9, <1>10, <1>11, <1>12, <1>13, <1>14, <1>15,
     <1>16, <1>17, <1>18
<1>20. PICK s : To(c, s) /\ "op" \in DOMAIN s /\ s.op # "save"
  BY <1>19
<1>21. QED BY <1>1, <1>20, CallKeeps

LEMMA CrashKeeps == ASSUME IInv, Crash PROVE IInv'
<1>1. UNCHANGED <<scenario, versions>>
      /\ call' = [c \in Calls |-> IF call[c] = Idle THEN Idle ELSE Done]
  BY DEF Crash, tables
<1>2. RowsNumbered'
  BY <1>1 DEF IInv, RowsNumbered
<1>3. \A c \in Calls : call'[c] = Idle \/ call'[c] = Done
  BY <1>1
<1>4. SavesTrue'
  BY <1>1, <1>3 DEF SavesTrue, Saving, Idle, Done
<1>5. QED BY <1>2, <1>4 DEF IInv

LEMMA NextKeeps == ASSUME IInv, [Next]_vars PROVE IInv'
<1>1. CASE UNCHANGED vars
  BY <1>1, RestKeeps DEF vars, tables
<1>2. CASE ApplyEnvConnections
  BY <1>2, RestKeeps DEF ApplyEnvConnections
<1>3. CASE SeedOnBoot
  BY <1>3, RestKeeps DEF SeedOnBoot
<1>4. CASE MarkSeeded
  BY <1>4, RestKeeps DEF MarkSeeded
<1>5. CASE Crash
  BY <1>5, CrashKeeps
<1>6. ASSUME NEW c \in Calls, CreateScenario(c) \/ DeleteScenario(c) PROVE IInv'
  BY <1>6, CreateScenarioKeeps, DeleteScenarioKeeps
<1>7. ASSUME NEW c \in Calls, Save(c) \/ ReadLast(c) \/ InsertVersion(c) PROVE IInv'
  BY <1>7, SaveBegins, ReadLastKeeps, InsertVersionKeeps
<1>8. QED BY <1>1, <1>2, <1>3, <1>4, <1>5, <1>6, <1>7, OthersKeep DEF Next

-----------------------------------------------------------------------------
(* Only a save's insertion adds a row, and only the deletion of the         *)
(* scenario takes rows away.                                                *)
LEMMA RowsChange ==
  ASSUME [Next]_vars
  PROVE  \/ versions' = versions
         \/ \E c \in Calls : DeleteScenario(c)
         \/ \E c \in Calls : InsertVersion(c) /\ Inserts(call[c])
<1>1. CASE UNCHANGED vars
  BY <1>1 DEF vars, tables
<1>2. CASE ApplyEnvConnections \/ SeedOnBoot \/ MarkSeeded \/ Crash
  BY <1>2 DEF ApplyEnvConnections, SeedOnBoot, MarkSeeded, Crash, tables
<1>3. ASSUME NEW c \in Calls,
             \/ CreateScenario(c) \/ Save(c) \/ ReadLast(c) \/ SetCurrentVersion(c)
             \/ CreateConnection(c) \/ InsertConnection(c)
             \/ EditConnection(c) \/ UpdateConnection(c)
             \/ DeleteConnection(c) \/ RemoveConnection(c)
      PROVE  versions' = versions
  BY <1>3 DEF CreateScenario, Save, ReadLast, SetCurrentVersion, CreateConnection,
              InsertConnection, EditConnection, UpdateConnection, DeleteConnection,
              RemoveConnection, tables
<1>4. ASSUME NEW c \in Calls,
             \/ TestConnection(c) \/ Probed(c) \/ WorkerUnavailable(c) \/ RecordTestResult(c)
             \/ Launch(c) \/ ReadVersion(c) \/ CheckDestinations(c)
             \/ Regenerate(c) \/ ListDestinations(c)
             \/ Insert(c) \/ Queue(c) \/ KeepMode(c) \/ KeepDestination(c)
      PROVE  versions' = versions
  BY <1>4 DEF TestConnection, Probed, WorkerUnavailable, RecordTestResult, Launch, ReadVersion,
              CheckDestinations, Regenerate, ListDestinations, Insert, Queue, KeepMode,
              KeepDestination, tables
<1>5. ASSUME NEW c \in Calls, InsertVersion(c)
      PROVE  versions' = versions \/ Inserts(call[c])
  BY <1>5 DEF InsertVersion
<1>6. QED BY <1>1, <1>2, <1>3, <1>4, <1>5 DEF Next

(* However many saves, rollbacks and crashes overlap, a row once inserted   *)
(* stays as it is, versions are numbered without a gap, and a rollback has  *)
(* the content of the version it names (SpecVersionRepository).             *)
THEOREM VersionsAppendOnly == Spec => HistoryKept
<1> DEFINE RowsKept ==
      scenario' = "gone" \/
        /\ IsPrefix(versions, versions')
        /\ \A v \in DOMAIN versions' :
             LET entry == versions'[v] IN
             /\ entry.no = v
             /\ entry.author = "rollback" => entry.spec = versions'[entry.parent].spec
<1>1. Init => IInv
  BY InitKeeps
<1>2. IInv /\ [Next]_vars => IInv'
  BY NextKeeps
<1>3. ASSUME IInv, [Next]_vars PROVE RowsKept \/ UNCHANGED vars
  <2>1. IInv'
    BY <1>2, <1>3
  <2>2. CASE \E c \in Calls : DeleteScenario(c)
    BY <2>2 DEF DeleteScenario
  <2>3. ASSUME IsPrefix(versions, versions') PROVE RowsKept
    BY <2>1, <2>3 DEF IInv, RowsNumbered
  <2>4. CASE versions' = versions
    <3>1. versions \in Seq(VersionRows)
      BY <1>3 DEF IInv, RowsNumbered
    <3>2. IsPrefix(versions, versions')
      BY <2>4, <3>1 DEF IsPrefix
    <3>3. QED BY <2>3, <3>2
  <2>5. CASE \E c \in Calls : InsertVersion(c) /\ Inserts(call[c])
    <3>1. PICK entry \in VersionRows : versions' = Append(versions, entry)
      BY <1>3, <2>5, NextNumber
    <3>2. IsPrefix(versions, versions')
      BY <1>3, <3>1, OneMoreRow DEF IInv, RowsNumbered
    <3>3. QED BY <2>3, <3>2
  <2>6. QED BY <1>3, <2>2, <2>4, <2>5, RowsChange
<1>4. Spec => []IInv
  BY <1>1, <1>2, PTL DEF Spec
<1>5. QED BY <1>3, <1>4, PTL DEF Spec, HistoryKept

-----------------------------------------------------------------------------
(* The records of the runs.                                                 *)

ConnRows == [name : Names, type : Types, cfg : Configs, by : {"user", "env", "auto"},
             tested : Configs \union {NoConfig}]
Entries  == [name : Names, type : Types, cfg : Configs]
Bound    == UNION {[S -> Nat] : S \in SUBSET Sinks}
Dests    == UNION {[S -> [conn : Nat, type : Types]] : S \in SUBSET Sinks}
RunRows  == [version : Nat, spec : Specs, from : Nat, status : {"running", "failed"},
             dests : Dests]
Copies   == [version : Nat, spec : Specs, from : Nat, status : {"running", "failed"},
             dests : {<<>>}]

(* The tables are parameters, so that what holds of a request can be said   *)
(* of the tables before a step and after it.                                *)
KeptIn(k, cs) == k \in DOMAIN cs /\ cs[k] # Gone

OfVersion(run, vs) == run.version \in 1..Len(vs) /\ vs[run.version].spec = run.spec

Complete(run) ==
  \A s \in DOMAIN Broker[run.spec] :
    s \in DOMAIN run.dests /\ run.dests[s].type = Broker[run.spec][s]

OfItsType(d, cs) == d.conn \in 0..Len(cs) /\ (KeptIn(d.conn, cs) => cs[d.conn].type = d.type)

(* What a regeneration will insert is what the run has, but for connections *)
(* that were deleted since it was read: then it will not be inserted.       *)
CopyOf(run, rs, cs) ==
  /\ run.from \in 1..Len(rs)
  /\ run.spec = rs[run.from].spec
  /\ DOMAIN run.dests = DOMAIN rs[run.from].dests
  /\ \A s \in DOMAIN run.dests :
       run.dests[s] = rs[run.from].dests[s] \/ ~KeptIn(run.dests[s].conn, cs)

(* What a launch or a regeneration under way has read, and how much of it   *)
(* is still true.                                                           *)
Launching(x, sc, vs, cs, rs) ==
  /\ sc # "none" /\ "at" \in DOMAIN x
  /\ x.at = "spec"  => x.dests \in Bound
  /\ x.at = "check" =>
       /\ x.dests \in Bound /\ x.spec \in Specs /\ x.version \in Nat
       /\ sc = "kept" => OfVersion(x, vs)
  /\ x.at = "list" =>
       /\ x.run \in Copies /\ x.run.from = x.from /\ x.from # 0
       /\ sc = "kept" => /\ OfVersion(x.run, vs)
                         /\ x.from \in 1..Len(rs) /\ x.run.spec = rs[x.from].spec
  /\ x.at = "insert" /\ sc = "kept" =>
       /\ x.run \in RunRows
       /\ OfVersion(x.run, vs) /\ Complete(x.run)
       /\ \A s \in DOMAIN x.run.dests : OfItsType(x.run.dests[s], cs)
       /\ x.run.from # 0 => CopyOf(x.run, rs, cs)

CallTrue(x, sc, vs, cs, rs) ==
  /\ "op" \in DOMAIN x
  /\ x.op = "connect" => x.row \in ConnRows
  /\ x.op = "edit" => x.name \in Names /\ x.cfg \in Configs
  /\ x.op = "test" => {"at", "cfg"} \subseteq DOMAIN x /\ x.cfg \in Configs
  /\ x.op \in {"launch", "regenerate"} => Launching(x, sc, vs, cs, rs)

TablesTrue(sc, vs, cs, rs) ==
  /\ cs \in Seq(ConnRows \union {Gone}) /\ rs \in Seq(RunRows)
  /\ sc # "kept" => rs = <<>>
  /\ \A r \in 1..Len(rs) :
       /\ OfVersion(rs[r], vs) /\ Complete(rs[r])
       /\ \A s \in DOMAIN rs[r].dests :
            /\ OfItsType(rs[r].dests[s], cs)
            /\ rs[r].dests[s].conn # 0 => KeptIn(rs[r].dests[s].conn, cs)
       /\ rs[r].from # 0 => /\ rs[r].from \in 1..Len(rs)
                            /\ rs[r].spec = rs[rs[r].from].spec
                            /\ rs[r].dests = rs[rs[r].from].dests

Records ==
  /\ scenario = "none" => current = 0
  /\ TablesTrue(scenario, versions, conns, runs)
  /\ \A c \in Calls : CallTrue(call[c], scenario, versions, conns, runs)

-----------------------------------------------------------------------------
(* What a step may do to the tables while a request waits: rows are added,  *)
(* connections keep their type until they are deleted, and runs what they   *)
(* were launched with, but for those connections.                           *)
LaterConns(cs, cs2) ==
  /\ Len(cs) <= Len(cs2)
  /\ \A k \in 1..Len(cs) : cs2[k] # Gone => cs[k] # Gone /\ cs2[k].type = cs[k].type

LaterVersions(vs, vs2) == Len(vs) <= Len(vs2) /\ \A v \in 1..Len(vs) : vs2[v] = vs[v]

LaterRuns(rs, rs2, cs2) ==
  /\ Len(rs) <= Len(rs2)
  /\ \A r \in 1..Len(rs) :
       /\ rs2[r].spec = rs[r].spec /\ DOMAIN rs2[r].dests = DOMAIN rs[r].dests
       /\ \A s \in DOMAIN rs[r].dests :
            rs2[r].dests[s] = rs[r].dests[s] \/ ~KeptIn(rs[r].dests[s].conn, cs2)

Later(sc, vs, cs, rs, sc2, vs2, cs2, rs2) ==
  /\ vs \in Seq(VersionRows) /\ cs \in Seq(ConnRows \union {Gone})
  /\ vs2 \in Seq(VersionRows) /\ cs2 \in Seq(ConnRows \union {Gone})
  /\ rs \in Seq(RunRows) /\ rs2 \in Seq(RunRows)
  /\ sc # "none" => sc2 # "none"
  /\ sc # "none" /\ sc2 = "kept" =>
       sc = "kept" /\ LaterConns(cs, cs2) /\ LaterVersions(vs, vs2) /\ LaterRuns(rs, rs2, cs2)

LEMMA StillOfVersion ==
  ASSUME NEW vs \in Seq(VersionRows), NEW vs2 \in Seq(VersionRows), LaterVersions(vs, vs2),
         NEW run, OfVersion(run, vs)
  PROVE  OfVersion(run, vs2)
BY DEF LaterVersions, OfVersion

LEMMA StillOfItsType ==
  ASSUME NEW cs \in Seq(ConnRows \union {Gone}), NEW cs2 \in Seq(ConnRows \union {Gone}),
         LaterConns(cs, cs2), NEW d, OfItsType(d, cs)
  PROVE  OfItsType(d, cs2) /\ (~KeptIn(d.conn, cs) => ~KeptIn(d.conn, cs2))
<1>1. DOMAIN cs = 1..Len(cs) /\ DOMAIN cs2 = 1..Len(cs2) /\ Len(cs) \in Nat /\ Len(cs2) \in Nat
  OBVIOUS
<1>2. QED BY <1>1 DEF LaterConns, OfItsType, KeptIn

LEMMA StillCopyOf ==
  ASSUME NEW cs \in Seq(ConnRows \union {Gone}), NEW cs2 \in Seq(ConnRows \union {Gone}),
         LaterConns(cs, cs2), NEW rs \in Seq(RunRows), NEW rs2 \in Seq(RunRows),
         LaterRuns(rs, rs2, cs2), NEW run, CopyOf(run, rs, cs),
         \A s \in DOMAIN run.dests : OfItsType(run.dests[s], cs)
  PROVE  CopyOf(run, rs2, cs2)
<1>1. run.from \in 1..Len(rs) /\ run.from \in 1..Len(rs2)
  BY DEF CopyOf, LaterRuns
<1>2. run.spec = rs2[run.from].spec /\ DOMAIN run.dests = DOMAIN rs2[run.from].dests
  BY <1>1 DEF CopyOf, LaterRuns
<1>3. ASSUME NEW s \in DOMAIN run.dests
      PROVE  run.dests[s] = rs2[run.from].dests[s] \/ ~KeptIn(run.dests[s].conn, cs2)
  <2>1. CASE ~KeptIn(run.dests[s].conn, cs)
    BY <1>3, <2>1, StillOfItsType
  <2>2. CASE run.dests[s] = rs[run.from].dests[s]
    BY <1>1, <1>3, <2>2 DEF CopyOf, LaterRuns
  <2>3. QED BY <1>3, <2>1, <2>2 DEF CopyOf
<1>4. QED BY <1>1, <1>2, <1>3 DEF CopyOf

LEMMA StillTrue ==
  ASSUME NEW x, NEW sc, NEW vs, NEW cs, NEW rs, NEW sc2, NEW vs2, NEW cs2, NEW rs2,
         Later(sc, vs, cs, rs, sc2, vs2, cs2, rs2), CallTrue(x, sc, vs, cs, rs)
  PROVE  CallTrue(x, sc2, vs2, cs2, rs2)
<1>0. SUFFICES ASSUME x.op \in {"launch", "regenerate"} PROVE Launching(x, sc2, vs2, cs2, rs2)
  BY DEF CallTrue
<1>1. Launching(x, sc, vs, cs, rs)
  BY <1>0 DEF CallTrue
<1>2. sc # "none" /\ sc2 # "none" /\ "at" \in DOMAIN x
  BY <1>1 DEF Launching, Later
<1>3. ASSUME sc2 = "kept"
      PROVE  sc = "kept" /\ LaterConns(cs, cs2) /\ LaterVersions(vs, vs2) /\ LaterRuns(rs, rs2, cs2)
  BY <1>2, <1>3 DEF Later
<1>4. /\ vs \in Seq(VersionRows) /\ cs \in Seq(ConnRows \union {Gone})
      /\ vs2 \in Seq(VersionRows) /\ cs2 \in Seq(ConnRows \union {Gone})
      /\ rs \in Seq(RunRows) /\ rs2 \in Seq(RunRows)
  BY DEF Later
<1>5. ASSUME x.at = "check", sc2 = "kept" PROVE OfVersion(x, vs2)
  BY <1>1, <1>3, <1>4, <1>5, StillOfVersion DEF Launching
<1>6. ASSUME x.at = "list", sc2 = "kept"
      PROVE  OfVersion(x.run, vs2) /\ x.from \in 1..Len(rs2) /\ x.run.spec = rs2[x.from].spec
  <2>1. OfVersion(x.run, vs) /\ x.from \in 1..Len(rs) /\ x.run.spec = rs[x.from].spec
    BY <1>1, <1>3, <1>6 DEF Launching
  <2>2. \A r : OfVersion(r, vs) => OfVersion(r, vs2)
    BY <1>3, <1>4, <1>6, StillOfVersion
  <2>3. Len(rs) \in Nat /\ Len(rs2) \in Nat
    BY <1>4
  <2>4. QED BY <1>3, <1>6, <2>1, <2>2, <2>3 DEF LaterRuns
<1>7. ASSUME x.at = "insert", sc2 = "kept"
      PROVE  /\ x.run \in RunRows
             /\ OfVersion(x.run, vs2) /\ Complete(x.run)
             /\ \A s \in DOMAIN x.run.dests : OfItsType(x.run.dests[s], cs2)
             /\ x.run.from # 0 => CopyOf(x.run, rs2, cs2)
  <2>1. /\ x.run \in RunRows
        /\ OfVersion(x.run, vs) /\ Complete(x.run)
        /\ \A s \in DOMAIN x.run.dests : OfItsType(x.run.dests[s], cs)
        /\ x.run.from # 0 => CopyOf(x.run, rs, cs)
    BY <1>1, <1>3, <1>7, Zenon DEF Launching
  <2>2. PICK run : run = x.run
    OBVIOUS
  <2>3. OfVersion(run, vs2)
    BY <1>3, <1>4, <1>7, <2>1, <2>2, StillOfVersion
  <2>4. \A d : OfItsType(d, cs) => OfItsType(d, cs2)
    BY <1>3, <1>4, <1>7, StillOfItsType
  <2>5. run.from # 0 => CopyOf(run, rs2, cs2)
    BY <1>3, <1>4, <1>7, <2>1, <2>2, StillCopyOf
  <2>6. QED BY <2>1, <2>2, <2>3, <2>4, <2>5, Zenon
<1>8. QED BY <1>1, <1>2, <1>5, <1>6, <1>7, Zenon DEF Launching

(* A request goes on, or ends, and the tables change as they may.           *)
LEMMA RequestMoves ==
  ASSUME IInv, Records, NEW c \in Calls, NEW STATE s, To(c, s),
         Later(scenario, versions, conns, runs, scenario', versions', conns', runs'),
         TablesTrue(scenario', versions', conns', runs'),
         scenario' = "none" => current' = 0,
         CallTrue(s, scenario', versions', conns', runs')
  PROVE  Records'
<1>1. call' = [call EXCEPT ![c] = s] /\ call = [d \in Calls |-> call[d]]
  BY DEF To, IInv, SavesTrue
<1>2. \A d \in Calls : call'[d] = IF d = c THEN s ELSE call[d]
  BY <1>1
<1>3. ASSUME NEW d \in Calls
      PROVE  CallTrue(call'[d], scenario', versions', conns', runs')
  <2>1. CASE d = c
    BY <1>2, <2>1
  <2>2. CASE d # c
    <3>1. CallTrue(call[d], scenario, versions, conns, runs)
      BY DEF Records
    <3>2. CallTrue(call[d], scenario', versions', conns', runs')
      BY <3>1, StillTrue
    <3>3. QED BY <1>2, <2>2, <3>2
  <2>3. QED BY <2>1, <2>2
<1>4. QED BY <1>3 DEF Records

(* Nothing but requests changes.                                            *)
LEMMA NothingLater ==
  ASSUME IInv, Records
  PROVE  /\ Later(scenario, versions, conns, runs, scenario, versions, conns, runs)
         /\ TablesTrue(scenario, versions, conns, runs)
<1>1. /\ versions \in Seq(VersionRows) /\ conns \in Seq(ConnRows \union {Gone})
      /\ runs \in Seq(RunRows) /\ TablesTrue(scenario, versions, conns, runs)
  BY DEF IInv, RowsNumbered, Records, TablesTrue
<1>2. LaterConns(conns, conns) /\ LaterVersions(versions, versions)
  BY <1>1 DEF LaterConns, LaterVersions
<1>3. LaterRuns(runs, runs, conns)
  BY <1>1 DEF LaterRuns
<1>4. QED BY <1>1, <1>2, <1>3 DEF Later

LEMMA OnlyTheRequest ==
  ASSUME IInv, Records, NEW c \in Calls, NEW STATE s, To(c, s),
         UNCHANGED <<scenario, versions, conns, runs, current>>,
         CallTrue(s, scenario, versions, conns, runs)
  PROVE  Records'
<1>1. /\ scenario' = scenario /\ versions' = versions /\ conns' = conns /\ runs' = runs
      /\ current' = current
  OBVIOUS
<1>2. /\ Later(scenario, versions, conns, runs, scenario', versions', conns', runs')
      /\ TablesTrue(scenario', versions', conns', runs')
      /\ CallTrue(s, scenario', versions', conns', runs')
  BY <1>1, NothingLater
<1>3. scenario' = "none" => current' = 0
  BY <1>1 DEF Records
<1>4. QED BY <1>2, <1>3, RequestMoves

(* A request that was answered, and one that knows nothing of the tables.   *)
LEMMA NothingToKeep ==
  ASSUME NEW x, "op" \in DOMAIN x,
         x.op \notin {"connect", "edit", "test", "launch", "regenerate"},
         NEW sc, NEW vs, NEW cs, NEW rs
  PROVE  CallTrue(x, sc, vs, cs, rs)
BY DEF CallTrue

LEMMA Replied ==
  ASSUME NEW sc, NEW vs, NEW cs, NEW rs
  PROVE  CallTrue(Done, sc, vs, cs, rs) /\ CallTrue(Idle, sc, vs, cs, rs)
<1>1. \A x : x = Done \/ x = Idle => CallTrue(x, sc, vs, cs, rs)
  BY NothingToKeep DEF Done, Idle
<1>2. QED BY <1>1

-----------------------------------------------------------------------------
(* Connections come and change, and keep their type.                        *)
Grown(cs, cs2) ==
  /\ cs2 \in Seq(ConnRows \union {Gone})
  /\ Len(cs) <= Len(cs2)
  /\ \A k \in 1..Len(cs) : /\ cs2[k] = Gone <=> cs[k] = Gone
                           /\ cs[k] # Gone => cs2[k].type = cs[k].type

LEMMA GrowOn ==
  ASSUME NEW a \in Seq(ConnRows \union {Gone}), NEW b, NEW c, Grown(a, b), Grown(b, c)
  PROVE  Grown(a, c)
<1>1. Len(a) \in Nat /\ Len(b) \in Nat /\ Len(c) \in Nat
  BY DEF Grown
<1>2. ASSUME NEW k \in 1..Len(a)
      PROVE  (c[k] = Gone <=> a[k] = Gone) /\ (a[k] # Gone => c[k].type = a[k].type)
  <2>1. k \in 1..Len(b)
    BY <1>1 DEF Grown
  <2>2. (b[k] = Gone <=> a[k] = Gone) /\ (a[k] # Gone => b[k].type = a[k].type)
    BY Zenon DEF Grown
  <2>3. (c[k] = Gone <=> b[k] = Gone) /\ (b[k] # Gone => c[k].type = b[k].type)
    BY <2>1, Zenon DEF Grown
  <2>4. QED BY <2>2, <2>3
<1>3. Len(a) <= Len(c) /\ c \in Seq(ConnRows \union {Gone})
  BY <1>1 DEF Grown
<1>4. QED BY <1>2, <1>3, Zenon DEF Grown

LEMMA RowsAreRows ==
  /\ \A x \in ConnRows : x # Gone
  /\ \A x \in Entries : \A by \in {"user", "env", "auto"} :
       Row(x, by) \in ConnRows /\ Row(x, by).type = x.type
<1>1. \A x \in ConnRows : x.by # "gone"
  BY DEF ConnRows
<1>2. Gone.by = "gone"
  BY DEF Gone
<1>3. QED BY <1>1, <1>2 DEF Row, ConnRows, Entries

LEMMA GrowByOne ==
  ASSUME NEW cs \in Seq(ConnRows \union {Gone}), NEW x \in ConnRows
  PROVE  Grown(cs, cs) /\ Grown(cs, Append(cs, x))
<1>1. Grown(cs, cs)
  BY DEF Grown
<1>2. Grown(cs, Append(cs, x))
  BY DEF Grown
<1>3. QED BY <1>1, <1>2

(* Rows that are there are edited.                                          *)
LEMMA GrowInPlace ==
  ASSUME NEW cs \in Seq(ConnRows \union {Gone}), NEW cs2, Len(cs2) = Len(cs),
         cs2 \in [1..Len(cs) -> ConnRows \union {Gone}],
         \A k \in 1..Len(cs) :
           cs2[k] = cs[k] \/ (/\ cs[k] # Gone /\ cs2[k] \in ConnRows
                              /\ cs2[k].type = cs[k].type)
  PROVE  Grown(cs, cs2)
<1>1. cs2 \in Seq(ConnRows \union {Gone})
  OBVIOUS
<1>2. QED BY <1>1, RowsAreRows DEF Grown

LEMMA GrownIsLater ==
  ASSUME NEW cs \in Seq(ConnRows \union {Gone}), NEW cs2, Grown(cs, cs2)
  PROVE  /\ LaterConns(cs, cs2)
         /\ \A k \in 0..Len(cs) : KeptIn(k, cs) => KeptIn(k, cs2)
<1>1. cs2 \in Seq(ConnRows \union {Gone}) /\ Len(cs) \in Nat /\ Len(cs2) \in Nat
  BY DEF Grown
<1>2. ASSUME NEW k \in 1..Len(cs)
      PROVE  /\ cs2[k] # Gone => cs[k] # Gone /\ cs2[k].type = cs[k].type
             /\ cs[k] # Gone => cs2[k] # Gone
  BY Zenon DEF Grown
<1>3. LaterConns(cs, cs2)
  BY <1>2, Zenon DEF Grown, LaterConns
<1>4. DOMAIN cs = 1..Len(cs) /\ DOMAIN cs2 = 1..Len(cs2) /\ 1..Len(cs) \subseteq 1..Len(cs2)
  BY <1>1 DEF Grown
<1>5. QED BY <1>2, <1>3, <1>4 DEF KeptIn

LEMMA TablesGrow ==
  ASSUME IInv, Records, NEW cs2, Grown(conns, cs2)
  PROVE  /\ Later(scenario, versions, conns, runs, scenario, versions, cs2, runs)
         /\ TablesTrue(scenario, versions, cs2, runs)
<1>1. /\ versions \in Seq(VersionRows) /\ conns \in Seq(ConnRows \union {Gone})
      /\ runs \in Seq(RunRows) /\ TablesTrue(scenario, versions, conns, runs)
      /\ cs2 \in Seq(ConnRows \union {Gone})
  BY DEF IInv, RowsNumbered, Records, TablesTrue, Grown
<1>2. LaterConns(conns, cs2) /\ LaterVersions(versions, versions) /\ LaterRuns(runs, runs, cs2)
  <2>1. LaterConns(conns, cs2)
    BY <1>1, GrownIsLater
  <2>2. LaterVersions(versions, versions)
    BY <1>1 DEF LaterVersions
  <2>3. LaterRuns(runs, runs, cs2)
    BY <1>1 DEF LaterRuns
  <2>4. QED BY <2>1, <2>2, <2>3
<1>3. Later(scenario, versions, conns, runs, scenario, versions, cs2, runs)
  BY <1>1, <1>2 DEF Later
<1>4. ASSUME NEW r \in 1..Len(runs), NEW s \in DOMAIN runs[r].dests
      PROVE  /\ OfItsType(runs[r].dests[s], cs2)
             /\ runs[r].dests[s].conn # 0 => KeptIn(runs[r].dests[s].conn, cs2)
  <2>1. PICK d : d = runs[r].dests[s]
    OBVIOUS
  <2>2. OfItsType(d, conns) /\ (d.conn # 0 => KeptIn(d.conn, conns))
    BY <1>1, <1>4, <2>1 DEF TablesTrue
  <2>3. OfItsType(d, cs2)
    BY <1>1, <1>2, <2>2, StillOfItsType
  <2>4. d.conn # 0 => KeptIn(d.conn, cs2)
    BY <1>1, <2>2, GrownIsLater DEF OfItsType
  <2>5. QED BY <2>1, <2>3, <2>4, Zenon
<1>5. TablesTrue(scenario, versions, cs2, runs)
  BY <1>1, <1>4 DEF TablesTrue
<1>6. QED BY <1>3, <1>5

-----------------------------------------------------------------------------
(* The operator's connections: what FoldLeft over Env gives, by induction   *)
(* over the entries applied, as the least number of them it fails for.      *)
NatOrder == {p \in Nat \X Nat : p[1] < p[2]}

LEMMA NatOrderWF == IsWellFoundedOn(NatOrder, Nat)
BY NatLessThanWellFounded DEF NatOrder, OpToRel

LEMMA LeastExists ==
  ASSUME NEW T, T \subseteq Nat, T # {}
  PROVE  \E x \in T : \A y \in T : x <= y
<1>1. \E x \in T : \A y \in T : ~ (<<y, x>> \in NatOrder)
  BY NatOrderWF, WFMin, Zenon
<1>2. PICK x \in T : \A y \in T : ~ (<<y, x>> \in NatOrder)
  BY <1>1
<1>3. ASSUME NEW y \in T PROVE x <= y
  <2>1. x \in Nat /\ y \in Nat /\ ~ (<<y, x>> \in NatOrder)
    BY <1>2
  <2>2. y < x => <<y, x>> \in NatOrder
    BY <2>1 DEF NatOrder
  <2>3. QED BY <2>1, <2>2
<1>4. QED BY <1>3

LEMMA LeastOf ==
  ASSUME NEW T, T \subseteq Nat, T # {}
  PROVE  \E n \in T : n \in Nat /\ \A m \in Nat : m < n => m \notin T
<1>1. PICK n \in T : \A m \in T : n <= m
  BY LeastExists
<1>2. ASSUME NEW m \in Nat, m < n PROVE m \notin T
  BY <1>1, <1>2
<1>3. QED BY <1>2

(* The recursive function that FoldLeft chooses.                            *)
Applies(g, rows, env) ==
  g = [s \in SUBSET (DOMAIN env) |->
         IF s = {} THEN rows ELSE Upserted(g[s \ {Max(s)}], env[Max(s)])]

LEMMA FoldIs ==
  ASSUME NEW rows, NEW env
  PROVE  FoldLeft(Upserted, rows, env) = (CHOOSE g : Applies(g, rows, env))[DOMAIN env]
BY Zenon DEF FoldLeft, MapThenFoldSet, Applies

(* The last of some entries.                                                *)
LEMMA LastEntry ==
  ASSUME NEW s, NEW n \in Nat, s \subseteq 1..n, s # {}
  PROVE  /\ Max(s) \in s /\ n # 0
         /\ s \ {Max(s)} \subseteq 1..(n - 1)
         /\ s = 1..n => Max(s) = n /\ s \ {Max(s)} = 1..(n - 1)
<1> DEFINE T == {m \in Nat : \A y \in s : y <= m}
<1>1. PICK m \in T : m \in Nat /\ \A k \in Nat : k < m => k \notin T
  <2>1. n \in T
    OBVIOUS
  <2>2. T \subseteq Nat /\ T # {}
    BY <2>1
  <2> HIDE DEF T
  <2>3. QED BY <2>2, LeastOf
<1>2. \A y \in s : y \in 1..n /\ y <= m
  BY <1>1
<1>3. m \in s
  <2>1. SUFFICES ASSUME m \notin s PROVE FALSE
    OBVIOUS
  <2>2. \A y \in s : y <= m - 1
    BY <1>1, <1>2, <2>1
  <2>3. m - 1 \in Nat
    <3>1. PICK y \in s : y \in 1..n /\ y <= m
      BY <1>2
    <3>2. QED BY <1>1, <3>1
  <2>4. m - 1 \in T
    BY <2>2, <2>3
  <2> HIDE DEF T
  <2>5. QED BY <1>1, <2>3, <2>4
<1>4. \E x \in s : \A y \in s : x >= y
  BY <1>1, <1>2, <1>3
<1>5. Max(s) \in s /\ \A y \in s : Max(s) >= y
  BY <1>4, Zenon DEF Max
<1> HIDE DEF T
<1>6. PICK last : last = Max(s)
  OBVIOUS
<1>7. last \in s /\ last \in 1..n /\ \A y \in s : y \in 1..n /\ last >= y
  BY <1>2, <1>5, <1>6
<1>8. n # 0 /\ s \ {last} \subseteq 1..(n - 1)
  BY <1>7
<1>9. ASSUME s = 1..n PROVE last = n /\ s \ {last} = 1..(n - 1)
  <2>1. n \in s
    BY <1>7, <1>9
  <2>2. last = n
    BY <1>7, <2>1
  <2>3. QED BY <1>9, <2>2
<1>10. QED BY <1>6, <1>7, <1>8, <1>9

LEMMA FoldExists ==
  ASSUME NEW rows, NEW env, NEW N \in Nat, DOMAIN env = 1..N
  PROVE  \E g : Applies(g, rows, env)
<1> DEFINE D       == SUBSET (DOMAIN env)
           E(g, s) == IF s = {} THEN rows ELSE Upserted(g[s \ {Max(s)}], env[Max(s)])
           Good(g, n) == \A s \in D : s \subseteq 1..n => g[s] = E(g, s)
           Bad == {n \in Nat : ~ \E g : Good(g, n)}
<1>1. Bad = {}
  <2>1. SUFFICES ASSUME Bad # {} PROVE FALSE
    OBVIOUS
  <2>2. PICK n \in Bad : n \in Nat /\ \A m \in Nat : m < n => m \notin Bad
    <3>1. Bad \subseteq Nat
      OBVIOUS
    <3> HIDE DEF Bad
    <3>2. QED BY <2>1, <3>1, LeastOf
  <2>3. n # 0
    <3>1. SUFFICES ASSUME n = 0 PROVE \E g : Good(g, n)
      BY <2>2
    <3>2. Good([s \in D |-> rows], n)
      <4>1. \A s \in D : s \subseteq 1..n => s = {}
        BY <3>1
      <4>2. QED BY <4>1
    <3>3. QED BY <3>2
  <2>4. n - 1 \in Nat /\ n - 1 \notin Bad
    <3>1. n - 1 \in Nat /\ n - 1 < n
      BY <2>2, <2>3
    <3> HIDE DEF Bad
    <3>2. QED BY <2>2, <3>1
  <2>5. PICK g : Good(g, n - 1)
    BY <2>4
  <2> DEFINE h == [s \in D |-> E(g, s)]
  <2>6. ASSUME NEW s \in D, s \subseteq 1..n PROVE h[s] = E(h, s)
    <3>1. CASE s = {}
      BY <3>1
    <3>2. CASE s # {}
      <4> DEFINE rest == s \ {Max(s)}
      <4>1. rest \in D /\ rest \subseteq 1..(n - 1)
        BY <2>2, <2>6, <3>2, LastEntry
      <4>2. g[rest] = E(g, rest)
        BY <2>5, <4>1
      <4>3. h[rest] = E(g, rest)
        BY <4>1
      <4>4. h[s] = Upserted(g[rest], env[Max(s)]) /\ E(h, s) = Upserted(h[rest], env[Max(s)])
        BY <3>2
      <4>5. QED BY <4>2, <4>3, <4>4, Zenon
    <3>3. QED BY <3>1, <3>2
  <2>7. Good(h, n)
    BY <2>6
  <2>8. QED BY <2>2, <2>7, Zenon
<1>2. PICK g : Good(g, N)
  BY <1>1
<1> DEFINE h == [s \in D |-> E(g, s)]
<1>3. \A s \in D : g[s] = E(g, s)
  BY <1>2
<1>4. \A s \in D : h[s] = E(h, s)
  <2>1. ASSUME NEW s \in D PROVE h[s] = E(h, s)
    <3>1. CASE s = {}
      BY <3>1
    <3>2. CASE s # {}
      <4> DEFINE rest == s \ {Max(s)}
      <4>1. rest \in D
        OBVIOUS
      <4>2. g[rest] = E(g, rest)
        BY <1>3, <4>1
      <4>3. h[rest] = E(g, rest)
        BY <4>1
      <4>4. h[s] = Upserted(g[rest], env[Max(s)]) /\ E(h, s) = Upserted(h[rest], env[Max(s)])
        BY <3>2
      <4>5. QED BY <4>2, <4>3, <4>4, Zenon
    <3>3. QED BY <3>1, <3>2
  <2>2. QED BY <2>1
<1>5. h = [s \in D |-> h[s]]
  OBVIOUS
<1>6. Applies(h, rows, env)
  <2> HIDE DEF h
  <2>1. h = [s \in D |-> E(h, s)]
    BY <1>4, <1>5
  <2>2. QED BY <2>1, Zenon DEF Applies
<1>7. QED BY <1>6

(* Every entry in order: rows come, and change in place.                    *)
LEMMA UpsertGrows ==
  ASSUME NEW cs \in Seq(ConnRows \union {Gone}),
         NEW e \in Entries
  PROVE  Grown(cs, Upserted(cs, e))
<1> DEFINE same == {k \in DOMAIN cs : cs[k] # Gone /\ cs[k].name = e.name}
<1>1. CASE same = {}
  <2>1. Upserted(cs, e) = Append(cs, Row(e, "env"))
    BY <1>1 DEF Upserted
  <2>2. QED BY <2>1, RowsAreRows, GrowByOne
<1>2. CASE same # {}
  <2> DEFINE next == [k \in DOMAIN cs |->
                IF k \in same THEN [cs[k] EXCEPT !.cfg = e.cfg, !.by = "env"] ELSE cs[k]]
  <2>1. Upserted(cs, e) = next
    BY <1>2 DEF Upserted
  <2>2. DOMAIN cs = 1..Len(cs)
    OBVIOUS
  <2>3. ASSUME NEW k \in 1..Len(cs)
        PROVE  /\ next[k] \in ConnRows \union {Gone}
               /\ next[k] = cs[k] \/ (/\ cs[k] # Gone /\ next[k] \in ConnRows
                                      /\ next[k].type = cs[k].type)
    <3>1. cs[k] \in ConnRows \union {Gone}
      OBVIOUS
    <3>2. CASE k \in same
      <4>1. cs[k] \in ConnRows /\ cs[k] # Gone
        BY <3>1, <3>2
      <4>2. next[k] = [cs[k] EXCEPT !.cfg = e.cfg, !.by = "env"]
        BY <2>2, <3>2
      <4>3. \A x \in ConnRows : /\ [x EXCEPT !.cfg = e.cfg, !.by = "env"] \in ConnRows
                                /\ [x EXCEPT !.cfg = e.cfg, !.by = "env"].type = x.type
        BY DEF ConnRows, Entries
      <4> HIDE DEF next
      <4>4. next[k] \in ConnRows /\ next[k].type = cs[k].type
        BY <4>1, <4>2, <4>3, Zenon
      <4>5. QED BY <4>1, <4>4
    <3>3. CASE k \notin same
      BY <2>2, <3>1, <3>3
    <3>4. QED BY <3>2, <3>3
  <2>4. next \in [1..Len(cs) -> ConnRows \union {Gone}]
    BY <2>2, <2>3
  <2>5. Len(next) = Len(cs)
    BY <2>2
  <2> HIDE DEF next
  <2>6. QED BY <2>1, <2>3, <2>4, <2>5, GrowInPlace
<1>3. QED BY <1>1, <1>2

LEMMA AppliedGrows ==
  ASSUME NEW cs \in Seq(ConnRows \union {Gone}),
         NEW env \in Seq(Entries)
  PROVE  Grown(cs, FoldLeft(Upserted, cs, env))
<1>1. DOMAIN env = 1..Len(env) /\ Len(env) \in Nat
  OBVIOUS
<1> DEFINE upserts == CHOOSE g : Applies(g, cs, env)
<1>2. Applies(upserts, cs, env)
  BY <1>1, FoldExists, Zenon
<1>3. FoldLeft(Upserted, cs, env) = upserts[DOMAIN env]
  BY FoldIs, Zenon
<1> HIDE DEF upserts
<1>4. ASSUME NEW s \in SUBSET (DOMAIN env)
      PROVE  upserts[s] = IF s = {} THEN cs ELSE Upserted(upserts[s \ {Max(s)}], env[Max(s)])
  BY <1>2, Zenon DEF Applies
<1> DEFINE Bad == {n \in 0..Len(env) : ~ Grown(cs, upserts[1..n])}
<1>5. Bad = {}
  <2>1. SUFFICES ASSUME Bad # {} PROVE FALSE
    OBVIOUS
  <2>2. PICK n \in Bad : n \in Nat /\ \A m \in Nat : m < n => m \notin Bad
    <3>1. Bad \subseteq Nat
      BY <1>1
    <3> HIDE DEF Bad
    <3>2. QED BY <2>1, <3>1, LeastOf
  <2>3. n \in 0..Len(env) /\ ~ Grown(cs, upserts[1..n])
    BY <2>2
  <2>4. 1..n \in SUBSET (DOMAIN env)
    BY <1>1, <2>3
  <2>5. CASE n = 0
    <3>1. 1..n = {}
      BY <2>5
    <3>2. upserts[1..n] = cs
      BY <1>4, <2>4, <3>1
    <3>3. Grown(cs, cs)
      BY DEF Grown
    <3>4. QED BY <2>3, <3>2, <3>3
  <2>6. CASE n # 0
    <3>1. 1..n # {} /\ Max(1..n) = n /\ (1..n) \ {Max(1..n)} = 1..(n - 1)
      <4>1. 1..n # {}
        <5>1. 1 \in 1..n
          BY <2>2, <2>6
        <5>2. QED BY <5>1
      <4>2. QED BY <2>2, <4>1, LastEntry
    <3>2. upserts[1..n] = Upserted(upserts[1..(n - 1)], env[n])
      BY <1>4, <2>4, <3>1, Zenon
    <3>3. n - 1 \in Nat /\ n - 1 < n /\ n - 1 \in 0..Len(env)
      BY <1>1, <2>2, <2>3, <2>6
    <3>4. Grown(cs, upserts[1..(n - 1)])
      <4>1. n - 1 \notin Bad
        <5> HIDE DEF Bad
        <5>1. QED BY <2>2, <3>3
      <4>2. QED BY <3>3, <4>1
    <3>5. PICK rows : rows = upserts[1..(n - 1)]
      OBVIOUS
    <3>6. env[n] \in Entries
      <4>1. n \in 1..Len(env)
        BY <1>1, <2>3, <2>6
      <4>2. \A i \in 1..Len(env) : env[i] \in Entries
        OBVIOUS
      <4>3. QED BY <4>1, <4>2
    <3>7. rows \in Seq(ConnRows \union {Gone}) /\ Grown(cs, rows)
      BY <3>4, <3>5 DEF Grown
    <3>8. \A e \in Entries : Grown(rows, Upserted(rows, e))
      BY <3>7, UpsertGrows
    <3>9. PICK next : next = Upserted(rows, env[n])
      OBVIOUS
    <3>10. Grown(cs, next)
      BY <3>6, <3>7, <3>8, <3>9, GrowOn
    <3>11. QED BY <2>3, <3>2, <3>5, <3>9, <3>10, Zenon
  <2>7. QED BY <2>5, <2>6
<1>6. Grown(cs, upserts[1..Len(env)])
  BY <1>1, <1>5
<1>7. QED BY <1>1, <1>3, <1>6, Zenon

-----------------------------------------------------------------------------
(* What is done to the runs.                                                *)

LEMMA RunsAreRuns ==
  ASSUME NEW rs \in Seq(RunRows)
  PROVE  /\ \A r \in 1..Len(rs) : rs[r] \in RunRows /\ rs[r].dests \in Dests
         /\ Len(rs) = 0 => rs = <<>>
<1>1. \A r \in 1..Len(rs) : rs[r] \in RunRows
  OBVIOUS
<1>2. \A x \in RunRows : x.dests \in Dests
  BY DEF RunRows
<1>3. QED BY <1>1, <1>2

(* Their statuses are nobody's business.                                    *)
SameRun(a, b) ==
  a.version = b.version /\ a.spec = b.spec /\ a.from = b.from /\ a.dests = b.dests

LEMMA StatusKeeps ==
  ASSUME NEW sc, NEW vs, NEW cs, NEW rs, TablesTrue(sc, vs, cs, rs),
         NEW rs2 \in Seq(RunRows), Len(rs2) = Len(rs),
         \A r \in 1..Len(rs) : SameRun(rs2[r], rs[r])
  PROVE  TablesTrue(sc, vs, cs, rs2) /\ LaterRuns(rs, rs2, cs)
<1>1. rs \in Seq(RunRows) /\ cs \in Seq(ConnRows \union {Gone}) /\ (sc # "kept" => rs = <<>>)
  BY DEF TablesTrue
<1>2. sc # "kept" => rs2 = <<>>
  BY <1>1
<1>3. ASSUME NEW r \in 1..Len(rs)
      PROVE  /\ OfVersion(rs2[r], vs) /\ Complete(rs2[r])
             /\ \A s \in DOMAIN rs2[r].dests :
                  /\ OfItsType(rs2[r].dests[s], cs)
                  /\ rs2[r].dests[s].conn # 0 => KeptIn(rs2[r].dests[s].conn, cs)
             /\ rs2[r].from # 0 => /\ rs2[r].from \in 1..Len(rs2)
                                   /\ rs2[r].spec = rs2[rs2[r].from].spec
                                   /\ rs2[r].dests = rs2[rs2[r].from].dests
  <2>1. SameRun(rs2[r], rs[r])
    BY <1>3
  <2>2. OfVersion(rs2[r], vs)
    <3>1. OfVersion(rs[r], vs)
      BY <1>3 DEF TablesTrue
    <3>2. QED BY <2>1, <3>1 DEF OfVersion, SameRun
  <2>3. Complete(rs2[r])
    <3>1. Complete(rs[r])
      BY <1>3 DEF TablesTrue
    <3>2. QED BY <2>1, <3>1 DEF Complete, SameRun
  <2>4. \A s \in DOMAIN rs2[r].dests :
                  /\ OfItsType(rs2[r].dests[s], cs)
                  /\ rs2[r].dests[s].conn # 0 => KeptIn(rs2[r].dests[s].conn, cs)
    <3>1. rs2[r].dests = rs[r].dests
      BY <2>1 DEF SameRun
    <3>2. \A s \in DOMAIN rs[r].dests :
                  /\ OfItsType(rs[r].dests[s], cs)
                  /\ rs[r].dests[s].conn # 0 => KeptIn(rs[r].dests[s].conn, cs)
      BY <1>3 DEF TablesTrue
    <3>3. QED BY <3>1, <3>2, Zenon
  <2>5. ASSUME rs2[r].from # 0
        PROVE  /\ rs2[r].from \in 1..Len(rs2)
               /\ rs2[r].spec = rs2[rs2[r].from].spec
               /\ rs2[r].dests = rs2[rs2[r].from].dests
    <3>1. /\ rs[r].from \in 1..Len(rs) /\ rs[r].spec = rs[rs[r].from].spec
          /\ rs[r].dests = rs[rs[r].from].dests
      BY <1>3, <2>1, <2>5 DEF TablesTrue, SameRun
    <3>2. SameRun(rs2[rs[r].from], rs[rs[r].from])
      BY <3>1
    <3>3. QED BY <2>1, <3>1, <3>2 DEF SameRun
  <2>6. QED BY <2>2, <2>3, <2>4, <2>5
<1>4. TablesTrue(sc, vs, cs, rs2)
  BY <1>1, <1>2, <1>3 DEF TablesTrue
<1>5. LaterRuns(rs, rs2, cs)
  BY <1>1 DEF LaterRuns, SameRun
<1>6. QED BY <1>4, <1>5

(* A run is inserted with its destinations, which are all there.            *)
LEMMA InsertKeeps ==
  ASSUME NEW vs, NEW cs, NEW rs, TablesTrue("kept", vs, cs, rs), NEW run \in RunRows,
         OfVersion(run, vs), Complete(run), run.from # 0 => CopyOf(run, rs, cs),
         \A s \in DOMAIN run.dests : /\ OfItsType(run.dests[s], cs)
                                     /\ KeptIn(run.dests[s].conn, cs)
  PROVE  TablesTrue("kept", vs, cs, Append(rs, run)) /\ LaterRuns(rs, Append(rs, run), cs)
<1> DEFINE rs2 == Append(rs, run)
<1>1. rs \in Seq(RunRows) /\ cs \in Seq(ConnRows \union {Gone})
  BY DEF TablesTrue
<1>2. /\ rs2 \in Seq(RunRows) /\ Len(rs2) = Len(rs) + 1 /\ Len(rs) \in Nat
      /\ rs2[Len(rs) + 1] = run /\ \A r \in 1..Len(rs) : rs2[r] = rs[r]
  BY <1>1
<1> HIDE DEF rs2
<1>3. LaterRuns(rs, rs2, cs)
  BY <1>1, <1>2 DEF LaterRuns
<1> DEFINE True(r, x) ==
             /\ OfVersion(x, vs) /\ Complete(x)
             /\ \A s \in DOMAIN x.dests :
                  /\ OfItsType(x.dests[s], cs)
                  /\ x.dests[s].conn # 0 => KeptIn(x.dests[s].conn, cs)
             /\ x.from # 0 => /\ x.from \in 1..Len(rs2)
                              /\ x.spec = rs2[x.from].spec
                              /\ x.dests = rs2[x.from].dests
<1>4. ASSUME NEW r \in 1..Len(rs) PROVE True(r, rs[r])
  <2>1. /\ OfVersion(rs[r], vs) /\ Complete(rs[r])
        /\ \A s \in DOMAIN rs[r].dests :
             /\ OfItsType(rs[r].dests[s], cs)
             /\ rs[r].dests[s].conn # 0 => KeptIn(rs[r].dests[s].conn, cs)
        /\ rs[r].from # 0 => /\ rs[r].from \in 1..Len(rs)
                             /\ rs[r].spec = rs[rs[r].from].spec
                             /\ rs[r].dests = rs[rs[r].from].dests
    BY DEF TablesTrue
  <2>2. rs[r].from # 0 => rs[r].from \in 1..Len(rs2) /\ rs2[rs[r].from] = rs[rs[r].from]
    BY <1>2, <2>1
  <2>3. QED BY <2>1, <2>2, Zenon
<1>5. True(Len(rs) + 1, run)
  <2>1. ASSUME run.from # 0
        PROVE  /\ run.from \in 1..Len(rs2) /\ run.spec = rs2[run.from].spec
               /\ run.dests = rs2[run.from].dests
    <3>1. /\ run.from \in 1..Len(rs) /\ run.spec = rs[run.from].spec
          /\ DOMAIN run.dests = DOMAIN rs[run.from].dests
          /\ \A s \in DOMAIN run.dests : run.dests[s] = rs[run.from].dests[s]
      BY <2>1 DEF CopyOf
    <3>2. PICK d : d = run.dests
      OBVIOUS
    <3>3. PICK e : e = rs[run.from].dests
      OBVIOUS
    <3>4. d = [s \in DOMAIN d |-> d[s]] /\ e = [s \in DOMAIN e |-> e[s]]
      <4>1. d \in Dests /\ e \in Dests
        BY <1>1, <3>1, <3>2, <3>3, RunsAreRuns DEF RunRows
      <4>2. \A x \in Dests : x = [s \in DOMAIN x |-> x[s]]
        BY DEF Dests
      <4>3. QED BY <4>1, <4>2
    <3>5. d = e
      BY <3>1, <3>2, <3>3, <3>4
    <3>6. run.from \in 1..Len(rs2) /\ rs2[run.from] = rs[run.from]
      BY <1>2, <3>1
    <3>7. QED BY <3>1, <3>2, <3>3, <3>5, <3>6
  <2>2. QED BY <2>1
<1>6. \A r \in 1..Len(rs2) : True(r, rs2[r])
  <2>1. ASSUME NEW r \in 1..Len(rs2) PROVE True(r, rs2[r])
    <3>1. r \in 1..Len(rs) \/ r = Len(rs) + 1
      BY <1>2
    <3> HIDE DEF True
    <3>2. QED BY <1>2, <1>4, <1>5, <3>1
  <2>2. QED BY <2>1
<1>7. TablesTrue("kept", vs, cs, rs2)
  BY <1>1, <1>2, <1>6 DEF TablesTrue
<1>8. QED BY <1>3, <1>7 DEF rs2

(* A connection is deleted, and forgotten by the runs that had it.          *)
LEMMA ForgetOne ==
  ASSUME NEW d \in Dests, NEW k
  PROVE  /\ Forget(d, k) \in Dests /\ DOMAIN Forget(d, k) = DOMAIN d
         /\ \A s \in DOMAIN d :
              /\ Forget(d, k)[s].type = d[s].type
              /\ d[s].conn = k => Forget(d, k)[s].conn = 0
              /\ d[s].conn # k => Forget(d, k)[s] = d[s]
<1>1. PICK S \in SUBSET Sinks : d \in [S -> [conn : Nat, type : Types]]
  BY DEF Dests
<1>2. DOMAIN d = S
  BY <1>1
<1>3. \A x \in [conn : Nat, type : Types] :
        LET y == [x EXCEPT !.conn = IF @ = k THEN 0 ELSE @]
        IN  /\ y \in [conn : Nat, type : Types] /\ y.type = x.type
            /\ x.conn = k => y.conn = 0
            /\ x.conn # k => y = x
  OBVIOUS
<1>4. \A s \in S : Forget(d, k)[s] = [d[s] EXCEPT !.conn = IF @ = k THEN 0 ELSE @]
  BY <1>2 DEF Forget
<1>5. Forget(d, k) \in [S -> [conn : Nat, type : Types]]
  BY <1>1, <1>2, <1>3 DEF Forget
<1>6. QED BY <1>1, <1>2, <1>3, <1>4, <1>5 DEF Dests

Forgets(k, cs, rs, cs2, rs2) ==
  /\ cs2 = [cs EXCEPT ![k] = Gone]
  /\ rs2 \in Seq(RunRows) /\ Len(rs2) = Len(rs)
  /\ \A r \in 1..Len(rs) :
       /\ rs2[r].version = rs[r].version /\ rs2[r].spec = rs[r].spec
       /\ rs2[r].from = rs[r].from /\ rs2[r].dests = Forget(rs[r].dests, k)

LEMMA ForgetKeeps ==
  ASSUME NEW sc, NEW vs, NEW cs, NEW rs, TablesTrue(sc, vs, cs, rs), NEW k, NEW cs2, NEW rs2,
         Forgets(k, cs, rs, cs2, rs2)
  PROVE  TablesTrue(sc, vs, cs2, rs2) /\ LaterConns(cs, cs2) /\ LaterRuns(rs, rs2, cs2)
<1>0. /\ cs2 = [cs EXCEPT ![k] = Gone]
      /\ rs2 \in Seq(RunRows) /\ Len(rs2) = Len(rs)
      /\ \A r \in 1..Len(rs) :
           /\ rs2[r].version = rs[r].version /\ rs2[r].spec = rs[r].spec
           /\ rs2[r].from = rs[r].from /\ rs2[r].dests = Forget(rs[r].dests, k)
  BY DEF Forgets
<1>1. rs \in Seq(RunRows) /\ cs \in Seq(ConnRows \union {Gone}) /\ (sc # "kept" => rs = <<>>)
  BY DEF TablesTrue
<1>2. /\ cs2 \in Seq(ConnRows \union {Gone}) /\ Len(cs2) = Len(cs) /\ Len(cs) \in Nat
      /\ DOMAIN cs = 1..Len(cs) /\ DOMAIN cs2 = 1..Len(cs)
      /\ \A j \in 1..Len(cs) : cs2[j] = IF j = k THEN Gone ELSE cs[j]
  <2>1. DOMAIN cs = 1..Len(cs) /\ Len(cs) \in Nat
    BY <1>0, <1>1
  <2>2. cs2 = [j \in 1..Len(cs) |-> IF j = k THEN Gone ELSE cs[j]]
    BY <1>0, <2>1
  <2>3. \A j \in 1..Len(cs) : cs2[j] \in ConnRows \union {Gone}
    BY <1>0, <1>1, <2>2
  <2>4. cs2 \in [1..Len(cs) -> ConnRows \union {Gone}]
    BY <2>2, <2>3
  <2>5. Len(cs2) = Len(cs) /\ DOMAIN cs2 = 1..Len(cs)
    BY <2>1, <2>2
  <2>6. cs2 \in Seq(ConnRows \union {Gone})
    <3>1. \A S : \A n \in Nat : \A f \in [1..n -> S] : f \in Seq(S)
      OBVIOUS
    <3>2. QED BY <2>1, <2>4, <3>1, Zenon
  <2>7. QED BY <2>1, <2>2, <2>5, <2>6
<1>3. LaterConns(cs, cs2)
  BY <1>0, <1>2 DEF LaterConns
<1>4. \A j : KeptIn(j, cs2) <=> KeptIn(j, cs) /\ j # k
  BY <1>0, <1>2 DEF KeptIn
<1>5. \A r \in 1..Len(rs) : rs[r].dests \in Dests
  BY <1>0, <1>1, RunsAreRuns
<1>6. LaterRuns(rs, rs2, cs2)
  <2>1. ASSUME NEW r \in 1..Len(rs)
        PROVE  /\ DOMAIN rs2[r].dests = DOMAIN rs[r].dests
               /\ \A s \in DOMAIN rs[r].dests :
                    rs2[r].dests[s] = rs[r].dests[s] \/ ~KeptIn(rs[r].dests[s].conn, cs2)
    <3>1. PICK d : d = rs[r].dests
      OBVIOUS
    <3>2. d \in Dests /\ rs2[r].dests = Forget(d, k)
      BY <1>0, <1>5, <3>1
    <3>3. DOMAIN Forget(d, k) = DOMAIN d
      BY <3>2, ForgetOne
    <3>4. ASSUME NEW s \in DOMAIN d
          PROVE  Forget(d, k)[s] = d[s] \/ ~KeptIn(d[s].conn, cs2)
      BY <1>0, <1>4, <3>2, <3>4, ForgetOne
    <3>5. QED BY <3>1, <3>2, <3>3, <3>4, Zenon
  <2>2. Len(rs) <= Len(rs2) /\ \A r \in 1..Len(rs) : rs2[r].spec = rs[r].spec
    BY <1>0, <1>1
  <2>3. QED BY <2>1, <2>2, Zenon DEF LaterRuns
<1>7. ASSUME NEW r \in 1..Len(rs)
      PROVE  /\ OfVersion(rs2[r], vs) /\ Complete(rs2[r])
             /\ \A s \in DOMAIN rs2[r].dests :
                  /\ OfItsType(rs2[r].dests[s], cs2)
                  /\ rs2[r].dests[s].conn # 0 => KeptIn(rs2[r].dests[s].conn, cs2)
             /\ rs2[r].from # 0 => /\ rs2[r].from \in 1..Len(rs2)
                                   /\ rs2[r].spec = rs2[rs2[r].from].spec
                                   /\ rs2[r].dests = rs2[rs2[r].from].dests
  <2>1. PICK d : d = rs[r].dests
    OBVIOUS
  <2>2. d \in Dests /\ rs2[r].dests = Forget(d, k)
    BY <1>0, <1>5, <2>1
  <2>3. OfVersion(rs2[r], vs)
    <3>1. OfVersion(rs[r], vs)
      BY <1>0, <1>7 DEF TablesTrue
    <3>2. QED BY <1>0, <1>7, <3>1 DEF OfVersion
  <2>4. Complete(rs2[r])
    <3>1. Complete(rs[r])
      BY <1>0, <1>7 DEF TablesTrue
    <3>2. QED BY <1>0, <1>7, <2>1, <2>2, <3>1, ForgetOne DEF Complete
  <2>5. ASSUME NEW s \in DOMAIN rs2[r].dests
        PROVE  /\ OfItsType(rs2[r].dests[s], cs2)
               /\ rs2[r].dests[s].conn # 0 => KeptIn(rs2[r].dests[s].conn, cs2)
    <3>1. s \in DOMAIN d /\ rs2[r].dests[s] = Forget(d, k)[s]
      BY <2>2, <2>5, ForgetOne
    <3>2. OfItsType(d[s], cs) /\ (d[s].conn # 0 => KeptIn(d[s].conn, cs))
      BY <1>0, <1>7, <2>1, <3>1 DEF TablesTrue
    <3>3. PICK x : x = d[s]
      OBVIOUS
    <3>4. PICK y : y = rs2[r].dests[s]
      OBVIOUS
    <3>5. y.type = x.type /\ (x.conn = k => y.conn = 0) /\ (x.conn # k => y = x)
      BY <2>2, <3>1, <3>3, <3>4, ForgetOne
    <3>6. CASE x.conn = k
      <4>1. y.conn = 0 /\ ~KeptIn(y.conn, cs2)
        BY <1>0, <1>2, <3>5, <3>6 DEF KeptIn
      <4>2. QED BY <1>0, <1>2, <3>4, <4>1 DEF OfItsType
    <3>7. CASE x.conn # k
      BY <1>0, <1>2, <1>4, <3>2, <3>3, <3>4, <3>5, <3>7 DEF OfItsType, KeptIn
    <3>8. QED BY <3>6, <3>7
  <2>6. ASSUME rs2[r].from # 0
        PROVE  /\ rs2[r].from \in 1..Len(rs2)
               /\ rs2[r].spec = rs2[rs2[r].from].spec
               /\ rs2[r].dests = rs2[rs2[r].from].dests
    <3>1. /\ rs[r].from \in 1..Len(rs) /\ rs[r].spec = rs[rs[r].from].spec
          /\ rs[r].dests = rs[rs[r].from].dests
      BY <1>0, <1>7, <2>6 DEF TablesTrue
    <3>2. QED BY <1>0, <1>7, <3>1
  <2>7. QED BY <2>3, <2>4, <2>5, <2>6
<1>8. TablesTrue(sc, vs, cs2, rs2)
  <2>1. sc # "kept" => rs2 = <<>>
    <3>1. sc # "kept" => Len(rs2) = 0
      BY <1>0, <1>1
    <3>2. QED BY <3>1, RunsAreRuns
  <2>2. QED BY <1>0, <1>1, <1>2, <1>7, <2>1 DEF TablesTrue
<1>9. QED BY <1>0, <1>3, <1>6, <1>8

-----------------------------------------------------------------------------
(* The records hold at first: a new install, or one with a run that was     *)
(* launched with a connection for each sink of its spec.                    *)
LEMMA SinksInARow ==
  ASSUME NEW S, IsFiniteSet(S)
  PROVE  /\ Cardinality(S) \in Nat
         /\ SetToSeq(S) \in [1..Cardinality(S) -> S]
         /\ \A s \in S : \E i \in 1..Cardinality(S) : SetToSeq(S)[i] = s
<1> DEFINE n == Cardinality(S)
<1>1. n \in Nat /\ ExistsBijection(1..n, S)
  BY FS_CardinalityType
<1>2. PICK f \in [1..n -> S] : IsInjective(f)
  BY <1>1 DEF ExistsBijection, Bijection, Injection, IsInjective
<1>3. SetToSeq(S) \in [1..n -> S] /\ IsInjective(SetToSeq(S))
  BY <1>2, Zenon DEF SetToSeq
<1>4. PICK g : g = SetToSeq(S)
  OBVIOUS
<1>5. g \in [1..n -> S] /\ IsInjective(g)
  BY <1>3, <1>4
<1>6. g \in Injection(1..n, S)
  BY <1>5 DEF Injection, IsInjective
<1>7. Cardinality(1..n) = n
  BY <1>1, FS_Interval
<1>8. g \in Surjection(1..n, S)
  BY <1>6, <1>7, FS_Injection
<1>9. \A s \in S : \E i \in 1..n : g[i] = s
  BY <1>8 DEF Surjection
<1>10. QED BY <1>1, <1>4, <1>5, <1>9

LEMMA StockRecords == ASSUME Stock PROVE TablesTrue(scenario, versions, conns, runs)
<1> DEFINE B == Broker[Template]
           D == DOMAIN B
           K == SetToSeq(D)
           n == Cardinality(D)
           rank == [s \in D |-> CHOOSE i \in DOMAIN K : K[i] = s]
           dest == [s \in D |-> [conn |-> rank[s], type |-> B[s]]]
<1>1. D \subseteq Sinks /\ IsFiniteSet(D) /\ \A s \in D : B[s] \in Types
  <2>1. Template \in Specs /\ B \in UNION {[S -> Types] : S \in SUBSET Sinks}
    BY CatalogAssumption
  <2>2. PICK S \in SUBSET Sinks : B \in [S -> Types]
    BY <2>1
  <2>3. D = S /\ \A s \in S : B[s] \in Types
    BY <2>2
  <2>4. IsFiniteSet(S)
    BY CatalogAssumption, FS_Subset
  <2>5. QED BY <2>3, <2>4
<1>2. /\ n \in Nat /\ DOMAIN K = 1..n /\ \A i \in 1..n : K[i] \in D
      /\ \A s \in D : \E i \in 1..n : K[i] = s
  <2>1. n \in Nat /\ K \in [1..n -> D] /\ \A s \in D : \E i \in 1..n : K[i] = s
    BY <1>1, SinksInARow
  <2> HIDE DEF K, D
  <2>2. QED BY <2>1
<1>3. \A s \in D : rank[s] \in 1..n /\ K[rank[s]] = s
  BY <1>2
<1>4. PICK name \in [DOMAIN K -> Names \ {Local.name}], cfg \in Configs :
        conns = [i \in DOMAIN K |->
                   Row([name |-> name[i], type |-> B[K[i]], cfg |-> cfg], "user")]
  BY Zenon DEF Stock
<1>5. /\ scenario = "kept" /\ versions = <<Version(1, Template, "user", 0)>>
      /\ runs = << [version |-> 1, spec |-> Template, from |-> 0, status |-> "running",
                    dests |-> dest] >>
  BY Zenon DEF Stock
<1>6. \A s \in D : /\ dest[s] \in [conn : Nat, type : Types]
                   /\ dest[s].conn = rank[s] /\ dest[s].type = B[s]
  <2> HIDE DEF rank
  <2>1. \A s \in D : rank[s] \in Nat
    BY <1>2, <1>3
  <2>2. QED BY <1>1, <2>1
<1>7. dest \in Dests /\ DOMAIN dest = D
  <2>1. dest \in [D -> [conn : Nat, type : Types]]
    BY <1>6
  <2>2. QED BY <1>1, <2>1 DEF Dests
<1>8. \A i \in 1..n : /\ conns[i] \in ConnRows /\ conns[i].type = B[K[i]] /\ conns[i] # Gone
  <2>1. ASSUME NEW i \in 1..n
        PROVE  conns[i] \in ConnRows /\ conns[i].type = B[K[i]] /\ conns[i] # Gone
    <3> DEFINE e == [name |-> name[i], type |-> B[K[i]], cfg |-> cfg]
    <3>1. conns[i] = Row(e, "user")
      BY <1>2, <1>4, Zenon
    <3>2. B[K[i]] \in Types /\ name[i] \in Names
      BY <1>1, <1>2, <1>4
    <3> HIDE DEF K, B
    <3>3. e \in Entries /\ e.type = B[K[i]]
      BY <1>4, <3>2 DEF Entries
    <3> HIDE DEF e
    <3>4. QED BY <3>1, <3>3, RowsAreRows
  <2>2. QED BY <2>1
<1>9. DOMAIN conns = 1..n
  BY <1>2, <1>4, Zenon
<1> HIDE DEF K, rank, dest, B
<1>10. conns \in Seq(ConnRows \union {Gone}) /\ Len(conns) = n
  <2>1. conns = [i \in 1..n |-> conns[i]]
    BY <1>2, <1>4
  <2>2. conns \in [1..n -> ConnRows \union {Gone}]
    BY <1>8, <2>1
  <2>3. \A S : \A m \in Nat : \A f \in [1..m -> S] : f \in Seq(S) /\ Len(f) = m
    OBVIOUS
  <2>4. QED BY <1>2, <2>2, <2>3, Zenon
<1> DEFINE run == [version |-> 1, spec |-> Template, from |-> 0, status |-> "running",
                   dests |-> dest]
<1>11. run \in RunRows
  BY <1>7, CatalogAssumption DEF RunRows
<1>12. OfVersion(run, versions)
  BY <1>5 DEF OfVersion, Version
<1>13. Complete(run)
  BY <1>6, <1>7 DEF Complete, B
<1>14. \A s \in DOMAIN dest : OfItsType(dest[s], conns) /\ KeptIn(dest[s].conn, conns)
  <2>1. ASSUME NEW s \in D
        PROVE  OfItsType(dest[s], conns) /\ KeptIn(dest[s].conn, conns)
    <3>1. dest[s].conn \in 1..n /\ dest[s].type = B[K[dest[s].conn]]
      BY <1>3, <1>6
    <3>2. QED BY <1>2, <1>8, <1>9, <1>10, <3>1 DEF OfItsType, KeptIn
  <2>2. QED BY <1>7, <2>1
<1>15. run.dests = dest /\ run.from = 0
  OBVIOUS
<1> HIDE DEF run
<1>16. runs = <<run>>
  BY <1>5 DEF run
<1>17. /\ runs \in Seq(RunRows) /\ Len(runs) = 1 /\ runs[1] = run
  BY <1>11, <1>16
<1>18. QED BY <1>5, <1>10, <1>12, <1>13, <1>14, <1>15, <1>17 DEF TablesTrue

LEMMA InitRecords == ASSUME Init PROVE Records
<1>1. TablesTrue(scenario, versions, conns, runs)
  <2>1. CASE scenario = "none" /\ conns = <<>> /\ runs = <<>>
    <3>1. runs \in Seq(RunRows) /\ Len(runs) = 0 /\ conns \in Seq(ConnRows \union {Gone})
      BY <2>1
    <3>2. QED BY <2>1, <3>1 DEF TablesTrue
  <2>2. QED BY <2>1, StockRecords DEF Init
<1>2. scenario = "none" => current = 0
  BY DEF Init, Stock
<1>3. \A c \in Calls : CallTrue(call[c], scenario, versions, conns, runs)
  BY Replied DEF Init
<1>4. QED BY <1>1, <1>2, <1>3 DEF Records

-----------------------------------------------------------------------------
(* The steps.                                                               *)

TablesAre ==
  /\ versions \in Seq(VersionRows) /\ conns \in Seq(ConnRows \union {Gone})
  /\ runs \in Seq(RunRows) /\ TablesTrue(scenario, versions, conns, runs)

LEMMA TablesTyped == ASSUME IInv, Records PROVE TablesAre
BY DEF IInv, RowsNumbered, Records, TablesTrue, TablesAre

(* The API boots: connections come, and no request is under way; and it     *)
(* crashes.                                                                 *)
LEMMA BootRecords ==
  ASSUME IInv, Records, Grown(conns, conns'),
         UNCHANGED <<scenario, versions, current, runs, call>>
  PROVE  Records'
<1>1. /\ Later(scenario, versions, conns, runs, scenario, versions, conns', runs)
      /\ TablesTrue(scenario, versions, conns', runs)
  BY TablesGrow
<1>2. ASSUME NEW c \in Calls PROVE CallTrue(call[c], scenario, versions, conns', runs)
  <2>1. CallTrue(call[c], scenario, versions, conns, runs)
    BY DEF Records
  <2>2. QED BY <1>1, <2>1, StillTrue
<1>3. /\ scenario' = scenario /\ versions' = versions /\ runs' = runs /\ call' = call
      /\ current' = current
  OBVIOUS
<1>4. QED BY <1>1, <1>2, <1>3 DEF Records

LEMMA ServerRecords ==
  ASSUME IInv, Records, ApplyEnvConnections \/ SeedOnBoot \/ MarkSeeded
  PROVE  Records'
<1>1. TablesAre
  BY TablesTyped
<1>2. UNCHANGED <<scenario, versions, current, runs, call>>
  BY DEF ApplyEnvConnections, SeedOnBoot, MarkSeeded
<1>3. Grown(conns, conns)
  BY <1>1 DEF TablesAre, Grown
<1>4. CASE ApplyEnvConnections
  <2>1. Env \in Seq(Entries)
    BY CatalogAssumption DEF Entries
  <2>2. Grown(conns, conns')
    BY <1>1, <1>4, <2>1, AppliedGrows DEF ApplyEnvConnections, TablesAre
  <2>3. QED BY <1>2, <2>2, BootRecords
<1>5. CASE SeedOnBoot
  <2>1. Row(Local, "auto") \in ConnRows
    BY CatalogAssumption, RowsAreRows DEF Entries
  <2>2. Grown(conns, Append(conns, Row(Local, "auto")))
    BY <1>1, <2>1, GrowByOne DEF TablesAre
  <2>3. conns' = conns \/ conns' = Append(conns, Row(Local, "auto"))
    BY <1>5 DEF SeedOnBoot
  <2>4. Grown(conns, conns')
    BY <1>3, <2>2, <2>3
  <2>5. QED BY <1>2, <2>4, BootRecords
<1>6. CASE MarkSeeded
  BY <1>2, <1>3, <1>6, BootRecords DEF MarkSeeded
<1>7. QED BY <1>4, <1>5, <1>6

LEMMA CrashRecords == ASSUME IInv, Records, Crash PROVE Records'
<1>1. /\ scenario' = scenario /\ versions' = versions /\ runs' = runs /\ conns' = conns
      /\ current' = current /\ call' = [c \in Calls |-> IF call[c] = Idle THEN Idle ELSE Done]
  BY DEF Crash, tables
<1>2. \A c \in Calls : call'[c] = Idle \/ call'[c] = Done
  BY <1>1
<1>3. \A c \in Calls : CallTrue(call'[c], scenario', versions', conns', runs')
  BY <1>2, Replied
<1>4. QED BY <1>1, <1>3 DEF Records

(* Requests about connections.                                              *)
LEMMA ConnsMove ==
  ASSUME IInv, Records, NEW c \in Calls, Ends(c), Grown(conns, conns'),
         UNCHANGED <<scenario, versions, current, runs>>
  PROVE  Records'
<1>1. To(c, Done)
  BY DEF Ends
<1>2. /\ scenario' = scenario /\ versions' = versions /\ runs' = runs /\ current' = current
      /\ scenario = "none" => current = 0
  BY DEF Records
<1>3. /\ Later(scenario, versions, conns, runs, scenario', versions', conns', runs')
      /\ TablesTrue(scenario', versions', conns', runs')
  BY <1>2, TablesGrow
<1>4. CallTrue(Done, scenario', versions', conns', runs')
  BY Replied
<1>5. QED BY <1>1, <1>2, <1>3, <1>4, RequestMoves

LEMMA InPlace ==
  ASSUME IInv, Records, NEW k \in 1..Len(conns), conns[k] # Gone, NEW entry \in ConnRows,
         entry.type = conns[k].type, conns' = [conns EXCEPT ![k] = entry]
  PROVE  Grown(conns, conns')
<1>1. conns \in Seq(ConnRows \union {Gone})
  BY TablesTyped DEF TablesAre
<1>2. \A j \in 1..Len(conns) : conns[j] \in ConnRows \union {Gone}
  BY <1>1
<1>3. /\ conns' = [j \in 1..Len(conns) |-> IF j = k THEN entry ELSE conns[j]]
      /\ Len(conns') = Len(conns)
  <2>1. DOMAIN conns = 1..Len(conns) /\ Len(conns) \in Nat
    BY <1>1
  <2>2. conns' = [j \in 1..Len(conns) |-> IF j = k THEN entry ELSE conns[j]]
    BY <2>1, Zenon
  <2>3. conns' \in [1..Len(conns) -> ConnRows \union {Gone}]
    BY <1>2, <2>2
  <2>4. \A m \in Nat : \A S : \A f \in [1..m -> S] : Len(f) = m
    OBVIOUS
  <2>5. QED BY <2>1, <2>2, <2>3, <2>4, Zenon
<1>4. conns' \in [1..Len(conns) -> ConnRows \union {Gone}]
  BY <1>2, <1>3
<1>5. \A j \in 1..Len(conns) :
        conns'[j] = conns[j] \/ (/\ conns[j] # Gone /\ conns'[j] \in ConnRows
                                 /\ conns'[j].type = conns[j].type)
  BY <1>3
<1>6. QED BY <1>1, <1>3, <1>4, <1>5, GrowInPlace

LEMMA ConnRecords ==
  ASSUME IInv, Records, NEW c \in Calls,
         InsertConnection(c) \/ UpdateConnection(c) \/ RecordTestResult(c)
  PROVE  Records'
<1>1. TablesAre /\ DOMAIN conns = 1..Len(conns)
  BY TablesTyped DEF TablesAre
<1>2. Ends(c) /\ UNCHANGED <<scenario, versions, current, runs>>
  BY DEF InsertConnection, UpdateConnection, RecordTestResult
<1>3. Grown(conns, conns)
  BY <1>1 DEF TablesAre, Grown
<1>4. CallTrue(call[c], scenario, versions, conns, runs)
  BY DEF Records
<1>5. SUFFICES ASSUME conns' # conns PROVE Grown(conns, conns')
  <2>1. conns' = conns => Grown(conns, conns')
    BY <1>3
  <2>2. QED BY <1>2, <2>1, ConnsMove
<1>6. CASE InsertConnection(c)
  <2>1. conns' = Append(conns, call[c].row) /\ call[c].op = "connect"
    BY <1>5, <1>6 DEF InsertConnection, At
  <2>2. call[c].row \in ConnRows
    BY <1>4, <2>1 DEF CallTrue
  <2>3. QED BY <1>1, <2>1, <2>2, GrowByOne DEF TablesAre
<1>7. CASE UpdateConnection(c)
  <2> DEFINE e == call[c]
  <2>1. /\ conns' = [conns EXCEPT ![e.conn].name = e.name, ![e.conn].cfg = e.cfg]
        /\ Kept(e.conn) /\ e.op = "edit"
    BY <1>5, <1>7 DEF UpdateConnection, At
  <2>2. e.name \in Names /\ e.cfg \in Configs
    BY <1>4, <2>1 DEF CallTrue
  <2>3. PICK k \in 1..Len(conns) : k = e.conn
    BY <1>1, <2>1 DEF Kept
  <2>4. conns[k] \in ConnRows /\ conns[k] # Gone
    <3>1. conns[k] \in ConnRows \union {Gone}
      BY <1>1 DEF TablesAre
    <3>2. QED BY <2>1, <2>3, <3>1 DEF Kept
  <2> DEFINE entry == [conns[k] EXCEPT !.name = e.name, !.cfg = e.cfg]
  <2>5. entry \in ConnRows /\ entry.type = conns[k].type
    <3>1. \A x \in ConnRows : \A n \in Names : \A g \in Configs :
            LET y == [x EXCEPT !.name = n, !.cfg = g] IN y \in ConnRows /\ y.type = x.type
      BY DEF ConnRows
    <3>2. QED BY <2>2, <2>4, <3>1, Zenon
  <2>6. conns' = [conns EXCEPT ![k] = entry]
    BY <1>1, <2>1, <2>3 DEF TablesAre
  <2> HIDE DEF entry
  <2>7. QED BY <2>4, <2>5, <2>6, InPlace
<1>8. CASE RecordTestResult(c)
  <2> DEFINE e == call[c]
  <2>1. /\ conns' = [conns EXCEPT ![e.conn].tested = e.cfg]
        /\ Kept(e.conn) /\ e.op = "test"
    BY <1>5, <1>8 DEF RecordTestResult, At
  <2>2. e.cfg \in Configs
    BY <1>4, <2>1 DEF CallTrue
  <2>3. PICK k \in 1..Len(conns) : k = e.conn
    BY <1>1, <2>1 DEF Kept
  <2>4. conns[k] \in ConnRows /\ conns[k] # Gone
    <3>1. conns[k] \in ConnRows \union {Gone}
      BY <1>1 DEF TablesAre
    <3>2. QED BY <2>1, <2>3, <3>1 DEF Kept
  <2> DEFINE entry == [conns[k] EXCEPT !.tested = e.cfg]
  <2>5. entry \in ConnRows /\ entry.type = conns[k].type
    <3>1. \A x \in ConnRows : \A g \in Configs :
            LET y == [x EXCEPT !.tested = g] IN y \in ConnRows /\ y.type = x.type
      BY DEF ConnRows
    <3>2. QED BY <2>2, <2>4, <3>1, Zenon
  <2>6. conns' = [conns EXCEPT ![k] = entry]
    BY <1>1, <2>1, <2>3 DEF TablesAre
  <2> HIDE DEF entry
  <2>7. QED BY <2>4, <2>5, <2>6, InPlace
<1>9. QED BY <1>6, <1>7, <1>8

LEMMA RemoveRecords ==
  ASSUME IInv, Records, NEW c \in Calls, RemoveConnection(c) PROVE Records'
<1> DEFINE k == call[c].conn
<1>1. TablesAre /\ DOMAIN conns = 1..Len(conns)
  BY TablesTyped DEF TablesAre
<1>2. /\ conns' = [conns EXCEPT ![k] = Gone] /\ runs' = Forgotten(k) /\ To(c, Done)
      /\ scenario' = scenario /\ versions' = versions /\ current' = current
  BY DEF RemoveConnection, Ends
<1> HIDE DEF k
<1>3. DOMAIN runs = 1..Len(runs) /\ \A r \in 1..Len(runs) : runs[r] \in RunRows
  BY <1>1, RunsAreRuns DEF TablesAre
<1>4. \A x \in RunRows : LET y == [x EXCEPT !.dests = Forget(@, k)] IN
        /\ y \in RunRows /\ y.version = x.version /\ y.spec = x.spec
        /\ y.from = x.from /\ y.dests = Forget(x.dests, k)
  <2>1. \A x \in RunRows : x.dests \in Dests
    BY DEF RunRows
  <2>2. \A x \in RunRows : Forget(x.dests, k) \in Dests
    BY <2>1, ForgetOne
  <2>3. \A x \in RunRows : \A d \in Dests : LET y == [x EXCEPT !.dests = d] IN
          /\ y \in RunRows /\ y.version = x.version /\ y.spec = x.spec
          /\ y.from = x.from /\ y.dests = d
    BY DEF RunRows
  <2>4. QED BY <2>2, <2>3
<1>5. runs' = [r \in 1..Len(runs) |-> [runs[r] EXCEPT !.dests = Forget(@, k)]]
  BY <1>2, <1>3, Zenon DEF Forgotten
<1>6. \A r \in 1..Len(runs) : runs'[r] = [runs[r] EXCEPT !.dests = Forget(@, k)]
  BY <1>5
<1>7. \A r \in 1..Len(runs) :
        /\ runs'[r] \in RunRows /\ runs'[r].version = runs[r].version
        /\ runs'[r].spec = runs[r].spec /\ runs'[r].from = runs[r].from
        /\ runs'[r].dests = Forget(runs[r].dests, k)
  BY <1>3, <1>4, <1>6, Zenon
<1>8. runs' \in Seq(RunRows) /\ Len(runs') = Len(runs)
  <2>1. runs' \in [1..Len(runs) -> RunRows]
    BY <1>5, <1>7
  <2>2. \A m \in Nat : \A f \in [1..m -> RunRows] : f \in Seq(RunRows) /\ Len(f) = m
    OBVIOUS
  <2>3. Len(runs) \in Nat
    BY <1>1 DEF TablesAre
  <2>4. QED BY <2>1, <2>2, <2>3, Zenon
<1>9. /\ TablesTrue(scenario, versions, conns', runs')
      /\ LaterConns(conns, conns') /\ LaterRuns(runs, runs', conns')
  <2>1. TablesTrue(scenario, versions, conns, runs)
    BY <1>1 DEF TablesAre
  <2>2. PICK j : j = k
    OBVIOUS
  <2>3. /\ conns' = [conns EXCEPT ![j] = Gone]
        /\ \A r \in 1..Len(runs) :
             /\ runs'[r].version = runs[r].version /\ runs'[r].spec = runs[r].spec
             /\ runs'[r].from = runs[r].from /\ runs'[r].dests = Forget(runs[r].dests, j)
    BY <1>2, <1>7, <2>2, Zenon
  <2>4. Forgets(j, conns, runs, conns', runs')
    BY <1>8, <2>3 DEF Forgets
  <2>5. QED BY <2>1, <2>4, ForgetKeeps
<1>10. LaterVersions(versions, versions)
  BY <1>1 DEF TablesAre, LaterVersions
<1>11. Later(scenario, versions, conns, runs, scenario', versions', conns', runs')
  <2>1. conns' \in Seq(ConnRows \union {Gone})
    BY <1>9 DEF TablesTrue
  <2>2. QED BY <1>1, <1>2, <1>8, <1>9, <1>10, <2>1 DEF Later, TablesAre
<1>12. scenario' = "none" => current' = 0
  BY <1>2 DEF Records
<1>13. CallTrue(Done, scenario', versions', conns', runs')
  BY Replied
<1>14. QED BY <1>2, <1>9, <1>11, <1>12, <1>13, RequestMoves

(* Only runs change, and the request goes on.                               *)
LEMMA RunsMove ==
  ASSUME IInv, Records, NEW c \in Calls, NEW STATE s, To(c, s),
         UNCHANGED <<scenario, versions, current, conns>>,
         runs' \in Seq(RunRows), LaterRuns(runs, runs', conns),
         TablesTrue(scenario, versions, conns, runs'),
         CallTrue(s, scenario, versions, conns, runs')
  PROVE  Records'
<1>1. TablesAre
  BY TablesTyped
<1>2. /\ scenario' = scenario /\ versions' = versions /\ conns' = conns /\ current' = current
      /\ scenario' = "none" => current' = 0
  BY DEF Records
<1>3. LaterConns(conns, conns) /\ LaterVersions(versions, versions)
  BY <1>1 DEF TablesAre, LaterConns, LaterVersions
<1>4. Later(scenario, versions, conns, runs, scenario', versions', conns', runs')
  BY <1>1, <1>2, <1>3 DEF Later, TablesAre
<1>5. CallTrue(s, scenario', versions', conns', runs')
  BY <1>2
<1>6. TablesTrue(scenario', versions', conns', runs')
  BY <1>2
<1>7. QED BY <1>2, <1>4, <1>5, <1>6, RequestMoves

(* A launch that has inserted its run keeps nothing that RecordsHold is     *)
(* about.                                                                   *)
LEMMA RunAdded ==
  ASSUME NEW x, {"op", "at"} \subseteq DOMAIN x, x.op \in {"launch", "regenerate"},
         x.at \in {"queue", "mode", "destinations"},
         NEW sc, sc # "none", NEW vs, NEW cs, NEW rs
  PROVE  CallTrue(x, sc, vs, cs, rs)
<1>1. Launching(x, sc, vs, cs, rs)
  BY DEF Launching
<1>2. QED BY <1>1 DEF CallTrue

LEMMA InsertRecords ==
  ASSUME IInv, Records, NEW c \in Calls, Insert(c) PROVE Records'
<1> DEFINE l == call[c]
<1>1. TablesAre
  BY TablesTyped
<1>2. /\ l.op \in {"launch", "regenerate"} /\ l.at = "insert" /\ runs' = Inserted(l.run)
      /\ UNCHANGED <<scenario, versions, current, conns>>
  BY DEF Insert
<1>3. CallTrue(l, scenario, versions, conns, runs)
  BY DEF Records
<1>4. Launching(l, scenario, versions, conns, runs)
  BY <1>2, <1>3 DEF CallTrue
<1>5. CASE runs' = runs
  <2>1. To(c, Done)
    BY <1>5 DEF Insert, Ends
  <2>2. CallTrue(Done, scenario, versions, conns, runs)
    BY Replied
  <2>3. QED BY <1>2, <1>5, <2>1, <2>2, OnlyTheRequest
<1>6. CASE runs' # runs
  <2>1. /\ scenario = "kept" /\ \A s \in DOMAIN l.run.dests : Kept(l.run.dests[s].conn)
        /\ runs' = Append(runs, l.run)
    BY <1>2, <1>6 DEF Inserted
  <2>2. /\ l.run \in RunRows /\ OfVersion(l.run, versions) /\ Complete(l.run)
        /\ \A s \in DOMAIN l.run.dests : OfItsType(l.run.dests[s], conns)
        /\ l.run.from # 0 => CopyOf(l.run, runs, conns)
    BY <1>2, <1>4, <2>1, Zenon DEF Launching
  <2>3. PICK run : run = l.run
    OBVIOUS
  <2>4. \A s \in DOMAIN run.dests : /\ OfItsType(run.dests[s], conns)
                                /\ KeptIn(run.dests[s].conn, conns)
    BY <2>1, <2>2, <2>3 DEF Kept, KeptIn
  <2>5. TablesTrue("kept", versions, conns, Append(runs, run))
        /\ LaterRuns(runs, Append(runs, run), conns)
    <3>1. TablesTrue("kept", versions, conns, runs)
      BY <1>1, <2>1 DEF TablesAre
    <3>2. run \in RunRows /\ OfVersion(run, versions) /\ Complete(run)
          /\ (run.from # 0 => CopyOf(run, runs, conns))
      BY <2>2, <2>3
    <3>3. QED BY <2>4, <3>1, <3>2, InsertKeeps
  <2>6. runs' \in Seq(RunRows)
    BY <1>1, <2>1, <2>2 DEF TablesAre
  <2> DEFINE s == [op |-> l.op, at |-> "queue", mode |-> l.mode, left |-> l.run.dests,
                   id |-> Len(runs')]
  <2>7. To(c, s)
    BY <1>6 DEF Insert
  <2>8. CallTrue(s, scenario, versions, conns, runs')
    <3>1. {"op", "at"} \subseteq DOMAIN s /\ s.op = l.op /\ s.at = "queue"
      OBVIOUS
    <3> HIDE DEF s, l
    <3>2. PICK x : x = s
      OBVIOUS
    <3>3. PICK rs : rs = runs'
      OBVIOUS
    <3>4. CallTrue(x, scenario, versions, conns, rs)
      BY <1>2, <2>1, <3>1, <3>2, RunAdded
    <3>5. QED BY <3>2, <3>3, <3>4
  <2> HIDE DEF s, l
  <2>9. PICK x : x = s
    OBVIOUS
  <2>10. To(c, x) /\ CallTrue(x, scenario, versions, conns, runs')
    BY <2>7, <2>8, <2>9
  <2>11. TablesTrue(scenario, versions, conns, runs') /\ LaterRuns(runs, runs', conns)
    BY <2>1, <2>3, <2>5
  <2>12. QED BY <1>2, <2>6, <2>10, <2>11, RunsMove
<1>7. QED BY <1>5, <1>6

LEMMA QueueRecords ==
  ASSUME IInv, Records, NEW c \in Calls, Queue(c) PROVE Records'
<1> DEFINE l == call[c]
<1>1. TablesAre
  BY TablesTyped
<1>2. /\ l.op \in {"launch", "regenerate"} /\ l.at = "queue"
      /\ UNCHANGED <<scenario, versions, current, conns>>
  BY DEF Queue
<1>3. Launching(l, scenario, versions, conns, runs) /\ "op" \in DOMAIN l
  BY <1>2 DEF CallTrue, Records
<1>4. PICK s : To(c, s) /\ (s = Done \/ (s = [l EXCEPT !.at = "mode"]))
  BY DEF Queue, Ends
<1>5. \A rs : CallTrue(s, scenario, versions, conns, rs)
  <2>1. CASE s = Done
    <3>1. \A rs : CallTrue(Done, scenario, versions, conns, rs)
      BY Replied
    <3>2. QED BY <2>1, <3>1
  <2>2. CASE s = [l EXCEPT !.at = "mode"]
    <3>1. {"op", "at"} \subseteq DOMAIN s /\ s.op = l.op /\ s.at = "mode" /\ scenario # "none"
      BY <1>3, <2>2 DEF Launching
    <3>2. QED BY <1>2, <3>1, RunAdded
  <2>3. QED BY <1>4, <2>1, <2>2
<1>6. CASE runs' = runs
  BY <1>2, <1>4, <1>5, <1>6, OnlyTheRequest
<1>7. CASE runs' # runs
  <2>1. l.id \in DOMAIN runs /\ runs' = [runs EXCEPT ![l.id].status = "failed"]
    BY <1>7 DEF Queue
  <2>2. PICK k \in 1..Len(runs) : k = l.id
    BY <1>1, <2>1 DEF TablesAre
  <2>3. \A x \in RunRows : LET y == [x EXCEPT !.status = "failed"] IN
          y \in RunRows /\ SameRun(y, x) /\ SameRun(x, x)
    BY DEF RunRows, SameRun
  <2>4. DOMAIN runs = 1..Len(runs) /\ \A r \in 1..Len(runs) : runs[r] \in RunRows
    BY <1>1, RunsAreRuns DEF TablesAre
  <2>5. runs' = [r \in 1..Len(runs) |-> IF r = k THEN [runs[r] EXCEPT !.status = "failed"]
                                                  ELSE runs[r]]
    BY <2>1, <2>2, <2>4
  <2>6. \A r \in 1..Len(runs) : runs'[r] \in RunRows /\ SameRun(runs'[r], runs[r])
    BY <2>3, <2>4, <2>5
  <2>7. runs' \in Seq(RunRows) /\ Len(runs') = Len(runs)
    <3>1. runs' \in [1..Len(runs) -> RunRows]
      BY <2>5, <2>6
    <3>2. \A m \in Nat : \A f \in [1..m -> RunRows] : f \in Seq(RunRows) /\ Len(f) = m
      OBVIOUS
    <3>3. Len(runs) \in Nat
      BY <1>1 DEF TablesAre
    <3>4. QED BY <3>1, <3>2, <3>3, Zenon
  <2>8. TablesTrue(scenario, versions, conns, runs') /\ LaterRuns(runs, runs', conns)
    <3>1. \A rs2 \in Seq(RunRows) :
            Len(rs2) = Len(runs) /\ (\A r \in 1..Len(runs) : SameRun(rs2[r], runs[r]))
              => TablesTrue(scenario, versions, conns, rs2) /\ LaterRuns(runs, rs2, conns)
      BY <1>1, StatusKeeps DEF TablesAre
    <3>2. QED BY <2>6, <2>7, <3>1, Zenon
  <2>9. QED BY <1>2, <1>4, <1>5, <2>7, <2>8, RunsMove
<1>8. QED BY <1>6, <1>7

(* A row of the history: what was launched with the others is still true.   *)
LEMMA VersionRecords ==
  ASSUME IInv, Records, NEW c \in Calls, InsertVersion(c) PROVE Records'
<1>1. TablesAre
  BY TablesTyped
<1>2. UNCHANGED <<scenario, current, conns, runs>>
  BY DEF InsertVersion
<1>3. PICK s : To(c, s) /\ "op" \in DOMAIN s /\ s.op \in {"save", "done"}
  BY DEF InsertVersion, Ends, Done
<1>4. CallTrue(s, scenario, versions', conns, runs)
  BY <1>3, NothingToKeep
<1>5. versions' \in Seq(VersionRows) /\ LaterVersions(versions, versions')
  <2>1. CASE versions' = versions
    BY <1>1, <2>1 DEF TablesAre, LaterVersions
  <2>2. CASE versions' # versions
    <3>1. Inserts(call[c])
      BY <2>2 DEF InsertVersion
    <3>2. PICK entry \in VersionRows : versions' = Append(versions, entry)
      BY <3>1, NextNumber
    <3>3. QED BY <1>1, <3>2 DEF TablesAre, LaterVersions
  <2>3. QED BY <2>1, <2>2
<1>6. TablesTrue(scenario, versions', conns, runs)
  <2>1. \A run : OfVersion(run, versions) => OfVersion(run, versions')
    BY <1>1, <1>5, StillOfVersion DEF TablesAre
  <2>2. QED BY <1>1, <2>1 DEF TablesAre, TablesTrue
<1>7. Later(scenario, versions, conns, runs, scenario, versions', conns, runs)
  <2>1. LaterConns(conns, conns) /\ LaterRuns(runs, runs, conns)
    BY <1>1 DEF TablesAre, LaterConns, LaterRuns
  <2>2. QED BY <1>1, <1>5, <2>1 DEF Later, TablesAre
<1>8. /\ scenario' = scenario /\ conns' = conns /\ runs' = runs /\ current' = current
      /\ scenario' = "none" => current' = 0
  BY <1>2 DEF Records
<1>9. /\ Later(scenario, versions, conns, runs, scenario', versions', conns', runs')
      /\ TablesTrue(scenario', versions', conns', runs')
      /\ CallTrue(s, scenario', versions', conns', runs')
  BY <1>4, <1>6, <1>7, <1>8
<1>10. QED BY <1>3, <1>8, <1>9, RequestMoves

(* A scenario comes, when there is no run yet, and goes with its runs.      *)
LEMMA ScenarioRecords ==
  ASSUME IInv, Records, NEW c \in Calls, CreateScenario(c) \/ DeleteScenario(c) PROVE Records'
<1>1. TablesAre /\ LaterConns(conns, conns)
  BY TablesTyped DEF TablesAre, LaterConns
<1>2. PICK s : To(c, s) /\ "op" \in DOMAIN s /\ s.op \in {"save", "done"}
  BY DEF CreateScenario, DeleteScenario, Ends, Done, ToSave
<1>3. CallTrue(s, scenario', versions', conns', runs')
  <2>1. \A sc, vs, cs, rs : CallTrue(s, sc, vs, cs, rs)
    BY <1>2, NothingToKeep
  <2>2. QED BY <2>1
<1>4. CASE CreateScenario(c)
  <2>1. /\ scenario = "none" /\ scenario' = "kept" /\ versions' = versions /\ conns' = conns
        /\ runs' = runs
    BY <1>4 DEF CreateScenario
  <2>2. runs = <<>> /\ Len(runs) = 0
    BY <1>1, <2>1 DEF TablesAre, TablesTrue
  <2>3. TablesTrue("kept", versions, conns, runs)
    BY <1>1, <2>2 DEF TablesAre, TablesTrue
  <2>4. Later(scenario, versions, conns, runs, "kept", versions, conns, runs)
    BY <1>1, <2>1 DEF Later, TablesAre
  <2>5. /\ Later(scenario, versions, conns, runs, scenario', versions', conns', runs')
        /\ TablesTrue(scenario', versions', conns', runs')
        /\ scenario' # "none"
    BY <2>1, <2>3, <2>4
  <2>6. QED BY <1>2, <1>3, <2>5, RequestMoves
<1>5. CASE DeleteScenario(c)
  <2>1. /\ scenario' = "gone" /\ versions' = <<>> /\ conns' = conns /\ runs' = <<>>
    BY <1>5 DEF DeleteScenario
  <2>2. /\ versions' \in Seq(VersionRows) /\ runs' \in Seq(RunRows) /\ Len(runs') = 0
        /\ scenario' # "kept" /\ scenario' # "none"
    BY <2>1
  <2>3. TablesTrue(scenario', versions', conns', runs')
    BY <1>1, <2>1, <2>2 DEF TablesAre, TablesTrue
  <2>4. Later(scenario, versions, conns, runs, scenario', versions', conns', runs')
    BY <1>1, <2>1, <2>2 DEF Later, TablesAre
  <2>5. QED BY <1>2, <1>3, <2>2, <2>3, <2>4, RequestMoves
<1>6. QED BY <1>4, <1>5

LEMMA PointRecords ==
  ASSUME IInv, Records, NEW c \in Calls, SetCurrentVersion(c) PROVE Records'
<1>1. To(c, Done) /\ UNCHANGED <<scenario, versions, conns, runs>>
  BY DEF SetCurrentVersion, Ends
<1>2. scenario' = "none" => current' = 0
  BY DEF SetCurrentVersion, Records
<1>3. /\ Later(scenario, versions, conns, runs, scenario', versions', conns', runs')
      /\ TablesTrue(scenario', versions', conns', runs')
  BY <1>1, NothingLater
<1>4. CallTrue(Done, scenario', versions', conns', runs')
  BY Replied
<1>5. QED BY <1>1, <1>2, <1>3, <1>4, RequestMoves

-----------------------------------------------------------------------------
(* Requests that only read.                                                 *)
TrueNow(x) == CallTrue(x, scenario, versions, conns, runs)

LEMMA GoesOn ==
  ASSUME IInv, Records, NEW c \in Calls, UNCHANGED <<scenario, versions, conns, runs, current>>,
         \E s : To(c, s) /\ TrueNow(s)
  PROVE  Records'
<1>1. PICK s : To(c, s) /\ TrueNow(s)
  OBVIOUS
<1>2. QED BY <1>1, OnlyTheRequest DEF TrueNow

LEMMA EndsTrue == ASSUME NEW c \in Calls, Ends(c) PROVE \E s : To(c, s) /\ TrueNow(s)
<1>1. TrueNow(Done)
  BY Replied DEF TrueNow
<1>2. QED BY <1>1 DEF Ends

LEMMA SaveReads ==
  ASSUME IInv, Records, NEW c \in Calls, Save(c) \/ ReadLast(c) PROVE Records'
<1>1. UNCHANGED <<scenario, versions, conns, runs, current>>
  BY DEF Save, ReadLast, tables
<1>2. PICK s : To(c, s) /\ "op" \in DOMAIN s /\ s.op = "save"
  <2>1. CASE Save(c)
    <3>1. \A a, b, d : "op" \in DOMAIN ToSave(a, b, d) /\ ToSave(a, b, d).op = "save"
      BY DEF ToSave
    <3>2. QED BY <2>1, <3>1, Zenon DEF Save
  <2>2. CASE ReadLast(c)
    <3>1. /\ To(c, [call[c] EXCEPT !.at = "insert", !.no = LastNo + 1])
          /\ call[c].op = "save" /\ "op" \in DOMAIN call[c]
      BY <2>2 DEF ReadLast, At, IInv, SavesTrue
    <3>2. PICK x : x = call[c]
      OBVIOUS
    <3>3. PICK s : s = [x EXCEPT !.at = "insert", !.no = LastNo + 1]
      OBVIOUS
    <3>4. "op" \in DOMAIN s /\ s.op = "save"
      BY <3>1, <3>2, <3>3
    <3>5. QED BY <3>1, <3>2, <3>3, <3>4, Zenon
  <2>3. QED BY <2>1, <2>2
<1>3. TrueNow(s)
  BY <1>2, NothingToKeep DEF TrueNow
<1>4. QED BY <1>1, <1>2, <1>3, GoesOn

LEMMA ConnReads ==
  ASSUME IInv, Records, NEW c \in Calls,
         \/ CreateConnection(c) \/ EditConnection(c) \/ DeleteConnection(c)
         \/ TestConnection(c) \/ Probed(c) \/ WorkerUnavailable(c)
  PROVE  Records'
<1>0. TablesAre
  BY TablesTyped
<1>1. UNCHANGED <<scenario, versions, conns, runs, current>>
  BY DEF CreateConnection, EditConnection, DeleteConnection, TestConnection, Probed,
         WorkerUnavailable, tables
<1>2. SUFFICES ASSUME ~Ends(c) PROVE \E s : To(c, s) /\ TrueNow(s)
  BY <1>1, EndsTrue, GoesOn
<1>3. CASE CreateConnection(c)
  <2>1. PICK n \in Names, t \in Types, g \in Configs :
          To(c, [op |-> "connect", at |-> "insert",
                 row |-> Row([name |-> n, type |-> t, cfg |-> g], "user")])
    BY <1>2, <1>3 DEF CreateConnection
  <2>2. Row([name |-> n, type |-> t, cfg |-> g], "user") \in ConnRows
    BY RowsAreRows DEF Entries
  <2>3. PICK entry \in ConnRows : entry = Row([name |-> n, type |-> t, cfg |-> g], "user")
    BY <2>2
  <2>4. TrueNow([op |-> "connect", at |-> "insert", row |-> entry])
    BY DEF TrueNow, CallTrue
  <2>5. QED BY <2>1, <2>3, <2>4
<1>4. CASE EditConnection(c)
  <2>1. PICK k \in DOMAIN conns, n \in Names, g \in Configs :
          To(c, [op |-> "edit", at |-> "update", conn |-> k, name |-> n, cfg |-> g])
    BY <1>2, <1>4 DEF EditConnection
  <2>2. TrueNow([op |-> "edit", at |-> "update", conn |-> k, name |-> n, cfg |-> g])
    BY DEF TrueNow, CallTrue
  <2>3. QED BY <2>1, <2>2
<1>5. CASE DeleteConnection(c)
  <2>1. PICK k \in DOMAIN conns : To(c, [op |-> "remove", at |-> "delete", conn |-> k])
    BY <1>2, <1>5 DEF DeleteConnection
  <2>2. TrueNow([op |-> "remove", at |-> "delete", conn |-> k])
    BY DEF TrueNow, CallTrue
  <2>3. QED BY <2>1, <2>2
<1>6. CASE TestConnection(c)
  <2>1. PICK k \in DOMAIN conns :
          Kept(k) /\ To(c, [op |-> "test", at |-> "probing", conn |-> k, cfg |-> conns[k].cfg])
    BY <1>6 DEF TestConnection
  <2>2. conns[k] \in ConnRows \union {Gone} /\ conns[k] # Gone
    BY <1>0, <2>1 DEF TablesAre, Kept
  <2>3. conns[k].cfg \in Configs
    <3>1. \A x \in ConnRows : x.cfg \in Configs
      BY DEF ConnRows
    <3>2. QED BY <2>2, <3>1
  <2>4. \A g \in Configs : TrueNow([op |-> "test", at |-> "probing", conn |-> k, cfg |-> g])
    BY DEF TrueNow, CallTrue
  <2>5. QED BY <2>1, <2>3, <2>4, Zenon
<1>7. CASE Probed(c)
  <2>1. To(c, [call[c] EXCEPT !.at = "record"]) /\ call[c].op = "test" /\ TrueNow(call[c])
    BY <1>7 DEF Probed, At, Records, TrueNow
  <2>2. PICK x : x = call[c]
    OBVIOUS
  <2>3. "op" \in DOMAIN x /\ {"at", "cfg"} \subseteq DOMAIN x /\ x.cfg \in Configs /\ x.op = "test"
    BY <2>1, <2>2 DEF TrueNow, CallTrue
  <2>4. PICK s : s = [x EXCEPT !.at = "record"]
    OBVIOUS
  <2>5. /\ "op" \in DOMAIN s /\ {"at", "cfg"} \subseteq DOMAIN s
        /\ s.cfg \in Configs /\ s.op = "test"
    BY <2>3, <2>4
  <2>6. TrueNow(s)
    BY <2>5 DEF TrueNow, CallTrue
  <2>7. QED BY <2>1, <2>2, <2>4, <2>6
<1>8. CASE WorkerUnavailable(c)
  BY <1>2, <1>8 DEF WorkerUnavailable
<1>9. QED BY <1>3, <1>4, <1>5, <1>6, <1>7, <1>8

(* A launch: what it is told, what it reads, and what it will insert.       *)
LEMMA LaunchReads ==
  ASSUME IInv, Records, NEW c \in Calls,
         Launch(c) \/ ReadVersion(c) \/ KeepMode(c) \/ KeepDestination(c)
  PROVE  Records'
<1>0. TablesAre
  BY TablesTyped
<1>1. UNCHANGED <<scenario, versions, conns, runs, current>>
  BY DEF Launch, ReadVersion, KeepMode, KeepDestination, tables
<1>2. SUFFICES ASSUME ~Ends(c) PROVE \E s : To(c, s) /\ TrueNow(s)
  BY <1>1, EndsTrue, GoesOn
<1>3. TrueNow(call[c])
  BY DEF Records, TrueNow
<1>4. call[c].op = "launch" => Launching(call[c], scenario, versions, conns, runs)
                               /\ "op" \in DOMAIN call[c]
  BY <1>3 DEF TrueNow, CallTrue
<1>5. CASE Launch(c)
  <2>1. PICK d \in Bindings, mode \in Modes :
          /\ current # 0
          /\ To(c, [op |-> "launch", at |-> "spec", version |-> current, dests |-> d,
                    mode |-> mode])
    BY <1>2, <1>5 DEF Launch
  <2>2. d \in Bound
    <3>1. PICK S \in SUBSET Sinks : d \in [S -> DOMAIN conns]
      BY <2>1 DEF Bindings
    <3>2. DOMAIN conns \subseteq Nat
      BY <1>0 DEF TablesAre
    <3>3. d \in [S -> Nat]
      BY <3>1, <3>2
    <3>4. QED BY <3>3 DEF Bound
  <2>3. scenario # "none"
    BY <2>1 DEF Records
  <2> DEFINE s == [op |-> "launch", at |-> "spec", version |-> current, dests |-> d,
                   mode |-> mode]
  <2>4. {"op", "at"} \subseteq DOMAIN s /\ s.op = "launch" /\ s.at = "spec" /\ s.dests = d
    OBVIOUS
  <2>5. To(c, s)
    BY <2>1
  <2> HIDE DEF s
  <2>6. Launching(s, scenario, versions, conns, runs)
    BY <2>2, <2>3, <2>4 DEF Launching
  <2>7. TrueNow(s)
    BY <2>4, <2>6 DEF TrueNow, CallTrue
  <2>8. QED BY <2>5, <2>7
<1>6. CASE ReadVersion(c)
  <2> DEFINE l == call[c]
             s == [op |-> "launch", at |-> "check", version |-> l.version, dests |-> l.dests,
                   mode |-> l.mode, spec |-> versions[l.version].spec]
  <2>1. /\ l.op = "launch" /\ l.at = "spec" /\ l.version \in DOMAIN versions
        /\ To(c, s)
    BY <1>2, <1>6 DEF ReadVersion, At
  <2>2. scenario # "none" /\ l.dests \in Bound
    BY <1>4, <2>1 DEF Launching
  <2>3. versions[l.version].spec \in Specs /\ l.version \in 1..Len(versions) /\ l.version \in Nat
    <3>1. DOMAIN versions = 1..Len(versions)
      BY <1>0 DEF TablesAre
    <3>2. versions[l.version] \in VersionRows
      BY <1>0, <2>1, <3>1 DEF TablesAre
    <3>3. QED BY <2>1, <3>1, <3>2 DEF VersionRows
  <2>4. /\ {"op", "at"} \subseteq DOMAIN s /\ s.op = "launch" /\ s.at = "check"
        /\ s.dests = l.dests /\ s.version = l.version /\ s.spec = versions[l.version].spec
    OBVIOUS
  <2> HIDE DEF s, l
  <2>5. OfVersion(s, versions)
    BY <2>3, <2>4 DEF OfVersion
  <2>6. Launching(s, scenario, versions, conns, runs)
    BY <2>2, <2>3, <2>4, <2>5 DEF Launching
  <2>7. TrueNow(s)
    BY <2>4, <2>6 DEF TrueNow, CallTrue
  <2>8. QED BY <2>1, <2>7
<1>7. CASE KeepMode(c) \/ KeepDestination(c)
  <2>1. call[c].op = "launch" /\ call[c].at \in {"mode", "destinations"}
    BY <1>7 DEF KeepMode, KeepDestination, At
  <2>2. scenario # "none" /\ {"op", "at"} \subseteq DOMAIN call[c]
    BY <1>4, <2>1 DEF Launching
  <2>3. PICK x : x = call[c]
    OBVIOUS
  <2>4. ASSUME NEW s, {"op", "at"} \subseteq DOMAIN s, s.op = "launch",
               s.at \in {"mode", "destinations"}
        PROVE  TrueNow(s)
    BY <2>2, <2>4, RunAdded DEF TrueNow
  <2>5. CASE KeepMode(c)
    <3>1. To(c, [x EXCEPT !.at = "destinations"])
      BY <1>2, <2>3, <2>5, Zenon DEF KeepMode
    <3>2. TrueNow([x EXCEPT !.at = "destinations"])
      BY <2>1, <2>2, <2>3, <2>4
    <3>3. QED BY <3>1, <3>2, Zenon
  <2>6. CASE KeepDestination(c)
    <3>1. PICK left : To(c, [x EXCEPT !.left = left])
      BY <1>2, <2>3, <2>6, Zenon DEF KeepDestination
    <3>2. TrueNow([x EXCEPT !.left = left])
      BY <2>1, <2>2, <2>3, <2>4
    <3>3. QED BY <3>1, <3>2, Zenon
  <2>7. QED BY <1>7, <2>5, <2>6
<1>8. QED BY <1>5, <1>6, <1>7

LEMMA CheckReads ==
  ASSUME IInv, Records, NEW c \in Calls, CheckDestinations(c) PROVE Records'
<1> DEFINE l == call[c]
           run == [version |-> l.version, spec |-> l.spec, from |-> 0, status |-> "running",
                   dests |-> Snapshot(l.dests)]
           s == [op |-> "launch", at |-> "insert", mode |-> l.mode, run |-> run]
<1>0. TablesAre
  BY TablesTyped
<1>1. UNCHANGED <<scenario, versions, conns, runs, current>>
  BY DEF CheckDestinations, tables
<1>2. SUFFICES ASSUME ~Ends(c) PROVE \E t : To(c, t) /\ TrueNow(t)
  BY <1>1, EndsTrue, GoesOn
<1>3. /\ l.op = "launch" /\ l.at = "check" /\ Validated(l.spec, l.dests) /\ To(c, s)
  BY <1>2 DEF CheckDestinations, At
<1>4. Launching(l, scenario, versions, conns, runs)
  BY <1>3 DEF Records, CallTrue
<1>5. /\ scenario # "none" /\ l.dests \in Bound /\ l.spec \in Specs /\ l.version \in Nat
      /\ scenario = "kept" => OfVersion(l, versions)
  BY <1>3, <1>4 DEF Launching
<1>6. PICK d : d = l.dests
  OBVIOUS
<1>7. PICK S \in SUBSET Sinks : d \in [S -> Nat]
  BY <1>5, <1>6 DEF Bound
<1>8. DOMAIN d = S /\ \A t \in S : d[t] \in Nat /\ Kept(d[t])
  BY <1>3, <1>6, <1>7 DEF Validated
<1>9. \A t \in S : /\ d[t] \in 1..Len(conns) /\ conns[d[t]].type \in Types
  <2>1. DOMAIN conns = 1..Len(conns)
    BY <1>0 DEF TablesAre
  <2>2. \A k \in 1..Len(conns) : conns[k] \in ConnRows \union {Gone}
    BY <1>0 DEF TablesAre
  <2>3. \A x \in ConnRows : x.type \in Types
    BY DEF ConnRows
  <2>4. QED BY <1>8, <2>1, <2>2, <2>3 DEF Kept
<1> DEFINE dests == Snapshot(d)
<1>10. dests \in [S -> [conn : Nat, type : Types]]
  BY <1>8, <1>9 DEF Snapshot
<1>11. \A t \in S : dests[t].conn = d[t] /\ dests[t].type = conns[d[t]].type
  BY <1>8 DEF Snapshot
<1>12. /\ run.version = l.version /\ run.spec = l.spec /\ run.from = 0
       /\ run.status = "running" /\ run.dests = dests
  BY <1>6
<1>13. run = [version |-> l.version, spec |-> l.spec, from |-> 0, status |-> "running",
              dests |-> dests]
  BY <1>6
<1> HIDE DEF run, dests
<1>14. dests \in Dests /\ DOMAIN dests = S
  BY <1>10 DEF Dests
<1>15. run \in RunRows
  BY <1>5, <1>13, <1>14 DEF RunRows
<1>16. Complete(run)
  <2>1. \A t \in DOMAIN Broker[l.spec] :
          t \in DOMAIN d /\ conns[d[t]].type = Broker[l.spec][t]
    BY <1>3, <1>6 DEF Validated
  <2>2. QED BY <1>8, <1>11, <1>12, <1>14, <2>1 DEF Complete
<1>17. \A t \in DOMAIN run.dests : OfItsType(run.dests[t], conns)
  <2>1. Len(conns) \in Nat
    BY <1>0 DEF TablesAre
  <2>2. QED BY <1>9, <1>11, <1>12, <1>14, <2>1 DEF OfItsType
<1>18. scenario = "kept" => OfVersion(run, versions)
  BY <1>5, <1>12 DEF OfVersion
<1>19. {"op", "at"} \subseteq DOMAIN s /\ s.op = "launch" /\ s.at = "insert" /\ s.run = run
  OBVIOUS
<1> HIDE DEF s, l
<1>20. Launching(s, scenario, versions, conns, runs)
  BY <1>5, <1>12, <1>15, <1>16, <1>17, <1>18, <1>19 DEF Launching
<1>21. TrueNow(s)
  BY <1>19, <1>20 DEF TrueNow, CallTrue
<1>22. QED BY <1>3, <1>21

(* A regeneration reads a run, then that run's destinations.                *)
LEMMA RegenerateReads ==
  ASSUME IInv, Records, NEW c \in Calls, Regenerate(c) PROVE Records'
<1>0. TablesAre
  BY TablesTyped
<1>1. UNCHANGED <<scenario, versions, conns, runs, current>>
  BY DEF Regenerate, tables
<1>2. PICK r \in DOMAIN runs :
        To(c, [op |-> "regenerate", at |-> "list", from |-> r,
               run |-> [runs[r] EXCEPT !.from = r, !.status = "running", !.dests = <<>>]])
  BY DEF Regenerate
<1>3. /\ r \in 1..Len(runs) /\ r \in Nat /\ r # 0 /\ runs[r] \in RunRows
      /\ OfVersion(runs[r], versions)
  BY <1>0 DEF TablesAre, TablesTrue
<1>4. scenario = "kept"
  <2>1. runs # <<>>
    BY <1>2
  <2>2. QED BY <1>0, <2>1 DEF TablesAre, TablesTrue
<1>5. PICK entry \in RunRows : entry = runs[r]
  BY <1>3
<1>6. PICK run : run = [entry EXCEPT !.from = r, !.status = "running", !.dests = <<>>]
  OBVIOUS
<1>7. /\ run \in Copies
      /\ run.version = entry.version /\ run.spec = entry.spec /\ run.from = r
  BY <1>3, <1>6 DEF RunRows, Copies
<1>8. OfVersion(run, versions)
  BY <1>3, <1>5, <1>7 DEF OfVersion
<1> DEFINE s == [op |-> "regenerate", at |-> "list", from |-> r, run |-> run]
<1>9. To(c, s)
  BY <1>2, <1>5, <1>6
<1>10. {"op", "at"} \subseteq DOMAIN s /\ s.op = "regenerate" /\ s.at = "list"
       /\ s.from = r /\ s.run = run
  OBVIOUS
<1> HIDE DEF s
<1>11. Launching(s, scenario, versions, conns, runs)
  BY <1>3, <1>4, <1>5, <1>7, <1>8, <1>10 DEF Launching
<1>12. TrueNow(s)
  BY <1>10, <1>11 DEF TrueNow, CallTrue
<1>13. QED BY <1>1, <1>9, <1>12, GoesOn

(* What is inserted for a run that is there has that run's destinations.    *)
LEMMA Copied ==
  ASSUME NEW vs, NEW cs, NEW rs, TablesTrue("kept", vs, cs, rs), NEW copy \in Copies,
         NEW r \in 1..Len(rs), copy.from = r, copy.spec = rs[r].spec, OfVersion(copy, vs),
         NEW run, run = [copy EXCEPT !.dests = rs[r].dests]
  PROVE  /\ run \in RunRows /\ OfVersion(run, vs) /\ Complete(run)
         /\ \A s \in DOMAIN run.dests : OfItsType(run.dests[s], cs)
         /\ CopyOf(run, rs, cs)
<1>1. rs[r] \in RunRows /\ Complete(rs[r])
      /\ \A s \in DOMAIN rs[r].dests : OfItsType(rs[r].dests[s], cs)
  BY DEF TablesTrue
<1>2. PICK entry \in RunRows : entry = rs[r]
  BY <1>1
<1>3. entry.dests \in Dests
  BY DEF RunRows
<1>4. /\ run \in RunRows /\ run.version = copy.version /\ run.spec = entry.spec
      /\ run.from = r /\ run.dests = entry.dests
  BY <1>2, <1>3 DEF Copies, RunRows
<1>5. OfVersion(run, vs)
  BY <1>2, <1>4 DEF OfVersion
<1>6. Complete(run)
  BY <1>1, <1>2, <1>4 DEF Complete
<1>7. CopyOf(run, rs, cs)
  BY <1>2, <1>4 DEF CopyOf
<1>8. QED BY <1>1, <1>2, <1>4, <1>5, <1>6, <1>7

LEMMA ListReads ==
  ASSUME IInv, Records, NEW c \in Calls, ListDestinations(c) PROVE Records'
<1>0. TablesAre
  BY TablesTyped
<1>1. UNCHANGED <<scenario, versions, conns, runs, current>>
  BY DEF ListDestinations, tables
<1>2. PICK g : g = call[c]
  OBVIOUS
<1>3. g.op = "regenerate" /\ g.at = "list"
  BY <1>2 DEF ListDestinations, At
<1>4. Launching(g, scenario, versions, conns, runs)
  BY <1>2, <1>3 DEF Records, CallTrue
<1>5. PICK run : run = [g.run EXCEPT !.dests =
                         IF g.from \in DOMAIN runs THEN runs[g.from].dests ELSE <<>>]
  OBVIOUS
<1> DEFINE s == [op |-> "regenerate", at |-> "insert", mode |-> "none", run |-> run]
<1>6. To(c, s)
  BY <1>2, <1>5 DEF ListDestinations
<1>7. {"op", "at"} \subseteq DOMAIN s /\ s.op = "regenerate" /\ s.at = "insert" /\ s.run = run
  OBVIOUS
<1> HIDE DEF s
<1>8. ASSUME scenario = "kept"
      PROVE  /\ run \in RunRows /\ OfVersion(run, versions) /\ Complete(run)
             /\ \A t \in DOMAIN run.dests : OfItsType(run.dests[t], conns)
             /\ CopyOf(run, runs, conns)
  <2>1. /\ g.run \in Copies /\ g.run.from = g.from /\ OfVersion(g.run, versions)
        /\ g.from \in 1..Len(runs) /\ g.run.spec = runs[g.from].spec
    BY <1>3, <1>4, <1>8 DEF Launching
  <2>2. g.from \in DOMAIN runs
    BY <1>0, <2>1 DEF TablesAre
  <2>3. run = [g.run EXCEPT !.dests = runs[g.from].dests]
    BY <1>5, <2>2
  <2>4. TablesTrue("kept", versions, conns, runs)
    BY <1>0, <1>8 DEF TablesAre
  <2>5. PICK vs, cs, rs : vs = versions /\ cs = conns /\ rs = runs
    OBVIOUS
  <2>6. PICK copy, r : copy = g.run /\ r = g.from
    OBVIOUS
  <2>7. /\ run \in RunRows /\ OfVersion(run, vs) /\ Complete(run)
        /\ \A t \in DOMAIN run.dests : OfItsType(run.dests[t], cs)
        /\ CopyOf(run, rs, cs)
    BY <2>1, <2>3, <2>4, <2>5, <2>6, Copied
  <2>8. QED BY <2>5, <2>7
<1>9. Launching(s, scenario, versions, conns, runs)
  BY <1>4, <1>7, <1>8 DEF Launching
<1>10. TrueNow(s)
  BY <1>7, <1>9 DEF TrueNow, CallTrue
<1>11. QED BY <1>1, <1>6, <1>10, GoesOn

-----------------------------------------------------------------------------
LEMMA NextRecords == ASSUME IInv, Records, [Next]_vars PROVE Records'
<1>1. CASE UNCHANGED vars
  BY <1>1 DEF Records, vars, tables
<1>2. CASE ApplyEnvConnections \/ SeedOnBoot \/ MarkSeeded
  BY <1>2, ServerRecords
<1>3. CASE Crash
  BY <1>3, CrashRecords
<1>4. ASSUME NEW c \in Calls,
             \/ CreateScenario(c) \/ DeleteScenario(c)
             \/ Save(c) \/ ReadLast(c) \/ InsertVersion(c) \/ SetCurrentVersion(c)
      PROVE  Records'
  BY <1>4, ScenarioRecords, SaveReads, VersionRecords, PointRecords
<1>5. ASSUME NEW c \in Calls,
             \/ CreateConnection(c) \/ InsertConnection(c)
             \/ EditConnection(c) \/ UpdateConnection(c)
             \/ DeleteConnection(c) \/ RemoveConnection(c)
             \/ TestConnection(c) \/ Probed(c) \/ WorkerUnavailable(c) \/ RecordTestResult(c)
      PROVE  Records'
  BY <1>5, ConnReads, ConnRecords, RemoveRecords
<1>6. ASSUME NEW c \in Calls,
             \/ Launch(c) \/ ReadVersion(c) \/ CheckDestinations(c)
             \/ Regenerate(c) \/ ListDestinations(c)
             \/ Insert(c) \/ Queue(c) \/ KeepMode(c) \/ KeepDestination(c)
      PROVE  Records'
  BY <1>6, LaunchReads, CheckReads, RegenerateReads, ListReads, InsertRecords, QueueRecords
<1>7. QED BY <1>1, <1>2, <1>3, <1>4, <1>5, <1>6 DEF Next

(* However many launches, regenerations, edits and deletions overlap, a     *)
(* run's record holds together: its snapshot is its version's content, each *)
(* broker sink has a destination of its type, whose connection is of that   *)
(* type or deleted, and a regenerated run has what its source has           *)
(* (launchGeneration, run-regenerate).                                      *)
THEOREM RecordsKept == Spec => []RecordsHold
<1>1. Init => IInv /\ Records
  BY InitKeeps, InitRecords
<1>2. IInv /\ Records /\ [Next]_vars => (IInv /\ Records)'
  BY NextKeeps, NextRecords
<1>3. ASSUME IInv, Records PROVE RecordsHold
  <2>1. TablesAre
    BY <1>3, TablesTyped
  <2>2. DOMAIN runs = 1..Len(runs)
    BY <2>1 DEF TablesAre
  <2>3. TablesTrue(scenario, versions, conns, runs)
    BY <2>1 DEF TablesAre
  <2>4. ASSUME NEW r \in DOMAIN runs
        PROVE  /\ versions[runs[r].version].spec = runs[r].spec
               /\ \A s \in DOMAIN Broker[runs[r].spec] :
                    s \in DOMAIN runs[r].dests
                    /\ runs[r].dests[s].type = Broker[runs[r].spec][s]
               /\ \A s \in DOMAIN runs[r].dests :
                    runs[r].dests[s].conn # 0 =>
                      /\ Kept(runs[r].dests[s].conn)
                      /\ conns[runs[r].dests[s].conn].type = runs[r].dests[s].type
               /\ runs[r].from # 0 => /\ runs[r].spec = runs[runs[r].from].spec
                                      /\ runs[r].dests = runs[runs[r].from].dests
    <3>1. /\ OfVersion(runs[r], versions) /\ Complete(runs[r])
          /\ \A s \in DOMAIN runs[r].dests :
               /\ OfItsType(runs[r].dests[s], conns)
               /\ runs[r].dests[s].conn # 0 => KeptIn(runs[r].dests[s].conn, conns)
          /\ runs[r].from # 0 => /\ runs[r].spec = runs[runs[r].from].spec
                                 /\ runs[r].dests = runs[runs[r].from].dests
      BY <2>2, <2>3, <2>4 DEF TablesTrue
    <3>2. PICK entry : entry = runs[r]
      OBVIOUS
    <3>3. \A s \in DOMAIN entry.dests : entry.dests[s].conn # 0 =>
            Kept(entry.dests[s].conn) /\ conns[entry.dests[s].conn].type = entry.dests[s].type
      <4>1. ASSUME NEW s \in DOMAIN entry.dests, entry.dests[s].conn # 0
            PROVE  OfItsType(entry.dests[s], conns) /\ KeptIn(entry.dests[s].conn, conns)
        BY <3>1, <3>2, <4>1
      <4>2. QED BY <4>1 DEF OfItsType, KeptIn, Kept
    <3>4. versions[entry.version].spec = entry.spec
      BY <3>1, <3>2 DEF OfVersion
    <3>5. \A s \in DOMAIN Broker[entry.spec] :
            s \in DOMAIN entry.dests /\ entry.dests[s].type = Broker[entry.spec][s]
      BY <3>1, <3>2 DEF Complete
    <3>6. QED BY <3>1, <3>2, <3>3, <3>4, <3>5
  <2>5. QED BY <2>4, Zenon DEF RecordsHold
<1>4. Spec => [](IInv /\ Records)
  BY <1>1, <1>2, PTL DEF Spec
<1>5. QED BY <1>3, <1>4, PTL

-----------------------------------------------------------------------------
(* The web client over these tables: what Save would store and Launch would *)
(* run, and what becomes of the user's choices in the launch drawer.        *)
None == Work!None

(* The records, by their fields.                                            *)
Drawn(d) ==
  d = [open |-> d.open, no |-> d.no, loaded |-> d.loaded, offer |-> d.offer, conns |-> d.conns,
       newFor |-> d.newFor, busy |-> d.busy, mode |-> d.mode, dests |-> d.dests]

Editor == [text : Texts \union {None}, timer : Texts \union {None}, edits : Nat, asked : Nat,
           taken : Nat]

(* The form is the user's once it is shown, and the answer that shows it    *)
(* comes once for each opening.                                             *)
FormKept ==
  /\ Drawn(drawer) /\ drawer.no \in Nat
  /\ drawer.no \in loads => ~drawer.loaded
  /\ chosen = [mode |-> chosen.mode, dests |-> chosen.dests, since |-> chosen.since]
  /\ Work!ChoicesKept

(* The model numbers the validations: the last one asked was about the text *)
(* in the editor, unless the timer runs or the text is not JSON.            *)
Tracks ==
  /\ editor \in Editor /\ editor.taken <= editor.asked
  /\ load \in [at : {"row", "versions", "ready"}, current : Nat]
  /\ editor.timer # None => editor.timer = editor.text /\ load.at = "ready"
  /\ checks \subseteq [no : Nat, text : Texts]
  /\ \A c \in checks :
       /\ c.no <= editor.asked /\ load.at = "ready"
       /\ c.no = editor.asked => /\ editor.taken # editor.asked
                                 /\ editor.timer = None /\ editor.text \notin Broken
                                      => c.text = editor.text
       /\ \A d \in checks : c.no = d.no => c = d
  /\ currentSpec \in Valid \union {None} /\ (currentSpec # None => load.at = "ready")
  /\ editor.timer = None /\ editor.taken = editor.asked /\ editor.text \notin Broken
       => currentSpec = IF editor.text \in Valid THEN editor.text ELSE None

(* The version the drawer would launch is the last there is, and so is the  *)
(* one a save has stored, until its answer tells the drawer.                *)
Launches ==
  /\ api = [versions |-> api.versions, conns |-> api.conns, kept |-> api.kept]
  /\ api.versions \in Seq(Valid)
  /\ saving \in [at : {"idle", "sent", "stored"}, text : Valid \union {None}]
  /\ saving.at = "idle" => saving = Work!Idle
  /\ saving.at # "idle" => saving.text \in Valid /\ load.at = "ready"
  /\ savedSpec # None => load.at = "ready" /\ api.versions # <<>>
  /\ saving.at # "stored" /\ ~elsewhere /\ savedSpec # None
       => savedSpec = api.versions[Len(api.versions)]
  /\ saving.at = "stored" => /\ api.versions # <<>>
                             /\ ~elsewhere => saving.text = api.versions[Len(api.versions)]

WebInv == FormKept /\ Tracks /\ Launches

-----------------------------------------------------------------------------
LEMMA Assumed ==
  /\ Valid \subseteq Texts /\ Broken \subseteq Texts /\ First \in Texts /\ None \notin Texts
  /\ None \notin Valid /\ First \notin Valid /\ First \notin Broken /\ Valid \cap Broken = {}
BY WebAssumption DEF None

LEMMA Starts == ASSUME Work!Blank PROVE FormKept /\ Tracks
BY Assumed DEF Work!Blank, Work!Closed, Work!Left, Work!Untyped, Work!Fetching, FormKept, Drawn,
               Tracks, Editor, Work!ChoicesKept, None, Work!None

LEMMA Init0 == ASSUME WebInit PROVE WebInv
<1>1. Work!Blank /\ (Work!Init \/ api = Work!NoRows)
  BY DEF WebInit, Work!Init
<1>2. FormKept /\ Tracks
  BY <1>1, Starts DEF Work!Blank, Work!Fetching
<1>3. api = [versions |-> api.versions, conns |-> api.conns, kept |-> api.kept]
  BY <1>1 DEF Work!Init, Work!NoRows
<1>4. api.versions \in Seq(Valid)
  <2>1. CASE api = Work!NoRows
    BY <2>1 DEF Work!NoRows
  <2>2. CASE Work!Init
    <3>1. api.versions = <<>> \/ \E t \in Valid : api.versions = <<t>>
      <4>1. CASE api \in {[Work!NoRows EXCEPT !.versions = v] :
                            v \in {<<>>} \union {<<t>> : t \in Valid}}
        <5>1. PICK v \in {<<>>} \union {<<t>> : t \in Valid} :
                api = [Work!NoRows EXCEPT !.versions = v]
          BY <4>1
        <5>2. api.versions = v
          BY <5>1 DEF Work!NoRows
        <5>3. QED BY <5>1, <5>2
      <4>2. CASE \E t \in Valid, m \in {"only", "live"} :
                   api = [versions |-> <<t>>, conns |-> {1},
                          kept |-> [mode |-> m,
                                    dests |-> [x \in Work!Sinks |->
                                                 IF x \in SinksOf[t] THEN 1 ELSE 0]]]
        BY <4>2
      <4>3. QED BY <2>2, <4>1, <4>2 DEF Work!Init
    <3>2. <<>> \in Seq(Valid) /\ \A t \in Valid : <<t>> \in Seq(Valid)
      OBVIOUS
    <3>3. QED BY <3>1, <3>2
  <2>3. QED BY <1>1, <2>1, <2>2
<1>5. QED
  BY <1>1, <1>2, <1>3, <1>4
     DEF WebInv, Launches, Work!Blank, Work!Idle, None, Work!None, Work!Fetching

-----------------------------------------------------------------------------
(* The page's loads, the editor and its validations.                        *)

LEMMA RowRead == ASSUME WebInv, Work!RowLoaded PROVE WebInv'
<1>1. /\ load.at = "row" /\ load' \in [at : {"versions"}, current : Nat]
      /\ UNCHANGED <<api, editor, checks, currentSpec, saved, savedSpec, saving, drawer,
                  loads, chosen, elsewhere>>
  <2>1. PICK no \in {0, Len(api.versions)} :
          load' = [load EXCEPT !.at = "versions", !.current = no]
    BY DEF Work!RowLoaded
  <2>2. no \in Nat
    BY DEF WebInv, Launches
  <2>3. QED BY <2>1, <2>2 DEF Work!RowLoaded, WebInv, Tracks
<1>2. QED BY <1>1 DEF WebInv, FormKept, Drawn, Tracks, Launches, Work!ChoicesKept, Work!Left

(* A validation asked about the text the editor takes.                      *)
LEMMA Asked ==
  ASSUME Tracks, load' \in [at : {"row", "versions", "ready"}, current : Nat],
         load'.at = "ready",
         currentSpec' = currentSpec,
         NEW e \in Editor, NEW text \in Texts, e.text = text, e.timer = None,
         e.asked = editor.asked, e.taken = editor.taken,
         Work!Validated(e, text)
  PROVE  Tracks'
<1>1. CASE text \in Broken
  <2>1. editor' = e /\ checks' = checks
    BY <1>1 DEF Work!Validated
  <2>2. QED BY <1>1, <2>1 DEF Tracks
<1>2. CASE text \notin Broken
  <2>1. /\ editor' = [e EXCEPT !.asked = @ + 1]
        /\ checks' = checks \union {[no |-> e.asked + 1, text |-> text]}
    BY <1>2 DEF Work!Validated
  <2>2. /\ editor' \in Editor /\ editor'.asked = editor.asked + 1 /\ editor'.taken = editor.taken
        /\ editor'.text = text /\ editor'.timer = None
        /\ editor.asked \in Nat /\ editor.taken \in Nat
    BY <2>1 DEF Editor, Tracks
  <2>3. \A c \in checks : c.no \in Nat /\ c.no < editor.asked + 1
    BY <2>2 DEF Tracks
  <2>4. checks' \subseteq [no : Nat, text : Texts]
    BY <2>1, <2>2 DEF Tracks
  <2>5. QED BY <2>1, <2>2, <2>3, <2>4 DEF Tracks
<1>3. QED BY <1>1, <1>2

LEMMA VersionsRead == ASSUME WebInv, Work!VersionsLoaded PROVE WebInv'
<1>1. PICK got \in {<<>>, api.versions} :
        LET no   == IF load.current \in DOMAIN got THEN load.current ELSE 1
            text == IF got = <<>> THEN First ELSE got[no]
        IN  /\ savedSpec' = IF got = <<>> THEN None ELSE text
            /\ Work!Validated([editor EXCEPT !.text = text], text)
            /\ elsewhere' = (no # Len(api.versions))
  BY DEF Work!VersionsLoaded, None
<1> DEFINE no   == IF load.current \in DOMAIN got THEN load.current ELSE 1
           text == IF got = <<>> THEN First ELSE got[no]
           e    == [editor EXCEPT !.text = text]
<1>2. /\ load.at = "versions" /\ load' = [load EXCEPT !.at = "ready"]
      /\ UNCHANGED <<api, currentSpec, saved, saving, drawer, loads, chosen>>
  BY DEF Work!VersionsLoaded
<1>3. text \in Texts /\ (got # <<>> => text \in Valid /\ no \in DOMAIN got)
  <2>1. got # <<>> => no \in DOMAIN got /\ got \in Seq(Valid)
    BY DEF WebInv, Launches
  <2>2. QED BY <2>1, Assumed
<1>4. load' \in [at : {"row", "versions", "ready"}, current : Nat] /\ load'.at = "ready"
  BY <1>2 DEF WebInv, Tracks
<1>5. Tracks'
  <2>1. Tracks /\ e \in Editor /\ e.text = text /\ e.timer = None /\ e.asked = editor.asked
        /\ e.taken = editor.taken
    BY <1>2, <1>3 DEF WebInv, Tracks, Editor
  <2>2. Work!Validated(e, text)
    BY <1>1
  <2> HIDE DEF e, text
  <2>3. QED BY <1>2, <1>3, <1>4, <2>1, <2>2, Asked
<1>6. FormKept'
  BY <1>2 DEF WebInv, FormKept, Drawn, Work!ChoicesKept, Work!Left
<1>7. Launches'
  <2>1. saving.at = "idle" /\ api.versions \in Seq(Valid)
    BY <1>2 DEF WebInv, Launches
  <2>2. got = <<>> => savedSpec' = None
    BY <1>1
  <2>3. got # <<>> => /\ got = api.versions /\ savedSpec' = text /\ text = got[no]
                      /\ elsewhere' = (no # Len(api.versions))
    BY <1>1
  <2>4. got # <<>> => text \in Valid
    BY <1>3
  <2> HIDE DEF text, no
  <2>5. /\ savedSpec' # None => load'.at = "ready" /\ api'.versions # <<>>
        /\ ~elsewhere' /\ savedSpec' # None => savedSpec' = api'.versions[Len(api'.versions)]
    BY <1>2, <1>4, <2>2, <2>3
  <2>6. QED BY <1>2, <1>4, <2>1, <2>5 DEF WebInv, Launches
<1>8. QED BY <1>5, <1>6, <1>7 DEF WebInv

LEMMA Edited == ASSUME WebInv, NEW text \in Texts, Work!Edit(text) PROVE WebInv'
<1>1. /\ load.at = "ready" /\ text # None
      /\ editor' = [editor EXCEPT !.text = text, !.timer = text, !.edits = @ + 1]
      /\ UNCHANGED <<api, load, checks, currentSpec, saved, savedSpec, saving, drawer, loads,
                  chosen, elsewhere>>
  BY Assumed DEF Work!Edit
<1>2. Tracks'
  <2>0. editor \in Editor
    BY DEF WebInv, Tracks
  <2>a. editor' = [text |-> text, timer |-> text, edits |-> editor.edits + 1,
                   asked |-> editor.asked, taken |-> editor.taken]
    BY <1>1, <2>0 DEF Editor
  <2>1. editor' \in Editor /\ editor'.text = text /\ editor'.timer = text
        /\ editor'.asked = editor.asked /\ editor'.taken = editor.taken
    BY <2>0, <2>a DEF Editor
  <2>2. QED BY <1>1, <2>1 DEF WebInv, Tracks
<1>3. QED BY <1>1, <1>2 DEF WebInv, FormKept, Drawn, Launches, Work!ChoicesKept, Work!Left

LEMMA TimerFires == ASSUME WebInv, Work!Debounced PROVE WebInv'
<1> DEFINE text == editor.timer
           e    == [editor EXCEPT !.timer = None]
<1>1. /\ text # None /\ load.at = "ready" /\ Work!Validated(e, text)
      /\ UNCHANGED <<api, load, currentSpec, saved, savedSpec, saving, drawer, loads, chosen,
                     elsewhere>>
  BY DEF Work!Debounced, None, WebInv, Tracks
<1>2. e \in Editor /\ text \in Texts /\ e.text = text /\ e.timer = None /\ e.asked = editor.asked
      /\ e.taken = editor.taken
  BY <1>1 DEF WebInv, Tracks, Editor
<1>3. Tracks'
  <2>1. Tracks /\ load' \in [at : {"row", "versions", "ready"}, current : Nat]
        /\ load'.at = "ready" /\ currentSpec' = currentSpec
    BY <1>1 DEF WebInv, Tracks
  <2> HIDE DEF e, text
  <2>2. QED BY <1>1, <1>2, <2>1, Asked
<1>4. QED BY <1>1, <1>3 DEF WebInv, FormKept, Drawn, Launches, Work!ChoicesKept, Work!Left

LEMMA Answers ==
  ASSUME WebInv, NEW c \in checks, Work!Checked(c) \/ Work!CheckFails(c)
  PROVE  WebInv'
<1>1. UNCHANGED <<api, load, savedSpec, saving, drawer, loads, chosen, elsewhere>>
  BY DEF Work!Checked, Work!CheckFails
<1>2. c \in [no : Nat, text : Texts] /\ c.no <= editor.asked /\ load.at = "ready"
      /\ editor \in Editor /\ checks' = checks \ {c}
  BY DEF WebInv, Tracks, Work!Checked, Work!CheckFails
<1>3. Tracks'
  <2>1. CASE Work!CheckFails(c)
    BY <1>1, <1>2, <2>1 DEF Work!CheckFails, WebInv, Tracks
  <2>2. CASE Work!Checked(c)
    <3>1. /\ editor' = [editor EXCEPT !.taken = c.no]
          /\ currentSpec' = IF c.text \in Valid THEN c.text ELSE None
      BY <2>2 DEF Work!Checked, None
    <3>2. /\ editor' \in Editor /\ editor'.taken = c.no /\ editor'.asked = editor.asked
          /\ editor'.text = editor.text /\ editor'.timer = editor.timer
      BY <1>2, <3>1 DEF Editor
    <3>3. \A d \in checks' : d.no = editor'.asked => editor'.taken # editor'.asked
      BY <1>2, <3>2 DEF WebInv, Tracks
    <3>4. editor'.timer = None /\ editor'.taken = editor'.asked /\ editor'.text \notin Broken
            => currentSpec' = IF editor'.text \in Valid THEN editor'.text ELSE None
      BY <1>2, <3>1, <3>2 DEF WebInv, Tracks
    <3>5. currentSpec' \in Valid \union {None}
      BY <3>1
    <3>6. QED BY <1>1, <1>2, <3>2, <3>3, <3>4, <3>5 DEF WebInv, Tracks
  <2>3. QED BY <2>1, <2>2
<1>4. QED BY <1>1, <1>3 DEF WebInv, FormKept, Drawn, Launches, Work!ChoicesKept, Work!Left

-----------------------------------------------------------------------------
(* Save, and what others save.                                              *)

(* A version joins the list.                                                *)
LEMMA Grows ==
  ASSUME Launches, NEW text \in Valid, Work!Stored(text)
  PROVE  /\ api' = [versions |-> api'.versions, conns |-> api'.conns, kept |-> api'.kept]
         /\ api'.versions \in Seq(Valid) /\ api'.versions # <<>>
         /\ api'.versions[Len(api'.versions)] = text
<1>1. api' = [versions |-> Append(api.versions, text), conns |-> api.conns, kept |-> api.kept]
  BY DEF Work!Stored, Launches
<1>2. api.versions \in Seq(Valid)
  BY DEF Launches
<1>3. QED BY <1>1, <1>2

LEMMA Saves ==
  ASSUME WebInv, Work!Save \/ Work!SaveHandled \/ Work!SaveAnswered \/ Work!SaveFails
  PROVE  WebInv'
<1>1. UNCHANGED <<load, editor, checks, currentSpec, drawer, loads, chosen>>
  BY DEF Work!Save, Work!SaveHandled, Work!SaveAnswered, Work!SaveFails, Work!edited
<1>2. ASSUME Work!Save PROVE Launches'
  <2>1. /\ currentSpec \in Valid /\ load.at = "ready" /\ saving = Work!Idle
        /\ saving' = [at |-> "sent", text |-> currentSpec]
        /\ UNCHANGED <<api, savedSpec, elsewhere>>
    BY <1>2 DEF Work!Save, None, WebInv, Tracks
  <2>2. QED BY <1>1, <2>1 DEF WebInv, Launches, Work!Idle
<1>3. ASSUME Work!SaveHandled PROVE Launches'
  <2>1. saving.at = "sent" /\ saving.text \in Valid /\ load.at = "ready"
    BY <1>3 DEF Work!SaveHandled, WebInv, Launches
  <2>2. /\ saving' = [at |-> "stored", text |-> saving.text] /\ Work!Stored(saving.text)
        /\ UNCHANGED <<savedSpec, elsewhere>>
    BY <1>3 DEF Work!SaveHandled, WebInv, Launches
  <2>3. /\ api' = [versions |-> api'.versions, conns |-> api'.conns, kept |-> api'.kept]
        /\ api'.versions \in Seq(Valid) /\ api'.versions # <<>>
        /\ api'.versions[Len(api'.versions)] = saving.text
    BY <2>1, <2>2, Grows DEF WebInv
  <2>4. QED BY <1>1, <2>1, <2>2, <2>3 DEF WebInv, Launches
<1>4. ASSUME Work!SaveAnswered PROVE Launches'
  <2>1. /\ saving.at = "stored" /\ saving' = Work!Idle /\ savedSpec' = saving.text
        /\ UNCHANGED <<api, elsewhere>>
    BY <1>4 DEF Work!SaveAnswered
  <2>2. QED BY <1>1, <2>1 DEF WebInv, Launches, Work!Idle, None
<1>5. ASSUME Work!SaveFails PROVE Launches'
  <2>1. /\ saving' = Work!Idle /\ elsewhere' = (elsewhere \/ saving.at = "stored")
        /\ UNCHANGED <<api, savedSpec>>
    BY <1>5 DEF Work!SaveFails
  <2>2. QED BY <1>1, <2>1 DEF WebInv, Launches, Work!Idle, None
<1>6. Launches'
  BY <1>2, <1>3, <1>4, <1>5 DEF WebInv
<1>7. QED BY <1>1, <1>6 DEF WebInv, FormKept, Drawn, Tracks, Work!ChoicesKept, Work!Left

LEMMA OtherSaves ==
  ASSUME WebInv, \/ \E no \in DOMAIN api.versions : Work!Rollback(no)
               \/ \E text \in Valid : Work!OthersSave(text)
  PROVE  WebInv'
<1>1. PICK text \in Valid : Work!Stored(text)
  BY DEF Work!Rollback, Work!OthersSave, WebInv, Launches
<1>2. /\ UNCHANGED <<load, editor, checks, currentSpec, savedSpec, saving, drawer, loads, chosen>>
      /\ elsewhere' \/ load.at # "ready"
  BY DEF Work!Rollback, Work!OthersSave, Work!edited
<1>3. /\ api' = [versions |-> api'.versions, conns |-> api'.conns, kept |-> api'.kept]
      /\ api'.versions \in Seq(Valid) /\ api'.versions # <<>>
  BY <1>1, Grows DEF WebInv
<1>4. Launches'
  BY <1>2, <1>3 DEF WebInv, Launches, Work!Idle
<1>5. QED BY <1>2, <1>4 DEF WebInv, FormKept, Drawn, Tracks, Work!ChoicesKept, Work!Left

-----------------------------------------------------------------------------
(* The launch drawer: what is done to it leaves the editor, the versions    *)
(* and the saves alone.                                                     *)

LEMMA Apart ==
  ASSUME Tracks, Launches, UNCHANGED <<Work!edited, savedSpec, saving, elsewhere>>,
         \/ api' = api
         \/ \E ids : api' = [api EXCEPT !.conns = ids]
         \/ \E kept : api' = [api EXCEPT !.kept = kept]
  PROVE  Tracks' /\ Launches'
<1>1. UNCHANGED <<load, editor, checks, currentSpec, savedSpec, saving, elsewhere>>
  BY DEF Work!edited
<1>2. api'.versions = api.versions
      /\ api' = [versions |-> api'.versions, conns |-> api'.conns, kept |-> api'.kept]
  BY DEF Launches
<1>3. Tracks'
  BY <1>1 DEF Tracks
<1>4. Launches'
  BY <1>1, <1>2 DEF Launches, Work!Idle
<1>5. QED BY <1>3, <1>4

LEMMA BoundForm ==
  ASSUME NEW d, Drawn(d), NEW dests
  PROVE  LET b == Work!Bound(d, dests)
         IN  /\ Drawn(b) /\ b.open = d.open /\ b.no = d.no /\ b.loaded = d.loaded
             /\ b.conns = d.conns /\ b.dests = dests
             /\ b.mode = IF \E s \in Work!Sinks : dests[s] # 0 THEN "live" ELSE d.mode
<1> DEFINE live == \E s \in Work!Sinks : dests[s] # 0
           b == Work!Bound(d, dests)
<1>1. b = [d EXCEPT !.dests = dests, !.mode = IF live THEN "live" ELSE @]
  BY DEF Work!Bound
<1> HIDE DEF live
<1>2. b = [open |-> d.open, no |-> d.no, loaded |-> d.loaded, offer |-> d.offer,
           conns |-> d.conns, newFor |-> d.newFor, busy |-> d.busy,
           mode |-> IF live THEN "live" ELSE d.mode, dests |-> dests]
  BY <1>1 DEF Drawn
<1> HIDE DEF b
<1>3. /\ Drawn(b) /\ b.open = d.open /\ b.no = d.no /\ b.loaded = d.loaded
      /\ b.conns = d.conns /\ b.dests = dests /\ b.mode = IF live THEN "live" ELSE d.mode
  BY <1>2 DEF Drawn
<1>4. QED BY <1>3 DEF b, live

LEMMA OpensOrCloses ==
  ASSUME FormKept, Work!Open \/ Work!Close \/ Work!CancelNew \/ Work!SaveNew
                   \/ Work!AddLocalKafka \/ \E s \in Work!Sinks : Work!AskNew(s)
  PROVE  FormKept'
<1>1. Drawn(drawer) /\ drawer.no \in Nat /\ (drawer.no \in loads => ~drawer.loaded)
  BY DEF FormKept
<1>2. CASE Work!Open
  <2>1. drawer' = [drawer EXCEPT !.open = TRUE, !.no = drawer.no + 1, !.loaded = FALSE]
    BY <1>2 DEF Work!Open
  <2>b. chosen' = chosen
    BY <1>2 DEF Work!Open
  <2>a. drawer' = [open |-> TRUE, no |-> drawer.no + 1, loaded |-> FALSE,
                   offer |-> drawer.offer, conns |-> drawer.conns, newFor |-> drawer.newFor,
                   busy |-> drawer.busy, mode |-> drawer.mode, dests |-> drawer.dests]
    BY <1>1, <2>1 DEF Drawn
  <2>2. Drawn(drawer') /\ drawer'.no \in Nat /\ drawer'.loaded = FALSE
    BY <1>1, <2>a DEF Drawn
  <2>3. QED BY <1>2, <2>2, <2>b DEF FormKept, Drawn, Work!ChoicesKept
<1>3. CASE Work!Close
  <2>1. drawer' = [drawer EXCEPT !.open = FALSE, !.busy = FALSE] /\ UNCHANGED <<loads, chosen>>
    BY <1>3 DEF Work!Close
  <2>2. /\ Drawn(drawer') /\ drawer'.no = drawer.no /\ drawer'.loaded = drawer.loaded
        /\ drawer'.open = FALSE
    BY <1>1, <2>1 DEF Drawn
  <2>3. QED BY <1>1, <2>1, <2>2 DEF FormKept, Drawn, Work!ChoicesKept
<1>4. ASSUME \/ Work!CancelNew \/ Work!SaveNew \/ Work!AddLocalKafka
             \/ \E s \in Work!Sinks : Work!AskNew(s)
      PROVE  FormKept'
  <2>1. UNCHANGED <<loads, chosen>>
    BY <1>4 DEF Work!CancelNew, Work!SaveNew, Work!AddLocalKafka, Work!AskNew, Work!Creates
  <2>2. \/ drawer' = drawer
        \/ drawer' = [drawer EXCEPT !.newFor = 0]
        \/ drawer' = [drawer EXCEPT !.busy = TRUE]
        \/ \E s \in Work!Sinks : drawer' = [drawer EXCEPT !.newFor = s, !.busy = FALSE]
    BY <1>4 DEF Work!CancelNew, Work!SaveNew, Work!AddLocalKafka, Work!AskNew
  <2>3. /\ Drawn(drawer') /\ drawer'.no = drawer.no /\ drawer'.loaded = drawer.loaded
        /\ drawer'.open = drawer.open /\ drawer'.mode = drawer.mode /\ drawer'.dests = drawer.dests
    BY <1>1, <2>2 DEF Drawn
  <2>4. QED BY <1>1, <2>1, <2>3 DEF FormKept, Drawn, Work!ChoicesKept, Work!Left
<1>5. QED BY <1>2, <1>3, <1>4

(* The form is shown once for each opening, as the user finds it.           *)
LEMMA FormShown == ASSUME FormKept, NEW no \in loads, Work!FormLoaded(no) PROVE FormKept'
<1>1. Drawn(drawer) /\ drawer.no \in Nat /\ (drawer.no \in loads => ~drawer.loaded)
      /\ loads' = loads \ {no}
  BY DEF FormKept, Work!FormLoaded
<1>2. CASE Work!Cancelled(no)
  BY <1>1, <1>2 DEF Work!FormLoaded, FormKept, Drawn, Work!ChoicesKept, Work!Left
<1>3. CASE ~Work!Cancelled(no)
  <2>1. no = drawer.no /\ ~drawer.loaded /\ chosen' = Work!Left(drawer')
    BY <1>1, <1>3 DEF Work!FormLoaded, Work!Cancelled
  <2>2. Drawn(drawer') /\ drawer'.no = drawer.no
    <3>1. CASE drawer' = [drawer EXCEPT !.loaded = TRUE]
      BY <1>1, <3>1 DEF Drawn
    <3>2. CASE \E offer \in BOOLEAN : drawer' = Work!Shown(drawer, offer)
      <4>1. PICK offer \in BOOLEAN : drawer' = Work!Shown(drawer, offer)
        BY <3>2
      <4> DEFINE d == [drawer EXCEPT !.mode = Work!Defaults.mode]
                 b == Work!Bound(d, Work!Defaults.dests)
      <4>2. Drawn(d) /\ d.no = drawer.no
        BY <1>1 DEF Drawn
      <4>3. drawer' = [b EXCEPT !.loaded = TRUE, !.conns = api.conns, !.offer = offer]
        BY <4>1 DEF Work!Shown
      <4> HIDE DEF d
      <4>4. Drawn(b) /\ b.no = d.no
        BY <4>2, BoundForm
      <4> HIDE DEF b
      <4>5. QED BY <4>2, <4>3, <4>4 DEF Drawn
    <3>3. QED BY <1>3, <3>1, <3>2 DEF Work!FormLoaded
  <2>3. QED BY <1>1, <2>1, <2>2 DEF FormKept, Work!ChoicesKept, Work!Left
<1>4. QED BY <1>2, <1>3

LEMMA UserChooses ==
  ASSUME FormKept,
         \/ \E s \in Work!Sinks : \E conn \in drawer.conns \union {0} :
              Work!PickDestination(s, conn)
         \/ \E mode \in {"only", "live"} : Work!PickMode(mode)
  PROVE  FormKept'
<1>1. Drawn(drawer) /\ drawer.no \in Nat /\ (drawer.no \in loads => ~drawer.loaded)
  BY DEF FormKept
<1>2. PICK d : /\ Work!Chooses(d)
               /\ \/ \E mode : d = [drawer EXCEPT !.mode = mode]
                  \/ \E dests : d = Work!Bound(drawer, dests)
  BY DEF Work!PickDestination, Work!PickMode
<1>3. Drawn(d) /\ d.no = drawer.no /\ d.loaded = drawer.loaded
  <2>1. CASE \E mode : d = [drawer EXCEPT !.mode = mode]
    BY <1>1, <2>1 DEF Drawn
  <2>2. CASE \E dests : d = Work!Bound(drawer, dests)
    BY <1>1, <2>2, BoundForm
  <2>3. QED BY <1>2, <2>1, <2>2
<1>4. drawer' = d /\ chosen' = Work!Left(d) /\ loads' = loads
  BY <1>2 DEF Work!Chooses
<1>5. QED BY <1>1, <1>3, <1>4 DEF FormKept, Work!ChoicesKept, Work!Left

-----------------------------------------------------------------------------
(* A connection that was asked for changes the destination of its sink, and *)
(* the mode that follows from it.                                           *)

LEMMA CreatedOrNot ==
  ASSUME FormKept, NEW c \in creating,
         Work!CreateHandled(c) \/ Work!CreateAnswered(c) \/ Work!CreateFails(c)
  PROVE  FormKept'
<1>1. Drawn(drawer) /\ drawer.no \in Nat /\ (drawer.no \in loads => ~drawer.loaded)
      /\ loads' = loads
  BY DEF FormKept, Work!ChoicesKept, Work!CreateHandled, Work!CreateAnswered, Work!CreateFails
<1>2. CASE Work!CreateHandled(c)
  BY <1>2 DEF FormKept, Drawn, Work!ChoicesKept, Work!Left, Work!CreateHandled
<1>3. CASE Work!CreateFails(c)
  <2>1. drawer' = [drawer EXCEPT !.busy = drawer.busy /\ ~c.panel] /\ chosen' = chosen
    BY <1>3 DEF Work!CreateFails
  <2>2. /\ Drawn(drawer') /\ drawer'.no = drawer.no /\ drawer'.loaded = drawer.loaded
        /\ drawer'.open = drawer.open /\ drawer'.mode = drawer.mode /\ drawer'.dests = drawer.dests
    BY <1>1, <2>1 DEF Drawn
  <2>3. QED BY <1>1, <2>1, <2>2 DEF FormKept, Work!ChoicesKept, Work!Left
<1>4. CASE Work!CreateAnswered(c)
  <2> DEFINE told  == [drawer EXCEPT !.conns = @ \union {c.conn},
                         !.newFor = IF c.panel THEN 0 ELSE @, !.offer = @ /\ c.panel]
             mine  == [s \in Work!Sinks |-> IF s = c.for THEN c.conn ELSE drawer.dests[s]]
  <2>1. drawer' = Work!Bound(told, mine)
    BY <1>4 DEF Work!CreateAnswered
  <2>2. /\ Drawn(told) /\ told.open = drawer.open /\ told.no = drawer.no
        /\ told.loaded = drawer.loaded /\ told.mode = drawer.mode
    <3> DEFINE offered == drawer.conns \union {c.conn}
               newFor == IF c.panel THEN 0 ELSE drawer.newFor
               offer == drawer.offer /\ c.panel
    <3>1. told = [drawer EXCEPT !.conns = offered, !.newFor = newFor, !.offer = offer]
      OBVIOUS
    <3> HIDE DEF told, offered, newFor, offer
    <3>2. told = [open |-> drawer.open, no |-> drawer.no, loaded |-> drawer.loaded,
                  offer |-> offer, conns |-> offered, newFor |-> newFor, busy |-> drawer.busy,
                  mode |-> drawer.mode, dests |-> drawer.dests]
      BY <1>1, <3>1 DEF Drawn
    <3>3. QED BY <3>2 DEF Drawn
  <2>3. \A s \in Work!Sinks \ {c.for} : mine[s] = drawer.dests[s]
    OBVIOUS
  <2>4. chosen' = [mode |-> chosen.mode, dests |-> chosen.dests,
                   since |-> chosen.since \union {c.for}]
    BY <1>4 DEF Work!CreateAnswered, FormKept
  <2> HIDE DEF told, mine
  <2>5. /\ Drawn(drawer') /\ drawer'.open = drawer.open /\ drawer'.no = drawer.no
        /\ drawer'.loaded = drawer.loaded /\ drawer'.dests = mine
        /\ drawer'.mode \in {"live", drawer.mode}
    BY <2>1, <2>2, BoundForm
  <2>6. ASSUME drawer.open, drawer.loaded
        PROVE  /\ \A s \in Work!Sinks \ chosen'.since : drawer'.dests[s] = chosen'.dests[s]
               /\ drawer'.mode = chosen'.mode \/ (chosen'.since # {} /\ drawer'.mode = "live")
    <3>1. /\ \A s \in Work!Sinks \ chosen.since : drawer.dests[s] = chosen.dests[s]
          /\ drawer.mode = chosen.mode \/ (chosen.since # {} /\ drawer.mode = "live")
      BY <2>6 DEF FormKept, Work!ChoicesKept
    <3>2. /\ chosen'.dests = chosen.dests /\ chosen'.mode = chosen.mode
          /\ chosen'.since = chosen.since \union {c.for}
      BY <2>4
    <3>3. QED BY <2>3, <2>5, <3>1, <3>2
  <2>7. QED BY <1>1, <2>4, <2>5, <2>6 DEF FormKept, Work!ChoicesKept
<1>5. QED BY <1>2, <1>3, <1>4

-----------------------------------------------------------------------------
(* Each step, and the theorems.                                             *)

LEMMA DrawerSteps == ASSUME WebInv, Work!Drawer PROVE WebInv'
<1>1. /\ UNCHANGED <<Work!edited, savedSpec, saving, elsewhere>>
      /\ \/ api' = api
         \/ \E ids : api' = [api EXCEPT !.conns = ids]
         \/ \E kept : api' = [api EXCEPT !.kept = kept]
  <2>1. CASE \E c \in creating : Work!CreateHandled(c)
    BY <2>1 DEF Work!CreateHandled
  <2>2. CASE Work!LaunchHandled
    BY <2>2 DEF Work!LaunchHandled
  <2>3. ASSUME ~(\E c \in creating : Work!CreateHandled(c)), ~Work!LaunchHandled
        PROVE  UNCHANGED <<api, Work!edited, savedSpec, saving, elsewhere>>
    BY <2>3
       DEF Work!Drawer, Work!Open, Work!Close, Work!FormLoaded, Work!AskNew, Work!PickDestination,
           Work!PickMode, Work!Chooses, Work!CancelNew, Work!SaveNew, Work!AddLocalKafka,
           Work!Creates, Work!CreateAnswered, Work!CreateFails, Work!Launch, Work!LaunchFails
  <2>4. QED BY <2>1, <2>2, <2>3
<1>2. Tracks' /\ Launches'
  BY <1>1, Apart DEF WebInv
<1>3. FormKept'
  <2>1. CASE Work!Launch \/ Work!LaunchHandled \/ Work!LaunchFails
    BY <2>1 DEF Work!Launch, Work!LaunchHandled, Work!LaunchFails, WebInv, FormKept, Drawn,
                Work!ChoicesKept, Work!Left
  <2>2. QED
    BY <2>1, OpensOrCloses, FormShown, UserChooses, CreatedOrNot DEF Work!Drawer, WebInv
<1>4. QED BY <1>2, <1>3 DEF WebInv

LEMMA PageSteps == ASSUME WebInv, Work!Page PROVE WebInv'
BY RowRead, VersionsRead, TimerFires, Edited, Answers, Saves, OtherSaves DEF Work!Page

LEMMA WebSteps == ASSUME WebInv, [WebNext]_webVars PROVE WebInv'
<1>1. CASE OnScenarioPage
  BY <1>1, PageSteps, DrawerSteps DEF OnScenarioPage
<1>2. CASE Navigates
  <2>1. Work!Blank' /\ api' = Work!NoRows
    BY <1>2 DEF Navigates, Work!Launched, Work!Blank, Work!Fetching, Work!Untyped, Work!Closed,
                Work!NoLaunch, Work!Idle, Work!Form, Work!Left, Work!NoRows, Work!None, Work!Unbound
  <2>2. FormKept' /\ Tracks'
    BY <2>1, Assumed DEF Work!Blank, Work!Closed, Work!Left, Work!Untyped, Work!Fetching, FormKept,
                    Drawn, Tracks, Editor, Work!ChoicesKept, None, Work!None
  <2>3. Launches'
    BY <2>1 DEF Work!Blank, Work!NoRows, Launches, Work!Idle, None, Work!None, Work!Fetching
  <2>4. QED BY <2>2, <2>3 DEF WebInv
<1>3. CASE UNCHANGED workVars
  BY <1>3 DEF workVars, WebInv, FormKept, Drawn, Tracks, Launches, Work!ChoicesKept, Work!Left,
              Work!Idle
<1>4. QED
  BY <1>1, <1>2, <1>3 DEF WebNext, webVars, OnRunPage

LEMMA Invariant == WebSpec => []WebInv
<1>1. WebInit => WebInv
  BY Init0
<1>2. WebInv /\ [WebNext]_webVars => WebInv'
  BY WebSteps
<1>3. QED BY <1>1, <1>2, PTL DEF WebSpec

(* With no timer, validation or save under way, Save would store what the   *)
(* editor shows, but for text that is not JSON and an older validation that *)
(* was answered last, and Launch runs the spec whose sinks the drawer       *)
(* shows, but for a version the page was not told of: for any number of     *)
(* edits, saves and other users' versions (spec-editor.tsx, index.tsx).     *)
THEOREM ShowsWhatItDoes == WebSpec => []DoesWhatItShows
<1>1. WebInv => DoesWhatItShows
  BY DEF WebInv, Tracks, Launches, DoesWhatItShows, Work!DoesWhatItShows, None, Work!Idle, Work!Last
<1>2. QED BY <1>1, Invariant, PTL

(* No late defaults overwrite a choice the user has made in the drawer:     *)
(* each opening shows the form once.  A new connection's answer changes the *)
(* destination of its sink, also one chosen later, and the mode with it,    *)
(* and nothing else (launch-drawer.tsx).                                    *)
THEOREM ChoicesStay == WebSpec => []ChoicesKept
<1>1. WebInv => ChoicesKept
  BY DEF WebInv, FormKept, ChoicesKept
<1>2. QED BY <1>1, Invariant, PTL
=============================================================================
