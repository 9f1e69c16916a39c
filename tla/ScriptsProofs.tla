------------------------------ MODULE ScriptsProofs ----------------------------
(***************************************************************************)
(* Theorems about the scripts that work over files, each of which reads,   *)
(* decides and writes one file after the other: the batch, the corpus      *)
(* builder and the evaluation.  First the batch, for every list of inputs  *)
(* and every number of edits and of batches: what exit code 0 says, what   *)
(* the validator may infer from digests taken at other times than the      *)
(* analysis, and that an archived report stays.  Then the corpus and the   *)
(* evaluation, for every container, every review and every pool: what the  *)
(* published files may pair with what, and that comparisons are made of    *)
(* the same emails.                                                        *)
(***************************************************************************)
EXTENDS Batch, Evaluation, FiniteSetTheorems, SequenceTheorems, WellFoundedInduction, TLAPS

-----------------------------------------------------------------------------
(***************************************************************************)
(* The inductive invariant.  The content of an input only moves on, from   *)
(* one version to a later one and at last to none.                         *)
(***************************************************************************)
NotAfter(v, w) == w = Null \/ (v # Null /\ v <= w)

\* The digest of a row was taken before its report, and both before now.
Told(r, stored, now) ==
  r.status = "ok" =>
    /\ r.run \in DOMAIN stored
    /\ NotAfter(r.sha, stored[r.run])
    /\ NotAfter(stored[r.run], now[r.input])

RowsFollow ==
  /\ pc \in {"hash", "run"} => Len(rows) < Len(inputs)
  /\ pc \in {"results", "metrics", "manifest"} => Len(rows) = Len(inputs)
  /\ pc = "run" => NotAfter(sha, disk[Current])
  /\ \A i \in 1 .. Len(rows) : rows[i].input = inputs[i] /\ Told(rows[i], reports, disk)

\* Each row that is ok has a report of its own.
RunsAreFresh ==
  \A i, j \in 1 .. Len(rows) :
     rows[i].status = "ok" /\ rows[j].status = "ok" /\ rows[i].run = rows[j].run => i = j

\* The three files, as they replace those of the batch before.
FilesFollow ==
  /\ pc \in {"metrics", "manifest"} => results.batch = batch /\ results.rows = rows
  /\ pc = "manifest" => metrics.batch = batch
  /\ manifest # Null =>
       /\ manifest.batch \in 0 .. batch
       /\ pc \notin {"idle", "exit"} => manifest.batch < batch
  /\ results # Null => \A i \in 1 .. Len(results.rows) : Told(results.rows[i], reports, disk)

\* A manifest of the same batch was written after the reports of its rows.
ManifestIsLast ==
  results # Null /\ manifest # Null /\ results.batch = manifest.batch =>
    \A i \in 1 .. Len(results.rows) :
       LET r == results.rows[i]
       IN  r.status = "ok" /\ r.input \in DOMAIN manifest.sha =>
             NotAfter(reports[r.run], manifest.sha[r.input])

\* A batch that came to its last line leaves files of one batch, its own.
EndedWhole ==
  /\ pc # "exit" => exit = Null
  /\ exit \in {0, 1} /\ stopped_by = Null => results.batch = manifest.batch

BatchInv ==
  /\ TypeOK /\ RowsFollow /\ RunsAreFresh /\ FilesFollow /\ ManifestIsLast
  /\ EndedWhole /\ ExitZeroMeansArchived

-----------------------------------------------------------------------------
(***************************************************************************)
(* Versions, rows and counts.                                              *)
(***************************************************************************)
LEMMA NotAfterChains ==
  ASSUME NEW v \in Versions, NEW w \in Versions, NEW x \in Versions,
         NotAfter(v, w), NotAfter(w, x)
  PROVE  NotAfter(v, x)
BY BatchAssumption DEF NotAfter, Versions

LEMMA NotAfterItself == ASSUME NEW v \in Versions PROVE NotAfter(v, v)
BY BatchAssumption DEF NotAfter, Versions

LEMMA NotAfterBoth ==
  ASSUME NEW v \in Versions, NEW w \in Versions, NotAfter(v, w), NotAfter(w, v)
  PROVE  v = w
BY BatchAssumption DEF NotAfter, Versions

LEMMA CountZero ==
  ASSUME NEW s \in Seq(Row), NEW status, CountOf(status, s) = 0
  PROVE  \A i \in 1 .. Len(s) : s[i].status # status
<1> DEFINE S == {i \in DOMAIN s : s[i].status = status}
<1>1. IsFiniteSet(DOMAIN s)
  BY FS_Interval
<1>2. IsFiniteSet(S)
  BY <1>1, FS_Subset
<1>3. S = {}
  BY <1>2, FS_EmptySet DEF CountOf
<1> QED
  BY <1>3

LEMMA CollectedType == ASSUME NEW s \in Collected PROVE s \in Seq(Files)
BY DEF Collected, BoundedSeq, SeqOf

\* The files as they are now, and nothing of the batch, move.
LEMMA DiskMoves ==
  ASSUME TypeOK, [Next]_vars, NEW f \in Files
  PROVE  /\ disk' \in [Files -> Versions]
         /\ NotAfter(disk[f], disk'[f])
<1>1. CASE disk' = disk
  BY <1>1, NotAfterItself DEF TypeOK
<1>2. CASE Edit
  <2>1. PICK g \in Files :
           /\ disk[g] # Null
           /\ \/ disk[g] < MaxEdits /\ disk' = [disk EXCEPT ![g] = disk[g] + 1]
              \/ disk' = [disk EXCEPT ![g] = Null]
    BY <1>2 DEF Edit
  <2>2. disk[g] \in 0 .. MaxEdits /\ disk[f] \in Versions
    BY <2>1 DEF TypeOK, Versions
  <2>3. disk' \in [Files -> Versions]
    BY <2>1, <2>2, BatchAssumption DEF TypeOK, Versions
  <2>4. DOMAIN disk = Files
    BY DEF TypeOK
  <2>5. /\ f # g => disk'[f] = disk[f]
        /\ disk'[g] = Null \/ disk'[g] = disk[g] + 1
    BY <2>1, <2>4
  <2>6. CASE f # g
    BY <2>2, <2>3, <2>5, <2>6, NotAfterItself
  <2>7. CASE f = g
    BY <2>1, <2>2, <2>3, <2>5, <2>7, BatchAssumption DEF NotAfter
  <2> QED
    BY <2>6, <2>7
<1> QED
  BY <1>1, <1>2 DEF Next, BatchStep, Start, HashInput, RunEmail, RunEmailFails, WriteResults,
     WriteMetrics, WriteManifest, Killed, vars

\* What write_report adds to the archive, and that it touches nothing else there.
LEMMA ArchiveAdds ==
  ASSUME reports \in Seq(Versions), NEW id \in Drawn, Archive(id)
  PROVE  /\ id = Len(reports) + 1 /\ id \notin DOMAIN reports
         /\ id \in DOMAIN reports' /\ reports'[id] = disk[Current]
         /\ \A r \in DOMAIN reports : r \in DOMAIN reports' /\ reports'[r] = reports[r]
         /\ disk[Current] \in Versions => reports' \in Seq(Versions)
<1>1. /\ Len(reports) \in Nat /\ DOMAIN reports = 1 .. Len(reports)
      /\ id \in 1 .. (Len(reports) + 1) /\ id \notin DOMAIN reports
      /\ reports' = [r \in DOMAIN reports \cup {id} |->
                        IF r = id THEN disk[Current] ELSE reports[r]]
  BY DEF Drawn, Archive, Stored
<1>2. id = Len(reports) + 1 /\ DOMAIN reports \cup {id} = 1 .. (Len(reports) + 1)
  BY <1>1
<1>3. ASSUME disk[Current] \in Versions PROVE reports' \in Seq(Versions)
  <2>1. \A r \in 1 .. Len(reports) : reports[r] \in Versions
    BY ElementOfSeq
  <2>2. reports' \in [1 .. (Len(reports) + 1) -> Versions]
    BY <1>1, <1>2, <1>3, <2>1
  <2>3. Len(reports) + 1 \in Nat
    BY <1>1
  <2> QED
    BY <2>2, <2>3
<1> QED
  BY <1>1, <1>2, <1>3

\* Nothing archived is touched: write_report refuses a directory in use.
LEMMA ReportsGrow ==
  ASSUME TypeOK, [Next]_vars
  PROVE  \A r \in DOMAIN reports : r \in DOMAIN reports' /\ reports'[r] = reports[r]
<1>1. CASE reports' = reports
  BY <1>1
<1>2. CASE \E id \in Drawn : Archive(id)
  BY <1>2, ArchiveAdds DEF TypeOK
<1> QED
  BY <1>1, <1>2 DEF Next, BatchStep, Start, HashInput, RunEmail, RunEmailFails, WriteResults,
     WriteMetrics, WriteManifest, Killed, Edit, vars

\* What a row told stays true.
LEMMA ToldStays ==
  ASSUME TypeOK, [Next]_vars, NEW r \in Row, Told(r, reports, disk)
  PROVE  Told(r, reports', disk')
<1> SUFFICES ASSUME r.status = "ok"
             PROVE  /\ r.run \in DOMAIN reports'
                    /\ NotAfter(r.sha, reports'[r.run])
                    /\ NotAfter(reports'[r.run], disk'[r.input])
  BY DEF Told
<1>1. /\ r.run \in DOMAIN reports /\ NotAfter(r.sha, reports[r.run])
      /\ NotAfter(reports[r.run], disk[r.input])
  BY DEF Told
<1>2. r.run \in DOMAIN reports' /\ reports'[r.run] = reports[r.run]
  BY <1>1, ReportsGrow
<1>3. r.input \in Files /\ disk[r.input] \in Versions /\ reports[r.run] \in Versions
  BY <1>1 DEF Row, TypeOK, Range
<1>4. disk'[r.input] \in Versions /\ NotAfter(disk[r.input], disk'[r.input])
  BY <1>3, DiskMoves
<1> QED
  BY <1>1, <1>2, <1>3, <1>4, NotAfterChains

-----------------------------------------------------------------------------
(***************************************************************************)
(* Type correctness.                                                       *)
(***************************************************************************)
LEMMA CurrentType ==
  ASSUME TypeOK, RowsFollow, pc \in {"hash", "run"}
  PROVE  Current \in Files /\ disk[Current] \in Versions /\ Len(rows) + 1 \in 1 .. Len(inputs)
<1>1. inputs \in Seq(Files) /\ Len(rows) \in Nat /\ Len(rows) < Len(inputs)
  BY DEF TypeOK, RowsFollow
<1>2. Len(rows) + 1 \in 1 .. Len(inputs)
  BY <1>1
<1> QED
  BY <1>1, <1>2, ElementOfSeq DEF Current, TypeOK

LEMMA AddRowType ==
  ASSUME TypeOK, RowsFollow, pc = "run", NEW status \in {"ok", "error"},
         NEW id \in RunIds \cup {Null}, AddRow(status, id)
  PROVE  /\ rows' \in Seq(Row) /\ sha' = Null
         /\ pc' \in {"hash", "results"}
         /\ Len(rows') = Len(rows) + 1
         /\ \A i \in 1 .. Len(rows) : rows'[i] = rows[i]
         /\ rows'[Len(rows) + 1] =
              [input |-> Current, sha |-> sha, status |-> status, run |-> id]
<1> DEFINE new == [input |-> Current, sha |-> sha, status |-> status, run |-> id]
<1>1. new \in Row
  BY CurrentType DEF Row, TypeOK
<1>2. rows' = Append(rows, new) /\ rows \in Seq(Row) /\ sha' = Null /\ pc' \in {"hash", "results"}
  BY DEF AddRow, TypeOK
<1> HIDE DEF new
<1>3. /\ rows' \in Seq(Row) /\ Len(rows') = Len(rows) + 1
      /\ \A i \in 1 .. Len(rows) : rows'[i] = rows[i]
      /\ rows'[Len(rows) + 1] = new
  BY <1>1, <1>2
<1> QED
  BY <1>2, <1>3 DEF new

LEMMA NewReportType ==
  ASSUME TypeOK, RowsFollow, pc = "run", UNCHANGED reports \/ \E id \in Drawn : Archive(id)
  PROVE  reports' \in Seq(Versions) /\ Drawn \subseteq RunIds
<1>1. disk[Current] \in Versions /\ reports \in Seq(Versions)
  BY CurrentType DEF TypeOK
<1> QED
  BY <1>1, ArchiveAdds DEF RunIds, Drawn

LEMMA BatchTyped == BatchInv /\ [Next]_vars => TypeOK'
<1> SUFFICES ASSUME BatchInv, [Next]_vars PROVE TypeOK'
  OBVIOUS
<1>1. TypeOK /\ RowsFollow /\ Null \in Versions /\ <<>> \in Seq(Row)
  BY DEF BatchInv, Versions
<1>2. disk' \in [Files -> Versions]
  <2>1. CASE disk' = disk
    BY <1>1, <2>1 DEF TypeOK
  <2>2. CASE Edit
    BY <1>1, <2>2, DiskMoves DEF Edit
  <2> QED
    BY <2>1, <2>2 DEF Next, BatchStep, Start, HashInput, RunEmail, RunEmailFails, WriteResults,
       WriteMetrics, WriteManifest, Killed, vars
<1>3. CASE Start
  <2>1. inputs' \in Seq(Files) /\ batch' \in 0 .. MaxBatches
    BY <1>1, <1>3, CollectedType, BatchAssumption DEF Start, TypeOK
  <2> QED
    BY <1>1, <1>2, <1>3, <2>1 DEF Start, TypeOK, files
<1>4. CASE HashInput
  <2>1. disk[Current] \in Versions
    BY <1>1, <1>4, CurrentType DEF HashInput
  <2> QED
    BY <1>1, <1>2, <1>4, <2>1 DEF HashInput, Raise, TypeOK, files
<1>5. CASE RunEmail
  <2>1. PICK id \in Drawn : Archive(id) /\ AddRow("ok", id)
    BY <1>5 DEF RunEmail
  <2>4. pc = "run"
    BY <1>5 DEF RunEmail
  <2>3. reports' \in Seq(Versions) /\ id \in RunIds
    BY <1>1, <2>1, <2>4, NewReportType
  <2>2. rows' \in Seq(Row) /\ sha' = Null /\ pc' \in {"hash", "results"}
    BY <1>1, <2>1, <2>3, <2>4, AddRowType
  <2> QED
    BY <1>1, <1>2, <1>5, <2>1, <2>2, <2>3 DEF RunEmail, TypeOK, files
<1>6. CASE RunEmailFails
  <2>1. pc = "run"
    BY <1>6 DEF RunEmailFails
  <2>2. rows' \in Seq(Row) /\ sha' = Null /\ pc' \in {"hash", "results"}
    BY <1>1, <1>6, <2>1, AddRowType DEF RunEmailFails
  <2>3. reports' \in Seq(Versions)
    BY <1>1, <1>6, <2>1, NewReportType DEF RunEmailFails
  <2> QED
    BY <1>1, <1>2, <1>6, <2>1, <2>2, <2>3 DEF RunEmailFails, TypeOK, files
<1>7. CASE WriteResults \/ WriteMetrics \/ Edit
  BY <1>1, <1>2, <1>7 DEF WriteResults, WriteMetrics, Edit, TypeOK, files
<1>8. CASE WriteManifest
  <2>1. \A f \in Range(inputs) : disk[f] \in Versions
    BY <1>1, ElementOfSeq DEF TypeOK, Range
  <2>2. manifest' = Null \/ Range(manifest'.sha) \subseteq Versions
    BY <1>1, <1>8, <2>1 DEF WriteManifest, TypeOK, Range
  <2>3. exit' \in {0, 1} /\ pc' = "exit" /\ rows' \in Seq(Row) /\ sha' \in Versions
        /\ stopped_by' \in {Null, "killed", "input"}
    BY <1>1, <1>8 DEF WriteManifest, Raise, TypeOK
  <2> QED
    BY <1>1, <1>2, <1>8, <2>2, <2>3 DEF WriteManifest, TypeOK
<1>9. CASE Killed
  <2>1. \A n \in 0 .. (Len(rows) - 1) : SubSeq(rows, 1, n) \in Seq(Row)
    BY <1>1 DEF TypeOK
  <2>2. results' = Null \/ results'.rows \in Seq(Row)
    <3>1. \/ results' = results
          \/ \E n \in 0 .. (Len(rows) - 1) :
               results' = [batch |-> batch, rows |-> SubSeq(rows, 1, n)]
      BY <1>9 DEF Killed, files
    <3>2. CASE results' = results
      BY <1>1, <3>2 DEF TypeOK
    <3>3. ASSUME NEW n \in 0 .. (Len(rows) - 1),
                 results' = [batch |-> batch, rows |-> SubSeq(rows, 1, n)]
          PROVE  results'.rows \in Seq(Row)
      BY <2>1, <3>3
    <3> QED
      BY <3>1, <3>2, <3>3
  <2>3. manifest' = manifest \/ manifest' = Null
    BY <1>9 DEF Killed, files
  <2>4. reports' \in Seq(Versions)
    BY <1>1, <1>9, NewReportType DEF Killed, TypeOK
  <2> QED
    BY <1>1, <1>2, <1>9, <2>2, <2>3, <2>4 DEF Killed, TypeOK
<1>10. CASE UNCHANGED vars
  BY <1>1, <1>10 DEF vars, TypeOK
<1> QED
  BY <1>3, <1>4, <1>5, <1>6, <1>7, <1>8, <1>9, <1>10 DEF Next, BatchStep

-----------------------------------------------------------------------------
(***************************************************************************)
(* Each action keeps the rest of the invariant.                            *)
(***************************************************************************)

\* What the rows in memory and on disk told stays true at every step.
LEMMA AllStaysTold ==
  ASSUME BatchInv, [Next]_vars
  PROVE  /\ \A i \in 1 .. Len(rows) : Told(rows[i], reports', disk')
         /\ results # Null =>
              \A i \in 1 .. Len(results.rows) : Told(results.rows[i], reports', disk')
<1>1. TypeOK /\ RunsAreFresh /\ RowsFollow /\ FilesFollow
  BY DEF BatchInv
<1>2. ASSUME NEW i \in 1 .. Len(rows) PROVE Told(rows[i], reports', disk')
  <2>1. rows[i] \in Row /\ Told(rows[i], reports, disk)
    BY <1>1, ElementOfSeq DEF TypeOK, RowsFollow
  <2> QED
    BY <1>1, <2>1, ToldStays
<1>3. ASSUME results # Null, NEW i \in 1 .. Len(results.rows)
      PROVE  Told(results.rows[i], reports', disk')
  <2>1. results.rows[i] \in Row /\ Told(results.rows[i], reports, disk)
    BY <1>1, <1>3, ElementOfSeq DEF TypeOK, FilesFollow
  <2> QED
    BY <1>1, <2>1, ToldStays
<1> QED
  BY <1>2, <1>3

\* The manifest is compared with reports that stay.
LEMMA ManifestStays ==
  ASSUME BatchInv, [Next]_vars, UNCHANGED <<results, manifest>>
  PROVE  ManifestIsLast'
<1> SUFFICES ASSUME results # Null, manifest # Null, results.batch = manifest.batch,
                    NEW i \in 1 .. Len(results.rows), results.rows[i].status = "ok",
                    results.rows[i].input \in DOMAIN manifest.sha
             PROVE  NotAfter(reports'[results.rows[i].run], manifest.sha[results.rows[i].input])
  BY DEF ManifestIsLast
<1>1. NotAfter(reports[results.rows[i].run], manifest.sha[results.rows[i].input])
  BY DEF BatchInv, ManifestIsLast
<1>2. results.rows[i].run \in DOMAIN reports
  BY DEF BatchInv, FilesFollow, Told
<1>3. reports'[results.rows[i].run] = reports[results.rows[i].run]
  BY <1>2, ReportsGrow DEF BatchInv
<1> QED
  BY <1>1, <1>3

LEMMA StartKeeps == ASSUME BatchInv, Start, TypeOK' PROVE BatchInv'
<1>1. TypeOK /\ [Next]_vars /\ rows' = <<>> /\ Len(rows') = 0 /\ pc' \in {"hash", "exit"}
      /\ exit' # 0 /\ batch' = batch + 1
  BY BatchAssumption DEF BatchInv, Start, Next
<1>2. RowsFollow'
  <2>1. pc' = "hash" => Len(inputs') > 0
    <3>1. inputs' \in Seq(Files)
      BY <1>1 DEF TypeOK
    <3> QED
      BY <3>1 DEF Start
  <2> QED
    BY <1>1, <2>1 DEF RowsFollow
<1>3. RunsAreFresh'
  BY <1>1 DEF BatchInv, RunsAreFresh, Start
<1>4. FilesFollow'
  <2>1. manifest' # Null => manifest'.batch \in 0 .. batch' /\ manifest'.batch < batch'
    BY <1>1 DEF BatchInv, FilesFollow, TypeOK, Start, files
  <2>2. results' # Null => \A i \in 1 .. Len(results'.rows) : Told(results'.rows[i], reports', disk')
    BY <1>1, AllStaysTold DEF Start, files
  <2> QED
    BY <1>1, <2>1, <2>2 DEF FilesFollow
<1>5. ManifestIsLast'
  BY <1>1, ManifestStays DEF Start, files
<1>6. ExitZeroMeansArchived'
  BY <1>1 DEF ExitZeroMeansArchived
<1>7. EndedWhole'
  BY BatchAssumption DEF EndedWhole, Start
<1> QED
  BY <1>2, <1>3, <1>4, <1>5, <1>6, <1>7 DEF BatchInv

LEMMA HashKeeps == ASSUME BatchInv, HashInput, TypeOK' PROVE BatchInv'
<1>1. /\ TypeOK /\ [Next]_vars /\ pc = "hash" /\ RowsFollow
      /\ UNCHANGED <<disk, batch, inputs, reports, results, metrics, manifest>>
  BY DEF BatchInv, HashInput, Next, BatchStep, files
<1>2. \/ pc' = "run" /\ rows' = rows /\ sha' = disk[Current] /\ exit' = exit
         /\ stopped_by' = stopped_by
      \/ pc' = "exit" /\ rows' = <<>> /\ exit' = 1 /\ stopped_by' = "input"
  BY DEF HashInput, Raise
<1>3. Current \in Files /\ disk[Current] \in Versions
  BY <1>1, CurrentType
<1>4. rows' = rows => Current' = Current
  BY <1>1 DEF Current
<1>5. RowsFollow'
  <2>1. CASE pc' = "run" /\ rows' = rows /\ sha' = disk[Current]
    BY <1>1, <1>3, <1>4, <2>1, NotAfterItself DEF RowsFollow
  <2>2. CASE pc' = "exit" /\ rows' = <<>>
    BY <2>2 DEF RowsFollow
  <2> QED
    BY <1>2, <2>1, <2>2
<1>6. RunsAreFresh'
  BY <1>1, <1>2 DEF BatchInv, RunsAreFresh
<1>7. FilesFollow'
  BY <1>1, <1>2 DEF BatchInv, FilesFollow
<1>8. ManifestIsLast'
  BY <1>1, ManifestStays
<1>9. ExitZeroMeansArchived'
  BY <1>1, <1>2 DEF BatchInv, ExitZeroMeansArchived
<1>10. EndedWhole'
  BY <1>1, <1>2, BatchAssumption DEF BatchInv, EndedWhole
<1> QED
  BY <1>5, <1>6, <1>7, <1>8, <1>9, <1>10 DEF BatchInv

\* The row that is added tells the truth about the report it names, which no
\* row before it names.
LEMMA NewRow ==
  ASSUME BatchInv, RunEmail \/ RunEmailFails
  PROVE  /\ Len(rows') = Len(rows) + 1
         /\ \A i \in 1 .. Len(rows) : rows'[i] = rows[i]
         /\ LET r == rows'[Len(rows) + 1]
            IN  /\ r.input = inputs[Len(rows) + 1]
                /\ Told(r, reports', disk)
                /\ r.status = "ok" => r.run \notin DOMAIN reports
<1>1. /\ TypeOK /\ RowsFollow /\ pc = "run" /\ reports \in Seq(Versions)
      /\ sha \in Versions /\ disk[Current] \in Versions /\ NotAfter(sha, disk[Current])
      /\ Current = inputs[Len(rows) + 1] /\ Drawn \subseteq RunIds
  BY CurrentType DEF BatchInv, RunEmail, RunEmailFails, TypeOK, Drawn, RunIds, RowsFollow, Current
<1>2. CASE RunEmail
  <2>1. PICK id \in Drawn : Archive(id) /\ AddRow("ok", id)
    BY <1>2 DEF RunEmail
  <2> DEFINE new == [input |-> Current, sha |-> sha, status |-> "ok", run |-> id]
  <2>2. /\ Len(rows') = Len(rows) + 1
        /\ \A i \in 1 .. Len(rows) : rows'[i] = rows[i]
        /\ rows'[Len(rows) + 1] = new
    BY <1>1, <2>1, AddRowType
  <2>3. id \in DOMAIN reports' /\ reports'[id] = disk[Current] /\ id \notin DOMAIN reports
    BY <1>1, <2>1, ArchiveAdds
  <2>4. Told(new, reports', disk)
    BY <1>1, <2>3, NotAfterItself DEF Told
  <2>5. new.input = inputs[Len(rows) + 1] /\ new.run = id
    BY <1>1
  <2> HIDE DEF new
  <2> QED
    BY <2>2, <2>3, <2>4, <2>5
<1>3. CASE RunEmailFails
  <2> DEFINE new == [input |-> Current, sha |-> sha, status |-> "error", run |-> Null]
  <2>1. /\ Len(rows') = Len(rows) + 1
        /\ \A i \in 1 .. Len(rows) : rows'[i] = rows[i]
        /\ rows'[Len(rows) + 1] = new
    BY <1>1, <1>3, AddRowType DEF RunEmailFails
  <2>2. Told(new, reports', disk) /\ new.input = inputs[Len(rows) + 1] /\ new.status # "ok"
    BY <1>1 DEF Told
  <2> HIDE DEF new
  <2> QED
    BY <2>1, <2>2
<1> QED
  BY <1>2, <1>3

LEMMA RunKeeps == ASSUME BatchInv, RunEmail \/ RunEmailFails, TypeOK' PROVE BatchInv'
<1> DEFINE n == Len(rows) + 1
<1>1. /\ TypeOK /\ [Next]_vars /\ RowsFollow /\ RunsAreFresh /\ pc = "run"
      /\ UNCHANGED <<disk, batch, inputs, results, metrics, manifest, exit, stopped_by>>
  BY DEF BatchInv, RunEmail, RunEmailFails, Next, BatchStep, files
<1>2. pc' = IF Len(rows') = Len(inputs) THEN "results" ELSE "hash"
  BY DEF RunEmail, RunEmailFails, AddRow
<1>3. Len(rows) \in Nat /\ Len(inputs) \in Nat /\ Len(rows) < Len(inputs)
  BY <1>1 DEF TypeOK, RowsFollow
<1>4. /\ Len(rows') = n
      /\ \A i \in 1 .. Len(rows) : rows'[i] = rows[i]
      /\ rows'[n].input = inputs[n]
      /\ Told(rows'[n], reports', disk)
      /\ rows'[n].status = "ok" => rows'[n].run \notin DOMAIN reports
  BY NewRow
<1>5. n \in Nat /\ \A i \in 1 .. n : i = n \/ i \in 1 .. Len(rows)
  BY <1>3
<1> HIDE DEF n
<1>6. RowsFollow'
  <2>1. \A i \in 1 .. n : rows'[i].input = inputs[i] /\ Told(rows'[i], reports', disk)
    BY <1>1, <1>4, <1>5, AllStaysTold DEF RowsFollow
  <2>2. n <= Len(inputs)
    BY <1>3 DEF n
  <2> QED
    BY <1>1, <1>2, <1>3, <1>4, <1>5, <2>1, <2>2 DEF RowsFollow
<1>7. RunsAreFresh'
  <2>6. \A i, j \in 1 .. n :
          rows'[i].status = "ok" /\ rows'[j].status = "ok" /\ rows'[i].run = rows'[j].run => i = j
    <3> TAKE i, j \in 1 .. n
    <3> HAVE rows'[i].status = "ok" /\ rows'[j].status = "ok" /\ rows'[i].run = rows'[j].run
    <3>1. \A k \in 1 .. Len(rows) : rows'[k].status = "ok" => rows'[k].run \in DOMAIN reports
      BY <1>1, <1>4 DEF RowsFollow, Told
    <3>2. CASE i = n \/ j = n
      BY <1>4, <1>5, <3>1, <3>2
    <3>3. CASE i \in 1 .. Len(rows) /\ j \in 1 .. Len(rows)
      <4>1. rows'[i] = rows[i] /\ rows'[j] = rows[j]
        BY <1>4, <3>3
      <4> QED
        BY <1>1, <3>3, <4>1 DEF RunsAreFresh
    <3> QED
      BY <1>5, <3>2, <3>3
  <2> QED
    BY <1>4, <2>6 DEF RunsAreFresh
<1>8. FilesFollow'
  <2>1. pc' \in {"hash", "results"} /\ (manifest # Null => manifest.batch \in 0 .. batch /\ manifest.batch < batch)
    BY <1>1, <1>2 DEF BatchInv, FilesFollow
  <2>2. results # Null => \A i \in 1 .. Len(results.rows) : Told(results.rows[i], reports', disk')
    BY <1>1, AllStaysTold
  <2> QED
    BY <1>1, <2>1, <2>2 DEF FilesFollow
<1>9. ManifestIsLast'
  BY <1>1, ManifestStays
<1>10. ExitZeroMeansArchived'
  <2>1. exit # 0
    BY <1>3 DEF BatchInv, ExitZeroMeansArchived
  <2> QED
    BY <1>1, <2>1 DEF ExitZeroMeansArchived
<1>11. EndedWhole'
  BY <1>1, BatchAssumption DEF BatchInv, EndedWhole
<1> QED
  BY <1>6, <1>7, <1>8, <1>9, <1>10, <1>11 DEF BatchInv

LEMMA WriteKeeps == ASSUME BatchInv, WriteResults \/ WriteMetrics, TypeOK' PROVE BatchInv'
<1>1. /\ TypeOK /\ [Next]_vars /\ RowsFollow /\ RunsAreFresh /\ FilesFollow
      /\ UNCHANGED <<disk, batch, inputs, rows, reports, manifest, exit, stopped_by>>
      /\ manifest # Null => manifest.batch < batch /\ manifest.batch \in 0 .. batch
  BY DEF BatchInv, WriteResults, WriteMetrics, Next, BatchStep, FilesFollow
<1>2. \/ pc = "results" /\ pc' = "metrics" /\ results' = [batch |-> batch, rows |-> rows]
         /\ metrics' = metrics
      \/ pc = "metrics" /\ pc' = "manifest" /\ results' = results /\ metrics'.batch = batch
  BY DEF WriteResults, WriteMetrics
<1>3. RowsFollow'
  BY <1>1, <1>2 DEF RowsFollow
<1>4. RunsAreFresh'
  BY <1>1 DEF RunsAreFresh
<1>5. FilesFollow'
  <2>1. \A i \in 1 .. Len(rows) : Told(rows[i], reports, disk)
    BY <1>1 DEF RowsFollow
  <2>2. CASE pc = "results" /\ pc' = "metrics" /\ results' = [batch |-> batch, rows |-> rows]
    <3>1. results'.batch = batch /\ results'.rows = rows
      BY <2>2
    <3> QED
      BY <1>1, <2>1, <2>2, <3>1 DEF FilesFollow
  <2>3. CASE pc = "metrics" /\ pc' = "manifest" /\ results' = results /\ metrics'.batch = batch
    BY <1>1, <2>3 DEF FilesFollow
  <2> QED
    BY <1>2, <2>2, <2>3
<1>6. ManifestIsLast'
  <2>1. CASE pc = "results" /\ results' = [batch |-> batch, rows |-> rows]
    <3>1. results'.batch = batch /\ manifest' = manifest
      BY <1>1, <2>1
    <3>2. manifest # Null => manifest.batch # batch
      BY <1>1 DEF TypeOK
    <3> QED
      BY <3>1, <3>2 DEF ManifestIsLast
  <2>2. CASE results' = results
    BY <1>1, <2>2, ManifestStays
  <2> QED
    BY <1>2, <2>1, <2>2
<1>7. ExitZeroMeansArchived'
  <2>1. CASE results' = [batch |-> batch, rows |-> rows] /\ metrics' = metrics
    <3>1. results'.batch = batch /\ results'.rows = rows
      BY <2>1
    <3> QED
      BY <1>1, <2>1, <3>1 DEF BatchInv, ExitZeroMeansArchived
  <2>2. CASE results' = results /\ metrics'.batch = batch
    BY <1>1, <2>2 DEF BatchInv, ExitZeroMeansArchived
  <2> QED
    BY <1>2, <2>1, <2>2
<1>8. EndedWhole'
  BY <1>1, <1>2, BatchAssumption DEF BatchInv, EndedWhole
<1> QED
  BY <1>3, <1>4, <1>5, <1>6, <1>7, <1>8 DEF BatchInv

LEMMA ManifestKeeps == ASSUME BatchInv, WriteManifest, TypeOK' PROVE BatchInv'
<1>1. /\ TypeOK /\ [Next]_vars /\ RowsFollow /\ RunsAreFresh /\ FilesFollow
      /\ UNCHANGED <<disk, batch, inputs, reports, results, metrics>>
      /\ pc = "manifest" /\ pc' = "exit"
      /\ results.batch = batch /\ results.rows = rows /\ metrics.batch = batch
  BY DEF BatchInv, WriteManifest, Raise, Next, BatchStep, FilesFollow
<1>2. CASE /\ manifest' = [batch |-> batch, sha |-> [f \in Range(inputs) |-> disk[f]]]
           /\ exit' = (IF CountOf("error", rows) = 0 THEN 0 ELSE 1)
           /\ rows' = rows
  <2>1. RowsFollow' /\ RunsAreFresh'
    BY <1>1, <1>2 DEF RowsFollow, RunsAreFresh
  <2>2. manifest'.batch = batch /\ manifest'.sha = [f \in Range(inputs) |-> disk[f]]
    BY <1>2
  <2>3. FilesFollow'
    <3>1. manifest'.batch \in 0 .. batch'
      BY <1>1, <2>2 DEF TypeOK
    <3> QED
      BY <1>1, <3>1 DEF FilesFollow
  <2>4. ManifestIsLast'
    BY <1>1, <2>2 DEF ManifestIsLast, RowsFollow, Told
  <2>5. ExitZeroMeansArchived'
    <3> SUFFICES ASSUME exit' = 0 PROVE ExitZeroMeansArchived'
      BY DEF ExitZeroMeansArchived
    <3>1. rows \in Seq(Row) /\ CountOf("error", rows) = 0 /\ DOMAIN rows = 1 .. Len(rows)
      BY <1>1, <1>2 DEF TypeOK
    <3>2. \A i \in 1 .. Len(rows) : rows[i].status # "error"
      BY <3>1, CountZero
    <3>3. \A i \in 1 .. Len(rows) : rows[i].status = "ok"
      <4> TAKE i \in 1 .. Len(rows)
      <4>1. rows[i] \in Row
        BY <3>1, ElementOfSeq
      <4>2. rows[i].status \in {"ok", "error"}
        BY <4>1 DEF Row
      <4> QED
        BY <3>2, <4>2
    <3>4. \A i \in 1 .. Len(rows) : rows[i].input = inputs[i] /\ rows[i].run \in DOMAIN reports
      BY <1>1, <3>3 DEF RowsFollow, Told
    <3>5. \A i, j \in 1 .. Len(rows) : rows[i].run = rows[j].run => i = j
      BY <1>1, <3>3 DEF RunsAreFresh
    <3>6. Len(rows) = Len(inputs)
      BY <1>1 DEF RowsFollow
    <3> QED
      BY <1>1, <1>2, <2>2, <3>1, <3>3, <3>4, <3>5, <3>6 DEF ExitZeroMeansArchived
  <2>6. EndedWhole'
    BY <1>1, <2>2 DEF EndedWhole
  <2> QED
    BY <2>1, <2>3, <2>4, <2>5, <2>6 DEF BatchInv
<1>3. CASE rows' = <<>> /\ exit' = 1 /\ manifest' = manifest /\ stopped_by' = "input"
  <2>1. RowsFollow' /\ RunsAreFresh'
    BY <1>1, <1>3 DEF RowsFollow, RunsAreFresh
  <2>2. FilesFollow'
    BY <1>1, <1>3 DEF FilesFollow
  <2>3. ManifestIsLast'
    BY <1>1, <1>3, ManifestStays
  <2>4. ExitZeroMeansArchived'
    BY <1>3 DEF ExitZeroMeansArchived
  <2>5. EndedWhole'
    BY <1>1, <1>3, BatchAssumption DEF EndedWhole
  <2> QED
    BY <2>1, <2>2, <2>3, <2>4, <2>5 DEF BatchInv
<1> QED
  BY <1>2, <1>3 DEF WriteManifest, Raise

\* A row of the cut results.jsonl is a row that was in memory; the manifest
\* still is that of an earlier batch.
LEMMA KilledKeeps == ASSUME BatchInv, Killed, TypeOK' PROVE BatchInv'
<1>1. /\ TypeOK /\ [Next]_vars /\ RowsFollow /\ RunsAreFresh /\ FilesFollow
      /\ UNCHANGED <<disk, batch, inputs>>
      /\ pc \notin {"idle", "exit"} /\ pc' = "exit" /\ exit' = Null /\ rows' = <<>>
      /\ manifest' = manifest \/ manifest' = Null
      /\ manifest # Null => manifest.batch < batch /\ manifest.batch \in 0 .. batch
  BY DEF BatchInv, Killed, Next, FilesFollow, files
<1>2. RowsFollow' /\ RunsAreFresh'
  BY <1>1 DEF RowsFollow, RunsAreFresh
<1>3. ExitZeroMeansArchived' /\ EndedWhole'
  BY <1>1, BatchAssumption DEF ExitZeroMeansArchived, EndedWhole
<1>4. CASE results' = results
  <2>1. FilesFollow'
    BY <1>1, <1>4, AllStaysTold DEF FilesFollow
  <2>2. ASSUME manifest' = Null PROVE ManifestIsLast'
    BY <2>2 DEF ManifestIsLast
  <2>3. ASSUME manifest' = manifest PROVE ManifestIsLast'
    BY <1>1, <1>4, <2>3, ManifestStays
  <2>4. ManifestIsLast'
    BY <1>1, <2>2, <2>3
  <2> QED
    BY <1>2, <1>3, <2>1, <2>4 DEF BatchInv
<1>5. ASSUME NEW n \in 0 .. (Len(rows) - 1),
             results' = [batch |-> batch, rows |-> SubSeq(rows, 1, n)]
      PROVE  BatchInv'
  <2> DEFINE cut == SubSeq(rows, 1, n)
  <2>1. rows \in Seq(Row) /\ \A i \in 1 .. Len(rows) : Told(rows[i], reports', disk')
    BY <1>1, AllStaysTold DEF TypeOK
  <2>2. Len(cut) = n /\ \A i \in 1 .. n : cut[i] = rows[i] /\ i \in 1 .. Len(rows)
    BY <2>1
  <2>3. results'.batch = batch /\ results'.rows = cut
    BY <1>5
  <2> HIDE DEF cut
  <2>4. FilesFollow'
    <3>1. \A i \in 1 .. Len(cut) : Told(cut[i], reports', disk')
      BY <2>1, <2>2
    <3>2. manifest' # Null => manifest'.batch \in 0 .. batch
      BY <1>1
    <3> QED
      BY <1>1, <2>3, <3>1, <3>2 DEF FilesFollow
  <2>5. ManifestIsLast'
    <3>1. manifest' # Null => manifest'.batch # batch
      BY <1>1 DEF TypeOK
    <3> QED
      BY <2>3, <3>1 DEF ManifestIsLast
  <2> QED
    BY <1>2, <1>3, <2>4, <2>5 DEF BatchInv
<1> QED
  BY <1>4, <1>5 DEF Killed, files

LEMMA EditKeeps == ASSUME BatchInv, Edit, TypeOK' PROVE BatchInv'
<1>1. /\ TypeOK /\ [Next]_vars /\ RowsFollow /\ RunsAreFresh /\ FilesFollow
      /\ UNCHANGED <<pc, batch, inputs, sha, rows, reports, results, metrics, manifest, exit,
                     stopped_by>>
  BY DEF BatchInv, Edit, Next, files
<1>2. RowsFollow'
  <2>1. CASE pc = "run"
    <3>1. Current \in Files /\ disk[Current] \in Versions /\ sha \in Versions
      BY <1>1, <2>1, CurrentType DEF TypeOK
    <3>2. disk'[Current] \in Versions /\ NotAfter(disk[Current], disk'[Current])
      BY <1>1, <3>1, DiskMoves
    <3>3. NotAfter(sha, disk'[Current]) /\ Current' = Current
      BY <1>1, <2>1, <3>1, <3>2, NotAfterChains DEF RowsFollow, Current
    <3> QED
      BY <1>1, <3>3, AllStaysTold DEF RowsFollow
  <2>2. CASE pc # "run"
    BY <1>1, <2>2, AllStaysTold DEF RowsFollow
  <2> QED
    BY <2>1, <2>2
<1>3. RunsAreFresh'
  BY <1>1 DEF RunsAreFresh
<1>4. FilesFollow'
  BY <1>1, AllStaysTold DEF FilesFollow
<1>5. ManifestIsLast'
  BY <1>1, ManifestStays
<1>6. ExitZeroMeansArchived'
  BY <1>1 DEF BatchInv, ExitZeroMeansArchived
<1>7. EndedWhole'
  BY <1>1 DEF BatchInv, EndedWhole
<1> QED
  BY <1>2, <1>3, <1>4, <1>5, <1>6, <1>7 DEF BatchInv

-----------------------------------------------------------------------------
(***************************************************************************)
(* The invariant holds in every reachable state.                           *)
(***************************************************************************)
LEMMA BatchInitially == ASSUME Init PROVE BatchInv
<1>1. /\ disk = [f \in Files |-> 0] /\ pc = "idle" /\ batch = 0 /\ inputs = <<>>
      /\ sha = Null /\ rows = <<>> /\ reports = <<>> /\ results = Null /\ metrics = Null
      /\ manifest = Null /\ exit = Null /\ stopped_by = Null
  BY DEF Init
<1>2. <<>> \in Seq(Files) /\ <<>> \in Seq(Row) /\ <<>> \in Seq(Versions)
      /\ Len(<<>>) = 0 /\ DOMAIN <<>> = {}
  OBVIOUS
<1>3. 0 \in 0 .. MaxEdits /\ 0 \in 0 .. MaxBatches
  BY BatchAssumption
<1>4. TypeOK
  BY <1>1, <1>2, <1>3 DEF TypeOK, Versions, Range
<1>5. RowsFollow /\ RunsAreFresh /\ FilesFollow /\ ManifestIsLast
  BY <1>1, <1>2 DEF RowsFollow, RunsAreFresh, FilesFollow, ManifestIsLast
<1>6. ExitZeroMeansArchived /\ EndedWhole
  BY <1>1, BatchAssumption DEF ExitZeroMeansArchived, EndedWhole
<1> QED
  BY <1>4, <1>5, <1>6 DEF BatchInv

LEMMA BatchKept == ASSUME BatchInv, [Next]_vars PROVE BatchInv'
<1>1. TypeOK'
  BY BatchTyped
<1>2. CASE UNCHANGED vars
  BY <1>2 DEF BatchInv, vars, TypeOK, RowsFollow, RunsAreFresh, FilesFollow, ManifestIsLast,
     ExitZeroMeansArchived, EndedWhole, Told, Current, Accepts, RowAccepted, CountOf
<1> QED
  BY <1>1, <1>2, StartKeeps, HashKeeps, RunKeeps, WriteKeeps, ManifestKeeps, KilledKeeps,
     EditKeeps DEF Next, BatchStep

\* The invariant of the batch, of its files and of the reports they refer to.
THEOREM BatchInvariant == Spec => []BatchInv
<1>1. Init => BatchInv
  BY BatchInitially
<1>2. BatchInv /\ [Next]_vars => BatchInv'
  BY BatchKept
<1> QED
  BY <1>1, <1>2, PTL DEF Spec

\* The variables of run_batch and the files it leaves have their types.
THEOREM BatchTypes == Spec => []TypeOK
<1>1. BatchInv => TypeOK
  BY DEF BatchInv
<1> QED
  BY <1>1, BatchInvariant, PTL

\* Exit code 0: each collected input has its row, in order, and a report of
\* its own in the archive; the three files are those of this batch.
THEOREM ExitZero == Spec => []ExitZeroMeansArchived
<1>1. BatchInv => ExitZeroMeansArchived
  BY DEF BatchInv
<1> QED
  BY <1>1, BatchInvariant, PTL

\* The validator is right to infer from the equality of two digests that the
\* content in between, which the parser read, is the same, in the files of a
\* batch that came to its last line: a content never comes back once it was
\* replaced, and that batch took its manifest after its reports.
THEOREM ReturnedAnalysed == Spec => []ReturnedIsAnalysed
<1>1. ASSUME BatchInv, Accepts, exit \in {0, 1}, stopped_by = Null, NEW i \in DOMAIN results.rows,
             results.rows[i].status = "ok"
      PROVE  reports[results.rows[i].run] = results.rows[i].sha
  <2> DEFINE r == results.rows[i]
  <2>1. /\ results # Null /\ manifest # Null /\ results.rows \in Seq(Row)
        /\ Range(manifest.sha) \subseteq Versions /\ reports \in Seq(Versions)
        /\ results.batch = manifest.batch
    BY <1>1 DEF BatchInv, TypeOK, Accepts, EndedWhole
  <2>2. i \in 1 .. Len(results.rows) /\ r \in Row /\ r.sha \in Versions
    <3>1. i \in 1 .. Len(results.rows)
      BY <1>1, <2>1
    <3>2. r \in Row
      BY <2>1, <3>1, ElementOfSeq
    <3> HIDE DEF r
    <3> QED
      BY <3>1, <3>2 DEF Row
  <2>3. r.run \in DOMAIN reports /\ r.input \in DOMAIN manifest.sha /\ r.sha = manifest.sha[r.input]
    BY <1>1, <2>2 DEF Accepts, RowAccepted
  <2>4. reports[r.run] \in Versions
    BY <2>1, <2>3, ElementOfSeq
  <2>5. NotAfter(r.sha, reports[r.run])
    BY <1>1, <2>1, <2>2 DEF BatchInv, FilesFollow, Told
  <2>6. NotAfter(reports[r.run], r.sha)
    BY <1>1, <2>1, <2>2, <2>3 DEF BatchInv, ManifestIsLast
  <2> QED
    BY <2>2, <2>4, <2>5, <2>6, NotAfterBoth
<1>2. BatchInv => ReturnedIsAnalysed
  BY <1>1 DEF ReturnedIsAnalysed, EachReportIsOfItsRow
<1> QED
  BY <1>2, BatchInvariant, PTL

\* No step of any batch, killed or not, removes or rewrites a report.
THEOREM ReportsKept == Spec => ReportsAreKept
<1>1. ASSUME BatchInv, [Next]_vars
      PROVE  [\A r \in DOMAIN reports : r \in DOMAIN reports' /\ reports'[r] = reports[r]]_vars
  BY <1>1, ReportsGrow DEF BatchInv
<1> QED
  BY <1>1, BatchInvariant, PTL DEF Spec, ReportsAreKept

-----------------------------------------------------------------------------
(***************************************************************************)
(* The corpus: the inductive invariant.  Every file, and every write that  *)
(* a command still has to do, has one row per identifier, and the label of *)
(* a row is what the review said of the bytes the row names.  Nothing of   *)
(* the kind holds of the RAG base: select takes its labels and its bytes   *)
(* from files that need not agree.                                         *)
(***************************************************************************)
OneRowPerId(table) == \A r, s \in table : r.id = s.id => r = s

Unreviewed(r) ==
  /\ r = [id |-> r.id, raw |-> r.raw, family |-> r.family]
  /\ r.id \in Nat /\ r.raw \in Messages

Judged(r) ==
  /\ r = [id |-> r.id, raw |-> r.raw, family |-> r.family, label |-> r.label]
  /\ r.id \in Nat /\ r.raw \in Messages
  /\ r.label = Verdict[r.raw]

Unjudged == {"manifest", "template"}
JudgedFiles == {"adjudication", "pool", "labels", "dev", "test"}

Sound(file, content) ==
  content # <<>> =>
    /\ file \in Unjudged => \A r \in content[1] : Unreviewed(r)
    /\ file \in JudgedFiles => \A r \in content[1] : Judged(r)
    /\ file \in Unjudged \cup JudgedFiles => OneRowPerId(content[1])

\* Only the manifest is ever removed.
SoundWrite(w) ==
  /\ w.file \in CorpusFiles
  /\ Sound(w.file, w.content)
  /\ w.content = <<>> => w.file = "manifest"

SoundWrites(writes) ==
  /\ writes \in Seq(Range(writes))
  /\ \A k \in DOMAIN writes : SoundWrite(writes[k])

CorpusInv ==
  /\ acquired \in DOMAIN Archives
  /\ DOMAIN corpus = CorpusFiles
  /\ \A f \in CorpusFiles : Sound(f, corpus[f])
  /\ SoundWrites(todo)

-----------------------------------------------------------------------------
(***************************************************************************)
(* Rows and the identifiers that select them.                              *)
(***************************************************************************)
LEMMA LeastNumber ==
  ASSUME NEW S, S \subseteq Nat, S # {}
  PROVE  \E n \in S : \A m \in S : n <= m
<1> DEFINE R == OpToRel(<, Nat)
<1>1. IsWellFoundedOn(R, Nat)
  BY NatLessThanWellFounded
<1>2. PICK n \in S : \A m \in S : ~(<<m, n>> \in R)
  BY <1>1, WFMin
<1>3. ASSUME NEW m \in S, m < n PROVE FALSE
  <2>1. <<m, n>> \in R
    BY <1>3 DEF OpToRel
  <2> QED
    BY <1>2, <2>1
<1> QED
  BY <1>3

LEMMA MinIsMember ==
  ASSUME NEW S, S \subseteq Nat, S # {}
  PROVE  Min(S) \in S
BY LeastNumber DEF Min

LEMMA RowsAreSound ==
  ASSUME CorpusInv, NEW f \in CorpusFiles
  PROVE  /\ f \in Unjudged => \A r \in Rows(f) : Unreviewed(r)
         /\ f \in JudgedFiles => \A r \in Rows(f) : Judged(r)
         /\ f \in Unjudged \cup JudgedFiles => OneRowPerId(Rows(f))
<1>1. CASE Missing(f)
  BY <1>1 DEF Rows, OneRowPerId
<1>2. CASE ~Missing(f)
  <2>1. Rows(f) = corpus[f][1] /\ corpus[f] # <<>>
    BY <1>2 DEF Rows, Missing
  <2> QED
    BY <2>1 DEF CorpusInv, Sound
<1> QED
  BY <1>1, <1>2

LEMMA EntryIsTheRow ==
  ASSUME NEW f, OneRowPerId(Rows(f)), NEW r \in Rows(f)
  PROVE  Entry(f, r.id) = r
BY DEF Entry, OneRowPerId

LEMMA EntryIsARow ==
  ASSUME NEW f, NEW id \in Ids(Rows(f))
  PROVE  Entry(f, id) \in Rows(f) /\ Entry(f, id).id = id
BY DEF Entry, Ids

LEMMA DevIsOfThePool == DevSamples \subseteq Ids(Rows("pool"))
BY DEF DevSamples, Least, PoolOf, Ids

LEMMA ComplementIsSound ==
  ASSUME CorpusInv
  PROVE  /\ Complement \subseteq Rows("labels")
         /\ \A r \in Complement : r.id \in Nat
<1>1. Complement \subseteq Rows("labels")
  BY DEF Complement
<1>2. \A r \in Rows("labels") : Judged(r)
  BY RowsAreSound DEF CorpusFiles, InputFiles, JudgedFiles
<1> QED
  BY <1>1, <1>2 DEF Judged

\* A case of the RAG base is the least member of a family of the complement.
IsHeadOf(id, f) ==
  LET ids == {r.id : r \in {s \in Complement : s.family = f}} IN id = Min(ids) /\ id \in ids

LEMMA RagSamplesAreHeads ==
  ASSUME CorpusInv, NEW id \in RagSamples
  PROVE  \E f : IsHeadOf(id, f)
<1>1. PICK label : id \in Heads(label)
  BY DEF RagSamples, Capped, Least
<1>2. PICK f \in FamiliesOf(label, Complement) :
        id = Min({r.id : r \in {s \in Complement : s.family = f}})
  BY <1>1 DEF Heads
<1> DEFINE ids == {r.id : r \in {s \in Complement : s.family = f}}
<1>3. ids \subseteq Nat
  BY ComplementIsSound
<1>4. ids # {}
  BY <1>2 DEF FamiliesOf
<1>5. id \in ids
  BY <1>2, <1>3, <1>4, MinIsMember
<1> QED
  BY <1>2, <1>5 DEF IsHeadOf

LEMMA RecordsNameTheirIds ==
  ASSUME NEW ids
  PROVE  Ids(Records(ids)) = ids
<1>1. \A id \in ids : Labelled(id).id = id
  BY DEF Labelled
<1>2. Ids(Records(ids)) \subseteq ids
  BY <1>1 DEF Ids, Records
<1>3. \A id \in ids : id \in Ids(Records(ids))
  BY <1>1 DEF Ids, Records
<1> QED
  BY <1>2, <1>3

-----------------------------------------------------------------------------
(***************************************************************************)
(* The selection.                                                          *)
(***************************************************************************)
LEMMA SelectionWhole ==
  ASSUME CorpusInv
  PROVE  SelectionIsWhole
<1> SUFFICES ASSUME Verified
             PROVE  LET dev == Ids(Rows("dev"))
                        test == Ids(Rows("test"))
                        rag == Ids(Rows("rag"))
                    IN  /\ dev \cap test = {} /\ rag \cap (dev \cup test) = {}
                        /\ \A i, j \in dev \cup test \cup rag :
                             i # j => Entry("labels", i).family # Entry("labels", j).family
  BY DEF SelectionIsWhole
<1>1. /\ Ids(Rows("dev")) = DevSamples
      /\ Ids(Rows("test")) = TestSamples
      /\ Ids(Rows("rag")) = RagSamples
  <2>1. \A f, ids : FileIs(f, Records(ids)) => Ids(Rows(f)) = ids
    BY RecordsNameTheirIds DEF FileIs, Rows, Missing
  <2> QED
    BY <2>1 DEF Verified, Reproduced
<1>2. DevSamples \cap TestSamples = {} /\ DevSamples \cup TestSamples \subseteq Ids(Rows("pool"))
  BY DevIsOfThePool DEF TestSamples
<1>3. OneRowPerId(Rows("labels"))
  BY RowsAreSound DEF CorpusFiles, InputFiles, JudgedFiles
\* A sample of the pool has a candidate of its own, whose family is the labels'.
<1>4. ASSUME NEW i \in Ids(Rows("pool"))
      PROVE  \E p \in Rows("pool") : p.id = i /\ Entry("labels", i).family = p.family
  <2>1. PICK p \in Rows("pool") : p.id = i
    BY DEF Ids
  <2>2. p \in Rows("labels")
    BY DEF Verified, Selectable, PoolGuarded
  <2> QED
    BY <1>3, <2>1, <2>2, EntryIsTheRow
\* A case of the RAG base is the head of its family, of another family than the pool's.
<1>5. ASSUME NEW i \in RagSamples
      PROVE  /\ i \notin Ids(Rows("pool"))
             /\ Entry("labels", i).family \notin PoolFamilies
             /\ IsHeadOf(i, Entry("labels", i).family)
  <2>1. PICK f : IsHeadOf(i, f)
    BY RagSamplesAreHeads
  <2>2. PICK r \in Complement : r.id = i /\ r.family = f
    BY <2>1 DEF IsHeadOf
  <2>3. r \in Rows("labels") /\ r.id \notin Ids(Rows("pool")) /\ r.family \notin PoolFamilies
    BY DEF Complement
  <2>4. Entry("labels", i) = r
    BY <1>3, <2>2, <2>3, EntryIsTheRow
  <2> QED
    BY <2>1, <2>2, <2>3, <2>4
<1>6. RagSamples \cap (DevSamples \cup TestSamples) = {}
  BY <1>2, <1>5
<1>7. ASSUME NEW i \in DevSamples \cup TestSamples \cup RagSamples,
             NEW j \in DevSamples \cup TestSamples \cup RagSamples,
             i # j
      PROVE  Entry("labels", i).family # Entry("labels", j).family
  <2>1. CASE i \in RagSamples /\ j \in RagSamples
    <3>1. \A f : IsHeadOf(i, f) /\ IsHeadOf(j, f) => i = j
      BY DEF IsHeadOf
    <3> QED
      BY <1>5, <1>7, <2>1, <3>1
  <2>2. CASE i \in RagSamples /\ j \in Ids(Rows("pool"))
    BY <1>4, <1>5, <2>2 DEF PoolFamilies
  <2>3. CASE i \in Ids(Rows("pool")) /\ j \in RagSamples
    BY <1>4, <1>5, <2>3 DEF PoolFamilies
  <2>4. CASE i \in Ids(Rows("pool")) /\ j \in Ids(Rows("pool"))
    <3>1. \A p, q \in Rows("pool") : p # q => p.family # q.family
      BY DEF Verified, Selectable, PoolLoads
    <3> QED
      BY <1>4, <1>7, <2>4, <3>1
  <2> QED
    BY <1>2, <2>1, <2>2, <2>3, <2>4
<1> QED
  BY <1>1, <1>2, <1>6, <1>7

LEMMA JudgedRowsTellTheVerdict ==
  ASSUME CorpusInv
  PROVE  LabelsFollowTheBytes
BY RowsAreSound DEF LabelsFollowTheBytes, CorpusFiles, OutputFiles, JudgedFiles, Judged

-----------------------------------------------------------------------------
(***************************************************************************)
(* What the commands write is sound.                                       *)
(***************************************************************************)
Containers == Seq(Messages)

LEMMA ArchivesAreContainers ==
  ASSUME NEW n \in DOMAIN Archives
  PROVE  Archives[n] \in Containers
BY CorpusAssumption DEF Containers

LEMMA NormalizedIsSound ==
  ASSUME NEW container \in Containers
  PROVE  /\ \A r \in Normalized(container) : Unreviewed(r)
         /\ OneRowPerId(Normalized(container))
<1>1. \A i \in DOMAIN container : i \in Nat /\ container[i] \in Messages
  BY DEF Containers
<1>2. \A r \in Normalized(container) : \E i \in DOMAIN container :
        r = [id |-> i, raw |-> container[i], family |-> {}]
  BY DEF Normalized
<1>3. \A r \in Normalized(container) :
        Unreviewed(r) /\ r = [id |-> r.id, raw |-> container[r.id], family |-> {}]
  BY <1>1, <1>2 DEF Unreviewed
<1>4. OneRowPerId(Normalized(container))
  BY <1>3 DEF OneRowPerId
<1> QED
  BY <1>3, <1>4

\* dedupe changes the families and nothing else.
LEMMA GroupedKeepsTheRows ==
  ASSUME NEW table, \A r \in table : Unreviewed(r), OneRowPerId(table)
  PROVE  /\ \A g \in Grouped(table) : Unreviewed(g) /\ \E r \in table : r.id = g.id /\ r.raw = g.raw
         /\ \A r \in table : \E g \in Grouped(table) : r.id = g.id /\ r.raw = g.raw
         /\ OneRowPerId(Grouped(table))
<1> DEFINE families == DuplicateFamilies(table)
           FamilyOf(r) == CHOOSE f \in families : r.id \in f
           Regrouped(r) == [r EXCEPT !.family = FamilyOf(r)]
<1>1. Grouped(table) = {Regrouped(r) : r \in table}
  BY DEF Grouped
<1>2. ASSUME NEW r \in table
      PROVE  Regrouped(r).id = r.id /\ Regrouped(r).raw = r.raw /\ Unreviewed(Regrouped(r))
  <2>1. Regrouped(r) = [id |-> r.id, raw |-> r.raw, family |-> FamilyOf(r)]
    <3> HIDE DEF FamilyOf
    <3>1. r = [id |-> r.id, raw |-> r.raw, family |-> r.family]
      BY DEF Unreviewed
    <3> QED
      BY <3>1
  <2> QED
    BY <2>1 DEF Unreviewed
<1> HIDE DEF Regrouped
<1> QED
  BY <1>1, <1>2 DEF OneRowPerId

LEMMA ReviewedIsSound ==
  ASSUME NEW table, \A r \in table : Unreviewed(r), OneRowPerId(table)
  PROVE  (\A r \in Reviewed(table) : Judged(r)) /\ OneRowPerId(Reviewed(table))
<1>1. \A g \in Reviewed(table) : \E r \in table :
        g = [id |-> r.id, raw |-> r.raw, family |-> r.family, label |-> Verdict[r.raw]]
  BY DEF Reviewed
<1> QED
  BY <1>1 DEF Judged, Unreviewed, OneRowPerId

\* A record of a candidate whose bytes are the manifest's.
LEMMA CandidatesAreJudged ==
  ASSUME CorpusInv, PoolGuarded, NEW id \in Ids(Rows("pool"))
  PROVE  /\ Judged(Labelled(id)) /\ Labelled(id).id = id
         /\ \E p \in Rows("pool") :
              p.id = id /\ Labelled(id).raw = p.raw /\ Labelled(id).label = p.label
<1>1. PICK p \in Rows("pool") : p.id = id
  BY DEF Ids
<1>2. p \in Rows("labels") /\ Judged(p) /\ OneRowPerId(Rows("labels"))
  BY RowsAreSound DEF PoolGuarded, CorpusFiles, InputFiles, JudgedFiles
<1>3. Entry("labels", id) = p
  BY <1>1, <1>2, EntryIsTheRow
<1>4. PICK r \in Rows("manifest") : r.id = p.id /\ r.raw = p.raw
  BY DEF PoolGuarded, HasItsBytes
<1>5. OneRowPerId(Rows("manifest"))
  BY RowsAreSound DEF CorpusFiles, InputFiles, Unjudged
<1>6. Entry("manifest", id) = r
  BY <1>1, <1>4, <1>5, EntryIsTheRow
<1> DEFINE family == Entry("manifest", id).family
<1>7. Labelled(id) = [id |-> id, raw |-> p.raw, family |-> family, label |-> p.label]
  BY <1>3, <1>4, <1>6 DEF Labelled
<1> HIDE DEF family
<1> QED
  BY <1>1, <1>2, <1>7 DEF Judged

LEMMA RecordsOfThePoolAreSound ==
  ASSUME CorpusInv, PoolGuarded, NEW ids, ids \subseteq Ids(Rows("pool"))
  PROVE  (\A r \in Records(ids) : Judged(r)) /\ OneRowPerId(Records(ids))
BY CandidatesAreJudged DEF Records, OneRowPerId

LEMMA SomeRowsAreSound ==
  ASSUME NEW f, NEW content, Sound(f, <<content>>), NEW P, P \subseteq content
  PROVE  Sound(f, <<P>>)
BY DEF Sound, OneRowPerId

LEMMA PoolOutIsSound ==
  ASSUME NEW table, NEW choice, \A r \in table : Judged(r), OneRowPerId(table)
  PROVE  (\A r \in PoolOut(table, choice) : Judged(r)) /\ OneRowPerId(PoolOut(table, choice))
BY DEF PoolOut, OneRowPerId

-----------------------------------------------------------------------------
(***************************************************************************)
(* The writes of a command.                                                *)
(***************************************************************************)
LEMMA SeqOfItsRange ==
  ASSUME NEW S, NEW s \in Seq(S)
  PROVE  s \in Seq(Range(s))
<1> DEFINE T == Range(s)
<1>1. Len(s) \in Nat /\ DOMAIN s = 1 .. Len(s) /\ s = [k \in 1 .. Len(s) |-> s[k]]
  OBVIOUS
<1>2. \A k \in 1 .. Len(s) : s[k] \in T
  BY <1>1 DEF Range
<1>3. s \in [1 .. Len(s) -> T]
  <2> HIDE DEF T
  <2> QED
    BY <1>1, <1>2
<1> HIDE DEF T
<1>4. s \in Seq(T)
  BY <1>1, <1>3
<1> QED
  BY <1>4 DEF T

LEMMA TwoWrites ==
  ASSUME NEW a, NEW b, SoundWrite(a), SoundWrite(b)
  PROVE  SoundWrites(<<a, b>>)
<1> DEFINE writes == <<a, b>>
<1>1. writes \in Seq({a, b}) /\ DOMAIN writes = {1, 2} /\ writes[1] = a /\ writes[2] = b
  OBVIOUS
<1>2. Range(writes) = {a, b}
  BY <1>1 DEF Range
<1> QED
  BY <1>1, <1>2 DEF SoundWrites

LEMMA ThreeWrites ==
  ASSUME NEW a, NEW b, NEW c, SoundWrite(a), SoundWrite(b), SoundWrite(c)
  PROVE  SoundWrites(<<a, b, c>>)
<1> DEFINE writes == <<a, b, c>>
<1>1. /\ writes \in Seq({a, b, c}) /\ DOMAIN writes = {1, 2, 3}
      /\ writes[1] = a /\ writes[2] = b /\ writes[3] = c
  OBVIOUS
<1>2. Range(writes) = {a, b, c}
  BY <1>1 DEF Range
<1> QED
  BY <1>1, <1>2 DEF SoundWrites

LEMMA NoWrites == SoundWrites(<<>>)
<1>1. Range(<<>>) = {}
  BY DEF Range
<1> QED
  BY <1>1 DEF SoundWrites

LEMMA LaterWrites ==
  ASSUME NEW writes, SoundWrites(writes), writes # <<>>
  PROVE  /\ SoundWrites(Tail(writes))
         /\ SoundWrite(Head(writes))
<1> DEFINE S == Range(writes)
<1>1. writes \in Seq(S)
  BY DEF SoundWrites
<1>2. /\ Tail(writes) \in Seq(S) /\ Len(Tail(writes)) = Len(writes) - 1
      /\ \A k \in 1 .. Len(Tail(writes)) : Tail(writes)[k] = writes[k + 1]
      /\ Head(writes) = writes[1] /\ Len(writes) \in Nat /\ 1 \in 1 .. Len(writes)
  <2> HIDE DEF S
  <2> QED
    BY <1>1, EmptySeq, HeadTailProperties
<1>3. DOMAIN writes = 1 .. Len(writes) /\ DOMAIN Tail(writes) = 1 .. Len(Tail(writes))
  <2> HIDE DEF S
  <2> QED
    BY <1>1, <1>2
<1>4. \A k \in DOMAIN Tail(writes) : k + 1 \in DOMAIN writes /\ Tail(writes)[k] = writes[k + 1]
  <2> HIDE DEF S
  <2> QED
    BY <1>2, <1>3
<1>5. Tail(writes) \in Seq(Range(Tail(writes)))
  BY <1>2, SeqOfItsRange
<1> QED
  BY <1>2, <1>3, <1>4, <1>5 DEF SoundWrites

-----------------------------------------------------------------------------
(***************************************************************************)
(* The corpus keeps its invariant, command by command.                     *)
(***************************************************************************)
LEMMA BuiltIsSound ==
  ASSUME NEW container \in Containers, NEW choice, NEW f \in CorpusFiles
  PROVE  Sound(f, BuiltFrom(container, choice)[f])
<1> DEFINE records == Grouped(Normalized(container))
           reviewed == Reviewed(records)
           pool == PoolOut(reviewed, choice)
           built == BuiltFrom(container, choice)[f]
<1>1. (\A r \in records : Unreviewed(r)) /\ OneRowPerId(records)
  BY NormalizedIsSound, GroupedKeepsTheRows
<1>2. (\A r \in reviewed : Judged(r)) /\ OneRowPerId(reviewed)
  <2> HIDE DEF records
  <2> QED
    BY <1>1, ReviewedIsSound
<1>3. (\A r \in pool : Judged(r)) /\ OneRowPerId(pool)
  <2> HIDE DEF reviewed
  <2> QED
    BY <1>2, PoolOutIsSound
<1>4. /\ f \in {"manifest", "template"} => built = <<records>>
      /\ f \in {"adjudication", "labels"} => built = <<reviewed>>
      /\ f = "pool" => built = <<pool>>
      /\ f \notin {"manifest", "template", "adjudication", "labels", "pool"} => built = <<>>
  BY DEF BuiltFrom
<1> HIDE DEF records, reviewed, pool, built
<1>5. Sound(f, built)
  BY <1>1, <1>2, <1>3, <1>4 DEF Sound, CorpusFiles, InputFiles, OutputFiles, Unjudged, JudgedFiles
<1> QED
  BY <1>5 DEF built

LEMMA InitCorpusIsSound ==
  ASSUME InitCorpus
  PROVE  CorpusInv
<1>1. PICK choice \in PoolChoices : corpus = BuiltInputs(choice)
  BY DEF InitCorpus
<1>2. acquired \in DOMAIN Archives /\ archive \in Containers
  <2>1. acquired = 1 /\ 1 \in DOMAIN Archives
    BY CorpusAssumption DEF InitCorpus
  <2> QED
    BY <2>1, ArchivesAreContainers DEF archive
<1>3. DOMAIN corpus = CorpusFiles
  BY <1>1 DEF BuiltInputs, BuiltFrom
<1>4. \A f \in CorpusFiles : Sound(f, corpus[f])
  BY <1>1, <1>2, BuiltIsSound DEF BuiltInputs
<1>5. SoundWrites(todo)
  BY NoWrites DEF InitCorpus
<1> QED
  BY <1>2, <1>3, <1>4, <1>5 DEF CorpusInv

\* A command that has decided what to write.
LEMMA BeginKeeps ==
  ASSUME CorpusInv, NEW writes, Begin(writes), SoundWrites(writes)
  PROVE  CorpusInv'
BY DEF CorpusInv, Begin, SoundWrites, SoundWrite, Sound, OneRowPerId, Judged, Unreviewed

LEMMA NormalizeKeeps ==
  ASSUME CorpusInv, Normalize
  PROVE  CorpusInv'
<1>1. archive \in Containers
  BY ArchivesAreContainers DEF CorpusInv, archive
<1>2. (\A r \in NormalizedRecords : Unreviewed(r)) /\ OneRowPerId(NormalizedRecords)
  BY <1>1, NormalizedIsSound DEF NormalizedRecords
<1> DEFINE a == Unlink("manifest")
           b == Put("manifest", NormalizedRecords)
           c == Put("template", NormalizedRecords)
<1>3. SoundWrite(a)
  BY DEF Unlink, SoundWrite, Sound, CorpusFiles, InputFiles
<1>4. SoundWrite(b)
  BY <1>2 DEF Put, SoundWrite, Sound, CorpusFiles, InputFiles, JudgedFiles
<1>5. SoundWrite(c)
  BY <1>2 DEF Put, SoundWrite, Sound, CorpusFiles, InputFiles, JudgedFiles
<1>6. Begin(<<a, b, c>>)
  BY DEF Normalize
<1> HIDE DEF a, b, c
<1>7. SoundWrites(<<a, b, c>>)
  BY <1>3, <1>4, <1>5, ThreeWrites
<1> QED
  BY <1>6, <1>7, BeginKeeps

LEMMA DedupeKeeps ==
  ASSUME CorpusInv, Dedupe
  PROVE  CorpusInv'
<1> DEFINE grouped == Grouped(Rows("manifest"))
           a == Put("manifest", grouped)
           b == Put("template", grouped)
<1>1. (\A r \in grouped : Unreviewed(r)) /\ OneRowPerId(grouped)
  BY RowsAreSound, GroupedKeepsTheRows DEF CorpusFiles, InputFiles, Unjudged
<1>2. Begin(<<a, b>>)
  BY DEF Dedupe
<1> HIDE DEF grouped
<1>3. SoundWrite(a)
  BY <1>1 DEF Put, SoundWrite, Sound, CorpusFiles, InputFiles, JudgedFiles
<1>4. SoundWrite(b)
  BY <1>1 DEF Put, SoundWrite, Sound, CorpusFiles, InputFiles, JudgedFiles
<1> HIDE DEF a, b
<1>5. SoundWrites(<<a, b>>)
  BY <1>3, <1>4, TwoWrites
<1> QED
  BY <1>2, <1>5, BeginKeeps

LEMMA LabelsKeeps ==
  ASSUME CorpusInv, Labels
  PROVE  CorpusInv'
<1> DEFINE a == Put("labels", Rows("adjudication"))
           writes == <<a>>
<1>1. (\A r \in Rows("adjudication") : Judged(r)) /\ OneRowPerId(Rows("adjudication"))
  BY RowsAreSound DEF CorpusFiles, InputFiles, JudgedFiles
<1>2. SoundWrite(a)
  BY <1>1 DEF Put, SoundWrite, Sound, CorpusFiles, InputFiles, Unjudged
<1>3. Begin(writes)
  BY DEF Labels
<1> HIDE DEF a
<1>4. writes \in Seq({a}) /\ DOMAIN writes = {1} /\ writes[1] = a
  OBVIOUS
<1>5. Range(writes) = {a}
  BY <1>4 DEF Range
<1>6. SoundWrites(writes)
  BY <1>2, <1>4, <1>5 DEF SoundWrites
<1> QED
  BY <1>3, <1>6, BeginKeeps

LEMMA SelectKeeps ==
  ASSUME CorpusInv, Select
  PROVE  CorpusInv'
<1> DEFINE a == Put("dev", Records(DevSamples))
           b == Put("rag", Records(RagSamples))
           c == Put("plan", Plan)
<1>1. (\A r \in Records(DevSamples) : Judged(r)) /\ OneRowPerId(Records(DevSamples))
  BY RecordsOfThePoolAreSound, DevIsOfThePool DEF Select, Selectable
<1>2. SoundWrite(a)
  BY <1>1 DEF Put, SoundWrite, Sound, CorpusFiles, OutputFiles, Unjudged
<1>3. SoundWrite(b)
  BY DEF Put, SoundWrite, Sound, CorpusFiles, OutputFiles, Unjudged, JudgedFiles
<1>4. SoundWrite(c)
  BY DEF Put, SoundWrite, Sound, CorpusFiles, OutputFiles, Unjudged, JudgedFiles
<1>5. Begin(<<a, b, c>>)
  BY DEF Select
<1> HIDE DEF a, b, c
<1>6. SoundWrites(<<a, b, c>>)
  BY <1>2, <1>3, <1>4, ThreeWrites
<1> QED
  BY <1>5, <1>6, BeginKeeps

LEMMA FreezeKeeps ==
  ASSUME CorpusInv, Freeze
  PROVE  CorpusInv'
<1> DEFINE a == Put("test", Records(TestSamples))
           b == Put("seal", Seal)
<1>1. (\A r \in Records(TestSamples) : Judged(r)) /\ OneRowPerId(Records(TestSamples))
  BY RecordsOfThePoolAreSound DEF Freeze, Selectable, TestSamples
<1>2. SoundWrite(a)
  BY <1>1 DEF Put, SoundWrite, Sound, CorpusFiles, OutputFiles, Unjudged
<1>3. SoundWrite(b)
  BY DEF Put, SoundWrite, Sound, CorpusFiles, OutputFiles, Unjudged, JudgedFiles
<1>4. Begin(<<a, b>>)
  BY DEF Freeze
<1> HIDE DEF a, b
<1>5. SoundWrites(<<a, b>>)
  BY <1>2, <1>3, TwoWrites
<1> QED
  BY <1>4, <1>5, BeginKeeps

\* One file replaced by a sound content, and later writes.
LEMMA ReplacementKeeps ==
  ASSUME CorpusInv, NEW file \in CorpusFiles, NEW content, Sound(file, content),
         corpus' = [corpus EXCEPT ![file] = content], SoundWrites(todo'), UNCHANGED acquired
  PROVE  CorpusInv'
<1>1. DOMAIN corpus' = CorpusFiles
  BY DEF CorpusInv
<1>2. \A f \in CorpusFiles : corpus'[f] = IF f = file THEN content ELSE corpus[f]
  BY DEF CorpusInv
<1>3. \A f \in CorpusFiles : Sound(f, corpus'[f])
  BY <1>2 DEF CorpusInv
<1> QED
  BY <1>1, <1>3 DEF CorpusInv, SoundWrites, SoundWrite, Sound, OneRowPerId, Judged, Unreviewed

LEMMA CorpusWriteKeeps ==
  ASSUME CorpusInv, Write
  PROVE  CorpusInv'
BY LaterWrites, ReplacementKeeps DEF CorpusInv, Write, Idle, SoundWrite

LEMMA KillKeeps ==
  ASSUME CorpusInv, Kill
  PROVE  CorpusInv'
<1> DEFINE w == Head(todo)
<1>1. PICK left \in Torn(w) : corpus' = [corpus EXCEPT ![w.file] = left]
  BY DEF Kill
<1>2. SoundWrite(w)
  BY LaterWrites DEF CorpusInv, Kill, Idle
<1>3. Sound(w.file, left)
  <2>1. Sound(w.file, <<>>)
    BY DEF Sound
  <2>2. \/ left = <<>>
        \/ \E k : w.file \in Tables /\ left = <<{r \in w.content[1] : r.id <= k}>>
        \/ left = corpus["manifest"] /\ w.file = "manifest"
    BY DEF Torn
  <2>3. ASSUME NEW k, w.file \in Tables, left = <<{r \in w.content[1] : r.id <= k}>>
        PROVE  Sound(w.file, left)
    <3>1. w.content # <<>>
      BY <1>2, <2>3 DEF SoundWrite, Tables
    <3> QED
      BY <1>2, <2>3, <3>1 DEF SoundWrite, Sound, OneRowPerId
  <2>4. Sound("manifest", corpus["manifest"])
    BY DEF CorpusInv, CorpusFiles, InputFiles
  <2> QED
    BY <2>1, <2>2, <2>3, <2>4
<1>4. SoundWrites(todo')
  BY NoWrites DEF Kill
<1> HIDE DEF w
<1> QED
  BY <1>1, <1>2, <1>3, <1>4, ReplacementKeeps DEF Kill, SoundWrite

LEMMA CorpusUnchanged ==
  ASSUME CorpusInv, UNCHANGED corpusVars
  PROVE  CorpusInv'
BY DEF CorpusInv, corpusVars, SoundWrites, SoundWrite, Sound, OneRowPerId, Judged, Unreviewed

LEMMA AcquireKeeps ==
  ASSUME CorpusInv, Acquire
  PROVE  CorpusInv'
<1>1. acquired' \in DOMAIN Archives
  <2>1. DOMAIN Archives = 1 .. Len(Archives)
    BY CorpusAssumption
  <2> QED
    BY <2>1 DEF CorpusInv, Acquire
<1> QED
  BY <1>1 DEF CorpusInv, Acquire, SoundWrites, SoundWrite, Sound, OneRowPerId, Judged, Unreviewed

LEMMA ReviewKeeps ==
  ASSUME CorpusInv, Review
  PROVE  CorpusInv'
<1> DEFINE reviewed == Reviewed(Rows("template"))
<1>1. PICK choice \in PoolChoices :
        corpus' = [corpus EXCEPT !["adjudication"] = <<reviewed>>,
                                 !["pool"] = <<PoolOut(reviewed, choice)>>]
  BY DEF Review
<1>2. (\A r \in reviewed : Judged(r)) /\ OneRowPerId(reviewed)
  BY RowsAreSound, ReviewedIsSound DEF CorpusFiles, InputFiles, Unjudged
<1> DEFINE pool == PoolOut(reviewed, choice)
<1> HIDE DEF reviewed
<1>3. (\A r \in pool : Judged(r)) /\ OneRowPerId(pool)
  BY <1>2, PoolOutIsSound
<1> HIDE DEF pool
<1>4. DOMAIN corpus' = CorpusFiles
  BY <1>1 DEF CorpusInv
<1>5. \A f \in CorpusFiles : corpus'[f] = IF f = "pool" THEN <<pool>>
                                         ELSE IF f = "adjudication" THEN <<reviewed>> ELSE corpus[f]
  BY <1>1 DEF CorpusInv, pool
<1>6. ASSUME NEW f \in CorpusFiles PROVE Sound(f, corpus'[f])
  <2>1. Sound("pool", <<pool>>)
    BY <1>3 DEF Sound, Unjudged
  <2>2. Sound("adjudication", <<reviewed>>)
    BY <1>2 DEF Sound, Unjudged
  <2>3. Sound(f, corpus[f])
    BY DEF CorpusInv
  <2> QED
    BY <1>5, <2>1, <2>2, <2>3
<1> QED
  BY <1>4, <1>6 DEF CorpusInv, Review, SoundWrites, SoundWrite, Sound, OneRowPerId, Judged, Unreviewed

LEMMA NextCorpusKeeps ==
  ASSUME CorpusInv, [NextCorpus]_corpusVars
  PROVE  CorpusInv'
<1>1. CASE Normalize
  BY <1>1, NormalizeKeeps
<1>2. CASE Dedupe
  BY <1>2, DedupeKeeps
<1>3. CASE Labels
  BY <1>3, LabelsKeeps
<1>4. CASE Select
  BY <1>4, SelectKeeps
<1>5. CASE Freeze
  BY <1>5, FreezeKeeps
<1>6. CASE Write
  BY <1>6, CorpusWriteKeeps
<1>7. CASE Kill
  BY <1>7, KillKeeps
<1>8. CASE Acquire
  BY <1>8, AcquireKeeps
<1>9. CASE Review
  BY <1>9, ReviewKeeps
<1>10. CASE UNCHANGED corpusVars
  BY <1>10, CorpusUnchanged
<1> QED
  BY <1>1, <1>2, <1>3, <1>4, <1>5, <1>6, <1>7, <1>8, <1>9, <1>10 DEF NextCorpus

(* In every file of labels a row has an identifier of its own and the verdict  *)
(* of the bytes it names, whatever commands were rerun or killed               *)
(* (build_canonical_labels, select_gold, build_gold_record).                   *)
THEOREM CorpusInvariant == CorpusSpec => []CorpusInv
<1>1. InitCorpus => CorpusInv
  BY InitCorpusIsSound
<1>2. CorpusInv /\ [NextCorpus]_corpusVars => CorpusInv'
  BY NextCorpusKeeps
<1> QED
  BY <1>1, <1>2, PTL DEF CorpusSpec

(* Exit code 0 of verify-splits means three disjoint partitions, and no family *)
(* of the canonical labels in two samples of them (cmd_verify_splits).         *)
THEOREM SelectionHolds == CorpusSpec => []SelectionIsWhole
<1>1. CorpusInv => SelectionIsWhole
  BY SelectionWhole
<1> QED
  BY <1>1, CorpusInvariant, PTL

(* No combination of old and new files makes select or freeze publish the      *)
(* label of one email on the bytes of another (select_gold).                   *)
THEOREM LabelsHold == CorpusSpec => []LabelsFollowTheBytes
<1>1. CorpusInv => LabelsFollowTheBytes
  BY JudgedRowsTellTheVerdict
<1> QED
  BY <1>1, CorpusInvariant, PTL

-----------------------------------------------------------------------------
(***************************************************************************)
(* The evaluation: the inductive invariant.  The inputs of the corpus are  *)
(* those of one build, so that a gold_dev the team locked is a whole half. *)
(* The reports of a live run and the samples it has left are, together,    *)
(* the samples it selected, whatever gold_dev has become since.            *)
(***************************************************************************)
BuiltOf(container, choice) == \A f \in InputFiles : corpus[f] = BuiltFrom(container, choice)[f]

InputsAreBuilt ==
  /\ \E container \in Range(Archives), choice \in PoolChoices : BuiltOf(container, choice)
  /\ \A k \in DOMAIN todo : todo[k].file \notin InputFiles

LockIsWhole == lock # <<>> => IsWholeHalf(Samples(lock[1]))

Answered(record) == \E row \in record.reports : row.outcome = "answered"

LikeForLike(record) ==
  record.delta # <<>> =>
    /\ Samples(record.delta[1].base) = Samples(record.delta[1].rows)
    /\ record.profile = "full" => IsWholeHalf(Samples(record.delta[1].rows))

CutInTime(record) ==
  /\ record.exit = "outage" => ~Answered(record) /\ record.profile = "full"
  /\ record.profile = "full" /\ ~Answered(record) =>
       /\ Cardinality(record.reports) <= OutageLimit
       /\ Cardinality(record.reports) = OutageLimit => record.predictions = <<>>

RunIsSound(record) ==
  /\ DOMAIN record = DOMAIN Empty
  /\ IsFiniteSet(record.reports)
  /\ record.profile = "none" => record = Empty
  /\ LikeForLike(record)
  /\ CutInTime(record)

JobIsSound(j, record) ==
  /\ DOMAIN j = {"dir", "gold", "selected", "left", "failures", "answered", "base"}
  /\ j.dir \in Dirs /\ record.profile \in Profiles /\ record.exit = "none" /\ record.delta = <<>>
  /\ j.left \subseteq j.selected /\ (\A g \in j.selected : g.id \in Nat) /\ OneRowPerId(j.selected)
  /\ Samples(record.reports) \cup Samples(j.left) = Samples(j.selected)
  /\ \A row \in record.reports, g \in j.left : row.id # g.id
  /\ record.profile = "full" => IsWholeHalf(Samples(j.selected))
  /\ j.dir = "variant" => Samples(j.base) = Samples(j.selected)
  /\ j.left # {} => record.predictions = <<>>
  /\ j.answered = Answered(record)
  /\ record.profile = "full" /\ ~j.answered =>
       j.failures = Cardinality(record.reports) /\ j.failures < OutageLimit

EvaluationInv ==
  /\ CorpusInv /\ InputsAreBuilt /\ LockIsWhole
  /\ DOMAIN runs = Dirs
  /\ \A dir \in Dirs : RunIsSound(runs[dir])
  /\ job # <<>> => job = <<job[1]>> /\ JobIsSound(job[1], runs[job[1].dir])

-----------------------------------------------------------------------------
(***************************************************************************)
(* A locked gold_dev is a whole half.                                      *)
(***************************************************************************)
LEMMA BuiltRows ==
  ASSUME NEW container \in Containers
  PROVE  LET grouped == Grouped(Normalized(container))
         IN  /\ \A g \in grouped : g.id \in DOMAIN container /\ g.raw = container[g.id]
             /\ \A i \in DOMAIN container : \E g \in grouped : g.id = i /\ g.raw = container[i]
<1> DEFINE table == Normalized(container)
<1>1. \A r \in table : r.id \in DOMAIN container /\ r.raw = container[r.id]
  BY DEF Normalized
<1>2. ASSUME NEW i \in DOMAIN container
      PROVE  \E r \in table : r.id = i /\ r.raw = container[i]
  <2> DEFINE r == [id |-> i, raw |-> container[i], family |-> {}]
  <2>1. r \in table
    BY DEF Normalized
  <2>2. r.id = i /\ r.raw = container[i]
    OBVIOUS
  <2> HIDE DEF r
  <2> QED
    BY <2>1, <2>2
<1>3. (\A r \in table : Unreviewed(r)) /\ OneRowPerId(table)
  BY NormalizedIsSound
<1> HIDE DEF table
<1>4. /\ \A g \in Grouped(table) : \E r \in table : r.id = g.id /\ r.raw = g.raw
      /\ \A r \in table : \E g \in Grouped(table) : r.id = g.id /\ r.raw = g.raw
  BY <1>3, GroupedKeepsTheRows
<1>5. \A g \in Grouped(table) : g.id \in DOMAIN container /\ g.raw = container[g.id]
  BY <1>1, <1>4
<1>6. \A i \in DOMAIN container : \E g \in Grouped(table) : g.id = i /\ g.raw = container[i]
  <2> TAKE i \in DOMAIN container
  <2>1. PICK r \in table : r.id = i /\ r.raw = container[i]
    BY <1>2
  <2>2. PICK g \in Grouped(table) : r.id = g.id /\ r.raw = g.raw
    BY <1>4
  <2> QED
    BY <2>1, <2>2
<1> QED
  BY <1>5, <1>6 DEF table

LEMMA BuiltPool ==
  ASSUME NEW container \in Containers, NEW choice, BuiltOf(container, choice)
  PROVE  /\ \A p \in Rows("pool") :
              /\ p.id \in DOMAIN container /\ p.raw = container[p.id] /\ p.raw \in choice
              /\ p.label = Verdict[p.raw]
         /\ \A i \in DOMAIN container : container[i] \in choice =>
              \E p \in Rows("pool") : p.id = i /\ p.label = Verdict[container[i]]
<1> DEFINE grouped == Grouped(Normalized(container))
<1>1. Rows("pool") = PoolOut(Reviewed(grouped), choice)
  <2>1. BuiltFrom(container, choice)["pool"] = <<PoolOut(Reviewed(grouped), choice)>>
    BY DEF BuiltFrom, CorpusFiles, InputFiles
  <2>2. corpus["pool"] = <<PoolOut(Reviewed(grouped), choice)>>
    BY <2>1 DEF BuiltOf, InputFiles
  <2> HIDE DEF grouped
  <2> QED
    BY <2>2 DEF Rows, Missing
<1>2. /\ \A g \in grouped : g.id \in DOMAIN container /\ g.raw = container[g.id]
      /\ \A i \in DOMAIN container : \E g \in grouped : g.id = i /\ g.raw = container[i]
  BY BuiltRows
<1> HIDE DEF grouped
<1>3. \A p \in Rows("pool") : p.raw \in choice /\
        \E g \in grouped : p.id = g.id /\ p.raw = g.raw /\ p.label = Verdict[g.raw]
  BY <1>1 DEF PoolOut, Reviewed
<1>4. ASSUME NEW g \in grouped, g.raw \in choice
      PROVE  \E p \in Rows("pool") : p.id = g.id /\ p.raw = g.raw /\ p.label = Verdict[g.raw]
  <2> DEFINE p == [id |-> g.id, raw |-> g.raw, family |-> g.family, label |-> Verdict[g.raw]]
  <2>1. p \in Reviewed(grouped)
    BY DEF Reviewed
  <2>2. p.id = g.id /\ p.raw = g.raw /\ p.label = Verdict[g.raw]
    OBVIOUS
  <2> HIDE DEF p
  <2> QED
    BY <1>1, <1>4, <2>1, <2>2 DEF PoolOut
<1>5. \A p \in Rows("pool") :
        /\ p.id \in DOMAIN container /\ p.raw = container[p.id] /\ p.raw \in choice
        /\ p.label = Verdict[p.raw]
  BY <1>2, <1>3
<1>6. ASSUME NEW i \in DOMAIN container, container[i] \in choice
      PROVE  \E p \in Rows("pool") : p.id = i /\ p.label = Verdict[container[i]]
  <2>1. PICK g \in grouped : g.id = i /\ g.raw = container[i]
    BY <1>2
  <2> QED
    BY <1>4, <1>6, <2>1
<1> QED
  BY <1>5, <1>6

LEMMA DevIsAHalf ==
  ASSUME NEW container \in Containers, NEW choice, BuiltOf(container, choice)
  PROVE  DevSamples = Half(container, choice)
<1>1. ASSUME NEW label
      PROVE  PoolOf(label) = Chosen(container, choice, label)
  <2>1. PoolOf(label) \subseteq Chosen(container, choice, label)
    BY BuiltPool DEF PoolOf, Chosen
  <2>2. ASSUME NEW i \in Chosen(container, choice, label)
        PROVE  i \in PoolOf(label)
    <3>1. PICK p \in Rows("pool") : p.id = i /\ p.label = Verdict[container[i]]
      BY BuiltPool DEF Chosen
    <3> QED
      BY <3>1 DEF PoolOf, Chosen
  <2> QED
    BY <2>1, <2>2
<1> QED
  BY <1>1 DEF DevSamples, Half

LEMMA DevIsWhole ==
  ASSUME CorpusInv, InputsAreBuilt, PoolGuarded
  PROVE  IsWholeHalf(Samples(Records(DevSamples)))
<1>1. PICK container \in Range(Archives), choice \in PoolChoices : BuiltOf(container, choice)
  BY DEF InputsAreBuilt
<1>2. container \in Containers
  BY ArchivesAreContainers DEF Range
<1> DEFINE sample(i) == [id |-> i, raw |-> container[i], label |-> Verdict[container[i]]]
<1>3. ASSUME NEW i \in DevSamples
      PROVE  [id |-> Labelled(i).id, raw |-> Labelled(i).raw, label |-> Labelled(i).label] = sample(i)
  <2>1. i \in Ids(Rows("pool"))
    BY DevIsOfThePool
  <2>2. /\ Labelled(i).id = i
        /\ \E p \in Rows("pool") :
             p.id = i /\ Labelled(i).raw = p.raw /\ Labelled(i).label = p.label
    BY <2>1, CandidatesAreJudged
  <2>3. Labelled(i).raw = container[i] /\ Labelled(i).label = Verdict[container[i]]
    BY <1>1, <1>2, <2>2, BuiltPool
  <2> QED
    BY <2>2, <2>3
<1>4. Samples(Records(DevSamples)) = {sample(i) : i \in DevSamples}
  <2> DEFINE sampled(r) == [id |-> r.id, raw |-> r.raw, label |-> r.label]
  <2>1. Samples(Records(DevSamples)) = {sampled(Labelled(i)) : i \in DevSamples}
    <3> HIDE DEF sampled
    <3>1. Samples(Records(DevSamples)) = {sampled(r) : r \in Records(DevSamples)}
      BY DEF Samples, sampled
    <3> QED
      BY <3>1 DEF Records
  <2>2. \A i \in DevSamples : sampled(Labelled(i)) = sample(i)
    BY <1>3
  <2> HIDE DEF sampled, sample
  <2> QED
    BY <2>1, <2>2
<1>5. Samples(Records(DevSamples)) = HalfSamples(container, choice)
  BY <1>1, <1>2, <1>4, DevIsAHalf DEF HalfSamples
<1> QED
  BY <1>5 DEF IsWholeHalf

-----------------------------------------------------------------------------
(***************************************************************************)
(* The corpus under the runs.                                              *)
(***************************************************************************)
LEMMA ArchiveIsOne ==
  ASSUME CorpusInv
  PROVE  archive \in Range(Archives) /\ archive \in Containers
BY ArchivesAreContainers DEF CorpusInv, archive, Range

LEMMA RebuildKeeps ==
  ASSUME CorpusInv, InputsAreBuilt, Rebuild
  PROVE  CorpusInv' /\ InputsAreBuilt'
<1>1. PICK choice \in PoolChoices :
        corpus' = [f \in CorpusFiles |-> IF f \in InputFiles THEN BuiltInputs(choice)[f] ELSE corpus[f]]
  BY DEF Rebuild
<1>2. ASSUME NEW f \in CorpusFiles PROVE Sound(f, corpus'[f])
  <2>1. CASE f \in InputFiles
    <3>1. Sound(f, BuiltFrom(archive, choice)[f])
      BY ArchiveIsOne, BuiltIsSound
    <3> QED
      BY <1>1, <2>1, <3>1 DEF BuiltInputs
  <2>2. CASE f \notin InputFiles
    BY <1>1, <2>2 DEF CorpusInv
  <2> QED
    BY <2>1, <2>2
<1>3. DOMAIN corpus' = CorpusFiles
  BY <1>1
<1>4. CorpusInv'
  BY <1>2, <1>3 DEF CorpusInv, Rebuild, SoundWrites, SoundWrite, Sound, OneRowPerId, Judged, Unreviewed
<1>5. \A f \in InputFiles : corpus'[f] = BuiltFrom(archive, choice)[f]
  BY <1>1 DEF BuiltInputs, CorpusFiles
<1>6. BuiltOf(archive, choice)'
  BY <1>5 DEF BuiltOf, BuiltFrom, Rebuild, archive
<1>7. InputsAreBuilt'
  BY <1>6, ArchiveIsOne DEF InputsAreBuilt, Rebuild, archive
<1> QED
  BY <1>4, <1>7

\* Inputs that are left alone stay those of their build.
LEMMA InputsLeftAlone ==
  ASSUME InputsAreBuilt, \A f \in InputFiles : corpus'[f] = corpus[f],
         \A k \in DOMAIN todo' : todo'[k].file \notin InputFiles
  PROVE  InputsAreBuilt'
<1>1. PICK container \in Range(Archives), choice \in PoolChoices : BuiltOf(container, choice)
  BY DEF InputsAreBuilt
<1>2. \A f \in InputFiles : corpus'[f] = BuiltFrom(container, choice)[f]
  BY <1>1 DEF BuiltOf
<1> QED
  BY <1>2 DEF InputsAreBuilt, BuiltOf

LEMMA CorpusOfRunsKeeps ==
  ASSUME CorpusInv, InputsAreBuilt, NextCorpusOfRuns
  PROVE  CorpusInv' /\ InputsAreBuilt'
<1>1. CASE Acquire
  <2>1. CorpusInv'
    BY <1>1, AcquireKeeps
  <2>2. InputsAreBuilt'
    BY <1>1, InputsLeftAlone DEF Acquire, InputsAreBuilt
  <2> QED
    BY <2>1, <2>2
<1>2. CASE Rebuild
  BY <1>2, RebuildKeeps
<1>3. CASE Select
  <2>1. CorpusInv'
    BY <1>3, SelectKeeps
  <2> DEFINE a == Put("dev", Records(DevSamples))
             b == Put("rag", Records(RagSamples))
             c == Put("plan", Plan)
  <2>2. todo' = <<a, b, c>> /\ corpus' = corpus
    BY <1>3 DEF Select, Begin
  <2>3. a.file \notin InputFiles /\ b.file \notin InputFiles /\ c.file \notin InputFiles
    BY DEF Put, InputFiles
  <2> HIDE DEF a, b, c
  <2>4. \A k \in DOMAIN todo' : todo'[k].file \notin InputFiles
    BY <2>2, <2>3
  <2> QED
    BY <2>1, <2>2, <2>4, InputsLeftAlone
<1>4. CASE Write
  <2>1. CorpusInv'
    BY <1>4, CorpusWriteKeeps
  <2>2. todo \in Seq(Range(todo)) /\ todo # <<>>
    BY <1>4 DEF CorpusInv, SoundWrites, Write, Idle
  <2>3. /\ Head(todo) = todo[1] /\ 1 \in DOMAIN todo
        /\ \A k \in DOMAIN Tail(todo) : k + 1 \in DOMAIN todo /\ Tail(todo)[k] = todo[k + 1]
    <3> DEFINE S == Range(todo)
    <3>1. todo \in Seq(S)
      BY <2>2
    <3> HIDE DEF S
    <3>2. /\ Tail(todo) \in Seq(S) /\ Len(Tail(todo)) = Len(todo) - 1
          /\ \A k \in 1 .. Len(Tail(todo)) : Tail(todo)[k] = todo[k + 1]
      BY <2>2, <3>1, HeadTailProperties
    <3>3. Len(todo) \in Nat /\ Len(todo) # 0 /\ DOMAIN todo = 1 .. Len(todo)
      BY <2>2, <3>1, EmptySeq
    <3>4. DOMAIN Tail(todo) = 1 .. Len(Tail(todo))
      BY <3>2
    <3>5. Head(todo) = todo[1]
      BY <3>1
    <3> QED
      BY <3>2, <3>3, <3>4, <3>5
  <2>4. Head(todo).file \notin InputFiles /\ \A k \in DOMAIN Tail(todo) : Tail(todo)[k].file \notin InputFiles
    BY <2>3 DEF InputsAreBuilt
  <2>5. DOMAIN corpus = CorpusFiles /\ InputFiles \subseteq CorpusFiles
    BY DEF CorpusInv, CorpusFiles
  <2>6. \A f \in InputFiles : corpus'[f] = corpus[f]
    BY <1>4, <2>4, <2>5 DEF Write
  <2> QED
    BY <1>4, <2>1, <2>4, <2>6, InputsLeftAlone DEF Write
<1>5. CASE Kill
  <2>1. CorpusInv'
    BY <1>5, KillKeeps
  <2>2. todo \in Seq(Range(todo)) /\ todo # <<>> /\ todo' = <<>>
    BY <1>5 DEF CorpusInv, SoundWrites, Kill, Idle
  <2>3. Head(todo) = todo[1] /\ 1 \in DOMAIN todo
    BY <2>2
  <2>4. Head(todo).file \notin InputFiles
    BY <2>3 DEF InputsAreBuilt
  <2>5. DOMAIN corpus = CorpusFiles /\ InputFiles \subseteq CorpusFiles
    BY DEF CorpusInv, CorpusFiles
  <2>6. \A f \in InputFiles : corpus'[f] = corpus[f]
    BY <1>5, <2>4, <2>5 DEF Kill
  <2>7. \A k \in DOMAIN todo' : todo'[k].file \notin InputFiles
    BY <2>2
  <2> QED
    BY <2>1, <2>6, <2>7, InputsLeftAlone
<1> QED
  BY <1>1, <1>2, <1>3, <1>4, <1>5 DEF NextCorpusOfRuns

LEMMA CorpusLeftAlone ==
  ASSUME CorpusInv, InputsAreBuilt, UNCHANGED corpusVars
  PROVE  CorpusInv' /\ InputsAreBuilt'
<1>1. CorpusInv'
  BY CorpusUnchanged
<1>2. InputsAreBuilt'
  BY InputsLeftAlone DEF corpusVars, InputsAreBuilt
<1> QED
  BY <1>1, <1>2

-----------------------------------------------------------------------------
(***************************************************************************)
(* The runs keep their invariant, step by step.                            *)
(***************************************************************************)
LEMMA RunsLeftAlone ==
  ASSUME EvaluationInv, CorpusInv', InputsAreBuilt', UNCHANGED <<lock, job, runs>>
  PROVE  EvaluationInv'
BY DEF EvaluationInv, LockIsWhole

LEMMA LockKeeps ==
  ASSUME EvaluationInv, Lock
  PROVE  EvaluationInv'
<1>1. CorpusInv' /\ InputsAreBuilt'
  BY CorpusLeftAlone DEF EvaluationInv, Lock
<1>2. lock' = <<Records(DevSamples)>> /\ PoolGuarded
  BY DEF Lock, FileIs, Selectable
<1>3. IsWholeHalf(Samples(Records(DevSamples)))
  BY <1>2, DevIsWhole DEF EvaluationInv
<1>4. LockIsWhole'
  <2> DEFINE table == Records(DevSamples)
  <2> HIDE DEF table
  <2>1. lock'[1] = table
    BY <1>2 DEF table
  <2> QED
    BY <1>3, <2>1 DEF LockIsWhole, table
<1> QED
  BY <1>1, <1>4 DEF EvaluationInv, Lock

LEMMA GoldIsSound ==
  ASSUME CorpusInv
  PROVE  (\A g \in Gold : Judged(g)) /\ OneRowPerId(Gold)
BY RowsAreSound DEF Gold, CorpusFiles, OutputFiles, JudgedFiles

\* The same records are the same samples.
LEMMA SameRecordsSameSamples ==
  ASSUME NEW table, NEW selected, OneRowPerId(selected), SameRecords(table, selected)
  PROVE  Samples(table) = Samples(selected)
<1> DEFINE sample(r) == [id |-> r.id, raw |-> r.raw, label |-> r.label]
<1>1. ASSUME NEW row \in table
      PROVE  \E g \in selected : sample(row) = sample(g)
  BY DEF SameRecords
<1>2. ASSUME NEW g \in selected
      PROVE  \E row \in table : sample(row) = sample(g)
  <2>1. PICK row \in table : row.id = g.id
    BY DEF SameRecords, Ids
  <2>2. PICK h \in selected : h.id = row.id /\ h.label = row.label /\ h.raw = row.raw
    BY DEF SameRecords
  <2>3. h = g
    BY <2>1, <2>2 DEF OneRowPerId
  <2> QED
    BY <2>2, <2>3
<1>3. Samples(table) = {sample(r) : r \in table} /\ Samples(selected) = {sample(r) : r \in selected}
  BY DEF Samples
<1> HIDE DEF sample
<1> QED
  BY <1>1, <1>2, <1>3

LEMMA LiveKeeps ==
  ASSUME EvaluationInv, NEW dir \in Dirs, NEW profile \in Profiles, Live(dir, profile)
  PROVE  EvaluationInv'
<1> DEFINE j == [dir |-> dir, gold |-> Gold, selected |-> Selected(profile),
                 left |-> Selected(profile), failures |-> 0, answered |-> FALSE,
                 base |-> IF dir = "variant" THEN RowsOf("baseline") ELSE {}]
           record == [Empty EXCEPT !.profile = profile]
<1>1. CorpusInv' /\ InputsAreBuilt'
  BY CorpusLeftAlone DEF EvaluationInv, Live
<1>2. lock' = lock /\ job' = <<j>>
  BY DEF Live
<1>3. runs[dir] = Empty
  BY DEF EvaluationInv, RunIsSound, Live, Used
<1>4. DOMAIN runs' = Dirs /\ runs' = [runs EXCEPT ![dir].profile = profile]
  BY DEF Live, EvaluationInv
<1>5. /\ DOMAIN record = DOMAIN Empty
      /\ record.profile = profile /\ record.reports = {} /\ record.predictions = <<>>
      /\ record.metrics = <<>> /\ record.manifest = <<>> /\ record.delta = <<>> /\ record.exit = "none"
  <2>1. record = [f \in DOMAIN Empty |-> IF f = "profile" THEN profile ELSE Empty[f]]
    OBVIOUS
  <2>2. DOMAIN Empty = {"profile", "reports", "predictions", "metrics", "manifest", "delta", "exit"}
    BY DEF Empty
  <2>3. /\ Empty.reports = {} /\ Empty.predictions = <<>> /\ Empty.metrics = <<>>
        /\ Empty.manifest = <<>> /\ Empty.delta = <<>> /\ Empty.exit = "none"
    BY DEF Empty
  <2> HIDE DEF record
  <2> QED
    BY <2>1, <2>2, <2>3
<1>6. runs'[dir] = record /\ \A d \in Dirs : d # dir => runs'[d] = runs[d]
  <2>1. DOMAIN runs = Dirs
    BY DEF EvaluationInv
  <2> HIDE DEF record
  <2>2. runs'[dir] = [runs[dir] EXCEPT !.profile = profile]
    BY <1>4, <2>1
  <2> QED
    BY <1>3, <1>4, <2>1, <2>2 DEF record
<1>7. profile # "none" /\ profile \in Profiles
  BY DEF Profiles
<1>8. RunIsSound(record)
  <2>1. ~Answered(record)
    BY <1>5 DEF Answered
  <2>2. IsFiniteSet({}) /\ Cardinality({}) = 0
    BY FS_EmptySet
  <2>3. OutageLimit \in Nat /\ OutageLimit # 0
    BY EvaluationAssumption
  <2> HIDE DEF record
  <2>4. CutInTime(record)
    BY <1>5, <2>1, <2>2, <2>3 DEF CutInTime
  <2>5. LikeForLike(record)
    BY <1>5 DEF LikeForLike
  <2> QED
    BY <1>5, <1>7, <2>2, <2>4, <2>5 DEF RunIsSound
\* The selection: gold_dev or its first records, of the lock's half when it is all of it.
<1>9. Gold # {} /\ corpus["dev"] = lock
  BY DEF Live
<1>10. /\ Selected(profile) \subseteq Gold
       /\ profile = "full" => Selected(profile) = Gold
  BY DEF Selected, SmokeSample, Profiles
<1>11. OneRowPerId(Selected(profile)) /\ \A g \in Selected(profile) : g.id \in Nat
  BY <1>10, GoldIsSound DEF EvaluationInv, OneRowPerId, Judged
<1>12. IsWholeHalf(Samples(Gold))
  <2>1. lock # <<>> /\ Gold = lock[1]
    BY <1>9 DEF Gold, Rows, Missing
  <2> QED
    BY <2>1 DEF EvaluationInv, LockIsWhole
<1>13. dir = "variant" => Samples(RowsOf("baseline")) = Samples(Selected(profile))
  BY <1>11, SameRecordsSameSamples DEF Live, Paired
<1>14. JobIsSound(j, record)
  <2> DEFINE selected == Selected(profile)
             base == IF dir = "variant" THEN RowsOf("baseline") ELSE {}
  <2>1. j = [dir |-> dir, gold |-> Gold, selected |-> selected, left |-> selected,
             failures |-> 0, answered |-> FALSE, base |-> base]
    OBVIOUS
  <2>2. dir = "variant" => Samples(base) = Samples(selected)
    BY <1>13
  <2>3. Samples({}) = {}
    BY DEF Samples
  <2>4. ~Answered(record)
    BY <1>5 DEF Answered
  <2>5. Cardinality({}) = 0 /\ 0 < OutageLimit
    BY FS_EmptySet, EvaluationAssumption
  <2>6. profile = "full" => IsWholeHalf(Samples(selected))
    BY <1>10, <1>12
  <2>7. OneRowPerId(selected) /\ \A g \in selected : g.id \in Nat
    BY <1>11
  <2> HIDE DEF j, record, selected, base
  <2>8. /\ j.dir = dir /\ j.gold = Gold /\ j.selected = selected /\ j.left = selected
        /\ j.failures = 0 /\ j.answered = FALSE /\ j.base = base
    BY <2>1
  <2>9. /\ record.profile = profile /\ record.reports = {} /\ record.predictions = <<>>
        /\ record.delta = <<>> /\ record.exit = "none"
    BY <1>5
  <2>10. DOMAIN j = {"dir", "gold", "selected", "left", "failures", "answered", "base"}
    BY <2>1
  <2>11. Samples(record.reports) \cup Samples(j.left) = Samples(j.selected)
    BY <2>3, <2>8, <2>9
  <2>12. j.answered = Answered(record)
    BY <2>4, <2>8 DEF Answered
  <2> QED
    BY <1>7, <2>2, <2>5, <2>6, <2>7, <2>8, <2>9, <2>10, <2>11, <2>12 DEF JobIsSound
<1>15. job'[1] = j /\ j.dir = dir
  BY <1>2
<1> HIDE DEF j, record
<1>16. \A d \in Dirs : RunIsSound(runs'[d])
  BY <1>6, <1>8 DEF EvaluationInv
<1>17. job' = <<job'[1]>> /\ JobIsSound(job'[1], runs'[job'[1].dir])
  BY <1>2, <1>6, <1>14, <1>15
<1> QED
  BY <1>1, <1>2, <1>4, <1>16, <1>17 DEF EvaluationInv, LockIsWhole

LEMMA NextSampleIsLeft ==
  ASSUME NEW left, left # {}, \A g \in left : g.id \in Nat
  PROVE  NextSample(left) \in left
<1> DEFINE ids == {g.id : g \in left}
<1>1. ids \subseteq Nat /\ ids # {}
  OBVIOUS
<1>2. PICK n \in ids : \A m \in ids : n <= m
  BY <1>1, LeastNumber
<1>3. PICK g \in left : g.id = n
  OBVIOUS
<1>4. \A h \in left : g.id <= h.id
  BY <1>2, <1>3
<1> QED
  BY <1>4 DEF NextSample

\* One file of a run that the others do not name: every other run stays.
LEMMA OneRunMoves ==
  ASSUME EvaluationInv, UNCHANGED <<corpusVars, lock>>, NEW dir \in Dirs, NEW record,
         runs' = [runs EXCEPT ![dir] = record], RunIsSound(record),
         \/ job' = <<>>
         \/ \E j : job' = <<j>> /\ j.dir = dir /\ JobIsSound(j, record)
  PROVE  EvaluationInv'
<1>1. CorpusInv' /\ InputsAreBuilt'
  BY CorpusLeftAlone DEF EvaluationInv
<1>2. DOMAIN runs' = Dirs /\ runs'[dir] = record /\ \A d \in Dirs : d # dir => runs'[d] = runs[d]
  BY DEF EvaluationInv
<1>3. \A d \in Dirs : RunIsSound(runs'[d])
  BY <1>2 DEF EvaluationInv
<1>4. job' # <<>> => job' = <<job'[1]>> /\ JobIsSound(job'[1], runs'[job'[1].dir])
  BY <1>2
<1> QED
  BY <1>1, <1>2, <1>3, <1>4 DEF EvaluationInv, LockIsWhole

\* A run keeps the fields that a step does not write.
LEMMA ExitWritten ==
  ASSUME NEW record, DOMAIN record = DOMAIN Empty, NEW code
  PROVE  LET new == [record EXCEPT !.exit = code]
         IN  /\ DOMAIN new = DOMAIN Empty /\ new.exit = code
             /\ new.profile = record.profile /\ new.reports = record.reports
             /\ new.predictions = record.predictions /\ new.delta = record.delta
BY DEF Empty

LEMMA BreakKeeps ==
  ASSUME EvaluationInv, Break
  PROVE  EvaluationInv'
<1> DEFINE dir == job[1].dir
           record == runs[dir]
           new == [record EXCEPT !.exit = "broken"]
<1>1. dir \in Dirs /\ RunIsSound(record) /\ JobIsSound(job[1], record)
  BY DEF EvaluationInv, Break, JobIsSound
<1>2. runs' = [runs EXCEPT ![dir] = new] /\ job' = <<>> /\ UNCHANGED <<corpusVars, lock>>
  BY DEF Break, Finish
<1>3. DOMAIN record = DOMAIN Empty
  BY <1>1 DEF RunIsSound
<1> HIDE DEF record
<1>4. /\ DOMAIN new = DOMAIN Empty /\ new.exit = "broken" /\ new.profile = record.profile
      /\ new.reports = record.reports /\ new.predictions = record.predictions /\ new.delta = record.delta
  BY <1>3, ExitWritten
<1>5. record.profile # "none"
  BY <1>1 DEF JobIsSound, Profiles
<1> HIDE DEF new
<1>6. RunIsSound(new)
  BY <1>1, <1>4, <1>5 DEF RunIsSound, LikeForLike, CutInTime, Answered
<1> HIDE DEF dir
<1> QED
  BY <1>1, <1>2, <1>6, OneRunMoves

\* The samples of a set of rows with one row more.
LEMMA SamplesOfOneMore ==
  ASSUME NEW table, NEW row
  PROVE  Samples(table \cup {row}) =
           Samples(table) \cup {[id |-> row.id, raw |-> row.raw, label |-> row.label]}
<1> DEFINE sample(r) == [id |-> r.id, raw |-> r.raw, label |-> r.label]
<1>1. \A S : Samples(S) = {sample(r) : r \in S}
  BY DEF Samples
<1> HIDE DEF sample
<1>2. Samples(table \cup {row}) = Samples(table) \cup {sample(row)}
  BY <1>1
<1> QED
  BY <1>2 DEF sample

LEMMA SampleKeeps ==
  ASSUME EvaluationInv, NEW outcome \in Outcomes, Sample(outcome)
  PROVE  EvaluationInv'
<1> DEFINE j == job[1]
           dir == j.dir
           record == runs[dir]
           g == NextSample(j.left)
           row == [id |-> g.id, raw |-> g.raw, label |-> g.label, outcome |-> outcome]
           failures == InfraGuard(outcome, j.failures)
           answered == j.answered \/ outcome # "failed"
           outage == SystematicOutage(record.profile, failures, answered)
           new == [record EXCEPT !.reports = @ \cup {row}, !.exit = IF outage THEN "outage" ELSE @]
           k == [j EXCEPT !.left = @ \ {g}, !.failures = failures, !.answered = answered]
<1>1. dir \in Dirs /\ RunIsSound(record) /\ JobIsSound(j, record) /\ j.left # {}
  BY DEF EvaluationInv, Sample, JobIsSound
<1>2. /\ runs' = [runs EXCEPT ![dir] = new]
      /\ job' = IF outage THEN <<>> ELSE <<k>>
      /\ UNCHANGED <<corpusVars, lock>>
  BY DEF Sample
<1>3. g \in j.left
  BY <1>1, NextSampleIsLeft DEF JobIsSound
<1>4. row.id = g.id /\ row.outcome = outcome /\
        [id |-> row.id, raw |-> row.raw, label |-> row.label] = [id |-> g.id, raw |-> g.raw, label |-> g.label]
  OBVIOUS
<1>5. /\ answered \in BOOLEAN /\ (answered <=> (j.answered \/ outcome # "failed"))
      /\ outage <=> (record.profile = "full" /\ failures >= OutageLimit /\ ~answered)
      /\ outcome = "failed" => failures = j.failures + 1
  BY DEF SystematicOutage, InfraGuard
<1> HIDE DEF j, record, g, row, failures, answered, outage
<1>6. /\ DOMAIN new = DOMAIN Empty /\ new.profile = record.profile
      /\ new.reports = record.reports \cup {row} /\ new.predictions = record.predictions
      /\ new.delta = record.delta /\ new.exit = IF outage THEN "outage" ELSE record.exit
  <2>1. DOMAIN record = DOMAIN Empty
    BY <1>1 DEF RunIsSound
  <2> QED
    BY <2>1 DEF Empty
<1>7. /\ DOMAIN k = DOMAIN j /\ k.dir = dir /\ k.selected = j.selected /\ k.base = j.base
      /\ k.left = j.left \ {g} /\ k.failures = failures /\ k.answered = answered
  <2>1. DOMAIN j = {"dir", "gold", "selected", "left", "failures", "answered", "base"}
    BY <1>1 DEF JobIsSound
  <2> QED
    BY <2>1
<1> HIDE DEF new, k, dir
<1>8. IsFiniteSet(new.reports) /\ Cardinality(new.reports) = Cardinality(record.reports) + 1
      /\ Cardinality(record.reports) \in Nat
  <2>1. row \notin record.reports
    BY <1>1, <1>3, <1>4 DEF JobIsSound
  <2> QED
    BY <1>1, <1>6, <2>1, FS_AddElement, FS_CardinalityType DEF RunIsSound
<1>9. Answered(new) = answered
  <2>1. Answered(new) <=> (Answered(record) \/ outcome = "answered")
    BY <1>4, <1>6 DEF Answered
  <2>2. j.answered = Answered(record)
    BY <1>1 DEF JobIsSound
  <2>3. outcome # "failed" <=> outcome = "answered"
    BY DEF Outcomes
  <2> QED
    BY <1>5, <2>1, <2>2, <2>3 DEF Answered
\* Without an answer every sample so far was a failure in a row.
<1>10. ASSUME record.profile = "full", ~answered
       PROVE  failures = Cardinality(new.reports) /\ failures <= OutageLimit
  <2>1. ~j.answered /\ outcome = "failed"
    BY <1>5, <1>10
  <2>2. j.failures = Cardinality(record.reports) /\ j.failures < OutageLimit
    BY <1>1, <1>10, <2>1 DEF JobIsSound
  <2>3. failures = j.failures + 1 /\ OutageLimit \in Nat
    BY <1>5, <2>1, EvaluationAssumption
  <2> QED
    BY <1>8, <2>2, <2>3
<1>11. record.profile \in Profiles /\ record.profile # "none" /\ record.exit = "none" /\ record.delta = <<>>
       /\ record.predictions = <<>>
  BY <1>1 DEF JobIsSound, Profiles
<1>12. RunIsSound(new)
  <2>1. LikeForLike(new)
    BY <1>6, <1>11 DEF LikeForLike
  <2>2. CutInTime(new)
    <3>1. new.exit = "outage" => ~Answered(new) /\ new.profile = "full"
      BY <1>5, <1>6, <1>9, <1>11
    <3>2. new.profile = "full" /\ ~Answered(new) => Cardinality(new.reports) <= OutageLimit
      BY <1>6, <1>9, <1>10
    <3> QED
      BY <1>6, <1>11, <3>1, <3>2 DEF CutInTime
  <2> QED
    BY <1>6, <1>8, <1>11, <2>1, <2>2 DEF RunIsSound
<1>13. ASSUME ~outage PROVE JobIsSound(k, new)
  <2>1. Samples(new.reports) \cup Samples(k.left) = Samples(k.selected)
    <3> DEFINE s == [id |-> g.id, raw |-> g.raw, label |-> g.label]
    <3>1. Samples(new.reports) = Samples(record.reports) \cup {s}
      BY <1>4, <1>6, SamplesOfOneMore
    <3>2. j.left = (j.left \ {g}) \cup {g}
      BY <1>3
    <3>3. Samples(j.left) = Samples(j.left \ {g}) \cup {s}
      BY <3>2, SamplesOfOneMore
    <3>4. Samples(record.reports) \cup Samples(j.left) = Samples(j.selected)
      BY <1>1 DEF JobIsSound
    <3> HIDE DEF s
    <3> QED
      BY <1>7, <3>1, <3>3, <3>4
  <2>2. \A r \in new.reports, h \in k.left : r.id # h.id
    <3>1. \A h \in k.left : h.id # g.id
      BY <1>1, <1>3, <1>7 DEF JobIsSound, OneRowPerId
    <3> QED
      BY <1>1, <1>4, <1>6, <1>7, <3>1 DEF JobIsSound
  <2>3. new.profile = "full" /\ ~k.answered =>
          k.failures = Cardinality(new.reports) /\ k.failures < OutageLimit
    <3>1. ASSUME new.profile = "full", ~answered
          PROVE  failures = Cardinality(new.reports) /\ failures < OutageLimit
      <4>1. failures = Cardinality(new.reports) /\ failures <= OutageLimit
        BY <1>6, <1>10, <3>1
      <4>2. ~(failures >= OutageLimit)
        BY <1>5, <1>6, <1>13, <3>1
      <4> QED
        BY <1>8, <4>1, <4>2, EvaluationAssumption
    <3> QED
      BY <1>7, <3>1
  <2>4. DOMAIN k = {"dir", "gold", "selected", "left", "failures", "answered", "base"}
    BY <1>1, <1>7 DEF JobIsSound
  <2>5. k.left \subseteq k.selected
    BY <1>1, <1>7 DEF JobIsSound
  <2> QED
    BY <1>1, <1>6, <1>7, <1>9, <1>11, <1>13, <2>1, <2>2, <2>3, <2>4, <2>5 DEF JobIsSound, dir
<1> QED
  BY <1>1, <1>2, <1>7, <1>12, <1>13, OneRunMoves

LEMMA PublishKeeps ==
  ASSUME EvaluationInv, Publish
  PROVE  EvaluationInv'
<1> DEFINE j == job[1]
           dir == j.dir
           record == runs[dir]
<1>1. /\ dir \in Dirs /\ RunIsSound(record) /\ JobIsSound(j, record)
      /\ job = <<j>> /\ j.left = {} /\ UNCHANGED <<corpusVars, lock>>
  BY DEF EvaluationInv, Publish, JobIsSound
<1>2. DOMAIN record = DOMAIN Empty /\ record.profile # "none" /\ record.delta = <<>> /\ record.exit = "none"
  BY <1>1 DEF RunIsSound, JobIsSound, Profiles
\* A file that no property of the run or of the job speaks of.
<1>3. ASSUME NEW new, job' = job, runs' = [runs EXCEPT ![dir] = new],
             DOMAIN new = DOMAIN Empty, new.profile = record.profile, new.reports = record.reports,
             new.delta = record.delta, new.exit = record.exit,
             new.predictions = record.predictions \/ record.predictions = <<>>
      PROVE  EvaluationInv'
  <2> HIDE DEF j, dir, record
  <2>1. Answered(new) = Answered(record)
    BY <1>3 DEF Answered
  <2>2. JobIsSound(j, new)
    BY <1>1, <1>3, <2>1 DEF JobIsSound
  <2>3. CutInTime(new)
    <3>1. ASSUME new.profile = "full", ~Answered(new)
          PROVE  Cardinality(new.reports) < OutageLimit
      BY <1>1, <1>3, <2>1, <3>1 DEF JobIsSound
    <3>2. IsFiniteSet(new.reports)
      BY <1>1, <1>3 DEF RunIsSound
    <3>3. Cardinality(new.reports) \in Nat /\ OutageLimit \in Nat
      BY <3>2, FS_CardinalityType, EvaluationAssumption
    <3> QED
      BY <1>2, <1>3, <3>1, <3>3 DEF CutInTime
  <2>4. RunIsSound(new)
    BY <1>1, <1>2, <1>3, <2>3 DEF RunIsSound, LikeForLike
  <2>5. job' = <<j>> /\ j.dir = dir
    BY <1>1, <1>3 DEF dir
  <2> QED
    BY <1>1, <1>3, <2>2, <2>4, <2>5, OneRunMoves
<1>4. ASSUME NEW content, record.predictions = <<>>, job' = job,
             runs' = [runs EXCEPT ![dir].predictions = content]
      PROVE  EvaluationInv'
  <2> DEFINE new == [record EXCEPT !.predictions = content]
  <2>1. runs' = [runs EXCEPT ![dir] = new]
    BY <1>4
  <2> HIDE DEF record
  <2>2. /\ DOMAIN new = DOMAIN Empty /\ new.profile = record.profile /\ new.reports = record.reports
        /\ new.delta = record.delta /\ new.exit = record.exit
    BY <1>2 DEF Empty
  <2> HIDE DEF new, dir
  <2> QED
    BY <1>3, <1>4, <2>1, <2>2
<1>5. ASSUME NEW content, job' = job, runs' = [runs EXCEPT ![dir].metrics = content]
      PROVE  EvaluationInv'
  <2> DEFINE new == [record EXCEPT !.metrics = content]
  <2>1. runs' = [runs EXCEPT ![dir] = new]
    BY <1>5
  <2> HIDE DEF record
  <2>2. /\ DOMAIN new = DOMAIN Empty /\ new.profile = record.profile /\ new.reports = record.reports
        /\ new.delta = record.delta /\ new.exit = record.exit /\ new.predictions = record.predictions
    BY <1>2 DEF Empty
  <2> HIDE DEF new, dir
  <2> QED
    BY <1>3, <1>5, <2>1, <2>2
<1>6. ASSUME NEW content, job' = job, runs' = [runs EXCEPT ![dir].manifest = content]
      PROVE  EvaluationInv'
  <2> DEFINE new == [record EXCEPT !.manifest = content]
  <2>1. runs' = [runs EXCEPT ![dir] = new]
    BY <1>6
  <2> HIDE DEF record
  <2>2. /\ DOMAIN new = DOMAIN Empty /\ new.profile = record.profile /\ new.reports = record.reports
        /\ new.delta = record.delta /\ new.exit = record.exit /\ new.predictions = record.predictions
    BY <1>2 DEF Empty
  <2> HIDE DEF new, dir
  <2> QED
    BY <1>3, <1>6, <2>1, <2>2
<1>7. ASSUME job' = <<>>, runs' = [runs EXCEPT ![dir].exit = "complete",
                                             ![dir].delta = IF dir = "variant"
                                                THEN <<[base |-> j.base, rows |-> record.reports]>> ELSE <<>>]
      PROVE  EvaluationInv'
  <2> DEFINE compared == [base |-> j.base, rows |-> record.reports]
             delta == IF dir = "variant" THEN <<compared>> ELSE <<>>
             new == [record EXCEPT !.exit = "complete", !.delta = delta]
  <2>1. runs' = [runs EXCEPT ![dir] = new]
    BY <1>1, <1>7 DEF EvaluationInv
  <2>2. compared.base = j.base /\ compared.rows = record.reports
    OBVIOUS
  <2> HIDE DEF record, compared, j, dir
  <2>3. delta # <<>> => dir = "variant" /\ delta[1] = compared
    OBVIOUS
  <2> HIDE DEF delta
  <2>4. /\ DOMAIN new = DOMAIN Empty /\ new.profile = record.profile /\ new.reports = record.reports
        /\ new.delta = delta /\ new.exit = "complete" /\ new.predictions = record.predictions
    BY <1>2 DEF Empty
  <2> HIDE DEF new
  <2>5. Samples(record.reports) = Samples(j.selected)
    <3>1. Samples({}) = {}
      BY DEF Samples
    <3> QED
      BY <1>1, <3>1 DEF JobIsSound
  <2>6. LikeForLike(new)
    <3>1. ASSUME new.delta # <<>>
          PROVE  /\ Samples(new.delta[1].base) = Samples(new.delta[1].rows)
                 /\ new.profile = "full" => IsWholeHalf(Samples(new.delta[1].rows))
      <4>1. new.delta[1].base = j.base /\ new.delta[1].rows = record.reports /\ dir = "variant"
        BY <2>2, <2>3, <2>4, <3>1
      <4>2. Samples(j.base) = Samples(j.selected)
        BY <1>1, <4>1 DEF JobIsSound, dir
      <4> QED
        BY <1>1, <2>4, <2>5, <4>1, <4>2 DEF JobIsSound
    <3> QED
      BY <3>1 DEF LikeForLike
  <2>7. RunIsSound(new)
    BY <1>1, <1>2, <2>4, <2>6 DEF RunIsSound, CutInTime, Answered
  <2> QED
    BY <1>1, <1>7, <2>1, <2>7, OneRunMoves
<1> QED
  BY <1>4, <1>5, <1>6, <1>7 DEF Publish

LEMMA InitEvaluationIsSound ==
  ASSUME InitEvaluation
  PROVE  EvaluationInv
<1>1. CorpusInv
  BY InitCorpusIsSound DEF InitEvaluation
<1>2. InputsAreBuilt
  <2>1. PICK choice \in PoolChoices : corpus = BuiltInputs(choice)
    BY DEF InitEvaluation, InitCorpus
  <2>2. BuiltOf(archive, choice)
    BY <2>1 DEF BuiltOf, BuiltInputs
  <2>3. todo = <<>>
    BY DEF InitEvaluation, InitCorpus
  <2> QED
    BY <1>1, <2>2, <2>3, ArchiveIsOne DEF InputsAreBuilt
<1>3. LockIsWhole
  BY DEF InitEvaluation, LockIsWhole
<1>4. DOMAIN runs = Dirs /\ \A dir \in Dirs : runs[dir] = Empty
  BY DEF InitEvaluation
<1>5. RunIsSound(Empty)
  <2>1. Empty.profile = "none" /\ Empty.exit = "none" /\ Empty.delta = <<>> /\ Empty.reports = {}
    BY DEF Empty
  <2>2. IsFiniteSet({})
    BY FS_EmptySet
  <2> QED
    BY <2>1, <2>2 DEF RunIsSound, LikeForLike, CutInTime
<1>6. job = <<>>
  BY DEF InitEvaluation
<1> QED
  BY <1>1, <1>2, <1>3, <1>4, <1>5, <1>6 DEF EvaluationInv

LEMMA NextEvaluationKeeps ==
  ASSUME EvaluationInv, [NextEvaluation]_evaluationVars
  PROVE  EvaluationInv'
<1>1. CASE NextCorpusOfRuns /\ UNCHANGED <<lock, job, runs>>
  BY <1>1, CorpusOfRunsKeeps, RunsLeftAlone DEF EvaluationInv
<1>2. CASE Lock
  BY <1>2, LockKeeps
<1>3. CASE \E dir \in Dirs, profile \in Profiles : Live(dir, profile)
  BY <1>3, LiveKeeps
<1>4. CASE \E outcome \in Outcomes : Sample(outcome)
  BY <1>4, SampleKeeps
<1>5. CASE Break
  BY <1>5, BreakKeeps
<1>6. CASE Publish
  BY <1>6, PublishKeeps
<1>7. CASE UNCHANGED evaluationVars
  BY <1>7, CorpusLeftAlone, RunsLeftAlone DEF EvaluationInv, evaluationVars
<1> QED
  BY <1>1, <1>2, <1>3, <1>4, <1>5, <1>6, <1>7 DEF NextEvaluation

(* The live runs, through kills, outages and a corpus rebuilt under them: the  *)
(* reports of a run and the samples it has left are the samples it selected    *)
(* (run_live, verify_experiment_lock).                                         *)
THEOREM EvaluationInvariant == EvaluationSpec => []EvaluationInv
<1>1. InitEvaluation => EvaluationInv
  BY InitEvaluationIsSound
<1>2. EvaluationInv /\ [NextEvaluation]_evaluationVars => EvaluationInv'
  BY NextEvaluationKeeps
<1> QED
  BY <1>1, <1>2, PTL DEF EvaluationSpec

\* What a recomputation accepts has the bytes that were analysed.
LEMMA RecomputedByTheVerdict ==
  ASSUME CorpusInv, NEW dir \in Dirs, Recomputes(dir), NEW row \in RowsOf(dir), NEW g \in Gold,
         g.id = row.id
  PROVE  g.label = Verdict[row.raw]
<1>1. PICK h \in GoldOf(dir) : h.id = row.id /\ h.raw = row.raw
  BY DEF Recomputes, Aligned
<1>2. h \in Gold
  BY DEF GoldOf
<1>3. h = g /\ Judged(g)
  BY <1>1, <1>2, GoldIsSound DEF OneRowPerId
<1> QED
  BY <1>1, <1>3 DEF Judged

(* A published comparison is of the same emails, and of a whole dev half when  *)
(* the run is full; a recomputation judges by the verdict on the bytes that    *)
(* were analysed (verify_paired_selection, run_recompute).                     *)
THEOREM ComparisonsHold == EvaluationSpec => []ComparisonsAreLikeForLike
<1>1. EvaluationInv => ComparisonsAreLikeForLike
  <2> SUFFICES ASSUME EvaluationInv, NEW dir \in Dirs
               PROVE  /\ LikeForLike(runs[dir])
                      /\ Recomputes(dir) => \A row \in RowsOf(dir), g \in Gold :
                           g.id = row.id => g.label = Verdict[row.raw]
    BY DEF ComparisonsAreLikeForLike, LikeForLike
  <2>1. LikeForLike(runs[dir])
    BY DEF EvaluationInv, RunIsSound
  <2> QED
    BY <2>1, RecomputedByTheVerdict DEF EvaluationInv
<1> QED
  BY <1>1, EvaluationInvariant, PTL

(* A full run against a dead endpoint stops at the limit and publishes         *)
(* nothing, and nothing else stops a run (_abort_on_systematic_outage).        *)
THEOREM OutagesAreCut == EvaluationSpec => []DeadEndpointIsCut
<1>1. EvaluationInv => DeadEndpointIsCut
  BY DEF EvaluationInv, RunIsSound, CutInTime, Answered, DeadEndpointIsCut
<1> QED
  BY <1>1, EvaluationInvariant, PTL
=============================================================================
