------------------------------- MODULE Batch -------------------------------
(***************************************************************************)
(* The sequential batch (run_batch.py), the artifacts it leaves in its     *)
(* output directory and the validator that accepts or refuses them         *)
(* (scripts/validate_reports.py --run-dir).                                *)
(*                                                                         *)
(* One input is read three times: its digest before the run, the email by  *)
(* the parser, its digest again for the manifest.  Somebody else may edit  *)
(* or delete it in between, and the process may be killed anywhere; the    *)
(* next batch may use the same output directory.                           *)
(***************************************************************************)
EXTENDS Naturals, Sequences, FiniteSets, SequencesExt

CONSTANTS
    Inputs,        \* the .eml files, in the order of their relative paths
    Null,          \* None, an absent file
    MaxEdits,      \* bound of the model: edits of one input
    MaxBatches     \* bound of the model: batches in the output directory

ASSUME BatchAssumption ==
    /\ Inputs \in Seq(Range(Inputs)) /\ IsInjective(Inputs) /\ Inputs # <<>>
    /\ MaxEdits \in Nat /\ MaxBatches \in Nat
    /\ Null \notin Nat /\ Null \notin {"killed", "input"}

VARIABLES
    disk,          \* the content of each input: a version, or Null once deleted
    pc,            \* where run_batch stands
    batch,         \* batch_id
    inputs,        \* collect_inputs
    sha,           \* input_sha256 of the current row
    rows,          \* the rows, in memory until the end
    reports,       \* reports/: run_id -> the version the report analysed; the
                   \* identifiers are numbered as they come to be archived
    results, metrics, manifest,     \* the three files written at the end
    exit,          \* exit code | None
    stopped_by     \* history: what ended run_batch before its end

vars == <<disk, pc, batch, inputs, sha, rows, reports, results, metrics,
          manifest, exit, stopped_by>>

files == <<results, metrics, manifest>>

Files    == Range(Inputs)
Versions == 0..MaxEdits \cup {Null}
RunIds   == Nat

Row == [input: Files, sha: Versions, status: {"ok", "error"}, run: RunIds \cup {Null}]

TypeOK ==
    /\ disk \in [Files -> Versions]
    /\ pc \in {"idle", "hash", "run", "results", "metrics", "manifest", "exit"}
    /\ batch \in 0..MaxBatches
    /\ inputs \in Seq(Files)
    /\ sha \in Versions
    /\ rows \in Seq(Row)
    /\ reports \in Seq(Versions)
    /\ results = Null \/ results.rows \in Seq(Row)
    /\ manifest = Null \/ Range(manifest.sha) \subseteq Versions
    /\ exit \in {Null, 0, 1, 2}
    /\ stopped_by \in {Null, "killed", "input"}

Init ==
    /\ disk = [f \in Files |-> 0]
    /\ pc = "idle" /\ batch = 0 /\ inputs = <<>> /\ sha = Null
    /\ rows = <<>> /\ reports = <<>>
    /\ results = Null /\ metrics = Null /\ manifest = Null
    /\ exit = Null /\ stopped_by = Null

-----------------------------------------------------------------------------
\* collect_inputs: the files that are there, in the order of their paths.
Collected ==
    {s \in BoundedSeq(Files, Len(Inputs)) :
        /\ Range(s) = {f \in Files : disk[f] # Null}
        /\ \E at \in [DOMAIN s -> DOMAIN Inputs] :
              /\ \A i \in DOMAIN s : s[i] = Inputs[at[i]]
              /\ \A i, j \in DOMAIN s : i < j => at[i] < at[j]}

\* A batch without an input is refused (exit 2).
Start ==
    /\ pc \in {"idle", "exit"} /\ batch < MaxBatches
    /\ batch' = batch + 1
    /\ inputs' \in Collected
    /\ rows' = <<>> /\ sha' = Null /\ stopped_by' = Null
    /\ IF inputs' = <<>>
       THEN pc' = "exit" /\ exit' = 2
       ELSE pc' = "hash" /\ exit' = Null
    /\ UNCHANGED <<disk, reports, files>>

\* The input of the row that comes next.
Current == inputs[Len(rows) + 1]

\* An exception that nothing catches: the rows in memory are lost.
Raise ==
    /\ pc' = "exit" /\ exit' = 1
    /\ rows' = <<>> /\ sha' = Null

\* Faulty variant: an input that is gone is waited for.
HashInputWaits ==
    /\ pc = "hash"
    /\ disk[Current] # Null
    /\ sha' = disk[Current] /\ pc' = "run"
    /\ UNCHANGED <<disk, batch, inputs, rows, reports, files, exit, stopped_by>>

\* _sha256_file, evaluated before the try of the loop.
HashInput ==
    /\ pc = "hash"
    /\ IF disk[Current] # Null
       THEN /\ sha' = disk[Current] /\ pc' = "run"
            /\ UNCHANGED <<rows, exit, stopped_by>>
       ELSE Raise /\ stopped_by' = "input"
    /\ UNCHANGED <<disk, batch, inputs, reports, files>>

AddRow(status, id) ==
    /\ rows' = Append(rows, [input |-> Current, sha |-> sha, status |-> status, run |-> id])
    /\ pc' = IF Len(rows') = Len(inputs) THEN "results" ELSE "hash"
    /\ sha' = Null

\* run_id is a uuid4: nothing but chance keeps it from one that was used before.
Drawn == 1..(Len(reports) + 1)

Stored(id) ==
    reports' = [r \in DOMAIN reports \cup {id} |-> IF r = id THEN disk[Current] ELSE reports[r]]

\* Faulty variant: what is in the directory of the run is not looked at.
ArchiveOver(id) == Stored(id)

\* write_report, which refuses a directory that holds a report already.
Archive(id) == id \notin DOMAIN reports /\ Stored(id)

\* An input that is gone by now is a parse failure, which is data of the report.
RunEmail ==
    /\ pc = "run"
    /\ \E id \in Drawn : Archive(id) /\ AddRow("ok", id)
    /\ UNCHANGED <<disk, batch, inputs, files, exit, stopped_by>>

\* Faulty variant: the row refers to a report that was never completed.
RunEmailFailsAsOk ==
    /\ pc = "run"
    /\ AddRow("ok", Len(reports) + 1)
    /\ UNCHANGED <<disk, batch, inputs, reports, files, exit, stopped_by>>

\* Any exception of run_email, the refusal of write_report included: an
\* explicit error row, and the next email.  report.json may be in place
\* nevertheless (a later artifact failed).
RunEmailFails ==
    /\ pc = "run"
    /\ UNCHANGED reports \/ \E id \in Drawn : Archive(id)
    /\ AddRow("error", Null)
    /\ UNCHANGED <<disk, batch, inputs, files, exit, stopped_by>>

WriteResults ==
    /\ pc = "results" /\ pc' = "metrics"
    /\ results' = [batch |-> batch, rows |-> rows]
    /\ UNCHANGED <<disk, batch, inputs, sha, rows, reports, metrics, manifest,
                   exit, stopped_by>>

CountOf(status, s) == Cardinality({i \in DOMAIN s : s[i].status = status})

WriteMetrics ==
    /\ pc = "metrics" /\ pc' = "manifest"
    /\ metrics' = [batch |-> batch, reports_archived |-> CountOf("ok", rows),
                   errors |-> CountOf("error", rows)]
    /\ UNCHANGED <<disk, batch, inputs, sha, rows, reports, results, manifest,
                   exit, stopped_by>>

\* Every input is read again; one that is gone ends the program here, with
\* the two first files already replaced.
WriteManifest ==
    /\ pc = "manifest"
    /\ IF \A f \in Range(inputs) : disk[f] # Null
       THEN /\ manifest' = [batch |-> batch, sha |-> [f \in Range(inputs) |-> disk[f]]]
            /\ exit' = (IF CountOf("error", rows) = 0 THEN 0 ELSE 1)
            /\ pc' = "exit"
            /\ UNCHANGED <<rows, sha, stopped_by>>
       ELSE Raise /\ stopped_by' = "input" /\ UNCHANGED manifest
    /\ UNCHANGED <<disk, batch, inputs, reports, results, metrics>>

\* The process is killed; the report of the run under way may be in place, and
\* the file being written is not replaced atomically: results.jsonl may be cut
\* after any of its lines, and the two others, cut anywhere, are no JSON.
Killed ==
    /\ pc \notin {"idle", "exit"}
    /\ pc' = "exit" /\ exit' = Null /\ stopped_by' = "killed"
    /\ rows' = <<>> /\ sha' = Null
    /\ \/ UNCHANGED files
       \/ /\ pc = "results"
          /\ \E n \in 0..(Len(rows) - 1) :
                results' = [batch |-> batch, rows |-> SubSeq(rows, 1, n)]
          /\ UNCHANGED <<metrics, manifest>>
       \/ pc = "metrics" /\ metrics' = Null /\ UNCHANGED <<results, manifest>>
       \/ pc = "manifest" /\ manifest' = Null /\ UNCHANGED <<results, metrics>>
    /\ UNCHANGED reports \/ (pc = "run" /\ \E id \in Drawn : Archive(id))
    /\ UNCHANGED <<disk, batch, inputs>>

BatchStep ==
    \/ HashInput \/ RunEmail \/ RunEmailFails
    \/ WriteResults \/ WriteMetrics \/ WriteManifest

\* Somebody else's edits: a new content each time, or the end of the file.
Edit ==
    /\ \E f \in Files :
          /\ disk[f] # Null
          /\ \/ disk[f] < MaxEdits /\ disk' = [disk EXCEPT ![f] = @ + 1]
             \/ disk' = [disk EXCEPT ![f] = Null]
    /\ UNCHANGED <<pc, batch, inputs, sha, rows, reports, files, exit, stopped_by>>

Next == Start \/ BatchStep \/ Killed \/ Edit

Spec == Init /\ [][Next]_vars

\* A batch that was started goes on by itself.
FairSpec == Spec /\ WF_vars(BatchStep)

-----------------------------------------------------------------------------
(***************************************************************************)
(* Properties.                                                             *)
(***************************************************************************)

\* Exit code 0 is all an operator's script looks at: every collected input
\* then has its row, in order, and its own archived report, and the three
\* files are of this batch.
ExitZeroMeansArchived ==
    exit = 0 =>
        /\ results.batch = batch /\ metrics.batch = batch /\ manifest.batch = batch
        /\ results.rows = rows
        /\ Len(rows) = Len(inputs)
        /\ \A i \in DOMAIN rows :
              /\ rows[i].input = inputs[i]
              /\ rows[i].status = "ok" /\ rows[i].run \in DOMAIN reports
        /\ \A i, j \in DOMAIN rows : rows[i].run = rows[j].run => i = j

\* Faulty variant: the digests of the rows are not compared.
RowAcceptedByPath(r) ==
    r.status = "ok" => r.run \in DOMAIN reports /\ r.input \in DOMAIN manifest.sha

\* _validate_result_row on one row of results.jsonl.
RowAccepted(r) ==
    r.status = "ok" =>
        /\ r.run \in DOMAIN reports
        /\ r.input \in DOMAIN manifest.sha
        /\ r.sha = manifest.sha[r.input]

\* validate_run_dir.
Accepts ==
    /\ results # Null /\ metrics # Null /\ manifest # Null
    /\ results.rows # <<>>
    /\ \A i \in DOMAIN results.rows : RowAccepted(results.rows[i])
    /\ \A i, j \in DOMAIN results.rows :
          results.rows[i].run = results.rows[j].run /\ results.rows[i].run # Null => i = j
    /\ metrics.reports_archived = CountOf("ok", results.rows)
    /\ metrics.errors = CountOf("error", results.rows)

EachReportIsOfItsRow ==
    \A i \in DOMAIN results.rows :
        LET r == results.rows[i]
        IN r.status = "ok" => reports[r.run] = r.sha

\* Neither the row nor the manifest holds the digest that the parser saw: the
\* validator infers from their equality that the report is about the content
\* the row names.  It is right whenever run_batch came to its last line,
\* whatever the batches before it left in the directory.
ReturnedIsAnalysed ==
    exit \in {0, 1} /\ stopped_by = Null /\ Accepts => EachReportIsOfItsRow

\* scripts/validate_reports.py, docstring: "manifest SHA-256 agreement catch a
\* report paired with the wrong input row", of any batch directory.
AcceptedIsAnalysed == Accepts => EachReportIsOfItsRow

\* A report that was archived stays what it was: also a later batch in the
\* same directory, one that is killed or that draws an identifier again, adds
\* to reports/ only.
ReportsAreKept ==
    [][\A r \in DOMAIN reports : r \in DOMAIN reports' /\ reports'[r] = reports[r]]_vars

\* A batch that was started ends.
BatchEnds == (pc = "hash") ~> (pc = "exit")

\* run_batch.py, docstring: "A failing email never stops the batch: its
\* explicit error line is written to results.jsonl and the next email runs".
FailingEmailNeverStopsTheBatch == stopped_by # "input"
=============================================================================
