----------------------------- MODULE Evaluation -----------------------------
(* The evaluation harness over the reference corpus: scripts/evaluate.py.  A    *)
(* live run measures gold_dev sample by sample and archives its rows, its       *)
(* metrics and its manifest; a variant run is paired with the archived baseline *)
(* run; recompute derives the metrics of an archived run again.  A live run     *)
(* lasts for hours: the commands of Corpus may rewrite gold_dev under it, it    *)
(* may be killed, and it is read again later against whatever gold_dev has      *)
(* become.                                                                      *)
(*                                                                              *)
(* A run directory that was ever used is refused to a second run.  The reports  *)
(* of a run are archived as the samples are analysed; the other files come      *)
(* after the last sample, each replaced whole.  A row keeps the identifier, the *)
(* bytes and the label of its sample and its outcome: "answered", or "failed"    *)
(* when no INTERNAL call succeeded.                                             *)
EXTENDS Corpus

CONSTANTS
    OutageLimit   \* CONSECUTIVE_INFRA_FAILURE_LIMIT

ASSUME EvaluationAssumption == OutageLimit \in Nat \ {0}

VARIABLES
    lock,  \* the gold_dev the experiment lock names
    job,   \* the live run in progress: <<>> or <<record>>
    runs   \* [Dirs -> run directory]

evaluationVars == <<corpusVars, lock, job, runs>>

Dirs == {"baseline", "variant"}
Profiles == {"smoke", "full"}
Outcomes == {"answered", "failed"}

Empty == [profile |-> "none", reports |-> {}, predictions |-> <<>>, metrics |-> <<>>,
          manifest |-> <<>>, delta |-> <<>>, exit |-> "none"]
Used(dir) == runs[dir].profile # "none"
Gold == Rows("dev")

-----------------------------------------------------------------------------
(* Metrics.                                                                     *)

\* Faulty variant: the bytes are not compared.
AlignedById(gold, rows) == Ids(gold) = Ids(rows)

(* The report of a row describes the bytes it analysed: a gold record that now   *)
(* has other bytes stops the computation.                                       *)
Aligned(gold, rows) ==
    /\ Cardinality(gold) = Cardinality(rows)
    /\ \A row \in rows : \E g \in gold : g.id = row.id /\ g.raw = row.raw

(* The confusion matrix, an abstention counted with its label.                   *)
LabelOf(gold, row) == (CHOOSE g \in gold : g.id = row.id).label
Confusion(gold, rows) ==
    [label \in Range(Taxonomy), outcome \in Outcomes |->
       Cardinality({row \in rows : LabelOf(gold, row) = label /\ row.outcome = outcome})]

(* The first record of every label of gold_dev.                                  *)
SmokeSample ==
    {g \in Gold : \A h \in Gold : h.label = g.label => g.id <= h.id}
Selected(profile) == IF profile = "smoke" THEN SmokeSample ELSE Gold

-----------------------------------------------------------------------------
(* A live run.                                                                   *)

(* load_paired_baseline: an archived run of the same scope whose rows are those  *)
(* its manifest selected.                                                       *)
Archived(dir) == runs[dir].predictions # <<>> /\ runs[dir].manifest # <<>>
RowsOf(dir) == runs[dir].predictions[1]

PairedBaselineLoads(profile) ==
    /\ Archived("baseline")
    /\ runs["baseline"].manifest[1].profile = profile
    /\ runs["baseline"].manifest[1].selected = Ids(RowsOf("baseline"))

\* Faulty variant: the label and the bytes are not compared.
SameIds(rows, selected) == Ids(rows) = Ids(selected)

(* verify_paired_selection: the same samples, with the same label and bytes.     *)
SameRecords(rows, selected) ==
    /\ Ids(rows) = Ids(selected)
    /\ \A row \in rows : \E g \in selected : g.id = row.id /\ g.label = row.label /\ g.raw = row.raw

Paired(profile) == /\ PairedBaselineLoads(profile)
                   /\ SameRecords(RowsOf("baseline"), Selected(profile))

(* Everything that is refused is refused before the first call: the lock must     *)
(* name the gold_dev on the disk, whose bytes are all read here.                  *)
Live(dir, profile) ==
    /\ job = <<>>
    /\ ~Used(dir)
    /\ corpus["dev"] = lock /\ Gold # {}
    /\ dir = "variant" => Paired(profile)
    /\ \A g \in Gold : Resolves(g)
    /\ job' = <<[dir |-> dir, gold |-> Gold, selected |-> Selected(profile),
                 left |-> Selected(profile),
                 failures |-> 0, answered |-> FALSE,
                 base |-> IF dir = "variant" THEN RowsOf("baseline") ELSE {}]>>
    /\ runs' = [runs EXCEPT ![dir].profile = profile]
    /\ UNCHANGED <<corpusVars, lock>>

Finish(exit) == /\ runs' = [runs EXCEPT ![job[1].dir].exit = exit]
                /\ job' = <<>>

(* A dead endpoint stops a full run at its first samples; a smoke run keeps       *)
(* every failure as a row.                                                      *)
InfraGuard(outcome, failures) == IF outcome = "failed" THEN failures + 1 ELSE 0

\* Faulty variant: an earlier success does not count.
AfterAnyFailures(profile, failures, answered) == profile = "full" /\ failures >= OutageLimit
SystematicOutage(profile, failures, answered) ==
    profile = "full" /\ failures >= OutageLimit /\ ~answered

(* The samples are analysed in the order of gold_dev.                            *)
NextSample(left) == CHOOSE g \in left : \A h \in left : g.id <= h.id

Sample(outcome) ==
    /\ job # <<>> /\ job[1].left # {}
    /\ LET g == NextSample(job[1].left)
           dir == job[1].dir
           row == [id |-> g.id, raw |-> g.raw, label |-> g.label, outcome |-> outcome]
           failures == InfraGuard(outcome, job[1].failures)
           answered == job[1].answered \/ outcome # "failed"
           outage == SystematicOutage(runs[dir].profile, failures, answered)
       IN  /\ runs' = [runs EXCEPT ![dir].reports = @ \cup {row},
                                   ![dir].exit = IF outage THEN "outage" ELSE @]
           /\ job' = IF outage THEN <<>>
                     ELSE <<[job[1] EXCEPT !.left = @ \ {g}, !.failures = failures,
                                           !.answered = answered]>>
    /\ UNCHANGED <<corpusVars, lock>>

(* A pipeline that raises ends the run without a row, as does a kill.             *)
Break ==
    /\ job # <<>>
    /\ Finish("broken")
    /\ UNCHANGED <<corpusVars, lock>>

(* The files of a finished run, in the order they are replaced.  The manifest     *)
(* carries the digest of gold_dev as it is when the manifest is built.            *)
Publish ==
    /\ job # <<>> /\ job[1].left = {}
    /\ LET dir == job[1].dir
           rows == runs[dir].reports
       IN  \/ /\ runs[dir].predictions = <<>>
              /\ runs' = [runs EXCEPT ![dir].predictions = <<rows>>]
              /\ UNCHANGED job
           \/ /\ runs[dir].predictions # <<>> /\ runs[dir].metrics = <<>>
              /\ runs' = [runs EXCEPT ![dir].metrics = <<Confusion(job[1].gold, rows)>>]
              /\ UNCHANGED job
           \/ /\ runs[dir].metrics # <<>> /\ runs[dir].manifest = <<>>
              /\ runs' = [runs EXCEPT ![dir].manifest =
                            <<[profile |-> runs[dir].profile, selected |-> Ids(job[1].selected)]>>]
              /\ UNCHANGED job
           \/ /\ runs[dir].manifest # <<>>
              /\ runs' = [runs EXCEPT ![dir].exit = "complete",
                                      ![dir].delta = IF dir = "variant"
                                                       THEN <<[base |-> job[1].base, rows |-> rows]>>
                                                       ELSE <<>>]
              /\ job' = <<>>
    /\ UNCHANGED <<corpusVars, lock>>

-----------------------------------------------------------------------------
(* Recompute an archived run against the gold_dev of the day.                     *)

Covers(dir) ==
    IF runs[dir].manifest[1].profile = "smoke"
      THEN runs[dir].manifest[1].selected = Ids(SmokeSample)
             /\ Ids(RowsOf(dir)) = Ids(SmokeSample)
      ELSE /\ Ids(RowsOf(dir)) \subseteq Ids(Gold)
           /\ Cardinality(RowsOf(dir)) = Cardinality(Gold)

GoldOf(dir) == {g \in Gold : g.id \in Ids(RowsOf(dir))}
EqualsTheLiveMetrics(dir, metrics) ==
    runs[dir].metrics # <<>> => metrics = runs[dir].metrics[1]

Recomputes(dir) ==
    /\ Archived(dir)
    /\ Gold # {}
    /\ Covers(dir)
    /\ Aligned(GoldOf(dir), RowsOf(dir))
    /\ EqualsTheLiveMetrics(dir, Confusion(GoldOf(dir), RowsOf(dir)))

-----------------------------------------------------------------------------
(* The corpus under the runs: the container is acquired again, the inputs are     *)
(* built anew (normalize to labels in one step: no evaluation reads them), and    *)
(* select rewrites gold_dev, or dies while it does.                               *)
Rebuild ==
    /\ MayEdit
    /\ \E choice \in PoolChoices :
         LET built == BuiltInputs(choice)
         IN  corpus' = [f \in CorpusFiles |-> IF f \in InputFiles THEN built[f] ELSE corpus[f]]
    /\ UNCHANGED <<acquired, todo>>

NextCorpusOfRuns == Acquire \/ Rebuild \/ Select \/ Write \/ Kill

(* The team locks a gold_dev that the labels of the day reproduce.               *)
Lock ==
    /\ Idle
    /\ Selectable
    /\ FileIs("dev", Records(DevSamples))
    /\ lock' = corpus["dev"]
    /\ UNCHANGED <<corpusVars, job, runs>>

InitEvaluation ==
    /\ InitCorpus
    /\ lock = <<>>
    /\ job = <<>>
    /\ runs = [dir \in Dirs |-> Empty]

NextEvaluation ==
    \/ NextCorpusOfRuns /\ UNCHANGED <<lock, job, runs>>
    \/ Lock
    \/ \E dir \in Dirs, profile \in Profiles : Live(dir, profile)
    \/ \E outcome \in Outcomes : Sample(outcome)
    \/ Break
    \/ Publish

EvaluationSpec == InitEvaluation /\ [][NextEvaluation]_evaluationVars

-----------------------------------------------------------------------------
(* Properties.                                                                   *)

Samples(rows) == {[id |-> r.id, raw |-> r.raw, label |-> r.label] : r \in rows}

(* A dev half of a pool: half of the messages of every label that the operator   *)
(* chose from a container, each with the bytes and the verdict it has there.     *)
Chosen(container, choice, label) ==
    {i \in DOMAIN container : container[i] \in choice /\ Verdict[container[i]] = label}
Half(container, choice) ==
    UNION {LET ids == Chosen(container, choice, label) IN Least(Cardinality(ids) \div 2, ids) :
             label \in Range(Taxonomy)}
HalfSamples(container, choice) ==
    {[id |-> i, raw |-> container[i], label |-> Verdict[container[i]]] : i \in Half(container, choice)}
IsWholeHalf(samples) ==
    \E container \in Range(Archives), choice \in PoolChoices : samples = HalfSamples(container, choice)

(* A published comparison is of the same emails: the rows of the baseline and   *)
(* of the variant name the same samples, with the same bytes and the same       *)
(* label, and a full run is of a whole dev half of a pool.   A recomputation     *)
(* that is accepted judges every archived answer by the label the review gave   *)
(* to the bytes that were analysed.  What was measured stays what it was while  *)
(* the container, the labels and gold_dev are rebuilt under the runs, so that   *)
(* the same identifiers carry other bytes (verify_paired_selection,             *)
(* verify_experiment_lock, run_recompute, align_rows_reports).                  *)
ComparisonsAreLikeForLike ==
    \A dir \in Dirs :
        /\ runs[dir].delta # <<>> =>
             /\ Samples(runs[dir].delta[1].base) = Samples(runs[dir].delta[1].rows)
             /\ runs[dir].profile = "full" => IsWholeHalf(Samples(runs[dir].delta[1].rows))
        /\ Recomputes(dir) =>
             \A row \in RowsOf(dir), g \in Gold : g.id = row.id => g.label = Verdict[row.raw]

(* A full run that never had one successful INTERNAL call stops at the limit    *)
(* and publishes nothing; a run that had one, and every smoke run, is never     *)
(* stopped by the answers of the provider (_abort_on_systematic_outage).        *)
DeadEndpointIsCut ==
    \A dir \in Dirs :
        LET answered == \E row \in runs[dir].reports : row.outcome = "answered"
        IN  /\ runs[dir].exit = "outage" => ~answered /\ runs[dir].profile = "full"
            /\ runs[dir].profile = "full" /\ ~answered =>
                 /\ Cardinality(runs[dir].reports) <= OutageLimit
                 /\ Cardinality(runs[dir].reports) = OutageLimit => runs[dir].predictions = <<>>
=============================================================================
