# Specifications of eml_scanner

TLA+ modules of the e-mail triage program in this repository, the TLC
configurations that check them, and theorems checked by TLAPS. Paths of the
program are given from the root of the repository (`src/graph.py`,
`run_batch.py`, ...).

    tlc -config MCTriage.cfg MCTriage        # one run of the table below
    tlapm TriageProofs.tla                   # one proof module

## 1. The system

An e-mail (`.eml`) is parsed, assessed by a language model, enriched by
third-party lookups when a deterministic gate finds it complex, assessed again,
verified, and given one of three recommendations: `AUTO`, `REVIEW`, `ESCALATE`.

| part | state it keeps | operations | meets |
|---|---|---|---|
| pipeline graph (`src/graph.py`, `src/state.py`) | `EmailTriageState`: parse, assessments, gate, results, evidence, errors, action | twelve nodes, each returns a patch that replaces the fields it names | every part below, through data |
| gate (`src/gate.py`) | none | `decide_gate`: R1 to R7 | reads the parse and INTERNAL |
| policy (`src/policy.py`) | none | `decide_policy`: a frozen order of rules | reads the accepted assessment, the issues, the errors |
| verifier (`src/verify.py`), evidence (`src/evidence.py`) | the evidence registry | `verify_assessment`, `merge_evidence` | what the models cite, what the tools returned |
| agentic runner (`src/agent/`) | messages, budgets, executed pairs, results | a turn, a tool call, a finalization | the model by native tool calls, the providers |
| batch (`run_batch.py`), validator (`scripts/validate_reports.py`) | rows in memory, three result files, `reports/` | hash, run, write results, metrics, manifest; accept or refuse | the file system, other editors of the inputs |
| VirusTotal limiter (`src/tools/virustotal.py`) | a window of stamps, a count of the day, a journal | `allow`, `record`, load | the next process, midnight UTC, a reboot |
| urlscan adapter (`src/tools/urlscan.py`) | the budget of a run, a journal, a worker thread | submit, wait, poll, DOM, screenshot | a provider that answers late or never |
| RAG index (`src/tools/rag.py`, `scripts/manage_rag.py`) | a Chroma collection, an open handle, a receipt | open, add, search, clear | other processes, replaced ONNX weights |
| LLM client (`src/llm.py`) | the record of a call, numbered capture files | `complete_json`: attempts under one deadline | the endpoint, the other calls of the e-mail in one directory, the audits of the evaluation |
| VirusTotal, OpenCTI, OSINT lookups (`src/tools/`) | the budget of one lookup | `lookup`: gates, one or several requests, the status and the evidence of the answers | their providers; the graph and the executor that open a context |
| parser (`src/parsing.py`) | `_WalkState`: parts, depth, decoded bytes, attachments, limits hit, defects | `_walk` and its leaves, the registries | the limits of the configuration |
| vision (`src/vision.py`), prompts (`src/prompts.py`, `src/agent/prompt.py`) | none | the images supplied, the envelope under character budgets | the parsed e-mail, the model |
| corpus builder (`scripts/build_corpus.py`) | the files under `corpus/` | normalize, dedupe, labels, select, freeze, verify-splits | an external review, containers acquired again |
| evaluation (`scripts/evaluate.py`, `src/metrics.py`) | run directories, the experiment lock | live, recompute | the corpus, the endpoint |
| configuration, smoke scripts, gate controller (`src/config.py`, `scripts/`, `run.py`, `ops/`) | none that outlives a call | command lines and closed schemas | |

What is hard here, and where:

- **failure is data.** A failed parser, model, index or merge does not stop a
  run: it must reach the policy many nodes later, through patches that replace
  whole lists. The properties of `Triage` are about that path.
- **an untrusted driver.** In the agentic runtime the model chooses the steps:
  repeated calls, calls without identifier, several finalizations in a turn.
- **crashes and restarts.** The journals, the batch files and the index outlive
  a process that may be killed between any two of its writes.
- **time.** The limiter compares monotonic stamps of several processes with a
  UTC day; urlscan bounds every exchange by what is left of two deadlines.
- **no locks.** Two processes may add to, search and clear one index.
- **limits.** The parser, the images, the envelope and the lookups each cut what
  exceeds a budget; what is cut in one place must be announced, and must leave no
  reference behind in another.
- **names that outlive what they name.** A sample identifier is an ordinal in a
  container, a capture file a phase and a number: both are used again for other
  contents.
- **ambiguity.** A POST that timed out may have reached urlscan.

`PROJECT.json` lists each of these hazards at its line, with the properties
that cover it or the reason why none does.

## 2. The modules

    Assessments ── Verifier ──┐
    Assessments ── Gate ──────┼── Triage ──── MCTriage       TriageProofs
    Assessments ── Policy ────┤      └ implements TriageContract
                              └── AgentLoop ─ MCAgentLoop    AgentLoopProofs
                                     └ implements TriageContract
    Batch ──────── MCBatch                                   ScriptsProofs
    VTLimiter                                                VTLimiterProofs
    UrlscanScan ── MCUrlscanScan                             UrlscanScanProofs
    RagIndex ───── MCRagIndex                                RagIndexProofs
    LlmClient ──── MCLlmClient                               MessageProofs
    Lookups ────── MCLookups                                 LookupsProofs
    Parsing ── Vision ──┐
    Parsing ── Prompts ─┴ MailContext ── MCMailContext       MessageProofs
    Corpus ─────── MCCorpus                                  ScriptsProofs
       └ Evaluation ── MCEvaluation                          ScriptsProofs

**Assessments, Verifier, Gate, Policy** are the pure parts. An assessment keeps
its verdict, its two highest probabilities in percent, the material gaps, the
typed inferences and what it cites. `Gate!decide_gate` and
`Policy!decide_policy` are the two decision functions in the order of the code.

**Triage** is one run of `run_email`. Its variables are the fields of
`EmailTriageState`; `node` is the next node. Each node is one action for each
way in which it can end (`ParseEmail` and `ParseFails`, ...), and writes the
whole error list as the code does. `key` is whether a model is configured.
`faults` is a history variable: which phases failed, whatever the error list
says. The module states and refines **TriageContract**: one recommendation per
run, never `AUTO` after a fault, never revised, and an archived report or an
explicit failure in the end.

**AgentLoop** is `run_agentic_email`: a turn (`ModelAnswers`) brings any
sequence of at most `MaxCallsPerTurn` calls, which `Finalize`,
`FinalizeRejected`, `Execute` and `ExecuteRefused` handle one by one;
`EndTurn` appends the protocol errors; `Merge`, `DecidePolicy` and
`WriteArtifacts` follow the loop. `exchange` is the part of the message list
since the last request. It implements the same contract as the pipeline, with
its own set of faults.

**Batch** is `run_batch` with the files it leaves and `validate_run_dir` as the
operator `Accepts`, which like the code compares no batch identifier. An input is
read three times (digest, run, manifest) while `Edit` changes or deletes it;
`Killed` may cut the file that is being written. The identifier of a run is drawn
(`Drawn`) and may have been used before; `Archive` is the refusal of
`write_report` to write where a report already is.

**VTLimiter** is `_RateLimiter` across processes: `StartProcess` loads the
journal, `Send` / `Refuse` / `Record` are a lookup, `Killed`, `Reboot` and
`Tick` are the machine. Real time, the UTC day and the monotonic clock are
derived from one counter, so that midnight and a reboot fall anywhere. The code
appends to a list of stamps and uses its filter and its length only; `window` is
the same stamps by the number of the answer each was recorded for, and its length
the number of them.

**UrlscanScan** is `UrlscanAdapter.scan` with `_run_bounded`: the worker of a
timed-out POST (`late`) may still deliver its submission. Runs follow each other
in one `RUNS_DIR`; a run may have no target at all (an e-mail without a URL, or
`max_urls` zero). `ArchiveFails` is an answer whose capture cannot be written,
that of the submission before anything records it: the exception ends a run of the
graph, and for the agent (`agentic`) becomes an unavailable result that claims no
request (`Raised`). `Stopped` is the death of the process.

**RagIndex** has one adapter for each process. Each call it makes of the store is
an action of its own: `List`, `Open` and `Create` open it; the three reads of an
add for a case are `IdentifierFree` or `Skip`, `FamilyFree` and `RoomLeft`, each of
which may end in `AddRefused`, before the `Upsert`; `Count`, `Query`, `Delete` and
`Describe` are the rest. `Fingerprint` reads the digest of the weights and `Embed`
loads them, with the first text. `uid` distinguishes the collections that were
created one after the other under one name; a handle to an older one is refused
by the store (`HandleLost`). `Upgrade` replaces the weights. Three history
variables name the windows of the code: `crossed`, the adds under whose checks
another upsert fell; `overlap`, whether one of them then upserted; `swapped`,
whether weights were replaced between their fingerprint and their loading.

**LlmClient** is the three calls of one e-mail, INTERNAL, FINAL and the control
B of the evaluation, each an attempt loop of `complete_json` (`Begin`, `Post`,
`Answer`, `GiveUp`) under the deadline of its phase; `disk` holds the capture
files by directory and by the name the code gives them, so that a later call may
write over an earlier one. `wire` is a history variable: what each request was
answered. `ControlAuditsValid` reads the files back as the evaluation does.

**Lookups** is one e-mail with up to `MaxContexts` tool contexts, opened by the
graph or by the executor of the agent, and the lookups in them: `Lookup` passes
the gates in their order, `Ask` sends a request, `Heard` / `Reply` bring its
answer, perhaps late, `AsksAgain` is the second hop of RDAP or the next DNS type,
`SkipSource` and `OutOfTime` end a source without one, `Give` is the result.
`result` keeps, beside what the code returns, what was really sent and heard.

**Parsing**, **Vision** and **Prompts** are operators over one mail; **MailContext**
is the process that runs them: it chooses a MIME tree part by part while `_walk`
reads it (a tree is a preorder list of parts, some of which open or close a
container), then parses, prepares the images or leaves them, ranks the VirusTotal
targets and sends the envelope. `unread` says whether the walk abandoned parts. A
leaf in broken base64 has the size of what `get_payload` makes of it and the number
of bytes it `lost`. The images are taken from a second reading of the file, which
may hold anything by then, or be gone (`FileGone`): `found` is what it holds in the
place of each image, and `SameBytes` the comparison of the hashes.

**Corpus** is the commands of `build_corpus.py` over the files they leave. A
command computes its writes from the files it read (`Begin`) and `Write` makes
them one by one; `Kill` ends it between two writes or inside one (`Torn`).
`Acquire` replaces the container, `Review` delivers an adjudication and a pool for
the template of the day. `Verified` is exit code 0 of `verify-splits`, which
writes nothing any other command reads.

**Evaluation** extends Corpus: a live run reads `gold_dev` at its start (`Live`),
answers one sample a step, may `Break`, and publishes its files one by one, while
the corpus is built anew under it. The commands before select, which no
evaluation reads, are one step here (`Rebuild`). `Recomputes` is exit code 0 of
the recomputation of an archived run.

Modules named `MC*` give the constants their values (numbers suffice for
`VTLimiter`, whose configurations name the module itself). `MCCorpus` also states
the sentence of `docs/corpus.md` that its second configuration refutes.
`ScriptsProofs` holds the proofs about the command lines (batch, corpus,
evaluation), `MessageProofs` those about the message to the model and the calls
that send it.
An operator described as a faulty variant is a plausible error in the
definition that follows it; no specification uses one. They document which
error each property notices.

## 3. What is checked

| run | configuration | distinct states | shows |
|---|---|---|---|
| `triage` | `MCTriage.cfg` | 567,610 | who may end in `AUTO`, who must end in `ESCALATE`, what a fallback and the simple path may do, and the refinement of the contract with its liveness |
| `agent` | `MCAgentLoop.cfg` | 354,870 | budgets, duplicates, the tool protocol, a single finalization, the escalation of confirmations, and the refinement |
| `batch` | `MCBatch.cfg` | 162,005 | exit 0 means archived; in the files of a batch that came to its end the validator accepts no report about other bytes; reports are kept; a batch ends |
| `vt` | `MCVTLimiter.cfg` | 5,646,012 | no more than the budget in any minute or on a UTC day, and no refusal without a reason |
| `urlscan` | `MCUrlscanScan.cfg` | 59,337 | one submission, which only a capture that failed can deny or forget; both deadlines kept; an ok result is of our scan; a scan returns |
| `rag` | `MCRagIndex.cfg` | 838,259 | distinct neighbours, always; and with nothing in the windows the history variables name, one embedding space, one case per family, no case replaced and no add refused for its own cases |
| `llm` | `MCLlmClient.cfg` | 668,098 | the record of a call tells what went over the wire; the comparison of the arms B and C is declared valid exactly when both requests carried what it claims |
| `lookups` | `MCLookups.cfg` | 1,749,784 | every timeout fits in the four budgets around it; no request is hidden and none passes a gate; evidence is of the observable asked about |
| `mail` | `MCMailContext.cfg` | 918,445 | what was decoded of a mail is shown, or announced as cut, and what the decoding dropped is noted except of texts and images; what is kept is within the limits; the envelope cites only what it holds, and the pixels are of the bytes that were parsed; files have their lookup before URLs |
| `corpus` | `MCCorpus.cfg` | 741,325 | verify-splits accepts only three disjoint partitions of one selection; a label is never published on other bytes |
| `evaluation` | `MCEvaluation.cfg` | 412,598 | a published comparison or an accepted recomputation is of the same e-mails; a dead endpoint is cut and a slow one is not |
| `corpus_families` | `MCCorpusFamilies.cfg` | violated | a sentence of `docs/corpus.md` the code does not keep (section 6) |

**Bounds, and why they are enough.**

- `MCTriage`: three e-mails (nothing to investigate, a link, a parsing limit),
  three INTERNAL answers (clear, doubtful, malicious) and thirteen FINAL answers
  on both sides of every threshold, with every outcome of every phase. The nodes
  run once each, so nothing is cut in time: the sets are the only bound.
- `MCAgentLoop`: two turns of at most two calls out of twelve and two lookups.
  A duplicate, an exhausted budget, a late call after a finalization and a call
  without identifier each need at most two calls, in one turn or in two.
- `MCBatch`: two inputs, one edit each, two batches: an input may change or
  vanish between any two reads, and a second batch meets the files of a first.
- `MCVTLimiter`: seven ticks with minutes of three and days of four; both
  budgets can be reached in one process and across processes, across midnight
  and a reboot. `MaxSends` leaves room for one request more than each budget.
- `MCUrlscanScan`: two runs of five ticks, each of the graph or of the agent; the
  phase budget holds the first wait and two polls, the e-mail deadline falls at
  every tick, and the capture of any answer may fail.
- `MCRagIndex`: two processes, three commands, one change of the weights, room
  for two cases. The sources hold an identical replay, a changed case, a second
  case of a family, a source that holds a family twice, a protected family, and a
  source of three families, which alone exceeds the limit.
  `MaxCases` and `K` are both 2, so that the limit is met with sources of two.
- `MCLlmClient`: two attempts, the default and the most the settings allow; a
  budget of one tick that an attempt may use, overrun or leave, so that a call
  runs out of attempts first or of time first; nine kinds of answer; every
  combination of external evidence and of what the budgets left of it.
- `MCLookups`: two contexts of up to two lookups, an e-mail of four ticks and
  sources of one or two, two DNS types, answers one tick late at most
  (`MaxOverrun`): a second hop, a second type, a source, a lookup and a context
  can each find their budget spent. Every single gate is closed in turn.
- `MCMailContext`: trees of up to four parts and depth three over eighteen leaves,
  three of which lose bytes, two VirusTotal targets (a file and a URL, two files, one
  content twice),
  with every limit of the parser, of the images and of the envelope at two to
  nine units and sizes from zero to one over the limit of a part; each limit can
  be met exactly, passed by one, and passed together with another.
- `MCCorpus`: seven messages in two states of the container, two of them under
  the same identifiers as others before, one near to three families; five edits
  (`MaxChanges` bounds the rewriting commands, the reviews, the new containers and
  the kills together), enough for a container, a rebuilt and reviewed manifest
  and one more incident. `select` and `freeze` are not bounded.
- `MCEvaluation`: the same with three edits, one baseline and one variant of
  either profile, and an outage limit of two over halves of three samples.

`MCRagIndex` alone uses symmetry, of the processes and of the models: its properties
tell neither apart, and none is about liveness.

**Deadlock** is checked for `triage`, `agent` and `vt`. The other systems
really stop: a batch directory after its last batch, a `RUNS_DIR` after its last
run, an index without a command, the calls or lookups of an e-mail that is over,
a sent envelope, a corpus and an evaluation whose edits are spent.

**Fairness.** `Triage`, `AgentLoop` and `UrlscanScan` are sequential programs
whose every external call has a timeout, and `Batch` is a loop over them: weak
fairness of the steps of the program, never of the environment (kills, edits,
providers, midnight), is what the code provides. `VTLimiter` and `RagIndex`
state no liveness: nothing there waits for anything. `LlmClient`, `Lookups`,
`MailContext`, `Corpus` and `Evaluation` are checked for safety only; their loops
are bounded by counters the invariants are about.

## 4. What is proved

TLAPS checks the following for every value of the constants that satisfies the
`ASSUME`s of the modules: any number of e-mails, processes, inputs, attempts,
targets, calls and turns, any budget, any delay, any length of a minute, any MIME
tree and any container of messages. Every safety invariant and every action
property of every passing run is a theorem.

| module | theorems | inductive invariant |
|---|---|---|
| `TriageProofs` | `TypeCorrect`, `AutoEarned`, `ConfirmedScanEscalates`, `ContractRefined`; `MovesAreSupported`, `FallbackIsReviewed`, `SimpleStaysInternal` | `PipelineInv`; `CarriedInv` |
| `AgentLoopProofs` | `TypeCorrect`, `ProvidersSpared`, `FinalizationIsLast` (action property), `ConfirmedScanEscalates`, `ContractRefined`, `ProtocolHolds` | `BudgetInv`, `FinalizationInv`, `ConfirmationInv`, `ContractInv`, `ProtocolInv` |
| `ScriptsProofs` | `BatchTypes`, `ExitZero`, `ReturnedAnalysed`, `ReportsKept` (action property); `CorpusInvariant`, `SelectionHolds`, `LabelsHold`; `EvaluationInvariant`, `ComparisonsHold`, `OutagesAreCut` | `BatchInv`; `CorpusInv`; `EvaluationInv` |
| `VTLimiterProofs` | `LimiterTypes`, `QuotasHold`, `RefusalsJustified` | `LimiterInv` |
| `UrlscanScanProofs` | `ScanTypes`, `SubmissionsAccounted`, `ScanFits`, `OkIsOurs` | `ScanInv` |
| `RagIndexProofs` | `TypeCorrect`, `SpacesNeverMix`; `FamiliesAreOne`, `NeighboursDistinct`, `ReplayIsNotRefused` and `NothingIsReplaced` (action properties) | `IndexInv`; `ContentInv` |
| `MessageProofs` | `CallTypes`, `RecordsAreTrue`, `ControlProof`; `MailInvariant`, `NothingIsLost`, `ContentWithinLimits`, `EnvelopeClosed`, `FilesFirst` | `CallInv`; `MailInv` |
| `LookupsProofs` | `LookupTypes`, `TimeoutsFit`, `RequestsAccounted`, `FindingsGrounded` | `LookupInv` |

Each inductive invariant is a conjunction of named parts, one lemma for each
action or group of actions, and was an invariant of a run of TLC before it was
proved. What the properties lack to be inductive, and why:

- **AUTO.** That a run with a fault is not `AUTO` says nothing before the policy
  node. `PipelineInv` adds `Recorded`: a run that met a fault, or that has no
  model configured, has a non-empty error list at every node after it, because
  no patch shortens the list (`ErrorsOnlyGrow`). `decide_policy`
  returns `AUTO` only without an issue (`AutoNeedsSilence`), hence
  `AutoIsSilent` after the policy. `ScanIsTraced` says the same of a
  confirmation: once merged it is in the evidence, or the merge refused and the
  code for that, which is critical, is among the errors;
  `ConfirmedIsEscalated` follows from the priority of both (`EscalationHasPriority`).
- **The other rules of a recommendation** read fields that were written up to
  eight nodes before. `CarriedInv` says what the nodes in between must hand on:
  nothing is looked up before the gate and the simple edge skips the enrichment
  (`NothingEarly`, `SimpleSkips`); a candidate is INTERNAL's own or was audited
  with the request that returned it (`CandidateIsAudited`); the issues of the
  verifier are those of the assessment the policy reads (`VerifiedAsItStands`).
- **The contract.** The pipeline and the agentic loop refine the same
  `TriageContract`, each with its own set of faults: every step maps to a step of
  the contract or to a stutter. For the loop this needs that an error of the agent
  excludes a finalization and ends the loop, and that nothing is merged before
  (`FaultInv`).
- **Providers.** `ProvidersAreSpared` is about the results; what refuses a call
  are counters and the set of executed pairs. `Accounting` ties the two.
- **Finalization.** `FinalizationInv` says in which phases a finalized run can
  be and that no call of the turn is left; a step from there changes none of the
  variables of the dialogue.
- **The tool protocol.** `AnswersFollow`: within a turn, the answers so far and
  the identifiers of the calls that are left make up, in order, what the message
  of the assistant echoes. `Ids` is defined by recursion over the list of calls;
  that its equation has a solution and that it yields identifiers only is proved by
  least counterexample (`LeastNumber`, from the well-foundedness of the naturals).
- **The batch.** `ReturnedIsAnalysed` compares three readings of a file that
  somebody edits meanwhile. `RowsFollow` orders them: the digest of a row is not
  after the content of its report, which is not after the content on disk now;
  `ManifestIsLast` that the digest of a manifest of the same batch is not before the
  report. An equal digest at both ends then encloses the report. The validator does
  not look whether results and manifest are of one batch; `EndedWhole` says that they
  are when `run_batch` came to its last line, whatever was killed in the directory
  before. `RunsAreFresh` keeps two rows from meaning one report: it rests on the
  refusal in `Archive`, as identifiers may be drawn again.
- **The quotas.** `QuotasKept` counts what was sent, the limiter what was
  recorded. `Remembered`: as long as every request reached a journal, the window and
  the count of the process, and those of the journal, hold each answer that is still
  within the minute or of the day. `Sequential` bounds the answers by the requests: at
  most one is not yet recorded. `Earned` is the converse, nothing is counted that was
  not answered, which is what a refusal needs.
- **urlscan.** `RequestsAreTold` and `BudgetFollows` say by how much the counters
  lag behind the provider at each place of `scan`: the submission under way is recorded
  last. `FailedCaptureEnds`: nothing of a run follows a failed capture, as the
  exception ends a run of the graph, and the agent plans one scan at a time.
  `FollowedIsOurs`: a scan that is polled was submitted by this run.
- **One space.** An upsert writes with the weights its process loaded, which are
  not those whose fingerprint it took when they were replaced in between; nothing
  in the code notices, and `NeverMixed` excludes it (`swapped`). Otherwise
  `LoadedAsRead`: the weights an adapter has loaded, or would load now, are those
  of its fingerprint. `IndexInv` adds that an adapter past `_store` has one
  (`Loaded`), that an upsert has a case (`Checked`), that a handle is never
  of a later collection than the current one (`Handles`), and that a process whose
  handle is still good has the fingerprint of the collection's metadata
  (`SameSpace`). With them, neither weights replaced at any other point nor a
  collection replaced at any point can mix vectors.
- **The cases of the index.** `CheckedStaysFree`: what a read of an add has
  found is still true at each later step of that add (`Free`) unless an upsert
  of another process has crossed it; `UniqueIds` and `SourcesAreKept` make a refused
  case one of another source. `overlap` is needed for the state of the index only:
  the action properties hold of every add that is not itself crossed, also in an
  index that earlier overlaps left with two cases of a family or too many.
- **The record of a call.** `LoopFollowsTheWire` ties the counter of attempts to
  the length of `wire`. `AuditsAreOwned`: the capture files of a directory and a
  phase are of the one call that captures there in that phase, and there are some
  exactly when a request went out, which is what reading them back proves.
- **The lookups.** `InProgress` nests the budgets: each is a minimum with what is
  left of the one around it. `Accounted` grounds what a lookup holds before it
  returns: claims are never below requests, evidence comes from an answer.
- **The mail.** The total of `ContentIsWithinLimits` is of what is kept, and
  what the walk counts is what it charges, some of it for parts it then refuses.
  `SoundWalk(walk, due)` has both: what is kept, and `due`, the size that was
  charged and not kept yet, are within the counter, and the counter is within the
  total for as long as the walk was not stopped. `ReadSoFar` adds, for
  `NothingIsLostInSilence`, that a walk which has met no limit counted exactly the
  parts of the document and has each of them on record (`Recorded`): kept whole,
  with its links, or with a defect to its name; and that a walk which abandoned
  parts was stopped, hence announces a limit. Each leaf is one lemma (`AttachmentIsRead`,
  `ImageIsRead`, `TextIsRead`), over the lemmas of the charge (`ChargeIsDue`,
  `KeepText`, `KeepImage`, ...); of a part that lost bytes `Recorded` says that it has a
  defect or is a text or an image. `PreparedSoFar` ties the images shown to those of the
  walk and what is staged to those shown as supplied: by the hash (`Tied`), whatever
  the second reading found. The envelope needs no
  memory: `EnvelopeHolds` and `RecordedIsShown` are about the one step that builds it.
- **The corpus.** A command computes its writes and makes them later, so that
  `CorpusInv` speaks of the files and of the writes still to be done alike
  (`Sound`, `SoundWrites`): one row per identifier, and the verdict of a row is that
  of the bytes it names. It says nothing of the RAG base, where select takes the labels
  from one file and the bytes from another, as section 6 shows.
  `SelectionIsWhole` has no history: it is what the refusals of select and
  verify-splits imply of any files (`SelectionHolds`).
- **The evaluation.** A comparison is of two runs that may be builds apart.
  `JobIsSound`: the reports of a run and the samples it has left are, together, the
  samples it selected, whatever gold_dev has become since, and those are a whole half
  when the run is full. That needs `LockIsWhole`, the lock names a dev half of one build,
  which in turn needs `InputsAreBuilt`.

**Recursion.** The sums and the filters of the parser (`Total`, `Only`,
`Registry`) and the folds of the walk are recursive functions over the prefixes of a
sequence. `Recursion` and `RecursionIsRun` prove once that such an equation has one
solution, from the well-foundedness of the naturals; the lemmas that follow say what
each of them does for a sequence with one element more.

**The assumptions** are the ranges of the settings (`ScanAssumption`,
`LookupAssumption`, `LlmAssumption`, `AgentAssumption`, `InputsAssumption`,
`LimiterAssumption`: quotas, attempts and poll intervals are positive, a minute is
not longer than a day; `ParseLimitsAssumption`, `VisionAssumption`,
`ContextLimitsAssumption`, `TargetsAssumption`: the limits of a mail are numbers, those of
the parser positive as `src/config.py` demands; `EvaluationAssumption`: the outage
limit is positive), the shape of the data (`LeavesAssumption`: a leaf is of a known kind and has a
size and sequences of links and of blobs, and loses bytes only in broken base64; `CorpusAssumption`: the
containers are sequences of messages, a verdict is a label or `"ambiguous"`), that `Null` is none of the values it stands beside, and two
facts of the environment. `IndexAssumption`: cases of equal rank are the same case, as a search
orders by distance and then by identifier. `BatchAssumption`: the inputs are distinct
paths. TLC evaluates all of them in the runs of the same modules.

**What the theorems do not say.**

- `ReturnedIsAnalysed` is about a batch that came to its end. A batch killed between
  `results.jsonl` and the manifest leaves the manifest of the batch before: the
  validator may then accept a report about other bytes (`AcceptedIsAnalysed` in
  section 6).
- In `Batch` an edit brings a content that was not there before. If an input
  were replaced and then restored byte by byte between the two digests, the report in
  between would be about bytes the validator cannot know of; `ReturnedIsAnalysed`
  is false of that.
- `SubmissionsAreAccounted` excludes a capture that failed: the answer to a POST that
  cannot be archived leaves a submission that no journal knows and that the agent's
  result denies (`SubmissionIsConsumed` in section 6).
- The properties of the index name their windows: weights replaced between the
  fingerprint and the load; an upsert between the reads of another add and its own
  upsert. In each of them the code does mix vectors, replace a case, index a family
  twice or refuse a re-add, as section 6 shows.
- `NothingIsLostInSilence` is of what was decoded. What `get_payload` drops of broken
  base64 is noted of an attachment and of nothing else.
- `QuotasKept` and `RefusalsAreJustified` have the conditions the code needs: every
  request reached the journal (`lost`), no reboot for the refusals.
  `MCVTMidnight` shows what happens without one of them.
- `NeighboursAreDistinct` needs no condition.
- `NothingIsLostInSilence` lets a text of no characters be left out: the selection of
  `src/prompts.py` skips it once its budget is spent without announcing a limit.
- `MaxDocument` and `MaxChanges` are numbers in the theorems about the mail and the
  corpus: each holds for every value of them.

**What the proofs changed.** Some attempts failed on the model and not on the
prover: the status of a lookup was a `CASE` with overlapping arms, whose value is not
determined; a urlscan run without a target was missing; an add whose source alone
exceeds `max_cases` is refused also when the index is empty; a window kept as a list
says less about which request a stamp is of than the limiter knows; an empty text
may be missing from a message that announces no limit, which no instance
held until a leaf of size zero was added to it; and the parser, the images and the envelope, first
written as folds with an operator, are recursive functions now, so that they can be reasoned about.

**Only model-checked:**

- Liveness (`ImplementsContract` includes it, the theorems `ContractRefined` are its
  safety part; `BatchEnds`, `ScanReturns`): TLAPS has no rule for fairness here.
- The violated run and the configurations of section 6: each shows that a sentence
  of a document or a docstring is not kept, which one trace does.

None of the modules uses a `RECURSIVE` operator: folds and functions only.

## 5. What is not modelled

- **Texts.** The syntax of observables, headers and authentication results,
  charsets, the finding of links in a text and the wording of the prompts: a part
  of a mail carries its links and a size in units, an assessment keeps what the
  gate, the verifier and the policy distinguish of the eight-way probabilities.
- The individual **evidence predicates** and the merge of the registry, which
  succeeds or refuses; the FINAL envelope, which adds tool evidence and RAG cases
  under the same selection as INTERNAL.
- The **fields of a provider's answer** that only fill an evidence text: an answer
  is a hit, a near candidate, nothing, or one of the failures.
- **Rates, intervals, costs and latencies** of the metrics: the model keeps the
  confusion matrix they are computed from.
- Of the corpus, `inspect` (read only) and the hashing of texts into near
  duplicates, which is a relation here; the shuffles with a fixed seed are an order.
- Of the experiment lock, every file but `gold_dev`. A live run checks the lock and
  reads the records a little later; the model reads both in one step (`Live`). A
  `select` in between writes a whole half or leaves a torn file, so that the
  properties of the evaluation hold with the two reads apart as well.
- The first use of the embedding downloads its weights if they are absent, and
  probes them; here they are always installed.
- Certificate transparency answers that are no list, which `src/tools/osint.py`
  reads as no certificate: they are an answer without a finding.
- The **configuration**: closed schemas; the constants stand for their values.
- `manage_rag.py stats`, which only reads, although opening creates a missing
  collection.
- `scripts/smoke*.py`, `scripts/check_gate.py`, `run.py`, `ops/`: command lines around
  the parts above, whose receipts are compared with a recomputation.
- **Torn writes** other than those a kill can cause in the three batch files, in
  the VirusTotal journal and in the files of the corpus; two processes that write one quota journal at once.

## 6. Where the documents and the code differ

Shown by a run, `corpus_families`: `docs/corpus.md` 7.6 asks to confirm that the
intersection of the groups and fingerprints of the partitions is empty. The code
keeps the RAG base and the gold pool apart by the families of the canonical labels
(`select_gold`), and publishes the family of the manifest (`build_gold_record`,
`build_rag_case`). The trace: the container grows by a message that is near to a
case of the base and to members of the pool; normalize and dedupe are run again,
without a new review; select, freeze and verify-splits exit 0, and a published
family is on both sides. In the same trace a row of the base may pair the label of
one e-mail with the bytes of another: only the pool is compared with the manifest.
Fingerprints are compared nowhere.

Each of the following is shown in the same way by a configuration kept beside the
modules, whose properties TLC finds violated. Where a configuration has several, each
is violated on its own, and TLC is given one at a time.

| configuration | property | the text | the code |
|---|---|---|---|
| `MCTriageTexts` | `ContentLimitForbidsAuto` | `docs/architecture.md` 1.5: a reached limit "interdit AUTO" | only selects the complex path (`src/gate.py`, R3) |
| | `OnlySameScopeContradicts` | `docs/decisions.md` 4.3: a contradiction of the same scope | `_confirmation_flags` compares no scope |
| `MCAgentMalformed` | | `src/agent/client.py`: a malformed value is "refused downstream" | the finalization never reads `arguments_error` |
| `MCBatchTexts` | `AcceptedIsAnalysed` | `scripts/validate_reports.py`: the digests "catch a report paired with the wrong input row" | results of a killed batch and the manifest of an earlier one are accepted together |
| | `FailingEmailNeverStopsTheBatch` | `run_batch.py`: "A failing email never stops the batch" | its digest is taken outside the `try` |
| `MCVTMidnight` | | `src/tools/virustotal.py`: "process restarts do not forget the budget" | the window of the last minute is dropped after midnight UTC |
| `MCUrlscanTexts` | `SubmissionIsConsumed` | `src/tools/urlscan.py`: a failed POST "also consumes the local budget" | the answer is archived before the submission is recorded, and `_archive_bytes` may raise |
| `MCRagTexts` | `ClearIsTheCure` | `docs/corpus.md` 7.6: another embedding space is cured by clear and rebuild | `clear` opens the collection first and is refused as well |
| | `VectorsAreOfTheSpace` | `RagModelError`: "never mixed" | the weights are loaded after their fingerprint was taken |
| | `AddOnlyReplays` | `RagIndexError`: "idempotent add only replays identical cases" | an add that another one crossed replaces a case of other content |
| | `ReaddsAreSkipped` | docstring of `add`: "identical re-adds are skipped" | one that overlaps an add of the same case is refused because of it |
| `MCLlmRefusals` | | `docs/contracts.md` 2.6.1: the evidence of every attempt is kept, refusals included | `attempt_n_error.txt` does not name the phase: FINAL writes over INTERNAL's |
| `MCLookupsDns` | | `docs/architecture.md` 1.6: `not_found` is a technical success without a match | a DNS lookup whose every type failed without a timeout is `not_found` |
| `MCMailBase64` | | docstring of `_decode_text_part`: base64 errors become defects | `get_payload` drops what it cannot decode; its defect is added to a list that was already read |

Met while reading, without a configuration:

- `configs/policy.yaml` lists `blocked_reason_codes` with the action each of
  them forces; `decide_policy` never reads the table.
- The docstring of `_SubmissionBudget` says that a restart cannot submit the URL
  of the same e-mail again; the key of the journal is the run, and each run has
  a fresh one.
- The e-mail deadline of `docs/architecture.md` bounds the lookup phases; the
  LLM phases use their own.
- An `http.client.HTTPException` (a body cut short) is not an `OSError` and leaves
  `complete_json`, whose contract is a pair; the model has that exit.
- The monotonic stamps of the VirusTotal journal survive a reboot and may count
  for as long as the machine had been up.
- The receipt of `manage_rag.py` describes the index at the moment of its own
  reading: another process may have changed it since the add.
- A failed RAG lookup of the agentic runtime is in its trace only and does not
  forbid `AUTO`, as it does in the pipeline.
- `_count_decoded` says that a part over its own limit is handled before it is
  charged; texts and images over the limit of a part are charged all the same.
- `max_attachments` is announced as a limit when exactly that many were kept.
- An image whose base64 is broken is hashed over the bytes that decoded.
- A URL first seen as visible text and then in a disguised link keeps its first
  provenance, and with it a lower priority for VirusTotal; a URL of a QR code that
  is in the text too becomes a second observable.
- "Cannot happen while the section budgets hold" (`src/prompts.py`, the total of
  the envelope): the sections can hold their budgets and the total be exceeded.
- `load_paired_baseline` accepts a run that ended in failure for an invalid
  A/B/C audit. A run directory that broke cannot be used again.
- A recomputation against a `gold_dev` of other bytes raises a `ValueError` that
  nobody catches: a failure, without its message.
- `verify-splits` without a seal dies on an unset variable before its receipt.

## 7. The plan

Done: (1) the pure decision operators, the pipeline and its contract; (2) the
agentic loop under the same contract; (3) the batch and its validator; (4) the
two journals, VirusTotal and urlscan; (5) the RAG index; (6) the theorems of
section 4; (7) the LLM client with its captures; (8) the lookups and their nested
budgets; (9) the parser, the images, the envelope and the ranking of the lookups,
composed; (10) the corpus and, over it, the evaluation.

Proved: the safety properties of every run, and the refinement steps of both
runtimes.

Left for later:

1. **EvidenceMerge**: the registry itself (identifiers, provenances, the refusal
   as a whole), composed with `Triage`, and the FINAL envelope over it.
2. **ReportArchive**: the write of the four artifacts with `os.replace`, refined
   by the single step that `Batch` takes.
