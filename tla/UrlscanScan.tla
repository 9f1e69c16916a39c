---------------------------- MODULE UrlscanScan ----------------------------
(***************************************************************************)
(* One urlscan submission per run (UrlscanAdapter.scan, _SubmissionBudget  *)
(* and _run_bounded in src/tools/urlscan.py): the POST, the record in the  *)
(* journal, the bounded poll, the DOM and the screenshot, against a        *)
(* provider that may receive a submission whose answer is lost, answer     *)
(* late, or after the adapter has stopped waiting: the worker thread of a  *)
(* timed-out exchange is not cancelled.                                    *)
(*                                                                         *)
(* Runs follow each other in one RUNS_DIR, each with an adapter of its own *)
(* that loads the journal; a run may be killed at any point, and midnight  *)
(* UTC may pass.  The capture of an answer may fail: scan then raises,     *)
(* which ends a run of the pipeline, while the executor of the agent makes *)
(* a result of it that knows of no request (_invoke_adapter).              *)
(***************************************************************************)
EXTENDS Naturals, FiniteSets

CONSTANTS
    MaxUrls,           \* max_urls: targets planned and submissions per run
    FirstPoll, PollInterval, PhaseTimeout,     \* in ticks
    VisionEnabled,     \* MODEL_SUPPORTS_VISION
    Null,
    MaxRuns, MaxTime   \* bounds of the model: runs, duration of one run

ASSUME ScanAssumption ==
    /\ MaxUrls \in Nat /\ MaxRuns \in Nat /\ MaxTime \in Nat
    /\ FirstPoll \in Nat /\ PollInterval \in Nat \ {0}
    /\ PhaseTimeout \in Nat \ {0}
    /\ VisionEnabled \in BOOLEAN

VARIABLES
    run, time,         \* the current run_id and its clock
    agentic,           \* the run is one of the agentic runner
    pc,                \* where scan stands
    targets,           \* URLs of the plan still to be scanned
    email_deadline,    \* context.deadline
    scan_deadline,
    budget, journal,   \* submissions of this day by run: in memory, on disk
    midnight,          \* history: the day changed during this run
    answer,            \* how the POST was answered
    requests,          \* requests_sent of this scan
    posts,             \* history: run -> submissions begun
    late,              \* runs whose POST timed out and is still under way
    scans,             \* the provider: run -> submissions received
    finished,          \* the provider: runs whose scan has a result
    results,           \* results of the targets of this run
    unarchived         \* history: the capture of this run that failed

vars == <<run, time, agentic, pc, targets, email_deadline, scan_deadline, budget,
          journal, midnight, answer, requests, posts, late, scans, finished, results,
          unarchived>>

provider == <<late, scans, finished>>
context  == <<run, agentic, email_deadline>>
timing   == <<context, time>>
store    == <<budget, journal, midnight, unarchived>>

Runs == 1..MaxRuns

\* URLs of a plan: max_urls for the graph, max_urlscan_calls, which is frozen
\* to one, for the agent.
Planned == IF MaxUrls = 0 THEN 1 ELSE MaxUrls
Plan(agent) == IF agent THEN 0..1 ELSE 0..MaxUrls

\* A journal without submissions.
Empty == [r \in Runs |-> 0]

Answers == {"ok", "other_visibility", "no_id", "malformed", "http_error"}

Result == [status: {"ok", "unavailable", "skipped"},
           requests: Nat, scan: {"none", "ours", "downgraded"}]

TypeOK ==
    /\ run \in 0..MaxRuns /\ time \in 0..MaxTime /\ agentic \in BOOLEAN
    /\ pc \in {"none", "gates", "posting", "answered", "first_wait", "poll",
               "pending", "dom", "screenshot"}
    /\ targets \in 0..Planned
    /\ email_deadline \in 0..MaxTime /\ scan_deadline \in 0..MaxTime
    /\ budget \in [Runs -> Nat] /\ journal \in [Runs -> Nat] /\ midnight \in BOOLEAN
    /\ answer \in Answers \cup {Null}
    /\ requests \in Nat
    /\ posts \in [Runs -> Nat] /\ scans \in [Runs -> Nat]
    /\ late \subseteq Runs /\ finished \subseteq Runs
    /\ results \subseteq Result
    /\ unarchived \in {"none", "submission", "other"}

Init ==
    /\ run = 0 /\ time = 0 /\ agentic = FALSE /\ pc = "none" /\ targets = 0
    /\ email_deadline = 0 /\ scan_deadline = 0
    /\ budget = Empty /\ journal = Empty /\ midnight = FALSE
    /\ answer = Null /\ requests = 0
    /\ posts = Empty /\ scans = Empty /\ late = {} /\ finished = {}
    /\ results = {} /\ unarchived = "none"

Remaining == IF time < scan_deadline THEN scan_deadline - time ELSE 0

\* A new run, of the same process or of another: the journal of the day is
\* loaded, unless it cannot be read.  The email has at most max_urls URLs in
\* its plan, and perhaps none.
StartRun ==
    /\ pc = "none" /\ run < MaxRuns
    /\ run' = run + 1 /\ time' = 0
    /\ agentic' \in BOOLEAN /\ targets' \in Plan(agentic')
    /\ pc' = IF targets' = 0 THEN "none" ELSE "gates"
    /\ email_deadline' \in 0..MaxTime /\ scan_deadline' = 0
    /\ budget' \in {journal, Empty} /\ midnight' = FALSE
    /\ answer' = Null /\ requests' = 0 /\ results' = {} /\ unarchived' = "none"
    /\ late' \in {late, {}}
    /\ UNCHANGED <<journal, posts, scans, finished>>

\* _prune and _load: the submissions of yesterday no longer count.
Midnight ==
    /\ pc # "none" /\ ~midnight
    /\ midnight' = TRUE
    /\ budget' = Empty /\ journal' = Empty
    /\ UNCHANGED <<timing, pc, targets, scan_deadline, answer, requests, posts,
                   provider, results, unarchived>>

\* The end of scan for one target.
Return(status, sent, scan) ==
    /\ results' = results \cup {[status |-> status, requests |-> sent, scan |-> scan]}
    /\ targets' = targets - 1
    /\ pc' = IF targets' = 0 THEN "none" ELSE "gates"
    /\ answer' = Null /\ requests' = 0

\* disabled, not applicable, not configured, not approved, private: nothing
\* is sent.  The deadline and the budget are looked at last.
GateRefuses ==
    /\ pc = "gates"
    /\ \/ Return("skipped", 0, "none")
       \/ Return("unavailable", 0, "none")
    /\ UNCHANGED <<timing, scan_deadline, store, posts, provider>>

\* _SubmissionBudget.allow
Allow == budget[run] < MaxUrls

\* Faulty variant: the email deadline does not bound the scan.
ScanBudgetOfPhase == PhaseTimeout

\* min(remaining, phase_timeout_s)
ScanBudget ==
    IF email_deadline < time + PhaseTimeout
    THEN (IF email_deadline > time THEN email_deadline - time ELSE 0)
    ELSE PhaseTimeout

Submit ==
    /\ pc = "gates"
    /\ ScanBudget > 0
    /\ Allow
    /\ scan_deadline' = time + ScanBudget
    /\ pc' = "posting"
    /\ requests' = 1
    /\ posts' = [posts EXCEPT ![run] = @ + 1]
    /\ UNCHANGED <<timing, targets, store, answer, provider, results>>

\* The provider receives the submission: before its answer, or from the
\* thread that the adapter no longer waits for.
Receive(r) ==
    /\ r \in late \/ (pc = "posting" /\ r = run)
    /\ scans[r] < posts[r]
    /\ scans' = [scans EXCEPT ![r] = @ + 1]
    /\ late' = late \ {r}
    /\ UNCHANGED <<timing, pc, targets, scan_deadline, store, answer, requests,
                   posts, finished, results>>

ProviderFinishes ==
    /\ run \in Runs \ finished
    /\ scans[run] > 0
    /\ finished' = finished \cup {run}
    /\ UNCHANGED <<timing, pc, targets, scan_deadline, store, answer, requests,
                   posts, late, scans, results>>

\* An exchange takes its time, bounded by what remains.
Exchange == \E d \in 0..Remaining : time' = time + d

\* An answer: its bytes are archived before anything is recorded.
Answered ==
    /\ pc = "posting" /\ pc' = "answered" /\ Exchange
    /\ answer' \in {a \in Answers : a \in {"ok", "other_visibility"} => scans[run] > 0}
    /\ UNCHANGED <<context, targets, scan_deadline, store, requests,
                   posts, provider, results>>

\* record: in memory, then on disk if the journal can be written.
RecordSubmission ==
    /\ budget' = [budget EXCEPT ![run] = @ + 1]
    /\ journal' \in {journal, budget'}
    /\ UNCHANGED <<midnight, unarchived>>

\* Faulty variant: a failed exchange is reported as no exchange.
PostFailsAsUnsent ==
    /\ pc = "posting" /\ Exchange
    /\ RecordSubmission
    /\ late' \in {late, late \cup {run}}
    /\ Return("unavailable", 0, "none")
    /\ UNCHANGED <<context, scan_deadline, posts, scans, finished>>

\* Timeout or connection error: ambiguous, recorded and never sent again.
\* The submission may still be on its way.
PostFails ==
    /\ pc = "posting" /\ Exchange
    /\ RecordSubmission
    /\ late' \in {late, late \cup {run}}
    /\ Return("unavailable", 1, "none")
    /\ UNCHANGED <<context, scan_deadline, posts, scans, finished>>

\* Faulty variant: a scan of another visibility is followed as well.
RecordAnyVisibility ==
    /\ pc = "answered"
    /\ RecordSubmission
    /\ IF answer \in {"ok", "other_visibility"}
       THEN pc' = "first_wait" /\ UNCHANGED <<targets, answer, requests, results>>
       ELSE Return("unavailable", requests, "none")
    /\ UNCHANGED <<timing, scan_deadline, posts, provider>>

\* Every answer is one submission; only a scan with a valid id and the
\* visibility that was asked for is followed.
Record ==
    /\ pc = "answered"
    /\ RecordSubmission
    /\ IF answer = "ok"
       THEN pc' = "first_wait" /\ UNCHANGED <<targets, answer, requests, results>>
       ELSE Return("unavailable", requests, "none")
    /\ UNCHANGED <<timing, scan_deadline, posts, provider>>

\* A wait never outlasts the budget of the scan.
Nap(d) == IF d < Remaining THEN d ELSE Remaining

\* time.sleep before the first poll, and between two polls.
Wait ==
    /\ \/ pc = "first_wait" /\ time' = time + Nap(FirstPoll)
       \/ pc = "pending"    /\ time' = time + Nap(PollInterval)
    /\ pc' = "poll"
    /\ UNCHANGED <<context, targets, scan_deadline, store, answer,
                   requests, posts, provider, results>>

\* Faulty variant: the end of the budget is noticed after an exchange only.
PollExpiresTooLate ==
    /\ pc = "pending" /\ Remaining = 0
    /\ Return("unavailable", requests, "none")
    /\ UNCHANGED <<timing, scan_deadline, store, posts, provider>>

PollExpires ==
    /\ pc = "poll" /\ Remaining = 0
    /\ Return("unavailable", requests, "none")
    /\ UNCHANGED <<timing, scan_deadline, store, posts, provider>>

\* 404: pending, and never not_found.
PollPending ==
    /\ pc = "poll" /\ Remaining > 0 /\ Exchange
    /\ pc' = IF time' < scan_deadline THEN "pending" ELSE "poll"
    /\ requests' = requests + 1
    /\ UNCHANGED <<context, targets, scan_deadline, store, answer,
                   posts, provider, results>>

\* A transport error, another status, a body that is no JSON object.
PollFails ==
    /\ pc = "poll" /\ Remaining > 0 /\ Exchange
    /\ Return("unavailable", requests + 1, "none")
    /\ UNCHANGED <<context, scan_deadline, store, posts, provider>>

PollSucceeds ==
    /\ pc = "poll" /\ Remaining > 0 /\ Exchange
    /\ run \in finished
    /\ pc' = "dom"
    /\ requests' = requests + 1
    /\ UNCHANGED <<context, targets, scan_deadline, store, answer,
                   posts, provider, results>>

\* Optional: skipped when nothing remains, and any failure is ignored.
FetchDom ==
    /\ pc = "dom" /\ pc' = "screenshot"
    /\ \/ requests' = requests /\ UNCHANGED time
       \/ Remaining > 0 /\ Exchange /\ requests' = requests + 1
       \/ Remaining > 0 /\ Exchange /\ requests' = requests
    /\ UNCHANGED <<context, targets, scan_deadline, store, answer,
                   posts, provider, results>>

FetchScreenshot ==
    /\ pc = "screenshot"
    /\ \E extra \in IF VisionEnabled /\ Remaining > 0 THEN {0, 1} ELSE {0} :
          Return("ok", requests + extra, IF answer = "ok" THEN "ours" ELSE "downgraded")
    /\ IF VisionEnabled /\ Remaining > 0 THEN Exchange ELSE UNCHANGED time
    /\ UNCHANGED <<context, scan_deadline, store, posts, provider>>

\* The run is over without a result, and nothing more is recorded.
EndRun ==
    /\ pc' = "none" /\ targets' = 0
    /\ answer' = Null /\ requests' = 0 /\ results' = {}

\* The run is killed.  A worker thread dies with the process, if it dies.
Stopped ==
    /\ pc # "none"
    /\ EndRun
    /\ late' \in {late, {}}
    /\ UNCHANGED <<timing, scan_deadline, store, posts, scans, finished>>

\* An exception leaves scan: nothing catches it in the graph; for the agent it
\* is an unavailable result that claims no request.
Raised == IF agentic THEN Return("unavailable", 0, "none") ELSE EndRun

\* _archive_bytes cannot write: the answer to the submission before the
\* submission is recorded, or that of a later exchange.
ArchiveFails ==
    /\ \/ /\ pc = "answered" /\ UNCHANGED time
          /\ unarchived' = "submission"
       \/ /\ pc \in {"poll", "dom"} \/ (pc = "screenshot" /\ VisionEnabled)
          /\ Remaining > 0 /\ Exchange
          /\ unarchived' = "other"
    /\ Raised
    /\ UNCHANGED <<context, scan_deadline, budget, journal, midnight, posts, provider>>

ScanStep ==
    \/ GateRefuses \/ Submit \/ Answered \/ PostFails \/ Record
    \/ Wait \/ PollExpires \/ PollPending \/ PollFails \/ PollSucceeds
    \/ FetchDom \/ FetchScreenshot

Environment ==
    \/ \E r \in Runs : Receive(r)
    \/ ProviderFinishes \/ Midnight \/ Stopped \/ ArchiveFails

Next == StartRun \/ ScanStep \/ Environment

Spec == Init /\ [][Next]_vars

\* scan is sequential and each of its waits is bounded.
FairSpec == Spec /\ WF_vars(ScanStep)

-----------------------------------------------------------------------------
(***************************************************************************)
(* Properties.                                                             *)
(***************************************************************************)

Scanning == pc \notin {"none", "gates"}

Returned == pc = "none" /\ results # {}

\* However ambiguous its answer is, a submission is begun once per planned
\* URL of a run: the provider never visits the page of a run twice.
SubmittedOnce == \A r \in Runs : posts[r] <= MaxUrls

\* When the provider received a submission, also after the adapter gave up,
\* some result of the run says that a request was sent, as long as every answer
\* could be captured.
NoSubmissionIsDenied ==
    Returned /\ scans[run] > 0 =>
        unarchived # "none" \/ \E r \in results : r.requests > 0

\* Whatever became of a submission, the budget of the day knows it when scan
\* returns, unless midnight passed or the answer to it could not be captured:
\* another scan of the run is refused.
SubmissionRemembered ==
    Returned /\ posts[run] > 0 /\ ~midnight =>
        unarchived = "submission" \/ budget[run] = posts[run]

\* An ambiguous POST is not repeated, and neither denied nor forgotten, but for
\* a capture that failed.
SubmissionsAreAccounted == SubmittedOnce /\ NoSubmissionIsDenied /\ SubmissionRemembered

\* src/tools/urlscan.py, record: "a failed/ambiguous POST also consumes the
\* local budget".
SubmissionIsConsumed ==
    Returned /\ posts[run] > 0 /\ ~midnight => budget[run] = posts[run]

\* Neither the waits nor the exchanges outlast the phase budget and the
\* deadline of the email.
WithinBudget == Scanning => time <= scan_deadline /\ scan_deadline <= email_deadline

\* An ok result is about the scan this run submitted, finished, and with the
\* visibility that was asked for.
OkIsOurScan ==
    \A r \in results :
        r.status = "ok" => r.scan = "ours" /\ run \in finished /\ scans[run] > 0

\* Every scan returns, whatever the provider does, or its run is stopped.
ScanReturns == Scanning ~> ~Scanning
=============================================================================
