-------------------------- MODULE UrlscanScanProofs --------------------------
(***************************************************************************)
(* Theorems about the urlscan submission, for every number of URLs and of  *)
(* runs and every choice of the delays: an ambiguous submission is not     *)
(* repeated, and neither denied nor forgotten but for a capture that       *)
(* failed, the scan stays within its budget, and an ok result is about the *)
(* scan of its run.                                                        *)
(***************************************************************************)
EXTENDS UrlscanScan, TLAPS

-----------------------------------------------------------------------------
(***************************************************************************)
(* The inductive invariant.                                                *)
(***************************************************************************)

Following == pc \in {"first_wait", "poll", "pending", "dom", "screenshot"}

\* Nothing is known of a run that did not start, and the provider receives
\* what was submitted only.
NothingEarly ==
  /\ pc # "none" \/ results # {} => run \in Runs
  /\ \A r \in Runs : r > run => posts[r] = 0 /\ budget[r] = 0 /\ journal[r] = 0
  /\ \A r \in Runs : scans[r] <= posts[r]
  /\ \A r \in finished : scans[r] > 0

\* A submission uses up a target of the plan: at once, or when scan returns.
PlanIsConsumed ==
  /\ SubmittedOnce
  /\ pc # "none" => targets >= 1
  /\ pc = "gates" => posts[run] + targets <= Planned
  /\ Scanning => posts[run] + targets <= Planned + 1

\* A capture that fails ends the run: that of a graph by its exception, that of
\* the agent because it plans one scan.
FailedCaptureEnds ==
  /\ agentic => targets <= 1
  /\ unarchived # "none" => pc = "none"

\* What the results tell of the submissions begun, also those not received.
RequestsAreTold ==
  /\ Scanning => requests >= 1
  /\ pc = "gates" \/ Returned =>
       (posts[run] > 0 => unarchived # "none" \/ \E r \in results : r.requests > 0)

\* The submission of this moment is recorded last.
BudgetFollows ==
  ~midnight =>
    /\ pc = "gates" \/ Following => budget[run] = posts[run]
    /\ Returned => unarchived = "submission" \/ budget[run] = posts[run]
    /\ pc \in {"posting", "answered"} => posts[run] = budget[run] + 1

\* A scan that is followed is ours, and its result is read once it exists.
FollowedIsOurs ==
  /\ Following => answer = "ok"
  /\ (pc = "answered" \/ Following) /\ answer = "ok" => scans[run] > 0
  /\ pc \in {"dom", "screenshot"} => run \in finished

ScanInv ==
  /\ TypeOK /\ NothingEarly /\ PlanIsConsumed /\ FailedCaptureEnds /\ WithinBudget
  /\ RequestsAreTold /\ BudgetFollows /\ FollowedIsOurs /\ OkIsOurScan

LEMMA PlannedType ==
  Planned \in Nat /\ Planned >= 1 /\ Planned >= MaxUrls /\ (MaxUrls > 0 => Planned = MaxUrls)
BY ScanAssumption DEF Planned

\* An exchange ends within the budget of its scan.
LEMMA ExchangeEnds ==
  ASSUME TypeOK, WithinBudget, Scanning, Exchange
  PROVE  time' \in time .. scan_deadline /\ time' \in 0 .. MaxTime
BY ScanAssumption DEF TypeOK, WithinBudget, Exchange, Remaining

LEMMA NapEnds ==
  ASSUME TypeOK, WithinBudget, Scanning, NEW d \in Nat, time' = time + Nap(d)
  PROVE  time' \in time .. scan_deadline /\ time' \in 0 .. MaxTime
BY ScanAssumption DEF TypeOK, WithinBudget, Nap, Remaining

\* The record of one submission: in memory, and perhaps on disk.
LEMMA Recorded ==
  ASSUME ScanInv, pc \in {"posting", "answered"}, RecordSubmission,
         UNCHANGED <<run, posts>>
  PROVE  /\ budget' \in [Runs -> Nat] /\ journal' \in [Runs -> Nat]
         /\ midnight' = midnight /\ unarchived' = unarchived
         /\ \A r \in Runs : r > run => budget'[r] = 0 /\ journal'[r] = 0
         /\ ~midnight => budget'[run] = posts[run]
<1>1. TypeOK /\ run \in Runs /\ NothingEarly /\ BudgetFollows
  BY DEF ScanInv, NothingEarly
<1>2. budget' \in [Runs -> Nat] /\ budget' = [budget EXCEPT ![run] = budget[run] + 1]
  BY <1>1 DEF TypeOK, RecordSubmission
<1>3. journal' \in [Runs -> Nat]
  BY <1>1, <1>2 DEF TypeOK, RecordSubmission
<1>4. \A r \in Runs : r > run => budget'[r] = 0 /\ journal'[r] = 0
  <2> SUFFICES ASSUME NEW r \in Runs, r > run
               PROVE  budget'[r] = 0 /\ journal'[r] = 0
    OBVIOUS
  <2>1. r # run /\ budget[r] = 0 /\ journal[r] = 0
    BY <1>1 DEF NothingEarly, TypeOK, Runs
  <2>2. budget'[r] = 0
    BY <1>1, <1>2, <2>1 DEF TypeOK
  <2> QED
    BY <2>1, <2>2 DEF RecordSubmission
<1>5. ~midnight => budget'[run] = posts[run]
  BY <1>1, <1>2 DEF TypeOK, BudgetFollows
<1> QED
  BY <1>2, <1>3, <1>4, <1>5 DEF RecordSubmission

-----------------------------------------------------------------------------
(***************************************************************************)
(* Steps that end the scan of a target.                                    *)
(***************************************************************************)

LEMMA ReturnKeeps ==
  ASSUME ScanInv, Scanning,
         NEW status \in {"ok", "unavailable"}, NEW sent \in Nat \ {0},
         NEW scan \in {"none", "ours", "downgraded"},
         Return(status, sent, scan),
         status = "ok" => scan = "ours" /\ run \in finished,
         UNCHANGED <<run, agentic, email_deadline, scan_deadline, midnight, unarchived, posts,
                     scans, finished>>,
         time' \in 0 .. MaxTime, late' \subseteq Runs,
         budget' \in [Runs -> Nat], journal' \in [Runs -> Nat],
         \A r \in Runs : r > run => budget'[r] = 0 /\ journal'[r] = 0,
         ~midnight => budget'[run] = posts[run]
  PROVE  ScanInv'
<1> DEFINE new == [status |-> status, requests |-> sent, scan |-> scan]
<1>1. /\ TypeOK /\ NothingEarly /\ PlanIsConsumed /\ OkIsOurScan
      /\ run \in Runs /\ targets \in 1 .. Planned /\ posts[run] \in Nat
  BY DEF ScanInv, NothingEarly, PlanIsConsumed, Scanning, TypeOK
<1>2. /\ results' = results \cup {new} /\ new \in Result /\ new.requests > 0
      /\ targets' = targets - 1 /\ answer' = Null /\ requests' = 0
      /\ pc' = IF targets' = 0 THEN "none" ELSE "gates"
  BY DEF Return, Result
<1>3. pc' \in {"none", "gates"} /\ (pc' = "gates" => targets' >= 1) /\ targets' \in 0 .. Planned
  BY <1>1, <1>2, PlannedType
<1>4. ~Scanning' /\ ~Following' /\ pc' \notin {"posting", "answered"}
  BY <1>3 DEF Scanning, Following
<1> HIDE DEF new
<1>5. TypeOK'
  BY <1>1, <1>2, <1>3 DEF TypeOK
<1>6. NothingEarly'
  BY <1>1 DEF NothingEarly
<1>7. PlanIsConsumed'
  BY <1>1, <1>2, <1>3, <1>4, PlannedType DEF PlanIsConsumed, SubmittedOnce, Scanning, context
<1>13. FailedCaptureEnds'
  BY <1>1, <1>2, ScanAssumption DEF ScanInv, FailedCaptureEnds, Scanning, context
<1>8. WithinBudget'
  BY <1>4 DEF WithinBudget
<1>9. RequestsAreTold'
  BY <1>2, <1>4 DEF RequestsAreTold
<1>10. BudgetFollows'
  BY <1>4 DEF BudgetFollows
<1>11. FollowedIsOurs'
  BY <1>3, <1>4 DEF FollowedIsOurs
<1>12. OkIsOurScan'
  <2>1. new.status = status /\ new.scan = scan
    BY DEF new
  <2>2. run \in finished => scans[run] > 0
    BY <1>1 DEF NothingEarly
  <2> QED
    BY <1>1, <1>2, <2>1, <2>2 DEF OkIsOurScan
<1> QED
  BY <1>5, <1>6, <1>7, <1>8, <1>9, <1>10, <1>11, <1>12, <1>13 DEF ScanInv

-----------------------------------------------------------------------------
(***************************************************************************)
(* Steps within a scan, before a run, and of the environment.              *)
(***************************************************************************)

LEMMA FollowKeeps ==
  ASSUME ScanInv, Following, pc' \in {"poll", "pending", "dom", "screenshot"},
         UNCHANGED <<run, agentic, email_deadline, targets, scan_deadline, store, answer, posts,
                     provider, results>>,
         time' \in time .. scan_deadline, time' \in 0 .. MaxTime,
         requests' \in Nat \ {0},
         pc' \in {"dom", "screenshot"} => run \in finished
  PROVE  ScanInv'
<1>1. Following' /\ Scanning' /\ Scanning /\ pc' \notin {"gates", "posting", "answered"}
      /\ ~Returned'
  BY DEF Following, Scanning, Returned
<1>2. TypeOK'
  BY DEF ScanInv, TypeOK, store, provider
<1>3. NothingEarly' /\ PlanIsConsumed' /\ FailedCaptureEnds'
  BY <1>1 DEF ScanInv, NothingEarly, PlanIsConsumed, SubmittedOnce, FailedCaptureEnds, Scanning,
     store,
     provider, context
<1>4. WithinBudget'
  BY <1>1 DEF ScanInv, TypeOK, WithinBudget
<1>5. RequestsAreTold' /\ BudgetFollows'
  BY <1>1 DEF ScanInv, RequestsAreTold, BudgetFollows, store
<1>6. FollowedIsOurs' /\ OkIsOurScan'
  BY <1>1 DEF ScanInv, FollowedIsOurs, OkIsOurScan, provider
<1> QED
  BY <1>2, <1>3, <1>4, <1>5, <1>6 DEF ScanInv

LEMMA StartRunKeeps == ASSUME ScanInv, StartRun PROVE ScanInv'
<1>0. (agentic' /\ targets' \in 0 .. 1) \/ (~agentic' /\ targets' \in 0 .. MaxUrls)
  BY DEF StartRun, Plan
<1>1. run' \in Runs /\ run' = run + 1 /\ results' = {} /\ pc' \in {"none", "gates"}
      /\ targets' \in 0 .. Planned /\ (pc' = "gates" => targets' >= 1)
  <2>1. targets' \in 0 .. Planned
    BY <1>0, ScanAssumption, PlannedType
  <2> QED
    BY <2>1, ScanAssumption, PlannedType DEF ScanInv, TypeOK, StartRun, Runs
<1>2. ~Scanning' /\ ~Following' /\ ~Returned' /\ pc' \notin {"posting", "answered"}
  BY <1>1 DEF Scanning, Following, Returned
<1>3. \A r \in Runs : r > run => posts'[r] = 0 /\ budget'[r] = 0 /\ journal'[r] = 0
  BY DEF ScanInv, NothingEarly, StartRun, Empty
<1>4. run' > run /\ \A r \in Runs : r > run' => r > run
  BY <1>1 DEF ScanInv, TypeOK, Runs
<1>5. TypeOK'
  <2>1. run' \in 0 .. MaxRuns /\ 0 \in 0 .. MaxTime
    BY <1>1, ScanAssumption DEF Runs
  <2>2. Empty \in [Runs -> Nat]
    BY DEF Empty
  <2>3. budget' \in [Runs -> Nat] /\ late' \subseteq Runs
    BY <2>2 DEF ScanInv, TypeOK, StartRun
  <2> QED
    BY <1>1, <2>1, <2>3 DEF ScanInv, TypeOK, StartRun
<1>6. NothingEarly'
  BY <1>1, <1>3, <1>4 DEF ScanInv, NothingEarly, StartRun
<1>7. PlanIsConsumed' /\ FailedCaptureEnds'
  <2>1. posts'[run'] = 0 /\ posts' = posts
    BY <1>1, <1>3, <1>4 DEF StartRun
  <2>2. posts'[run'] + targets' <= Planned
    <3>1. targets' \in 0 .. Planned /\ Planned \in Nat
      BY <1>1, PlannedType
    <3>2. ASSUME NEW x \in 0 .. Planned, NEW y, y = 0 PROVE y + x <= Planned
      BY <3>1, <3>2
    <3> QED
      BY <2>1, <3>1, <3>2
  <2>3. unarchived' = "none"
    BY DEF StartRun
  <2> QED
    BY <1>1, <1>2, <1>0, <2>1, <2>2, <2>3 DEF ScanInv, PlanIsConsumed, SubmittedOnce,
       FailedCaptureEnds
<1>8. WithinBudget' /\ RequestsAreTold' /\ BudgetFollows'
  BY <1>1, <1>2, <1>3, <1>4 DEF WithinBudget, RequestsAreTold, BudgetFollows
<1>9. FollowedIsOurs' /\ OkIsOurScan'
  BY <1>1, <1>2 DEF FollowedIsOurs, OkIsOurScan
<1> QED
  BY <1>5, <1>6, <1>7, <1>8, <1>9 DEF ScanInv

LEMMA GateRefusesKeeps == ASSUME ScanInv, GateRefuses PROVE ScanInv'
<1>1. PICK status \in {"skipped", "unavailable"} : Return(status, 0, "none")
  BY DEF GateRefuses
<1> DEFINE new == [status |-> status, requests |-> 0, scan |-> "none"]
<1>2. /\ results' = results \cup {new} /\ new \in Result /\ new.status # "ok"
      /\ targets' = targets - 1 /\ answer' = Null /\ requests' = 0
      /\ pc' = IF targets' = 0 THEN "none" ELSE "gates"
  BY <1>1 DEF Return, Result
<1> HIDE DEF new
<1>3. TypeOK /\ pc = "gates" /\ run \in Runs /\ targets \in 1 .. Planned
  BY DEF ScanInv, TypeOK, GateRefuses, NothingEarly, PlanIsConsumed
<1>4. pc' \in {"none", "gates"} /\ (pc' = "gates" => targets' >= 1) /\ targets' \in 0 .. Planned
  BY <1>2, <1>3, PlannedType
<1>5. ~Scanning' /\ ~Following' /\ pc' \notin {"posting", "answered"}
  BY <1>4 DEF Scanning, Following
<1>6. TypeOK'
  BY <1>2, <1>3, <1>4 DEF TypeOK, GateRefuses, timing, context, store, provider
<1>7. NothingEarly'
  BY <1>3 DEF ScanInv, NothingEarly, GateRefuses, timing, context, store, provider
<1>8. PlanIsConsumed'
  <2>1. posts' = posts /\ run' = run /\ posts[run] \in Nat
        /\ posts[run] + targets <= Planned /\ SubmittedOnce
    BY <1>3 DEF ScanInv, PlanIsConsumed, GateRefuses, timing, context, TypeOK
  <2>2. posts'[run'] + targets' <= Planned
    BY <1>2, <1>3, <2>1, PlannedType
  <2> QED
    BY <1>4, <1>5, <2>1, <2>2 DEF PlanIsConsumed, SubmittedOnce
<1>12. FailedCaptureEnds'
  BY <1>2, <1>3 DEF ScanInv, FailedCaptureEnds, GateRefuses, timing, context, store
<1>9. WithinBudget' /\ FollowedIsOurs'
  BY <1>5 DEF WithinBudget, FollowedIsOurs, Following
<1>10. RequestsAreTold' /\ BudgetFollows'
  BY <1>2, <1>3, <1>5 DEF ScanInv, RequestsAreTold, BudgetFollows, GateRefuses, timing, context,
     store
<1>11. OkIsOurScan'
  BY <1>2 DEF ScanInv, OkIsOurScan, GateRefuses, timing, context, provider
<1> QED
  BY <1>6, <1>7, <1>8, <1>9, <1>10, <1>11, <1>12 DEF ScanInv

LEMMA SubmitKeeps == ASSUME ScanInv, Submit PROVE ScanInv'
<1>1. /\ TypeOK /\ pc = "gates" /\ pc' = "posting" /\ requests' = 1
      /\ run \in Runs /\ targets \in 1 .. Planned
      /\ posts[run] \in Nat /\ posts[run] + targets <= Planned
  BY DEF ScanInv, TypeOK, Submit, NothingEarly, PlanIsConsumed
<1>2. posts' \in [Runs -> Nat] /\ posts' = [posts EXCEPT ![run] = posts[run] + 1]
  BY <1>1 DEF TypeOK, Submit
<1>3. Scanning' /\ ~Following' /\ ~Returned'
  BY <1>1 DEF Scanning, Following, Returned
<1>4. /\ scan_deadline' \in 0 .. MaxTime
      /\ time <= scan_deadline' /\ scan_deadline' <= email_deadline
  BY <1>1, ScanAssumption DEF TypeOK, Submit, ScanBudget
<1>5. TypeOK'
  BY <1>1, <1>2, <1>4 DEF TypeOK, Submit, timing, context, store, provider
<1>6. NothingEarly'
  <2>1. \A r \in Runs : r > run => posts'[r] = 0
    BY <1>1, <1>2 DEF ScanInv, NothingEarly, TypeOK, Runs
  <2>2. \A r \in Runs : scans[r] <= posts'[r]
    BY <1>1, <1>2 DEF ScanInv, NothingEarly, TypeOK
  <2> QED
    BY <1>1, <2>1, <2>2 DEF ScanInv, NothingEarly, Submit, timing, context, store, provider
<1>7. PlanIsConsumed'
  <2>1. posts'[run] = posts[run] + 1 /\ \A r \in Runs : r # run => posts'[r] = posts[r]
    BY <1>1, <1>2 DEF TypeOK
  <2>3. Planned = MaxUrls
    BY <1>1, PlannedType, ScanAssumption DEF Submit, Allow, TypeOK
  <2>2. SubmittedOnce'
    BY <1>1, <2>1, <2>3, PlannedType DEF ScanInv, PlanIsConsumed, SubmittedOnce
  <2> QED
    BY <1>1, <2>1, <2>2, PlannedType DEF PlanIsConsumed, Submit, timing, context
<1>13. FailedCaptureEnds'
  BY <1>1 DEF ScanInv, FailedCaptureEnds, Submit, timing, context, store
<1>8. WithinBudget'
  BY <1>4 DEF WithinBudget, Submit, timing, context
<1>9. RequestsAreTold'
  BY <1>1, <1>3 DEF RequestsAreTold
<1>10. BudgetFollows'
  BY <1>1, <1>2, <1>3 DEF ScanInv, BudgetFollows, Submit, timing, context, store, TypeOK
<1>11. FollowedIsOurs'
  BY <1>1, <1>3 DEF ScanInv, FollowedIsOurs, Submit, timing, context, provider
<1>12. OkIsOurScan'
  BY DEF ScanInv, OkIsOurScan, Submit, timing, context, provider
<1> QED
  BY <1>5, <1>6, <1>7, <1>8, <1>9, <1>10, <1>11, <1>12, <1>13 DEF ScanInv

LEMMA ReceiveKeeps == ASSUME ScanInv, NEW r \in Runs, Receive(r) PROVE ScanInv'
<1>1. /\ scans' \in [Runs -> Nat] /\ scans'[r] = scans[r] + 1
      /\ \A q \in Runs : q # r => scans'[q] = scans[q]
      /\ late' \subseteq Runs
  BY DEF ScanInv, TypeOK, Receive
<1>2. TypeOK'
  BY <1>1 DEF ScanInv, TypeOK, Receive, timing, context, store
<1>3. NothingEarly'
  BY <1>1 DEF ScanInv, NothingEarly, TypeOK, Receive, timing, context, store
<1>4. PlanIsConsumed' /\ FailedCaptureEnds' /\ WithinBudget' /\ RequestsAreTold' /\ BudgetFollows'
  BY DEF ScanInv, PlanIsConsumed, SubmittedOnce, FailedCaptureEnds, WithinBudget,
     RequestsAreTold, BudgetFollows,
     Receive, timing, context, store, Scanning, Following, Returned
<1>5. \A q \in Runs : scans[q] > 0 => scans'[q] > 0
  BY <1>1 DEF ScanInv, TypeOK
<1>6. FollowedIsOurs'
  <2>1. pc = "answered" \/ Following => run \in Runs
    BY DEF ScanInv, NothingEarly, Following
  <2> QED
    BY <1>5, <2>1 DEF ScanInv, FollowedIsOurs, Receive, timing, context, Following
<1>7. OkIsOurScan'
  BY <1>5 DEF ScanInv, TypeOK, OkIsOurScan, Receive, timing, context
<1> QED
  BY <1>2, <1>3, <1>4, <1>6, <1>7 DEF ScanInv

LEMMA FinishKeeps == ASSUME ScanInv, ProviderFinishes PROVE ScanInv'
<1>1. TypeOK' /\ NothingEarly'
  BY DEF ScanInv, TypeOK, NothingEarly, ProviderFinishes, timing, context, store
<1>2. PlanIsConsumed' /\ FailedCaptureEnds' /\ WithinBudget' /\ RequestsAreTold' /\ BudgetFollows'
  BY DEF ScanInv, PlanIsConsumed, SubmittedOnce, FailedCaptureEnds, WithinBudget,
     RequestsAreTold, BudgetFollows,
     ProviderFinishes, timing, context, store, Scanning, Following, Returned
<1>3. FollowedIsOurs' /\ OkIsOurScan'
  BY DEF ScanInv, FollowedIsOurs, OkIsOurScan, ProviderFinishes, timing, context, Following
<1> QED
  BY <1>1, <1>2, <1>3 DEF ScanInv

LEMMA MidnightKeeps == ASSUME ScanInv, Midnight PROVE ScanInv'
<1>1. TypeOK' /\ NothingEarly'
  BY DEF ScanInv, TypeOK, NothingEarly, Midnight, Empty, timing, context, provider
<1>2. PlanIsConsumed' /\ FailedCaptureEnds' /\ WithinBudget' /\ RequestsAreTold' /\ BudgetFollows'
  BY DEF ScanInv, PlanIsConsumed, SubmittedOnce, FailedCaptureEnds, WithinBudget,
     RequestsAreTold, BudgetFollows,
     Midnight, timing, context, provider, Scanning, Following, Returned
<1>3. FollowedIsOurs' /\ OkIsOurScan'
  BY DEF ScanInv, FollowedIsOurs, OkIsOurScan, Midnight, timing, context, provider, Following
<1> QED
  BY <1>1, <1>2, <1>3 DEF ScanInv

LEMMA StoppedKeeps == ASSUME ScanInv, Stopped PROVE ScanInv'
<1>1. ~Scanning' /\ ~Following' /\ ~Returned' /\ pc' = "none" /\ results' = {}
  BY DEF Stopped, EndRun, Scanning, Following, Returned
<1>2. TypeOK' /\ NothingEarly'
  BY <1>1, ScanAssumption, PlannedType DEF ScanInv, TypeOK, NothingEarly, Stopped, EndRun,
     timing, context, store
<1>3. PlanIsConsumed' /\ FailedCaptureEnds' /\ WithinBudget' /\ RequestsAreTold' /\ BudgetFollows'
  BY <1>1 DEF ScanInv, PlanIsConsumed, SubmittedOnce, FailedCaptureEnds, WithinBudget,
     RequestsAreTold, BudgetFollows,
     Stopped, EndRun, timing, context, store
<1>4. FollowedIsOurs' /\ OkIsOurScan'
  BY <1>1 DEF FollowedIsOurs, OkIsOurScan
<1> QED
  BY <1>2, <1>3, <1>4 DEF ScanInv

\* A capture that fails: the run of a graph ends without a result, and the one
\* target of an agent has a result that knows of no request.
LEMMA ArchiveFailsKeeps == ASSUME ScanInv, ArchiveFails PROVE ScanInv'
<1>1. /\ TypeOK /\ run \in Runs /\ pc \in {"answered", "poll", "dom", "screenshot"}
      /\ Scanning /\ targets \in 1 .. Planned
      /\ UNCHANGED <<run, agentic, email_deadline, scan_deadline, budget, journal, midnight,
                     posts, late, scans, finished>>
      /\ unarchived' \in {"submission", "other"}
  BY DEF ScanInv, NothingEarly, PlanIsConsumed, TypeOK, ArchiveFails, Scanning, context, provider
<1>2. time' \in 0 .. MaxTime
  BY <1>1, ExchangeEnds DEF ScanInv, ArchiveFails, TypeOK
<1>3. /\ pc' = "none" /\ targets' = 0 /\ answer' = Null /\ requests' = 0
      /\ results' \subseteq Result /\ \A r \in results' : r.status = "ok" => r \in results
  <2>1. CASE agentic
    <3> DEFINE new == [status |-> "unavailable", requests |-> 0, scan |-> "none"]
    <3>1. new \in Result /\ new.status # "ok"
      BY DEF Result
    <3>2. targets = 1
      BY <1>1, <2>1, PlannedType DEF ScanInv, FailedCaptureEnds
    <3>3. results' = results \cup {new} /\ targets' = targets - 1 /\ answer' = Null
          /\ requests' = 0 /\ pc' = IF targets' = 0 THEN "none" ELSE "gates"
      BY <2>1 DEF ArchiveFails, Raised, Return
    <3> HIDE DEF new
    <3> QED
      BY <1>1, <3>1, <3>2, <3>3 DEF TypeOK
  <2>2. CASE ~agentic
    BY <2>2 DEF ArchiveFails, Raised, EndRun
  <2> QED
    BY <2>1, <2>2
<1>4. ~Scanning' /\ ~Following' /\ pc' \notin {"gates", "posting", "answered"}
  BY <1>3 DEF Scanning, Following
<1>5. TypeOK'
  BY <1>1, <1>2, <1>3, PlannedType DEF TypeOK
<1>6. NothingEarly' /\ OkIsOurScan'
  BY <1>1, <1>3 DEF ScanInv, NothingEarly, OkIsOurScan
<1>7. PlanIsConsumed' /\ FailedCaptureEnds' /\ WithinBudget' /\ FollowedIsOurs'
  BY <1>1, <1>3, <1>4 DEF ScanInv, PlanIsConsumed, SubmittedOnce, FailedCaptureEnds, WithinBudget,
     FollowedIsOurs
<1>8. RequestsAreTold'
  BY <1>1, <1>4 DEF RequestsAreTold
<1>9. BudgetFollows'
  <2>1. unarchived' = "submission" \/ Following
    BY DEF ArchiveFails, Following
  <2> QED
    BY <1>1, <1>4, <2>1 DEF ScanInv, BudgetFollows
<1> QED
  BY <1>5, <1>6, <1>7, <1>8, <1>9 DEF ScanInv

\* The POST and its two outcomes.
LEMMA AnsweredKeeps == ASSUME ScanInv, Answered PROVE ScanInv'
<1>1. pc = "posting" /\ pc' = "answered" /\ Scanning /\ Scanning' /\ ~Following' /\ ~Returned'
  BY DEF Answered, Scanning, Following, Returned
<1>2. time' \in time .. scan_deadline /\ time' \in 0 .. MaxTime
  BY <1>1, ExchangeEnds DEF ScanInv, Answered, context
<1>3. TypeOK' /\ NothingEarly'
  BY <1>1, <1>2 DEF ScanInv, TypeOK, NothingEarly, Answered, store, provider, context
<1>4. PlanIsConsumed' /\ FailedCaptureEnds' /\ RequestsAreTold' /\ BudgetFollows'
  BY <1>1 DEF ScanInv, PlanIsConsumed, SubmittedOnce, FailedCaptureEnds, RequestsAreTold,
     BudgetFollows,
     Answered, store, context
<1>5. WithinBudget'
  BY <1>1, <1>2 DEF ScanInv, TypeOK, WithinBudget, Answered, context
<1>6. FollowedIsOurs' /\ OkIsOurScan'
  BY <1>1 DEF ScanInv, FollowedIsOurs, OkIsOurScan, Answered, provider, context
<1> QED
  BY <1>3, <1>4, <1>5, <1>6 DEF ScanInv

LEMMA PostFailsKeeps == ASSUME ScanInv, PostFails PROVE ScanInv'
<1>1. pc = "posting" /\ Scanning /\ TypeOK /\ run \in Runs
  BY DEF PostFails, Scanning, ScanInv, NothingEarly, context
<1>2. time' \in 0 .. MaxTime
  BY <1>1, ExchangeEnds DEF ScanInv, PostFails, context
<1>3. /\ budget' \in [Runs -> Nat] /\ journal' \in [Runs -> Nat]
      /\ midnight' = midnight /\ unarchived' = unarchived
      /\ \A r \in Runs : r > run => budget'[r] = 0 /\ journal'[r] = 0
      /\ ~midnight => budget'[run] = posts[run]
  BY <1>1, Recorded DEF PostFails, context
<1>4. late' \subseteq Runs
  BY <1>1 DEF PostFails, TypeOK, context
<1> QED
  BY <1>1, <1>2, <1>3, <1>4, ReturnKeeps DEF PostFails, context

LEMMA RecordKeeps == ASSUME ScanInv, Record PROVE ScanInv'
<1>1. /\ pc = "answered" /\ Scanning /\ TypeOK /\ run \in Runs
      /\ requests \in Nat \ {0} /\ time \in 0 .. MaxTime
  BY DEF Record, Scanning, ScanInv, NothingEarly, RequestsAreTold, TypeOK, context
<1>2. /\ budget' \in [Runs -> Nat] /\ journal' \in [Runs -> Nat]
      /\ midnight' = midnight /\ unarchived' = unarchived
      /\ \A r \in Runs : r > run => budget'[r] = 0 /\ journal'[r] = 0
      /\ ~midnight => budget'[run] = posts[run]
  BY <1>1, Recorded DEF Record, timing, context
<1>3. CASE answer # "ok"
  BY <1>1, <1>2, <1>3, ReturnKeeps DEF Record, timing, context, provider, TypeOK
<1>4. CASE answer = "ok"
  <2>1. /\ pc' = "first_wait" /\ Scanning' /\ Following' /\ ~Returned'
        /\ UNCHANGED <<targets, answer, requests, results>>
    BY <1>4 DEF Record, Scanning, Following, Returned, context
  <2>2. TypeOK' /\ NothingEarly'
    BY <1>1, <1>2, <2>1 DEF ScanInv, TypeOK, NothingEarly, Record, timing, context, provider
  <2>3. PlanIsConsumed' /\ FailedCaptureEnds' /\ RequestsAreTold' /\ BudgetFollows'
    BY <1>1, <1>2, <2>1 DEF ScanInv, PlanIsConsumed, SubmittedOnce, FailedCaptureEnds,
       RequestsAreTold,
       BudgetFollows, Record, timing, context
  <2>4. WithinBudget' /\ FollowedIsOurs' /\ OkIsOurScan'
    BY <1>1, <1>4, <2>1 DEF ScanInv, WithinBudget, FollowedIsOurs, OkIsOurScan, Record, timing,
       context,
       provider
  <2> QED
    BY <2>2, <2>3, <2>4 DEF ScanInv
<1> QED
  BY <1>3, <1>4

\* The waits and the exchanges that follow.
LEMMA PollKeeps ==
  ASSUME ScanInv, Wait \/ PollExpires \/ PollPending \/ PollFails \/ PollSucceeds
  PROVE  ScanInv'
<1>1. /\ Following /\ Scanning /\ TypeOK /\ WithinBudget /\ run \in Runs
      /\ requests \in Nat \ {0} /\ time \in time .. scan_deadline /\ time \in 0 .. MaxTime
      /\ budget \in [Runs -> Nat] /\ journal \in [Runs -> Nat] /\ late \subseteq Runs
      /\ \A r \in Runs : r > run => budget[r] = 0 /\ journal[r] = 0
      /\ ~midnight => budget[run] = posts[run]
  BY DEF Wait, PollExpires, PollPending, PollFails, PollSucceeds, Following, Scanning, ScanInv,
     NothingEarly, RequestsAreTold, TypeOK, WithinBudget, BudgetFollows, context
<1>2. requests + 1 \in Nat \ {0}
  BY <1>1
<1>3. Exchange => time' \in time .. scan_deadline /\ time' \in 0 .. MaxTime
  BY <1>1, ExchangeEnds
<1>4. CASE Wait
  <2>1. FirstPoll \in Nat /\ PollInterval \in Nat
    BY ScanAssumption
  <2>2. time' \in time .. scan_deadline /\ time' \in 0 .. MaxTime
    BY <1>1, <1>4, <2>1, NapEnds DEF Wait, context
  <2> QED
    BY <1>1, <1>4, <2>2, FollowKeeps DEF Wait, context
<1>5. CASE PollExpires
  BY <1>1, <1>5, ReturnKeeps DEF PollExpires, timing, context, store, provider
<1>6. CASE PollPending
  BY <1>1, <1>2, <1>3, <1>6, FollowKeeps DEF PollPending, context
<1>7. CASE PollFails
  BY <1>1, <1>2, <1>3, <1>7, ReturnKeeps DEF PollFails, store, provider, context
<1>8. CASE PollSucceeds
  BY <1>1, <1>2, <1>3, <1>8, FollowKeeps DEF PollSucceeds, context
<1> QED
  BY <1>4, <1>5, <1>6, <1>7, <1>8

LEMMA FetchKeeps == ASSUME ScanInv, FetchDom \/ FetchScreenshot PROVE ScanInv'
<1>1. /\ Following /\ Scanning /\ TypeOK /\ WithinBudget /\ run \in Runs
      /\ run \in finished /\ answer = "ok"
      /\ requests \in Nat \ {0} /\ time \in time .. scan_deadline /\ time \in 0 .. MaxTime
      /\ budget \in [Runs -> Nat] /\ journal \in [Runs -> Nat] /\ late \subseteq Runs
      /\ \A r \in Runs : r > run => budget[r] = 0 /\ journal[r] = 0
      /\ ~midnight => budget[run] = posts[run]
  BY DEF FetchDom, FetchScreenshot, Following, Scanning, ScanInv, NothingEarly,
     RequestsAreTold, TypeOK, WithinBudget, BudgetFollows, FollowedIsOurs, context
<1>2. requests + 1 \in Nat \ {0} /\ requests + 0 \in Nat \ {0}
  BY <1>1
<1>3. Exchange => time' \in time .. scan_deadline /\ time' \in 0 .. MaxTime
  BY <1>1, ExchangeEnds
<1>4. CASE FetchDom
  <2>1. requests' \in Nat \ {0} /\ time' \in time .. scan_deadline /\ time' \in 0 .. MaxTime
    BY <1>1, <1>2, <1>3, <1>4 DEF FetchDom, context
  <2> QED
    BY <1>1, <1>4, <2>1, FollowKeeps DEF FetchDom, context
<1>5. CASE FetchScreenshot
  <2>1. time' \in 0 .. MaxTime
    BY <1>1, <1>3, <1>5 DEF FetchScreenshot, context
  <2>2. PICK sent \in Nat \ {0} : Return("ok", sent, "ours")
    BY <1>1, <1>2, <1>5 DEF FetchScreenshot, context
  <2> QED
    BY <1>1, <1>5, <2>1, <2>2, ReturnKeeps DEF FetchScreenshot, store, provider, context
<1> QED
  BY <1>4, <1>5

-----------------------------------------------------------------------------
(***************************************************************************)
(* The theorems.                                                           *)
(***************************************************************************)

LEMMA ScanInitially == Init => ScanInv
<1> SUFFICES ASSUME Init PROVE ScanInv
  OBVIOUS
<1>1. ~Scanning /\ ~Following /\ ~Returned /\ pc = "none" /\ results = {}
  BY DEF Init, Scanning, Following, Returned
<1>2. TypeOK
  <2>1. Empty \in [Runs -> Nat]
    BY DEF Empty
  <2>2. 0 \in 0 .. MaxRuns /\ 0 \in 0 .. MaxTime /\ 0 \in 0 .. Planned
    BY ScanAssumption, PlannedType
  <2> QED
    BY <2>1, <2>2 DEF Init, TypeOK
<1>3. NothingEarly /\ PlanIsConsumed /\ FailedCaptureEnds
  BY <1>1, ScanAssumption DEF Init, NothingEarly, PlanIsConsumed, FailedCaptureEnds,
     SubmittedOnce, Empty
<1>4. WithinBudget /\ RequestsAreTold /\ BudgetFollows /\ FollowedIsOurs /\ OkIsOurScan
  BY <1>1 DEF WithinBudget, RequestsAreTold, BudgetFollows, FollowedIsOurs, OkIsOurScan
<1> QED
  BY <1>2, <1>3, <1>4 DEF ScanInv

LEMMA ScanStutters == ASSUME ScanInv, UNCHANGED vars PROVE ScanInv'
BY DEF vars, ScanInv, TypeOK, NothingEarly, PlanIsConsumed, SubmittedOnce, FailedCaptureEnds,
   WithinBudget,
   RequestsAreTold, BudgetFollows, FollowedIsOurs, OkIsOurScan, Scanning, Following, Returned

LEMMA ScanKept == ScanInv /\ [Next]_vars => ScanInv'
<1> SUFFICES ASSUME ScanInv, [Next]_vars PROVE ScanInv'
  OBVIOUS
<1>1. CASE StartRun
  BY <1>1, StartRunKeeps
<1>2. CASE ScanStep
  BY <1>2, GateRefusesKeeps, SubmitKeeps, AnsweredKeeps, PostFailsKeeps, RecordKeeps, PollKeeps,
     FetchKeeps DEF ScanStep
<1>3. CASE Environment
  BY <1>3, ReceiveKeeps, FinishKeeps, MidnightKeeps, StoppedKeeps,
     ArchiveFailsKeeps DEF Environment
<1>4. CASE UNCHANGED vars
  BY <1>4, ScanStutters
<1> QED
  BY <1>1, <1>2, <1>3, <1>4 DEF Next

\* However the provider, midnight and a kill interleave with scan, what is
\* submitted, consumed, told and recorded stay in step.
THEOREM ScanInvariant == Spec => []ScanInv
BY ScanInitially, ScanKept, PTL DEF Spec

THEOREM ScanTypes == Spec => []TypeOK
<1>1. ScanInv => TypeOK
  BY DEF ScanInv
<1> QED
  BY <1>1, ScanInvariant, PTL

\* An ambiguous POST is never repeated within its run; the results tell of it
\* and the budget of the day knows it, unless the capture of an answer failed.
THEOREM SubmissionsAccounted == Spec => []SubmissionsAreAccounted
<1>1. ASSUME ScanInv PROVE SubmissionsAreAccounted
  <2>1. SubmittedOnce
    BY <1>1 DEF ScanInv, PlanIsConsumed
  <2>2. Returned => run \in Runs
    BY <1>1 DEF ScanInv, NothingEarly, Returned
  <2>3. Returned /\ scans[run] > 0 => posts[run] > 0
    BY <1>1, <2>2 DEF ScanInv, NothingEarly, TypeOK
  <2>4. NoSubmissionIsDenied
    BY <1>1, <2>3 DEF ScanInv, RequestsAreTold, NoSubmissionIsDenied
  <2>5. SubmissionRemembered
    BY <1>1 DEF ScanInv, BudgetFollows, SubmissionRemembered
  <2> QED
    BY <2>1, <2>4, <2>5 DEF SubmissionsAreAccounted
<1> QED
  BY <1>1, ScanInvariant, PTL

\* No wait and no exchange outlasts the phase or the deadline of the email.
THEOREM ScanFits == Spec => []WithinBudget
<1>1. ScanInv => WithinBudget
  BY DEF ScanInv
<1> QED
  BY <1>1, ScanInvariant, PTL

\* An ok result is about the finished scan that its run submitted.
THEOREM OkIsOurs == Spec => []OkIsOurScan
<1>1. ScanInv => OkIsOurScan
  BY DEF ScanInv
<1> QED
  BY <1>1, ScanInvariant, PTL
=============================================================================
