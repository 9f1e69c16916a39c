---------------------------- MODULE TriageProofs ----------------------------
(***************************************************************************)
(* Theorems about the pipeline for every set of emails and of answers, and *)
(* every threshold.                                                        *)
(***************************************************************************)
EXTENDS Triage, TLAPS

-----------------------------------------------------------------------------
(***************************************************************************)
(* The policy and the gate.                                                *)
(***************************************************************************)

\* The recommendation is one of the three actions, whatever the inputs.
LEMMA PolicyType == ASSUME NEW in PROVE decide_policy(in) \in Actions
  BY DEF decide_policy, Actions

\* AUTO is only returned when not a single issue was recorded: the silence of
\* the run is what P5 requires.
LEMMA AutoNeedsSilence ==
  ASSUME NEW in, decide_policy(in) = "AUTO"
  PROVE  in.issues = {} /\ ~in.parser_error
  BY DEF decide_policy, AutoEligible, BlockingFacts

\* A critical issue, or a confirmation that nothing contradicts, escalates.
LEMMA EscalationHasPriority ==
  ASSUME NEW in,
         \/ in.issues \cap CriticalCodes # {}
         \/ in.admissible_confirmation /\ ~in.confirmation_contradicted
  PROVE  decide_policy(in) = "ESCALATE"
  BY DEF decide_policy

LEMMA GateType ==
  ASSUME NEW p, NEW a PROVE decide_gate(p, a) \in {"simple", "complex"}
  BY DEF decide_gate

-----------------------------------------------------------------------------
(***************************************************************************)
(* Type correctness.                                                       *)
(***************************************************************************)

LEMMA VerifierCodes ==
  /\ RunIssues \subseteq IssueCodes
  /\ ContentIssues \subseteq IssueCodes
<1>1. RunIssues \subseteq IssueCodes
  BY DEF RunIssues, AssessmentIssues, IssueCodes, CriticalCodes, ErrorCodes, WarningCodes
<1>2. ContentIssues \subseteq IssueCodes
  BY DEF ContentIssues, IssueCodes, CriticalCodes, ErrorCodes
<1> QED
  BY <1>1, <1>2

LEMMA InitTypeOK == Init => TypeOK
  BY DEF Init, TypeOK, Nodes, CallStatus, FinalSources, Actions, ScanOutcomes

LEMMA NextTypeOK == TypeOK /\ [Next]_vars => TypeOK'
<1> SUFFICES ASSUME TypeOK, [Next]_vars
             PROVE  TypeOK'
  OBVIOUS
<1> USE DEF TypeOK, Edge
<1>1. CASE ParseEmail
  BY <1>1, InputsAssumption DEF ParseEmail, Nodes
<1>2. CASE ParseFails
  BY <1>2 DEF ParseFails, Nodes, IssueCodes, ErrorCodes, Faults
<1>3. CASE InternalAnswered
  BY <1>3, InputsAssumption DEF InternalAnswered, Nodes, CallStatus
<1>4. CASE InternalFails
  BY <1>4 DEF InternalFails, Nodes, CallStatus, IssueCodes, ErrorCodes, Faults
<1>5. CASE ComplexityGate
  <2>1. gate' \in {"simple", "complex"} /\ node' \in Nodes
    BY <1>5, GateType DEF ComplexityGate, Nodes
  <2>2. final_candidate' \in Assessment \cup {Null} /\ final_source' \in FinalSources
    BY <1>5 DEF ComplexityGate, FinalSources
  <2> QED
    BY <1>5, <2>1, <2>2 DEF ComplexityGate
<1>6. CASE VirusTotal
  BY <1>6, InputsAssumption DEF VirusTotal, Nodes
<1>7. CASE OpenCTI
  BY <1>7, InputsAssumption DEF OpenCTI, Nodes
<1>8. CASE Urlscan
  BY <1>8 DEF Urlscan, Nodes
<1>9. CASE RagLookup
  BY <1>9 DEF RagLookup, Nodes
<1>10. CASE RagFails
  BY <1>10 DEF RagFails, Nodes, IssueCodes, ErrorCodes, Faults
<1>11. CASE MergeEvidence
  BY <1>11 DEF MergeEvidence, MergedEvidence, Nodes
<1>12. CASE MergeRefused
  BY <1>12 DEF MergeRefused, Nodes, IssueCodes, CriticalCodes, Faults
<1>13. CASE FinalAnswered
  <2> PICK a \in FinalAnswers, sent \in AuditOfCall :
           Citable(a, sent) /\ audit' = sent /\ Select(a, "ok")
    BY <1>13 DEF FinalAnswered
  <2>1. a \in Assessment /\ a # Null
    BY InputsAssumption, NullAssumption
  <2>2. audit' \in {"null", "external", "no_external"}
    BY DEF AuditOfCall
  <2>3. /\ final_candidate' \in Assessment
        /\ final_source' = "final_llm" /\ final_call' = "ok"
        /\ UNCHANGED <<errors, faults>>
    BY <2>1 DEF Select
  <2> QED
    BY <1>13, <2>2, <2>3 DEF FinalAnswered, Nodes, CallStatus, FinalSources
<1>14. CASE FinalFails
  <2>1. audit' \in {"null", "external", "no_external"} /\ final_call' \in CallStatus
    BY <1>14 DEF FinalFails, Select, AuditOfCall, CallStatus
  <2>2. PICK call \in CallStatus : Select(Null, call)
    BY <1>14 DEF FinalFails, CallStatus
  <2>3. /\ final_candidate' \in Assessment \cup {Null}
        /\ final_source' \in FinalSources
        /\ errors' \in SUBSET IssueCodes
        /\ faults' \in SUBSET Faults
    BY <2>2 DEF Select, FinalSources, IssueCodes, ErrorCodes, WarningCodes, Faults
  <2> QED
    BY <1>14, <2>1, <2>3 DEF FinalFails, Nodes
<1>15. CASE Verify
  BY <1>15, VerifierCodes DEF Verify, Nodes
<1>16. CASE DecidePolicy
  BY <1>16, PolicyType DEF DecidePolicy, Nodes
<1>17. CASE WriteReport
  BY <1>17 DEF WriteReport
<1>18. CASE ReportRefused
  BY <1>18 DEF ReportRefused
<1>19. CASE Abort
  BY <1>19 DEF Abort
<1>20. CASE UNCHANGED vars
  BY <1>20 DEF vars
<1> QED
  BY <1>1, <1>2, <1>3, <1>4, <1>5, <1>6, <1>7, <1>8, <1>9, <1>10, <1>11,
     <1>12, <1>13, <1>14, <1>15, <1>16, <1>17, <1>18, <1>19, <1>20
     DEF Next, Finished

\* Every field of the run keeps its type, for every parser and every model.
THEOREM TypeCorrect == Spec => []TypeOK
<1>1. Init => TypeOK
  BY InitTypeOK
<1>2. TypeOK /\ [Next]_vars => TypeOK'
  BY NextTypeOK
<1> QED
  BY <1>1, <1>2, PTL DEF Spec

-----------------------------------------------------------------------------
(***************************************************************************)
(* What the run remembers of its faults.  Each conjunct relates a node to  *)
(* what the earlier nodes left behind:                                     *)
(*   - a fault, or a missing key, is recorded in the list of errors, which *)
(*     no later patch empties;                                             *)
(*   - the recommendation is AUTO only when that list stayed empty;        *)
(*   - a scan was only submitted for a parsed email, and its confirmation  *)
(*     is in the registry once the merge is over, or the merge was refused.*)
(***************************************************************************)
BeforeAnalysis == node \in {"parse_email", "internal_assessment"}

Merged ==
    node \in {"final_assessment", "verify", "policy", "write_report", "end"}

Recorded ==
    /\ faults # {} => errors # {}
    /\ ~key /\ ~BeforeAnalysis /\ node # "failed" => errors # {}

AutoIsSilent == Decided /\ action = "AUTO" => errors = {}

ScanIsTraced ==
    /\ node \in {"parse_email", "internal_assessment", "complexity_gate"} => urlscan = "none"
    /\ Merged /\ urlscan = "confirmed" =>
          \/ "confirmation" \in evidence
          \/ "evidence_merge_refused" \in errors
    /\ urlscan # "none" => parsed # Null

ConfirmedIsEscalated ==
    /\ Decided
    /\ \/ "evidence_merge_refused" \in errors
       \/ "confirmation" \in evidence /\ ~Contradicts(final_validated, evidence)
    => action = "ESCALATE"

PipelineInv ==
    /\ TypeOK
    /\ Recorded
    /\ AutoIsSilent
    /\ ScanIsTraced
    /\ ConfirmedIsEscalated

LEMMA InitPipelineInv == Init => PipelineInv
<1> SUFFICES ASSUME Init PROVE PipelineInv
  OBVIOUS
<1>1. TypeOK
  BY InitTypeOK
<1> QED
  BY <1>1 DEF Init, PipelineInv, Recorded, AutoIsSilent, ScanIsTraced,
     ConfirmedIsEscalated, BeforeAnalysis, Merged, Decided

\* A patch replaces the list of errors by a longer one, never by a shorter one.
LEMMA ErrorsOnlyGrow == [Next]_vars => errors \subseteq errors'
<1> SUFFICES ASSUME [Next]_vars PROVE errors \subseteq errors'
  OBVIOUS
<1>1. CASE InternalFails
  BY <1>1 DEF InternalFails
<1>2. CASE ParseFails \/ RagFails \/ MergeRefused
  BY <1>2 DEF ParseFails, RagFails, MergeRefused
<1>3. CASE FinalAnswered \/ FinalFails
  BY <1>3 DEF FinalAnswered, FinalFails, Select
<1> QED
  BY <1>1, <1>2, <1>3 DEF Next, Finished, vars, ParseEmail, InternalAnswered, ComplexityGate, VirusTotal, OpenCTI, Urlscan, RagLookup, MergeEvidence, Verify, DecidePolicy, WriteReport, ReportRefused, Abort

LEMMA RecordedInvariant == Recorded /\ [Next]_vars => Recorded'
<1> SUFFICES ASSUME Recorded, [Next]_vars PROVE Recorded'
  OBVIOUS
<1> USE DEF Recorded, BeforeAnalysis, Edge
<1>1. errors \subseteq errors'
  BY ErrorsOnlyGrow
<1>2. CASE ParseEmail \/ ParseFails
  BY <1>1, <1>2 DEF ParseEmail, ParseFails
<1>3. CASE InternalAnswered \/ InternalFails
  BY <1>1, <1>3 DEF InternalAnswered, InternalFails
<1>4. CASE ComplexityGate
  BY <1>1, <1>4 DEF ComplexityGate
<1>5. CASE VirusTotal \/ OpenCTI \/ Urlscan
  BY <1>1, <1>5 DEF VirusTotal, OpenCTI, Urlscan
<1>6. CASE RagLookup \/ RagFails
  BY <1>1, <1>6 DEF RagLookup, RagFails
<1>7. CASE MergeEvidence \/ MergeRefused
  BY <1>1, <1>7 DEF MergeEvidence, MergeRefused
<1>8. CASE FinalAnswered
  BY <1>1, <1>8 DEF FinalAnswered, Select
<1>9. CASE FinalFails
  BY <1>1, <1>9 DEF FinalFails, Select
<1>10. CASE Verify \/ DecidePolicy
  BY <1>1, <1>10 DEF Verify, DecidePolicy
<1>11. CASE WriteReport \/ ReportRefused \/ Abort
  BY <1>1, <1>11 DEF WriteReport, ReportRefused, Abort
<1>12. CASE UNCHANGED vars
  BY <1>12 DEF vars
<1> QED
  BY <1>2, <1>3, <1>4, <1>5, <1>6, <1>7, <1>8, <1>9, <1>10, <1>11, <1>12
     DEF Next, Finished

\* Only the policy node and the archiving of its decision reach Decided.
LEMMA DecidedOnlyAfterPolicy ==
  ASSUME Next, Decided'
  PROVE  DecidePolicy \/ (WriteReport /\ Decided) \/ (UNCHANGED vars /\ Decided)
<1> USE DEF Decided, Edge
<1>1. CASE ComplexityGate
  BY <1>1 DEF ComplexityGate
<1>2. CASE Finished
  BY <1>2 DEF Finished, vars
<1>3. CASE WriteReport
  BY <1>3 DEF WriteReport
<1>4. CASE Abort
  BY <1>4 DEF Abort
<1> QED
  BY <1>1, <1>2, <1>3, <1>4
     DEF Next, ParseEmail, ParseFails, InternalAnswered, InternalFails, VirusTotal,
         OpenCTI, Urlscan, RagLookup, RagFails, MergeEvidence, MergeRefused,
         FinalAnswered, FinalFails, Verify, ReportRefused

LEMMA AutoIsSilentInvariant == AutoIsSilent /\ [Next]_vars => AutoIsSilent'
<1> SUFFICES ASSUME AutoIsSilent, [Next]_vars, Decided', action' = "AUTO"
             PROVE  errors' = {}
  BY DEF AutoIsSilent
<1>1. CASE DecidePolicy
  <2>1. PolicyInputs.issues = verification \cup errors
    BY DEF PolicyInputs
  <2>2. PolicyInputs.issues = {}
    BY <1>1, AutoNeedsSilence DEF DecidePolicy
  <2> QED
    BY <1>1, <2>1, <2>2 DEF DecidePolicy
<1>2. CASE WriteReport /\ Decided
  BY <1>2 DEF WriteReport, AutoIsSilent
<1>3. CASE UNCHANGED vars
  BY <1>3 DEF vars, AutoIsSilent, Decided
<1> QED
  BY <1>1, <1>2, <1>3, DecidedOnlyAfterPolicy

LEMMA ScanIsTracedInvariant == ScanIsTraced /\ [Next]_vars => ScanIsTraced'
<1> SUFFICES ASSUME ScanIsTraced, [Next]_vars PROVE ScanIsTraced'
  OBVIOUS
<1> USE DEF ScanIsTraced, Merged, Edge
<1>1. CASE ParseEmail \/ ParseFails \/ InternalAnswered \/ InternalFails
  BY <1>1 DEF ParseEmail, ParseFails, InternalAnswered, InternalFails
<1>2. CASE ComplexityGate
  BY <1>2 DEF ComplexityGate
<1>3. CASE VirusTotal \/ OpenCTI \/ Urlscan \/ RagLookup \/ RagFails
  BY <1>3 DEF VirusTotal, OpenCTI, Urlscan, RagLookup, RagFails
<1>4. CASE MergeEvidence
  BY <1>4 DEF MergeEvidence, MergedEvidence
<1>5. CASE MergeRefused
  BY <1>5 DEF MergeRefused
<1>6. CASE FinalAnswered
  BY <1>6, ErrorsOnlyGrow DEF FinalAnswered
<1>7. CASE FinalFails
  BY <1>7, ErrorsOnlyGrow DEF FinalFails
<1>8. CASE Verify \/ DecidePolicy \/ WriteReport \/ ReportRefused \/ Abort
  BY <1>8 DEF Verify, DecidePolicy, WriteReport, ReportRefused, Abort
<1>9. CASE UNCHANGED vars
  BY <1>9 DEF vars
<1> QED
  BY <1>1, <1>2, <1>3, <1>4, <1>5, <1>6, <1>7, <1>8, <1>9 DEF Next, Finished

LEMMA ConfirmedIsEscalatedInvariant ==
  ConfirmedIsEscalated /\ [Next]_vars => ConfirmedIsEscalated'
<1> DEFINE Reason == \/ "evidence_merge_refused" \in errors
                     \/ "confirmation" \in evidence /\ ~Contradicts(final_validated, evidence)
<1> SUFFICES ASSUME ConfirmedIsEscalated, [Next]_vars, Decided', Reason'
             PROVE  action' = "ESCALATE"
  BY DEF ConfirmedIsEscalated
<1>1. CASE DecidePolicy
  <2>1. Reason
    BY <1>1 DEF DecidePolicy
  <2>2. \/ PolicyInputs.issues \cap CriticalCodes # {}
        \/ /\ PolicyInputs.admissible_confirmation
           /\ ~PolicyInputs.confirmation_contradicted
    BY <2>1 DEF PolicyInputs, CriticalCodes
  <2> QED
    BY <1>1, <2>2, EscalationHasPriority DEF DecidePolicy
<1>2. CASE WriteReport /\ Decided
  BY <1>2 DEF WriteReport, ConfirmedIsEscalated
<1>3. CASE UNCHANGED vars
  BY <1>3 DEF vars, ConfirmedIsEscalated, Decided
<1> QED
  BY <1>1, <1>2, <1>3, DecidedOnlyAfterPolicy

\* The strengthened invariant holds in every reachable state.
THEOREM PipelineInvariant == Spec => []PipelineInv
<1>1. Init => PipelineInv
  BY InitPipelineInv
<1>2. PipelineInv /\ [Next]_vars => PipelineInv'
  BY NextTypeOK, RecordedInvariant, AutoIsSilentInvariant, ScanIsTracedInvariant,
     ConfirmedIsEscalatedInvariant DEF PipelineInv
<1> QED
  BY <1>1, <1>2, PTL DEF Spec

\* A run that met a fault, or has no key, never ends in AUTO.
THEOREM AutoEarned == Spec => []AutoIsEarned
<1>1. PipelineInv => AutoIsEarned
  BY DEF PipelineInv, TypeOK, Recorded, AutoIsSilent, AutoIsEarned, Decided, BeforeAnalysis
<1> QED
  BY <1>1, PipelineInvariant, PTL

\* A confirmed scan escalates unless the assessment records a conflict.
THEOREM ConfirmedScanEscalates == Spec => []ConfirmationEscalates
<1>1. PipelineInv => ConfirmationEscalates
  BY DEF PipelineInv, ScanIsTraced, ConfirmedIsEscalated, ConfirmationEscalates,
         Decided, Merged
<1> QED
  BY <1>1, PipelineInvariant, PTL

-----------------------------------------------------------------------------
(***************************************************************************)
(* The contract: safety part of the refinement.                            *)
(***************************************************************************)
LEMMA ContractInit == Init => Contract!Init
  BY DEF Init, Contract!Init, Stage

LEMMA ContractStep ==
  PipelineInv /\ AutoIsEarned' /\ [Next]_vars => [Contract!Next]_(Contract!vars)
<1> SUFFICES ASSUME PipelineInv, AutoIsEarned', [Next]_vars
             PROVE  [Contract!Next]_(Contract!vars)
  OBVIOUS
<1> USE DEF Stage, Edge, Contract!vars
<1>1. CASE ParseEmail \/ InternalAnswered \/ VirusTotal \/ OpenCTI \/ Urlscan
           \/ RagLookup \/ MergeEvidence \/ Verify
  BY <1>1 DEF ParseEmail, InternalAnswered, VirusTotal, OpenCTI, Urlscan,
              RagLookup, MergeEvidence, Verify
<1>2. CASE ComplexityGate
  BY <1>2 DEF ComplexityGate
<1>3. CASE ParseFails \/ InternalFails \/ RagFails \/ MergeRefused
  BY <1>3 DEF ParseFails, InternalFails, RagFails, MergeRefused,
              Contract!Next, Contract!MeetFault, Faults
<1>4. CASE FinalAnswered
  <2>1. UNCHANGED <<faults, action>>
    BY <1>4, InputsAssumption, NullAssumption DEF FinalAnswered, Select
  <2> QED
    BY <1>4, <2>1 DEF FinalAnswered
<1>5. CASE FinalFails
  <2>1. faults' = faults \cup {"final"} /\ UNCHANGED action
    BY <1>5 DEF FinalFails, Select
  <2> QED
    BY <1>5, <2>1 DEF FinalFails, Contract!Next, Contract!MeetFault, Faults
<1>6. CASE DecidePolicy
  <2>1. action' \in Actions /\ faults' = faults
    BY <1>6, PolicyType DEF DecidePolicy
  <2>2. action' = "AUTO" => faults = {}
    BY <1>6, <2>1 DEF AutoIsEarned, Decided, DecidePolicy
  <2> QED
    BY <1>6, <2>1, <2>2 DEF DecidePolicy, Actions, Contract!Next, Contract!Recommend
<1>7. CASE WriteReport
  BY <1>7 DEF WriteReport, Contract!Next, Contract!Archive
<1>8. CASE ReportRefused \/ Abort
  BY <1>8 DEF ReportRefused, Abort, Nodes, Contract!Next, Contract!Fail
<1>9. CASE UNCHANGED vars
  BY <1>9 DEF vars
<1> QED
  BY <1>1, <1>2, <1>3, <1>4, <1>5, <1>6, <1>7, <1>8, <1>9 DEF Next, Finished

\* The pipeline makes one recommendation, never AUTO after a fault, and never
\* revises it: every step is a step of the contract or leaves it unchanged.
THEOREM ContractRefined == Spec => Contract!Spec
<1>1. Init => Contract!Init
  BY ContractInit
<1>2. PipelineInv /\ AutoIsEarned' /\ [Next]_vars => [Contract!Next]_(Contract!vars)
  BY ContractStep
<1> QED
  BY <1>1, <1>2, PipelineInvariant, AutoEarned, PTL DEF Spec, Contract!Spec

-----------------------------------------------------------------------------
(***************************************************************************)
(* What the run is about at each node:                                     *)
(*   - nothing was looked up or chosen before the gate, and the simple edge*)
(*     leads past the enrichment;                                          *)
(*   - the assessment that is verified is INTERNAL's own, or the audit of  *)
(*     the request that returned it is known;                              *)
(*   - what the policy reads was verified as it stands;                    *)
(*   - a missing INTERNAL is among the errors, and AUTO left none unread.  *)
(***************************************************************************)
BeforeGate == node \in {"parse_email", "internal_assessment", "complexity_gate"}

NothingAsked ==
    /\ virustotal = {} /\ opencti = {} /\ urlscan = "none" /\ ~rag
    /\ final_call = "null"

NothingEarly == BeforeGate => NothingAsked /\ gate = "null" /\ final_candidate = Null

SimpleSkips ==
    gate = "simple" =>
        node \in {"verify", "policy", "write_report", "end", "failed"}

CandidateIsAudited ==
    /\ node \notin {"verify", "policy", "write_report", "end", "failed"} => final_candidate = Null
    /\ final_candidate # Null => final_candidate = internal \/ audit # "null"

VerifiedAsItStands ==
    node \in {"policy", "write_report", "end"} =>
        final_validated = final_candidate /\ RunIssues \subseteq verification

MissingInternalIsRecorded ==
    internal = Null /\ ~BeforeAnalysis /\ node # "failed" => errors # {}

AutoIsUnopposed ==
    Decided /\ action = "AUTO" =>
        verification = {} /\ errors = {} /\ final_validated # Null

CarriedInv ==
    /\ NothingEarly /\ SimpleSkips /\ SimpleIsInternalOnly
    /\ CandidateIsAudited /\ VerifiedAsItStands /\ MissingInternalIsRecorded
    /\ AutoIsUnopposed /\ FallbackNeverDecides

\* The simple edge is taken only when no rule of the gate has a reason.
LEMMA SimpleGate ==
  ASSUME NEW p, NEW a, decide_gate(p, a) = "simple"
  PROVE  /\ p # Null /\ a # Null
         /\ ~p.http_urls /\ ~p.attachments /\ ~p.content_limits
<1>1. R1(a) = {} /\ R2(p) = {} /\ R3(p, a) = {}
  BY DEF decide_gate, GateReasons
<1>2. a # Null
  BY <1>1 DEF R1
<1>3. p # Null
  BY <1>1 DEF R3
<1> QED
  BY <1>1, <1>2, <1>3 DEF R2, R3

\* P5 acts on an assessment, in silence.
LEMMA AutoNeedsAssessment ==
  ASSUME NEW in, decide_policy(in) = "AUTO"
  PROVE  in.issues = {} /\ in.assessment # Null
  BY DEF decide_policy, AutoEligible, BlockingFacts

\* P3: on a copy of INTERNAL only P1 and P2 decide.
LEMMA FallbackIsBlocking ==
  ASSUME NEW in, in.final_source = "internal_fallback"
  PROVE  \/ decide_policy(in) = "REVIEW"
         \/ /\ decide_policy(in) = "ESCALATE"
            /\ in.issues \cap CriticalCodes # {} \/ in.admissible_confirmation
  BY DEF decide_policy, BlockingFacts

LEMMA InitCarriedInv == Init => CarriedInv
  BY DEF Init, CarriedInv, NothingEarly, NothingAsked, SimpleSkips, SimpleIsInternalOnly,
     CandidateIsAudited, VerifiedAsItStands, MissingInternalIsRecorded, AutoIsUnopposed,
     FallbackNeverDecides, BeforeGate, BeforeAnalysis, Decided

LEMMA NothingEarlyInvariant == NothingEarly /\ [Next]_vars => NothingEarly'
<1> SUFFICES ASSUME NothingEarly, [Next]_vars PROVE NothingEarly'
  OBVIOUS
<1> USE DEF NothingEarly, NothingAsked, BeforeGate, Edge
<1>1. CASE ParseEmail \/ ParseFails \/ InternalAnswered \/ InternalFails
  BY <1>1 DEF ParseEmail, ParseFails, InternalAnswered, InternalFails
<1>2. CASE ComplexityGate
  BY <1>2 DEF ComplexityGate
<1>3. CASE VirusTotal \/ OpenCTI \/ Urlscan \/ RagLookup \/ RagFails \/ MergeEvidence
           \/ MergeRefused \/ FinalAnswered \/ FinalFails \/ Verify \/ DecidePolicy
           \/ WriteReport \/ ReportRefused \/ Abort
  BY <1>3 DEF VirusTotal, OpenCTI, Urlscan, RagLookup, RagFails, MergeEvidence,
     MergeRefused, FinalAnswered, FinalFails, Verify, DecidePolicy, WriteReport,
     ReportRefused, Abort
<1>4. CASE UNCHANGED vars
  BY <1>4 DEF vars
<1> QED
  BY <1>1, <1>2, <1>3, <1>4 DEF Next, Finished

LEMMA SimpleInvariant ==
  NothingEarly /\ SimpleSkips /\ SimpleIsInternalOnly /\ [Next]_vars
    => SimpleSkips' /\ SimpleIsInternalOnly'
<1> SUFFICES ASSUME NothingEarly, SimpleSkips, SimpleIsInternalOnly, [Next]_vars,
                    gate' = "simple"
             PROVE  SimpleSkips' /\ SimpleIsInternalOnly'
  BY DEF SimpleSkips, SimpleIsInternalOnly
<1> USE DEF SimpleSkips, SimpleIsInternalOnly, Edge
<1>1. CASE ComplexityGate
  <2>1. /\ node = "complexity_gate" /\ node' = "verify"
        /\ decide_gate(parsed, internal) = "simple"
    BY <1>1 DEF ComplexityGate
  <2>2. /\ parsed # Null /\ internal # Null
        /\ ~parsed.http_urls /\ ~parsed.attachments /\ ~parsed.content_limits
    BY <2>1, SimpleGate
  <2>3. NothingAsked
    BY <2>1 DEF NothingEarly, BeforeGate
  <2> QED
    BY <1>1, <2>1, <2>2, <2>3 DEF ComplexityGate, NothingAsked
<1>2. CASE ParseEmail \/ ParseFails \/ InternalAnswered \/ InternalFails
  BY <1>2 DEF ParseEmail, ParseFails, InternalAnswered, InternalFails
<1>3. CASE VirusTotal \/ OpenCTI \/ Urlscan \/ RagLookup \/ RagFails \/ MergeEvidence
           \/ MergeRefused \/ FinalAnswered \/ FinalFails
  BY <1>3 DEF VirusTotal, OpenCTI, Urlscan, RagLookup, RagFails, MergeEvidence,
     MergeRefused, FinalAnswered, FinalFails
<1>4. CASE Verify \/ DecidePolicy \/ WriteReport \/ ReportRefused \/ Abort
  BY <1>4 DEF Verify, DecidePolicy, WriteReport, ReportRefused, Abort
<1>5. CASE UNCHANGED vars
  BY <1>5 DEF vars
<1> QED
  BY <1>1, <1>2, <1>3, <1>4, <1>5 DEF Next, Finished

LEMMA CandidateInvariant == CandidateIsAudited /\ [Next]_vars => CandidateIsAudited'
<1> SUFFICES ASSUME CandidateIsAudited, [Next]_vars PROVE CandidateIsAudited'
  OBVIOUS
<1> USE DEF CandidateIsAudited, Edge
<1>1. CASE ComplexityGate
  BY <1>1 DEF ComplexityGate
<1>2. CASE FinalAnswered
  BY <1>2 DEF FinalAnswered, AuditOfCall
<1>3. CASE FinalFails
  <2>1. final_candidate' = internal
    BY <1>3 DEF FinalFails, Select
  <2> QED
    BY <1>3, <2>1 DEF FinalFails
<1>4. CASE ParseEmail \/ ParseFails \/ InternalAnswered \/ InternalFails \/ VirusTotal
           \/ OpenCTI \/ Urlscan \/ RagLookup \/ RagFails \/ MergeEvidence \/ MergeRefused
  BY <1>4 DEF ParseEmail, ParseFails, InternalAnswered, InternalFails, VirusTotal,
     OpenCTI, Urlscan, RagLookup, RagFails, MergeEvidence, MergeRefused
<1>5. CASE Verify \/ DecidePolicy \/ WriteReport \/ ReportRefused \/ Abort
  BY <1>5 DEF Verify, DecidePolicy, WriteReport, ReportRefused, Abort
<1>6. CASE UNCHANGED vars
  BY <1>6 DEF vars
<1> QED
  BY <1>1, <1>2, <1>3, <1>4, <1>5, <1>6 DEF Next, Finished

LEMMA VerifiedInvariant == VerifiedAsItStands /\ [Next]_vars => VerifiedAsItStands'
<1> SUFFICES ASSUME VerifiedAsItStands, [Next]_vars,
                    node' \in {"policy", "write_report", "end"}
             PROVE  final_validated' = final_candidate' /\ RunIssues' \subseteq verification'
  BY DEF VerifiedAsItStands
<1> USE DEF VerifiedAsItStands, Edge
<1>1. CASE Verify
  <2>1. RunIssues' = RunIssues
    BY <1>1 DEF Verify, RunIssues, UnsupportedMove
  <2> QED
    BY <1>1, <2>1 DEF Verify
<1>2. CASE DecidePolicy \/ WriteReport \/ UNCHANGED vars
  <2>1. /\ node \in {"policy", "write_report", "end"}
        /\ UNCHANGED <<internal, evidence, audit, final_candidate, final_call,
                       final_source, verification, final_validated>>
    BY <1>2 DEF DecidePolicy, WriteReport, vars
  <2>2. RunIssues' = RunIssues
    BY <2>1 DEF RunIssues, UnsupportedMove
  <2> QED
    BY <2>1, <2>2
<1>3. CASE ComplexityGate
  BY <1>3 DEF ComplexityGate
<1>4. CASE ParseEmail \/ ParseFails \/ InternalAnswered \/ InternalFails \/ VirusTotal
           \/ OpenCTI \/ Urlscan \/ RagLookup \/ RagFails \/ MergeEvidence \/ MergeRefused
           \/ FinalAnswered \/ FinalFails \/ ReportRefused \/ Abort
  BY <1>4 DEF ParseEmail, ParseFails, InternalAnswered, InternalFails, VirusTotal,
     OpenCTI, Urlscan, RagLookup, RagFails, MergeEvidence, MergeRefused,
     FinalAnswered, FinalFails, ReportRefused, Abort
<1> QED
  BY <1>1, <1>2, <1>3, <1>4 DEF Next, Finished

LEMMA MissingInternalInvariant ==
  MissingInternalIsRecorded /\ [Next]_vars => MissingInternalIsRecorded'
<1> SUFFICES ASSUME MissingInternalIsRecorded, [Next]_vars, internal' = Null,
                    ~BeforeAnalysis', node' # "failed"
             PROVE  errors' # {}
  BY DEF MissingInternalIsRecorded
<1> USE DEF MissingInternalIsRecorded, BeforeAnalysis, Edge
<1>1. errors \subseteq errors'
  BY ErrorsOnlyGrow
<1>2. CASE ParseEmail \/ ParseFails
  BY <1>2 DEF ParseEmail, ParseFails
<1>3. CASE InternalAnswered
  BY <1>3, InputsAssumption, NullAssumption DEF InternalAnswered
<1>4. CASE InternalFails
  BY <1>4 DEF InternalFails
<1>5. CASE ComplexityGate
  BY <1>1, <1>5 DEF ComplexityGate
<1>6. CASE VirusTotal \/ OpenCTI \/ Urlscan \/ RagLookup \/ RagFails \/ MergeEvidence
           \/ MergeRefused \/ FinalAnswered \/ FinalFails
  BY <1>1, <1>6 DEF VirusTotal, OpenCTI, Urlscan, RagLookup, RagFails, MergeEvidence,
     MergeRefused, FinalAnswered, FinalFails
<1>7. CASE Verify \/ DecidePolicy \/ WriteReport \/ ReportRefused \/ Abort
  BY <1>1, <1>7 DEF Verify, DecidePolicy, WriteReport, ReportRefused, Abort
<1>8. CASE UNCHANGED vars
  BY <1>8 DEF vars
<1> QED
  BY <1>2, <1>3, <1>4, <1>5, <1>6, <1>7, <1>8 DEF Next, Finished

LEMMA UnopposedInvariant == AutoIsUnopposed /\ [Next]_vars => AutoIsUnopposed'
<1> SUFFICES ASSUME AutoIsUnopposed, [Next]_vars, Decided', action' = "AUTO"
             PROVE  verification' = {} /\ errors' = {} /\ final_validated' # Null
  BY DEF AutoIsUnopposed
<1>1. CASE DecidePolicy
  <2>1. PolicyInputs.issues = verification \cup errors
          /\ PolicyInputs.assessment = final_validated
    BY DEF PolicyInputs
  <2>2. PolicyInputs.issues = {} /\ PolicyInputs.assessment # Null
    BY <1>1, AutoNeedsAssessment DEF DecidePolicy
  <2> QED
    BY <1>1, <2>1, <2>2 DEF DecidePolicy
<1>2. CASE WriteReport /\ Decided
  BY <1>2 DEF WriteReport, AutoIsUnopposed
<1>3. CASE UNCHANGED vars
  BY <1>3 DEF vars, AutoIsUnopposed, Decided
<1> QED
  BY <1>1, <1>2, <1>3, DecidedOnlyAfterPolicy

LEMMA FallbackInvariant == FallbackNeverDecides /\ [Next]_vars => FallbackNeverDecides'
<1> SUFFICES ASSUME FallbackNeverDecides, [Next]_vars, Decided',
                    final_source' = "internal_fallback"
             PROVE  \/ action' = "REVIEW"
                    \/ /\ action' = "ESCALATE"
                       /\ \/ (verification' \cup errors') \cap CriticalCodes # {}
                          \/ "confirmation" \in evidence'
  BY DEF FallbackNeverDecides
<1>1. CASE DecidePolicy
  <2>1. /\ PolicyInputs.issues = verification \cup errors
        /\ PolicyInputs.final_source = final_source
        /\ PolicyInputs.admissible_confirmation = ("confirmation" \in evidence)
    BY DEF PolicyInputs
  <2>2. /\ action' = decide_policy(PolicyInputs)
        /\ UNCHANGED <<verification, errors, evidence, final_source>>
    BY <1>1 DEF DecidePolicy
  <2> QED
    BY <2>1, <2>2, FallbackIsBlocking
<1>2. CASE WriteReport /\ Decided
  BY <1>2 DEF WriteReport, FallbackNeverDecides
<1>3. CASE UNCHANGED vars
  BY <1>3 DEF vars, FallbackNeverDecides, Decided
<1> QED
  BY <1>1, <1>2, <1>3, DecidedOnlyAfterPolicy

THEOREM CarriedInvariant == Spec => []CarriedInv
<1>1. CarriedInv /\ [Next]_vars => CarriedInv'
  BY NothingEarlyInvariant, SimpleInvariant, CandidateInvariant, VerifiedInvariant,
     MissingInternalInvariant, UnopposedInvariant, FallbackInvariant DEF CarriedInv
<1> QED
  BY <1>1, InitCarriedInv, PTL DEF Spec

\* V14 reaches the policy through three nodes and two lists: a verdict that
\* moved is recommended automatically only if the audit of the request says
\* that external evidence was sent.
THEOREM MovesAreSupported == Spec => []NoAutoOnUnsupportedMove
<1>1. CarriedInv => NoAutoOnUnsupportedMove
  <2> SUFFICES ASSUME CarriedInv, Decided, action = "AUTO",
                      final_validated.verdict # internal.verdict
               PROVE  audit = "external"
    BY DEF NoAutoOnUnsupportedMove
  <2>1. verification = {} /\ errors = {} /\ final_validated # Null
    BY DEF CarriedInv, AutoIsUnopposed
  <2>2. final_validated = final_candidate /\ RunIssues = {}
    BY <2>1 DEF CarriedInv, VerifiedAsItStands, Decided
  <2>3. internal # Null
    BY <2>1 DEF CarriedInv, MissingInternalIsRecorded, Decided, BeforeAnalysis
  <2>4. ~UnsupportedMove
    BY <2>2 DEF RunIssues
  <2>5. audit # "null"
    BY <2>1, <2>2 DEF CarriedInv, CandidateIsAudited
  <2> QED
    BY <2>1, <2>2, <2>3, <2>4, <2>5 DEF UnsupportedMove
<1> QED
  BY <1>1, CarriedInvariant, PTL

\* A copy of INTERNAL made because FINAL failed is only ever sent to a
\* person, unless P1 or P2 of the policy escalates the run.
THEOREM FallbackIsReviewed == Spec => []FallbackNeverDecides
<1>1. CarriedInv => FallbackNeverDecides
  BY DEF CarriedInv
<1> QED
  BY <1>1, CarriedInvariant, PTL

\* The simple edge of the gate is only taken with nothing to investigate,
\* and nothing is asked of a third party on it.
THEOREM SimpleStaysInternal == Spec => []SimpleIsInternalOnly
<1>1. CarriedInv => SimpleIsInternalOnly
  BY DEF CarriedInv
<1> QED
  BY <1>1, CarriedInvariant, PTL
=============================================================================
