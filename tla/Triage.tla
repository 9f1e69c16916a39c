------------------------------ MODULE Triage ------------------------------
(***************************************************************************)
(* One run of the triage pipeline (src/graph.py): twelve nodes executed in *)
(* a fixed order, one conditional edge after the complexity gate.  Every   *)
(* node returns a patch that REPLACES the fields it names (there is no     *)
(* append reducer), so a node that reports an issue must rebuild the whole *)
(* list of errors.  Failures of the parser, the model, a provider, the RAG *)
(* index or the merge are data, and the run goes on; only a refused report *)
(* write and an unexpected exception (or a killed process: the checkpoints *)
(* live in memory) end it without a report.                                *)
(***************************************************************************)
EXTENDS Gate, Policy, Verifier

CONSTANTS
    Emails,            \* what the parser can return
    InternalAnswers,   \* what the INTERNAL call can return, once validated
    FinalAnswers,      \* what the FINAL call can return, once validated
    LookupOutcomes,    \* the sets of statuses a lookup phase can end with
    RagEnabled         \* RAG_ENABLED and tools.rag.enabled

ToolStatus == {"ok", "not_found", "unavailable", "skipped"}

ScanOutcomes == {"none", "ok", "confirmed", "unavailable", "skipped"}

ASSUME NullAssumption ==
    /\ Null \notin Assessment
    /\ Null \notin Email

ASSUME InputsAssumption ==
    /\ Emails \subseteq Email
    /\ InternalAnswers \subseteq Assessment
    /\ FinalAnswers \subseteq Assessment
    /\ LookupOutcomes \subseteq SUBSET ToolStatus
    /\ RagEnabled \in BOOLEAN
    \* INTERNAL sees the parser's evidence only.
    /\ \A a \in InternalAnswers : a.cites = "none"
    /\ \A a \in InternalAnswers \cup FinalAnswers : Coherent(a)

VARIABLES
    node,              \* the next node to run, or how the run ended
    key,               \* LITELLM_API_KEY is set
    parsed,            \* ParsedEmail | None
    internal,          \* Assessment | None
    internal_call,     \* status of the INTERNAL CallRecord
    gate,              \* GateResult.decision | None
    virustotal,        \* statuses of the VirusTotal results
    opencti,           \* statuses of the OpenCTI results
    urlscan,           \* outcome of the one urlscan submission
    rag,               \* RAG cases were retrieved
    evidence,          \* provenances present in the evidence registry
    audit,             \* external evidence counted by the last FINAL audit
    final_candidate, final_call, final_source,
    verification,      \* codes of the verifier's issues
    final_validated,
    errors,            \* codes of the typed errors of the run
    action,            \* the recommendation (REVIEW until policy runs)
    report,            \* what write_report left on disk
    faults             \* history: the phases that failed so far

vars == <<node, key, parsed, internal, internal_call, gate, virustotal,
          opencti, urlscan, rag, evidence, audit, final_candidate, final_call,
          final_source, verification, final_validated, errors, action, report,
          faults>>

Nodes == {"parse_email", "internal_assessment", "complexity_gate", "virustotal",
          "opencti", "urlscan", "rag_lookup", "merge_evidence",
          "final_assessment", "verify", "policy", "write_report"}

CallStatus == {"null", "ok", "error"}

Faults == {"parse", "internal", "rag", "merge", "final"}

TypeOK ==
    /\ node \in Nodes \cup {"end", "failed"}
    /\ key \in BOOLEAN
    /\ parsed \in Email \cup {Null}
    /\ internal \in Assessment \cup {Null}
    /\ internal_call \in CallStatus
    /\ gate \in {"null", "simple", "complex"}
    /\ virustotal \in SUBSET ToolStatus
    /\ opencti \in SUBSET ToolStatus
    /\ urlscan \in ScanOutcomes
    /\ rag \in BOOLEAN
    /\ evidence \in SUBSET {"parser", "external", "confirmation"}
    /\ audit \in {"null", "external", "no_external"}
    /\ final_candidate \in Assessment \cup {Null}
    /\ final_call \in CallStatus
    /\ final_source \in FinalSources
    /\ verification \in SUBSET IssueCodes
    /\ final_validated \in Assessment \cup {Null}
    /\ errors \in SUBSET IssueCodes
    /\ action \in Actions
    /\ report \in {"none", "archived", "partial"}
    /\ faults \in SUBSET Faults

Init ==
    /\ node = "parse_email"
    /\ key \in BOOLEAN
    /\ parsed = Null
    /\ internal = Null
    /\ internal_call = "null"
    /\ gate = "null"
    /\ virustotal = {} /\ opencti = {} /\ urlscan = "none" /\ rag = FALSE
    /\ evidence = {}
    /\ audit = "null"
    /\ final_candidate = Null /\ final_call = "null" /\ final_source = "none"
    /\ verification = {} /\ final_validated = Null
    /\ errors = {}
    /\ action = "REVIEW"
    /\ report = "none"
    /\ faults = {}

Edge(from, to) == node = from /\ node' = to

(***************************************************************************)
(* Analysis on the email alone.                                            *)
(***************************************************************************)
ParseEmail ==
    /\ Edge("parse_email", "internal_assessment")
    /\ \E p \in Emails :
          parsed' = p /\ evidence' = {"parser"}
    /\ UNCHANGED <<key, internal, internal_call, gate, virustotal, opencti,
                   urlscan, rag, audit, final_candidate, final_call,
                   final_source, verification, final_validated, errors, action,
                   report, faults>>

ParseFails ==
    /\ Edge("parse_email", "internal_assessment")
    /\ parsed' = Null /\ evidence' = {}
    /\ errors' = errors \cup {"parse_error"}
    /\ faults' = faults \cup {"parse"}
    /\ UNCHANGED <<key, internal, internal_call, gate, virustotal, opencti,
                   urlscan, rag, audit, final_candidate, final_call,
                   final_source, verification, final_validated, action, report>>

InternalAnswered ==
    /\ Edge("internal_assessment", "complexity_gate")
    /\ parsed # Null /\ key
    /\ \E a \in InternalAnswers : internal' = a
    /\ internal_call' = "ok"
    /\ UNCHANGED <<key, parsed, gate, virustotal, opencti, urlscan, rag,
                   evidence, audit, final_candidate, final_call, final_source,
                   verification, final_validated, errors, action, report, faults>>

\* No call (no parsed email, no key), or a call whose every attempt failed
\* or whose answer the local validation rejected.
InternalFails ==
    /\ Edge("internal_assessment", "complexity_gate")
    /\ internal' = Null
    /\ \/ /\ parsed = Null
          /\ internal_call' = "null"
          /\ errors' = errors \cup {"internal_not_attempted"}
       \/ /\ parsed # Null /\ ~key
          /\ internal_call' = "null"
          /\ errors' = errors \cup {"internal_not_configured"}
       \/ /\ parsed # Null /\ key
          /\ internal_call' = "error"
          /\ errors' = errors \cup {"internal_assessment_unavailable"}
    /\ faults' = faults \cup {"internal"}
    /\ UNCHANGED <<key, parsed, gate, virustotal, opencti, urlscan, rag,
                   evidence, audit, final_candidate, final_call, final_source,
                   verification, final_validated, action, report>>

\* The gate node and the conditional edge that follows it.
ComplexityGate ==
    /\ node = "complexity_gate"
    /\ gate' = decide_gate(parsed, internal)
    /\ node' = IF gate' = "simple" THEN "verify" ELSE "virustotal"
    /\ IF gate' = "simple" /\ internal # Null
       THEN final_candidate' = internal /\ final_source' = "internal_copy"
       ELSE UNCHANGED <<final_candidate, final_source>>
    /\ UNCHANGED <<key, parsed, internal, internal_call, virustotal, opencti,
                   urlscan, rag, evidence, audit, final_call, verification,
                   final_validated, errors, action, report, faults>>

(***************************************************************************)
(* Enrichment: each phase ends with the results of the targets it planned; *)
(* without a parsed email there is no observable and no target.            *)
(***************************************************************************)
VirusTotal ==
    /\ Edge("virustotal", "opencti")
    /\ \E s \in LookupOutcomes : (parsed = Null => s = {}) /\ virustotal' = s
    /\ UNCHANGED <<key, parsed, internal, internal_call, gate, opencti, urlscan,
                   rag, evidence, audit, final_candidate, final_call,
                   final_source, verification, final_validated, errors, action,
                   report, faults>>

OpenCTI ==
    /\ Edge("opencti", "urlscan")
    /\ \E s \in LookupOutcomes : (parsed = Null => s = {}) /\ opencti' = s
    /\ UNCHANGED <<key, parsed, internal, internal_call, gate, virustotal,
                   urlscan, rag, evidence, audit, final_candidate, final_call,
                   final_source, verification, final_validated, errors, action,
                   report, faults>>

\* Faulty variant: an unavailable provider sends the run back one node.
UrlscanRetries ==
    /\ node = "urlscan"
    /\ \E s \in ScanOutcomes :
          /\ s # "none" => parsed # Null
          /\ (s # "none" /\ parsed # Null) => parsed.http_urls
          /\ urlscan' = s
          /\ node' = IF s = "unavailable" THEN "opencti" ELSE "rag_lookup"
    /\ UNCHANGED <<key, parsed, internal, internal_call, gate, virustotal,
                   opencti, rag, evidence, audit, final_candidate, final_call,
                   final_source, verification, final_validated, errors, action,
                   report, faults>>

\* The parser keeps one observable per URL with the first role it met, so a
\* relevant URL may still have no target.
Urlscan ==
    /\ Edge("urlscan", "rag_lookup")
    /\ \E s \in ScanOutcomes :
          /\ s # "none" => parsed # Null
          /\ (s # "none" /\ parsed # Null) => parsed.http_urls
          /\ urlscan' = s
    /\ UNCHANGED <<key, parsed, internal, internal_call, gate, virustotal,
                   opencti, rag, evidence, audit, final_candidate, final_call,
                   final_source, verification, final_validated, errors, action,
                   report, faults>>

RagLookup ==
    /\ Edge("rag_lookup", "merge_evidence")
    /\ \E found \in BOOLEAN :
          /\ found => RagEnabled /\ parsed # Null
          /\ rag' = found
    /\ UNCHANGED <<key, parsed, internal, internal_call, gate, virustotal,
                   opencti, urlscan, evidence, audit, final_candidate,
                   final_call, final_source, verification, final_validated,
                   errors, action, report, faults>>

\* Faulty variant: the patch replaces the list of errors by its own issue.
RagFailsForgetting ==
    /\ Edge("rag_lookup", "merge_evidence")
    /\ RagEnabled /\ parsed # Null
    /\ rag' = FALSE
    /\ errors' = {}
    /\ faults' = faults \cup {"rag"}
    /\ UNCHANGED <<key, parsed, internal, internal_call, gate, virustotal,
                   opencti, urlscan, evidence, audit, final_candidate,
                   final_call, final_source, verification, final_validated,
                   action, report>>

RagFails ==
    /\ Edge("rag_lookup", "merge_evidence")
    /\ RagEnabled /\ parsed # Null
    /\ rag' = FALSE
    /\ errors' = errors \cup {"rag_lookup_failed"}
    /\ faults' = faults \cup {"rag"}
    /\ UNCHANGED <<key, parsed, internal, internal_call, gate, virustotal,
                   opencti, urlscan, evidence, audit, final_candidate,
                   final_call, final_source, verification, final_validated,
                   action, report>>

\* Provenances of the registry the merge builds from the results.
MergedEvidence ==
    {"parser"}
    \cup (IF "ok" \in virustotal \cup opencti \/ urlscan \in {"ok", "confirmed"}
          THEN {"external"} ELSE {})
    \cup (IF urlscan = "confirmed" THEN {"confirmation"} ELSE {})

MergeEvidence ==
    /\ Edge("merge_evidence", "final_assessment")
    /\ evidence' = IF parsed = Null THEN {} ELSE MergedEvidence
    /\ UNCHANGED <<key, parsed, internal, internal_call, gate, virustotal,
                   opencti, urlscan, rag, audit, final_candidate, final_call,
                   final_source, verification, final_validated, errors, action,
                   report, faults>>

\* Faulty variant: a refused merge is not reported as an integrity violation.
MergeRefusedQuietly ==
    /\ Edge("merge_evidence", "final_assessment")
    /\ parsed # Null
    /\ MergedEvidence # {"parser"}
    /\ faults' = faults \cup {"merge"}
    /\ UNCHANGED <<key, parsed, internal, internal_call, gate, virustotal,
                   opencti, urlscan, rag, evidence, audit, final_candidate,
                   final_call, final_source, verification, final_validated,
                   errors, action, report>>

\* EvidenceMergeError: a collision, a dangling reference or an unproved ok
\* result.  The registries keep the parser's content.
MergeRefused ==
    /\ Edge("merge_evidence", "final_assessment")
    /\ parsed # Null
    /\ MergedEvidence # {"parser"}
    /\ errors' = errors \cup {"evidence_merge_refused"}
    /\ faults' = faults \cup {"merge"}
    /\ UNCHANGED <<key, parsed, internal, internal_call, gate, virustotal,
                   opencti, urlscan, rag, evidence, audit, final_candidate,
                   final_call, final_source, verification, final_validated,
                   action, report>>

(***************************************************************************)
(* Second assessment.                                                      *)
(***************************************************************************)

\* Faulty variant: the internal copy is presented as a model answer.
SelectUnmarked(answer, call) ==
    /\ final_call' = call
    /\ final_candidate' = IF answer # Null THEN answer ELSE internal
    /\ final_source' = "fallback"
    /\ UNCHANGED <<errors, faults>>

\* final_selection: a real answer, else a copy of INTERNAL, else nothing.
Select(answer, call) ==
    /\ final_call' = call
    /\ IF answer # Null
       THEN /\ final_candidate' = answer /\ final_source' = "final_llm"
            /\ UNCHANGED <<errors, faults>>
       ELSE /\ faults' = faults \cup {"final"}
            /\ final_candidate' = internal
            /\ final_source' = IF internal # Null THEN "internal_fallback" ELSE "none"
            /\ errors' = errors \cup
                  {IF internal # Null THEN "final_fallback_internal_copy"
                                      ELSE "final_assessment_unavailable"}

\* The projection may drop external evidence for lack of room.
AuditOfCall ==
    {a \in {"external", "no_external"} : a = "external" => "external" \in evidence}

\* References are validated against the registries actually sent.
Citable(a, sent) ==
    /\ a.cites # "none" => sent = "external"
    /\ a.cites \in {"same_scope", "confirmation"} => "confirmation" \in evidence

FinalAnswered ==
    /\ Edge("final_assessment", "verify")
    /\ parsed # Null /\ key
    /\ \E a \in FinalAnswers, sent \in AuditOfCall :
          /\ Citable(a, sent)
          /\ audit' = sent
          /\ Select(a, "ok")
    /\ UNCHANGED <<key, parsed, internal, internal_call, gate, virustotal,
                   opencti, urlscan, rag, evidence, verification,
                   final_validated, action, report>>

\* No call, a projection refused before any attempt (no audit), failed
\* attempts, or an answer the local validation rejected.
FinalFails ==
    /\ Edge("final_assessment", "verify")
    /\ IF parsed = Null \/ ~key
       THEN audit' = audit /\ Select(Null, "null")
       ELSE audit' \in {"null"} \cup AuditOfCall /\ Select(Null, "error")
    /\ UNCHANGED <<key, parsed, internal, internal_call, gate, virustotal,
                   opencti, urlscan, rag, evidence, verification,
                   final_validated, action, report>>

(***************************************************************************)
(* Deterministic verification and recommendation.                          *)
(***************************************************************************)

\* Faulty variant: only a rise of the confidence is looked at.
UnsupportedRise ==
    /\ internal # Null /\ final_candidate # Null
    /\ final_candidate.top - internal.top > 5
    /\ audit # "external"

\* V14: the FINAL verdict or confidence moved and no external evidence was
\* sent; the registry decides when no audit was archived.
UnsupportedMove ==
    /\ internal # Null /\ final_candidate # Null
    /\ \/ final_candidate.verdict # internal.verdict
       \/ final_candidate.top - internal.top > 5
    /\ ~ IF audit # "null" THEN audit = "external" ELSE "external" \in evidence

\* The issues that the run determines: those of the assessment, V14 and V16.
RunIssues ==
    AssessmentIssues(final_candidate, evidence)
    \cup {c \in {"confidence_rise_without_new_evidence",
                 "final_fallback_internal_copy", "run_inconsistency"} :
             \/ c = "confidence_rise_without_new_evidence" /\ UnsupportedMove
             \/ c = "final_fallback_internal_copy" /\ final_source = "internal_fallback"
             \/ /\ c = "run_inconsistency"
                /\ final_candidate # Null /\ final_call = "error"}

\* The issues that depend on the content of the answer or of the RAG cases.
ContentIssues ==
    (IF final_candidate # Null
     THEN {"recipient_as_ioc", "insufficient_malicious_confirmation"} ELSE {})
    \cup (IF rag THEN {"rag_contamination"} ELSE {})

Verify ==
    /\ Edge("verify", "policy")
    /\ \E found \in SUBSET ContentIssues : verification' = RunIssues \cup found
    /\ final_validated' = final_candidate
    /\ UNCHANGED <<key, parsed, internal, internal_call, gate, virustotal,
                   opencti, urlscan, rag, evidence, audit, final_candidate,
                   final_call, final_source, errors, action, report, faults>>

PolicyInputs ==
    [assessment |-> final_validated,
     issues |-> verification \cup errors,
     final_source |-> final_source,
     parser_error |-> parsed = Null,
     llm_error |-> "error" \in {internal_call, final_call},
     tool_unavailable |-> "unavailable" \in virustotal \cup opencti \cup {urlscan},
     admissible_confirmation |-> "confirmation" \in evidence,
     confirmation_contradicted |-> Contradicts(final_validated, evidence)]

DecidePolicy ==
    /\ Edge("policy", "write_report")
    /\ action' = decide_policy(PolicyInputs)
    /\ UNCHANGED <<key, parsed, internal, internal_call, gate, virustotal,
                   opencti, urlscan, rag, evidence, audit, final_candidate,
                   final_call, final_source, verification, final_validated,
                   errors, report, faults>>

WriteReport ==
    /\ Edge("write_report", "end")
    /\ report' = "archived"
    /\ UNCHANGED <<key, parsed, internal, internal_call, gate, virustotal,
                   opencti, urlscan, rag, evidence, audit, final_candidate,
                   final_call, final_source, verification, final_validated,
                   errors, action, faults>>

\* ReportWriteError: validation, an existing artifact or the disk.  The
\* error may come after report.json was already replaced into place.
ReportRefused ==
    /\ Edge("write_report", "failed")
    /\ report' \in {"none", "partial"}
    /\ UNCHANGED <<key, parsed, internal, internal_call, gate, virustotal,
                   opencti, urlscan, rag, evidence, audit, final_candidate,
                   final_call, final_source, verification, final_validated,
                   errors, action, faults>>

\* An unexpected exception leaves the graph, or the process is killed.
Abort ==
    /\ node \in Nodes /\ node' = "failed"
    /\ UNCHANGED <<key, parsed, internal, internal_call, gate, virustotal,
                   opencti, urlscan, rag, evidence, audit, final_candidate,
                   final_call, final_source, verification, final_validated,
                   errors, action, report, faults>>

Finished == node \in {"end", "failed"} /\ UNCHANGED vars

Next ==
    \/ ParseEmail \/ ParseFails
    \/ InternalAnswered \/ InternalFails
    \/ ComplexityGate
    \/ VirusTotal \/ OpenCTI \/ Urlscan
    \/ RagLookup \/ RagFails
    \/ MergeEvidence \/ MergeRefused
    \/ FinalAnswered \/ FinalFails
    \/ Verify \/ DecidePolicy
    \/ WriteReport \/ ReportRefused
    \/ Abort
    \/ Finished

Spec == Init /\ [][Next]_vars

\* graph.invoke runs one node after the other until the graph ends; every
\* call a node makes is bounded by a timeout.
Fairness == WF_vars(Next)

FairSpec == Spec /\ Fairness

-----------------------------------------------------------------------------
(***************************************************************************)
(* Properties.                                                             *)
(***************************************************************************)

Decided == node \in {"write_report", "end"}

\* AUTO is the one recommendation an analyst may act on without reading.  A
\* run in which any phase failed (parser, model, RAG index, merge) never ends
\* in AUTO, however confident and benign the assessment it ends with is: the
\* failure of an early node must survive every patch up to the policy node.
AutoIsEarned == Decided /\ action = "AUTO" => faults = {} /\ key

\* A FINAL verdict that differs from INTERNAL's without a piece of external
\* evidence sent to the model is never acted on automatically (V14 and P5).
NoAutoOnUnsupportedMove ==
    /\ Decided /\ action = "AUTO"
    /\ final_validated.verdict # internal.verdict
    => audit = "external"

\* The malicious confirmation of the exact scan ends in ESCALATE unless the
\* accepted assessment records an external conflict: also when the merge was
\* refused and the confirmation never entered the registry, and also when
\* FINAL failed and the run carries a copy of INTERNAL.
ConfirmationEscalates ==
    /\ Decided /\ urlscan = "confirmed"
    /\ ~Contradicts(final_validated, evidence)
    => action = "ESCALATE"

\* A copy of INTERNAL taken because FINAL failed decides nothing: its run is
\* escalated only by an integrity violation or by a confirmation.
FallbackNeverDecides ==
    /\ Decided /\ final_source = "internal_fallback"
    => \/ action = "REVIEW"
       \/ /\ action = "ESCALATE"
          /\ \/ (verification \cup errors) \cap CriticalCodes # {}
             \/ "confirmation" \in evidence

\* The SIMPLE path sends nothing to a third party and asks the model once:
\* what is recommended is INTERNAL's own assessment, of an email that has
\* nothing left to investigate.
SimpleIsInternalOnly ==
    gate = "simple" =>
        /\ parsed # Null /\ internal # Null
        /\ ~parsed.http_urls /\ ~parsed.attachments /\ ~parsed.content_limits
        /\ virustotal = {} /\ opencti = {} /\ urlscan = "none" /\ ~rag
        /\ final_call = "null" /\ final_source = "internal_copy"
        /\ final_candidate = internal

\* The run, seen as the stages of the contract.
Stage ==
    CASE node = "end"          -> "archived"
      [] node = "failed"       -> "failed"
      [] node = "write_report" -> "recommended"
      [] OTHER                 -> "analysing"

Contract == INSTANCE TriageContract WITH stage <- Stage

\* One recommendation per run, never AUTO after a fault, never revised, and
\* every run ends with an archived report or an explicit failure.
ImplementsContract == Contract!FairSpec

(***************************************************************************)
(* Claims of the documentation that the code does not keep.                *)
(***************************************************************************)

\* docs/architecture.md 1.5: a parsing limit that was reached forbids AUTO.
ContentLimitForbidsAuto ==
    Decided /\ parsed # Null /\ action = "AUTO" => ~parsed.content_limits

\* docs/decisions.md 4.3, rule 2: only evidence of the same scope contradicts
\* a confirmation.
OnlySameScopeContradicts ==
    /\ Decided /\ "confirmation" \in evidence /\ action # "ESCALATE"
    => final_validated.cites = "same_scope"
=============================================================================
