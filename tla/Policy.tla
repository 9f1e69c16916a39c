------------------------------ MODULE Policy ------------------------------
(***************************************************************************)
(* decide_policy of src/policy.py: the frozen priority order P1-P6 that    *)
(* turns the validated assessment and the recorded issues of a run into    *)
(* the recommendation AUTO, REVIEW or ESCALATE.                            *)
(***************************************************************************)
EXTENDS Assessments

CONSTANTS AutoLabels,           \* configs/policy.yaml auto_labels
          AutoConfidence,       \* auto_min_confidence, in percent
          AutoMargin,           \* auto_min_margin, in percent
          EscalateConfidence    \* escalate_malicious_min_confidence, in percent

ASSUME AutoLabelsAssumption == AutoLabels \subseteq Labels

Actions == {"AUTO", "REVIEW", "ESCALATE"}

(***************************************************************************)
(* Issue codes by severity.  recipient_as_ioc and                          *)
(* insufficient_malicious_confirmation stand for the verifier's findings   *)
(* on the content of an answer (V05-V12), rag_contamination for V15.       *)
(***************************************************************************)
CriticalCodes ==
    {"evidence_merge_refused", "agent_evidence_merge_refused",
     "unsupported_claim", "recipient_as_ioc", "rag_contamination"}

ErrorCodes ==
    {"parse_error", "internal_not_attempted", "internal_not_configured",
     "internal_assessment_unavailable", "rag_lookup_failed",
     "final_assessment_unavailable", "missing_assessment",
     "insufficient_malicious_confirmation", "unsupported_external_claim",
     "verdict_evidence_conflict", "run_inconsistency", "agent_parse_error",
     "agent_llm_error", "agent_incomplete_no_final_assessment"}

WarningCodes ==
    {"final_fallback_internal_copy", "confidence_rise_without_new_evidence",
     "agent_adapter_exception"}

IssueCodes == CriticalCodes \cup ErrorCodes \cup WarningCodes

\* Gaps that are material for AUTO; authentication_untrusted alone is not.
MATERIAL_MISSING_INFORMATION ==
    MissingCodes \ {"authentication_untrusted", "tool_unavailable"}

FinalSources == {"internal_copy", "final_llm", "internal_fallback", "none"}

\* An unavailable tool the assessment says it needed.
has_required_unavailable_enrichment(in) ==
    /\ in.assessment # Null
    /\ "tool_unavailable" \in in.assessment.missing
    /\ in.tool_unavailable

\* P3: what forbids any decision on the assessment itself.
BlockingFacts(in) ==
    \/ in.parser_error
    \/ in.llm_error
    \/ in.final_source = "internal_fallback"
    \/ in.assessment = Null
    \/ in.issues \cap ErrorCodes # {}
    \/ in.assessment # Null
          /\ in.assessment.missing \cap MATERIAL_MISSING_INFORMATION # {}
    \/ has_required_unavailable_enrichment(in)

\* P5: a confident benign verdict and not a single warning.
AutoEligible(in) ==
    /\ in.assessment.verdict \in AutoLabels
    /\ in.issues = {}
    /\ in.assessment.top >= AutoConfidence
    /\ Margin(in.assessment) >= AutoMargin

\* Faulty variant: the malicious verdict (P4) is looked at before P3.
decide_policy_P4_first(in) ==
    IF in.issues \cap CriticalCodes # {}
    THEN "ESCALATE"
    ELSE IF in.admissible_confirmation /\ ~in.confirmation_contradicted
    THEN "ESCALATE"
    ELSE IF in.assessment # Null /\ in.assessment.verdict \in Malicious
    THEN IF in.assessment.top >= EscalateConfidence THEN "ESCALATE" ELSE "REVIEW"
    ELSE IF BlockingFacts(in)
    THEN "REVIEW"
    ELSE IF AutoEligible(in) THEN "AUTO" ELSE "REVIEW"

decide_policy(in) ==
    IF in.issues \cap CriticalCodes # {}
    THEN "ESCALATE"
    ELSE IF in.admissible_confirmation /\ ~in.confirmation_contradicted
    THEN "ESCALATE"
    ELSE IF BlockingFacts(in)
    THEN "REVIEW"
    ELSE IF in.assessment.verdict \in Malicious
    THEN IF in.assessment.top >= EscalateConfidence THEN "ESCALATE" ELSE "REVIEW"
    ELSE IF AutoEligible(in)
    THEN "AUTO"
    ELSE "REVIEW"
=============================================================================
