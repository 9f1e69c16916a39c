------------------------------ MODULE Verifier ------------------------------
(***************************************************************************)
(* The rules of src/verify.py that both pipelines share and that depend on *)
(* the assessment and on the evidence registry alone.  An issue never      *)
(* repairs the assessment: it is reported to the policy beside it.         *)
(***************************************************************************)
EXTENDS Assessments

\* V02: a cited evidence that the registry does not hold.
Dangling(a, evidence) ==
    \/ a.cites # "none" /\ "external" \notin evidence
    \/ a.cites \in {"same_scope", "confirmation"} /\ "confirmation" \notin evidence

\* What the assessment cites among the evidence really provided.
Cited(a, evidence) == IF Dangling(a, evidence) THEN "none" ELSE a.cites

\* An inference external_conflict that cites real OSINT/SANDBOX evidence.
SupportedConflict(a, evidence) ==
    "external_conflict" \in a.codes /\ Cited(a, evidence) # "none"

\* V11: an external reason that cites no external evidence.
UnsupportedExternal(a, evidence) ==
    /\ a.codes \cap {"external_support", "external_conflict"} # {}
    /\ Cited(a, evidence) = "none"

\* V13: a benign verdict against a cited confirmation or a material reason.
VerdictConflict(a, evidence) ==
    /\ a.verdict \in Benign
    /\ \/ Cited(a, evidence) = "confirmation"
       \/ "material" \in a.codes /\ ~SupportedConflict(a, evidence)

\* V01, V02, V11 and V13 over an assessment that may be missing.
AssessmentIssues(a, evidence) ==
    IF a = Null
    THEN {"missing_assessment"}
    ELSE {c \in {"unsupported_claim", "unsupported_external_claim",
                 "verdict_evidence_conflict"} :
             \/ c = "unsupported_claim"          /\ Dangling(a, evidence)
             \/ c = "unsupported_external_claim" /\ UnsupportedExternal(a, evidence)
             \/ c = "verdict_evidence_conflict"  /\ VerdictConflict(a, evidence)}

\* _confirmation_flags, second flag: any OSINT/SANDBOX citation will do.
Contradicts(a, evidence) == a # Null /\ SupportedConflict(a, evidence)
=============================================================================
