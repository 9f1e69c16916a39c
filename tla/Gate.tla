------------------------------- MODULE Gate -------------------------------
(***************************************************************************)
(* decide_gate of src/gate.py: the rules R1 (uncertainty), R2              *)
(* (investigable material) and R3 (coverage gap) over the parsed email and *)
(* the INTERNAL assessment, either of which may be absent.                 *)
(***************************************************************************)
EXTENDS Assessments

CONSTANTS MinConfidence,   \* configs/gate.yaml min_confidence, in percent
          MinMargin        \* configs/gate.yaml min_margin, in percent

R1(internal) ==
    IF internal = Null
    THEN {"internal_unavailable"}
    ELSE {r \in {"low_confidence", "low_margin"} :
             \/ r = "low_confidence" /\ internal.top < MinConfidence
             \/ r = "low_margin"     /\ Margin(internal) < MinMargin}

\* Faulty variant: R2 forgets the URLs.
R2AttachmentsOnly(parsed) ==
    IF parsed # Null /\ parsed.attachments THEN {"attachments_present"} ELSE {}

R2(parsed) ==
    IF parsed = Null
    THEN {}
    ELSE {r \in {"urls_present", "attachments_present"} :
             \/ r = "urls_present"        /\ parsed.http_urls
             \/ r = "attachments_present" /\ parsed.attachments}

R3(parsed, internal) ==
    {r \in {"parse_incomplete", "content_truncated",
            "essential_visual_unread", "model_requests_context"} :
        \/ /\ r = "parse_incomplete"
           /\ (parsed = Null \/ (parsed # Null /\ parsed.decode_defect))
        \/ r = "content_truncated"       /\ parsed # Null /\ parsed.content_limits
        \/ r = "essential_visual_unread" /\ parsed # Null /\ parsed.essential_visual
        \/ r = "model_requests_context"  /\ internal # Null /\ internal.needs_enrichment}

GateReasons(parsed, internal) ==
    R1(internal) \cup R2(parsed) \cup R3(parsed, internal)

decide_gate(parsed, internal) ==
    IF GateReasons(parsed, internal) = {} THEN "simple" ELSE "complex"
=============================================================================
