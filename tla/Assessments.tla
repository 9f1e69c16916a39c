---------------------------- MODULE Assessments ----------------------------
(***************************************************************************)
(* The data the triage pipeline passes between its nodes (src/state.py),   *)
(* reduced to what the gate, the verifier and the policy tell apart.       *)
(*                                                                         *)
(* A probability vector over the six labels is represented by its argmax   *)
(* (verdict) and its two highest entries in percent (top, second): the     *)
(* only numbers the gate and the policy ever read from it.                 *)
(***************************************************************************)
EXTENDS Integers

CONSTANT Null          \* Python's None

Malicious == {"spear_phishing", "phishing", "fraude", "menace"}
Benign    == {"spam", "legitime"}
Labels    == Malicious \cup Benign

Percent == 0..100

\* Typed coverage gaps an assessment declares.
MissingCodes ==
    {"authentication_untrusted", "destination_unverified",
     "attachment_not_inspected", "essential_visual_unread",
     "insufficient_context", "tool_unavailable", "content_truncated"}

\* The inference codes a rule of the verifier or of the policy looks at:
\* "material" stands for payment_diversion, extortion, credential_collection.
InferenceCodes == {"material", "external_conflict", "external_support"}

\* The OSINT/SANDBOX evidence the assessment cites: none; evidence about
\* another observable than a confirmed one; other evidence about the same
\* observable; the malicious confirmation itself.
Citations == {"none", "other", "same_scope", "confirmation"}

Assessment ==
    [verdict: Labels, top: Percent, second: Percent,
     needs_enrichment: BOOLEAN, missing: SUBSET MissingCodes,
     codes: SUBSET InferenceCodes, cites: Citations]

\* Two percentages that can be the two highest of six that sum to 100.
Scores ==
    {s \in Percent \X Percent :
        s[1] >= s[2] /\ s[1] + s[2] <= 100 /\ s[1] + 5 * s[2] >= 100}

Coherent(a) == <<a.top, a.second>> \in Scores

Margin(a) == a.top - a.second

\* What a parsed email tells the gate.
Email ==
    [http_urls: BOOLEAN,          \* a relevant href/visible/form/QR HTTP(S) URL
     attachments: BOOLEAN,        \* a non-inline attachment
     decode_defect: BOOLEAN,      \* a useful part that could not be decoded
     content_limits: BOOLEAN,     \* a parsing limit was reached
     essential_visual: BOOLEAN]   \* the message is carried by an image
=============================================================================
