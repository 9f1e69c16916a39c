------------------------------ MODULE MCTriage ------------------------------
(***************************************************************************)
(* The pipeline on a small set of emails and of answers: each email has at *)
(* most one reason to be investigated, the answers sit on both sides of    *)
(* every threshold of configs/gate.yaml and configs/policy.yaml.           *)
(***************************************************************************)
EXTENDS Triage

Plain == [http_urls |-> FALSE, attachments |-> FALSE, decode_defect |-> FALSE,
          content_limits |-> FALSE, essential_visual |-> FALSE]

MCEmails ==
    {Plain, [Plain EXCEPT !.http_urls = TRUE], [Plain EXCEPT !.content_limits = TRUE]}

Answer(verdict, top, second) ==
    [verdict |-> verdict, top |-> top, second |-> second,
     needs_enrichment |-> FALSE, missing |-> {}, codes |-> {}, cites |-> "none"]

Legit   == Answer("legitime", 98, 1)
Doubt   == Answer("legitime", 45, 40)
Phish   == Answer("phishing", 95, 3)
Fraud84 == Answer("fraude", 84, 10)

MCInternalAnswers == {Legit, Phish, Doubt}

MCFinalAnswers ==
    {Legit, Phish, Fraud84, Doubt,
     [Legit EXCEPT !.missing = {"tool_unavailable"}],
     [Legit EXCEPT !.missing = {"content_truncated"}],
     [Legit EXCEPT !.codes = {"material"}],
     [Legit EXCEPT !.codes = {"external_conflict"}],
     [Legit EXCEPT !.cites = "other"],
     [Legit EXCEPT !.cites = "confirmation"],
     [Legit EXCEPT !.codes = {"material", "external_conflict"}, !.cites = "other"],
     [Legit EXCEPT !.codes = {"external_conflict"}, !.cites = "same_scope"],
     [Phish EXCEPT !.codes = {"external_support"}, !.cites = "confirmation"]}

MCLookupOutcomes == {{}, {"ok"}, {"unavailable", "not_found"}}

MCAutoLabels == Benign
=============================================================================
