---------------------------- MODULE MCAgentLoop ----------------------------
(***************************************************************************)
(* Two observables and a recipient, two turns of at most two calls, two    *)
(* lookups: the budgets, the duplicates and the single submission are all  *)
(* reached within a turn and across turns.                                 *)
(***************************************************************************)
EXTENDS AgentLoop

CONSTANTS url, attachment, victim, c1, c2

MCObservables == {url, attachment, victim}
MCRecipients  == {victim}
MCExposed     == {"lookup_virustotal", "lookup_opencti", "scan_urlscan"}
MCCallIds     == {c1, c2}
MCAutoLabels  == Benign

Legit ==
    [verdict |-> "legitime", top |-> 98, second |-> 1, needs_enrichment |-> FALSE,
     missing |-> {}, codes |-> {}, cites |-> "none"]

Conflict == [Legit EXCEPT !.codes = {"external_conflict"}, !.cites = "other"]

Lookup(id, tool, observable) ==
    [id |-> id, tool |-> tool, observable |-> observable, assessment |-> Null,
     malformed |-> FALSE]

FinalizeWith(id, a) ==
    [id |-> id, tool |-> "finalize_assessment", observable |-> Null,
     assessment |-> a, malformed |-> FALSE]

MCCalls ==
    {Lookup(c1, "scan_urlscan", url), Lookup(c2, "scan_urlscan", attachment),
     Lookup(c1, "lookup_virustotal", attachment),
     Lookup(c2, "lookup_virustotal", victim),
     Lookup(Null, "lookup_virustotal", url),
     Lookup(c2, "lookup_osint", url),
     FinalizeWith(c1, Legit), FinalizeWith(c2, Conflict),
     FinalizeWith(Null, Legit), FinalizeWith(c1, Null),
     [FinalizeWith(c2, Legit) EXCEPT !.malformed = TRUE],
     [Lookup(c2, "lookup_virustotal", url) EXCEPT !.malformed = TRUE]}
=============================================================================
