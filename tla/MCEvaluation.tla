---------------------------- MODULE MCEvaluation ----------------------------
EXTENDS Evaluation
MCMessages == {"p1", "p2", "p3", "p4", "s1", "s2", "r1"}
MCArchives == <<<<"p1", "p2", "p3", "p4", "s1", "s2", "r1">>,
                <<"p1", "s1", "s2", "r1", "p2", "p3", "p4">>>>
MCNear == {}
MCVerdict == [m \in MCMessages |-> IF m \in {"s1", "s2", "r1"} THEN "spam" ELSE "phishing"]
MCChoices == {MCMessages \ {"r1"}}
MCTaxonomy == <<"phishing", "spam", "fraude">>
MCRagCaps == [phishing |-> 1, spam |-> 1]
=============================================================================
