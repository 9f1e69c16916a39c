------------------------------ MODULE MCCorpus ------------------------------
(* A container of six messages, then one in which they moved and a seventh     *)
(* arrived: p* are phishing, r1 and r2 near duplicates of spam, x is ambiguous  *)
(* and a near duplicate of p1, p2 and p4.                                       *)
EXTENDS Corpus

MCMessages == {"p1", "p2", "p3", "p4", "r1", "r2", "x"}
MCArchives == <<<<"p1", "p2", "p3", "p4", "r1", "r2">>,
                <<"p1", "p2", "r1", "p4", "p3", "r2", "x">>>>
MCNear == {{"r1", "r2"}, {"x", "p1"}, {"x", "p2"}, {"x", "p4"}}
MCVerdict == [m \in MCMessages |->
                IF m \in {"r1", "r2"} THEN "spam" ELSE IF m = "x" THEN "ambiguous" ELSE "phishing"]
MCChoices == {{"p1", "p2", "p3", "p4"}, {"p1", "p4"}}
MCTaxonomy == <<"phishing", "spam", "fraude">>
MCRagCaps == [phishing |-> 1, spam |-> 1]

(* What docs/corpus.md:74 asks of the published files: no family of the RAG base *)
(* is in gold_dev or gold_test.  The code compares the families of the canonical *)
(* labels and publishes those of the manifest, which normalize and dedupe may     *)
(* have computed anew since.                                                     *)
Families(file) == {r.family : r \in Rows(file)} \ {{}}
PublishedFamiliesAreDisjoint ==
    Verified => Families("rag") \cap (Families("dev") \cup Families("test")) = {}
=============================================================================
