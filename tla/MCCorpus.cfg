SPECIFICATION CorpusSpec
CONSTANTS
    Messages <- MCMessages
    Archives <- MCArchives
    Near <- MCNear
    Verdict <- MCVerdict
    PoolChoices <- MCChoices
    Taxonomy <- MCTaxonomy
    RagCaps <- MCRagCaps
    FillClass = "fraude"
    RagTotal = 3
    MaxChanges = 5
INVARIANTS SelectionIsWhole LabelsFollowTheBytes
CHECK_DEADLOCK FALSE
