SPECIFICATION EvaluationSpec
CONSTANTS
    Messages <- MCMessages
    Archives <- MCArchives
    Near <- MCNear
    Verdict <- MCVerdict
    PoolChoices <- MCChoices
    Taxonomy <- MCTaxonomy
    RagCaps <- MCRagCaps
    FillClass = "fraude"
    RagTotal = 3
    MaxChanges = 3
    OutageLimit = 2
INVARIANTS ComparisonsAreLikeForLike DeadEndpointIsCut
CHECK_DEADLOCK FALSE
