SPECIFICATION FairSpec
CONSTANTS
    Null = Null
    MinConfidence = 90
    MinMargin = 20
    AutoLabels <- MCAutoLabels
    AutoConfidence = 97
    AutoMargin = 50
    EscalateConfidence = 85
    Emails <- MCEmails
    InternalAnswers <- MCInternalAnswers
    FinalAnswers <- MCFinalAnswers
    LookupOutcomes <- MCLookupOutcomes
    RagEnabled = TRUE
INVARIANTS
    TypeOK
    AutoIsEarned
    NoAutoOnUnsupportedMove
    ConfirmationEscalates
    FallbackNeverDecides
    SimpleIsInternalOnly
PROPERTY
    ImplementsContract
