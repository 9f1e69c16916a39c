SPECIFICATION FairSpec
CONSTANTS
    Null = Null
    url = url
    attachment = attachment
    victim = victim
    c1 = c1
    c2 = c2
    AutoLabels <- MCAutoLabels
    AutoConfidence = 97
    AutoMargin = 50
    EscalateConfidence = 85
    Observables <- MCObservables
    Recipients <- MCRecipients
    Exposed <- MCExposed
    CallIds <- MCCallIds
    Calls <- MCCalls
    MaxCallsPerTurn = 2
    MaxTurns = 2
    MaxToolCalls = 2
INVARIANTS
    ProvidersAreSpared
    ProtocolKept
    AgentConfirmationEscalates
PROPERTIES
    NothingAfterFinalize
    ImplementsContract
