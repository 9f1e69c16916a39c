SPECIFICATION Spec
CONSTANTS
  Settings <- MCSettings
  EmailSeconds = 4
  PhaseSeconds <- MCPhases
  SourceSeconds <- MCSources
  MinBudget = 1
  MaxOverrun = 1
  DnsTypes = 2
  MaxTargets = 2
  MaxContexts = 2
INVARIANTS
  NotFoundIsATechnicalSuccess
CHECK_DEADLOCK FALSE
