SPECIFICATION Spec
CONSTANTS
  MAX_LLM_ATTEMPTS = 2
  PHASE_SECONDS = 1
  MaxLag = 1
INVARIANTS
  RecordTellsTheWire
  ControlProofIsSound
CHECK_DEADLOCK FALSE
