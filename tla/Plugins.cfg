CONSTANTS
  None = None
  Settings <- MCSettings
SPECIFICATION Spec
INVARIANTS
  AnswersBelong
  
  BoundsHold
CHECK_DEADLOCK FALSE
