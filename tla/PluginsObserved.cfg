\* The observability plugin alone, over a provider that may fail.
CONSTANTS
  None = None
  Settings <- ObservedOnly
SPECIFICATION Spec
INVARIANTS AnswerOrError
CHECK_DEADLOCK FALSE
