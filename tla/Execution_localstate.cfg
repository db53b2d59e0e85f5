SPECIFICATION Spec
INVARIANTS
  AppliedStateSurvives
CHECK_DEADLOCK FALSE
