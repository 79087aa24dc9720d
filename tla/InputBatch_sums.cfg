SPECIFICATION Spec
CONSTANTS
  MaxSent = 3
  Half = 2
CHECK_DEADLOCK FALSE
INVARIANTS
  SumsAreExact
