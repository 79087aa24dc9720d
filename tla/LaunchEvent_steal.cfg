SPECIFICATION Spec
CONSTANTS
  Launch = {l1, l2, l3}
  None = None
CHECK_DEADLOCK FALSE
PROPERTIES
  ClearsSpecified
