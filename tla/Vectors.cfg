SPECIFICATION Spec
CONSTANTS
  Arches = {"amd64"}
  Fallback = FALSE
INVARIANTS
  VectorLanesNamed
CHECK_DEADLOCK FALSE
