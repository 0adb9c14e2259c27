CONSTANTS
  Prompts = {p1}
  Probes = {}
  MaxCalls = 2
  None = None
SPECIFICATION Spec
CHECK_DEADLOCK FALSE
INVARIANTS
  DestroyedSessionHasNoShim
