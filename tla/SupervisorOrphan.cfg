SPECIFICATION Spec
CONSTANTS
  Callers = {a1, a2}
  Calls = {c1}
  Handles = {h1}
  Processes = {p1, p2}
  None = None
  MaxRestarts = 2
  CallKinds = {"shutdown"}
  Faults = {"slow"}
SYMMETRY Symmetric
INVARIANTS StoppedCoreLeavesNothing
CHECK_DEADLOCK FALSE
