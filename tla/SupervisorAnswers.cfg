SPECIFICATION Spec
CONSTANTS
  Callers = {a1, a2}
  Calls = {c1, c2}
  Handles = {h1}
  Processes = {p1, p2}
  None = None
  MaxRestarts = 2
  CallKinds = {"evict", "shutdown"}
  Faults = {"crash", "nospawn", "slow", "stranger"}
PROPERTIES CallerAnswered StopEnds
CHECK_DEADLOCK FALSE
