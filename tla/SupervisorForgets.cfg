SPECIFICATION Spec
CONSTANTS
  Callers = {a1, a2, a3}
  Calls = {c1, c2, c3}
  Handles = {h1, h2, h3}
  Processes = {p1, p2, p3}
  None = None
  MaxRestarts = 2
  CallKinds = {"evict", "uninstall", "install", "reinstall", "shutdown"}
  Faults = {"crash", "nospawn"}
SYMMETRY Symmetric
INVARIANTS TypeOK Supervised
PROPERTIES StopIsNoCrash
CHECK_DEADLOCK FALSE
