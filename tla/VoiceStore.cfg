SPECIFICATION Spec
CONSTANTS
  Creates = {a, b}
  Deletes = {d, e}
  Named = {a}
  Faults = {"disk", "crash", "tick"}
INVARIANTS TypeOK StoredWhole SpeaksTheLast
