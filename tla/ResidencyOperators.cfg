SPECIFICATION Spec
CONSTANTS
  Requests = {r1, r2}
  Calls = {c1, c2}
  Engines = {e1, e2}
  Variants = {v1, v2}
  None = None
  Unset = Unset
  Spent = Spent
  KeepAlives = {1}
  MaxResident = {1}
  EvictionWait = 0
  ReplaceWait = 1
  CallKinds = {"forget", "replace", "unload", "terminate", "shutdown"}
  Faults = {"spawn", "lateload", "unload", "stop", "swap"}
  Horizon = 2
SYMMETRY Symmetric
INVARIANTS TypeOK TransitIsAlone LeaseHoldsModel
CHECK_DEADLOCK FALSE
