SPECIFICATION Spec
CONSTANTS
  Requests = {r1, r2}
  Calls = {c1}
  Engines = {e1, e2}
  Variants = {v1}
  None = None
  Unset = Unset
  Spent = Spent
  KeepAlives <- EveryKeep
  MaxResident = {1}
  EvictionWait = 0
  ReplaceWait = 1
  CallKinds = {"settings"}
  Faults = {}
  Horizon = 3
SYMMETRY Symmetric
INVARIANTS IdleWillExpire
PROPERTIES ExpiryHonoursLastUse
CHECK_DEADLOCK FALSE
