SPECIFICATION Spec
CONSTANTS
  Requests = {r1, r2, r3}
  Calls = {}
  Engines = {e1, e2}
  Variants = {v1}
  None = None
  Unset = Unset
  Spent = Spent
  KeepAlives <- Forever
  MaxResident = {1}
  EvictionWait = 1
  ReplaceWait = 1
  CallKinds = {}
  Faults = {"load"}
  Horizon = 3
PROPERTIES RequestAnswered
CHECK_DEADLOCK FALSE
