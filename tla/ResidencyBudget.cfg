SPECIFICATION Spec
CONSTANTS
  Requests = {r1, r2, r3}
  Calls = {c1}
  Engines = {e1, e2, e3}
  Variants = {v1}
  None = None
  Unset = Unset
  Spent = Spent
  KeepAlives <- Forever
  MaxResident = {1, 2}
  EvictionWait = 0
  ReplaceWait = 1
  CallKinds = {"settings"}
  Faults = {"death"}
  Horizon = 2
SYMMETRY Symmetric
INVARIANTS NothingUnaccounted LeasesCounted
PROPERTIES ImplementsSlots
CHECK_DEADLOCK FALSE
