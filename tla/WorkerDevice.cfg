SPECIFICATION Spec
CONSTANTS
  Requests = {r1, r2, r3}
  Kinds = {"speak", "load", "unload"}
  Variants = {v1, v2}
  Default = v1
  None = None
  Concurrency = 2
  Faults = {"load"}
INVARIANTS TypeOK SlotsAccounted OneUtterance
PROPERTIES WaitsForAbandoned RequestEnds
CHECK_DEADLOCK FALSE
