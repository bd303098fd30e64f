SPECIFICATION Spec
CONSTANTS
  Engines = {e1, e2}
  MaxCalls = 4
  MaxRestarts = 2
  Faults = {"command", "database"}
INVARIANTS TypeOK EngineIntact BootsIntact KeepsWorking
PROPERTIES StopEnds
CHECK_DEADLOCK FALSE
