SPECIFICATION DeliverySpec
CONSTANTS
  Most = 6
  Depth = 2
  Pipe = 1
  Formats = {"pcm", "wav", "opus"}
  Faults = {"engine", "spawn", "encoder", "early"}
  Floor = 2
  Hop = 1
  Troubles = {"leave", "wait", "death"}
INVARIANTS DeliveryTypeOK HeardWhole HeardInOrder FailureIsAStatus GivenBackOnce
PROPERTIES DeliveryEnds
