CONSTANTS
  Replies <- MC_Replies
  ReadSizes <- MC_ReadSizes
SPECIFICATION Spec
INVARIANTS
  RecvTerminatorInBounds
  ResourcesReleased
  SentenceFitsScreen
PROPERTIES
  RequestReturns
