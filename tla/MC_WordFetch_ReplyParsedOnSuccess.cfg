CONSTANTS
  Replies <- MC_Replies
  ReadSizes <- MC_ReadSizes
SPECIFICATION Spec
INVARIANT
  ReplyParsedOnSuccess
