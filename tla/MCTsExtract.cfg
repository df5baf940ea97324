SPECIFICATION Spec
CONSTANTS
  MaxPackets = 4
INVARIANTS ParserTypeOK ExtractedAsAnnounced NothingLostOfOneProgram
CHECK_DEADLOCK FALSE
