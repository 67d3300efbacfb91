SPECIFICATION ApduSpec
CONSTANTS
  Messages <- PlainMessages
  MaxMessages = 2
CHECK_DEADLOCK FALSE
INVARIANT ExtendedUnderstood
