SPECIFICATION ApduSpec
CONSTANTS
  Messages <- MCMessages
  MaxMessages = 2
CHECK_DEADLOCK FALSE
INVARIANTS
  ApduTypeOK
  ShortUnderstood
  ParsedInsideMessage
  AnswerFromMessage
  SignedIsChallenge
