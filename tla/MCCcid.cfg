SPECIFICATION TransportFairSpec
CONSTANTS
  Requests <- MCRequests
  MaxOutstanding = 1
  SeqModulus = 3
INVARIANTS
  CcidTypeOK
  AnswersMatch
  OneAnswerEach
  NeverDeaf
  StatusTruthful
PROPERTY RequestsAnswered
