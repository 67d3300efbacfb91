SPECIFICATION WardFairSpec
CONSTANTS
  WaitButtonTimeout = 2
  AuthWindow = 1
  Debounce = 1
  MaxEdges = 2
  Commands <- MCCommands
  CertLen = 0
  OutCap = 502
  SigLengths = {72}
  Requests <- MCRequests
  MaxOutstanding = 1
  SeqModulus = 1
PROPERTY WindowRespected
