SPECIFICATION WardSpec
CONSTANTS
  WaitButtonTimeout = 2
  AuthWindow = 1
  Debounce = 1
  MaxEdges = 2
  Commands <- PolicyCommands
  CertLen = 0
  OutCap = 502
  SigLengths = {72}
  Requests <- PolicyRequests
  MaxOutstanding = 1
  SeqModulus = 1
INVARIANTS
  WardTypeOK
  OneEdgeOneOperation
  IdleWithoutHost
PROPERTIES
  ImplementsPolicy
  ImplementsTransport
