SPECIFICATION WardFairSpec
CONSTANTS
  WaitButtonTimeout = 1
  AuthWindow = 1
  Debounce = 1
  MaxEdges = 1
  Commands <- MCCommands
  CertLen = 0
  OutCap = 502
  SigLengths = {72}
  Requests <- MCRequests
  MaxOutstanding = 1
  SeqModulus = 1
PROPERTIES
  DeviceComesBack
  HostIsAnswered
