SPECIFICATION AppletSpec
CONSTANTS
  WaitButtonTimeout = 2
  AuthWindow = 1
  Commands <- MCCommands
  CertLen = 600
  OutCap = 502
  SigLengths = {70, 72}
INVARIANTS
  AppletTypeOK
  SigningNeedsPin
  BodiesNotLost
  AnnouncedLengthKept
  CertObjWellFormed
  BetweenOperations
PROPERTIES
  ChunksAssemble
  RefusalAsksUser
