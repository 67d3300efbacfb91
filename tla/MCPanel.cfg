SPECIFICATION PanelFairSpec
CONSTANTS
  WaitButtonTimeout = 8
  AuthWindow = 5
  Debounce = 2
  MaxEdges = 3
  ProcessingPeriod = 1
  WaitPeriod = 2
  AuthPeriod = 3
  IdlePeriod = 4
INVARIANTS
  PanelTypeOK
  EdgePerConfirm
  LedFollows
  PromptSeen
PROPERTIES
  ImplementsPresence
  DeadlineNeverExtended
  DebounceNotRestarted
  AuthorizationEnds
  HeldPressConfirmed
