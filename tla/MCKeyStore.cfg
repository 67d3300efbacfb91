SPECIFICATION KeySpec
CONSTANTS
  Keys = {k1, k2, k3}
  Pages = 3
INVARIANTS
  KeyTypeOK
  CertMatchesKey
PROPERTIES
  KeyNeverReplaced
  ImplementsIdentity
