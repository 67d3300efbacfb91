SPECIFICATION KeySpec
CONSTANTS
  Keys = {k1, k2, k3}
  Pages = 3
INVARIANT CertSurvives
