--------------------------- MODULE TokenIdentity ---------------------------
(***************************************************************************)
(* What the key store promises to a host that was paired with the token:   *)
(* whenever the token comes up, it shows the key and the certificate that  *)
(* it showed the first time.                                               *)
(***************************************************************************)
CONSTANT Unknown   \* the identity of a token that never came up

VARIABLES up, identity

IdentityInit == up = FALSE /\ identity = Unknown

ComeUp == /\ ~up
          /\ up' = TRUE
          /\ identity # Unknown => identity' = identity

GoDown == up /\ up' = FALSE /\ UNCHANGED identity

IdentityNext == ComeUp \/ GoDown
IdentitySpec == IdentityInit /\ [][IdentityNext]_<<up, identity>>
=============================================================================
