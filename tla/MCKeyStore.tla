----------------------------- MODULE MCKeyStore -----------------------------
(* Three keys, so that two generations may be lost to power failures, and  *)
(* a certificate that reaches the third page.                              *)
EXTENDS KeyStore
=============================================================================
