--------------------------- MODULE MCJwksVerifier ---------------------------
(* TLC instance of JwksVerifier.  Liveness is checked, so calls are not    *)
(* declared symmetric.                                                     *)
EXTENDS JwksVerifier
=============================================================================
