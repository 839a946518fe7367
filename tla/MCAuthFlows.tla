---------------------------- MODULE MCAuthFlows ----------------------------
(* TLC instance of AuthFlows: requests and devices are interchangeable.    *)
EXTENDS AuthFlows, TLC

Symmetry == Permutations(Caller) \cup Permutations(Fingerprint)
=============================================================================
