----------------------------- MODULE MCOtpStore -----------------------------
(* TLC instance of OtpStore: codes and calls are interchangeable.          *)
EXTENDS OtpStore, TLC

Symmetry == Permutations(Code) \cup Permutations(Caller)
=============================================================================
