---------------------------- MODULE MCWebSession ----------------------------
(* TLC instance of WebSession: the tabs are interchangeable.  The other sets *)
(* are not declared symmetric, since free names are drawn with CHOOSE.       *)
EXTENDS WebSession, TLC

Symmetry == Permutations(Tab)
=============================================================================
