-------------------------- MODULE MCEventPipeline --------------------------
(* TLC instance of EventPipeline: relays and consumers are interchangeable.*)
EXTENDS EventPipeline, TLC

Symmetry == Permutations(Relay) \cup Permutations(Consumer)
=============================================================================
