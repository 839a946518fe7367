------------------------- MODULE MCServiceLifecycle -------------------------
(* TLC instance of ServiceLifecycle; see MCServiceLifecycle.cfg.            *)
EXTENDS ServiceLifecycle
=============================================================================
