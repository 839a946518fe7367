----------------------------- MODULE MCBoardFeed -----------------------------
(* TLC instance of BoardFeed; the constants are given in MCBoardFeed.cfg.    *)
EXTENDS BoardFeed
=============================================================================
