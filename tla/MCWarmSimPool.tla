---------------------------- MODULE MCWarmSimPool ----------------------------
(* The instance of WarmSimPool for TLC.                                      *)
EXTENDS WarmSimPool
=============================================================================
