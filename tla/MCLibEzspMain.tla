---------------------------- MODULE MCLibEzspMain ----------------------------
(* LibEzspMain on the instance of Lib.cfg.                                   *)
EXTENDS LibEzspMain
=============================================================================
