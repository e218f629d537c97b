------------------------- MODULE MCCppThreadsTimer -------------------------
(* CppThreadsTimer for TLC.                                                  *)
EXTENDS CppThreadsTimer
=============================================================================
