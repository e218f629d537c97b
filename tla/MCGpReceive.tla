---------------------------- MODULE MCGpReceive ----------------------------
(* GpReceive on the instance of GpReceive.cfg.                               *)
EXTENDS GpReceive
=============================================================================
