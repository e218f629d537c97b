------------------------------ MODULE MCGpSink ------------------------------
(* GpSink on the instance of Sink.cfg.                                       *)
EXTENDS GpSink
=============================================================================
