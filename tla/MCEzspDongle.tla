---- MODULE MCEzspDongle ----
(* Instances of EzspDongle for TLC. *)
EXTENDS EzspDongle
====
