-------------------------- MODULE MCDongleThreads --------------------------
(* DongleThreads on the instances of the Threads*.cfg files.                 *)
EXTENDS DongleThreads
=============================================================================
