---------------------------- MODULE CommandQueue ----------------------------
(***************************************************************************)
(* What CEzspDongle promises to the user of sendCommand(): commands are    *)
(* executed by the adapter in the order they were accepted, each exactly   *)
(* once, and none before the one ahead of it has been completed (its       *)
(* response received and the command taken out of the queue).  Commands    *)
(* are named by the order in which they were accepted.                     *)
(***************************************************************************)
EXTENDS Naturals, Sequences

VARIABLES
  accepted,   \* how many commands sendCommand() has taken
  executed,   \* what the adapter has executed, in order
  completed   \* how many commands are done with

vars == <<accepted, executed, completed>>

Init == accepted = 0 /\ executed = <<>> /\ completed = 0

Accept ==
  /\ accepted' = accepted + 1
  /\ UNCHANGED <<executed, completed>>

Execute ==
  /\ completed < accepted
  /\ Len(executed) = completed
  /\ executed' = Append(executed, completed + 1)
  /\ UNCHANGED <<accepted, completed>>

Complete ==
  /\ Len(executed) = completed + 1
  /\ completed' = completed + 1
  /\ UNCHANGED <<accepted, executed>>

Next == Accept \/ Execute \/ Complete

Spec == Init /\ [][Next]_vars

=============================================================================
