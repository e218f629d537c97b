------------------------------ MODULE MCExample ------------------------------
(* Instances of Example: two devices, each of which may be known from an     *)
(* earlier session; -r and -s name at most one each.                         *)
EXTENDS Example

CONSTANTS old, new

Choices ==
  {o \in Options :
     /\ o.upgrade => o.remove = <<>> /\ o.add = <<>> /\ ~o.removeAll /\ ~o.key
     /\ o.commission => ~o.answer
     /\ Len(o.remove) <= 1 /\ Len(o.add) <= 1}

Init == ExampleInit(Choices)

Spec == Init /\ [][ExampleNext]_exampleVars /\ ExampleFair
=============================================================================
