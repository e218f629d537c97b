---------------------------- MODULE MCAshFraming ----------------------------
(* AshFraming on the instance of AshFraming.cfg.                             *)
EXTENDS AshFraming

Data(n, payload) == [control |-> 16 * n, payload |-> payload]
RstAck == [control |-> RSTACK, payload |-> <<2, 11>>]
Ack == [control |-> 129, payload |-> <<>>]

(* The payloads <<60, 48>> and <<60>> become bytes that are stuffed (0x7E,    *)
(* 0x11) once randomised; the payload <<126>> becomes 0x3C, which is not.     *)
MCSendable == {<<RstAck, Data(0, <<60, 48>>), Ack>>,
               <<Data(0, <<60>>), Data(1, <<126>>), Data(2, <<60>>)>>}
=============================================================================
