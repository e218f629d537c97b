---------------------------- MODULE ClusterReports ----------------------------
(***************************************************************************)
(* What the example makes of the Green Power frames that report            *)
(* attributes: the readings that MainStateMachine shows, and whether it    *)
(* could decode all of the payload.                                        *)
(***************************************************************************)
EXTENDS ByteManip

ZCL_BOOLEAN_ATTRIBUTE_TYPE == 16
ZCL_INT8U_ATTRIBUTE_TYPE == 32
ZCL_INT16U_ATTRIBUTE_TYPE == 33
ZCL_INT16S_ATTRIBUTE_TYPE == 41
ZCL_CHAR_STRING_ATTRIBUTE_TYPE == 66

(* The attributes that are known, by cluster, attribute and type.            *)
Attributes == [
  firmware |-> <<0, 16384, ZCL_CHAR_STRING_ATTRIBUTE_TYPE>>,
  door |-> <<15, 85, ZCL_BOOLEAN_ATTRIBUTE_TYPE>>,
  temperature |-> <<1026, 0, ZCL_INT16S_ATTRIBUTE_TYPE>>,
  humidity |-> <<1029, 0, ZCL_INT16U_ATTRIBUTE_TYPE>>,
  battery |-> <<1, 32, ZCL_INT8U_ATTRIBUTE_TYPE>>]

(* Mutant: the length of a string is not counted.                            *)
EndOfString(payload, kind) ==
  CASE kind \in {"temperature", "humidity"} -> 7
    [] kind \in {"door", "battery", "firmware"} -> 6

(* Where the value of an attribute ends.                                     *)
ValueEnd(payload, kind) ==
  CASE kind \in {"temperature", "humidity"} -> 7
    [] kind = "firmware" /\ Len(payload) >= 6 -> 6 + At(payload, 5)
    [] OTHER -> 6

int16_t(w) == IF w < 32768 THEN w ELSE w - 65536

(* / and % of C++, which round towards zero.                                 *)
Quotient(v, n) == IF v < 0 THEN -((-v) \div n) ELSE v \div n
Remainder(v, n) == v - n * Quotient(v, n)
Abs(v) == IF v < 0 THEN -v ELSE v

(* Numbers are shown as their whole and their decimal part.                  *)
Shown(payload, kind) ==
  LET value == int16_t(Word16(payload, 5))
      byte == At(payload, 5)
  IN <<kind, CASE kind = "temperature" -> <<Quotient(value, 100), Abs(Remainder(value, 100))>>
               [] kind = "humidity" -> <<Quotient(value, 100), Remainder(value, 100)>>
               [] kind = "battery" -> <<byte \div 10, byte % 10>>
               [] kind = "door" -> IF byte # 0 THEN "closed" ELSE "open"
               [] kind = "firmware" -> Bytes_at(payload, 6, byte)>>

NoReport == [used |-> 0, reading |-> <<>>]

extractClusterReport(payload) ==
  LET id == <<Word16(payload, 0), Word16(payload, 2), At(payload, 4)>>
      Kinds == {k \in DOMAIN Attributes : Attributes[k] = id}
  IN IF Len(payload) < 5 THEN NoReport
     ELSE IF Kinds = {} THEN NoReport
     ELSE LET kind == CHOOSE k \in Kinds : TRUE
          IN IF Len(payload) < ValueEnd(payload, kind) THEN NoReport
             ELSE [used |-> ValueEnd(payload, kind), reading |-> Shown(payload, kind)]

(* usedBytes is a byte, and payloads are at most 255 bytes long.             *)
RECURSIVE extractMultiClusterReport(_)
extractMultiClusterReport(payload) ==
  LET report == extractClusterReport(payload)
  IN IF payload = <<>> THEN [readings |-> <<>>, decoded |-> TRUE]
     ELSE IF report = NoReport THEN [readings |-> <<>>, decoded |-> FALSE]
     ELSE LET rest == extractMultiClusterReport(
                        SubSeq(payload, (report.used % 256) + 1, Len(payload)))
          IN [rest EXCEPT !.readings = <<report.reading>> \o @]

ATTRIBUTE_REPORTING == 160   \* 0xa0
MULTI_CLUSTER_REPORTING == 162
Commands == [x \in {32, 33} |-> IF x = 32 THEN "off" ELSE "on"]
CHANNEL_REQUEST == 161

onReceivedGPFrame(command_id, payload) ==
  CASE command_id = ATTRIBUTE_REPORTING ->
         LET report == extractClusterReport(payload)
         IN [readings |-> IF report = NoReport THEN <<>> ELSE <<report.reading>>,
             decoded |-> report # NoReport]
    [] command_id = MULTI_CLUSTER_REPORTING -> extractMultiClusterReport(payload)
    [] command_id \in DOMAIN Commands -> [readings |-> <<Commands[command_id]>>, decoded |-> TRUE]
    [] OTHER -> [readings |-> <<>>, decoded |-> command_id = CHANNEL_REQUEST]
=============================================================================
