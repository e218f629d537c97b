---------------------------- MODULE AdapterVersion ----------------------------
(***************************************************************************)
(* EzspAdapterVersion: what is known of an adapter's version (0 where it   *)
(* is not known), as the answers to VERSION and GET_XNCP_INFO set it, and  *)
(* the comparison of two.                                                  *)
(***************************************************************************)
EXTENDS ByteManip

UNKNOWN == 0
LEGRAND == 4129     \* 0x1021

Unknown ==
  [protocol |-> 0, stackType |-> 0, stack |-> <<0, 0, 0, 0>>,
   manufacturer |-> UNKNOWN, hardware |-> 0, firmware |-> <<0, 0, 0>>]

Nibbles(w) ==
  <<u8_get_hi_nibble(u16_get_hi_u8(w)), u8_get_lo_nibble(u16_get_hi_u8(w)),
    u8_get_hi_nibble(u16_get_lo_u8(w)), u8_get_lo_nibble(u16_get_lo_u8(w))>>

setEzspVersionInfo(v, stackVersion, protocol, stackType) ==
  [v EXCEPT !.stack = Nibbles(stackVersion), !.protocol = protocol, !.stackType = stackType]

setXncpData(v, manufacturer, version) ==
  LET n == Nibbles(version)
  IN [v EXCEPT !.manufacturer = manufacturer, !.hardware = n[1], !.firmware = Tail(n)]

EMBER_SUCCESS == 0

(* The answer to VERSION, which some adapters cut to its last two bytes when *)
(* it is asked for again.                                                    *)
HandleVersion(v, raw) ==
  IF Len(raw) = 2 THEN [v EXCEPT !.stack = Nibbles(Word16(raw, 0))]
  ELSE IF Len(raw) = 4 THEN setEzspVersionInfo(v, Word16(raw, 2), At(raw, 0), At(raw, 1))
  ELSE v

(* The answer to GET_XNCP_INFO.                                              *)
HandleXncpInfo(v, raw) ==
  IF Len(raw) >= 5 /\ At(raw, 0) = EMBER_SUCCESS
    THEN setXncpData(v, Word16(raw, 1), Word16(raw, 3))
    ELSE v

(* What cmp() compares of v with w, the most important first: the protocol   *)
(* and the stack type if both are known, then the firmware of two Legrand    *)
(* adapters, or else the stack.                                              *)
Known(a, b) == IF a # 0 /\ b # 0 THEN a ELSE 0

Compared(v, w) ==
  <<Known(v.protocol, w.protocol), Known(v.stackType, w.stackType)>>
    \o (IF v.manufacturer = LEGRAND /\ w.manufacturer = LEGRAND THEN v.firmware ELSE v.stack)

(* -1, 0 or 1: the order of the first that differs.                          *)
cmp(lhs, rhs) ==
  LET l == Compared(lhs, rhs)
      r == Compared(rhs, lhs)
      Differs(i) == l[i] # r[i] /\ \A j \in 1 .. i - 1 : l[j] = r[j]
  IN IF l = r THEN 0
     ELSE IF \E i \in DOMAIN l : Differs(i) /\ l[i] > r[i] THEN 1 ELSE -1

=============================================================================
