----------------------------- MODULE EzspLayouts -----------------------------
(***************************************************************************)
(* The adapter's side of a message, which is not in src/: the order and    *)
(* the widths in which EZSP declares the fields of a structure or of a     *)
(* command, and the bytes the adapter writes or expects for their values.  *)
(* A layout is a sequence of <<field, kind>>; values are a record.         *)
(***************************************************************************)
EXTENDS Integers, Sequences

LOCAL INSTANCE SequencesExt

(* ----------------------------------------------------------------- headers --- *)

LegacyHeader == << <<"sequence", "byte">>, <<"control", "byte">>, <<"id", "byte">> >>

ExtendedHeader == << <<"sequence", "byte">>, <<"control", "byte">>, <<"announced", "byte">>,
  <<"extended_control", "byte">>, <<"id", "byte">> >>

WideHeader == << <<"sequence", "byte">>, <<"control", "word">>, <<"id", "word">> >>

(* From version 8 on headers are wide; before, they are extended, but those  *)
(* of VERSION, with which an adapter is asked for its version (0: unknown).  *)
HeaderOf(version, isVersion) ==
  IF version >= 8 THEN WideHeader ELSE IF isVersion THEN LegacyHeader ELSE ExtendedHeader

(* ---------------------------------------------------- received structures --- *)

NetworkFound == << <<"channel", "byte">>, <<"panId", "word">>, <<"extendedPanId", "eui64">>,
  <<"allowingJoin", "bool">>, <<"stackProfile", "byte">>, <<"nwkUpdateId", "byte">> >>

NetworkParameters == << <<"extend_pan_id", "eui64">>, <<"pan_id", "word">>,
  <<"radio_tx_power", "byte">>, <<"radio_channel", "byte">>, <<"join_method", "byte">>,
  <<"nwk_manager_id", "word">>, <<"nwk_update_id", "byte">>, <<"channels", "long">> >>

ChildData == << <<"eui64", "eui64">>, <<"type", "byte">>, <<"id", "word">>, <<"phy", "byte">>,
  <<"power", "byte">>, <<"timeout", "byte">> >>

KeyStruct == << <<"bitmask", "word">>, <<"type", "byte">>, <<"key", "key">>,
  <<"outgoingFrameCounter", "long">>, <<"incomingFrameCounter", "long">>,
  <<"sequenceNumber", "byte">>, <<"partnerEUI64", "eui64">> >>

GpFrame == << <<"status", "byte">>, <<"link_value", "byte">>, <<"sequence_number", "byte">>,
  <<"application_id", "zero">>, <<"source_id", "long">>, <<"source_again", "long">>,
  <<"endpoint", "byte">>, <<"security", "byte">>, <<"key_type", "byte">>,
  <<"auto_commissioning", "bool">>, <<"rx_after_tx", "bool">>,
  <<"security_frame_counter", "long">>, <<"command_id", "byte">>, <<"mic", "long">>,
  <<"proxy_table_entry", "byte">>, <<"payload", "counted">> >>

ProxyTableEntry == << <<"status", "byte">>, <<"options", "long">>, <<"application_id", "zero">>,
  <<"gpdIeeeAddress", "eui64">>, <<"endpoint", "byte">>, <<"assigned_alias", "word">>,
  <<"security_options", "byte">>, <<"gpdSecurityFrameCounter", "long">>, <<"gpd_key", "key">>,
  <<"sink_list", "sinks">>, <<"groupcast_radius", "byte">>, <<"search_counter", "byte">> >>

SinkTableEntry == << <<"status", "byte">>, <<"options", "word">>, <<"application_id", "zero">>,
  <<"gpdIeeeAddress", "eui64">>, <<"endpoint", "byte">>, <<"device_id", "byte">>,
  <<"sink_list", "sinks">>, <<"assigned_alias", "word">>, <<"groupcast_radius", "byte">>,
  <<"security_options", "byte">>, <<"gpdSecurity_frame_counter", "long">>, <<"gpd_key", "key">> >>

(* --------------------------------------------------------------- commands --- *)

ApsFrame == << <<"profile_id", "word">>, <<"cluster_id", "word">>, <<"src_ep", "byte">>,
  <<"dest_ep", "byte">>, <<"option", "word">>, <<"group_id", "word">>, <<"sequence", "byte">> >>

Unicast == << <<"type", "byte">>, <<"destination", "word">> >> \o ApsFrame
  \o << <<"tag", "byte">>, <<"message", "counted">> >>

Broadcast == << <<"destination", "word">> >> \o ApsFrame
  \o << <<"radius", "byte">>, <<"tag", "byte">>, <<"message", "counted">> >>

Endpoint == << <<"number", "byte">>, <<"profile", "word">>, <<"device", "word">>,
  <<"flags", "byte">>, <<"inputs", "byte">>, <<"outputs", "byte">>, <<"input", "word">>,
  <<"output", "word">> >>

SecurityState == << <<"bitmask", "word">>, <<"preconfiguredKey", "key">>, <<"networkKey", "key">>,
  <<"sequence", "byte">>, <<"trustCenter", "eui64">> >>

Scan == << <<"type", "byte">>, <<"channels", "long">>, <<"duration", "byte">> >>

(* A sink entry as it is set: an unused sink is its type alone.              *)
SetSinkEntry == << <<"index", "byte">>, <<"status", "byte">>, <<"options", "word">>,
  <<"application_id", "zero">>, <<"gpdIeeeAddress", "eui64">>, <<"endpoint", "byte">>,
  <<"device_id", "byte">>, <<"sink_list", "unused">>, <<"assigned_alias", "word">>,
  <<"groupcast_radius", "byte">>, <<"security_options", "byte">>,
  <<"gpdSecurity_frame_counter", "long">>, <<"gpd_key", "key">> >>

GpPairing == << <<"options", "flags">>, <<"application_id", "zero">>,
  <<"gpdIeeeAddress", "eui64">>, <<"endpoint", "byte">>, <<"commMode", "byte">>,
  <<"sinkNetworkAddress", "word">>, <<"sinkGroupId", "word">>, <<"assignedAlias", "word">>,
  <<"sinkIeeeAddress", "eui64">>, <<"gpdKey", "key">>, <<"gpdSecurityFrameCounter", "long">>,
  <<"forwardingRadius", "byte">> >>

GpSend == << <<"action", "bool">>, <<"use_cca", "bool">>, <<"application_id", "zero">>,
  <<"gpdIeeeAddress", "eui64">>, <<"endpoint", "byte">>, <<"command_id", "byte">>,
  <<"payload", "counted">>, <<"handle", "byte">>, <<"life_time_ms", "word">> >>

(* ------------------------------------------------------------- their bytes --- *)

(* A value of several bytes is the tuple of them, the lowest first.          *)
Encoded(kind, v) ==
  CASE kind \in {"byte", "zero"} -> <<v>>
    [] kind = "bool" -> <<IF v THEN 1 ELSE 0>>
    [] kind = "word" -> <<v % 256, v \div 256>>
    [] kind = "flags" -> <<v % 256, (v \div 256) % 256, v \div 65536, 0>>
    [] kind = "counted" -> <<Len(v)>> \o v
    [] OTHER -> v

Written(layout, v) == FlattenSeq([i \in DOMAIN layout |-> Encoded(layout[i][2], v[layout[i][1]])])

(* What the adapter reads of a structure of bytes and words.                 *)
Received(layout, bytes) ==
  LET Width(f) == IF f[2] = "word" THEN 2 ELSE 1
      Offset(i) == FoldLeft(LAMBDA n, f : n + Width(f), 0, SubSeq(layout, 1, i - 1))
      Place(name) == CHOOSE i \in DOMAIN layout : layout[i][1] = name
      Value(i) == bytes[Offset(i) + 1] + (IF layout[i][2] = "word" THEN 256 * bytes[Offset(i) + 2] ELSE 0)
  IN [name \in {f[1] : f \in ToSet(layout)} |-> Value(Place(name))]

(* Some value of each field, that differs from place to place.               *)
Ramp(seed, n) == [k \in 1 .. n |-> (seed + 37 * k) % 256]

Size == [long |-> 4, eui64 |-> 8, key |-> 16, sinks |-> 22, unused |-> 2, counted |-> 3]

SomeValue(kind, seed) ==
  CASE kind \in {"zero", "flags"} -> 0
    [] kind = "byte" -> seed % 256
    [] kind = "bool" -> seed % 2 = 1
    [] kind = "word" -> (seed * 517) % 65536
    [] OTHER -> Ramp(seed, Size[kind])

SomeValues(layout, seed) ==
  LET Place(f) == CHOOSE i \in DOMAIN layout : layout[i][1] = f
  IN [f \in {layout[i][1] : i \in DOMAIN layout} |->
        SomeValue(layout[Place(f)][2], seed + 91 * Place(f))]

(* A number made of bit fields, of <<width, value>> from the lowest bits up. *)
Packed(fields) == FoldRight(LAMBDA f, high : f[2] + (2 ^ f[1]) * high, fields, 0)
Bool(b) == <<1, IF b THEN 1 ELSE 0>>

=============================================================================
