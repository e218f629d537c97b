---------------------------- MODULE ZigbeeMessages ----------------------------
(***************************************************************************)
(* A ZigBee message (CZigBeeMsg: an APS frame, a ZCL header unless the     *)
(* message is of ZDO, a payload) as the library builds it, writes it into  *)
(* the two EZSP commands that send one (CZigbeeMessaging), and reads one.  *)
(***************************************************************************)
EXTENDS EzspStructs

(* CAPSOption: the bits the source names, all but retries of them flags.     *)
APSOptionBits ==
  [encryption |-> 5, retry |-> 6, enable_route_discovery |-> 8, force_route_discovery |-> 9,
   src_ieee |-> 10, dest_ieee |-> 11, enable_addr_discovery |-> 12,
   zdo_rsp_requiered |-> 14, fragment |-> 15]

CAPSOption ==
  [o \in DOMAIN APSOptionBits |->
     o \in {"enable_addr_discovery", "enable_route_discovery", "retry", "src_ieee"}]

GetEmberApsOption(opt) ==
  LET Value(o) == Flag(opt[o], APSOptionBits[o])
  IN Value("encryption") + Value("retry") + Value("enable_route_discovery")
       + Value("force_route_discovery") + Value("src_ieee") + Value("dest_ieee")
       + Value("enable_addr_discovery") + Value("zdo_rsp_requiered") + Value("fragment")

SetEmberApsOption(w) == [o \in DOMAIN APSOptionBits |-> Bit(w, APSOptionBits[o])]

SetDefaultAPS(profile_id, cluster_id, dest_ep, group_id) ==
  [profile_id |-> profile_id, cluster_id |-> cluster_id, src_ep |-> 1, dest_ep |-> dest_ep,
   option |-> CAPSOption, group_id |-> group_id, sequence |-> 0]

GetEmberAPS(aps) ==
  Raw16(aps.profile_id) \o Raw16(aps.cluster_id) \o <<aps.src_ep, aps.dest_ep>>
    \o Raw16(GetEmberApsOption(aps.option)) \o Raw16(aps.group_id) \o <<aps.sequence>>

SetEmberAPS(raw) ==
  [profile_id |-> Word16(raw, 0), cluster_id |-> Word16(raw, 2), src_ep |-> At(raw, 4),
   dest_ep |-> At(raw, 5), option |-> SetEmberApsOption(Word16(raw, 6)),
   group_id |-> Word16(raw, 8), sequence |-> At(raw, 10)]

(* --------------------------------------------------------- the ZCL header --- *)

E_FRM_TYPE_GENERAL == 0
E_FRM_TYPE_SPECIFIC == 1
E_DIR_CLIENT_TO_SERVER == 0
E_DIR_SERVER_TO_CLIENT == 1
E_SW_CODE_SHORT == 0
E_SW_CODE_EVO2 == 1
LG_MAN_CODE == 4129     \* 0x1021
NO_MANUFACTURER == 65535

CZCLFrameControl(b) ==
  [frame_type |-> b % 4, manufacturer_code_present |-> Bit(b, 2),
   direction |-> (b \div 8) % 2, disable_default_rsp |-> Bit(b, 4),
   software_code |-> (b \div 32) % 8]

GetFrmCtrlByte(f) ==
  f.frame_type + Flag(f.manufacturer_code_present, 2)
    + Flag(f.direction = E_DIR_SERVER_TO_CLIENT, 3) + Flag(f.disable_default_rsp, 4)
    + Flag(f.software_code = E_SW_CODE_EVO2, 5)

(* SetPublicSpecific() and SetPublicGeneral() of a new CZCLHeader.           *)
SetPublic(frame_type, manufacturer_id, cmd_id, direction, transaction_number) ==
  [frm_ctrl |-> [frame_type |-> frame_type,
                 manufacturer_code_present |-> manufacturer_id # NO_MANUFACTURER,
                 direction |-> direction, disable_default_rsp |-> TRUE,
                 software_code |-> E_SW_CODE_SHORT],
   manufacturer_code |-> manufacturer_id, transaction_number |-> transaction_number,
   cmd_id |-> cmd_id]

GetZCLHeader(h) ==
  <<GetFrmCtrlByte(h.frm_ctrl)>>
    \o (IF h.frm_ctrl.manufacturer_code_present THEN Raw16(h.manufacturer_code) ELSE <<>>)
    \o <<h.transaction_number, h.cmd_id>>

(* Mutant: a manufacturer code is not counted.                               *)
HeaderSizeShort(f) == 3

(* The bytes of a header, and the header that a message starts with.         *)
HeaderSize(f) == IF f.manufacturer_code_present THEN 5 ELSE 3

CZCLHeader(raw) ==
  LET f == CZCLFrameControl(At(raw, 0))
  IN [frm_ctrl |-> f,
      manufacturer_code |-> IF f.manufacturer_code_present THEN Word16(raw, 1) ELSE 0,
      transaction_number |-> At(raw, HeaderSize(f) - 2),
      cmd_id |-> At(raw, HeaderSize(f) - 1)]

(* -------------------------------------------------------------- messages --- *)

NoHeader == [none |-> TRUE]

(* SetSpecific() and SetGeneral(), of E_FRM_TYPE_SPECIFIC and _GENERAL.      *)
SetZcl(type, profile, manufacturer, endpoint, cluster, cmd, direction, payload, nb, group) ==
  [aps |-> SetDefaultAPS(profile, cluster, endpoint, group),
   zcl_header |-> SetPublic(type, manufacturer, cmd, direction, nb),
   use_zcl_header |-> TRUE, payload |-> payload]

SetZdo(cmd, payload, transaction) ==
  [aps |-> SetDefaultAPS(0, cmd, 0, 0), zcl_header |-> NoHeader,
   use_zcl_header |-> FALSE, payload |-> <<transaction>> \o payload]

(* Set() of a new CZigBeeMsg.                                                *)
Set(aps, msg) ==
  LET a == SetEmberAPS(aps)
      uses == a.src_ep # 0
      h == CZCLHeader(msg)
  IN [aps |-> a, use_zcl_header |-> uses,
      zcl_header |-> IF uses THEN h ELSE NoHeader,
      payload |-> IF uses THEN From(msg, HeaderSize(h.frm_ctrl)) ELSE msg]

Get(m) == (IF m.use_zcl_header THEN GetZCLHeader(m.zcl_header) ELSE <<>>) \o m.payload

(* The length of a message is written in one byte.                           *)
Counted(msg) == <<Len(msg) % 256>> \o msg

EMBER_OUTGOING_DIRECT == 0

SendBroadcast(destination, radius, m) ==
  Raw16(destination) \o GetEmberAPS(m.aps) \o <<radius, 0>> \o Counted(Get(m))

SendUnicast(node, m) ==
  <<EMBER_OUTGOING_DIRECT>> \o Raw16(node) \o GetEmberAPS(m.aps) \o <<0>> \o Counted(Get(m))

=============================================================================
