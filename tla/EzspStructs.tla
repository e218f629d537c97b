----------------------------- MODULE EzspStructs -----------------------------
(***************************************************************************)
(* The structures EZSP carries, as the library reads them from a message   *)
(* and as it writes them: ezsp-protocol/ and its struct/ directory.  The   *)
(* readers take each field at the offset the source gives it.  A field of  *)
(* 32 or 64 bits is the tuple of its bytes, the lowest first.              *)
(***************************************************************************)
EXTENDS ByteManip

LOCAL INSTANCE SequencesExt

EMBER_EUI64_BYTE_SIZE == 8
EMBER_KEY_DATA_BYTE_SIZE == 16

(* ByteBuffer(raw.begin() + i, raw.end())                                    *)
From(raw, i) == SubSeq(raw, i + 1, Len(raw))

(* ---------------------------------------------------------- the network --- *)

(* `skip` is the offset of the structure in the message.                     *)
CEmberNetworkParameters(raw, skip) ==
  [extend_pan_id |-> Bytes_at(raw, skip, 8),
   pan_id |-> Word16(raw, skip + 8),
   radio_tx_power |-> At(raw, skip + 10),
   radio_channel |-> At(raw, skip + 11),
   join_method |-> At(raw, skip + 12),
   nwk_manager_id |-> Word16(raw, skip + 13),
   nwk_update_id |-> At(raw, skip + 15),
   channels |-> Word32(raw, 16)]

CEmberNetworkParameters_getRaw(p) ==
  p.extend_pan_id \o Raw16(p.pan_id)
    \o <<p.radio_tx_power, p.radio_channel, p.join_method>>
    \o Raw16(p.nwk_manager_id) \o <<p.nwk_update_id>> \o p.channels

(* Mutant: the structure is read from the node type on.                      *)
ResponseReadEarly(raw) ==
  [status |-> At(raw, 0), node_type |-> At(raw, 1),
   parameters |-> CEmberNetworkParameters(raw, 1)]

CGetNetworkParametersResponse(raw) ==
  [status |-> At(raw, 0), node_type |-> At(raw, 1),
   parameters |-> CEmberNetworkParameters(raw, 2)]

CEmberZigbeeNetwork(raw) ==
  [channel |-> At(raw, 0), panId |-> Word16(raw, 1),
   extendedPanId |-> Bytes_at(raw, 3, 8), allowingJoin |-> At(raw, 11) # 0,
   stackProfile |-> At(raw, 12), nwkUpdateId |-> At(raw, 13)]

CEmberChildDataStruct(raw) ==
  [eui64 |-> Bytes_at(raw, 0, EMBER_EUI64_BYTE_SIZE),
   type |-> At(raw, EMBER_EUI64_BYTE_SIZE),
   id |-> Word16(raw, EMBER_EUI64_BYTE_SIZE + 1),
   phy |-> At(raw, EMBER_EUI64_BYTE_SIZE + 3),
   power |-> At(raw, EMBER_EUI64_BYTE_SIZE + 4),
   timeout |-> At(raw, EMBER_EUI64_BYTE_SIZE + 5)]

CEmberKeyStruct(raw) ==
  [bitmask |-> Word16(raw, 0), type |-> At(raw, 2),
   key |-> Bytes_at(raw, 3, EMBER_KEY_DATA_BYTE_SIZE),
   outgoingFrameCounter |-> Bytes_at(raw, 19, 4),
   incomingFrameCounter |-> Bytes_at(raw, 23, 4),
   sequenceNumber |-> At(raw, 27),
   partnerEUI64 |-> Bytes_at(raw, 28, EMBER_EUI64_BYTE_SIZE)]

(* ----------------------------------------------------------- green power --- *)

CEmberGpAddressStruct(raw) ==
  [applicationId |-> At(raw, 0),
   gpdIeeeAddress |-> Bytes_at(raw, 1, EMBER_EUI64_BYTE_SIZE),
   endpoint |-> At(raw, EMBER_EUI64_BYTE_SIZE + 1)]

(* The address of a source ID, which it holds twice.                         *)
CEmberGpAddressStruct_of(srcId) ==
  [applicationId |-> 0, gpdIeeeAddress |-> srcId \o srcId, endpoint |-> 0]

getSourceId(addr) == Word32(addr.gpdIeeeAddress, 0)

CEmberGpAddressStruct_getRaw(addr) ==
  <<addr.applicationId>> \o addr.gpdIeeeAddress \o <<addr.endpoint>>

CEmberGpSinkTableOption(w) ==
  [application_id |-> w % 8, communication_mode |-> (w \div 8) % 4,
   sequence_number_capabilities |-> Bit(w, 5), rx_on_capability |-> Bit(w, 6),
   fixed_location |-> Bit(w, 7), assigned_alias |-> Bit(w, 8), security_use |-> Bit(w, 9)]

CEmberGpSinkTableOption_get(o) ==
  o.application_id + 8 * o.communication_mode
    + Flag(o.sequence_number_capabilities, 5) + Flag(o.rx_on_capability, 6)
    + Flag(o.fixed_location, 7) + Flag(o.assigned_alias, 8) + Flag(o.security_use, 9)

GP_SINK_LIST_ENTRIES == 2
NoSinks == [i \in 1 .. GP_SINK_LIST_ENTRIES |-> <<255>>]

CEmberGpSinkTableEntryStruct(raw) ==
  [status |-> At(raw, 0), options |-> CEmberGpSinkTableOption(Word16(raw, 1)),
   gpd |-> CEmberGpAddressStruct(From(raw, 3)), device_id |-> At(raw, 13),
   sink_list |-> NoSinks, assigned_alias |-> Word16(raw, 36),
   groupcast_radius |-> At(raw, 38), security_options |-> At(raw, 39),
   gpdSecurity_frame_counter |-> Word32(raw, 40),
   gpd_key |-> Bytes_at(raw, 44, EMBER_KEY_DATA_BYTE_SIZE)]

(* A list of sinks is written as the one byte it holds, and read as 22.      *)
CEmberGpSinkTableEntryStruct_getRaw(e) ==
  <<e.status>> \o Raw16(CEmberGpSinkTableOption_get(e.options))
    \o CEmberGpAddressStruct_getRaw(e.gpd) \o <<e.device_id>> \o FlattenSeq(e.sink_list)
    \o Raw16(e.assigned_alias) \o <<e.groupcast_radius, e.security_options>>
    \o e.gpdSecurity_frame_counter \o e.gpd_key

getSecurityLevel(e) == e.security_options % 4
getSecurityKeyType(e) == (e.security_options \div 4) % 8

CEmberGpProxyTableEntryStruct(raw) ==
  [status |-> At(raw, 0), options |-> Word32(raw, 1),
   gpd |-> CEmberGpAddressStruct(From(raw, 5)), assigned_alias |-> Word16(raw, 15),
   security_options |-> At(raw, 17), gpdSecurityFrameCounter |-> Word32(raw, 18),
   gpd_key |-> Bytes_at(raw, 22, EMBER_KEY_DATA_BYTE_SIZE),
   groupcast_radius |-> At(raw, 60), search_counter |-> At(raw, 61)]

(* The options of a GP Pairing command: 18 bits.                             *)
CGpPairingCommandOption(o, add_sink, remove_gpd, level, key_type, counter, key, radius) ==
  o.application_id + Flag(add_sink, 3) + Flag(remove_gpd, 4) + 32 * o.communication_mode
    + Flag(o.fixed_location, 7) + Flag(o.sequence_number_capabilities, 8)
    + 512 * level + 2048 * key_type + Flag(counter, 14) + Flag(key, 15)
    + Flag(o.assigned_alias, 16) + Flag(radius, 17)

Zeros(n) == [i \in 1 .. n |-> 0]

(* What removes a device from the proxy table of the adapter.                *)
CProcessGpPairingParam_of(srcId) ==
  [options |-> CGpPairingCommandOption(CEmberGpSinkTableOption(0), FALSE, TRUE, 0, 0,
                                       FALSE, FALSE, FALSE),
   addr |-> CEmberGpAddressStruct_of(srcId), commMode |-> 0, sinkNetworkAddress |-> 0,
   sinkGroupId |-> 0, assignedAlias |-> 0, sinkIeeeAddress |-> Zeros(8),
   gpdKey |-> Zeros(16), gpdSecurityFrameCounter |-> Zeros(4), forwardingRadius |-> 0]

(* What pairs the adapter with the device of a sink table entry.             *)
CProcessGpPairingParam(e, add_sink, remove_gpd, sinkNetworkAddress, sinkIeeeAddress) ==
  [options |-> CGpPairingCommandOption(e.options, add_sink, remove_gpd, getSecurityLevel(e),
                                       getSecurityKeyType(e), TRUE, TRUE, TRUE),
   addr |-> e.gpd, commMode |-> e.options.communication_mode,
   sinkNetworkAddress |-> sinkNetworkAddress, sinkGroupId |-> Word16(getSourceId(e.gpd), 0),
   assignedAlias |-> e.assigned_alias, sinkIeeeAddress |-> sinkIeeeAddress,
   gpdKey |-> e.gpd_key, gpdSecurityFrameCounter |-> e.gpdSecurity_frame_counter,
   forwardingRadius |-> e.groupcast_radius]

CProcessGpPairingParam_get(p) ==
  Raw32(p.options) \o CEmberGpAddressStruct_getRaw(p.addr) \o <<p.commMode>>
    \o Raw16(p.sinkNetworkAddress) \o Raw16(p.sinkGroupId) \o Raw16(p.assignedAlias)
    \o p.sinkIeeeAddress \o p.gpdKey \o p.gpdSecurityFrameCounter \o <<p.forwardingRadius>>

=============================================================================
