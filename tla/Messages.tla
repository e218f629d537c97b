------------------------------- MODULE Messages -------------------------------
(***************************************************************************)
(* The bytes between the library and what it talks to: the adapter, and    *)
(* through it a ZigBee node or a Green Power device.  One exchange at a    *)
(* time: what one side said, as values, and what came of it on the other.  *)
(* The library's readers and writers are those of the source (EzspFrames,  *)
(* EzspStructs, ZigbeeMessages, GreenPowerFrame, AdapterVersion,           *)
(* StackConfig); the other side goes by the layouts that EZSP declares     *)
(* (EzspLayouts).  The programs that come with the library read what their *)
(* users type, what devices measure and what images hold (ExampleOptions,  *)
(* ClusterReports, GblVersion).                                            *)
(***************************************************************************)
EXTENDS EzspFrames, ZigbeeMessages, GreenPowerFrame, AdapterVersion, StackConfig, EzspLayouts,
        ExampleOptions, ClusterReports, GblVersion

CONSTANTS
  Seeds,          \* from which the values of a structure are made
  Payloads,       \* payloads of a ZigBee message
  Manufacturers,  \* manufacturer codes of a ZCL header
  Options, ExtendedOptions, AppInformations,  \* bits of a commissioning command
  Genuine, GenuineKey, WrongKey,  \* a frame a device has sent, and keys
  Masks,          \* the bits that an altered byte loses or gains
  Adapters,       \* adapters whose versions are compared
  Measurements,   \* sequences of what a device measured
  Images,         \* firmware images, as sequences of sections
  Cuts,           \* how many bytes are missing at the end of one of these
  CommandLines    \* sequences of options

VARIABLE exchange

None == [kind |-> "none"]

Init == exchange = None

Begin(kind, said, read) == exchange' = [kind |-> kind, said |-> said, read |-> read]

Done == exchange.kind # "none" /\ exchange' = None

(* -------------------------------------------------------- EZSP messages --- *)

EzspHeader(version, cmd, s, type) ==
  Written(HeaderOf(version, cmd = "VERSION"),
          [sequence |-> s, control |-> type + (IF version >= 8 THEN 256 ELSE 0),
           announced |-> 255, extended_control |-> 0, id |-> EEzspCmd[cmd]])
Command == 0
Response == 128
Parameters(s) == Ramp(s, 1 + (s % 3))

(* Until the adapter has told its version it is only asked for it.           *)
Versions == {0, 6, 7, 8}
MaySay(version, cmd) == version = 0 => cmd = "VERSION"

SendsCommand(version, cmd, s) ==
  /\ MaySay(version, cmd)
  /\ Begin("struct", EzspHeader(version, cmd, s, Command) \o Parameters(s),
           EzspMessage(version, s, cmd, Parameters(s)))

HearsCommand(version, cmd, s) ==
  /\ MaySay(version, cmd)
  /\ Begin("struct", [cmd |-> cmd, payload |-> Parameters(s)],
           HandleInputData(version, EzspHeader(version, cmd, s, Response) \o Parameters(s)))

(* Less than a header, or an identifier above those that the library knows.  *)
HearsFragment(version, cmd, s) ==
  LET header == EzspHeader(version, cmd, s, Response)
  IN /\ MaySay(version, cmd)
     /\ \E n \in 0 .. Len(header) - 1 :
          Begin("struct", Dropped, HandleInputData(version, SubSeq(header, 1, n)))

HearsUnknown(cmd, s) ==
  Begin("struct", Dropped,
        HandleInputData(8, [EzspHeader(8, cmd, s, Response) EXCEPT ![5] = 1] \o Parameters(s)))

(* ----------------------------------------- structures the adapter sends --- *)

(* The fields of a structure, those of its parts among them.                 *)
GpdFields(gpd) ==
  [application_id |-> gpd.applicationId, gpdIeeeAddress |-> gpd.gpdIeeeAddress,
   endpoint |-> gpd.endpoint]

HearsNetworkFound(s) ==
  LET said == SomeValues(NetworkFound, s)
  IN Begin("struct", said, CEmberZigbeeNetwork(Written(NetworkFound, said)))

(* The answer is a status, and then the structure.                           *)
HearsChild(s) ==
  LET said == SomeValues(ChildData, s)
  IN Begin("struct", said, CEmberChildDataStruct(From(<<0>> \o Written(ChildData, said), 1)))

HearsKey(s) ==
  LET said == SomeValues(KeyStruct, s)
  IN Begin("struct", said, CEmberKeyStruct(From(<<0>> \o Written(KeyStruct, said), 1)))

(* The answer is a status and a node type, and then the structure.           *)
HearsNetworkParameters(s) ==
  LET said == SomeValues(NetworkParameters, s)
      read == CGetNetworkParametersResponse(<<0, 1>> \o Written(NetworkParameters, said))
  IN Begin("parameters", said, read.parameters)

HearsFrame(s) ==
  LET said == SomeValues(GpFrame, s)
      Read(p) == [f \in DOMAIN p \ {"status", "source_again", "endpoint"} |-> p[f]]
  IN Begin("struct", Read(said), CGpFrame(Written(GpFrame, said)))

(* The lists of sinks are skipped.                                           *)
HearsEntry(said, e) ==
  LET Heard == [f \in (DOMAIN e \cup DOMAIN GpdFields(e.gpd)) \ {"gpd", "sink_list"} |->
                  IF f \in DOMAIN e THEN e[f] ELSE GpdFields(e.gpd)[f]]
  IN Begin("struct", [f \in DOMAIN said \ {"sink_list"} |-> said[f]], Heard)

HearsProxyEntry(s) ==
  LET said == SomeValues(ProxyTableEntry, s)
  IN HearsEntry(said, CEmberGpProxyTableEntryStruct(Written(ProxyTableEntry, said)))

(* The options of a sink entry have ten bits.                                *)
HearsSinkEntry(s) ==
  LET said == [SomeValues(SinkTableEntry, s) EXCEPT !.options = @ % 1024]
      e == CEmberGpSinkTableEntryStruct(Written(SinkTableEntry, said))
  IN HearsEntry(said, [e EXCEPT !.options = CEmberGpSinkTableOption_get(@)])

(* ------------------------------------- structures the library sends --- *)

EMBER_ROUTER == 2
EMBER_USE_MAC_ASSOCIATION == 0

(* CZigbeeNetworking: FORM_NETWORK with the default parameters but these.    *)
FormNetwork(pan_id, channel) ==
  CEmberNetworkParameters_getRaw(
    [extend_pan_id |-> Zeros(8), pan_id |-> pan_id, radio_tx_power |-> 3,
     radio_channel |-> channel, join_method |-> EMBER_USE_MAC_ASSOCIATION,
     nwk_manager_id |-> 0, nwk_update_id |-> 0, channels |-> Zeros(4)])

JoinNetwork(nwkParams) == <<EMBER_ROUTER>> \o CEmberNetworkParameters_getRaw(nwkParams)

gpSend(action, use_cca, addr, command_id, payload, life_time_ms, handle) ==
  <<Flag(action, 0), Flag(use_cca, 0)>> \o CEmberGpAddressStruct_getRaw(addr)
    \o <<command_id, IF Len(payload) > 255 THEN 255 ELSE Len(payload)>> \o payload
    \o <<handle>> \o Raw16(life_time_ms)

SendsJoin(s) ==
  LET said == SomeValues(NetworkParameters, s)
  IN Begin("struct", <<EMBER_ROUTER>> \o Written(NetworkParameters, said), JoinNetwork(said))

SendsForm(s) ==
  LET meant == [f \in DOMAIN SomeValues(NetworkParameters, s) |->
                  CASE f = "extend_pan_id" -> Zeros(8) [] f = "channels" -> Zeros(4)
                    [] f = "radio_tx_power" -> 3 [] f = "pan_id" -> 517 * s
                    [] f = "radio_channel" -> 11 + (s % 16) [] OTHER -> 0]
  IN Begin("struct", Written(NetworkParameters, meant),
           FormNetwork(517 * s, 11 + (s % 16)))

SendsToDevice(s) ==
  LET v == SomeValues(GpSend, s)
      meant == [v EXCEPT !.gpdIeeeAddress = Ramp(s, 4) \o Ramp(s, 4), !.endpoint = 0]
  IN Begin("struct", Written(GpSend, meant),
           gpSend(v.action, v.use_cca, CEmberGpAddressStruct_of(Ramp(s, 4)), v.command_id,
                  v.payload, v.life_time_ms, v.handle))

(* clearAllGpds(): a device found in the proxy table is told off.            *)
RemovesProxied(s) ==
  LET found == SomeValues(ProxyTableEntry, s)
      source == SubSeq(found.gpdIeeeAddress, 1, 4)
      meant == [f \in DOMAIN SomeValues(GpPairing, s) |->
                  CASE f = "options" -> 16
                    [] f = "gpdIeeeAddress" -> source \o source
                    [] f = "sinkIeeeAddress" -> Zeros(8) [] f = "gpdKey" -> Zeros(16)
                    [] f = "gpdSecurityFrameCounter" -> Zeros(4) [] OTHER -> 0]
      entry == CEmberGpProxyTableEntryStruct(From(<<0>> \o Written(ProxyTableEntry, found), 1))
  IN Begin("struct", Written(GpPairing, meant),
           CProcessGpPairingParam_get(CProcessGpPairingParam_of(getSourceId(entry.gpd))))

(* What the adapter makes of stackInit(), and then of formHaNetwork().  It   *)
(* gives all the memory that is left to the packet buffers when it is told   *)
(* 255 of them (ezsp-enum.h:396), so that what is set later has none; and a  *)
(* network with a key needs the security level 5.                            *)
ConfigurationValue == << <<"id", "byte">>, <<"value", "word">> >>
Policy == << <<"id", "byte">>, <<"decision", "byte">> >>

SendsConfiguration ==
  LET Told(commands, cmd, layout) ==
        LET sent == SelectSeq(commands, LAMBDA c : c.cmd = cmd)
        IN [i \in DOMAIN sent |-> Received(layout, sent[i].bytes)]
      settings == Told(ConfigurationCommands, "SET_CONFIGURATION_VALUE", ConfigurationValue)
      decisions == Told(ConfigurationCommands \o PolicyCommands(FormPolicies), "SET_POLICY", Policy)
      Revised(list) == {list[i] : i \in {i \in DOMAIN list :
                                          \E j \in 1 .. i - 1 : /\ list[j].id = list[i].id
                                                                /\ list[j] # list[i]}}
      SetLast(id, value) == Last(settings) = [id |-> id, value |-> value]
  IN Begin("struct",
           [revised |-> {}, buffersLast |-> TRUE, level |-> {5}],
           [revised |-> Revised(settings) \cup Revised(decisions),
            buffersLast |-> SetLast(EzspConfigId.PACKET_BUFFER_COUNT, 255),
            level |-> {x.value : x \in {y \in Range(settings) : y.id = EzspConfigId.SECURITY_LEVEL}}])

GP_ENDPOINT == 242
GP_PROFILE_ID == 41440   \* 0xA1E0
GP_CLUSTER_ID == 33

(* Two endpoints: a gateway of Home Automation, and Green Power, meant to    *)
(* have the profile that the messages of Green Power have.                   *)
SendsEndpoint(i) ==
  LET meant == IF i = 1 THEN [number |-> 1, profile |-> 260, device |-> 7, cluster |-> 0]
               ELSE [number |-> GP_ENDPOINT, profile |-> GP_PROFILE_ID, device |-> 100,
                     cluster |-> GP_CLUSTER_ID]
  IN Begin("endpoint",
           [number |-> meant.number, profile |-> meant.profile, device |-> meant.device,
            flags |-> 0, inputs |-> 1, outputs |-> 1,
            input |-> meant.cluster, output |-> meant.cluster],
           Received(Endpoint, AddEndpointPayload(Endpoints[i])))

(* A network of Home Automation: its key goes to a node that joins encrypted *)
(* under the well-known link key.                                            *)
SendsSecurityState(s) ==
  Begin("struct",
        Written(SecurityState, [bitmask |-> 2820, preconfiguredKey |-> TC_LK,
                                networkKey |-> Ramp(s, 16), sequence |-> 0,
                                trustCenter |-> Zeros(8)]),
        InitialSecurityState(Ramp(s, 16)))

(* Bit n of the mask stands for channel n.                                   *)
SendsScan(s) ==
  LET Asked == IF s % 2 = 0 THEN {} ELSE {11 + (s % 16), 26}
      Scanned == IF Asked = {} THEN 11 .. 26 ELSE Asked
      Mask(S) == [i \in 1 .. 4 |->
                    Packed([b \in 1 .. 8 |-> Bool(8 * (i - 1) + b - 1 \in S)])]
  IN \E type \in {EZSP_ENERGY_SCAN, EZSP_ACTIVE_SCAN} :
       Begin("struct",
             Written(Scan, [type |-> type, channels |-> Mask(Scanned), duration |-> s % 15]),
             StartScan(type, s % 15, Mask(Asked)))

(* ---------------------------------------------------- ZigBee messages --- *)

(* The ZCL header of a message, as ZigBee declares it.                       *)
ZclHeader(type, manufacturer, direction, transaction, cmd) ==
  LET specific == manufacturer # NO_MANUFACTURER
  IN <<Packed(<< <<2, type>>, Bool(specific), <<1, direction>>, Bool(TRUE), <<3, 0>> >>)>>
       \o (IF specific THEN Encoded("word", manufacturer) ELSE <<>>) \o <<transaction, cmd>>

(* retry, route discovery, source EUI64, address discovery                   *)
ApsOptions == 64 + 256 + 1024 + 4096

(* A message to one node, or to all of them, and as a peer that uses the     *)
(* library too reads it.                                                     *)
SendsZcl(type, manufacturer, direction, payload, unicast) ==
  LET m == SetZcl(type, 260, manufacturer, 3, 1280, 17, direction, payload, 42, 769)
      meant == [type |-> 0, destination |-> 4660, profile_id |-> 260, cluster_id |-> 1280,
                src_ep |-> 1, dest_ep |-> 3, option |-> ApsOptions, group_id |-> 769,
                sequence |-> 0, radius |-> 5, tag |-> 0,
                message |-> ZclHeader(type, manufacturer, direction, 42, 17) \o payload]
      heard == Set(Written(ApsFrame, meant), meant.message)
      Manufacturer(h) ==
        IF h.frm_ctrl.manufacturer_code_present THEN h.manufacturer_code ELSE NO_MANUFACTURER
      Heard(x) == <<x.aps, x.zcl_header.frm_ctrl, Manufacturer(x.zcl_header),
                    x.zcl_header.transaction_number, x.zcl_header.cmd_id, x.payload>>
  IN Begin("zigbee",
           <<Written(IF unicast THEN Unicast ELSE Broadcast, meant), Heard(m)>>,
           <<IF unicast THEN SendUnicast(4660, m) ELSE SendBroadcast(4660, 5, m), Heard(heard)>>)

SendsZdo(cmd, payload) ==
  LET meant == [type |-> 0, destination |-> 4660, profile_id |-> 0, cluster_id |-> cmd,
                src_ep |-> 1, dest_ep |-> 0, option |-> ApsOptions, group_id |-> 0,
                sequence |-> 0, tag |-> 0, message |-> <<0>> \o payload]
  IN Begin("zigbee", Written(Unicast, meant), SendUnicast(4660, SetZdo(cmd, payload, 0)))

(* CZigbeeNetworking: nodes may join for some seconds, here and wherever     *)
(* there are routers; 0 closes the network.                                  *)
E_OUT_MSG_BR_DEST_ALL_DEVICES == 65535
openNetwork(timeout) ==
  <<<<timeout>>, SendBroadcast(E_OUT_MSG_BR_DEST_ALL_DEVICES, 0, SetZdo(54, <<timeout, 1>>, 0))>>

OpensNetwork(timeout) ==
  LET meant == [destination |-> 65535, profile_id |-> 0, cluster_id |-> 54, src_ep |-> 1,
                dest_ep |-> 0, option |-> ApsOptions, group_id |-> 0, sequence |-> 0,
                radius |-> 0, tag |-> 0, message |-> <<0, timeout, 1>>]
  IN Begin("zigbee", <<<<timeout>>, Written(Broadcast, meant)>>, openNetwork(timeout))

GP_PROXY_COMMISIONING_MODE_CLIENT_CMD_ID == 2

(* CGpSink: tell the proxy of the adapter to open or to close commissioning. *)
sendLocalGPProxyCommissioningMode(option) ==
  LET m == SetZcl(E_FRM_TYPE_SPECIFIC, GP_PROFILE_ID, NO_MANUFACTURER, GP_ENDPOINT,
                  GP_CLUSTER_ID, GP_PROXY_COMMISIONING_MODE_CLIENT_CMD_ID,
                  E_DIR_SERVER_TO_CLIENT, <<option>>, 0, 0)
  IN SendUnicast(0, [m EXCEPT !.aps.src_ep = GP_ENDPOINT])

SendsCommissioningMode(option) ==
  LET meant == [type |-> 0, destination |-> 0, profile_id |-> 41440, cluster_id |-> 33,
                src_ep |-> 242, dest_ep |-> 242, option |-> ApsOptions, group_id |-> 0,
                sequence |-> 0, tag |-> 0,
                message |-> ZclHeader(1, NO_MANUFACTURER, 1, 0, 2) \o <<option>>]
  IN Begin("zigbee", Written(Unicast, meant), sendLocalGPProxyCommissioningMode(option))

(* ------------------------------------------------------- commissioning --- *)

(* What CGpSink makes of the sink table entry it was given for a device: by  *)
(* the device's commissioning command, or by the user's CGpDevice.           *)
CommissionedEntry(e, srcId, p) ==
  [e EXCEPT !.status = 1, !.options = OptionsOf(0, p), !.gpd = CEmberGpAddressStruct_of(srcId),
            !.device_id = p.device_id, !.assigned_alias = Word16(srcId, 0),
            !.security_options = p.extended_options % 32,
            !.gpdSecurity_frame_counter = p.out_frame_counter, !.gpd_key = p.key]

CGpDeviceOption == 680   \* 0x02A8
CGpDeviceSecurityOption == 18   \* 0x12

RegisteredEntry(e, srcId, key) ==
  [e EXCEPT !.status = 1, !.options = CEmberGpSinkTableOption(CGpDeviceOption),
            !.gpd = CEmberGpAddressStruct_of(srcId), !.assigned_alias = Word16(srcId, 0),
            !.security_options = CGpDeviceSecurityOption,
            !.gpdSecurity_frame_counter = Zeros(4), !.gpd_key = key]

(* The two commands that pair the adapter with the device of an entry.       *)
SetEntry(index, e) == <<index>> \o CEmberGpSinkTableEntryStruct_getRaw(e)
ProcessGpPairing(e) ==
  CProcessGpPairingParam_get(CProcessGpPairingParam(e, TRUE, FALSE, 0, Zeros(8)))

(* What the adapter must be told of a device: all that d says of it.         *)
Pairing(d, was) ==
  <<Written(SetSinkEntry,
      [index |-> 7, status |-> 1, application_id |-> 0, gpdIeeeAddress |-> d.source \o d.source,
       options |-> Packed(<< <<3, 0>>, <<2, 1>>, Bool(d.sequenced), Bool(d.rx_on),
                             Bool(d.fixed), <<1, 0>>, Bool(d.secured) >>),
       endpoint |-> 0, device_id |-> d.device_id, sink_list |-> <<255, 255>>,
       assigned_alias |-> d.source[1] + 256 * d.source[2],
       groupcast_radius |-> was.groupcast_radius,
       security_options |-> Packed(<< <<2, d.level>>, <<3, d.key_type>> >>),
       gpdSecurity_frame_counter |-> d.counter, gpd_key |-> d.key]),
    Written(GpPairing,
      [options |-> Packed(<< <<3, 0>>, Bool(TRUE), Bool(FALSE), <<2, 1>>, Bool(d.fixed),
                             Bool(d.sequenced), <<2, d.level>>, <<3, d.key_type>>, Bool(TRUE),
                             Bool(TRUE), Bool(FALSE), Bool(TRUE) >>),
       application_id |-> 0, gpdIeeeAddress |-> d.source \o d.source, endpoint |-> 0,
       commMode |-> 1, sinkNetworkAddress |-> 0, sinkGroupId |-> d.source[1] + 256 * d.source[2],
       assignedAlias |-> d.source[1] + 256 * d.source[2], sinkIeeeAddress |-> Zeros(8),
       gpdKey |-> d.key, gpdSecurityFrameCounter |-> d.counter,
       forwardingRadius |-> was.groupcast_radius])>>

(* The entry the adapter has found or allocated, as it answers GET_ENTRY.    *)
Found == SomeValues(SinkTableEntry, 5)
FoundEntry == CEmberGpSinkTableEntryStruct(From(<<0>> \o Written(SinkTableEntry, Found), 1))


(* A device writes the fields that its option bits announce, one after the   *)
(* other, its key encrypted under the well-known one if it says so.          *)
Optional(present, bytes) == IF present THEN bytes ELSE <<>>

Commissioning(options, ext, app, key, source, ksch) ==
  LET e == IF Bit(options, 7) THEN ext ELSE 0
      a == IF Bit(options, 2) THEN app ELSE 0
      stream == encrypt(ksch, <<1>> \o source \o source \o source \o <<5, 0, 1>>)
      encrypted == Bit(e, 5) /\ Bit(e, 6)
  IN <<2, options>> \o Optional(Bit(options, 7), <<ext>>)
       \o Optional(Bit(e, 5), IF encrypted THEN XorAll(stream, key) ELSE key)
       \o Optional(encrypted, <<9, 8, 7, 6>>) \o Optional(Bit(e, 7), Ramp(3, 4))
       \o Optional(Bit(options, 2), <<app>>) \o Optional(Bit(a, 0), <<33, 16>>) \o Optional(Bit(a, 1), <<1, 2>>)
       \o Optional(Bit(a, 2), <<2, 32, 33>>) \o Optional(Bit(a, 3), <<17, 6, 0, 8, 0>>)

Says(options, ext, app, key, source) ==
  LET e == IF Bit(options, 7) THEN ext ELSE 0
      a == IF Bit(options, 2) THEN app ELSE 0
  IN [source |-> source, device_id |-> 2, sequenced |-> Bit(options, 0),
      rx_on |-> Bit(options, 1), fixed |-> Bit(options, 6), secured |-> Bit(options, 7),
      level |-> e % 4, key_type |-> (e \div 4) % 8,
      key |-> IF Bit(e, 5) THEN key ELSE Zeros(16),
      counter |-> IF Bit(e, 7) THEN Ramp(3, 4) ELSE Zeros(4),
      application |-> <<IF Bit(a, 0) THEN 16 * 256 + 33 ELSE 0, IF Bit(a, 1) THEN 513 ELSE 0,
                        Optional(Bit(a, 2), <<32, 33>>), Optional(Bit(a, 3), <<17, 6, 0, 8, 0>>)>>]

PairsDevice(options, ext, app) ==
  \E ksch \in {set_key(TC_LK)} :
    \E raw \in {Commissioning(options, ext, app, GenuineKey, Ramp(11, 4), ksch)} :
      \E p \in {CGpdCommissioningPayload(raw, Ramp(11, 4), ksch)} :
        LET d == Says(options, ext, app, GenuineKey, Ramp(11, 4))
            e == CommissionedEntry(FoundEntry, Ramp(11, 4), p)
        IN Begin("pairing", <<Pairing(d, Found), d.application>>,
                 << <<SetEntry(7, e), ProcessGpPairing(e)>>,
                    <<p.manufacturer_id, p.model_id, p.gpd_command_list, p.gpd_cluster_list>> >>)

(* A device that the user registers: its key, replay counters that start     *)
(* anew, and what the options of a CGpDevice stand for.                      *)
PairsRegistered(s) ==
  LET d == [source |-> Ramp(s, 4), device_id |-> Found.device_id, sequenced |-> TRUE,
            rx_on |-> FALSE, fixed |-> TRUE, secured |-> TRUE, level |-> 2, key_type |-> 4,
            key |-> Ramp(s, 16), counter |-> Zeros(4)]
      e == RegisteredEntry(FoundEntry, Ramp(s, 4), Ramp(s, 16))
  IN Begin("pairing", Pairing(d, Found), <<SetEntry(7, e), ProcessGpPairing(e)>>)

(* ----------------------------------------------------- secured frames --- *)

(* A frame on its way from a device, one of its fields altered or not.       *)
Alterations ==
  LET Numbers == {"status", "link_value", "sequence_number", "application_id", "endpoint",
                  "security", "key_type", "command_id", "proxy_table_entry"}
      Tuples == {"source_id", "source_again", "security_frame_counter", "mic", "payload"}
  IN {Genuine} \cup {[Genuine EXCEPT ![f] = @ ^^ mask] : f \in Numbers, mask \in Masks}
       \cup {[Genuine EXCEPT ![f] = ~@] : f \in {"auto_commissioning", "rx_after_tx"}}
       \cup UNION {{[Genuine EXCEPT ![f][i] = @ ^^ mask] : i \in DOMAIN Genuine[f], mask \in Masks} :
                     f \in Tuples}
       \cup {[Genuine EXCEPT !.payload = @ \o <<0>>], [Genuine EXCEPT !.payload = Tail(@)]}

(* What its device has authenticated of a frame.                             *)
Protected(f) ==
  <<f.application_id, f.source_id, f.security, f.key_type = 0, f.auto_commissioning,
    f.rx_after_tx, f.security_frame_counter, f.command_id, f.mic, f.payload>>

ChecksFrame(f, key) ==
  \E ksch \in {set_key(key)} : \E frame \in {CGpFrame(Written(GpFrame, f))} :
    Begin("frame", <<f, key, Protected(f) = Protected(Genuine) /\ key = GenuineKey>>,
          <<f, key, validateMIC(frame, ksch)>>)

(* ------------------------------------------------------------ versions --- *)

(* What the answers of an adapter tell.  It is asked for VERSION once or     *)
(* twice, and some cut an answer to its last two bytes: if they cut the      *)
(* first, protocol and stack type are not known.                             *)
Learned(a) ==
  LET whole == <<a.protocol, a.stackType>> \o Encoded("word", a.stack)
      cut == Encoded("word", a.stack)
      answers == CASE a.answers = "whole" -> <<whole>> [] a.answers = "cut" -> <<cut>>
                   [] a.answers = "whole, cut" -> <<whole, cut>>
  IN HandleXncpInfo(FoldLeft(HandleVersion, Unknown, answers),
                    <<0>> \o Encoded("word", a.manufacturer) \o Encoded("word", a.version))

(* Newer: by protocol and stack type, where both adapters have told theirs,  *)
(* and then the firmware of Legrand's adapters, or else the version of the   *)
(* stack.                                                                    *)
Order(a, b) ==
  LET Firmware(v) == v.version % 4096
      Told == a.answers # "cut" /\ b.answers # "cut"
      Legrand == a.manufacturer = LEGRAND /\ b.manufacturer = LEGRAND
      Rank(v) == (IF Told THEN 1000000 * v.protocol + 100000 * v.stackType ELSE 0)
                   + (IF Legrand THEN Firmware(v) ELSE v.stack)
  IN IF Rank(a) > Rank(b) THEN 1 ELSE IF Rank(a) < Rank(b) THEN -1 ELSE 0

Compares(a, b) ==
  Begin("input", <<a, b, Order(a, b)>>, <<a, b, cmp(Learned(a), Learned(b))>>)

(* -------------------------------------------------------- measurements --- *)

(* A device reports what it measured, and the end of it may be missing.      *)
Value(kind, v) ==
  CASE kind = "temperature" ->
         Encoded("word", (100 * v[1] + (IF v[1] < 0 THEN -v[2] ELSE v[2])) % 65536)
    [] kind = "humidity" -> Encoded("word", 100 * v[1] + v[2])
    [] kind = "battery" -> <<10 * v[1] + v[2]>>
    [] kind = "door" -> Encoded("bool", v = "closed")
    [] kind = "firmware" -> Encoded("counted", v)
    [] OTHER -> v

Unheard == <<1030, 0, 24>>   \* occupancy, that the example does not know

Report(m) ==
  LET id == IF m[1] = "occupancy" THEN Unheard ELSE Attributes[m[1]]
  IN Encoded("word", id[1]) \o Encoded("word", id[2]) \o <<id[3]>> \o Value(m[1], m[2])

Reports(list) == FlattenSeq([i \in DOMAIN list |-> Report(list[i])])

HearsMeasurements(command_id, list, cut) ==
  LET payload == SubSeq(Reports(list), 1, Len(Reports(list)) - cut)
      Whole(i) == /\ \A j \in 1 .. i : list[j][1] # "occupancy"
                  /\ Len(Reports(SubSeq(list, 1, i))) <= Len(payload)
      whole == CHOOSE i \in 0 .. Len(list) : Whole(i) /\ (i = Len(list) \/ ~Whole(i + 1))
      heard == IF command_id = ATTRIBUTE_REPORTING /\ whole > 1 THEN 1 ELSE whole
      frame == CGpFrame(Written(GpFrame, [Genuine EXCEPT !.command_id = command_id,
                                                         !.payload = payload]))
  IN /\ list # <<>> /\ cut < Len(Reports(list)) /\ Len(payload) < 256
     /\ Begin("reports",
              [readings |-> SubSeq(list, 1, heard),
               decoded |-> IF command_id = ATTRIBUTE_REPORTING THEN heard = 1
                           ELSE Len(Reports(SubSeq(list, 1, whole))) = Len(payload)],
              onReceivedGPFrame(frame.command_id, frame.payload))

(* ---------------------------------------------- images and command lines --- *)

(* The version of the first application in an image.                         *)
Section(section) == section.id \o Raw32(Len(section.payload)) \o section.payload
Image(sections) == FlattenSeq([i \in DOMAIN sections |-> Section(sections[i])])

ApplicationId == <<244, 10, 10, 244>>

ReadsImage(sections, cut) ==
  LET image == SubSeq(Image(sections), 1, Len(Image(sections)) - cut)
      Applications == {i \in DOMAIN sections :
                         /\ sections[i].id = ApplicationId
                         /\ \A j \in 1 .. i - 1 : sections[j].id # ApplicationId
                         /\ Len(Image(SubSeq(sections, 1, i))) <= Len(image)
                         /\ Len(sections[i].payload) \in 28 .. 64}
  IN Begin("input",
           IF Applications = {} THEN Failure
           ELSE LET application == sections[CHOOSE i \in Applications : TRUE].payload
                IN [i \in 1 .. 4 |-> application[9 - i]],
           Version(image))

(* A digit of an identifier, or of a key, is typed in either case.           *)
Typed(digit, upper) == IF digit < 10 THEN 48 + digit ELSE (IF upper THEN 55 ELSE 87) + digit
TypedBytes(bytes, upper) ==
  FlattenSeq([i \in DOMAIN bytes |-> <<Typed(bytes[i] \div 16, upper), Typed(bytes[i] % 16, ~upper)>>])
TypedId(id) == TypedBytes(Reverse(id), TRUE)

TypedDevice(a) ==
  CASE a.fault = "none" -> TypedId(a.id) \o <<Slash>> \o TypedBytes(a.key, FALSE)
    [] a.fault = "noSlash" -> TypedId(a.id) \o TypedBytes(a.key, FALSE)
    [] a.fault = "short" -> TypedId(a.id) \o <<Slash>> \o Tail(TypedBytes(a.key, FALSE))
    [] a.fault = "letter" -> TypedId(a.id) \o <<Slash, 103>> \o Tail(TypedBytes(a.key, FALSE))
    [] a.fault = "long" -> <<49>> \o TypedId(a.id) \o <<Slash>> \o TypedBytes(a.key, FALSE)

TypedOption(a) ==
  [opt |-> IF a.opt = "*" THEN "r" ELSE a.opt,
   arg |-> CASE a.opt = "s" -> TypedDevice(a) [] a.opt = "r" -> TypedId(a.id)
             [] a.opt = "*" -> Star [] OTHER -> a.number]

(* What the usage text says a command line asks for, in whichever order.     *)
Asked(line) ==
  LET Has(o) == \E i \in DOMAIN line : line[i].opt = o
      Of(o) == SelectSeq(line, LAMBDA a : a.opt = o)
      Wrong(a) == a.opt = "s" /\ a.fault # "none"
  IN IF (Has("*") /\ Has("r")) \/ \E i \in DOMAIN line : Wrong(line[i])
     THEN Refused
     ELSE [added |-> [i \in DOMAIN Of("s") |-> [id |-> Of("s")[i].id, key |-> Of("s")[i].key]],
           removed |-> [i \in DOMAIN Of("r") |-> Of("r")[i].id],
           removeAll |-> Has("*"),
           reset |-> IF Has("c") THEN Last(Of("c")).number ELSE IF Has("l") THEN LeaveOnly ELSE 0,
           commission |-> Has("G"), answer |-> IF Has("C") THEN Last(Of("C")).number ELSE 0,
           key |-> Has("k"), upgrade |-> Has("w"), refused |-> FALSE]

ReadsCommandLine(line) ==
  Begin("input", Asked(line), ParsedOptions([i \in DOMAIN line |-> TypedOption(line[i])]))

(* ------------------------------------------------------------------------- *)

Exchange ==
  \/ \E s \in Seeds :
       \/ HearsNetworkFound(s)
       \/ HearsChild(s)
       \/ HearsKey(s)
       \/ HearsNetworkParameters(s)
       \/ HearsFrame(s)
       \/ HearsProxyEntry(s)
       \/ HearsSinkEntry(s)
       \/ SendsJoin(s)
       \/ SendsForm(s)
       \/ SendsSecurityState(s)
       \/ SendsScan(s)
       \/ SendsToDevice(s)
       \/ RemovesProxied(s)
       \/ PairsRegistered(s)
  \/ \E payload \in Payloads :
       \/ \E type \in {E_FRM_TYPE_GENERAL, E_FRM_TYPE_SPECIFIC}, manufacturer \in Manufacturers,
             direction \in {E_DIR_CLIENT_TO_SERVER, E_DIR_SERVER_TO_CLIENT}, unicast \in BOOLEAN :
            SendsZcl(type, manufacturer, direction, payload, unicast)
       \/ \E cmd \in {5, 54} : SendsZdo(cmd, payload)
  \/ \E option \in {0, 5} : SendsCommissioningMode(option)
  \/ \E timeout \in {0, 60} : OpensNetwork(timeout)
  \/ \E options \in Options, ext \in ExtendedOptions, app \in AppInformations :
       PairsDevice(options, ext, app)
  \/ \E f \in Alterations : ChecksFrame(f, GenuineKey)
  \/ ChecksFrame(Genuine, WrongKey)
  \/ \E a, b \in Adapters : Compares(a, b)
  \/ SendsConfiguration
  \/ \E i \in DOMAIN Endpoints : SendsEndpoint(i)
  \/ \E version \in Versions, cmd \in DOMAIN EEzspCmd, s \in Seeds :
       \/ SendsCommand(version, cmd, s)
       \/ HearsCommand(version, cmd, s)
       \/ HearsFragment(version, cmd, s)
       \/ HearsUnknown(cmd, s)
  \/ \E command_id \in {ATTRIBUTE_REPORTING, MULTI_CLUSTER_REPORTING},
        list \in Measurements, cut \in Cuts : HearsMeasurements(command_id, list, cut)
  \/ \E sections \in Images, cut \in Cuts : ReadsImage(sections, cut)
  \/ \E line \in CommandLines : ReadsCommandLine(line)

Next == (exchange = None /\ Exchange) \/ Done

Spec == Init /\ [][Next]_exchange

(* ------------------------------------------------------------ properties --- *)

Understood(kind) == exchange.kind = kind => exchange.read = exchange.said

(* A structure the adapter sends is read field by field as it was meant, and *)
(* a command that carries one reaches the adapter as it was meant; and so do *)
(* commands and responses, in the header of every version of the protocol.   *)
(* The configuration leaves no value or policy revised by a later command.   *)
(* Two fields are excepted, of which the next two properties speak: the      *)
(* channels of network parameters, and the profile of endpoint 242.          *)
Without(struct, fields) == [f \in DOMAIN struct \ fields |-> struct[f]]

UnderstoodWithout(kind, fields) ==
  exchange.kind = kind => Without(exchange.read, fields) = Without(exchange.said, fields)

StructsArriveIntact ==
  /\ Understood("struct")
  /\ UnderstoodWithout("parameters", {"channels"})
  /\ UnderstoodWithout("endpoint", IF exchange.said.number = GP_ENDPOINT THEN {"profile"} ELSE {})

(* Not so: `channels` is read at the offset it has in the structure, but in  *)
(* the answer the structure begins two bytes later, for which the            *)
(* constructor takes `skip` and uses it for every other field                *)
(* (ember-network-parameters.cpp:42).                                        *)
ChannelsArrive == Understood("parameters")

(* Not so: what is said to be "endpoint 242 : green power" is added with the *)
(* bytes 0x0E, 0xA1 (zigbee-networking.cpp:151), that is with profile        *)
(* 0xA10E; GP_PROFILE_ID is 0xA1E0 (zclheader.h:19).                         *)
EndpointsAsMeant == Understood("endpoint")

(* A ZigBee message goes to the node, cluster and endpoint it is meant for,  *)
(* and a peer reads the command and the payload that were written.           *)
ZigbeeMessageArrives == Understood("zigbee")

(* Whatever fields a device's commissioning command holds, the adapter is    *)
(* told the device's own key, counter, address, level and options; and so    *)
(* for a device that is registered offline.                                  *)
DeviceIsPairedAsItSaid == Understood("pairing")

(* The host accepts a secured frame exactly if all that the device has       *)
(* authenticated of it is what the device has sent, under the device's key.  *)
OnlyGenuineAccepted == Understood("frame")

(* Of what a device reports, however many attributes are in a frame and      *)
(* wherever it ends, the user is shown the readings that are whole, up to    *)
(* the first that is not known, and told if something was left.              *)
ReportsUnderstood == Understood("reports")

(* A command line is taken for what its usage text says, in whichever order  *)
(* its options come, and a firmware image for the version that it holds, or  *)
(* for none if it is cut or has none; and the versions of adapters compare   *)
(* as the numbers that they gave, whichever parts of them were answered.     *)
InputUnderstood == Understood("input")

=============================================================================
