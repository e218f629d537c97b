---------------------------- MODULE StackConfig ----------------------------
(***************************************************************************)
(* How CLibEzspMain configures the stack of the adapter, adds its          *)
(* endpoints, forms a network and scans: the identifiers of ezsp-enum.h    *)
(* and, in the order in which they are set, the values of stackInit() and  *)
(* the policies of stackInit() and formHaNetwork().                        *)
(***************************************************************************)
EXTENDS Integers, Sequences

LOCAL INSTANCE ByteManip

EzspConfigId == [
  PACKET_BUFFER_COUNT |-> 1, NEIGHBOR_TABLE_SIZE |-> 2,
  APS_UNICAST_MESSAGE_COUNT |-> 3, BINDING_TABLE_SIZE |-> 4, ADDRESS_TABLE_SIZE |-> 5,
  MULTICAST_TABLE_SIZE |-> 6, ROUTE_TABLE_SIZE |-> 7, DISCOVERY_TABLE_SIZE |-> 8,
  STACK_PROFILE |-> 12, SECURITY_LEVEL |-> 13, MAX_HOPS |-> 16,
  MAX_END_DEVICE_CHILDREN |-> 17, INDIRECT_TRANSMISSION_TIMEOUT |-> 18,
  END_DEVICE_POLL_TIMEOUT |-> 19, MOBILE_NODE_POLL_TIMEOUT |-> 20,
  RESERVED_MOBILE_CHILD_ENTRIES |-> 21, TX_POWER_MODE |-> 23, DISABLE_RELAY |-> 24,
  TRUST_CENTER_ADDRESS_CACHE_SIZE |-> 25, SOURCE_ROUTE_TABLE_SIZE |-> 26,
  END_DEVICE_POLL_TIMEOUT_SHIFT |-> 27, FRAGMENT_WINDOW_SIZE |-> 28,
  FRAGMENT_DELAY_MS |-> 29, KEY_TABLE_SIZE |-> 30, APS_ACK_TIMEOUT |-> 31,
  BEACON_JITTER_DURATION |-> 32, END_DEVICE_BIND_TIMEOUT |-> 33,
  PAN_ID_CONFLICT_REPORT_THRESHOLD |-> 34, REQUEST_KEY_TIMEOUT |-> 36,
  CERTIFICATE_TABLE_SIZE |-> 41, APPLICATION_ZDO_FLAGS |-> 42,
  BROADCAST_TABLE_SIZE |-> 43, MAC_FILTER_TABLE_SIZE |-> 44,
  SUPPORTED_NETWORKS |-> 45, SEND_MULTICASTS_TO_SLEEPY_ADDRESS |-> 46,
  ZLL_GROUP_ADDRESSES |-> 47, ZLL_RSSI_THRESHOLD |-> 48, MTORR_FLOW_CONTROL |-> 51,
  RETRY_QUEUE_SIZE |-> 52, NEW_BROADCAST_ENTRY_THRESHOLD |-> 53,
  TRANSIENT_KEY_TIMEOUT_S |-> 54, BROADCAST_MIN_ACKS_NEEDED |-> 55,
  TC_REJOINS_USING_WELL_KNOWN_KEY_TIMEOUT_S |-> 56]

EzspPolicyId == [
  TRUST_CENTER |-> 0, BINDING_MODIFICATION |-> 1, UNICAST_REPLIES |-> 2, POLL_HANDLER |-> 3,
  MESSAGE_CONTENTS_IN_CALLBACK |-> 4, TC_KEY_REQUEST |-> 5, APP_KEY_REQUEST |-> 6,
  PACKET_VALIDATE_LIBRARY |-> 7, ZLL |-> 8, TC_REJOINS_USING_WELL_KNOWN_KEY |-> 9]

(* Those of EEzspDecisionId that are used.                                   *)
EzspDecisionId == [
  ALLOW_PRECONFIGURED_KEY_JOINS |-> 1,
  CHECK_BINDING_MODIFICATIONS_ARE_VALID_ENDPOINT_CLUSTERS |-> 18,
  POLL_HANDLER_IGNORE |-> 48, MESSAGE_TAG_ONLY_IN_CALLBACK |-> 64, DENY_TC_KEY_REQUESTS |-> 80]

StackConfig == <<
  <<"NEIGHBOR_TABLE_SIZE", 32>>, <<"APS_UNICAST_MESSAGE_COUNT", 10>>,
  <<"BINDING_TABLE_SIZE", 0>>, <<"ADDRESS_TABLE_SIZE", 64>>,
  <<"MULTICAST_TABLE_SIZE", 8>>, <<"ROUTE_TABLE_SIZE", 32>>,
  <<"DISCOVERY_TABLE_SIZE", 16>>, <<"STACK_PROFILE", 2>>, <<"SECURITY_LEVEL", 5>>,
  <<"MAX_HOPS", 15>>, <<"MAX_END_DEVICE_CHILDREN", 32>>,
  <<"INDIRECT_TRANSMISSION_TIMEOUT", 3000>>, <<"END_DEVICE_POLL_TIMEOUT", 5>>,
  <<"MOBILE_NODE_POLL_TIMEOUT", 20>>, <<"RESERVED_MOBILE_CHILD_ENTRIES", 0>>,
  <<"TX_POWER_MODE", 0>>, <<"DISABLE_RELAY", 0>>,
  <<"TRUST_CENTER_ADDRESS_CACHE_SIZE", 0>>, <<"SOURCE_ROUTE_TABLE_SIZE", 0>>,
  <<"END_DEVICE_POLL_TIMEOUT_SHIFT", 6>>, <<"FRAGMENT_WINDOW_SIZE", 0>>,
  <<"FRAGMENT_DELAY_MS", 0>>, <<"KEY_TABLE_SIZE", 12>>,
  <<"APS_ACK_TIMEOUT", 50 * 30 + 100>>, <<"BEACON_JITTER_DURATION", 3>>,
  <<"END_DEVICE_BIND_TIMEOUT", 60>>, <<"PAN_ID_CONFLICT_REPORT_THRESHOLD", 1>>,
  <<"REQUEST_KEY_TIMEOUT", 0>>, <<"APPLICATION_ZDO_FLAGS", 0>>,
  <<"BROADCAST_TABLE_SIZE", 15>>, <<"MAC_FILTER_TABLE_SIZE", 0>>,
  <<"SUPPORTED_NETWORKS", 1>>, <<"SEND_MULTICASTS_TO_SLEEPY_ADDRESS", 0>>,
  <<"ZLL_GROUP_ADDRESSES", 0>>, <<"MTORR_FLOW_CONTROL", 1>>,
  <<"RETRY_QUEUE_SIZE", 8>>, <<"NEW_BROADCAST_ENTRY_THRESHOLD", 10>>,
  <<"TRANSIENT_KEY_TIMEOUT_S", 300>>, <<"BROADCAST_MIN_ACKS_NEEDED", 1>>,
  <<"TC_REJOINS_USING_WELL_KNOWN_KEY_TIMEOUT_S", 600>>, <<"PACKET_BUFFER_COUNT", 255>>>>

StackPolicies == <<
  <<"TRUST_CENTER", "ALLOW_PRECONFIGURED_KEY_JOINS">>,
  <<"MESSAGE_CONTENTS_IN_CALLBACK", "MESSAGE_TAG_ONLY_IN_CALLBACK">>,
  <<"BINDING_MODIFICATION", "CHECK_BINDING_MODIFICATIONS_ARE_VALID_ENDPOINT_CLUSTERS">>,
  <<"POLL_HANDLER", "POLL_HANDLER_IGNORE">>>>

(* The trust center policy is given as a number, which is the same.          *)
FormPolicies == <<
  <<"TRUST_CENTER", "ALLOW_PRECONFIGURED_KEY_JOINS">>,
  <<"TC_KEY_REQUEST", "DENY_TC_KEY_REQUESTS">>>>

(* The commands, one after the other.  u16_get_lo_u8() and u16_get_hi_u8()   *)
(* split the value into the bytes that are sent.                             *)
SetConfigurationValue(id, value) ==
  [cmd |-> "SET_CONFIGURATION_VALUE", bytes |-> <<id, value % 256, value \div 256>>]

SetPolicy(id, decision) == [cmd |-> "SET_POLICY", bytes |-> <<id, decision>>]

PolicyCommands(policies) ==
  [i \in 1 .. Len(policies) |-> SetPolicy(EzspPolicyId[policies[i][1]],
                                          EzspDecisionId[policies[i][2]])]

ConfigurationCommands ==
  [i \in 1 .. Len(StackConfig) |-> SetConfigurationValue(EzspConfigId[StackConfig[i][1]],
                                                         StackConfig[i][2])]
  \o PolicyCommands(StackPolicies)

(* Of stackInit(): each endpoint with one cluster in and out.                *)
Endpoints == <<
  [number |-> 1, profile |-> <<4, 1>>, device |-> <<7, 0>>, cluster |-> <<0, 0>>],
  [number |-> 242, profile |-> <<14, 161>>, device |-> <<100, 0>>, cluster |-> <<33, 0>>]>>

AddEndpointPayload(e) ==
  <<e.number>> \o e.profile \o e.device \o <<0, 1, 1>> \o e.cluster \o e.cluster

(* Of formHaNetwork(): the network key is drawn at random.                   *)
EMBER_TRUST_CENTER_GLOBAL_LINK_KEY == 4
EMBER_HAVE_PRECONFIGURED_KEY == 256
EMBER_HAVE_NETWORK_KEY == 512
EMBER_REQUIRE_ENCRYPTED_KEY == 2048
HaKey == <<90, 105, 103, 66, 101, 101, 65, 108, 108, 105, 97, 110, 99, 101, 48, 57>>

InitialSecurityState(networkKey) ==
  Raw16(EMBER_HAVE_PRECONFIGURED_KEY + EMBER_HAVE_NETWORK_KEY + EMBER_REQUIRE_ENCRYPTED_KEY
          + EMBER_TRUST_CENTER_GLOBAL_LINK_KEY)
    \o HaKey \o networkKey \o <<0>> \o [i \in 1 .. 8 |-> 0]

(* startEnergyScan() and startActiveScan(): channels 11 to 26, if none are   *)
(* asked for.                                                                *)
EZSP_ENERGY_SCAN == 0
EZSP_ACTIVE_SCAN == 1
DefaultChannels == <<0, 248, 255, 7>>

StartScan(type, duration, requestedChannelMask) ==
  <<type>> \o (IF requestedChannelMask = <<0, 0, 0, 0>> THEN DefaultChannels
               ELSE requestedChannelMask) \o <<duration>>
=============================================================================
