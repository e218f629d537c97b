------------------------------ MODULE EzspCmds ------------------------------
(***************************************************************************)
(* The identifiers of the EZSP commands and callbacks, by chapter of       *)
(* ezsp-enum.h.  No two are the same, and none is 0xff, which in a header  *)
(* announces an extended one (EzspFrames).                                 *)
(***************************************************************************)
EXTENDS Naturals, TLC

ConfigurationFrames == [
  VERSION |-> 0, GET_CONFIGURATION_VALUE |-> 82, SET_CONFIGURATION_VALUE |-> 83,
  ADD_ENDPOINT |-> 2, SET_POLICY |-> 85, GET_POLICY |-> 86, SEND_PAN_ID_UPDATE |-> 87,
  GET_VALUE |-> 170, GET_EXTENDED_VALUE |-> 3, SET_VALUE |-> 171,
  SET_GPIO_CURRENT_CONFIGURATION |-> 172, SET_GPIO_POWER_UP_DOWN_CONFIGURATION |-> 173,
  SET_GPIO_RADIO_POWER_MASK |-> 174, SET_CTUNE |-> 245, GET_CTUNE |-> 246]

UtilitiesFrames == [
  NOP |-> 5, ECHO |-> 129, INVALID_COMMAND |-> 88, CALLBACK |-> 6, NO_CALLBACKS |-> 7,
  SET_TOKEN |-> 9, GET_TOKEN |-> 10, GET_MFG_TOKEN |-> 11, SET_MFG_TOKEN |-> 12,
  STACK_TOKEN_CHANGED_HANDLER |-> 13, GET_RANDOM_NUMBER |-> 73, SET_TIMER |-> 14,
  GET_TIMER |-> 78, TIMER_HANDLER |-> 15, DEBUG_WRITE |-> 18, READ_AND_CLEAR_COUNTERS |-> 101,
  READ_COUNTERS |-> 241, COUNTER_ROLLOVER_HANDLER |-> 242, DELAY_TEST |-> 157,
  GET_LIBRARY_STATUS |-> 1, GET_XNCP_INFO |-> 19, CUSTOM_FRAME |-> 71,
  CUSTOM_FRAME_HANDLER |-> 84, GET_EUI64 |-> 38, GET_NODE_ID |-> 39,
  GET_PHY_INTERFACE_COUNT |-> 252, GET_TRUE_RANDOM_ENTROPY_SOURCE |-> 79]

NetworkingFrames == [
  SET_MANUFACTURER_CODE |-> 21, SET_POWER_DESCRIPTOR |-> 22, NETWORK_INIT |-> 23,
  NETWORK_STATE |-> 24, STACK_STATUS_HANDLER |-> 25, START_SCAN |-> 26,
  ENERGY_SCAN_RESULT_HANDLER |-> 72, NETWORK_FOUND_HANDLER |-> 27,
  SCAN_COMPLETE_HANDLER |-> 28, UNUSED_PAN_ID_FOUND_HANDLER |-> 210,
  FIND_UNUSED_PAN_ID |-> 211, STOP_SCAN |-> 29, FORM_NETWORK |-> 30, JOIN_NETWORK |-> 31,
  LEAVE_NETWORK |-> 32, FIND_AND_REJOIN_NETWORK |-> 33, PERMIT_JOINING |-> 34,
  CHILD_JOIN_HANDLER |-> 35, ENERGY_SCAN_REQUEST |-> 156, GET_NETWORK_PARAMETERS |-> 40,
  GET_RADIO_PARAMETERS |-> 253, GET_PARENT_CHILD_PARAMETERS |-> 41, GET_CHILD_DATA |-> 74,
  GET_SOURCE_ROUTE_TABLE_TOTAL_SIZE |-> 195, GET_SOURCE_ROUTE_TABLE_FILLED_SIZE |-> 194,
  GET_SOURCE_ROUTE_TABLE_ENTRY |-> 193, GET_NEIGHBOR |-> 121,
  SET_ROUTING_SHORTCUT_THRESHOLD |-> 208, GET_ROUTING_SHORTCUT_THRESHOLD |-> 209,
  NEIGHBOR_COUNT |-> 122, GET_ROUTE_TABLE_ENTRY |-> 123, SET_RADIO_POWER |-> 153,
  SET_RADIO_CHANNEL |-> 154, SET_CONCENTRATOR |-> 16, SET_BROKEN_ROUTE_ERROR_CODE |-> 17,
  MULTI_PHY_START |-> 248, MULTI_PHY_STOP |-> 249, MULTI_PHY_SET_RADIO_POWER |-> 250,
  SEND_LINK_POWER_DELTA_REQUEST |-> 247, MULTI_PHY_SET_RADIO_CHANNEL |-> 251,
  GET_DUTY_CYCLE_STATE |-> 53, SET_DUTY_CYCLE_LIMITS_IN_STACK |-> 64,
  GET_DUTY_CYCLE_LIMITS |-> 75, GET_CURRENT_DUTY_CYCLE |-> 76, DUTY_CYCLE_HANDLER |-> 77]

BindingFrames == [
  CLEAR_BINDING_TABLE |-> 42, SET_BINDING |-> 43, GET_BINDING |-> 44, DELETE_BINDING |-> 45,
  BINDING_IS_ACTIVE |-> 46, GET_BINDING_REMOTE_NODE_ID |-> 47,
  SET_BINDING_REMOTE_NODE_ID |-> 48, REMOTE_SET_BINDING_HANDLER |-> 49,
  REMOTE_DELETE_BINDING_HANDLER |-> 50]

MessagingFrames == [
  MAXIMUM_PAYLOAD_LENGTH |-> 51, SEND_UNICAST |-> 52, SEND_BROADCAST |-> 54,
  PROXY_BROADCAST |-> 55, SEND_MULTICAST |-> 56, SEND_MULTICAST_WITH_ALIAS |-> 58,
  SEND_REPLY |-> 57, MESSAGE_SENT_HANDLER |-> 63, SEND_MANY_TO_ONE_ROUTE_REQUEST |-> 65,
  POLL_FOR_DATA |-> 66, POLL_COMPLETE_HANDLER |-> 67, POLL_HANDLER |-> 68,
  INCOMING_SENDER_EUI64_HANDLER |-> 98, INCOMING_MESSAGE_HANDLER |-> 69,
  INCOMING_ROUTE_RECORD_HANDLER |-> 89, CHANGE_SOURCE_ROUTE_HANDLER |-> 196,
  SET_SOURCE_ROUTE |-> 90, INCOMING_MANY_TO_ONE_ROUTE_REQUEST_HANDLER |-> 125,
  INCOMING_ROUTE_ERROR_HANDLER |-> 128, ADDRESS_TABLE_ENTRY_IS_ACTIVE |-> 91,
  SET_ADDRESS_TABLE_REMOTE_EUI64 |-> 92, SET_ADDRESS_TABLE_REMOTE_NODE_ID |-> 93,
  GET_ADDRESS_TABLE_REMOTE_EUI64 |-> 94, GET_ADDRESS_TABLE_REMOTE_NODE_ID |-> 95,
  SET_EXTENDED_TIMEOUT |-> 126, GET_EXTENDED_TIMEOUT |-> 127,
  REPLACE_ADDRESS_TABLE_ENTRY |-> 130, LOOKUP_NODE_ID_BY_EUI64 |-> 96,
  LOOKUP_EUI64_BY_NODE_ID |-> 97, GET_MULTICAST_TABLE_ENTRY |-> 99,
  SET_MULTICAST_TABLE_ENTRY |-> 100, ID_CONFLICT_HANDLER |-> 124, WRITE_NODE_DATA |-> 254,
  SEND_RAW_MESSAGE |-> 150, MAC_PASSTHROUGH_MESSAGE_HANDLER |-> 151,
  MAC_FILTER_MATCH_MESSAGE_HANDLER |-> 70, RAW_TRANSMIT_COMPLETE_HANDLER |-> 152,
  SET_MAC_POLL_CCA_WAIT_TIME |-> 244, SET_BEACON_CLASSIFICATION_PARAMS |-> 239,
  GET_BEACON_CLASSIFICATION_PARAMS |-> 243]

SecurityFrames == [
  SET_INITIAL_SECURITY_STATE |-> 104, GET_CURRENT_SECURITY_STATE |-> 105, GET_KEY |-> 106,
  SWITCH_NETWORK_KEY_HANDLER |-> 110, GET_KEY_TABLE_ENTRY |-> 113, SET_KEY_TABLE_ENTRY |-> 114,
  FIND_KEY_TABLE_ENTRY |-> 117, ADD_OR_UPDATE_KEY_TABLE_ENTRY |-> 102,
  SEND_TRUST_CENTER_LINK_KEY |-> 103, ERASE_KEY_TABLE_ENTRY |-> 118, CLEAR_KEY_TABLE |-> 177,
  REQUEST_LINK_KEY |-> 20, UPDATE_TC_LINK_KEY |-> 108,
  ZIGBEE_KEY_ESTABLISHMENT_HANDLER |-> 155, ADD_TRANSIENT_LINK_KEY |-> 175,
  CLEAR_TRANSIENT_LINK_KEYS |-> 107, GET_TRANSIENT_LINK_KEY |-> 206,
  GET_TRANSIENT_KEY_TABLE_ENTRY |-> 109]

TrustCenterFrames == [
  TRUST_CENTER_JOIN_HANDLER |-> 36, BROADCAST_NEXT_NETWORK_KEY |-> 115,
  BROADCAST_NETWORK_KEY_SWITCH |-> 116, BECOME_TRUST_CENTER |-> 119, AES_MMO_HASH |-> 111,
  REMOVE_DEVICE |-> 168, UNICAST_NWK_KEY_UPDATE |-> 169]

CertificateFrames == [
  GENERATE_CBKE_KEYS |-> 164, GENERATE_CBKE_KEYS_HANDLER |-> 158, CALCULATE_SMACS |-> 159,
  CALCULATE_SMACS_HANDLER |-> 160, GENERATE_CBKE_KEYS283K1 |-> 232,
  GENERATE_CBKE_KEYS_HANDLER283K1 |-> 233, CALCULATE_SMACS283K1 |-> 234,
  CALCULATE_SMACS_HANDLER283K1 |-> 235, CLEAR_TEMPORARY_DATA_MAYBE_STORE_LINK_KEY |-> 161,
  CLEAR_TEMPORARY_DATA_MAYBE_STORE_LINK_KEY283K1 |-> 238, GET_CERTIFICATE |-> 165,
  GET_CERTIFICATE283K1 |-> 236, DSA_SIGN |-> 166, DSA_SIGN_HANDLER |-> 167, DSA_VERIFY |-> 163,
  DSA_VERIFY_HANDLER |-> 120, DSA_VERIFY283K1 |-> 176, SET_PREINSTALLED_CBKE_DATA |-> 162,
  SAVE_PREINSTALLED_CBKE_DATA283K1 |-> 237]

MfglibFrames == [
  MFGLIB_START |-> 131, MFGLIB_END |-> 132, MFGLIB_START_TONE |-> 133,
  MFGLIB_STOP_TONE |-> 134, MFGLIB_START_STREAM |-> 135, MFGLIB_STOP_STREAM |-> 136,
  MFGLIB_SEND_PACKET |-> 137, MFGLIB_SET_CHANNEL |-> 138, MFGLIB_GET_CHANNEL |-> 139,
  MFGLIB_SET_POWER |-> 140, MFGLIB_GET_POWER |-> 141, MFGLIB_RX_HANDLER |-> 142]

BootloaderFrames == [
  LAUNCH_STANDALONE_BOOTLOADER |-> 143, SEND_BOOTLOAD_MESSAGE |-> 144,
  GET_STANDALONE_BOOTLOADER_VERSION_PLAT_MICRO_PHY |-> 145,
  INCOMING_BOOTLOAD_MESSAGE_HANDLER |-> 146, BOOTLOAD_TRANSMIT_COMPLETE_HANDLER |-> 147,
  AES_ENCRYPT |-> 148, OVERRIDE_CURRENT_CHANNEL |-> 149]

ZllFrames == [
  ZLL_NETWORK_OPS |-> 178, ZLL_SET_INITIAL_SECURITY_STATE |-> 179,
  ZLL_SET_SECURITY_STATE_WITHOUT_KEY |-> 207, ZLL_START_SCAN |-> 180,
  ZLL_SET_RX_ON_WHEN_IDLE |-> 181, ZLL_NETWORK_FOUND_HANDLER |-> 182,
  ZLL_SCAN_COMPLETE_HANDLER |-> 183, ZLL_ADDRESS_ASSIGNMENT_HANDLER |-> 184,
  SET_LOGICAL_AND_RADIO_CHANNEL |-> 185, GET_LOGICAL_CHANNEL |-> 186,
  ZLL_TOUCH_LINK_TARGET_HANDLER |-> 187, ZLL_GET_TOKENS |-> 188, ZLL_SET_DATA_TOKEN |-> 189,
  ZLL_SET_NON_ZLL_NETWORK |-> 191, IS_ZLL_NETWORK |-> 190, ZLL_SET_RADIO_IDLE_MODE |-> 212,
  SET_ZLL_NODE_TYPE |-> 213, SET_ZLL_ADDITIONAL_STATE |-> 214,
  ZLL_OPERATION_IN_PROGRESS |-> 215, ZLL_RX_ON_WHEN_IDLE_GET_ACTIVE |-> 216,
  GET_ZLL_PRIMARY_CHANNEL_MASK |-> 217, GET_ZLL_SECONDARY_CHANNEL_MASK |-> 218,
  SET_ZLL_PRIMARY_CHANNEL_MASK |-> 219, SET_ZLL_SECONDARY_CHANNEL_MASK |-> 220,
  ZLL_CLEAR_TOKENS |-> 37]

WwahFrames == [
  SET_PARENT_CLASSIFICATION_ENABLED |-> 231, GET_PARENT_CLASSIFICATION_ENABLED |-> 240,
  SET_LONG_UP_TIME |-> 227, SET_HUB_CONNECTIVITY |-> 228, IS_UP_TIME_LONG |-> 229,
  IS_HUB_CONNECTED |-> 230]

GreenPowerFrames == [
  GP_PROXY_TABLE_PROCESS_GP_PAIRING |-> 201, D_GP_SEND |-> 198, D_GP_SENT_HANDLER |-> 199,
  GPEP_INCOMING_MESSAGE_HANDLER |-> 197, GP_PROXY_TABLE_GET_ENTRY |-> 200,
  GP_PROXY_TABLE_LOOKUP |-> 192, GP_SINK_TABLE_GET_ENTRY |-> 221, GP_SINK_TABLE_LOOKUP |-> 222,
  GP_SINK_TABLE_SET_ENTRY |-> 223, GP_SINK_TABLE_REMOVE_ENTRY |-> 224,
  GP_SINK_TABLE_FIND_OR_ALLOCATE_ENTRY |-> 225, GP_SINK_TABLE_CLEAR_ALL |-> 226,
  GP_SINK_TABLE_INIT |-> 112]

SecureEzspFrames == [
  SET_SECURITY_KEY |-> 202, SET_SECURITY_PARAMETERS |-> 203, RESET_TO_FACTORY_DEFAULTS |-> 204,
  GET_SECURITY_KEY_STATUS |-> 205]

EEzspCmd ==
  ConfigurationFrames @@ UtilitiesFrames @@ NetworkingFrames @@ BindingFrames @@ MessagingFrames
  @@ SecurityFrames @@ TrustCenterFrames @@ CertificateFrames @@ MfglibFrames @@ BootloaderFrames
  @@ ZllFrames @@ WwahFrames @@ GreenPowerFrames @@ SecureEzspFrames
=============================================================================
