--------------------------- MODULE GreenPowerFrame ---------------------------
(***************************************************************************)
(* A frame of a Green Power device as the adapter hands it over            *)
(* (CGpFrame), the check of its MIC by the host, and the payload of its    *)
(* commissioning command (CGpdCommissioningPayload).                       *)
(***************************************************************************)
EXTENDS EzspStructs, CustomAes

GPD_NO_SECURITY == 0
GPD_FRM_COUNTER_MIC_SECURITY == 2
GPD_KEY_TYPE_NO_KEY == 0

(* A device addressed by IEEE address is not supported: its frame is empty.  *)
NoFrame ==
  [application_id |-> 0, link_value |-> 0, sequence_number |-> 0, source_id |-> Zeros(4),
   security |-> GPD_NO_SECURITY, key_type |-> GPD_KEY_TYPE_NO_KEY,
   auto_commissioning |-> FALSE, rx_after_tx |-> FALSE, security_frame_counter |-> Zeros(4),
   command_id |-> 255, mic |-> Zeros(4), proxy_table_entry |-> 255, payload |-> <<>>]

CGpFrame(raw) ==
  LET gp_address == CEmberGpAddressStruct(From(raw, 3))
  IN IF gp_address.applicationId # 0
       THEN [NoFrame EXCEPT !.application_id = gp_address.applicationId]
       ELSE [application_id |-> 0, link_value |-> At(raw, 1), sequence_number |-> At(raw, 2),
             source_id |-> getSourceId(gp_address), security |-> At(raw, 13),
             key_type |-> At(raw, 14), auto_commissioning |-> At(raw, 15) # 0,
             rx_after_tx |-> At(raw, 16) # 0, security_frame_counter |-> Word32(raw, 17),
             command_id |-> At(raw, 21), mic |-> Word32(raw, 22),
             proxy_table_entry |-> At(raw, 26), payload |-> Bytes_at(raw, 28, At(raw, 27))]

(* ---------------------------------------------------------------- the MIC --- *)

toNwkFCByteField(f) == 12 + Flag(f.auto_commissioning, 6) + 128

(* Mutant: the MIC does not cover whether the device listens.                *)
ExtNwkFCWithoutRx(f) ==
  (f.application_id % 8) + 8 * (f.security % 4) + Flag(f.key_type # GPD_KEY_TYPE_NO_KEY, 5)

toExtNwkFCByteField(f) ==
  (f.application_id % 8) + 8 * (f.security % 4)
    + Flag(f.key_type # GPD_KEY_TYPE_NO_KEY, 5) + Flag(f.rx_after_tx, 6)

computeNonce(sourceId, frameCounter) == sourceId \o sourceId \o frameCounter \o <<5>>

(* What the MIC covers: the header, the command, the payload.                *)
Header(f) ==
  <<toNwkFCByteField(f), toExtNwkFCByteField(f)>> \o f.source_id \o f.security_frame_counter

Authenticated(f) == Header(f) \o <<f.command_id>> \o f.payload

Padded(s) == s \o Zeros((AES_BLOCK_SIZE - (Len(s) % AES_BLOCK_SIZE)) % AES_BLOCK_SIZE)

(* AES-CBC over the blocks B0 and then B, from X0: its last block.           *)
getLastXiAESCBC(ksch, X0, B0, B) ==
  LET Block(i) == IF i = 0 THEN B0 ELSE SubSeq(B, 16 * i - 15, 16 * i)
      X[i \in 0 .. Len(B) \div AES_BLOCK_SIZE] ==
        cbc_encrypt(ksch, Block(i), IF i = 0 THEN X0 ELSE X[i - 1])
  IN IF Len(B) % AES_BLOCK_SIZE = 0 /\ Len(B0) = AES_BLOCK_SIZE /\ Len(X0) = AES_BLOCK_SIZE
       THEN X[Len(B) \div AES_BLOCK_SIZE]
       ELSE <<>>

MicFlags == 73     \* 0x49

(* AES-CCM of a message without a text, with a MIC of four bytes.            *)
CalculatedMic(f, ksch) ==
  LET nonce == computeNonce(f.source_id, f.security_frame_counter)
      a == Authenticated(f)
      La == <<u16_get_hi_u8(Len(a)), u16_get_lo_u8(Len(a))>>
      T == getLastXiAESCBC(ksch, Zeros(AES_BLOCK_SIZE), <<MicFlags>> \o nonce \o <<0, 0>>,
                           Padded(La \o a))
      r == encrypt(ksch, <<MicFlags % 4>> \o nonce \o <<0, 0>>)
  IN XorAll(SubSeq(r, 1, 4), SubSeq(T, 1, 4))

(* `ksch` is the schedule of the device's key.                               *)
validateMIC(f, ksch) ==
  /\ f.security = GPD_FRM_COUNTER_MIC_SECURITY
  /\ f.application_id = 0
  /\ f.mic = CalculatedMic(f, ksch)

(* ------------------------------------------------------- commissioning ------- *)

COM_OPTION_MAC_SEQ_CAPABILITY_BIT == 0
COM_OPTION_RX_ON_CAPABILITY_BIT == 1
COM_OPTION_APPLICATION_INFORMATION_BIT == 2
COM_OPTION_FIXED_LOCATION_BIT == 6
COM_OPTION_EXTENDED_OPTION_FIELD_BIT == 7
COM_EXT_OPTION_GPD_KEY_PRESENT_BIT == 5
COM_EXT_OPTION_GPD_KEY_ENCRYPTION_BIT == 6
COM_EXT_OPTION_GPD_OUT_COUNTER_PRESENT_BIT == 7
COM_APP_INFO_MANUFACTURER_ID_PRESENT_BIT == 0
COM_APP_INFO_MODEL_ID_PRESENT_BIT == 1
COM_APP_INFO_GPD_COMMANDS_PRESENT_BIT == 2
COM_APP_INFO_CLUSTER_LIST_PRESENT_BIT == 3

TC_LK == <<90, 105, 103, 66, 101, 101, 65, 108, 108, 105, 97, 110, 99, 101, 48, 57>>

KeyNonce(srcId) == <<1>> \o srcId \o srcId \o srcId \o <<5, 0, 1>>

(* Mutant: the key is taken as it was sent.                                  *)
KeyAsSent(in_key, srcId, ksch) == in_key

(* The key of a device, sent encrypted; `ksch` is the schedule of TC_LK.      *)
DecryptedKey(in_key, srcId, ksch) == xor_block(encrypt(ksch, KeyNonce(srcId)), in_key)

(* Where a field of `size` bytes ends that starts at idx, if it is there.    *)
Past(idx, present, size) == IF present THEN idx + size ELSE idx

(* Fields that are not there are 0, or empty.                                *)
CGpdCommissioningPayload(raw, srcId, ksch) ==
  LET options == At(raw, 1)
      has_ext == Bit(options, COM_OPTION_EXTENDED_OPTION_FIELD_BIT)
      ext == IF has_ext THEN At(raw, 2) ELSE 0
      has_key == Bit(ext, COM_EXT_OPTION_GPD_KEY_PRESENT_BIT)
      crypted == has_key /\ Bit(ext, COM_EXT_OPTION_GPD_KEY_ENCRYPTION_BIT)
      counted == Bit(ext, COM_EXT_OPTION_GPD_OUT_COUNTER_PRESENT_BIT)
      has_app == Bit(options, COM_OPTION_APPLICATION_INFORMATION_BIT)
      key_at == Past(2, has_ext, 1)
      mic_at == Past(key_at, has_key, EMBER_KEY_DATA_BYTE_SIZE)
      counter_at == Past(mic_at, crypted, 4)
      app_at == Past(counter_at, counted, 4)
      app == IF has_app THEN At(raw, app_at) ELSE 0
      manufacturer_at == Past(app_at, has_app, 1)
      has_manufacturer == Bit(app, COM_APP_INFO_MANUFACTURER_ID_PRESENT_BIT)
      model_at == Past(manufacturer_at, has_manufacturer, 2)
      has_model == Bit(app, COM_APP_INFO_MODEL_ID_PRESENT_BIT)
      commands_at == Past(model_at, has_model, 2)
      has_commands == Bit(app, COM_APP_INFO_GPD_COMMANDS_PRESENT_BIT)
      commands == IF has_commands THEN At(raw, commands_at) ELSE 0
      clusters_at == Past(commands_at, has_commands, 1 + commands)
      sent_key == IF has_key THEN Bytes_at(raw, key_at, EMBER_KEY_DATA_BYTE_SIZE) ELSE Zeros(16)
  IN [device_id |-> At(raw, 0), options |-> options, extended_options |-> ext,
      key |-> IF crypted THEN DecryptedKey(sent_key, srcId, ksch) ELSE sent_key,
      key_mic |-> IF crypted THEN Word32(raw, mic_at) ELSE Zeros(4),
      out_frame_counter |-> IF counted THEN Word32(raw, counter_at) ELSE Zeros(4),
      app_information |-> app,
      manufacturer_id |-> IF has_manufacturer THEN Word16(raw, manufacturer_at) ELSE 0,
      model_id |-> IF has_model THEN Word16(raw, model_at) ELSE 0,
      gpd_command_list |->
        IF has_commands THEN Bytes_at(raw, commands_at + 1, commands) ELSE <<>>,
      gpd_cluster_list |->
        IF Bit(app, COM_APP_INFO_CLUSTER_LIST_PRESENT_BIT) THEN From(raw, clusters_at) ELSE <<>>]

(* The options of the sink table entry a commissioning command asks for.     *)
OptionsOf(application_id, payload) ==
  [application_id |-> application_id, communication_mode |-> 1,
   sequence_number_capabilities |-> Bit(payload.options, COM_OPTION_MAC_SEQ_CAPABILITY_BIT),
   rx_on_capability |-> Bit(payload.options, COM_OPTION_RX_ON_CAPABILITY_BIT),
   fixed_location |-> Bit(payload.options, COM_OPTION_FIXED_LOCATION_BIT),
   assigned_alias |-> FALSE,
   security_use |-> Bit(payload.options, COM_OPTION_EXTENDED_OPTION_FIELD_BIT)]

=============================================================================
