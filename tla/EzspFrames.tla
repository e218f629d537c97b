------------------------------ MODULE EzspFrames ------------------------------
(***************************************************************************)
(* The header of an EZSP message, which CEzspDongle puts before a command  *)
(* and takes off what the adapter sends.  It depends on the version of the *)
(* protocol that the adapter has announced (0 until it has).               *)
(***************************************************************************)
EXTENDS EzspCmds, Sequences

LOCAL INSTANCE ByteManip

knownEzspProtocolVersion(version) == version # 0
knownEzspProtocolVersionGE(version, min) == knownEzspProtocolVersion(version) /\ version >= min
knownEzspProtocolVersionLT(version, max) == knownEzspProtocolVersion(version) /\ version < max

EzspMessage(version, ezspSeqNum, cmd, payload) ==
  <<ezspSeqNum, 0>>
    \o (IF knownEzspProtocolVersionGE(version, 8) THEN <<1>> ELSE <<>>)
    \o (IF cmd # "VERSION" /\ knownEzspProtocolVersionLT(version, 8) THEN <<255, 0>> ELSE <<>>)
    \o <<EEzspCmd[cmd]>>
    \o (IF knownEzspProtocolVersionGE(version, 8) THEN <<0>> ELSE <<>>)
    \o payload

(* What is not understood is dropped; an identifier that no command has is   *)
(* handled by nobody.                                                        *)
Dropped == [cmd |-> "dropped", payload |-> <<>>]

CommandOf(id) ==
  IF \E c \in DOMAIN EEzspCmd : EEzspCmd[c] = id
  THEN CHOOSE c \in DOMAIN EEzspCmd : EEzspCmd[c] = id ELSE "unknown"

(* The identifier of the command is at id, and what follows the header is at *)
(* rest.                                                                     *)
Taken(message, id, rest) ==
  [cmd |-> CommandOf(At(message, id)), payload |-> SubSeq(message, rest + 1, Len(message))]

(* The two bytes that announce an extended header are taken out.             *)
Legacy(message) ==
  IF At(message, 2) = 255 THEN SubSeq(message, 1, 2) \o SubSeq(message, 5, Len(message))
  ELSE message

HandleInputData(version, message) ==
  IF knownEzspProtocolVersionGE(version, 8)
  THEN IF Len(message) < 5 \/ At(message, 4) # 0 THEN Dropped
       ELSE Taken(message, 3, 5)
  ELSE IF Len(message) < 4 \/ Len(Legacy(message)) < 3 THEN Dropped
       ELSE Taken(Legacy(message), 2, 3)
=============================================================================
