----------------------------- MODULE AshFraming -----------------------------
(***************************************************************************)
(* The byte level of AshCodec: how frames are built, and how they are      *)
(* found again in a stream that the serial reader delivers in chunks cut   *)
(* anywhere, over a line with noise.  What the frames do to the connection *)
(* is in EzspDongle.                                                       *)
(***************************************************************************)
EXTENDS Integers, SequencesExt, Bitwise

CONSTANTS
  Sendable,      \* the sequences of frames (see Frame) the far end may send
  ASH_MAX_LENGTH,   \* bound of the buffer (131 in the code)
  MaxNoise       \* bound: how often noise hits the line

ASSUME FramingAssumption == ASH_MAX_LENGTH \in Nat \ {0} /\ MaxNoise \in Nat

VARIABLES
  in_msg,      \* bytes accumulated since the last flag
  received,    \* what appendIncoming() made of them
  line,        \* bytes sent and not read yet (external)
  sent,        \* history: the frames on the line at first
  reference,   \* history: [in_msg, inputError, out] of a reader of single bytes
  noise,       \* history: how often noise hit
  errorCut     \* history: a chunk ended after an error, before the next flag

vars == <<in_msg, received, line, sent, reference, noise, errorCut>>

-----------------------------------------------------------------------------
Byte == 0 .. 255
CANCEL == 26      \* 0x1A
FLAG == 126       \* 0x7E
SUBSTITUTE == 24  \* 0x18
XON == 17         \* 0x11
XOFF == 19        \* 0x13
ESCAPE == 125     \* 0x7D

(* CRC-CCITT, most significant bit first.                                    *)
ShiftIn(crc, bit) ==
  LET shifted == (crc * 2) % 65536
  IN IF crc \div 32768 # bit THEN shifted ^^ 4129 ELSE shifted

ComputeCRC(buf) ==
  LET Bits(byte) == [i \in 1 .. 8 |-> (byte \div 2 ^ (8 - i)) % 2]
      AddByte(crc, byte) == FoldLeft(ShiftIn, crc, Bits(byte))
  IN FoldLeft(AddByte, 65535, buf)

Stuffed == {FLAG, ESCAPE, XON, XOFF, SUBSTITUTE, CANCEL}

AddByteStuffing(data) ==
  LET Stuff(out, b) == out \o (IF b \in Stuffed THEN <<ESCAPE, b ^^ 32>> ELSE <<b>>)
  IN Append(FoldLeft(Stuff, <<>>, data), FLAG)

RemoveByteStuffing(data) ==
  LET Unstuff(s, b) ==
        IF s.escape THEN [escape |-> FALSE, out |-> Append(s.out, b ^^ 32)]
        ELSE IF b = ESCAPE THEN [s EXCEPT !.escape = TRUE]
        ELSE [s EXCEPT !.out = Append(@, b)]
  IN FoldLeft(Unstuff, [escape |-> FALSE, out |-> <<>>], data).out

(* The data of a frame XOR a pseudo-random sequence, which is its own        *)
(* inverse.                                                                  *)
DataRandomize(data) ==
  LET Next(lfsr) == IF lfsr % 2 = 1 THEN (lfsr \div 2) ^^ 184 ELSE lfsr \div 2
      Mix(s, b) == [lfsr |-> Next(s.lfsr), out |-> Append(s.out, b ^^ s.lfsr)]
  IN FoldLeft(Mix, [lfsr |-> 66, out |-> <<>>], data).out

(* A frame: its control byte and its payload.                                *)
Frame == [control : Byte, payload : Seq(Byte)]
IsData(control) == control < 128
RSTACK == 193     \* 0xC1

Content(f) == <<f.control>> \o (IF IsData(f.control) THEN DataRandomize(f.payload)
                                                     ELSE f.payload)

Forge(f) ==
  LET body == Content(f)
      crc == ComputeCRC(body)
      bytes == AddByteStuffing(body \o <<crc \div 256, crc % 256>>)
  IN IF f.control = RSTACK THEN <<CANCEL>> \o bytes ELSE bytes

(* Mutant: the CRC is not checked.                                           *)
GoodAnyCRC(msg) == Len(msg) >= 3

Good(msg) == Len(msg) >= 3 /\ ComputeCRC(msg) = 0

(* A frame that is too short or has a wrong CRC is logged and dropped.       *)
ProcessInterFlagStream(msg) ==
  LET unstuffed == RemoveByteStuffing(msg)
      data == SubSeq(unstuffed, 2, Len(unstuffed) - 2)
  IN IF Good(unstuffed)
     THEN <<[control |-> unstuffed[1],
             payload |-> IF IsData(unstuffed[1]) THEN DataRandomize(data) ELSE data]>>
     ELSE <<>>

Full(msg) == Len(msg) >= ASH_MAX_LENGTH

(* Mutant: an error is not forgotten with the flag that ends it.             *)
AfterFlagInError(s) == [s EXCEPT !.in_msg = <<>>]

AfterFlag(s) == [s EXCEPT !.in_msg = <<>>, !.inputError = FALSE]

(* One byte of appendIncoming().                                             *)
Reads(s, val) ==
  IF val = CANCEL THEN [s EXCEPT !.in_msg = <<>>, !.inputError = FALSE]
  ELSE IF val = FLAG
       THEN AfterFlag([s EXCEPT !.out = @ \o (IF s.inputError \/ s.in_msg = <<>> THEN <<>>
                                              ELSE ProcessInterFlagStream(s.in_msg))])
  ELSE IF val = SUBSTITUTE THEN [s EXCEPT !.inputError = TRUE]
  ELSE IF val \in {XON, XOFF} THEN s
  ELSE IF Full(s.in_msg) THEN [s EXCEPT !.in_msg = <<val>>, !.inputError = TRUE]
  ELSE [s EXCEPT !.in_msg = Append(@, val)]

-----------------------------------------------------------------------------
TypeOK ==
  /\ \A b \in {in_msg, line} : \A i \in 1 .. Len(b) : b[i] \in Byte
  /\ Len(in_msg) <= ASH_MAX_LENGTH
  /\ received \in Seq(Frame) /\ sent \in Sendable
  /\ noise \in 0 .. MaxNoise /\ errorCut \in BOOLEAN

Init ==
  /\ in_msg = <<>> /\ received = <<>>
  /\ sent \in Sendable
  /\ line = FlattenSeq([i \in 1 .. Len(sent) |-> Forge(sent[i])])
  /\ reference = [in_msg |-> <<>>, inputError |-> FALSE, out |-> <<>>]
  /\ noise = 0 /\ errorCut = FALSE

(* Mutant: a frame that is cut by the end of a chunk is dropped.             *)
KeepsNothing(msg) == <<>>

Keeps(msg) == msg

(* The reader delivers a chunk: inputError does not outlive the call.        *)
AppendIncoming(n) ==
  LET chunk == SubSeq(line, 1, n)
      start == [in_msg |-> in_msg, inputError |-> FALSE, out |-> received]
  IN /\ \E s \in {FoldLeft(Reads, start, chunk)} :
          /\ in_msg' = Keeps(s.in_msg)
          /\ received' = s.out
          /\ errorCut' = (errorCut \/ s.inputError)
     /\ reference' = FoldLeft(Reads, reference, chunk)
     /\ line' = SubSeq(line, n + 1, Len(line))
     /\ UNCHANGED <<sent, noise>>

(* Noise, before a byte is read (external): it is lost, not received well by *)
(* the UART, or another one slips in (never a zero, which no CRC notices     *)
(* between itself and the flag).                                             *)
Noise(i) ==
  /\ noise < MaxNoise /\ noise' = noise + 1
  /\ \/ line' = RemoveAt(line, i)
     \/ line' = ReplaceAt(line, i, SUBSTITUTE)
     \/ \E b \in {SUBSTITUTE, CANCEL, FLAG, XON, 1} : line' = InsertAt(line, i, b)
  /\ UNCHANGED <<in_msg, received, sent, reference, errorCut>>

Next == \E i \in 1 .. Len(line) : AppendIncoming(i) \/ Noise(i)

Spec == Init /\ [][Next]_vars

-----------------------------------------------------------------------------
(* Properties.                                                               *)

(* Whatever the noise and the chunks, what is accepted was sent, in that     *)
(* order and not twice.                                                      *)
OnlySentInOrder ==
  \E kept \in SUBSET DOMAIN sent :
    LET order == SetToSortSeq(kept, <)
    IN received = [i \in DOMAIN order |-> sent[order[i]]]

(* The reader finds the next frame again: one hit costs two frames at most   *)
(* (a lost flag), and without noise none is lost, wherever chunks are cut.   *)
LosesFew == line = <<>> => Len(received) >= Len(sent) - 2 * noise

(* What is accepted does not depend on how the stream was cut into chunks,   *)
(* unless a chunk ends between an error and the next flag: inputError is     *)
(* forgotten there, and the rest of the frame is taken for a good one.       *)
ChunksDoNotMatter == received = reference.out \/ errorCut

=============================================================================
