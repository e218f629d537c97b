------------------------------ MODULE ByteManip ------------------------------
(***************************************************************************)
(* byte-manip.h and the bit operations of C++ that the message classes     *)
(* use.  A byte or a 16-bit word is a number; a 32-bit word is the tuple   *)
(* of its four bytes, the lowest first, since TLC's integers are too       *)
(* narrow for it.                                                          *)
(***************************************************************************)
EXTENDS Integers, Sequences

Byte == 0 .. 255
Word == 0 .. 65535
Bytes(n) == [1 .. n -> Byte]

(* raw.at(i): the index of the first byte is 0.                              *)
At(raw, i) == raw[i + 1]
Bytes_at(raw, i, n) == [k \in 1 .. n |-> raw[i + k]]

dble_u8_to_u16(hi, lo) == 256 * hi + lo
u16_get_hi_u8(w) == w \div 256
u16_get_lo_u8(w) == w % 256
u8_get_hi_nibble(b) == b \div 16
u8_get_lo_nibble(b) == b % 16

quad_u8_to_u32(b3, b2, b1, b0) == <<b0, b1, b2, b3>>

(* A 16-bit word, and a 32-bit word small enough to be a number, as they are *)
(* written: the lowest byte first.                                           *)
Raw16(w) == <<u16_get_lo_u8(w), u16_get_hi_u8(w)>>
Raw32(n) == [i \in 1 .. 4 |-> (n \div 256 ^ (i - 1)) % 256]
Word16(raw, i) == dble_u8_to_u16(At(raw, i + 1), At(raw, i))
Word32(raw, i) == quad_u8_to_u32(At(raw, i + 3), At(raw, i + 2), At(raw, i + 1), At(raw, i))

Bit(n, i) == (n \div 2 ^ i) % 2 = 1
Flag(b, i) == IF b THEN 2 ^ i ELSE 0

(* Exclusive or of bytes, a nibble at a time.                                *)
NibbleXor == <<
  <<0,1,2,3,4,5,6,7,8,9,10,11,12,13,14,15>>,
  <<1,0,3,2,5,4,7,6,9,8,11,10,13,12,15,14>>,
  <<2,3,0,1,6,7,4,5,10,11,8,9,14,15,12,13>>,
  <<3,2,1,0,7,6,5,4,11,10,9,8,15,14,13,12>>,
  <<4,5,6,7,0,1,2,3,12,13,14,15,8,9,10,11>>,
  <<5,4,7,6,1,0,3,2,13,12,15,14,9,8,11,10>>,
  <<6,7,4,5,2,3,0,1,14,15,12,13,10,11,8,9>>,
  <<7,6,5,4,3,2,1,0,15,14,13,12,11,10,9,8>>,
  <<8,9,10,11,12,13,14,15,0,1,2,3,4,5,6,7>>,
  <<9,8,11,10,13,12,15,14,1,0,3,2,5,4,7,6>>,
  <<10,11,8,9,14,15,12,13,2,3,0,1,6,7,4,5>>,
  <<11,10,9,8,15,14,13,12,3,2,1,0,7,6,5,4>>,
  <<12,13,14,15,8,9,10,11,4,5,6,7,0,1,2,3>>,
  <<13,12,15,14,9,8,11,10,5,4,7,6,1,0,3,2>>,
  <<14,15,12,13,10,11,8,9,6,7,4,5,2,3,0,1>>,
  <<15,14,13,12,11,10,9,8,7,6,5,4,3,2,1,0>>>>

a ^^ b == 16 * NibbleXor[1 + (a \div 16)][1 + (b \div 16)] + NibbleXor[1 + (a % 16)][1 + (b % 16)]

(* SubSeq makes TLC compute the result once, not at each use of it.           *)
XorAll(s, t) == SubSeq([i \in 1 .. Len(s) |-> s[i] ^^ t[i]], 1, Len(s))

=============================================================================
