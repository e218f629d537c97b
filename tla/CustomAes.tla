------------------------------ MODULE CustomAes ------------------------------
(***************************************************************************)
(* CustomAes: AES with keys of 128 bits, one block (16 bytes, by columns)  *)
(* at a time, as custom-aes.cpp computes it.  Decryption is not compiled   *)
(* in the source.                                                          *)
(***************************************************************************)
EXTENDS ByteManip

AES_BLOCK_SIZE == 16
rnd == 10         \* rounds for a 128-bit key

sbox == <<
  99, 124, 119, 123, 242, 107, 111, 197, 48, 1, 103, 43, 254, 215, 171, 118,
  202, 130, 201, 125, 250, 89, 71, 240, 173, 212, 162, 175, 156, 164, 114, 192,
  183, 253, 147, 38, 54, 63, 247, 204, 52, 165, 229, 241, 113, 216, 49, 21,
  4, 199, 35, 195, 24, 150, 5, 154, 7, 18, 128, 226, 235, 39, 178, 117,
  9, 131, 44, 26, 27, 110, 90, 160, 82, 59, 214, 179, 41, 227, 47, 132,
  83, 209, 0, 237, 32, 252, 177, 91, 106, 203, 190, 57, 74, 76, 88, 207,
  208, 239, 170, 251, 67, 77, 51, 133, 69, 249, 2, 127, 80, 60, 159, 168,
  81, 163, 64, 143, 146, 157, 56, 245, 188, 182, 218, 33, 16, 255, 243, 210,
  205, 12, 19, 236, 95, 151, 68, 23, 196, 167, 126, 61, 100, 93, 25, 115,
  96, 129, 79, 220, 34, 42, 144, 136, 70, 238, 184, 20, 222, 94, 11, 219,
  224, 50, 58, 10, 73, 6, 36, 92, 194, 211, 172, 98, 145, 149, 228, 121,
  231, 200, 55, 109, 141, 213, 78, 169, 108, 86, 244, 234, 101, 122, 174, 8,
  186, 120, 37, 46, 28, 166, 180, 198, 232, 221, 116, 31, 75, 189, 139, 138,
  112, 62, 181, 102, 72, 3, 246, 14, 97, 53, 87, 185, 134, 193, 29, 158,
  225, 248, 152, 17, 105, 217, 142, 148, 155, 30, 135, 233, 206, 85, 40, 223,
  140, 161, 137, 13, 191, 230, 66, 104, 65, 153, 45, 15, 176, 84, 187, 22>>

(* Multiplication by x in GF(2^8), modulo 0x11b.                             *)
f2(x) == ((2 * x) % 256) ^^ (IF x >= 128 THEN 27 ELSE 0)
f3(x) == f2(x) ^^ x

s_box(x) == sbox[x + 1]

(* Tables, computed once.                                                    *)
gfm2_sbox == [i \in 1 .. 256 |-> f2(sbox[i])]
gfm3_sbox == [i \in 1 .. 256 |-> f3(sbox[i])]

xor_block(d, s) == XorAll(d, s)

(* The row of byte i is i % 4; it is rotated to the left by that much.       *)
Rotated(i) == (((i - 1) + 4 * ((i - 1) % 4)) % 16) + 1
shift_sub_rows(st) == [i \in 1 .. 16 |-> s_box(st[Rotated(i)])]

(* ShiftRows, SubBytes and MixColumns at once.                               *)
mix_sub_columns(st) ==
  LET Below(i, k) == 4 * ((i - 1) \div 4) + ((i - 1 + k) % 4) + 1
      In(i, k) == 1 + st[Rotated(Below(i, k))]
  IN [i \in 1 .. 16 |-> (gfm2_sbox[In(i, 0)] ^^ gfm3_sbox[In(i, 1)])
                          ^^ (sbox[In(i, 2)] ^^ sbox[In(i, 3)])]

(* The key schedule: rnd + 1 round keys one after the other, each of four    *)
(* words.                                                                    *)
set_key(key) ==
  LET rc[k \in 1 .. rnd] == IF k = 1 THEN 1 ELSE f2(rc[k - 1])
      Scramble(w, k) == <<s_box(w[2]) ^^ rc[k], s_box(w[3]), s_box(w[4]), s_box(w[1])>>
      Extend(ksch, k) ==
        LET Word32At(i) == SubSeq(ksch, Len(ksch) - 15 + 4 * i, Len(ksch) - 12 + 4 * i)
            w0 == XorAll(Word32At(0), Scramble(Word32At(3), k))
            w1 == XorAll(Word32At(1), w0)
            w2 == XorAll(Word32At(2), w1)
        IN ksch \o w0 \o w1 \o w2 \o XorAll(Word32At(3), w2)
      ksch[k \in 0 .. rnd] == IF k = 0 THEN key ELSE Extend(ksch[k - 1], k)
  IN ksch[rnd]

RoundKey(ksch, r) == SubSeq(ksch, 16 * r + 1, 16 * r + 16)

encrypt(ksch, in) ==
  LET s1[r \in 0 .. rnd - 1] ==
        IF r = 0 THEN xor_block(in, RoundKey(ksch, 0))
        ELSE xor_block(mix_sub_columns(s1[r - 1]), RoundKey(ksch, r))
  IN xor_block(shift_sub_rows(s1[rnd - 1]), RoundKey(ksch, rnd))

(* One block at a time, which is the next iv; the code refuses less than one. *)
cbc_encrypt(ksch, in, iv) ==
  IF Len(iv) = Len(in) THEN encrypt(ksch, xor_block(iv, in)) ELSE iv

=============================================================================
