------------------------------ MODULE GblVersion ------------------------------
(***************************************************************************)
(* get_gbl_version, the tool that prints the version of the application in *)
(* a GBL firmware image: a sequence of tags, each an identifier, a length  *)
(* and that many bytes.  A 32-bit number is the tuple of its bytes, the    *)
(* highest first; a length is below 2^31 (a longer one is an offset that   *)
(* lseek() cannot reach in any image).                                     *)
(***************************************************************************)
EXTENDS Integers, Sequences

TagSize == 8           \* sizeof(struct gbl_tl_tag)
ApplicationSize == 28  \* sizeof(ApplicationData_t)
BufferSize == 64       \* gbl_info_tag_buf
EBL_TAG_ID_APPLICATION == <<244, 10, 10, 244>>

Failure == <<>>        \* EXIT_FAILURE, and no version

letohl(le_u32) == <<le_u32[4], le_u32[3], le_u32[2], le_u32[1]>>

Number(u32) == ((u32[1] * 256 + u32[2]) * 256 + u32[3]) * 256 + u32[4]

(* read(): less than what was asked for at the end of the image.             *)
ReadAt(image, offset, n) ==
  SubSeq(image, offset + 1, IF offset + n > Len(image) THEN Len(image) ELSE offset + n)

(* `type`, `version`, `capabilities` and `productId`; what follows is        *)
(* ignored.                                                                  *)
ApplicationVersion(payload, length) ==
  IF length <= BufferSize /\ Len(payload) = length /\ length >= ApplicationSize
  THEN letohl(SubSeq(payload, 5, 8)) ELSE Failure

RECURSIVE VersionFrom(_, _)
VersionFrom(image, offset) ==
  LET gbl_tag == ReadAt(image, offset, TagSize)
      length == Number(letohl(SubSeq(gbl_tag, 5, 8)))
  IN IF Len(gbl_tag) # TagSize THEN Failure
     ELSE IF letohl(SubSeq(gbl_tag, 1, 4)) = EBL_TAG_ID_APPLICATION
     THEN ApplicationVersion(ReadAt(image, offset + TagSize, length), length)
     ELSE VersionFrom(image, offset + TagSize + length)

Version(image) == VersionFrom(image, 0)
=============================================================================
