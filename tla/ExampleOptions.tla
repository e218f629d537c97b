---------------------------- MODULE ExampleOptions ----------------------------
(***************************************************************************)
(* How main() of the example reads its command line: one option after the  *)
(* other, each with its argument.  Digits are ASCII codes, 32-bit numbers  *)
(* are tuples of bytes, the lowest first, and the decimal number that      *)
(* follows -c or -C is the number itself.                                  *)
(***************************************************************************)
EXTENDS ByteManip, SequencesExt

NotADigit == 16
hexDigitToNibble(hDigit) ==
  IF hDigit \in 97 .. 102 THEN hDigit + 10 - 97
  ELSE IF hDigit \in 65 .. 70 THEN hDigit + 10 - 65
  ELSE IF hDigit \in 48 .. 57 THEN hDigit - 48
  ELSE NotADigit

IsDigit(c) == hexDigitToNibble(c) # NotADigit

MaxSourceId == <<255, 255, 255, 255>>

(* std::hex and operator>>: the digits at the beginning, the largest number  *)
(* if they are too many, 0 if there are none.                                *)
SourceId(chars) ==
  LET n == CHOOSE k \in 0 .. Len(chars) :
             /\ \A i \in 1 .. k : IsDigit(chars[i])
             /\ k = Len(chars) \/ ~IsDigit(chars[k + 1])
      Digit(i) == IF n - i >= 1 THEN hexDigitToNibble(chars[n - i]) ELSE 0
  IN IF \E i \in 1 .. n - 8 : hexDigitToNibble(chars[i]) # 0 THEN MaxSourceId
     ELSE [b \in 1 .. 4 |-> Digit(2 * b - 2) + 16 * Digit(2 * b - 1)]

Slash == 47
Before(c, chars) ==
  SelectSeq([i \in DOMAIN chars |-> IF \E j \in 1 .. i : chars[j] = c THEN 0 ELSE chars[i]],
            LAMBDA x : x # 0)
After(c, chars) == SubSeq(chars, Len(Before(c, chars)) + 2, Len(chars))

KeyOf(chars) ==
  [i \in 1 .. 16 |-> 16 * hexDigitToNibble(chars[2 * i - 1]) + hexDigitToNibble(chars[2 * i])]

NoOptions == [added |-> <<>>, removed |-> <<>>, removeAll |-> FALSE, reset |-> 0,
              commission |-> FALSE, answer |-> 0, key |-> FALSE, upgrade |-> FALSE,
              refused |-> FALSE]
Refused == [NoOptions EXCEPT !.refused = TRUE]
LeaveOnly == -1      \* static_cast<unsigned int>(-1)

(* Without a '/' the key is empty, and refused for its length.               *)
appendSourceIdToAddedDevList(o, devSpecs) ==
  LET sourceId == SourceId(Before(Slash, devSpecs))
      gpDevKeyStr == After(Slash, devSpecs)
  IN IF sourceId # MaxSourceId /\ Len(gpDevKeyStr) = 32
        /\ \A i \in 1 .. 32 : IsDigit(gpDevKeyStr[i])
     THEN [o EXCEPT !.added = Append(@, [id |-> sourceId, key |-> KeyOf(gpDevKeyStr)])]
     ELSE Refused

Star == <<42>>

(* Mutant: '*' is accepted after other devices.                              *)
RemovesAlso(o, devSpecs) ==
  IF devSpecs = Star THEN [o EXCEPT !.removeAll = TRUE]
  ELSE IF ~o.removeAll /\ SourceId(devSpecs) # MaxSourceId
       THEN [o EXCEPT !.removed = Append(@, SourceId(devSpecs))] ELSE Refused

appendSourceIdToRemovedDevList(o, devSpecs) ==
  IF devSpecs = Star
  THEN IF o.removed = <<>> THEN [o EXCEPT !.removeAll = TRUE] ELSE Refused
  ELSE IF ~o.removeAll /\ SourceId(devSpecs) # MaxSourceId
       THEN [o EXCEPT !.removed = Append(@, SourceId(devSpecs))] ELSE Refused

(* -b, -d, -u and -Z are of no consequence here.                             *)
Takes(o, a) ==
  IF o.refused THEN o
  ELSE CASE a.opt = "s" -> appendSourceIdToAddedDevList(o, a.arg)
         [] a.opt = "r" -> appendSourceIdToRemovedDevList(o, a.arg)
         [] a.opt = "c" -> [o EXCEPT !.reset = a.arg]
         [] a.opt = "l" -> [o EXCEPT !.reset = IF @ = 0 THEN LeaveOnly ELSE @]
         [] a.opt = "G" -> [o EXCEPT !.commission = TRUE]
         [] a.opt = "C" -> [o EXCEPT !.answer = a.arg % 256]
         [] a.opt = "k" -> [o EXCEPT !.key = TRUE]
         [] a.opt = "w" -> [o EXCEPT !.upgrade = TRUE]
         [] a.opt \in {"b", "d", "u", "Z"} -> o
         [] OTHER -> Refused

ParsedOptions(argv) == FoldLeft(Takes, NoOptions, argv)
=============================================================================
