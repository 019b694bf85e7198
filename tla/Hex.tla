--------------------------------- MODULE Hex ---------------------------------
(***************************************************************************)
(* Hex text to bytes, as libdevcore does it                                *)
(* (src/sFuzz/libdevcore/CommonData.cpp): fromHexChar, isHex, fromHex with *)
(* the WhenError::DontThrow policy the fuzzer calls it with, and asNibbles. *)
(* A text is a sequence of one-character strings, a byte a number in       *)
(* 0..255.                                                                  *)
(***************************************************************************)
EXTENDS Integers, Sequences, SequencesExt

\* The digits '0'..'9', 'a'..'f' and 'A'..'F' of the three ranges the code tests.
DecimalDigits == <<"0", "1", "2", "3", "4", "5", "6", "7", "8", "9">>
LowerDigits == <<"a", "b", "c", "d", "e", "f">>
UpperDigits == <<"A", "B", "C", "D", "E", "F">>

\* fromHexChar (lines 32-41): the digit's value, -1 for any other character.
fromHexChar(c) ==
    CASE c \in Range(DecimalDigits) -> CHOOSE k \in 0..9 : DecimalDigits[k + 1] = c
      [] c \in Range(LowerDigits)   -> CHOOSE k \in 10..15 : LowerDigits[k - 9] = c
      [] c \in Range(UpperDigits)   -> CHOOSE k \in 10..15 : UpperDigits[k - 9] = c
      [] OTHER                      -> -1

\* Mutant: the prefix never recognised.
PrefixLenNone(s) == 0

\* The length of a leading "0x" (lines 46-47 and 83); "0X" is not a prefix.
PrefixLen(s) == IF Len(s) >= 2 /\ s[1] = "0" /\ s[2] = "x" THEN 2 ELSE 0

\* isHex (lines 44-50): every character after the prefix is a digit.
isHex(s) == \A k \in (PrefixLen(s) + 1)..Len(s) : fromHexChar(s[k]) # -1

(***************************************************************************)
(* fromHex(s, DontThrow) (lines 81-109).  The parity is that of the whole  *)
(* text, prefix included: an odd text first pushes the single digit after  *)
(* the prefix, then the rest is read two digits at a time, high digit      *)
(* first.  The first bad digit, in the single one or in any pair, returns *)
(* bytes() and drops whatever was pushed.                                  *)
(***************************************************************************)
RECURSIVE PairsFrom(_, _)
PairsFrom(s, i) ==
    IF i >= Len(s) THEN <<>>
    ELSE LET h == fromHexChar(s[i + 1])
             l == fromHexChar(s[i + 2])
             rest == PairsFrom(s, i + 2)
         IN  IF h = -1 \/ l = -1 \/ rest = <<-1>> THEN <<-1>>
             ELSE <<h * 16 + l>> \o rest

fromHex(s) ==
    LET odd   == Len(s) % 2 = 1
        start == PrefixLen(s) + (IF odd THEN 1 ELSE 0)
        lead  == IF odd THEN <<fromHexChar(s[PrefixLen(s) + 1])>> ELSE <<>>
        pairs == PairsFrom(s, start)
    IN  IF lead = <<-1>> \/ pairs = <<-1>> THEN <<>> ELSE lead \o pairs

\* asNibbles (lines 202-212): each byte as its high and then its low nibble.
asNibbles(b) == FoldLeft(LAMBDA ns, x : ns \o <<x \div 16, x % 16>>, <<>>, b)
=============================================================================
