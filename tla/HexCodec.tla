------------------------------ MODULE HexCodec ------------------------------
(***************************************************************************)
(* The conversions of HexUtil between bytes, text, hexadecimal text and    *)
(* escaped code units, as operators, and what they promise together.       *)
(*                                                                         *)
(* A byte is a number of Java's byte, a char its code unit, a String the   *)
(* sequence of its chars. The two conversions between String and byte[]    *)
(* use the platform's charset: they are modelled for ASCII, and a byte     *)
(* that is none is decoded to the replacement character.                   *)
(***************************************************************************)
EXTENDS Integers, SequencesExt

CONSTANTS
  Bytes, MaxBytes,   \* the byte arrays: elements and longest length
  Units, MaxUnits    \* the Strings: code units and longest length

\* Character.MAX_VALUE (external).
MaxChar == 65535

ASSUME CodecAssumption ==
  /\ Bytes \subseteq -128 .. 127 /\ MaxBytes \in Nat
  /\ Units \subseteq 0 .. MaxChar /\ MaxUnits \in Nat

VARIABLES
  bytes,   \* an array of bytes
  text     \* a String

vars == <<bytes, text>>

-----------------------------------------------------------------------------
(* Java's chars and integers (external).                                   *)

Space == 32
Backslash == 92
LetterU == 117
Replacement == 65533

\* "0123456789ABCDEF" and the digits of Integer.toHexString.
UpperDigit(n) == IF n < 10 THEN 48 + n ELSE 55 + n
LowerDigit(n) == IF n < 10 THEN 48 + n ELSE 87 + n
ToUpperCase(s) == [i \in DOMAIN s |-> IF s[i] \in 97 .. 122 THEN s[i] - 32 ELSE s[i]]

\* The value of a digit for Integer.parseInt(.., 16), -1 if it is none.
Digit(ch) == CASE ch \in 48 .. 57  -> ch - 48
               [] ch \in 65 .. 70  -> ch - 55
               [] ch \in 97 .. 102 -> ch - 87
               [] OTHER            -> -1
IsHex(s) == s # <<>> /\ \A i \in DOMAIN s : Digit(s[i]) >= 0

\* Integer.parseInt(s, 16) of two digits.
ParseHex(s) == 16 * Digit(s[1]) + Digit(s[2])

\* Integer.toHexString: no leading zeros.
HexWidth(n) == IF n < 16 THEN 1 ELSE IF n < 256 THEN 2 ELSE IF n < 4096 THEN 3 ELSE 4
ToHexString(n) ==
  [i \in 1 .. HexWidth(n) |-> LowerDigit((n \div 16 ^ (HexWidth(n) - i)) % 16)]

\* The cast to byte, String.trim, String.replace(" ", ""), new String(bytes).
ToByte(n) == ((n + 128) % 256) - 128
Trim(s) ==
  LET kept == {i \in DOMAIN s : s[i] > Space}
  IN IF kept = {} THEN <<>> ELSE SubSeq(s, Min(kept), Max(kept))
Join(parts) == FlattenSeq(parts)
NoSpaces(s) == Join([i \in DOMAIN s |-> IF s[i] = Space THEN <<>> ELSE <<s[i]>>])
Decode(b) == [i \in DOMAIN b |-> IF b[i] >= 0 THEN b[i] ELSE Replacement]

-----------------------------------------------------------------------------
(* HexUtil.                                                                *)

getInt(b) == b % 256

getBit(b, index) == (getInt(b) \div 2 ^ index) % 2

\* The low eight bits of the exclusive or of two ints.
Xor(a, b) ==
  LET bit(i) == 2 ^ i * ((getBit(a, i) + getBit(b, i)) % 2)
  IN bit(0) + bit(1) + bit(2) + bit(3) + bit(4) + bit(5) + bit(6) + bit(7)

\* Mutant: the last byte is left out.
getCheckCode_Short(ret, length) ==
  LET temp[i \in 0 .. length] ==
        IF i <= 1 THEN ret[1] ELSE ToByte(Xor(temp[i - 1], ret[i]))
  IN temp[length - 1]

\* The exclusive or of the first `length` bytes: temp[i] is the value of temp
\* when i bytes have been read.
getCheckCode(ret, length) ==
  LET temp[i \in 0 .. length] ==
        IF i <= 1 THEN ret[1] ELSE ToByte(Xor(temp[i - 1], ret[i]))
  IN temp[length]

\* Two digits for every byte, separated by spaces.
str2HexStr(str) ==
  Trim(Join([i \in DOMAIN str |->
    <<UpperDigit((str[i] % 256) \div 16), UpperDigit(str[i] % 16), Space>>]))

\* str.indexOf of a digit: upper case only.
IndexOf(ch) == IF ch \in 48 .. 57 \cup 65 .. 70 THEN Digit(ch) ELSE -1

\* Mutant: the high digit comes second.
hexStr2Str_Swapped(hexStr) ==
  Decode([i \in 1 .. Len(hexStr) \div 2 |->
    ToByte(IndexOf(hexStr[2 * i]) * 16 + IndexOf(hexStr[2 * i - 1]))])

\* Every two chars are a byte; a char that is no digit counts as -1, and the
\* last of an odd number is left out.
hexStr2Str(hexStr) ==
  Decode([i \in 1 .. Len(hexStr) \div 2 |->
    ToByte(IndexOf(hexStr[2 * i - 1]) * 16 + IndexOf(hexStr[2 * i]))])

\* Mutant: one digit is not padded.
byte2HexStr_NoPadding(b) ==
  Trim(ToUpperCase(Join([n \in DOMAIN b |-> ToHexString(getInt(b[n])) \o <<Space>>])))

byte2HexStr(b) ==
  Trim(ToUpperCase(Join([n \in DOMAIN b |->
    LET stmp == ToHexString(getInt(b[n]))
    IN (IF Len(stmp) = 1 THEN <<UpperDigit(0)>> ELSE <<>>) \o stmp \o <<Space>>])))

\* Spaces are ignored, an odd number of digits gets a zero in front. Defined
\* for digits; anything else throws.
hexStr2Bytes(src) ==
  LET digits == NoSpaces(src)
      even == IF Len(digits) % 2 = 0 THEN digits ELSE <<UpperDigit(0)>> \o digits
  IN [i \in 1 .. Len(even) \div 2 |-> ToByte(ParseHex(SubSeq(even, 2 * i - 1, 2 * i)))]

\* Mutant: two zeros up to 255.
strToUnicode_Byte(strText) ==
  Join([i \in DOMAIN strText |->
    <<Backslash, LetterU>>
      \o (IF strText[i] > 255 THEN <<>> ELSE <<UpperDigit(0), UpperDigit(0)>>)
      \o ToHexString(strText[i])])

\* An escape for every code unit: two zeros and its digits up to 128, its
\* digits alone above.
strToUnicode(strText) ==
  Join([i \in DOMAIN strText |->
    <<Backslash, LetterU>>
      \o (IF strText[i] > 128 THEN <<>> ELSE <<UpperDigit(0), UpperDigit(0)>>)
      \o ToHexString(strText[i])])

\* Six chars are an escape: the code unit is the value of the two digits in
\* the middle, with two zeros behind, plus that of the last two. Digits that
\* are none throw; what is left at the end is ignored.
unicodeToString(hex) ==
  LET escape(i) == SubSeq(hex, 6 * i - 5, 6 * i)
      count == Len(hex) \div 6
  IN IF \A i \in 1 .. count : IsHex(SubSeq(escape(i), 3, 6))
     THEN [thrown |-> FALSE,
           text |-> [i \in 1 .. count |->
                      ParseHex(SubSeq(escape(i), 3, 4)) * 256
                        + ParseHex(SubSeq(escape(i), 5, 6))]]
     ELSE [thrown |-> TRUE, text |-> <<>>]

\* The last four digits of "0000" and Integer.toBinaryString.
BinaryDigits(n) == [j \in 1 .. 4 |-> (n \div 2 ^ (4 - j)) % 2]

\* Four binary digits for every digit, here as numbers; null, here <<>>, for
\* an odd length.
hexString2binaryString(hexString) ==
  IF Len(hexString) % 2 # 0 THEN <<>>
  ELSE Join([i \in DOMAIN hexString |-> BinaryDigits(Digit(hexString[i]))])

-----------------------------------------------------------------------------
(* The inputs: all arrays and all Strings, one char or byte at a time.     *)

Init == bytes = <<>> /\ text = <<>>

AddByte(b) ==
  /\ text = <<>>
  /\ Len(bytes) < MaxBytes
  /\ bytes' = Append(bytes, b)
  /\ UNCHANGED text

AddUnit(u) ==
  /\ bytes = <<>>
  /\ Len(text) < MaxUnits
  /\ text' = Append(text, u)
  /\ UNCHANGED bytes

Next == (\E b \in Bytes : AddByte(b)) \/ (\E u \in Units : AddUnit(u))

Spec == Init /\ [][Next]_vars

-----------------------------------------------------------------------------
(* Properties.                                                             *)

\* The bytes are read back from their hexadecimal text, with and without the
\* separators, and when a zero in front of it is missing, for which
\* hexStr2Bytes makes up. The binary text of it shows the bits that getBit
\* gives, highest first.
HexRoundTrip ==
  LET hex == byte2HexStr(bytes)
  IN /\ hexStr2Bytes(hex) = bytes
     /\ hexStr2Bytes(NoSpaces(hex)) = bytes
     /\ hex # <<>> /\ Head(hex) = UpperDigit(0) => hexStr2Bytes(Tail(hex)) = bytes
     /\ hexString2binaryString(NoSpaces(hex)) =
          Join([k \in DOMAIN bytes |-> [j \in 1 .. 8 |-> getBit(bytes[k], 8 - j)]])

Ascii == \A i \in DOMAIN text : text[i] < 128

\* str2HexStr and hexStr2Str are inverse to each other only up to the
\* separators, which the one writes and the other takes for digits: a text of
\* two chars or more has to lose its spaces in between. str2HexStr writes
\* what byte2HexStr does. A digit of lower case, which neither writes but
\* hexStr2Bytes reads, is no digit to hexStr2Str: the byte comes out as
\* another one.
AsciiRoundTrip == Ascii =>
  LET hex == str2HexStr(text)
      lower == Join([i \in DOMAIN text |->
                 (IF text[i] < 16 THEN <<UpperDigit(0)>> ELSE <<>>) \o ToHexString(text[i])])
  IN /\ hexStr2Str(NoSpaces(hex)) = text
     /\ hexStr2Str(hex) = text <=> Len(text) <= 1
     /\ hex = byte2HexStr(text)
     /\ hexStr2Bytes(lower) = text
     /\ hexStr2Str(lower) = text <=> ToUpperCase(lower) = lower

\* The code units that are written with four digits.
Wide(u) == u \in 16 .. 128 \/ u >= 4096

\* The escapes of a text are read back as the text exactly if every code unit
\* has been written with four digits, which holds from 16 to 128 and from
\* 4096: every other one is lost at the end of a text, and anywhere else
\* makes unicodeToString throw.
UnicodeRoundTrip ==
  LET back == unicodeToString(strToUnicode(text))
      narrow == {i \in DOMAIN text : ~Wide(text[i])}
  IN /\ back = [thrown |-> FALSE, text |-> text] <=> narrow = {}
     /\ back.thrown <=> \E i \in narrow : i < Len(text)

\* Each bit of the check code is the parity of that bit of the bytes checked,
\* whatever their signs: a check code at the end makes the code of it all 0.
CheckCodeIsParity == \A n \in 1 .. Len(bytes) :
  LET code == getCheckCode(bytes, n)
  IN /\ \A i \in 0 .. 7 :
          getBit(code, i) = Cardinality({k \in 1 .. n : getBit(bytes[k], i) = 1}) % 2
     /\ getCheckCode(SubSeq(bytes, 1, n) \o <<code>>, n + 1) = 0
=============================================================================
