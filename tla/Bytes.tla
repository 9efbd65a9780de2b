------------------------------- MODULE Bytes -------------------------------
(***************************************************************************)
(* tools.c: numbers and strings read from a buffer.  A byte is 0..255, a   *)
(* buffer a sequence of them.  The build is little-endian with a signed    *)
(* char, as the comment at tools.c:35-38 has it.                           *)
(***************************************************************************)
EXTENDS Integers, Sequences

Byte == 0 .. 255

\* Mutant: a char is unsigned.
UnsignedChar(b) == b

\* A byte read through a char pointer.
SignedChar(b) == IF b >= 128 THEN b - 256 ELSE b

Uint2(b) == b[1] + 256 * b[2]

Uint3(b) == b[1] + 256 * b[2] + 65536 * b[3]

\* Mutant: the fourth byte is left zero for a negative number.
Int3NotExtended(b) == Uint3(b)

\* The fourth byte, which is not on the wire, is set by hand.
Int3(b) == IF Uint3(b) >= 8388608 THEN Uint3(b) - 16777216 ELSE Uint3(b)

Int4(b) == Uint3(b) + 16777216 * SignedChar(b[4])

Int8(b) ==
  b[1] + 256 * (b[2] + 256 * (b[3] + 256 * (b[4] +
    256 * (b[5] + 256 * (b[6] + 256 * (b[7] + 256 * SignedChar(b[8])))))))

\* ntohl of the word that read_uint3 fills leaves the first byte on top and
\* zero in the last: these are its upper 24 bits.
Swapped3(b) == 65536 * b[1] + 256 * b[2] + b[3]

\* ntohl of a whole word, taken as signed.
Swapped4(b) == 16777216 * SignedChar(b[1]) + 65536 * b[2] + 256 * b[3] + b[4]
-----------------------------------------------------------------------------
(* The n bytes in which MySQL writes a number (external). *)

LittleEndian(v, n) ==
  [i \in 1 .. n |-> (v \div (<<1, 256, 65536, 16777216>>)[i]) % 256]

BigEndian(v, n) ==
  [i \in 1 .. n |-> (v \div (<<1, 256, 65536, 16777216>>)[n + 1 - i]) % 256]
-----------------------------------------------------------------------------
(* Length-encoded numbers and strings. *)

\* As MySQL writes a number below 65536 (external).
LengthEncoded(n) == IF n < 251 THEN <<n>> ELSE <<252, n % 256, n \div 256>>

\* The first byte goes through a signed char into an int, which is therefore
\* never as large as the 251 that announces a longer form.
LengthEncodeNumber(b) ==
  LET tmp == SignedChar(b[1])
      longer == CASE tmp = 252 -> 2 [] tmp = 253 -> 3 [] tmp = 254 -> 8
                  [] OTHER -> tmp
  IN  IF tmp < 251 THEN [number |-> tmp, length |-> 1]
      ELSE [number |-> CASE longer = 2 -> Uint2(Tail(b)) [] longer = 3 -> Uint3(Tail(b))
                         [] OTHER -> Int4(Tail(b)),
            length |-> longer + 1]

\* malloc and memset are given a negative length: the program is killed.
Killed == [s |-> <<>>, length |-> -1]

\* Mutant: the prefix is copied as the first character.
LengthEncodeStringWithPrefix(b) ==
  LET prefix == LengthEncodeNumber(b)
  IN  [s |-> SubSeq(b, 1, prefix.number),
       length |-> prefix.length + prefix.number + 1]

\* The length returned counts a terminating zero that is not on the wire.
LengthEncodeString(b) ==
  LET prefix == LengthEncodeNumber(b)
  IN  IF prefix.number < 0 THEN Killed
      ELSE [s |-> SubSeq(b, prefix.length + 1, prefix.length + prefix.number),
            length |-> prefix.length + prefix.number + 1]
=============================================================================
