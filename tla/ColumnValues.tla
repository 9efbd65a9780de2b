---------------------------- MODULE ColumnValues ----------------------------
(***************************************************************************)
(* get_column_val (rows_event.c) with the readers of binary_type.c: a      *)
(* value the master stored, and what the program takes the bytes for.      *)
(*                                                                         *)
(* The bytes of a value are those MySQL writes to the log (external).      *)
(* Where a column is read from is BinlogEvents' subject: here the reader   *)
(* is given the first byte of the value.  FLOAT and DOUBLE are copied bit  *)
(* by bit and have no definition.                                          *)
(***************************************************************************)
EXTENDS Decimal

CONSTANTS
  Values,    \* columns of a row: [type, meta, value]
  Garbage    \* the four bytes an uninitialised int may hold, or what lies beyond
             \* a value

IntegerTypes == {"TINY", "SHORT", "INT24", "LONG", "LONGLONG", "TIMESTAMP2"}
TemporalTypes == {"DATE", "TIME", "TIME2", "DATETIME2"}

Years == 0 .. 9999
Months == 0 .. 12
Days == 0 .. 31
HoursOfDay == 0 .. 23
HoursOfTime == 0 .. 838
Sixtieths == 0 .. 59

Dates == [year : Years, month : Months, day : Days]
Datetimes == [year : Years, month : Months, day : Days,
              hour : HoursOfDay, minute : Sixtieths, second : Sixtieths]
Times == [sign : {1, -1}, hour : HoursOfTime, minute : Sixtieths, second : Sixtieths]

\* Of a word that holds max at most, and -max - 1 at least.
Signed(max) == -max - 1 .. max
Unsigned(max) == 0 .. max
Int24 == Signed(8388607)
Int32 == Signed(2147483647)
EitherSign(max) == -max - 1 .. 2 * max + 1

\* A column may be UNSIGNED, which the log does not say.  Of 64 bits only the
\* numbers that fit 32 are modelled.
Domain(type) ==
  CASE type = "TINY" -> EitherSign(127)
    [] type = "SHORT" -> EitherSign(32767)
    [] type = "INT24" -> EitherSign(8388607)
    [] type \in {"LONG", "LONGLONG"} -> Signed(2147483647)
    [] type = "TIMESTAMP2" -> Unsigned(2147483647)
    [] type = "DATE" -> Dates
    [] type \in {"TIME", "TIME2"} -> Times
    [] type = "DATETIME2" -> Datetimes

ASSUME ValuesAssumption ==
  /\ Garbage \subseteq [1 .. 4 -> Byte]
  /\ \A c \in Values :
       \/ c.type \in IntegerTypes \cup TemporalTypes /\ c.value \in Domain(c.type)
       \/ c.type = "NEWDECIMAL" /\ c.meta \in (1 .. 36) \X (0 .. 18)
            /\ c.meta[1] - c.meta[2] \in 0 .. 18
            /\ c.value \in DecimalValues(c.meta[1], c.meta[2])
       \/ c.type = "VARCHAR" /\ c.meta \in Byte \X Byte /\ c.value \in Seq(Byte)
            /\ Len(c.value) <= c.meta[1] + 256 * c.meta[2]

VARIABLES
  column,  \* the column the master stored last
  wire,    \* its bytes
  field,   \* what was read of it: logged, or kept in field_val
  pc       \* "stored": nothing read of it yet; "read"; "crashed"

vars == <<column, wire, field, pc>>
-----------------------------------------------------------------------------
(* The bytes of a value (external). *)

StoredLonglong(v) ==
  LittleEndian(v, 4) \o [i \in 1 .. 4 |-> IF v < 0 THEN 255 ELSE 0]

StoredDate(d) == LittleEndian(512 * d.year + 32 * d.month + d.day, 3)

StoredTime(t) == LittleEndian(t.sign * (10000 * t.hour + 100 * t.minute + t.second), 3)

\* The top bit is 1 unless the time is negative, when all is complemented.
StoredTime2(t) ==
  BigEndian(8388608 + t.sign * (4096 * t.hour + 64 * t.minute + t.second), 3)

\* 1 bit, 17 of 13 * year + month, then 5, 5, 6 and 6.
StoredDatetime2(d) ==
  BigEndian(8388608 + 64 * (13 * d.year + d.month) + 2 * d.day + d.hour \div 16, 3)
    \o BigEndian(4096 * (d.hour % 16) + 64 * d.minute + d.second, 2)

StoredVarchar(s, meta) == LittleEndian(Len(s), IF meta[2] = 0 THEN 1 ELSE 2) \o s

Stored(c) ==
  CASE c.type = "TINY" -> LittleEndian(c.value, 1)
    [] c.type = "SHORT" -> LittleEndian(c.value, 2)
    [] c.type = "INT24" -> LittleEndian(c.value, 3)
    [] c.type = "LONG" -> LittleEndian(c.value, 4)
    [] c.type = "LONGLONG" -> StoredLonglong(c.value)
    [] c.type = "TIMESTAMP2" -> BigEndian(c.value, 4)
    [] c.type = "DATE" -> StoredDate(c.value)
    [] c.type = "TIME" -> StoredTime(c.value)
    [] c.type = "TIME2" -> StoredTime2(c.value)
    [] c.type = "DATETIME2" -> StoredDatetime2(c.value)
    [] c.type = "NEWDECIMAL" -> StoredDecimal(c.value, c.meta[1], c.meta[2])
    [] c.type = "VARCHAR" -> StoredVarchar(c.value, c.meta)
-----------------------------------------------------------------------------
(* The readers: what they log. *)

ReadTiny(b) == SignedChar(b[1])

\* Unsigned, and what it returns is 0.
ReadShort(b) == Uint2(b)

\* The masks of the C code, each followed by its shift.
ReadDate(b) ==
  [year |-> Uint3(b) \div 512, month |-> (Uint3(b) \div 32) % 16, day |-> Uint3(b) % 32]

\* The three bytes are swapped, though they are little-endian, and end up in
\* the upper part of the word: tmp is 256 * Swapped3(b).
ReadTime(b) ==
  LET tenThousands == (16 * Swapped3(b)) \div 625
      below == 16 * ((16 * Swapped3(b)) % 625)
  IN  [hour |-> tenThousands % 256, minute |-> below \div 100,
       second |-> below % 100]

\* Mutant: the hour is taken from one bit too low.
ReadTime2HourOff(b) ==
  LET tmp == Swapped3(b)
  IN  [sign |-> IF b[1] >= 128 THEN 1 ELSE -1,
       hour |-> (tmp \div 2048) % 256, minute |-> (tmp \div 64) % 64, second |-> tmp % 64]

\* hour is a uint8_t: of the twelve bits taken, eight are kept.
ReadTime2(b) ==
  LET tmp == Swapped3(b)
  IN  [sign |-> IF b[1] >= 128 THEN 1 ELSE -1,
       hour |-> (tmp \div 4096) % 256, minute |-> (tmp \div 64) % 64, second |-> tmp % 64]

\* tmp & 0x00C0FF7F: without the sign, and without what follows the month.
YearAndMonth(b) == 1024 * (b[1] % 128) + 4 * b[2] + b[3] \div 64

ReadDatetime2(b) ==
  LET low == 65536 * b[3] + 256 * b[4] + b[5]
  IN  [year |-> YearAndMonth(b) \div 13, month |-> YearAndMonth(b) % 13,
       day |-> (b[3] \div 2) % 32,
       hour |-> (low \div 4096) % 32, minute |-> (low \div 64) % 64, second |-> low % 64]

SizeOfVarchar == 16
BUF_SIZE == 4096

\* The high byte of the column's length is taken for the length of the prefix,
\* and so many bytes are copied over an int: if they are fewer than four, the
\* others stay what they were.
LengthCopied(b, prefix, garbage) ==
  Int4([i \in 1 .. 4 |-> IF i <= prefix /\ i <= Len(b) THEN b[i] ELSE garbage[i]])

\* More than a bin_varchar holds goes over the other variables, the length of
\* the prefix among them.
PrefixLeft(prefix, garbage) == IF prefix > SizeOfVarchar THEN garbage[1] ELSE prefix

\* A negative length, or one of 2 GB, kills the program.  Of the characters those
\* the value has are given: what follows it in the event is not modelled.
ReadVarchar(b, meta, garbage) ==
  LET prefix == PrefixLeft(meta[2], garbage)
      len == LengthCopied(b, meta[2], garbage)
  IN  IF meta[2] = 0 THEN LengthEncodeString(b)
      ELSE IF len < 0 \/ len > 2147483647 - prefix THEN Killed
      ELSE [s |-> SubSeq(b, prefix + 1, Min({prefix + len, Len(b)})),
            length |-> prefix + len]

\* It may also die of what it wrote over the stack, or of reading far beyond the
\* buffer the event is in.
MayKill(b, meta, garbage) ==
  \/ ReadVarchar(b, meta, garbage) = Killed
  \/ meta[2] > SizeOfVarchar
  \/ meta[2] > 0 /\ LengthCopied(b, meta[2], garbage) > BUF_SIZE

Decoded(c, b, garbage) ==
  CASE c.type = "TINY" -> ReadTiny(b)
    [] c.type = "SHORT" -> ReadShort(b)
    [] c.type = "INT24" -> Int3(b)
    [] c.type = "LONG" -> Int4(b)
    [] c.type = "LONGLONG" -> Int8(b)
    [] c.type = "TIMESTAMP2" -> Swapped4(b)
    [] c.type = "DATE" -> ReadDate(b)
    [] c.type = "TIME" -> ReadTime(b)
    [] c.type = "TIME2" -> ReadTime2(b)
    [] c.type = "DATETIME2" -> ReadDatetime2(b)
    [] c.type = "NEWDECIMAL" -> DecimalNumber(b, c.meta[1], c.meta[2], garbage[1])
    [] c.type = "VARCHAR" -> ReadVarchar(b, c.meta, garbage)
-----------------------------------------------------------------------------
NoColumn == [type |-> "none"]

Init ==
  /\ column = NoColumn
  /\ wire = <<>>
  /\ field = 0
  /\ pc = "read"

\* The master (external) writes the next column of some row.
Store(c) ==
  /\ pc = "read"
  /\ column' = c
  /\ wire' = Stored(c)
  /\ field' = 0
  /\ pc' = "stored"

GetColumnVal ==
  /\ pc = "stored"
  /\ \E g \in Garbage :
       \/ /\ column.type = "VARCHAR" /\ MayKill(wire, column.meta, g)
          /\ pc' = "crashed"
          /\ UNCHANGED field
       \/ /\ column.type = "VARCHAR" => Decoded(column, wire, g) # Killed
          /\ pc' = "read"
          /\ field' = Decoded(column, wire, g)
  /\ UNCHANGED <<column, wire>>

\* The program is gone.
Crashed == pc = "crashed" /\ UNCHANGED vars

Next == (\E c \in Values : Store(c)) \/ GetColumnVal \/ Crashed

Spec == Init /\ [][Next]_vars
-----------------------------------------------------------------------------
(* Properties *)

\* What the type of each reader's result holds.
Uint16 == Unsigned(65535)

DateFields == [year : Uint16, month : Byte, day : Byte]
TimeFields == [hour : Byte, minute : Byte, second : Byte]
Time2Fields == [sign : {1, -1}, hour : Byte, minute : Byte, second : Byte]
DatetimeFields == [year : Uint16, month : Byte, day : Byte,
                   hour : Byte, minute : Byte, second : Byte]
DecimalFields == [negative : BOOLEAN, zeros : Byte,
                  integral : Seq(Int32), fractional : Seq(Int32)]
VarcharFields == [s : Seq(Byte), length : Int32]

FieldOf(type) ==
  CASE type = "TINY" -> Signed(127)
    [] type = "SHORT" -> Uint16
    [] type = "INT24" -> Int24
    [] type \in {"LONG", "LONGLONG", "TIMESTAMP2"} -> Int32
    [] type = "DATE" -> DateFields
    [] type = "TIME" -> TimeFields
    [] type = "TIME2" -> Time2Fields
    [] type = "DATETIME2" -> DatetimeFields
    [] type = "NEWDECIMAL" -> DecimalFields
    [] type = "VARCHAR" -> VarcharFields

\* A field fits the type it is read into (binary_type.h:38-71; a BIGINT, of
\* which only 32 bits are modelled, fits those, and each coefficient of a
\* DECIMAL the int it is gathered in), the bytes on the wire are bytes, and
\* only reading a string crashes.
TypeOK ==
  /\ column \in Values \cup {NoColumn}
  /\ wire \in Seq(Byte)
  /\ pc \in {"stored", "read", "crashed"}
  /\ IF pc = "read" /\ column # NoColumn THEN field \in FieldOf(column.type) ELSE field = 0
  /\ pc = "crashed" => column.type = "VARCHAR"

ReadOf(types) == pc = "read" /\ column.type \in types

\* The values of a column that is not UNSIGNED.
SignedRange(type) ==
  CASE type = "TINY" -> Signed(127)
    [] type = "SHORT" -> Signed(32767)
    [] type = "INT24" -> Signed(8388607)
    [] OTHER -> Domain(type)

\* An integer of a signed column is logged as the value it has: the output
\* test/instructions.md:38-42 expects, SHORT INT: -135 for one.
IntegersLogged ==
  ReadOf(IntegerTypes) /\ column.value \in SignedRange(column.type) => field = column.value

\* So it is for every type but SMALLINT, which is read as if it were UNSIGNED
\* and is right if it is; the others are right only if they are not
\* (binary_type.c:153-213).
IntegersLoggedWithTheirSign ==
  /\ ReadOf(IntegerTypes)
  /\ column.value \in IF column.type = "SHORT" THEN Unsigned(65535)
                      ELSE SignedRange(column.type)
  => field = column.value

\* A date, a date with a time, and a time of day up to 255 hours are logged as
\* they were stored (binary_type.c:42-149; the comment at 110-112 shows one).
\* A longer time is not, nor is a negative one, and of the old TIME format only
\* midnight is: three ways to fall short of "hour (0-838)" (47).
TemporalsLogged ==
  ReadOf(TemporalTypes) =>
    LET t == column.value
    IN  CASE column.type = "TIME2" -> t.sign = 1 /\ t.hour < 256 => field = t
          [] column.type = "TIME" ->
               t.hour = 0 /\ t.minute = 0 /\ t.second = 0
                 => field = [hour |-> 0, minute |-> 0, second |-> 0]
          [] OTHER -> field = t

\* One that takes fewer than four bytes.
HasShortGroup(digits) == digits % DIG_PER_DEC1 \in 1 .. 6

\* A DECIMAL's two numbers are the digits before and after the point, if the
\* fraction has at most nine digits or only full groups (a longer one is cut
\* where an integral part would be), and if a negative one has a short group
\* in both parts, for else the mask counts for a group (decimal.c:32-50).
DecimalsDecoded ==
  ReadOf({"NEWDECIMAL"}) =>
    LET scale == column.meta[2]
        whole == column.meta[1] - scale
    IN  /\ scale <= DIG_PER_DEC1 \/ scale % DIG_PER_DEC1 = 0
        /\ column.value.negative => HasShortGroup(whole) /\ HasShortGroup(scale)
        => /\ field.negative = column.value.negative
           /\ field.integral = Number(column.value.integral)
           /\ field.fractional = Number(column.value.fraction)

\* A string is read whole if its length is below 128 and its column is shorter
\* than 256 characters, and reading it kills nothing (tools.c:98-143).  Of a
\* column of 512 to 767 characters, whose length's high byte happens to be the
\* size of the prefix, it is read whole, if it is read at all, with more behind
\* it if the rest of the int was not 0 (binary_type.c:249-257).
StringsRead ==
  column.type = "VARCHAR" =>
    /\ column.meta[2] = 0 /\ Len(column.value) < 128 =>
         pc # "crashed" /\ (pc = "read" => field.s = column.value)
    /\ column.meta[2] = 2 /\ pc = "read" =>
         field.s = column.value /\ field.length >= Len(column.value) + 2
=============================================================================
