--------------------------- MODULE MCColumnValues ---------------------------
(* Columns for model checking ColumnValues: values at the edges of bytes, of *)
(* signs and of the fields of a date.                                        *)
EXTENDS ColumnValues

Integer(type, values) == {[type |-> type, meta |-> <<>>, value |-> v] : v \in values}

Edges(half) == {-half, -half + 1, -1, 0, 1, 127, 128, half - 1, half, 2 * half - 1}
SmallEdges == {-2147483647 - 1, -2147483647, -65536, -256, -1, 0, 255, 65535, 2147483647}

IntegerColumns ==
  Integer("TINY", {-128, -127, -10, -1, 0, 10, 127, 128, 255})
    \cup Integer("SHORT", Edges(32768) \cup {-135, 135})
    \cup Integer("INT24", Edges(8388608) \cup {-102400, 102400})
    \cup Integer("LONG", SmallEdges)
    \cup Integer("LONGLONG", SmallEdges \cup {-102400000, 102400000})
    \cup Integer("TIMESTAMP2", {0, 1, 255, 256, 65536, 16777216, 2147483647})

TemporalColumns ==
  {[type |-> "DATE", meta |-> <<>>, value |-> d] :
     d \in [year : {0, 1, 2017, 9999}, month : {0, 1, 7, 8, 12}, day : {0, 1, 15, 16, 31}]}
    \cup
  {[type |-> "DATETIME2", meta |-> <<0>>, value |-> d] :
     d \in [year : {0, 2017, 9999}, month : {0, 1, 12}, day : {0, 5, 31},
            hour : {0, 13, 15, 16, 23}, minute : {0, 25, 59}, second : {0, 46, 59}]}
    \cup
  {[type |-> type, meta |-> <<0>>, value |-> t] :
     type \in {"TIME", "TIME2"},
     t \in [sign : {1}, hour : {0, 1, 21, 255, 256, 838}, minute : {0, 8, 59},
            second : {0, 5, 59}]
             \cup [sign : {-1}, hour : {1, 838}, minute : {0, 59}, second : {0, 59}]}

DecimalColumn(precision, scale, negative, integral, fraction) ==
  [type |-> "NEWDECIMAL", meta |-> <<precision, scale>>,
   value |-> [negative |-> negative, integral |-> integral, fraction |-> fraction]]

\* 12396.2310, .0231, 0.5, whole numbers, full groups, and ten digits of
\* fraction.
DecimalColumns ==
  UNION {{DecimalColumn(9, 4, n, <<12396>>, <<2310>>),
          DecimalColumn(4, 4, n, <<>>, <<231>>),
          DecimalColumn(3, 1, n, <<0>>, <<5>>),
          DecimalColumn(5, 0, n, <<127>>, <<>>),
          DecimalColumn(9, 0, n, <<999999999>>, <<>>),
          DecimalColumn(18, 9, n, <<128>>, <<1>>),
          DecimalColumn(17, 3, n, <<99999, 255>>, <<999>>),
          DecimalColumn(12, 6, n, <<999999>>, <<32768>>),
          DecimalColumn(18, 18, n, <<>>, <<7, 500000000>>),
          DecimalColumn(12, 10, n, <<12>>, <<123456789, 1>>)} : n \in BOOLEAN}

Text(n) == [i \in 1 .. n |-> 64 + (i % 26)]

VarcharColumns ==
  {[type |-> "VARCHAR", meta |-> meta, value |-> Text(n)] :
     meta \in {<<255, 0>>, <<44, 1>>, <<88, 2>>, <<0, 3>>, <<0, 4>>, <<0, 16>>, <<136, 19>>,
                <<255, 255>>}, n \in {0, 1, 2, 127, 128, 200}}

\* Of an int that was 0, that was not, and that makes a length negative.
SomeGarbage == {<<0, 0, 0, 0>>, <<19, 3, 3, 0>>, <<3, 0, 0, 128>>, <<255, 255, 255, 127>>}

AllColumns == IntegerColumns \cup TemporalColumns \cup DecimalColumns \cup VarcharColumns
=============================================================================
