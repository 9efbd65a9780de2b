--------------------------- MODULE MCBinlogEvents ---------------------------
(* Tables for model checking BinlogEvents. *)
EXTENDS BinlogEvents

Column(type, meta) == [type |-> type, meta |-> meta, null |-> FALSE]
Nullable(type, meta) == [type |-> type, meta |-> meta, null |-> TRUE]

\* The types the rows decoder knows, in two tables, each with a DECIMAL whose
\* metadata follows that of other columns; the bitmaps of the second take two
\* bytes.
KnownTypes ==
  << <<Column("LONG", <<>>), Column("DOUBLE", <<8>>), Column("TIMESTAMP2", <<0>>),
       Column("NEWDECIMAL", <<9, 4>>), Column("SHORT", <<>>)>>,
     <<Column("DATETIME2", <<0>>), Column("INT24", <<>>), Column("DATE", <<>>),
       Column("FLOAT", <<4>>), Column("TIME2", <<0>>), Column("NEWDECIMAL", <<20, 10>>),
       Column("TINY", <<>>), Column("LONGLONG", <<>>), Column("TIME", <<>>)>> >>

\* One table has more columns than the other.
WideAndNarrow ==
  << <<Column("LONG", <<>>), Column("TINY", <<>>)>>,
     <<Column("LONGLONG", <<>>)>> >>

NullableTiny == << <<Column("LONG", <<>>), Nullable("TINY", <<>>)>> >>

\* Columns the decoder misreads or does not know.
AnyTypes ==
  << <<Column("VARCHAR", <<2, 0>>), Column("VARCHAR", <<1, 0>>)>>,
     <<Column("YEAR", <<>>), Nullable("TIME2", <<3>>)>> >>

\* As many columns as a signed char reads for -14, whose bitmap rounds to none.
NoBitmap == << [j \in 1 .. 242 |-> Column("TINY", <<>>)] >>

\* One column more than a signed char counts, and too many metadata.
TooWideTables ==
  << [j \in 1 .. 128 |-> Column("TINY", <<>>)],
     [j \in 1 .. 64 |-> Column("NEWDECIMAL", <<9, 4>>)] >> \o NoBitmap

AllTables == KnownTypes \o AnyTypes \o TooWideTables
=============================================================================
