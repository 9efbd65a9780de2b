---------------------------- MODULE BinlogEvents ----------------------------
(***************************************************************************)
(* parse_binlog_events (binlog.c) and the rows decoder (rows_event.c): the *)
(* static state that one event leaves for the next (the header lengths of  *)
(* the log's format, the one table map kept, the parity of update_row) and *)
(* the walk of a cursor through the row images of an event.                *)
(*                                                                         *)
(* The master (external) writes a legal log: a format description first,   *)
(* then statements, each of them table maps followed by rows events; the   *)
(* position the dump starts at may lie within a statement.  The loop of    *)
(* BinlogStream hands the events over one at a time and in order, so the   *)
(* next event is chosen when the decoder is ready for it.                  *)
(*                                                                         *)
(* Values are left out: an image is its columns that are NULL, and what is *)
(* followed is where on the wire each field is taken from.  Events that    *)
(* are only logged, or decoded into a variable nothing reads again (QUERY, *)
(* XID, GTID and the others), change no state and have no action.          *)
(***************************************************************************)
EXTENDS Decimal

CONSTANTS
  Columns,     \* the master's tables: Columns[t] is a sequence of columns
  Kinds,       \* the types of rows event the master writes
  Formats,     \* post-header lengths the master's logs may give TABLE_MAP
  MaxTables,   \* bound: tables in one statement
  MaxRows      \* bound: rows in one event

Tables == DOMAIN Columns

MaxColumns == 4096   \* of a table in MySQL

UpdateKinds == {"UPDATE_ROWS_EVENTv1", "UPDATE_ROWS_EVENTv2"}
KindsV1 == {"WRITE_ROWS_EVENTv1", "UPDATE_ROWS_EVENTv1", "DELETE_ROWS_EVENTv1"}
KindsV2 == {"WRITE_ROWS_EVENTv2", "UPDATE_ROWS_EVENTv2", "DELETE_ROWS_EVENTv2"}

ASSUME EventsAssumption ==
  /\ Columns \in Seq(Seq([type : STRING, meta : Seq(0 .. 255), null : BOOLEAN]))
  /\ \A t \in Tables : Len(Columns[t]) \in 1 .. MaxColumns
  /\ Kinds \subseteq KindsV1 \cup KindsV2
  /\ Formats \subseteq {6, 8}
  /\ MaxTables \in Nat \ {0}
  /\ MaxRows \in Nat \ {0}

VARIABLES
  logFormat,  \* master: the format of the log being sent, 0 until described
  statement,  \* master: the tables mapped by the open statement, and whether
              \* rows were written for it
  post,       \* event_types_post_header_length as set by the format, 0: NULL
  tableMap,   \* table_map_ev: the table of the last TABLE_MAP_EVENT, NoMap
              \* before the first, Garbled if it was not read as it was written
  updateRow,  \* parity of update_row in fetch_a_row
  ev,         \* the rows event last handed over: type, table, NULLs of images
  count,      \* column_count as rows_event read it
  cursor,     \* in the body of the rows event
  fetched,    \* calls of fetch_a_row for this event: where, and if nested;
              \* the first MaxFetched of them
  nested,     \* fetch_a_row is about to call itself for the new values
  pc          \* "event": ready for the next event; "rows": in rows_event;
              \* "crashed": killed by SIGSEGV

masterVars == <<logFormat, statement>>
decoderVars == <<post, tableMap>>
rowsVars == <<updateRow, ev, count, cursor, fetched, nested>>
vars == <<masterVars, decoderVars, rowsVars, pc>>

NoStatement == [maps |-> <<>>, begun |-> FALSE]
NoRows == [kind |-> "none", table |-> 0, nulls |-> <<>>]

NoMap == 0
Garbled == -1

Init ==
  /\ logFormat = 0
  /\ \/ statement = NoStatement
     \/ \E t \in Tables, b \in BOOLEAN : statement = [maps |-> <<t>>, begun |-> b]
  /\ post = 0
  /\ tableMap = NoMap
  /\ updateRow = 1
  /\ ev = NoRows
  /\ count = 0
  /\ cursor = 0
  /\ fetched = <<>>
  /\ nested = FALSE
  /\ pc = "event"
-----------------------------------------------------------------------------
(* Widths in the log (external) and as the decoder knows them. *)

FractionBytes(digits) == (digits + 1) \div 2

WholeBytes ==
  [TINY |-> 1, YEAR |-> 1, SHORT |-> 2, INT24 |-> 3, LONG |-> 4, LONGLONG |-> 8,
   FLOAT |-> 4, DOUBLE |-> 8, DATE |-> 3, TIME |-> 3, TIMESTAMP2 |-> 4,
   DATETIME2 |-> 5, TIME2 |-> 3]

\* The types the master's tables may have columns of.
MeasuredTypes == DOMAIN WholeBytes \cup {"NEWDECIMAL", "VARCHAR"}

\* What a value that is not NULL takes in the log; a string fills its column.
WireWidth(c) ==
  CASE c.type = "NEWDECIMAL" -> DecimalBytes(c.meta)
    [] c.type \in {"TIMESTAMP2", "DATETIME2", "TIME2"} ->
         WholeBytes[c.type] + FractionBytes(c.meta[1])
    [] c.type = "VARCHAR" -> 1 + c.meta[1]
    [] OTHER -> WholeBytes[c.type]

\* get_column_meta_def: how long the metadata of a column is taken to be.
MetaLen(type) ==
  CASE type \in {"STRING", "VAR_STRING", "VARCHAR", "DECIMAL", "NEWDECIMAL",
                 "ENUM", "SET"} -> 2
    [] type \in {"BLOB", "DOUBLE", "FLOAT", "TIME2", "DATETIME2",
                 "TIMESTAMP2"} -> 1
    [] OTHER -> 0

\* The master writes as much metadata of each column as its type has, and a
\* DECIMAL has no more digits after the point than it has digits.
ASSUME ColumnsAssumption ==
  \A t \in Tables : \A j \in DOMAIN Columns[t] :
    LET c == Columns[t][j]
    IN  /\ c.type \in MeasuredTypes
        /\ Len(c.meta) = MetaLen(c.type)
        /\ c.type = "NEWDECIMAL" => c.meta[2] <= c.meta[1]

MetaBytes(t) == FlattenSeq([j \in DOMAIN Columns[t] |-> Columns[t][j].meta])

ColumnMeta(t, i) ==
  LET at == SumFunction([j \in 1 .. i - 1 |-> MetaLen(Columns[t][j].type)])
  IN  SubSeq(MetaBytes(t), at + 1, at + 2)

\* What get_column_val advances by.  The types it says "Not support yet" for,
\* and VARCHAR, whose reader leaves the cursor alone, do not advance it.
CodeWidth(t, i) ==
  LET type == Columns[t][i].type
  IN  CASE type = "NEWDECIMAL" -> DecimalBytes(ColumnMeta(t, i))
        [] type \in {"SHORT", "YEAR"} -> 2
        [] type \in DOMAIN WholeBytes \ {"SHORT", "YEAR"} -> WholeBytes[type]
        [] OTHER -> 0

\* All of the widths, added up sixteen columns at a time: a sum recurs once for
\* each term, which is too deep for TLC where there are hundreds of columns.
TotalWidth(widths) ==
  LET InGroup(g) == {i \in DOMAIN widths : i \div 16 = g}
      groups == {i \div 16 : i \in DOMAIN widths}
  IN  SumFunction([g \in groups |-> SumFunction([i \in InGroup(g) |-> widths[i]])])

MaxWidth == 8   \* bound: what a column taken from beyond the table map advances

\* Mutant: the last, partial byte of the bitmap is forgotten.
BitmapBytesRoundedDown(columns) == columns \div 8

\* (columns + 7) / 8 of an int, which C rounds towards 0.
BitmapBytes(columns) ==
  IF columns < -7 THEN -((-columns - 7) \div 8) ELSE (columns + 7) \div 8

KnownColumns ==
  IF tableMap \in Tables THEN (1 .. count) \cap DOMAIN Columns[tableMap] ELSE {}

UnknownColumns == Cardinality((1 .. count) \ KnownColumns)

\* fetch_a_row reads all of column_count columns, NULL or not.  Those past the
\* end of the table map kept are whatever the memory there holds.
SizesFetched ==
  LET size == BitmapBytes(count)
                + TotalWidth([i \in KnownColumns |-> CodeWidth(tableMap, i)])
  IN  {size + beyond : beyond \in 0 .. MaxWidth * UnknownColumns}
-----------------------------------------------------------------------------
(* A rows event as the master lays it out (external). *)

TableIdBytes(format) == IF format = 6 THEN 4 ELSE 6

\* Where column_count is: after the table id, the flags and, since v2, the
\* extra data, which is at least its own two bytes of length.
CountAt(kind) == TableIdBytes(logFormat) + 2 + (IF kind \in KindsV2 THEN 2 ELSE 0)

\* An update has two images of each row, what was there and what is there now.
ImagesOfRow(kind) == IF kind \in UpdateKinds THEN 2 ELSE 1

NullBytes(t) == (Len(Columns[t]) + 7) \div 8

ImageSize(e, k) ==
  LET present == DOMAIN Columns[e.table] \ e.nulls[k]
  IN  NullBytes(e.table)
        + TotalWidth([i \in present |-> WireWidth(Columns[e.table][i])])

ImageStart(e, k) ==
  CountAt(e.kind) + Len(LengthEncoded(Len(Columns[e.table])))
    + NullBytes(e.table) * ImagesOfRow(e.kind)
    + SumFunction([j \in 1 .. k - 1 |-> ImageSize(e, j)])

\* event_size less the 19 bytes of the event header.
BodySize(e) == ImageStart(e, Len(e.nulls) + 1)

NullSets(t) == SUBSET {i \in DOMAIN Columns[t] : Columns[t][i].null}

RowsEvents(t) ==
  {[kind |-> kind, table |-> t, nulls |-> nulls] :
     kind \in Kinds,
     nulls \in UNION {[1 .. n -> NullSets(t)] : n \in 1 .. 2 * MaxRows}}
-----------------------------------------------------------------------------
(* Events that set the state the rows decoder depends on. *)

\* The log ends, the next one begins with a format description.  What
\* rotate_event decodes, position and file, is not used for anything.
HandleRotate ==
  /\ pc = "event"
  /\ statement = NoStatement
  /\ logFormat # 0
  /\ logFormat' = 0
  /\ UNCHANGED <<statement, decoderVars, rowsVars, pc>>

\* Mutant: the array is kept if there is one, as realloc would leave it.
FirstFormatKept(format) == IF post = 0 THEN format ELSE post

\* Mutant: the array is indexed by the event type, not the type less one.
LengthsOneOff(format) == 26

PostHeaderLengths(format) == format

HandleFormatDescription(format) ==
  /\ pc = "event"
  /\ logFormat = 0
  /\ logFormat' = format
  /\ post' = PostHeaderLengths(format)
  /\ UNCHANGED <<statement, tableMap, rowsVars, pc>>

\* get_post_header_length, -1 before the first format description.
PostHeaderLength(kind) ==
  IF post = 0 THEN -1
  ELSE IF kind \in KindsV2 THEN 10 ELSE post

IdBytesRead(kind) == IF PostHeaderLength(kind) = 6 THEN 4 ELSE 6

\* Mutant: a table that is known keeps its map.
FirstMapKept(t) == IF tableMap = NoMap THEN t ELSE tableMap

MapKept(t) == t

\* A number of columns or bytes from 128 on is read as a negative one.
NumberRead(n) == LengthEncodeNumber(LengthEncoded(n)).number

FitsInAChar(n) == NumberRead(n) >= 0

\* As a size, a negative number is more than there is: malloc fails, and the
\* memcpy or memset after it is killed.
TooWide(t) == ~FitsInAChar(Len(Columns[t])) \/ ~FitsInAChar(Len(MetaBytes(t)))

\* table_map_ev is one static variable: the last map replaces the others.
\* An id of the wrong width would leave every field garbled.
HandleTableMap(t) ==
  /\ pc = "event"
  /\ logFormat # 0
  /\ ~statement.begun
  /\ Len(statement.maps) < MaxTables
  /\ t \notin Range(statement.maps)
  /\ statement' = [statement EXCEPT !.maps = Append(@, t)]
  /\ tableMap' = IF IdBytesRead("TABLE_MAP_EVENT") = TableIdBytes(logFormat)
                 THEN MapKept(t) ELSE Garbled
  /\ pc' = IF TooWide(t) THEN "crashed" ELSE pc
  /\ UNCHANGED <<logFormat, post, rowsVars>>
-----------------------------------------------------------------------------
(* rows_event *)

\* get_length_encode_number, where the cursor is after table id and flags: on
\* the count, on the length of the extra data, which is 2, or on other bytes.
CountsRead(e) ==
  LET at == IdBytesRead(e.kind) + 2
  IN  IF at = CountAt(e.kind) THEN {NumberRead(Len(Columns[e.table]))}
      ELSE IF at = CountAt(e.kind) - 2 THEN {2}
      ELSE -128 .. 127

\* Mutant: the bitmap of the columns of the new values is not read.
OneBitmapRead(kind) == 1

\* There is a second bitmap for an update, but only of v1.
BitmapsRead(kind) == IF kind = "UPDATE_ROWS_EVENTv1" THEN 2 ELSE 1

\* A bitmap of a negative size kills the program as a table map does; but one of
\* -14 to -1 columns has no bytes at all, and the event is gone on with.
HandleRows(e, last) ==
  /\ pc = "event"
  /\ logFormat # 0
  /\ e.table \in Range(statement.maps)
  /\ e.kind \in KindsV2 => logFormat = 8
  /\ Len(e.nulls) % ImagesOfRow(e.kind) = 0
  /\ Len(e.nulls) <= MaxRows * ImagesOfRow(e.kind)
  /\ statement' = IF last THEN NoStatement ELSE [statement EXCEPT !.begun = TRUE]
  /\ ev' = e
  /\ \E n \in CountsRead(e) :
       /\ count' = n
       /\ IF BitmapBytes(n) >= 0
          THEN /\ cursor' = IdBytesRead(e.kind) + 3 + BitmapBytes(n) * BitmapsRead(e.kind)
               /\ pc' = "rows"
          ELSE cursor' = 0 /\ pc' = "crashed"
  /\ fetched' = <<>>
  /\ nested' = FALSE
  /\ UNCHANGED <<logFormat, decoderVars, updateRow>>

\* Mutant: any event nests on every other call.
NestsForAnyEvent(kind, parity) == parity = 0

\* Mutant: the calls that nest are the odd ones.
NestsAtOddCalls(kind, parity) == kind = "UPDATE_ROWS_EVENTv1" /\ parity = 1

\* Mutant: only what is left of the event is taken for new values.
NestsWithinTheEvent(kind, parity) ==
  kind = "UPDATE_ROWS_EVENTv1" /\ parity = 0 /\ cursor' < BodySize(ev)

Nests(kind, parity) == kind = "UPDATE_ROWS_EVENTv1" /\ parity = 0

MaxFetched == 2 * MaxRows + 2   \* bound: the calls kept in fetched

MoreToFetch == nested \/ cursor < BodySize(ev)

\* One call of fetch_a_row: from the while loop of rows_event, or from itself
\* for the new values, whatever is left of the event.  It looks for no column
\* if their count is negative, and the cursor may then stay where it is.
FetchRow ==
  /\ pc = "rows"
  /\ MoreToFetch
  /\ tableMap # NoMap \/ count <= 0
  /\ fetched' = IF Len(fetched) = MaxFetched THEN fetched
                ELSE Append(fetched, [at |-> cursor, nested |-> nested])
  /\ \E size \in SizesFetched : cursor' = cursor + size
  /\ updateRow' = (updateRow + 1) % 2
  /\ nested' = Nests(ev.kind, updateRow')
  /\ UNCHANGED <<masterVars, decoderVars, ev, count, pc>>

\* Before the first table map the column types are behind a null pointer.  A
\* column past the end of the table map kept may look like a DECIMAL, for
\* which get_column_meta_def has no metadata but a null pointer; and the length
\* of a VARCHAR is a signed byte from wherever the cursor is.
ReadsWildly ==
  \/ UnknownColumns > 0
  \/ \E i \in KnownColumns : Columns[tableMap][i].type = "VARCHAR"

FetchCrashes ==
  /\ pc = "rows"
  /\ MoreToFetch
  /\ ReadsWildly
  /\ pc' = "crashed"
  /\ UNCHANGED <<masterVars, decoderVars, rowsVars>>

\* Of rows_event's own variables nothing is used by the next event.
RowsDone ==
  /\ pc = "rows"
  /\ ~MoreToFetch
  /\ pc' = "event"
  /\ ev' = NoRows /\ count' = 0 /\ cursor' = 0 /\ fetched' = <<>>
  /\ UNCHANGED <<masterVars, decoderVars, updateRow, nested>>

\* The program is gone.
Crashed == pc = "crashed" /\ UNCHANGED vars
-----------------------------------------------------------------------------
Next ==
  \/ HandleRotate
  \/ \E format \in Formats : HandleFormatDescription(format)
  \/ \E t \in Tables : HandleTableMap(t)
  \/ \E t \in Tables : \E e \in RowsEvents(t), last \in BOOLEAN : HandleRows(e, last)
  \/ FetchRow
  \/ FetchCrashes
  \/ RowsDone
  \/ Crashed

Spec == Init /\ [][Next]_vars

\* parse_binlog_events runs to its end before the stream loop goes on.
FairSpec == Spec /\ WF_vars(FetchRow \/ FetchCrashes \/ RowsDone)
-----------------------------------------------------------------------------
(* Properties *)

\* Every variable holds a value of its kind.
TypeOK ==
  /\ logFormat \in Formats \cup {0}
  /\ statement \in [maps : Seq(Tables), begun : BOOLEAN]
  /\ post \in Formats \cup {0}
  /\ tableMap \in Tables \cup {NoMap, Garbled}
  /\ updateRow \in {0, 1}
  /\ ev = NoRows \/ \E t \in Tables : ev \in RowsEvents(t)
  /\ count \in -128 .. 127
  /\ cursor \in Nat
  /\ fetched \in Seq([at : Nat, nested : BOOLEAN])
  /\ nested \in BOOLEAN
  /\ pc \in {"event", "rows", "crashed"}

\* The rows of a v1 event are read as the columns of the event's own table, all
\* of them, if a signed char counts them: the comment at rows_event.c:179,
\* "value of each field as defined in table-map", where the map used is the
\* last one (binlog.c:295).
RowsReadWithTheirMap ==
  /\ pc = "rows" /\ ev.kind \in KindsV1 /\ FitsInAChar(Len(Columns[ev.table]))
  /\ fetched # <<>>
  =>
    tableMap = ev.table /\ count = Len(Columns[ev.table])

\* The n-th call of fetch_a_row for an event starts where the event's n-th
\* image does, over the header, the bitmaps and all images before it
\* (rows_event.c:178-182, 271-273).
ImagesReadWhereTheyAre ==
  pc = "rows" =>
    \A k \in DOMAIN fetched :
      k <= Len(ev.nulls) => fetched[k].at = ImageStart(ev, k)

\* A type the decoder knows, whose value takes what the decoder thinks it does.
Known(c) ==
  ~c.null /\ (c.type = "NEWDECIMAL" \/ c.type \in DOMAIN WholeBytes \ {"YEAR"})
          /\ WireWidth(c) = (IF c.type = "NEWDECIMAL" THEN DecimalBytes(c.meta)
                             ELSE WholeBytes[c.type])

KnownTable(t) ==
  /\ FitsInAChar(Len(Columns[t]))
  /\ \A j \in DOMAIN Columns[t] : Known(Columns[t][j])

KnownEvent == ev.kind \in KindsV1 /\ KnownTable(ev.table)

\* So it does in a v1 event whose table has at most 127 columns, of known, fixed
\* widths, that are never NULL.
KnownImagesReadWhereTheyAre == pc = "rows" /\ KnownEvent => ImagesReadWhereTheyAre

\* Of such events only an update can be read past its end, and then by one
\* image: the nested call does not look at the size of the event
\* (rows_event.c:195-197, 271).
ReadsPastTheEnd ==
  pc = "rows" /\ KnownEvent =>
    Len(fetched) <= Len(ev.nulls) + (IF ev.kind \in UpdateKinds THEN 1 ELSE 0)

\* What kills the decoder is a table of more than 127 columns or with more than
\* 127 bytes of metadata, rows before the first table map, or a v2 event or a
\* VARCHAR, and nothing else, in statements of one table (tools.c:104,
\* binlog.c:188, 295, rows_event.c:85, 145).
CrashHasACause ==
  pc = "crashed" =>
    \/ tableMap = NoMap
    \/ TooWide(tableMap)
    \/ ev.kind \in KindsV2
    \/ \E j \in DOMAIN Columns[tableMap] : Columns[tableMap][j].type = "VARCHAR"

\* Whatever events came before it, an update leaves update_row so that the
\* next update starts with a pair of images: one that started out of phase
\* takes one image too many, which puts it right (rows_event.c:175-176, 195).
UpdateRestoresPhase ==
  [][RowsDone /\ ev.kind = "UPDATE_ROWS_EVENTv1" => updateRow = 1]_vars

\* The calls for the even images of the event, and no others, are nested.
EvenCallsNested == \A k \in DOMAIN fetched : fetched[k].nested <=> k % 2 = 0

\* The nested call takes the new values of a row, the other call the old ones:
\* the comments at rows_event.c:175 and 194.
NewValuesAreNested == pc = "rows" /\ ev.kind \in UpdateKinds => EvenCallsNested

\* So it is in an update that started with the parity that UpdateRestoresPhase
\* says one update leaves for the next: between them, old and new are told
\* apart as long as no other rows event comes in between.
UpdateInPhaseIsNested ==
  LET parityAtStart == (updateRow + Len(fetched)) % 2
  IN  /\ pc = "rows" /\ ev.kind = "UPDATE_ROWS_EVENTv1"
      /\ parityAtStart = 1 /\ Len(fetched) < MaxFetched
      => EvenCallsNested

\* The loop over the rows of an event ends (rows_event.c:271), also for tables
\* and events it misreads, if reading past the table map does not end it all,
\* unless the count it goes by is that of a table of more than 127 columns.
RowsEnd ==
  /\ pc = "rows"
  /\ ev.kind \in KindsV2 \/ FitsInAChar(Len(Columns[ev.table]))
  ~> pc # "rows"

\* It ends for every table: "loop over the rows event and take the row data"
\* (rows_event.c:170), a count below 251 being "one byte number" (tools.c:106).
RowsOfAnyTableEnd == pc = "rows" ~> pc # "rows"
=============================================================================
