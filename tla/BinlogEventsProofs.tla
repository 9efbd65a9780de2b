------------------------- MODULE BinlogEventsProofs -------------------------
(***************************************************************************)
(* Proofs about BinlogEvents for any tables, formats and sizes of events.  *)
(***************************************************************************)
EXTENDS BinlogEvents, FoldProofs

(***************************************************************************)
(* One table map is enough where a statement writes one table.  That the   *)
(* rows of an event are read with their own map needs the map kept to be   *)
(* that of the open statement's table, unless the dump started behind it,  *)
(* and column_count to be read where the master put it, which needs the    *)
(* widths of the log's own format.  With a count that is read right no      *)
(* column lies past the end of the right table map, and with a negative    *)
(* one none is looked for: what is left to crash on is listed in           *)
(* CrashHasACause.                                                         *)
(***************************************************************************)

FormatOfLogKept == logFormat # 0 => post = logFormat

MapOfStatementKept ==
  /\ statement \in [maps : Seq(Tables), begun : BOOLEAN]
  /\ Len(statement.maps) <= 1
  /\ tableMap \in Tables \cup {NoMap}
  /\ \A i \in DOMAIN statement.maps : tableMap \in {NoMap, statement.maps[i]}

MapOfEventKept ==
  pc = "rows" /\ ev.kind \in KindsV1 =>
    /\ ev.table \in Tables
    /\ tableMap \in {NoMap, ev.table}
    /\ count = NumberRead(Len(Columns[ev.table]))
    /\ fetched # <<>> /\ count > 0 => tableMap # NoMap

KindIsKnown == pc = "rows" => ev.kind \in KindsV1 \cup KindsV2

MapInv ==
  FormatOfLogKept /\ MapOfStatementKept /\ MapOfEventKept /\ KindIsKnown /\ CrashHasACause

LEMMA ColumnNumbers == \A n \in 1 .. MaxColumns : n \in Nat /\ n > 0
BY SMT DEF MaxColumns

\* A number up to 127 is read as it is, and any other one as negative.
LEMMA CharCount ==
  ASSUME NEW n \in 1 .. MaxColumns
  PROVE  /\ n < 128 => NumberRead(n) = n
         /\ n >= 128 => NumberRead(n) \in -128 .. -1
         /\ NumberRead(n) \in -128 .. 127
         /\ Len(LengthEncoded(n)) \in {1, 3}
         /\ n < 128 => Len(LengthEncoded(n)) = 1
<1> DEFINE b == LengthEncoded(n)[1]
<1>0. n \in Nat
  BY ColumnNumbers
<1>1. b = IF n < 251 THEN n ELSE 252
  BY DEF LengthEncoded
<1>2. SignedChar(b) = IF b >= 128 THEN b - 256 ELSE b
  BY DEF SignedChar
<1> HIDE DEF b
<1>3. SignedChar(b) < 251 /\ SignedChar(b) \in -128 .. 127
  BY <1>0, <1>1, <1>2
<1>4. NumberRead(n) = SignedChar(b)
  BY <1>3 DEF NumberRead, LengthEncodeNumber, b
<1>5. Len(LengthEncoded(n)) = IF n < 251 THEN 1 ELSE 3
  BY DEF LengthEncoded
<1> QED
  BY <1>0, <1>1, <1>2, <1>3, <1>4, <1>5

\* So a table's count is read, if its columns are not too many.
LEMMA TableCount ==
  ASSUME NEW t \in Tables, NEW n, n = Len(Columns[t])
  PROVE  /\ n \in 1 .. MaxColumns
         /\ n < 128 => NumberRead(n) = n
         /\ n >= 128 => NumberRead(n) \in -128 .. -1
         /\ FitsInAChar(n) <=> n < 128
         /\ n >= 128 => TooWide(t)
<1>1. n \in 1 .. MaxColumns
  BY EventsAssumption
<1>2. /\ n < 128 => NumberRead(n) = n
      /\ n >= 128 => NumberRead(n) \in -128 .. -1
  BY <1>1, CharCount
<1>3. FitsInAChar(n) <=> n < 128
  <2>1. n < 128 => NumberRead(n) >= 0
    BY <1>1, <1>2, ColumnNumbers
  <2>3. ASSUME NEW read \in -128 .. -1 PROVE ~(read >= 0)
    OBVIOUS
  <2>2. n >= 128 => ~(NumberRead(n) >= 0)
    BY <1>2, <2>3, Zenon
  <2> QED
    BY <1>1, <2>1, <2>2, ColumnNumbers DEF FitsInAChar
<1>4. ~FitsInAChar(n) => TooWide(t)
  BY Zenon DEF TooWide
<1> QED
  BY <1>1, <1>2, <1>3, <1>4

\* The decoder reads a v1 event's column count as the master wrote it, but as
\* a signed number.
LEMMA CountIsRead ==
  ASSUME FormatOfLogKept, logFormat # 0, NEW e, e.kind \in KindsV1,
         NEW n \in CountsRead(e)
  PROVE  n = NumberRead(Len(Columns[e.table]))
<1>1. e.kind \notin KindsV2
  BY DEF KindsV1, KindsV2
<1>2. IdBytesRead(e.kind) = IF post = 6 THEN 4 ELSE 6
  BY <1>1 DEF FormatOfLogKept, IdBytesRead, PostHeaderLength
<1>3. CountAt(e.kind) = IdBytesRead(e.kind) + 2
  BY <1>1, <1>2 DEF CountAt, TableIdBytes, FormatOfLogKept
<1> QED
  BY <1>3 DEF CountsRead

\* With the event's own table map no column is beyond the map.
LEMMA NoColumnIsUnknown ==
  ASSUME tableMap \in Tables, count = Len(Columns[tableMap])
  PROVE  UnknownColumns = 0
<1>1. Columns[tableMap] \in Seq([type : STRING, meta : Seq(0 .. 255), null : BOOLEAN])
  BY EventsAssumption DEF Tables
<1>2. count \in Nat /\ DOMAIN Columns[tableMap] = 1 .. count
  BY <1>1
<1>3. (1 .. count) \ KnownColumns = {}
  BY <1>2 DEF KnownColumns
<1> QED
  BY <1>3, FS_EmptySet DEF UnknownColumns

\* With a negative count there is no column to look for.
LEMMA NoColumnIsLookedFor ==
  ASSUME count \in Int, ~(count > 0)
  PROVE  UnknownColumns = 0 /\ KnownColumns = {}
<1>1. 1 .. count = {}
  OBVIOUS
<1>2. (1 .. count) \ KnownColumns = {} /\ KnownColumns = {}
  BY <1>1 DEF KnownColumns
<1> QED
  BY <1>2, FS_EmptySet DEF UnknownColumns

LEMMA MapInit == Init => MapInv
<1> SUFFICES ASSUME Init PROVE MapInv
  OBVIOUS
<1>1. CASE statement = NoStatement
  BY <1>1 DEF Init, MapInv, FormatOfLogKept, MapOfStatementKept, MapOfEventKept,
              KindIsKnown, CrashHasACause, NoStatement
<1>2. ASSUME NEW t \in Tables, NEW b \in BOOLEAN,
             statement = [maps |-> <<t>>, begun |-> b]
      PROVE  MapInv
  BY <1>2 DEF Init, MapInv, FormatOfLogKept, MapOfStatementKept, MapOfEventKept,
              KindIsKnown, CrashHasACause
<1> QED
  BY <1>1, <1>2 DEF Init

LEMMA MapNext ==
  ASSUME MaxTables = 1, MapInv, [Next]_vars
  PROVE  MapInv'
<1> USE DEF MapInv, masterVars, decoderVars, rowsVars
<1>1. CASE HandleRotate
  BY <1>1 DEF HandleRotate, FormatOfLogKept, MapOfStatementKept, MapOfEventKept,
              KindIsKnown, CrashHasACause
<1>2. ASSUME NEW format \in Formats, HandleFormatDescription(format)
      PROVE  MapInv'
  BY <1>2 DEF HandleFormatDescription, PostHeaderLengths, FormatOfLogKept,
              MapOfStatementKept, MapOfEventKept, KindIsKnown, CrashHasACause
<1>3. ASSUME NEW t \in Tables, HandleTableMap(t)
      PROVE  MapInv'
  <2>1. /\ pc = "event" /\ logFormat # 0
        /\ pc' = IF TooWide(t) THEN "crashed" ELSE pc
        /\ UNCHANGED <<logFormat, post>>
        /\ statement' = [statement EXCEPT !.maps = Append(@, t)]
        /\ Len(statement.maps) < 1
    BY <1>3 DEF HandleTableMap
  <2>2. tableMap' = t
    BY <1>3 DEF HandleTableMap, MapKept, IdBytesRead, PostHeaderLength,
                TableIdBytes, FormatOfLogKept, KindsV2
  <2>3. statement.maps = <<>>
    BY <2>1 DEF MapOfStatementKept
  <2>4. statement'.maps = <<t>>
    BY <2>1, <2>3 DEF MapOfStatementKept
  <2>5. statement' \in [maps : Seq(Tables), begun : BOOLEAN]
    BY <2>1, <2>4 DEF MapOfStatementKept
  <2>6. pc' = "crashed" => TooWide(tableMap')
    BY <2>1, <2>2
  <2>7. FormatOfLogKept' /\ MapOfStatementKept'
    BY <2>1, <2>2, <2>4, <2>5 DEF FormatOfLogKept, MapOfStatementKept
  <2>8. CrashHasACause'
    BY <2>6 DEF CrashHasACause, TooWide, FitsInAChar, MetaBytes
  <2> QED
    BY <2>1, <2>7, <2>8 DEF MapOfEventKept, KindIsKnown
<1>4. ASSUME NEW t \in Tables, NEW e \in RowsEvents(t), NEW last \in BOOLEAN,
             HandleRows(e, last)
      PROVE  MapInv'
  <2>1. /\ logFormat # 0
        /\ e.table \in Range(statement.maps)
        /\ statement' = IF last THEN NoStatement
                        ELSE [statement EXCEPT !.begun = TRUE]
        /\ ev' = e
        /\ fetched' = <<>>
        /\ UNCHANGED <<logFormat, post, tableMap>>
    BY <1>4 DEF HandleRows
  <2>9. /\ count' \in CountsRead(e)
        /\ pc' = IF BitmapBytes(count') >= 0 THEN "rows" ELSE "crashed"
    BY <1>4 DEF HandleRows
  <2>2. e.kind \in KindsV1 \cup KindsV2 /\ e.table = t
    <3>1. e.kind \in Kinds /\ e.table = t
      BY DEF RowsEvents
    <3>2. Kinds \subseteq KindsV1 \cup KindsV2
      BY EventsAssumption
    <3> QED
      BY <3>1, <3>2
  <2>3. tableMap \in {NoMap, e.table}
    BY <2>1 DEF Range, MapOfStatementKept
  <2>5. e.kind \in KindsV1 => count' = NumberRead(Len(Columns[e.table]))
    BY <2>1, <2>9, CountIsRead
  <2>6. MapOfStatementKept'
    <3>1. CASE last
      BY <2>1, <3>1 DEF NoStatement, MapOfStatementKept
    <3>2. CASE ~last
      BY <2>1, <3>2 DEF MapOfStatementKept
    <3> QED
      BY <3>1, <3>2
  <2>7. MapOfEventKept'
    BY <2>1, <2>2, <2>3, <2>5 DEF MapOfEventKept
  <2>8. CrashHasACause'
    <3>1. SUFFICES ASSUME pc' = "crashed", tableMap # NoMap, e.kind \in KindsV1
                   PROVE  TooWide(tableMap)
      BY <2>1, <2>2 DEF CrashHasACause, TooWide, FitsInAChar, MetaBytes
    <3> DEFINE n == Len(Columns[e.table])
    <3>2. /\ n \in 1 .. MaxColumns /\ (n < 128 => NumberRead(n) = n)
          /\ n >= 128 => TooWide(e.table)
      BY <2>2, TableCount
    <3>3. count' = NumberRead(n) /\ ~(BitmapBytes(count') >= 0)
      BY <2>5, <2>9, <3>1
    <3> HIDE DEF n
    <3>4. ASSUME n < 128 PROVE FALSE
      <4>1. count' = n /\ n \in 1 .. 127
        BY <3>2, <3>3, <3>4, ColumnNumbers
      <4> QED
        BY <3>3, <4>1 DEF BitmapBytes
    <3>5. TooWide(e.table)
      BY <3>2, <3>4
    <3> QED
      BY <2>3, <3>1, <3>5
  <2> QED
    BY <2>1, <2>9, <2>2, <2>6, <2>7, <2>8 DEF FormatOfLogKept, KindIsKnown
<1>5. CASE FetchRow
  <2>1. /\ pc = "rows" /\ pc' = "rows"
        /\ tableMap # NoMap \/ count <= 0
        /\ UNCHANGED <<logFormat, statement, post, tableMap, ev, count>>
    BY <1>5 DEF FetchRow
  <2>2. MapOfEventKept'
    <3>1. SUFFICES ASSUME ev.kind \in KindsV1
                   PROVE  MapOfEventKept'
      BY <2>1 DEF MapOfEventKept
    <3>2. /\ ev.table \in Tables /\ tableMap \in {NoMap, ev.table}
          /\ count = NumberRead(Len(Columns[ev.table]))
      BY <2>1, <3>1 DEF MapOfEventKept
    <3>3. count \in -128 .. 127
      BY <3>2, TableCount, CharCount
    <3>4. ~(count > 0 /\ count <= 0)
      BY <3>3
    <3> QED
      BY <2>1, <3>2, <3>4 DEF MapOfEventKept
  <2> QED
    BY <2>1, <2>2 DEF FormatOfLogKept, MapOfStatementKept, KindIsKnown, CrashHasACause
<1>6. CASE FetchCrashes
  <2>1. /\ pc = "rows" /\ pc' = "crashed" /\ ReadsWildly
        /\ UNCHANGED <<logFormat, statement, post, tableMap, ev, count>>
    BY <1>6 DEF FetchCrashes
  <2>2. CrashHasACause'
    <3>1. SUFFICES ASSUME tableMap # NoMap, ev.kind \notin KindsV2
                   PROVE  \E j \in DOMAIN Columns[tableMap] :
                            Columns[tableMap][j].type = "VARCHAR"
      BY <2>1 DEF CrashHasACause
    <3> DEFINE n == Len(Columns[tableMap])
    <3>2. tableMap \in Tables /\ count = NumberRead(n)
      BY <2>1, <3>1 DEF MapOfEventKept, KindIsKnown
    <3>3. /\ n \in 1 .. MaxColumns /\ (n < 128 => NumberRead(n) = n)
          /\ n >= 128 => NumberRead(n) \in -128 .. -1
      BY <3>2, TableCount
    <3> HIDE DEF n
    <3>4. CASE n < 128
      <4>1. UnknownColumns = 0
        BY <3>2, <3>3, <3>4, NoColumnIsUnknown DEF n
      <4> QED
        BY <2>1, <3>2, <4>1 DEF ReadsWildly, KnownColumns
    <3>5. CASE ~(n < 128)
      <4>1. count \in Int /\ ~(count > 0)
        BY <3>2, <3>3, <3>5
      <4>2. UnknownColumns = 0 /\ KnownColumns = {}
        BY <4>1, NoColumnIsLookedFor
      <4> QED
        BY <2>1, <4>2 DEF ReadsWildly
    <3> QED
      BY <3>4, <3>5
  <2> QED
    BY <2>1, <2>2 DEF FormatOfLogKept, MapOfStatementKept, MapOfEventKept, KindIsKnown
<1>7. CASE RowsDone
  BY <1>7 DEF RowsDone, FormatOfLogKept, MapOfStatementKept, MapOfEventKept,
              KindIsKnown, CrashHasACause
<1>8. CASE Crashed \/ UNCHANGED vars
  <2>1. UNCHANGED vars
    BY <1>8 DEF Crashed
  <2> QED
    BY <2>1 DEF vars, FormatOfLogKept, MapOfStatementKept, MapOfEventKept,
                KindIsKnown, CrashHasACause
<1> QED
  BY <1>1, <1>2, <1>3, <1>4, <1>5, <1>6, <1>7, <1>8 DEF Next

\* Where a statement writes one table, the rows of every v1 event are read as
\* the columns of their own table, whatever the tables, wherever the dump
\* starts and however the formats of successive logs differ.
THEOREM RowsOfOneTableAreReadRight ==
  ASSUME MaxTables = 1 PROVE Spec => []RowsReadWithTheirMap
<1>1. MapInv /\ [Next]_vars => MapInv'
  BY MapNext
<1>2. MapInv => RowsReadWithTheirMap
  <2> DEFINE n == Len(Columns[ev.table])
  <2> SUFFICES ASSUME MapInv, pc = "rows", ev.kind \in KindsV1, FitsInAChar(n),
                      fetched # <<>>
               PROVE  tableMap = ev.table /\ count = n
    BY DEF RowsReadWithTheirMap
  <2>1. /\ ev.table \in Tables /\ tableMap \in {NoMap, ev.table}
        /\ count = NumberRead(n) /\ (count > 0 => tableMap # NoMap)
    BY DEF MapInv, MapOfEventKept
  <2>2. n \in 1 .. MaxColumns /\ (n < 128 => NumberRead(n) = n) /\ (FitsInAChar(n) <=> n < 128)
    BY <2>1, TableCount
  <2> HIDE DEF n
  <2>3. count = n /\ count > 0
    BY <2>1, <2>2, ColumnNumbers
  <2> QED
    BY <2>1, <2>3
<1> QED
  BY MapInit, <1>1, <1>2, PTL DEF Spec

\* And then nothing but what CrashHasACause lists kills the decoder.
THEOREM CrashesHaveACause ==
  ASSUME MaxTables = 1 PROVE Spec => []CrashHasACause
<1>1. MapInv /\ [Next]_vars => MapInv'
  BY MapNext
<1>2. MapInv => CrashHasACause
  BY DEF MapInv
<1> QED
  BY MapInit, <1>1, <1>2, PTL DEF Spec
-----------------------------------------------------------------------------
(***************************************************************************)
(* The parity of update_row at the start of an event and the number of the *)
(* call give the parity at each call.                                      *)
(***************************************************************************)

IsUpdate == pc = "rows" /\ ev.kind = "UPDATE_ROWS_EVENTv1" /\ Len(fetched) < MaxFetched

CallsFollowParity ==
  /\ nested <=> fetched # <<>> /\ updateRow = 0
  /\ \A k \in DOMAIN fetched :
       fetched[k].nested <=> k > 1 /\ (updateRow + Len(fetched) + k - 1) % 2 = 0

PhaseInv ==
  /\ updateRow \in {0, 1}
  /\ \E S : fetched \in Seq(S)
  /\ IsUpdate => CallsFollowParity

\* One call more changes the parity and the number of calls alike.
LEMMA ParityOfCall ==
  ASSUME NEW u \in {0, 1}, NEW n \in Nat, NEW k \in Nat
  PROVE  /\ ((u + 1) % 2) \in {0, 1}
         /\ (((u + 1) % 2) + (n + 1) + k - 1) % 2 = (u + n + k - 1) % 2
         /\ (u + n + (n + 1) - 1) % 2 = u
<1>1. CASE u = 0
  BY <1>1
<1>2. CASE u = 1
  BY <1>2
<1> QED
  BY <1>1, <1>2

LEMMA PhaseFetch ==
  ASSUME PhaseInv, FetchRow
  PROVE  PhaseInv'
<1>1. PICK S : fetched \in Seq(S)
  BY DEF PhaseInv
<1> DEFINE call == [at |-> cursor, nested |-> nested]
           n == Len(fetched)
<1>2. /\ updateRow \in {0, 1} /\ updateRow' = (updateRow + 1) % 2
      /\ pc = "rows" /\ ev' = ev /\ pc' = pc
      /\ fetched' = IF n = MaxFetched THEN fetched ELSE Append(fetched, call)
      /\ nested' = (ev.kind = "UPDATE_ROWS_EVENTv1" /\ updateRow' = 0)
  BY DEF PhaseInv, FetchRow, Nests
<1>3. fetched' \in Seq(S \cup {call})
  BY <1>1, <1>2
<1>4. n \in Nat /\ updateRow' \in {0, 1}
  BY <1>1, <1>2, ParityOfCall
<1>5. ASSUME IsUpdate'
      PROVE  CallsFollowParity'
  <2>1. n # MaxFetched /\ fetched' = Append(fetched, call)
    BY <1>2, <1>5 DEF IsUpdate
  <2>2. Len(fetched') = n + 1
    BY <1>1, <2>1
  <2>3. n < MaxFetched
    BY <1>4, <1>5, <2>2, EventsAssumption DEF IsUpdate, MaxFetched
  <2>4. CallsFollowParity
    BY <1>2, <1>5, <2>3 DEF PhaseInv, IsUpdate
  <2>5. nested' <=> fetched' # <<>> /\ updateRow' = 0
    <3>1. fetched' # <<>>
      BY <1>1, <2>1
    <3>2. ev.kind = "UPDATE_ROWS_EVENTv1"
      BY <1>2, <1>5 DEF IsUpdate
    <3> QED
      BY <1>2, <3>1, <3>2, Zenon
  <2>6. ASSUME NEW k \in DOMAIN fetched'
        PROVE  fetched'[k].nested
                 <=> k > 1 /\ (updateRow' + Len(fetched') + k - 1) % 2 = 0
    <3>1. k \in 1 .. n + 1
      BY <1>3, <2>2, <2>6
    <3>2. (updateRow' + Len(fetched') + k - 1) % 2 = (updateRow + n + k - 1) % 2
      <4>1. k \in Nat
        BY <1>4, <3>1
      <4>2. (((updateRow + 1) % 2) + (n + 1) + k - 1) % 2 = (updateRow + n + k - 1) % 2
        BY <1>2, <1>4, <4>1, ParityOfCall, Zenon
      <4> QED
        BY <1>2, <2>2, <4>2, Zenon
    <3>3. CASE k \in 1 .. n
      <4>1. fetched'[k] = fetched[k] /\ k \in DOMAIN fetched
        BY <1>1, <2>1, <3>3
      <4> QED
        BY <2>4, <3>2, <4>1 DEF CallsFollowParity
    <3>4. CASE k = n + 1
      <4>1. fetched'[k] = call
        BY <1>1, <2>1, <3>4
      <4>2. (updateRow + n + k - 1) % 2 = updateRow
        BY <1>2, <1>4, <3>4, ParityOfCall
      <4>3. k > 1 <=> fetched # <<>>
        BY <1>1, <3>4
      <4>4. call.nested <=> k > 1 /\ updateRow = 0
        BY <2>4, <4>3, Zenon DEF CallsFollowParity
      <4> HIDE DEF call
      <4> QED
        BY <3>2, <4>1, <4>2, <4>4, Zenon
    <3> QED
      BY <3>1, <3>3, <3>4
  <2> QED
    BY <2>5, <2>6 DEF CallsFollowParity
<1> QED
  BY <1>3, <1>4, <1>5 DEF PhaseInv

LEMMA PhaseNext == PhaseInv /\ [Next]_vars => PhaseInv'
<1> SUFFICES ASSUME PhaseInv, [Next]_vars PROVE PhaseInv'
  OBVIOUS
<1>1. CASE FetchRow
  BY <1>1, PhaseFetch
<1>2. ASSUME updateRow' = updateRow, fetched' = fetched, ~IsUpdate'
      PROVE  PhaseInv'
  BY <1>2 DEF PhaseInv
<1>3. CASE \/ HandleRotate \/ FetchCrashes
           \/ \E format \in Formats : HandleFormatDescription(format)
           \/ \E t \in Tables : HandleTableMap(t)
  <2>1. updateRow' = updateRow /\ fetched' = fetched /\ pc' # "rows"
    BY <1>3 DEF HandleRotate, FetchCrashes, HandleFormatDescription, HandleTableMap,
                rowsVars
  <2> QED
    BY <1>2, <2>1 DEF IsUpdate
<1>4. CASE (\E t \in Tables : \E e \in RowsEvents(t), last \in BOOLEAN :
              HandleRows(e, last)) \/ RowsDone
  <2>1. updateRow' = updateRow /\ fetched' = <<>> /\ (pc' = "rows" => nested' = FALSE)
    BY <1>4 DEF HandleRows, RowsDone, decoderVars
  <2>2. fetched' \in Seq({})
    BY <2>1
  <2>3. IsUpdate' => CallsFollowParity'
    BY <2>1 DEF IsUpdate, CallsFollowParity
  <2>4. (\E S : fetched \in Seq(S))'
    BY <2>2
  <2>5. updateRow' \in {0, 1}
    BY <2>1 DEF PhaseInv
  <2> QED
    BY <2>3, <2>4, <2>5, Zenon DEF PhaseInv
<1>5. CASE Crashed \/ UNCHANGED vars
  <2>1. UNCHANGED <<updateRow, ev, fetched, nested, pc>>
    BY <1>5 DEF Crashed, vars, rowsVars
  <2>2. IsUpdate' = IsUpdate /\ CallsFollowParity' = CallsFollowParity
    BY <2>1 DEF IsUpdate, CallsFollowParity
  <2>3. (\E S : fetched \in Seq(S))'
    BY <2>1 DEF PhaseInv
  <2> QED
    BY <2>1, <2>2, <2>3 DEF PhaseInv
<1> QED
  BY <1>1, <1>3, <1>4, <1>5 DEF Next

\* In an update that starts in phase the new values of each row, and only they,
\* are taken by the nested call, however many rows it has and whatever they are
\* misread for.
THEOREM UpdatesInPhaseTellOldFromNew == Spec => []UpdateInPhaseIsNested
<1>1. Init => PhaseInv
  <2>1. Init => fetched \in Seq({})
    BY DEF Init
  <2> QED
    BY <2>1 DEF Init, PhaseInv, IsUpdate
<1>2. PhaseInv => UpdateInPhaseIsNested
  <2> SUFFICES ASSUME PhaseInv, IsUpdate, (updateRow + Len(fetched)) % 2 = 1,
                      NEW k \in DOMAIN fetched
               PROVE  fetched[k].nested <=> k % 2 = 0
    BY DEF UpdateInPhaseIsNested, IsUpdate, EvenCallsNested
  <2>1. PICK S : fetched \in Seq(S)
    BY DEF PhaseInv
  <2>2. k \in Nat /\ k >= 1 /\ Len(fetched) \in Nat /\ updateRow \in {0, 1}
    BY <2>1 DEF PhaseInv
  <2>3. k > 1 /\ (updateRow + Len(fetched) + k - 1) % 2 = 0 <=> k % 2 = 0
    BY <2>2
  <2> QED
    BY <2>3, Zenon DEF PhaseInv, CallsFollowParity
<1> QED
  BY <1>1, <1>2, PhaseNext, PTL DEF Spec
-----------------------------------------------------------------------------
(***************************************************************************)
(* What the decoder's arithmetic gives for any table: the metadata of a    *)
(* column is found behind those of the columns before it, and no width is  *)
(* negative, so that the cursor only goes forward.                         *)
(***************************************************************************)

LEMMA ElementIs ==
  ASSUME NEW S, NEW s \in Seq(S), NEW i \in DOMAIN s
  PROVE  s[i] \in S
OBVIOUS

LEMMA AppendIs ==
  ASSUME NEW S, NEW s \in Seq(S), NEW x \in S
  PROVE  Append(s, x) \in Seq(S)
OBVIOUS

LEMMA ColumnIs ==
  ASSUME NEW t \in Tables, NEW j \in DOMAIN Columns[t]
  PROVE  /\ Columns[t][j].type \in MeasuredTypes
         /\ Columns[t][j].meta \in Seq(0 .. 255)
         /\ Columns[t][j].null \in BOOLEAN
         /\ Len(Columns[t][j].meta) = MetaLen(Columns[t][j].type)
         /\ Columns[t][j].type = "NEWDECIMAL" =>
              Columns[t][j].meta[2] <= Columns[t][j].meta[1]
<1>1. Columns[t] \in Seq([type : STRING, meta : Seq(0 .. 255), null : BOOLEAN])
  BY EventsAssumption DEF Tables
<1>2. Columns[t][j] \in [type : STRING, meta : Seq(0 .. 255), null : BOOLEAN]
  BY <1>1, ElementIs, Zenon
<1>3. /\ Columns[t][j].type \in MeasuredTypes
      /\ Len(Columns[t][j].meta) = MetaLen(Columns[t][j].type)
      /\ Columns[t][j].type = "NEWDECIMAL" =>
           Columns[t][j].meta[2] <= Columns[t][j].meta[1]
  BY ColumnsAssumption, Zenon
<1> QED
  BY <1>2, <1>3

LEMMA ColumnsOf ==
  ASSUME NEW t \in Tables
  PROVE  /\ Len(Columns[t]) \in 1 .. MaxColumns
         /\ DOMAIN Columns[t] = 1 .. Len(Columns[t])
         /\ IsFiniteSet(DOMAIN Columns[t])
         /\ NullBytes(t) \in Nat \ {0}
<1>1. Columns[t] \in Seq([type : STRING, meta : Seq(0 .. 255), null : BOOLEAN])
  BY EventsAssumption DEF Tables
<1>2. Len(Columns[t]) \in 1 .. MaxColumns /\ DOMAIN Columns[t] = 1 .. Len(Columns[t])
  BY <1>1, EventsAssumption
<1>3. \A n \in Nat \ {0} : ((n + 7) \div 8) \in Nat \ {0}
  OBVIOUS
<1>4. NullBytes(t) \in Nat \ {0}
  <2>1. Len(Columns[t]) \in Nat \ {0}
    BY <1>2, ColumnNumbers
  <2> QED
    BY <1>3, <2>1, Zenon DEF NullBytes
<1> QED
  BY <1>2, <1>4, FS_Interval

LEMMA PartTakesBytes ==
  ASSUME NEW digits \in Nat
  PROVE  DecimalPart(digits) \in Nat
<1>1. digits % 9 \in 0 .. 8 /\ digits \div 9 \in Nat
  OBVIOUS
<1>2. \A m \in 0 .. 8 : (<<0, 1, 1, 2, 2, 3, 3, 4, 4, 4>>)[m + 1] \in Nat
  OBVIOUS
<1> HIDE <1>2
<1>3. (<<0, 1, 1, 2, 2, 3, 3, 4, 4, 4>>)[(digits % 9) + 1] \in Nat
  BY <1>1, <1>2, Zenon
<1> QED
  BY <1>1, <1>3 DEF DecimalPart, DIG_PER_DEC1

\* A DECIMAL takes a number of bytes if its digits are at least those of its
\* fraction.
LEMMA DecimalTakesBytes ==
  ASSUME NEW meta, meta[1] \in 0 .. 255, meta[2] \in 0 .. 255, meta[2] <= meta[1]
  PROVE  DecimalBytes(meta) \in Nat
<1>1. \A p, q \in 0 .. 255 : q <= p => p - q \in Nat /\ q \in Nat
  OBVIOUS
<1>2. meta[1] - meta[2] \in Nat /\ meta[2] \in Nat
  BY <1>1, Zenon
<1>3. DecimalPart(meta[1] - meta[2]) \in Nat /\ DecimalPart(meta[2]) \in Nat
  BY <1>2, PartTakesBytes
<1> QED
  BY <1>3 DEF DecimalBytes

\* The metadata of a column are where get_column_meta_def looks for them.
LEMMA MetaIsFound ==
  ASSUME NEW t \in Tables, NEW i \in DOMAIN Columns[t],
         Columns[t][i].type = "NEWDECIMAL"
  PROVE  /\ ColumnMeta(t, i)[1] = Columns[t][i].meta[1]
         /\ ColumnMeta(t, i)[2] = Columns[t][i].meta[2]
         /\ Columns[t][i].meta[1] \in 0 .. 255
         /\ Columns[t][i].meta[2] \in 0 .. 255
<1> DEFINE n == Len(Columns[t])
           seqs == [j \in DOMAIN Columns[t] |-> Columns[t][j].meta]
           at == SumFunction([j \in 1 .. i - 1 |-> MetaLen(Columns[t][j].type)])
<1>1. n \in Nat /\ DOMAIN Columns[t] = 1 .. n /\ i \in 1 .. n
  BY ColumnsOf
<1>2. seqs \in Seq(Seq(0 .. 255)) /\ Len(seqs) = n
  BY <1>1, ColumnIs
<1>3. at = Before(seqs, i)
  <2>1. \A j \in 1 .. i - 1 : MetaLen(Columns[t][j].type) = Len(seqs[j])
    BY <1>1, ColumnIs
  <2>2. [j \in 1 .. i - 1 |-> MetaLen(Columns[t][j].type)] =
        [j \in 1 .. i - 1 |-> Len(seqs[j])]
    BY <2>1
  <2> QED
    BY <2>2 DEF Before
<1>4. seqs[i] = Columns[t][i].meta /\ seqs[i] \in Seq(0 .. 255)
  BY ColumnIs
<1>5. Len(seqs[i]) = 2
  BY <1>4, ColumnIs DEF MetaLen
<1>6. MetaBytes(t) = FlattenSeq(seqs)
  BY DEF MetaBytes
<1>7. ColumnMeta(t, i) = SubSeq(MetaBytes(t), at + 1, at + 2)
  BY DEF ColumnMeta
<1> HIDE DEF seqs, at, n
<1>8. /\ FlattenSeq(seqs) \in Seq(0 .. 255)
      /\ \A m \in 1 .. 2 : /\ at + m <= Len(FlattenSeq(seqs))
                           /\ FlattenSeq(seqs)[at + m] = seqs[i][m]
  <2>1. FlattenSeq(seqs) \in Seq(0 .. 255)
    BY <1>2, FlattenedAt
  <2>2. \A k \in 1 .. Len(seqs) : \A m \in 1 .. Len(seqs[k]) :
          /\ Before(seqs, k) + m <= Len(FlattenSeq(seqs))
          /\ FlattenSeq(seqs)[Before(seqs, k) + m] = seqs[k][m]
    BY <1>2, FlattenedAt
  <2> QED
    BY <1>1, <1>2, <1>3, <1>5, <2>1, <2>2
<1>9. at \in Nat
  BY <1>1, <1>2, <1>3, BeforeNext
<1>10. at + 1 <= Len(FlattenSeq(seqs)) /\ at + 2 <= Len(FlattenSeq(seqs))
  BY <1>8
<1>11. ColumnMeta(t, i)[1] = seqs[i][1] /\ ColumnMeta(t, i)[2] = seqs[i][2]
  <2> DEFINE all == FlattenSeq(seqs)
  <2>1. all \in Seq(0 .. 255) /\ all[at + 1] = seqs[i][1] /\ all[at + 2] = seqs[i][2]
        /\ at + 2 <= Len(all)
    BY <1>8, <1>10
  <2>2. ColumnMeta(t, i) = SubSeq(all, at + 1, at + 2)
    BY <1>6, <1>7
  <2> HIDE DEF all
  <2> QED
    BY <1>9, <2>1, <2>2
<1>12. seqs[i][1] \in 0 .. 255 /\ seqs[i][2] \in 0 .. 255
  <2>1. 1 \in DOMAIN seqs[i] /\ 2 \in DOMAIN seqs[i]
    BY <1>4, <1>5
  <2> QED
    BY <1>4, <2>1, ElementIs, Zenon
<1> QED
  BY <1>4, <1>11, <1>12, Zenon

\* No value takes less than no bytes, in the log or for the decoder.
LEMMA WidthsAreNaturals ==
  ASSUME NEW t \in Tables, NEW i \in DOMAIN Columns[t]
  PROVE  /\ WireWidth(Columns[t][i]) \in Nat
         /\ CodeWidth(t, i) \in Nat
         /\ Known(Columns[t][i]) => CodeWidth(t, i) = WireWidth(Columns[t][i])
<1> DEFINE c == Columns[t][i]
<1>1. \A type \in DOMAIN WholeBytes : WholeBytes[type] \in Nat
  BY DEF WholeBytes
<1>2. CASE c.type = "NEWDECIMAL"
  <2>1. /\ ColumnMeta(t, i)[1] = c.meta[1] /\ ColumnMeta(t, i)[2] = c.meta[2]
        /\ c.meta[1] \in 0 .. 255 /\ c.meta[2] \in 0 .. 255 /\ c.meta[2] <= c.meta[1]
    BY <1>2, MetaIsFound, ColumnIs
  <2>2. DecimalBytes(c.meta) \in Nat
    BY <2>1, DecimalTakesBytes
  <2>3. DecimalBytes(ColumnMeta(t, i)) = DecimalBytes(c.meta)
    BY <2>1 DEF DecimalBytes
  <2>4. WireWidth(c) = DecimalBytes(c.meta)
    BY <1>2 DEF WireWidth
  <2>5. CodeWidth(t, i) = DecimalBytes(ColumnMeta(t, i))
    BY <1>2 DEF CodeWidth, WholeBytes
  <2> QED
    BY <2>2, <2>3, <2>4, <2>5
<1>3. CASE c.type = "VARCHAR"
  <2>1. MetaLen(c.type) = 2
    BY <1>3 DEF MetaLen
  <2>4. Len(c.meta) = 2 /\ c.meta \in Seq(0 .. 255)
    BY <2>1, ColumnIs
  <2>5. 1 \in DOMAIN c.meta
    BY <2>4
  <2>2. c.meta[1] \in 0 .. 255
    BY <2>4, <2>5, ElementIs, Zenon
  <2>3. c.type \notin DOMAIN WholeBytes
    BY <1>3 DEF WholeBytes
  <2> QED
    BY <1>3, <2>2, <2>3 DEF WireWidth, CodeWidth, Known
<1>4. CASE c.type \in DOMAIN WholeBytes
  <2>1. c.type # "NEWDECIMAL" /\ c.type # "VARCHAR" /\ WholeBytes[c.type] \in Nat
    BY <1>1, <1>4 DEF WholeBytes
  <2>2. CodeWidth(t, i) = IF c.type \in {"SHORT", "YEAR"} THEN 2 ELSE WholeBytes[c.type]
    BY <1>4, <2>1 DEF CodeWidth
  <2>3. WholeBytes["SHORT"] = 2
    BY DEF WholeBytes
  <2>4. WireWidth(c) \in Nat
    <3>1. CASE c.type \in {"TIMESTAMP2", "DATETIME2", "TIME2"}
      <4>1. MetaLen(c.type) = 1
        BY <3>1 DEF MetaLen
      <4>5. Len(c.meta) = 1 /\ c.meta \in Seq(0 .. 255)
        BY <4>1, ColumnIs
      <4>6. 1 \in DOMAIN c.meta
        BY <4>5
      <4>2. c.meta[1] \in 0 .. 255
        BY <4>5, <4>6, ElementIs, Zenon
      <4>3. FractionBytes(c.meta[1]) \in Nat
        BY <4>2 DEF FractionBytes
      <4>4. WireWidth(c) = WholeBytes[c.type] + FractionBytes(c.meta[1])
        BY <2>1, <3>1 DEF WireWidth
      <4> QED
        BY <2>1, <4>3, <4>4
    <3>2. CASE c.type \notin {"TIMESTAMP2", "DATETIME2", "TIME2"}
      BY <2>1, <3>2 DEF WireWidth
    <3> QED
      BY <3>1, <3>2
  <2>5. Known(c) => CodeWidth(t, i) = WireWidth(c)
    BY <2>1, <2>2, <2>3 DEF Known
  <2> QED
    BY <2>1, <2>2, <2>4, <2>5
<1> QED
  BY <1>2, <1>3, <1>4, ColumnIs DEF MeasuredTypes

\* Nor do any of them together.
LEMMA TotalIsNatural ==
  ASSUME NEW widths, IsFiniteSet(DOMAIN widths), DOMAIN widths \subseteq Int,
         \A i \in DOMAIN widths : widths[i] \in Nat
  PROVE  TotalWidth(widths) \in Nat
<1> DEFINE InGroup(g) == {i \in DOMAIN widths : i \div 16 = g}
           groups == {i \div 16 : i \in DOMAIN widths}
           part(g) == [i \in InGroup(g) |-> widths[i]]
           sums == [g \in groups |-> SumFunction(part(g))]
<1>1. IsFiniteSet(groups)
  <2> DEFINE group == [i \in DOMAIN widths |-> i \div 16]
  <2>1. group \in Surjection(DOMAIN widths, groups)
    BY DEF Surjection
  <2> QED
    BY <2>1, FS_Surjection
<1>2. ASSUME NEW g PROVE SumFunction(part(g)) \in Nat
  <2> DEFINE fun == part(g)
  <2>1. IsFiniteSet(InGroup(g))
    BY FS_Subset
  <2>2. DOMAIN fun = InGroup(g) /\ \A i \in DOMAIN fun : fun[i] \in Nat
    OBVIOUS
  <2> HIDE DEF fun
  <2>3. SumFunction(fun) \in Nat
    BY <2>1, <2>2, SumOfNaturals
  <2> QED
    BY <2>3 DEF fun
<1>3. DOMAIN sums = groups /\ \A g \in DOMAIN sums : sums[g] \in Nat
  BY <1>2
<1> HIDE DEF groups, sums
<1>4. SumFunction(sums) \in Nat
  BY <1>1, <1>3, SumOfNaturals
<1> QED
  BY <1>4 DEF TotalWidth, sums, groups

LEMMA SizesAreNaturals ==
  ASSUME count \in Int, BitmapBytes(count) \in Nat
  PROVE  SizesFetched \subseteq Nat
<1> DEFINE widths == [i \in KnownColumns |-> CodeWidth(tableMap, i)]
<1>1. /\ KnownColumns \subseteq 1 .. count
      /\ KnownColumns # {} => tableMap \in Tables
      /\ tableMap \in Tables => KnownColumns \subseteq DOMAIN Columns[tableMap]
  BY DEF KnownColumns
<1>2. IsFiniteSet(KnownColumns) /\ IsFiniteSet((1 .. count) \ KnownColumns)
  <2>1. IsFiniteSet(1 .. count)
    BY FS_Interval
  <2>2. (1 .. count) \ KnownColumns \subseteq 1 .. count
    OBVIOUS
  <2> QED
    BY <1>1, <2>1, <2>2, FS_Subset
<1>3. UnknownColumns \in Nat
  BY <1>2, FS_CardinalityType DEF UnknownColumns
<1>4. TotalWidth(widths) \in Nat
  <2>1. DOMAIN widths = KnownColumns /\ \A i \in KnownColumns : widths[i] \in Nat
    BY <1>1, WidthsAreNaturals
  <2>2. KnownColumns \subseteq Int
    BY <1>1
  <2> HIDE DEF widths
  <2> QED
    BY <1>2, <2>1, <2>2, TotalIsNatural
<1>5. BitmapBytes(count) \in Nat
  OBVIOUS
<1>6. ASSUME NEW beyond \in 0 .. MaxWidth * UnknownColumns
      PROVE  BitmapBytes(count) + TotalWidth(widths) + beyond \in Nat
  <2> HIDE DEF widths
  <2>1. beyond \in Nat
    BY <1>3 DEF MaxWidth
  <2> QED
    BY <1>4, <1>5, <2>1
<1> HIDE DEF widths
<1> QED
  BY <1>6 DEF SizesFetched, widths

\* In rows_event the bitmap of as many columns as were read has a size.
TypeInv == TypeOK /\ (pc = "rows" => BitmapBytes(count) \in Nat)

\* A column count as the decoder reads it is a signed byte.
LEMMA CountsAreChars ==
  ASSUME NEW t \in Tables, NEW e, e.table = t, NEW n \in CountsRead(e)
  PROVE  n \in -128 .. 127
<1>1. NumberRead(Len(Columns[t])) \in -128 .. 127
  BY EventsAssumption, CharCount
<1>2. 2 \in -128 .. 127
  OBVIOUS
<1>3. n = NumberRead(Len(Columns[t])) \/ n = 2 \/ n \in -128 .. 127
  BY DEF CountsRead
<1> QED
  BY <1>1, <1>2, <1>3, Zenon

LEMMA TypeInit == Init => TypeInv
<1> SUFFICES ASSUME Init PROVE TypeInv
  OBVIOUS
<1>1. statement \in [maps : Seq(Tables), begun : BOOLEAN]
  <2>1. CASE statement = NoStatement
    BY <2>1 DEF NoStatement
  <2>2. ASSUME NEW t \in Tables, NEW b \in BOOLEAN,
               statement = [maps |-> <<t>>, begun |-> b]
        PROVE  statement \in [maps : Seq(Tables), begun : BOOLEAN]
    BY <2>2
  <2> QED
    BY <2>1, <2>2 DEF Init
<1>2. /\ logFormat = 0 /\ post = 0 /\ tableMap = NoMap /\ updateRow = 1
      /\ ev = NoRows /\ count = 0 /\ cursor = 0 /\ fetched = <<>>
      /\ nested = FALSE /\ pc = "event"
  BY DEF Init
<1>3. 0 \in -128 .. 127 /\ <<>> \in Seq([at : Nat, nested : BOOLEAN])
  OBVIOUS
<1> QED
  BY <1>1, <1>2, <1>3 DEF TypeInv, TypeOK

LEMMA TypeNext == TypeInv /\ [Next]_vars => TypeInv'
<1> SUFFICES ASSUME TypeInv, [Next]_vars PROVE TypeInv'
  OBVIOUS
<1> USE DEF TypeInv, TypeOK, masterVars, decoderVars, rowsVars
<1>1. CASE HandleRotate
  BY <1>1 DEF HandleRotate
<1>2. ASSUME NEW format \in Formats, HandleFormatDescription(format)
      PROVE  TypeInv'
  BY <1>2 DEF HandleFormatDescription, PostHeaderLengths
<1>3. ASSUME NEW t \in Tables, HandleTableMap(t)
      PROVE  TypeInv'
  <2>1. /\ statement' = [statement EXCEPT !.maps = Append(@, t)]
        /\ tableMap' \in {t, Garbled}
        /\ pc = "event" /\ pc' \in {"crashed", pc}
        /\ UNCHANGED <<logFormat, post, rowsVars>>
    BY <1>3 DEF HandleTableMap, MapKept
  <2>2. Append(statement.maps, t) \in Seq(Tables)
    OBVIOUS
  <2>3. statement' \in [maps : Seq(Tables), begun : BOOLEAN]
    BY <2>1, <2>2
  <2> QED
    BY <2>1, <2>3
<1>4. ASSUME NEW t \in Tables, NEW e \in RowsEvents(t), NEW last \in BOOLEAN,
             HandleRows(e, last)
      PROVE  TypeInv'
  <2>1. /\ statement' = IF last THEN NoStatement ELSE [statement EXCEPT !.begun = TRUE]
        /\ ev' = e /\ fetched' = <<>> /\ nested' = FALSE
        /\ UNCHANGED <<logFormat, decoderVars, updateRow>>
    BY <1>4 DEF HandleRows
  <2>2. PICK n \in CountsRead(e) :
          /\ count' = n
          /\ IF BitmapBytes(n) >= 0
             THEN /\ cursor' = IdBytesRead(e.kind) + 3 + BitmapBytes(n) * BitmapsRead(e.kind)
                  /\ pc' = "rows"
             ELSE cursor' = 0 /\ pc' = "crashed"
    BY <1>4 DEF HandleRows
  <2>3. n \in -128 .. 127
    <3>1. e.table = t
      BY DEF RowsEvents
    <3> QED
      BY <3>1, CountsAreChars
  <2>4. cursor' \in Nat /\ pc' \in {"rows", "crashed"} /\ (pc' = "rows" => BitmapBytes(count') \in Nat)
    <3>1. IdBytesRead(e.kind) \in {4, 6} /\ BitmapsRead(e.kind) \in {1, 2}
      BY DEF IdBytesRead, BitmapsRead
    <3>2. CASE BitmapBytes(n) >= 0
      <4>1. BitmapBytes(n) \in Nat
        BY <2>3, <3>2 DEF BitmapBytes
      <4> QED
        BY <2>2, <3>1, <3>2, <4>1
    <3>3. CASE ~(BitmapBytes(n) >= 0)
      BY <2>2, <3>3
    <3> QED
      BY <3>2, <3>3
  <2>5. statement' \in [maps : Seq(Tables), begun : BOOLEAN]
    <3>1. statement \in [maps : Seq(Tables), begun : BOOLEAN]
      OBVIOUS
    <3>2. NoStatement \in [maps : Seq(Tables), begun : BOOLEAN]
      BY DEF NoStatement
    <3> HIDE DEF TypeInv, TypeOK
    <3> QED
      BY <2>1, <3>1, <3>2
  <2>6. fetched' \in Seq([at : Nat, nested : BOOLEAN])
    BY <2>1
  <2> QED
    BY <2>1, <2>2, <2>3, <2>4, <2>5, <2>6
<1>5. CASE FetchRow
  <2> DEFINE call == [at |-> cursor, nested |-> nested]
  <2>1. /\ fetched' = IF Len(fetched) = MaxFetched THEN fetched ELSE Append(fetched, call)
        /\ pc = "rows" /\ updateRow' = (updateRow + 1) % 2
        /\ nested' = Nests(ev.kind, updateRow')
        /\ UNCHANGED <<masterVars, decoderVars, ev, count, pc>>
    BY <1>5 DEF FetchRow
  <2>2. PICK size \in SizesFetched : cursor' = cursor + size
    BY <1>5 DEF FetchRow
  <2>3. cursor' \in Nat
    <3>1. count \in Int /\ BitmapBytes(count) \in Nat
      BY <2>1
    <3>2. size \in Nat
      BY <3>1, SizesAreNaturals
    <3> QED
      BY <2>2, <3>2
  <2>4. call \in [at : Nat, nested : BOOLEAN]
    OBVIOUS
  <2>5. fetched' \in Seq([at : Nat, nested : BOOLEAN])
    <3>1. fetched \in Seq([at : Nat, nested : BOOLEAN])
      OBVIOUS
    <3> HIDE DEF call, TypeInv, TypeOK
    <3>2. Append(fetched, call) \in Seq([at : Nat, nested : BOOLEAN])
      BY <2>4, <3>1, AppendIs, Zenon
    <3> QED
      BY <2>1, <3>1, <3>2, Zenon
  <2>6. updateRow' \in {0, 1} /\ nested' \in BOOLEAN
    BY <2>1 DEF Nests
  <2> QED
    BY <2>1, <2>3, <2>5, <2>6
<1>6. CASE FetchCrashes
  BY <1>6 DEF FetchCrashes
<1>7. CASE RowsDone
  BY <1>7 DEF RowsDone
<1>8. CASE Crashed \/ UNCHANGED vars
  <2>1. UNCHANGED vars
    BY <1>8 DEF Crashed
  <2> QED
    BY <2>1 DEF vars
<1> QED
  BY <1>1, <1>2, <1>3, <1>4, <1>5, <1>6, <1>7, <1>8 DEF Next

\* For any tables, however many a statement writes: what is read from the wrong
\* map or past its end never moves the cursor back, and a count that was read as
\* negative is gone on with only where the bitmap for it takes no bytes.
THEOREM TypeCorrect == Spec => []TypeOK
<1>1. TypeInv => TypeOK
  BY DEF TypeInv
<1> QED
  BY TypeInit, TypeNext, <1>1, PTL DEF Spec
-----------------------------------------------------------------------------
(***************************************************************************)
(* The images of an event lie one behind the other, and none is empty.     *)
(***************************************************************************)

LEMMA RowsEventIs ==
  ASSUME NEW t \in Tables, NEW e \in RowsEvents(t)
  PROVE  /\ e.table = t /\ e.kind \in KindsV1 \cup KindsV2
         /\ Len(e.nulls) \in 1 .. 2 * MaxRows
         /\ DOMAIN e.nulls = 1 .. Len(e.nulls)
         /\ \A k \in 1 .. Len(e.nulls) : e.nulls[k] \in NullSets(t)
<1>1. /\ e.table = t /\ e.kind \in Kinds
      /\ e.nulls \in UNION {[1 .. n -> NullSets(t)] : n \in 1 .. 2 * MaxRows}
  BY DEF RowsEvents
<1>2. PICK n \in 1 .. 2 * MaxRows : e.nulls \in [1 .. n -> NullSets(t)]
  BY <1>1
<1>3. MaxRows \in Nat /\ Kinds \subseteq KindsV1 \cup KindsV2
  BY EventsAssumption
<1>4. n \in Nat
  BY <1>3
<1>5. e.nulls \in Seq(NullSets(t)) /\ Len(e.nulls) = n
  BY <1>2, <1>4
<1> QED
  BY <1>1, <1>2, <1>3, <1>5

LEMMA ImagesAreThere ==
  ASSUME NEW t \in Tables, NEW e \in RowsEvents(t), NEW k \in 1 .. Len(e.nulls)
  PROVE  ImageSize(e, k) \in Nat \ {0}
<1> DEFINE present == DOMAIN Columns[e.table] \ e.nulls[k]
           widths == [i \in present |-> WireWidth(Columns[e.table][i])]
<1>1. e.table = t
  BY RowsEventIs
<1>2. IsFiniteSet(present)
  BY <1>1, ColumnsOf, FS_Subset
<1>3. DOMAIN widths = present /\ \A i \in present : widths[i] \in Nat
  BY <1>1, WidthsAreNaturals
<1>4. ImageSize(e, k) = NullBytes(e.table) + TotalWidth(widths)
  BY DEF ImageSize
<1>7. present \subseteq Int
  BY <1>1, ColumnsOf
<1> HIDE DEF widths
<1>5. TotalWidth(widths) \in Nat
  BY <1>2, <1>3, <1>7, TotalIsNatural
<1>6. NullBytes(e.table) \in Nat \ {0}
  BY <1>1, ColumnsOf
<1> QED
  BY <1>4, <1>5, <1>6

\* Where the first of them starts, and each other one.
LEMMA ImagesFollow ==
  ASSUME NEW t \in Tables, NEW e \in RowsEvents(t)
  PROVE  /\ ImageStart(e, 1) \in Nat
         /\ ImageStart(e, 1) = CountAt(e.kind) + Len(LengthEncoded(Len(Columns[t])))
                                  + NullBytes(t) * ImagesOfRow(e.kind)
         /\ \A k \in 1 .. Len(e.nulls) :
              /\ ImageStart(e, k) \in Nat
              /\ ImageStart(e, k + 1) = ImageStart(e, k) + ImageSize(e, k)
         /\ BodySize(e) \in Nat
         /\ ImageStart(e, 1) < BodySize(e)
<1> DEFINE base == CountAt(e.kind) + Len(LengthEncoded(Len(Columns[t])))
                     + NullBytes(t) * ImagesOfRow(e.kind)
           sizes(k) == [j \in 1 .. k - 1 |-> ImageSize(e, j)]
           m == Len(e.nulls)
<1>1. e.table = t /\ m \in Nat \ {0}
  <2>1. 2 * MaxRows \in Nat
    BY EventsAssumption
  <2> QED
    BY <2>1, RowsEventIs
<1>2. base \in Nat
  <2>1. NullBytes(t) \in Nat
    BY ColumnsOf
  <2>2. ImagesOfRow(e.kind) \in {1, 2}
    BY DEF ImagesOfRow
  <2>3. CountAt(e.kind) \in Nat
    BY DEF CountAt, TableIdBytes
  <2>4. NullBytes(t) * ImagesOfRow(e.kind) \in Nat
    BY <2>1, <2>2
  <2>5. Len(LengthEncoded(Len(Columns[t]))) \in Nat
    BY DEF LengthEncoded
  <2> QED
    BY <2>3, <2>4, <2>5
<1>3. \A k : ImageStart(e, k) = base + SumFunction(sizes(k))
  BY <1>1 DEF ImageStart
<1> HIDE DEF base
<1>4. \A j \in 1 .. m : ImageSize(e, j) \in Nat \ {0}
  BY ImagesAreThere
<1>5. SumFunction(sizes(1)) = 0
  BY SumOfNone
<1>6. ASSUME NEW k \in 1 .. m + 1
      PROVE  /\ SumFunction(sizes(k)) \in Nat
             /\ \A j \in 1 .. k - 1 : ImageSize(e, j) <= SumFunction(sizes(k))
  <2>1. /\ DOMAIN sizes(k) = 1 .. k - 1 /\ IsFiniteSet(1 .. k - 1)
        /\ \A j \in 1 .. k - 1 : sizes(k)[j] = ImageSize(e, j) /\ sizes(k)[j] \in Nat
    <3>1. k - 1 \in Int /\ \A j \in 1 .. k - 1 : j \in 1 .. m
      BY <1>1
    <3>2. IsFiniteSet(1 .. k - 1)
      BY <3>1, FS_Interval
    <3> HIDE DEF m
    <3> QED
      BY <1>4, <3>1, <3>2
  <2> DEFINE fun == sizes(k)
  <2> HIDE DEF sizes, fun
  <2>2. DOMAIN fun = 1 .. k - 1 /\ \A x \in DOMAIN fun : fun[x] \in Nat
    BY <2>1 DEF fun
  <2>3. /\ SumFunction(fun) \in Nat
        /\ \A x \in DOMAIN fun : fun[x] <= SumFunction(fun)
    BY <2>1, <2>2, SumOfNaturals
  <2> QED
    BY <2>1, <2>2, <2>3 DEF fun
<1>7. ASSUME NEW k \in 1 .. m
      PROVE  SumFunction(sizes(k + 1)) = SumFunction(sizes(k)) + ImageSize(e, k)
  <2> DEFINE fun == sizes(k + 1)
  <2>1. /\ DOMAIN fun = 1 .. k /\ k \in Nat /\ k > 0 /\ fun[k] = ImageSize(e, k)
        /\ \A j \in 1 .. k : fun[j] \in Int
        /\ [j \in 1 .. k - 1 |-> fun[j]] = sizes(k)
    BY <1>1, <1>4
  <2> HIDE DEF fun, sizes
  <2>2. SumFunction(fun) = SumFunction([j \in 1 .. k - 1 |-> fun[j]]) + fun[k]
    BY <2>1, SumUpTo
  <2> QED
    BY <2>1, <2>2 DEF fun
<1>8. /\ \A k \in 1 .. m + 1 : ImageStart(e, k) \in Nat
      /\ \A k \in 1 .. m : ImageStart(e, k + 1) = ImageStart(e, k) + ImageSize(e, k)
  <2> HIDE DEF sizes, m
  <2>1. ASSUME NEW k \in 1 .. m + 1 PROVE ImageStart(e, k) \in Nat
    BY <1>2, <1>3, <1>6
  <2>2. ASSUME NEW k \in 1 .. m
        PROVE  ImageStart(e, k + 1) = ImageStart(e, k) + ImageSize(e, k)
    <3>1. k \in 1 .. m + 1
      BY <1>1
    <3>2. SumFunction(sizes(k)) \in Nat /\ ImageSize(e, k) \in Nat
      BY <1>4, <1>6, <3>1
    <3>3. ImageStart(e, k + 1) = base + SumFunction(sizes(k + 1))
      BY <1>3
    <3>4. ImageStart(e, k) = base + SumFunction(sizes(k))
      BY <1>3
    <3> QED
      BY <1>2, <1>7, <3>2, <3>3, <3>4
  <2> QED
    BY <2>1, <2>2
<1>9. ImageStart(e, 1) = base
  <2>1. ImageStart(e, 1) = base + SumFunction(sizes(1))
    BY <1>3, Zenon
  <2> HIDE DEF sizes
  <2> QED
    BY <1>2, <1>5, <2>1
<1>10. ImageStart(e, 1) < ImageStart(e, m + 1)
  <2> HIDE DEF sizes, m
  <2>1. m + 1 \in 1 .. m + 1 /\ 1 \in 1 .. (m + 1) - 1 /\ 1 \in 1 .. m
    BY <1>1
  <2>2. SumFunction(sizes(m + 1)) \in Nat /\ ImageSize(e, 1) <= SumFunction(sizes(m + 1))
    BY <1>6, <2>1
  <2>3. ImageStart(e, m + 1) = base + SumFunction(sizes(m + 1))
    BY <1>3
  <2>4. ImageSize(e, 1) \in Nat \ {0}
    BY <1>4, <2>1
  <2> QED
    BY <1>2, <1>9, <2>2, <2>3, <2>4
<1>11. BodySize(e) = ImageStart(e, m + 1)
  BY DEF BodySize
<1> HIDE DEF m
<1>12. \A k \in 1 .. m : k \in 1 .. m + 1
  BY <1>1
<1>13. m + 1 \in 1 .. m + 1
  BY <1>1
<1>14. \A k \in 1 .. m : ImageStart(e, k) \in Nat
  BY <1>8, <1>12
<1>15. BodySize(e) \in Nat
  BY <1>8, <1>11, <1>13
<1> QED
  BY <1>2, <1>8, <1>9, <1>10, <1>11, <1>14, <1>15 DEF base, m
-----------------------------------------------------------------------------
(***************************************************************************)
(* After an update of v1 the parity is 1, whatever it was before and       *)
(* whatever the event was misread for: the header of the event is read     *)
(* right, so that there is an image to fetch, and the last call was not    *)
(* one that nests.                                                         *)
(***************************************************************************)

LEMMA FormatNext == FormatOfLogKept /\ [Next]_vars => FormatOfLogKept'
<1> SUFFICES ASSUME FormatOfLogKept, [Next]_vars PROVE FormatOfLogKept'
  OBVIOUS
<1> USE DEF FormatOfLogKept
<1>1. CASE HandleRotate
  BY <1>1 DEF HandleRotate
<1>2. CASE \E format \in Formats : HandleFormatDescription(format)
  BY <1>2 DEF HandleFormatDescription, PostHeaderLengths
<1>3. CASE UNCHANGED <<logFormat, post>>
  BY <1>3
<1>4. CASE \E t \in Tables : HandleTableMap(t)
  BY <1>4 DEF HandleTableMap
<1>5. CASE \E t \in Tables : \E e \in RowsEvents(t), last \in BOOLEAN : HandleRows(e, last)
  BY <1>5 DEF HandleRows, decoderVars
<1>6. CASE FetchRow \/ FetchCrashes \/ RowsDone
  BY <1>6 DEF FetchRow, FetchCrashes, RowsDone, masterVars, decoderVars
<1>7. CASE Crashed \/ UNCHANGED vars
  BY <1>7 DEF Crashed, vars, masterVars, decoderVars
<1> QED
  BY <1>1, <1>2, <1>4, <1>5, <1>6, <1>7 DEF Next

\* What the decoder reads of a v1 event before its images is right, if it reads
\* the count, and ends before them in any case.
LEMMA HeaderIsRead ==
  ASSUME FormatOfLogKept, NEW t \in Tables, NEW e \in RowsEvents(t), NEW last,
         HandleRows(e, last), e.kind \in KindsV1, pc' = "rows"
  PROVE  /\ cursor' \in Nat /\ cursor' <= ImageStart(e, 1)
         /\ FitsInAChar(Len(Columns[t])) =>
              count' = Len(Columns[t]) /\ cursor' = ImageStart(e, 1)
<1> DEFINE columns == Len(Columns[t])
<1>1. e.table = t
  BY RowsEventIs
<1>2. logFormat # 0
  BY DEF HandleRows
<1>3. PICK n \in CountsRead(e) :
        /\ count' = n /\ BitmapBytes(n) >= 0
        /\ cursor' = IdBytesRead(e.kind) + 3 + BitmapBytes(n) * BitmapsRead(e.kind)
  BY DEF HandleRows
<1>4. n = NumberRead(columns)
  BY <1>1, <1>2, CountIsRead
<1>5. /\ columns \in Nat /\ columns > 0
      /\ columns < 128 => NumberRead(columns) = columns
      /\ columns >= 128 => NumberRead(columns) \in -128 .. -1
      /\ FitsInAChar(columns) <=> columns < 128
  BY TableCount, ColumnNumbers, Zenon
<1>6. columns < 128 => Len(LengthEncoded(columns)) = 1
  BY DEF LengthEncoded
<1>7. Len(LengthEncoded(columns)) \in {1, 3}
  BY DEF LengthEncoded
<1>8. BitmapsRead(e.kind) = ImagesOfRow(e.kind) /\ ImagesOfRow(e.kind) \in {1, 2}
  BY DEF BitmapsRead, ImagesOfRow, UpdateKinds, KindsV1
<1>9. CountAt(e.kind) = IdBytesRead(e.kind) + 2 /\ IdBytesRead(e.kind) \in Nat
  <2>1. e.kind \notin KindsV2
    BY DEF KindsV1, KindsV2
  <2> QED
    BY <1>2, <2>1 DEF IdBytesRead, PostHeaderLength, CountAt, TableIdBytes, FormatOfLogKept
<1>10. ImageStart(e, 1) = IdBytesRead(e.kind) + 2 + Len(LengthEncoded(columns))
                            + NullBytes(t) * ImagesOfRow(e.kind)
  BY <1>9, ImagesFollow
<1>11. NullBytes(t) * ImagesOfRow(e.kind) \in Nat
  <2>1. NullBytes(t) \in Nat
    BY ColumnsOf
  <2> QED
    BY <1>8, <2>1
<1>12. BitmapBytes(columns) = NullBytes(t)
  <2>1. \A c \in Nat : BitmapBytes(c) = (c + 7) \div 8
    BY DEF BitmapBytes
  <2> QED
    BY <1>5, <2>1, Zenon DEF NullBytes
<1> HIDE DEF columns
<1>13. CASE columns < 128
  <2>1. n = columns /\ BitmapBytes(n) = NullBytes(t)
    BY <1>4, <1>5, <1>12, <1>13
  <2>2. cursor' = IdBytesRead(e.kind) + 3 + NullBytes(t) * ImagesOfRow(e.kind)
    BY <1>3, <1>8, <2>1
  <2> DEFINE bitmaps == NullBytes(t) * ImagesOfRow(e.kind)
  <2>3. bitmaps \in Nat /\ cursor' = IdBytesRead(e.kind) + 3 + bitmaps
        /\ ImageStart(e, 1) = IdBytesRead(e.kind) + 2 + 1 + bitmaps
    BY <1>6, <1>10, <1>11, <1>13, <2>2
  <2> HIDE DEF bitmaps
  <2>4. cursor' = ImageStart(e, 1) /\ cursor' \in Nat /\ cursor' <= ImageStart(e, 1)
    BY <1>9, <2>3
  <2> QED
    BY <1>3, <2>1, <2>4 DEF columns
<1>14. CASE ~(columns < 128)
  <2>1. n \in -128 .. -1
    BY <1>4, <1>5, <1>14
  <2>2. BitmapBytes(n) = 0
    BY <1>3, <2>1 DEF BitmapBytes
  <2>3. cursor' = IdBytesRead(e.kind) + 3
    BY <1>3, <1>8, <1>9, <2>2
  <2> DEFINE bitmaps == NullBytes(t) * ImagesOfRow(e.kind)
  <2>4. bitmaps \in Nat /\ ImageStart(e, 1) = IdBytesRead(e.kind) + 2
                              + Len(LengthEncoded(columns)) + bitmaps
    BY <1>10, <1>11
  <2> HIDE DEF bitmaps
  <2>6. \A id, more \in Nat, length \in {1, 3} :
          id + 3 \in Nat /\ id + 3 <= id + 2 + length + more
    OBVIOUS
  <2>5. cursor' \in Nat /\ cursor' <= ImageStart(e, 1)
    BY <1>7, <1>9, <2>3, <2>4, <2>6, Zenon
  <2> QED
    BY <1>5, <1>14, <2>5 DEF columns
<1> QED
  BY <1>13, <1>14

RestoringInv ==
  pc = "rows" /\ ev.kind = "UPDATE_ROWS_EVENTv1" =>
    /\ fetched = <<>> => cursor < BodySize(ev)
    /\ nested <=> fetched # <<>> /\ updateRow = 0

\* While the master's part and the event stay what they are, so does its layout.
LEMMA LayoutStays ==
  ASSUME UNCHANGED <<logFormat, ev>>
  PROVE  /\ BodySize(ev)' = BodySize(ev)
         /\ \A k : ImageStart(ev, k)' = ImageStart(ev, k)
BY DEF BodySize, ImageStart, CountAt, TableIdBytes

LEMMA RestoringNext ==
  TypeInv /\ FormatOfLogKept /\ RestoringInv /\ [Next]_vars => RestoringInv'
<1> SUFFICES ASSUME TypeInv, FormatOfLogKept, RestoringInv, [Next]_vars,
                    pc' = "rows", ev'.kind = "UPDATE_ROWS_EVENTv1"
             PROVE  /\ fetched' = <<>> => cursor' < BodySize(ev)'
                    /\ nested' <=> fetched' # <<>> /\ updateRow' = 0
  BY DEF RestoringInv
<1>1. CASE FetchRow
  <2> DEFINE call == [at |-> cursor, nested |-> nested]
  <2>1. /\ fetched' = IF Len(fetched) = MaxFetched THEN fetched ELSE Append(fetched, call)
        /\ ev' = ev /\ nested' = Nests(ev.kind, updateRow')
    BY <1>1 DEF FetchRow
  <2>2. fetched \in Seq([at : Nat, nested : BOOLEAN])
    BY DEF TypeInv, TypeOK
  <2>3. MaxFetched # 0
    BY EventsAssumption DEF MaxFetched
  <2>4. fetched' # <<>>
    <3> HIDE DEF call
    <3> QED
      BY <2>1, <2>2, <2>3
  <2> QED
    BY <2>1, <2>4 DEF Nests
<1>2. ASSUME NEW t \in Tables, NEW e \in RowsEvents(t), NEW last \in BOOLEAN,
             HandleRows(e, last)
      PROVE  /\ fetched' = <<>> => cursor' < BodySize(ev)'
             /\ nested' <=> fetched' # <<>> /\ updateRow' = 0
  <2>1. ev' = e /\ fetched' = <<>> /\ nested' = FALSE /\ logFormat' = logFormat
    BY <1>2 DEF HandleRows
  <2>2. cursor' \in Nat /\ cursor' <= ImageStart(e, 1)
    <3>1. e.kind \in KindsV1
      BY <2>1 DEF KindsV1
    <3> QED
      BY <1>2, <3>1, HeaderIsRead
  <2>3. BodySize(ev)' = BodySize(e)
    BY <2>1 DEF BodySize, ImageStart, CountAt, TableIdBytes
  <2>4. ImageStart(e, 1) < BodySize(e) /\ ImageStart(e, 1) \in Nat /\ BodySize(e) \in Nat
    BY ImagesFollow
  <2>5. cursor' < BodySize(e)
    BY <2>2, <2>4
  <2> QED
    BY <2>1, <2>3, <2>5
<1>3. CASE Crashed \/ UNCHANGED vars
  <2>1. UNCHANGED vars
    BY <1>3 DEF Crashed
  <2>2. UNCHANGED <<logFormat, ev, pc, fetched, nested, updateRow, cursor>>
    BY <2>1 DEF vars, masterVars, rowsVars
  <2> QED
    BY <2>2, LayoutStays DEF RestoringInv
<1>4. CASE \/ HandleRotate \/ FetchCrashes \/ RowsDone
           \/ \E format \in Formats : HandleFormatDescription(format)
           \/ \E t \in Tables : HandleTableMap(t)
  BY <1>4 DEF HandleRotate, FetchCrashes, RowsDone, HandleFormatDescription, HandleTableMap
<1> QED
  BY <1>1, <1>2, <1>3, <1>4 DEF Next

\* Any update of v1 leaves the parity at 1, in statements of any number of
\* tables and with a table map of any table, or none.
THEOREM UpdatesRestoreThePhase == Spec => UpdateRestoresPhase
<1> DEFINE Inv == TypeInv /\ FormatOfLogKept /\ RestoringInv
<1>1. Init => Inv
  <2>1. Init => FormatOfLogKept /\ RestoringInv
    BY DEF Init, FormatOfLogKept, RestoringInv
  <2> QED
    BY <2>1, TypeInit
<1>2. Inv /\ [Next]_vars => Inv'
  BY TypeNext, FormatNext, RestoringNext
<1>3. Inv /\ [Next]_vars =>
        [RowsDone /\ ev.kind = "UPDATE_ROWS_EVENTv1" => updateRow = 1]_vars
  <2> SUFFICES ASSUME Inv, RowsDone, ev.kind = "UPDATE_ROWS_EVENTv1"
               PROVE  updateRow = 1
    OBVIOUS
  <2>1. pc = "rows" /\ ~nested /\ ~(cursor < BodySize(ev))
    BY DEF RowsDone, MoreToFetch
  <2>2. fetched # <<>> /\ updateRow # 0
    BY <2>1 DEF RestoringInv
  <2> QED
    BY <2>2 DEF TypeInv, TypeOK
<1> QED
  BY <1>1, <1>2, <1>3, PTL DEF Spec, UpdateRestoresPhase
-----------------------------------------------------------------------------
(***************************************************************************)
(* A table of columns of known widths that are never NULL: all its images  *)
(* are of one size, which is what the decoder advances by.  So calls and   *)
(* images go side by side, until the event is used up or, in an update     *)
(* that started out of phase, one call goes past its end.                  *)
(***************************************************************************)

LEMMA KnownSizes ==
  ASSUME NEW t \in Tables, NEW e \in RowsEvents(t), KnownTable(t),
         tableMap = t, count = Len(Columns[t]), NEW k \in 1 .. Len(e.nulls)
  PROVE  SizesFetched = {ImageSize(e, k)}
<1> DEFINE wire == [i \in DOMAIN Columns[t] |-> WireWidth(Columns[t][i])]
           code == [i \in KnownColumns |-> CodeWidth(t, i)]
<1>1. e.table = t /\ e.nulls[k] = {}
  <2>1. e.nulls[k] \in NullSets(t) /\ e.table = t
    BY RowsEventIs
  <2>2. \A i \in DOMAIN Columns[t] : ~Columns[t][i].null
    BY DEF KnownTable, Known
  <2> QED
    BY <2>1, <2>2 DEF NullSets
<1>2. ImageSize(e, k) = NullBytes(t) + TotalWidth(wire)
  BY <1>1 DEF ImageSize
<1>3. KnownColumns = DOMAIN Columns[t]
  <2>1. DOMAIN Columns[t] = 1 .. Len(Columns[t])
    BY ColumnsOf
  <2> QED
    BY <2>1 DEF KnownColumns
<1>4. code = wire
  <2>1. \A i \in DOMAIN Columns[t] : CodeWidth(t, i) = WireWidth(Columns[t][i])
    BY WidthsAreNaturals DEF KnownTable
  <2> QED
    BY <1>3, <2>1
<1>5. UnknownColumns = 0
  BY NoColumnIsUnknown
<1>6. BitmapBytes(count) = NullBytes(t)
  <2>1. count \in Nat
    BY ColumnsOf, ColumnNumbers, Zenon
  <2>2. \A n \in Nat : BitmapBytes(n) = (n + 7) \div 8
    BY DEF BitmapBytes
  <2> QED
    BY <2>1, <2>2, Zenon DEF NullBytes
<1>7. ImageSize(e, k) \in Nat
  BY ImagesAreThere
<1>8. SizesFetched = {BitmapBytes(count) + TotalWidth(code) + beyond :
                        beyond \in 0 .. MaxWidth * UnknownColumns}
  BY DEF SizesFetched
<1>9. 0 .. MaxWidth * UnknownColumns = {0}
  BY <1>5 DEF MaxWidth
<1> HIDE DEF code, wire
<1>10. SizesFetched = {ImageSize(e, k) + beyond : beyond \in {0}}
  BY <1>2, <1>4, <1>6, <1>8, <1>9
<1> QED
  BY <1>7, <1>10

CallsAtImages ==
  \A k \in DOMAIN fetched : k <= Len(ev.nulls) => fetched[k].at = ImageStart(ev, k)

KnownImagesInv ==
  pc = "rows" /\ KnownEvent =>
    /\ CallsAtImages
    /\ \/ /\ Len(fetched) <= Len(ev.nulls)
          /\ cursor = ImageStart(ev, Len(fetched) + 1)
       \/ /\ Len(fetched) = Len(ev.nulls) + 1
          /\ ev.kind \in UpdateKinds
          /\ ~nested /\ cursor >= BodySize(ev)
    /\ nested => ev.kind = "UPDATE_ROWS_EVENTv1" /\ updateRow = 0

LEMMA KnownImagesFetch ==
  ASSUME TypeInv, MapInv, KnownImagesInv, FetchRow, KnownEvent
  PROVE  KnownImagesInv'
<1> DEFINE n == Len(fetched)
           m == Len(ev.nulls)
           call == [at |-> cursor, nested |-> nested]
<1>1. /\ pc = "rows" /\ MoreToFetch
      /\ tableMap # NoMap \/ count <= 0
      /\ updateRow' = (updateRow + 1) % 2
      /\ nested' = Nests(ev.kind, updateRow')
      /\ UNCHANGED <<masterVars, decoderVars, ev, count, pc>>
  BY DEF FetchRow
<1>2. fetched \in Seq([at : Nat, nested : BOOLEAN]) /\ n \in Nat /\ cursor \in Nat
      /\ updateRow \in {0, 1}
  BY DEF TypeInv, TypeOK
<1>3. PICK t \in Tables : ev \in RowsEvents(t)
  BY DEF TypeInv, TypeOK, NoRows, KnownEvent, KindsV1
<1>4. /\ ev.table = t /\ m \in 1 .. 2 * MaxRows /\ KnownTable(t)
  BY <1>3, RowsEventIs DEF KnownEvent
<1>5. tableMap = t /\ count = Len(Columns[t])
  <2> DEFINE columns == Len(Columns[t])
  <2>1. tableMap \in {NoMap, t} /\ count = NumberRead(columns)
    BY <1>1, <1>4 DEF MapInv, MapOfEventKept, KnownEvent
  <2>2. FitsInAChar(columns)
    BY <1>4 DEF KnownTable
  <2>3. /\ columns \in 1 .. MaxColumns /\ (columns < 128 => NumberRead(columns) = columns)
        /\ FitsInAChar(columns) <=> columns < 128
    BY TableCount
  <2> HIDE DEF columns
  <2>4. count = columns /\ ~(count <= 0)
    BY <2>1, <2>2, <2>3, ColumnNumbers
  <2> QED
    BY <1>1, <2>1, <2>4 DEF columns
<1>6. n <= m /\ cursor = ImageStart(ev, n + 1)
  <2>1. \/ n <= m /\ cursor = ImageStart(ev, n + 1)
        \/ ~nested /\ cursor >= BodySize(ev)
    BY <1>1 DEF KnownImagesInv
  <2>2. BodySize(ev) \in Nat
    BY <1>3, ImagesFollow
  <2>3. ~(~nested /\ cursor >= BodySize(ev))
    BY <1>1, <1>2, <2>2 DEF MoreToFetch
  <2> QED
    BY <2>1, <2>3
<1>7. fetched' = Append(fetched, call)
  <2>1. n # MaxFetched
    BY <1>2, <1>4, <1>6, EventsAssumption DEF MaxFetched
  <2> QED
    BY <2>1 DEF FetchRow
<1>8. Len(fetched') = n + 1
  BY <1>2, <1>7
<1>9. \A k : ImageStart(ev, k)' = ImageStart(ev, k)
  BY <1>1, LayoutStays DEF masterVars
<1>10. BodySize(ev)' = BodySize(ev)
  BY <1>1, LayoutStays DEF masterVars
<1>11. CallsAtImages'
  <2> SUFFICES ASSUME NEW k \in DOMAIN fetched', k <= m
               PROVE  fetched'[k].at = ImageStart(ev, k)
    BY <1>1, <1>9 DEF CallsAtImages
  <2>1. k \in 1 .. n + 1
    BY <1>2, <1>7, <1>8
  <2>2. CASE k = n + 1
    <3>1. fetched'[k] = call
      BY <1>2, <1>7, <2>2
    <3> QED
      BY <1>6, <2>2, <3>1
  <2>3. CASE k # n + 1
    <3>1. k \in DOMAIN fetched /\ fetched'[k] = fetched[k]
      BY <1>2, <1>7, <2>1, <2>3
    <3> QED
      BY <1>1, <3>1 DEF KnownImagesInv, CallsAtImages
  <2> QED
    BY <2>2, <2>3
<1>12. nested' => ev.kind = "UPDATE_ROWS_EVENTv1" /\ updateRow' = 0
  BY <1>1 DEF Nests
<1>13. CASE n < m
  <2>1. n + 1 \in 1 .. m
    BY <1>2, <1>13
  <2>2. PICK size \in SizesFetched : cursor' = cursor + size
    BY DEF FetchRow
  <2>3. size = ImageSize(ev, n + 1)
    BY <1>3, <1>4, <1>5, <2>1, <2>2, KnownSizes
  <2>4. ImageStart(ev, n + 1 + 1) = ImageStart(ev, n + 1) + ImageSize(ev, n + 1)
    BY <1>3, <2>1, ImagesFollow
  <2>5. cursor' = ImageStart(ev, Len(fetched') + 1)
    BY <1>6, <1>8, <2>2, <2>3, <2>4
  <2>6. Len(fetched') <= m
    BY <1>2, <1>4, <1>8, <1>13
  <2> QED
    BY <1>1, <1>9, <1>11, <1>12, <2>5, <2>6 DEF KnownImagesInv
<1>14. CASE n = m
  <2>1. cursor = BodySize(ev) /\ BodySize(ev) \in Nat
    BY <1>3, <1>6, <1>14, ImagesFollow DEF BodySize
  <2>2. nested
    BY <1>1, <2>1 DEF MoreToFetch
  <2>3. ev.kind = "UPDATE_ROWS_EVENTv1" /\ updateRow = 0
    BY <1>1, <2>2 DEF KnownImagesInv
  <2>4. ~nested'
    <3>1. updateRow' = 1
      BY <1>1, <2>3
    <3>2. updateRow' # 0
      BY <3>1
    <3> QED
      BY <1>1, <3>2, Zenon DEF Nests
  <2>5. cursor' >= BodySize(ev)
    <3>1. PICK size \in SizesFetched : cursor' = cursor + size
      BY DEF FetchRow
    <3>2. count \in Int /\ BitmapBytes(count) \in Nat
      BY <1>1 DEF TypeInv, TypeOK
    <3>3. size \in Nat
      BY <3>2, SizesAreNaturals
    <3> QED
      BY <2>1, <3>1, <3>3
  <2>6. ev.kind \in UpdateKinds
    BY <2>3 DEF UpdateKinds
  <2>7. Len(fetched') = m + 1
    BY <1>8, <1>14
  <2> QED
    BY <1>1, <1>10, <1>11, <2>4, <2>5, <2>6, <2>7 DEF KnownImagesInv
<1> QED
  BY <1>2, <1>4, <1>6, <1>13, <1>14

LEMMA KnownImagesNext ==
  TypeInv /\ MapInv /\ KnownImagesInv /\ [Next]_vars => KnownImagesInv'
<1> SUFFICES ASSUME TypeInv, MapInv, KnownImagesInv, [Next]_vars PROVE KnownImagesInv'
  OBVIOUS
<1>1. CASE FetchRow
  <2>1. CASE KnownEvent
    BY <1>1, <2>1, KnownImagesFetch
  <2>2. CASE ~KnownEvent
    BY <1>1, <2>2 DEF FetchRow, KnownImagesInv, KnownEvent
  <2> QED
    BY <2>1, <2>2
<1>2. ASSUME NEW t \in Tables, NEW e \in RowsEvents(t), NEW last \in BOOLEAN,
             HandleRows(e, last)
      PROVE  KnownImagesInv'
  <2>1. ev' = e /\ fetched' = <<>> /\ nested' = FALSE /\ logFormat' = logFormat
    BY <1>2 DEF HandleRows
  <2> SUFFICES ASSUME pc' = "rows", e.kind \in KindsV1, KnownTable(e.table)
               PROVE  KnownImagesInv'
    BY <2>1 DEF KnownImagesInv, KnownEvent
  <2>2. cursor' = ImageStart(e, 1)
    <3>1. FitsInAChar(Len(Columns[t]))
      BY RowsEventIs DEF KnownTable
    <3> QED
      BY <1>2, <3>1, HeaderIsRead DEF MapInv
  <2>3. ImageStart(ev, 1)' = ImageStart(e, 1)
    BY <2>1 DEF ImageStart, CountAt, TableIdBytes
  <2>4. Len(e.nulls) >= 0
    <3>1. 2 * MaxRows \in Nat
      BY EventsAssumption
    <3>2. Len(e.nulls) \in 1 .. 2 * MaxRows
      BY RowsEventIs
    <3> QED
      BY <3>1, <3>2
  <2>5. Len(fetched') = 0 /\ DOMAIN fetched' = {}
    BY <2>1
  <2>6. CallsAtImages'
    BY <2>5 DEF CallsAtImages
  <2> QED
    BY <2>1, <2>2, <2>3, <2>4, <2>5, <2>6 DEF KnownImagesInv
<1>3. CASE Crashed \/ UNCHANGED vars
  <2>1. UNCHANGED vars
    BY <1>3 DEF Crashed
  <2>2. UNCHANGED <<logFormat, ev, pc, fetched, nested, updateRow, cursor>>
    BY <2>1 DEF vars, masterVars, rowsVars
  <2> QED
    BY <2>2, LayoutStays DEF KnownImagesInv, CallsAtImages, KnownEvent
<1>4. CASE \/ HandleRotate \/ FetchCrashes \/ RowsDone
           \/ \E format \in Formats : HandleFormatDescription(format)
           \/ \E t \in Tables : HandleTableMap(t)
  <2>1. pc' # "rows"
    BY <1>4 DEF HandleRotate, FetchCrashes, RowsDone, HandleFormatDescription, HandleTableMap
  <2> QED
    BY <2>1 DEF KnownImagesInv
<1> QED
  BY <1>1, <1>2, <1>3, <1>4 DEF Next

LEMMA KnownImages ==
  ASSUME MaxTables = 1
  PROVE  Spec => [](TypeInv /\ KnownImagesInv)
<1> DEFINE Inv == TypeInv /\ MapInv /\ KnownImagesInv
<1>1. Init => Inv
  <2>1. Init => KnownImagesInv
    BY DEF Init, KnownImagesInv
  <2> QED
    BY <2>1, TypeInit, MapInit
<1>2. Inv /\ [Next]_vars => Inv'
  BY TypeNext, MapNext, KnownImagesNext
<1>3. Inv => TypeInv /\ KnownImagesInv
  OBVIOUS
<1> QED
  BY <1>1, <1>2, <1>3, PTL DEF Spec

\* Where a statement writes one table, the n-th call of fetch_a_row for a v1
\* event of known columns starts at the n-th image, however many rows, columns
\* and bytes of metadata there are.
THEOREM KnownImagesAreFound ==
  ASSUME MaxTables = 1 PROVE Spec => []KnownImagesReadWhereTheyAre
<1>1. KnownImagesInv => KnownImagesReadWhereTheyAre
  BY DEF KnownImagesInv, KnownImagesReadWhereTheyAre, ImagesReadWhereTheyAre, CallsAtImages
<1> QED
  BY KnownImages, <1>1, PTL

\* And of such events only an update is read past its end, by one image.
THEOREM OneImagePastTheEnd ==
  ASSUME MaxTables = 1 PROVE Spec => []ReadsPastTheEnd
<1>1. TypeInv /\ KnownImagesInv => ReadsPastTheEnd
  <2> SUFFICES ASSUME TypeInv, KnownImagesInv, pc = "rows", KnownEvent
               PROVE  Len(fetched) <= Len(ev.nulls)
                                        + (IF ev.kind \in UpdateKinds THEN 1 ELSE 0)
    BY DEF ReadsPastTheEnd
  <2>1. PICK t \in Tables : ev \in RowsEvents(t)
    BY DEF TypeInv, TypeOK, NoRows, KnownEvent, KindsV1
  <2>2. 2 * MaxRows \in Nat
    BY EventsAssumption
  <2>3. Len(ev.nulls) \in Nat
    BY <2>1, <2>2, RowsEventIs
  <2>4. Len(fetched) \in Nat
    BY DEF TypeInv, TypeOK
  <2>5. \/ Len(fetched) <= Len(ev.nulls)
        \/ Len(fetched) = Len(ev.nulls) + 1 /\ ev.kind \in UpdateKinds
    BY DEF KnownImagesInv
  <2>6. \A n, m \in Nat : (n <= m => n <= m + 0 /\ n <= m + 1) /\ (n = m + 1 => n <= m + 1)
    OBVIOUS
  <2> QED
    BY <2>3, <2>4, <2>5, <2>6, Zenon
<1> QED
  BY KnownImages, <1>1, PTL
=============================================================================
