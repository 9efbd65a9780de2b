# Specifications of fake-slave

fake-slave connects to a MySQL master as if it were a replica, asks for the
binary log and decodes the row changes in it. This directory holds TLA+ models
of the program, the TLC configurations that check them and the proofs, checked
by TLAPS, of what matters most for every value of the parameters.

Read `BinlogStream.tla` first: it is the loop everything else hangs on.

## 1. Inventory

The program is one thread; `main` (`client.c`) calls the stages in order. What
runs concurrently with it is the master and TCP. There is no retry, no restart
position, no timeout: every failure either ends the process or is not noticed.

| part | state it keeps | operations | talks to |
| --- | --- | --- | --- |
| configuration (`read_config.c`, `connect_master`) | `server_info.master`, the buffer the file is read into | `read_config`, `config_master`, `config_log`, `parse_command_pareters` | json-c, getopt, logging |
| session (`connect.c`, `query.c`, `packet.c`) | socket, greeting's fields in `server_info` | `handshake_with_server`, `response_handshake_to_server`, `register_as_slave`, `send_binlog_dump_request`, `parse_ok_packet` | master: three replies, each one `read()` |
| stream loop (`binlog.c: run_binlog_stream`) | `buf`, `rbuflen`, `cursor` | read, cut, hand over, keep the rest | master; hands events to the dispatch |
| dispatch (`binlog.c: parse_binlog_events`) | the static `table_map_ev`, the global `event_types_post_header_length` | one handler per event type | called by the loop, calls the rows decoder |
| rows decoder (`rows_event.c`) | the static `update_row`; bitmaps and cursor of one event | `rows_event`, `fetch_a_row`, `get_column_val`, `get_column_meta_def` | column conversions |
| column conversions (`binary_type.c`, `decimal.c`, `tools.c`) | none | bytes to integers, times, decimals, strings | called by the rows decoder |
| logging (`log.c`) | a file, a level | `init_logger`, `logger` | everybody |
| debug printing (`debug.c`) | none | `print_*` | everybody, if compiled in |

What makes each part correct:

* **stream loop**: TCP is a stream of bytes, the log one of packets. However
  the bytes arrive, the events handed over are the master's, in order, each
  once; the bytes kept are exactly the ones not handled; the loop waits only
  when it has to, and an event that is all there is handled.
* **dispatch**: the width of table ids is that of the log being read; rows are
  decoded with the map of their own table; only what is known to kills it.
* **rows decoder**: the n-th image is read where the n-th image is; old and new
  values of an update are told apart; the walk ends.
* **session**: nothing is asked for before the master agreed to what was asked
  before, the loop starts at the first byte of the dump, and nothing but a
  silent master holds the program up.
* **conversions**: each gives the value the column had.
* **configuration**: each setting is the one on the command line or in the
  file, the file fits its buffer, and the exit status tells what was wrong.

What is hard: reads that end anywhere (loop and session), replies that come
when the loop already runs, the end of a connection between two steps, a buffer
that is full, static state that one event leaves for
another, a local variable that one key of the configuration leaves for the
next, and arithmetic on widths, counts and signed bytes. `PROJECT.json` lists
each such place under "hazards".

## 2. Modules

| module | what it is |
| --- | --- |
| `EventDelivery` | abstract: events are handed over in order, each once, none invented, all of them in the end |
| `BinlogStream` | the stream loop; implements `EventDelivery` |
| `BinlogEvents` | dispatch and rows decoder: static state and the walk of the cursor |
| `Session` | `main` from `connect()` to the loop |
| `Slave` | the whole of `main` after the configuration: `Session`, then the loop of `BinlogStream`, over one connection |
| `Config` | `main` before it connects |
| `Bytes`, `Decimal` | `tools.c` and `decimal.c`: operators, no state |
| `ColumnValues` | `get_column_val`: a value stored by the master, and what it is read as |
| `*Proofs` | theorems about the module they are named after |
| `FoldProofs` | lemmas about sums over functions and flattened sequences, for `BinlogEventsProofs` and `DecimalProofs` |
| `DecimalProofs` | theorems about the DECIMALs, and the types, of `ColumnValues` |
| `MC*` | tables, packets, files and values for TLC |

The parts meet at narrow places. `Slave` composes the two that share the
connection: `BinlogStream` is an `INSTANCE` whose program counter is `loop`,
and what the session left unread, and every reply that comes late, is appended
to the stream the loop reads, in front of the dump. `BinlogEvents` gets its
events one at a time and in order, which is what `ImplementsDelivery` says of
the loop. It takes from `Decimal` the widths of DECIMALs and from `Bytes` how a
length is read. `Config` ends where `Session`'s `Connect` starts.

Names follow the code where there is one. Definitions with a `Mutant:` comment
are not part of the model: each is the form a definition would have with a
plausible mistake, and exists to show that a property notices it.

### BinlogStream

A byte is its offset in what the master wrote, so "the bytes of packet 3" are a
range of numbers and a buffer that was garbled shows. A packet is its kind and
its extent.

| action | code |
| --- | --- |
| `ReadBytes(n)` | `read()` returns n > 0 (`binlog.c:335`), and the loop is entered with `cursor = 0` |
| `ReadNothing` | `read()` returns 0: at the end of the stream, or because the buffer is full and it was asked for 0 bytes |
| `ReadError` | `read()` returns -1, which the code adds to `rbuflen`: the loop ends only if the buffer was empty |
| `HandleEvent` | one turn of the inner loop that reaches `parse_binlog_events` (341-385) |
| `HandleErr` | the 0xFF packet and `exit(2)` (353-368) |
| `KeepRest` | the inner loop ends, by its condition or by `break` (376-380), and the rest moves to the front (387-388) |
| `SendEvent`, `SendErr`, `Close`, `Reset` | the master and TCP (external) |

The `memcpy` at 387 has overlapping operands when the rest is longer than what
was handled, which C leaves undefined. `CopyOrders` says which directions the
copy may take; the model computes what either leaves in the buffer. Headers
are decoded from the bytes at the cursor: if these are the headers of a packet,
its fields; if not, any: its size is one of `WrongSizes`, any 32 bits. As C
compares it unsigned, a size that would take the cursor in front of the buffer
is one of an event that is not all there.

### BinlogEvents

A table is a sequence of columns, each with a type, its metadata and whether it
may be NULL; a rows event is its type, its table and, for each image, the set
of columns that are NULL. From these follows where each image is on the wire
(`ImageStart`, external), and from the code where it is read (`fetched`). The
values are left to `ColumnValues`. The statics of the C code are `post`,
`tableMap` and `updateRow`. The dump may start within a statement, between its
table map and its rows.

| action | code |
| --- | --- |
| `HandleFormatDescription` | `format_description_event` and the assignment at `binlog.c:266` |
| `HandleRotate` | `rotate_event`; the position and file it decodes are used for nothing |
| `HandleTableMap` | `table_map_event` into the one `table_map_ev`; killed by a count that a signed byte does not hold |
| `HandleRows` | `rows_event` up to its loop (`rows_event.c:206-268`); killed by a bitmap of a negative size |
| `FetchRow` | one call of `fetch_a_row`, from the loop or from itself |
| `FetchCrashes` | the same where it reads columns nobody described, or a length that is not one |
| `RowsDone` | the loop at 271 ends |

A count from 128 on goes through a signed char. As the number of columns of a
bitmap, -14 to -1 is one of no bytes, since C rounds `(n + 7) / 8` towards 0:
the event is gone on with, `fetch_a_row` finds no column to read, and the
cursor stays where it is (`BitmapBytes`, `FetchRow`). A table map with such a
count asks for memory of a negative size and is killed, so this takes a dump
that starts behind it.

The columns-present bitmaps of a rows event are read and used for nothing
(`rows_event.c:228-236`). The model has them the same way, and its master writes
full row images, in which they are all ones.

Where the decoder has more columns to read than the table map it kept has, what
it reads is whatever the memory holds: any width up to `MaxWidth` per column,
or a crash. `TotalWidth` adds up widths in groups, because TLC cannot recurse once
for each of 242 columns; it is the same sum.

### Session and Slave

Each reply is taken with one `read()` into a buffer and judged by its fifth
byte, so a byte of the model is the packet it belongs to, its place there and
whether it is 0x00, 0xFE or another. `whole` is the set of replies that TCP
happens to deliver in one piece; it is chosen at the start and lets a property
say what it depends on. If fewer than five bytes come, the fifth is still that
of the request (0x08 of the login's capabilities, 0x15 of COM_REGISTER_SLAVE).
A greeting of which a part was not read leaves the fields uninitialised, the
length of the salt among them: then the password is hashed with a wrong salt,
or `memcpy` runs wild and the program is killed. `write()` is not checked: on a
connection that is gone the request is lost, or SIGPIPE ends the program.

| action of `Session` | code |
| --- | --- |
| `Connect` | `connect()` in `connect_master`, whose failure is reported only |
| `ReadGreeting` | `handshake_with_server` |
| `SendLogin`, `ReadLoginReply` | `response_handshake_to_server` |
| `SendRegister`, `ReadRegisterReply` | `register_as_slave` |
| `SendDump` | `send_binlog_dump_request` |
| `Greet`, `AnswerLogin`, `AnswerRegister`, `AnswerDump`, `Close`, `Reset` | the master (external) |

`Slave` has `SessionStep`, `AnswerStep`, `HangUpStep`, `DumpStep` and
`LoopStep`, each a step of one of the two with what it means for the other:
which bytes get in the way of the loop, and what `main` returns when it ends.

### Config

The file is a sequence of sections, each a sequence of entries; a value is its
type and what json-c gives for it as a string and as an int. A setting is a
sequence of at most one value: the empty one is a variable that was never
written and holds what the stack held. One action is one turn of a loop of the
code: `ReadFile` (one `fread`), `NextSection`, `ConfigMaster` (one key),
`ParseOption` (one argument); `Parse` and `ConnectMaster` are the rest. `fp`
and `level` decide whether a line that is logged goes to a log that was never
opened, which kills the program. A host that was never written passes the test
for null or does not; if it does, `inet_aton` reads from wherever it points,
which may kill the program too (`ConnectMaster`). A user, password or database
that was never written is used in the same way only in the handshake, and is
not modelled there.

### ColumnValues, Bytes, Decimal

`Stored` is the encoding of MySQL (external), `Decoded` the C code, with the
masks and shifts written as `\div` and `%` and the widths of the C types.
`Garbage` is what a variable that is read before it is written may hold, four
bytes of it. `read_mysql_varchar` takes the high byte of the column's length
for the size of the prefix and copies so many bytes over an int
(`LengthCopied`): fewer than four leave the rest of it as it was; more than the
16 bytes of a `bin_varchar` go over the variables behind it (`PrefixLeft`). A
negative length, or one near 2 GB, makes `malloc` fail (`Killed`), and a large
one or a copy over the stack may end the program or not (`MayKill`).
`Store(c)` puts a value on the wire and `GetColumnVal` reads it; the
properties compare the two.

## 3. Runs

| run | properties | what it shows |
| --- | --- | --- |
| `Stream` | `TypeOK`, `InOrderOnce`, `RestWaitsIntact`, `NoByteDropped`, `ReadsOnlyWhenNeededPastHeaders`, `ImplementsDelivery`, `ImplementsFairDelivery` | framing is right with every cut of the stream, across closes and resets; the loop does what `EventDelivery` promises, promptly unless an event is all header, and in the end |
| `Events` | `TypeOK`, `RowsReadWithTheirMap`, `KnownImagesReadWhereTheyAre`, `ReadsPastTheEnd`, `CrashHasACause`, `UpdateInPhaseIsNested`, `UpdateRestoresPhase`, `RowsEnd` | one table per statement: rows are read with their map; images of v1 events and known columns are found; what kills the decoder; one update leaves the parity right for the next; the walk ends even where it misreads, if the table has at most 127 columns |
| `Slave` | `TypeOK`, `SlaveTypeOK`, `LoginNeedsOkAfterWholeGreeting`, `RegisterNeedsOkAfterWholeLogin`, `StreamStartsAtTheDumpIfWhole`, `StatusTellsTheStage`, `DumpHandedOverInOrder`, `WaitsOnlyForTheMaster`, `StreamsOrExits`, `DumpHandedOver` | what depends on which reply coming whole; with all whole, exactly the dump is handed over, and in the end; client and master never wait for each other |
| `Config` | `TypeOK`, `FileFitsBuffer`, `SettingsAsGiven`, `MistypedSettingIsAnEarlierOne`, `ConnectsWhereTold`, `EndTellsTheCause` | each setting is the one given, whatever the order; which one a value of the wrong type becomes; where it connects, also for a name that is no address; the buffer grows in time; what the exit or a crash tells |
| `Values` | `TypeOK`, `IntegersLoggedWithTheirSign`, `TemporalsLogged`, `DecimalsDecoded`, `StringsRead` | which integers, times, decimals and strings come out as they went in, and that each fits its C type |

These runs fail, each against a line of the repository that says otherwise:

| run | property | the line | what happens |
| --- | --- | --- | --- |
| `StreamHeaderOnly` | `ReadsOnlyWhenNeeded` | `binlog.c:340` | an event of exactly 24 bytes waits for the next one (`<` for `<=`) |
| `StreamOversized` | `EventuallyHandled` | `binlog.c:374-375` | a packet above 4096 bytes makes the loop spin for ever |
| `EventsTwoTables` | `RowsReadWithTheirMap` | `rows_event.c:179` | with two tables in a statement the last map wins |
| `EventsPhase` | `NewValuesAreNested` | `rows_event.c:175, 194` | after an odd number of other images the nested call is not the one for the new values: old and new are swapped |
| `EventsNull` | `ImagesReadWhereTheyAre` | `docs/supported-data-type.md:7` | a NULL shifts what follows |
| `EventsWide` | `RowsOfAnyTableEnd` | `tools.c:106`, `rows_event.c:170` | rows of 242 columns, without their table map, are fetched for ever |
| `SessionStream` | `StreamStartsAtTheDumpAfterWholeLogin` | `docs/internal.md:9-10` | greeting and answer to the login come whole, the rest of the reply to the registration starts the stream |

The same models show the like of these with other constants or properties:

* With `CopyOrders = {"forward", "backward"}`, `RestWaitsIntact` fails: a
  `memcpy` that copies downwards garbles the rest.
* `ImagesReadWhereTheyAre` fails for the tables and kinds of `Events` too: a v2
  update has no second bitmap read, a TIME2 of three digits no fraction, a YEAR
  is taken for two bytes (`rows_event.c:180` and
  `docs/supported-data-type.md:21` promise otherwise of the first two).
* Without the whole greeting, `LoginNeedsOk` fails: the greeting's second part
  passes for the OK packet that the comment at `connect.c:174` wants.
* `IntegersLogged` fails for a SMALLINT: -135 is logged as 65401
  (`binary_type.c:197`), where `test/instructions.md:39` expects -135.
* Without its conditions `DecimalsDecoded` fails for ten digits of fraction and
  for negative numbers with a part of only full groups, and `TemporalsLogged`
  for negative times and times of 256 hours and more.

### Bounds

* `BinlogStream`. `MaxPackets` is 3: one handled, one whole in the buffer, one
  partly there. `BufSize` is far below 4096, but what counts is how it relates
  to the sizes of events: 50 bytes hold two events of 24 and the start of
  another, or one of 50 and nothing else, exactly. Sizes 24 and 25 are the ones
  around the header guard; an error packet of 51 does not fit. `WrongSizes` never matters in `Stream`, where
  nothing is garbled, but does in `Slave`: 0 and 20 are sizes the buffer may hold,
  -100 is none. A size that takes the cursor back within the buffer would let the
  model hand over the same bytes for ever, and is left to the proofs. These do
  without these bounds.
* `BinlogEvents`. `MaxRows` 2 gives events with an odd and an even number of
  images and updates of several pairs. `KnownTypes` has every type whose width
  the decoder knows, with DECIMALs behind columns that have metadata (a
  DECIMAL's is found by adding up the lengths before it), and a table of nine
  columns, whose bitmaps take two bytes; `AnyTypes` has columns it misreads,
  `TooWideTables` one table of 128 columns, one of 128 bytes of metadata and the
  one of 242 columns.
  `Formats` 6 and 8 are the two header lengths that change the width of a table
  id; successive logs may differ. `fetched` keeps `MaxFetched` calls, two more
  than an event has images; `MaxWidth` is the widest fixed width. `EventsWide` has
  one table of 242 columns, the fewest whose count leaves no bitmap. A table has
  at most `MaxColumns`, which is MySQL's 4096.
* `Slave`. The packets have their real layout up to the fields the code looks
  at, with long fields shortened; 18 bytes of greeting can be cut in 17 places,
  and the 11 of an OK packet in 10, the reply to the registration also between
  the session and the loop. `BufSize` 40 holds one event of 25 and part of the
  next, or the rest of a reply and one event.
* `Config`. Two or three keys in each order, of eight, with values of the right
  and the wrong type: what a key leaves for another takes two, what is kept
  from before that, three. `BUFFER_SIZE` is 2 and files have 0 to 5 bytes: empty,
  within a buffer, exactly one and two buffers, one byte more.
* `ColumnValues`. Values at the edges of bytes, signs and fields; VARCHARs of
  columns whose length's high byte is 0 to 4, 16, 19 and 255, at the edges of the
  int and of the struct; stacks that hold zeros, small numbers and the largest, and
  bytes that make a length negative. TLC's
  integers have 32 bits: a BIGINT beyond them is not checked. The proofs cover
  the whole range of the other integer types, all dates and times, all
  DECIMALs of up to 18 digits in each part and strings of any length.

`CHECK_DEADLOCK` is on in every run: a program that is gone stutters in an
action of its own.

### Fairness

* `BinlogStream!FairSpec`: weak fairness of `Client`. One thread, which waits
  only in `read()`; TCP delivers what was written. Nothing is asked of the
  master, which need not send, close or fail. `EventDelivery`'s fairness, of
  handing over an event that is due while the connection is up, is what the
  loop is shown to implement.
* `BinlogEvents!FairSpec`: weak fairness of the decoder inside an event, which
  is a function call that is not waited on. The master may stop.
* `Session!FairSpec` and `Slave!FairSlaveSpec`: weak fairness of the client
  alone. That the master answers is not assumed but is the hypothesis of the
  property that needs it (`StreamsOrExits`); `WaitsOnlyForTheMaster` says what
  holds without it, since `read()` has no timeout.

`Config` and `ColumnValues` are loops over finite data; their properties are
about what they end with.

## 4. Proofs

`tlapm` checks the eight `*Proofs.tla`. Every invariant that a passing run checks
is stated by a theorem. The constants satisfy the assumptions
named in the modules and, where it says so below, one more.

### The loop

`TypeCorrect` needs only `StreamAssumption`: `TypeInv` adds to `TypeOK` that the
cursor never passes `rbuflen` while parsing (the unsigned comparison sees to
it), without which `rbuflen - cursor` could be negative, and that a failed read leaves the loop or at least an empty
buffer.

The others assume `ForwardCopy` (the `memcpy` of the build copies upwards; they
do not hold otherwise). That the events come in order is not inductive by
itself. `FramingInv` strengthens it:

* `PacketsTile`: the master's packets lie end to end from byte 0;
* the bytes from `Base` to `rbuflen` are the stream from `NextByte` on
  (`RestWaitsIntact`), so the header looked at is the header of the next
  packet and of no other;
* none is missing between them and what was read (`NoByteDropped`), but for the
  byte that a failed `read()` takes off `rbuflen`;
* what was handed over is 1, 2, 3... (`InOrderOnce`).

Each step of `Next` keeps all four together: `HandleEvent` because the header
at the cursor is that of packet `Len(delivered) + 1`, which the bytes being in
order says; `KeepRest` because moving the rest to the front keeps their order.
`EventsInOrderOnce`, `RestIsIntact` and `NoByteIsDropped` are its parts.
`LoopImplementsDelivery` maps a step of the loop to a step of `EventDelivery`
by `HandleEvent` = `Deliver`, `SendEvent` = `Write`, `HandleErr` and `ReadError` =
`Fail`, and the rest to stutters. `NeverWaitsNeedlessly` adds `ReadInv`, which
says what the buffer looks like each time the loop goes back to `read()`.

### The rows decoder

`TypeCorrect` holds for any tables. That a count is gone on with only if its
bitmap has no negative size (`TypeInv`) and that no width is negative, a
DECIMAL's included, keep the cursor from going back.

`RowsOfOneTableAreReadRight`, `CrashesHaveACause`, `KnownImagesAreFound` and
`OneImagePastTheEnd` assume `MaxTables = 1`: a statement writes one table, without
which the first is false (`EventsTwoTables`).
`RowsOfOneTableAreReadRight` rests on `MapInv`: the header lengths kept are
those of the log being read once it was described (without which a table id
might be read with the width of an earlier log and the column count from the
wrong byte), and the map kept is that of the open statement's table or of none,
if the dump started after it. `CrashesHaveACause` adds that an event whose
table map is there and that is of v1 has no unknown columns.

Where an image starts is a sum over the images before it, and the size of each
one a sum over columns; where a DECIMAL's metadata is, a sum over the columns
before it. `FoldProofs` proves what these sums are: the recursion over subsets
that `SumFunction` is has one solution (`SumExists`, `SolutionsAgree`), and a
property of all sizes follows from the least size that does not have it, since
the order of the natural numbers is well-founded (`Induction`). `KnownImagesInv` keeps the calls of
`fetch_a_row` side by side with the images: the cursor is `ImageStart` of the
next one. `OneImagePastTheEnd` follows, as the loop is entered only before the
end and one nested call does not look.

The two about the parity need no such assumption.
`UpdatesInPhaseTellOldFromNew` follows it along `fetched`: the number
of calls and `update_row` have the same parity as when the event started.
`UpdatesRestoreThePhase` is the action property that lets one update start
where another ended. It needs that an update has an image to fetch at all
(`RestoringInv`), which is again a sum: an event is larger than its header as
the columns' widths and the bitmap add up to more than nothing.

### Session and Slave

`OrderInv` speaks of the sessions that are clean so far, in which every reply
up to the stage the program is at came in one piece: there the only bytes to
read, if any, are the answer to what was asked last, so the fifth byte is that
of the answer and of nothing older. `LoginComesFirst`, `RegistrationComesFirst`
and `LoopStartsAtTheDump` follow for any packets that the fifth byte tells
apart. `StatusInv` adds the other direction: what the master accepted and the
program has not read is there to be read unless the connection was reset, so
the program exits over a reply only if the master did not accept
(`StatusSaysHowFar`).

`DumpInOrder` composes: `Proved == INSTANCE BinlogStreamProofs` of the loop as
it is in `Slave`, with its lemmas about one step. `SlaveInv` says that while
`main` is in the session the loop is fresh, and that with all replies whole it
is either still fresh or in `FramingInv`. Nothing is put in front of the dump
then, since by `OrderInv` nothing is unread when the loop starts and the only
request the master may still answer is the one for the dump; so every step of
the loop within `Slave` is one of a `BinlogStream` of its own.

The others hold in either direction of the `memcpy`.
`ProgramKeepsTheOrder` carries the session's ordering and its types over to the
program (`SessionInv`): there an answer may also go to the loop, and the stage
the loop is at is one more that `OrderInv` covers. `ProgramsStatusSaysHowFar`
does the same with `StatusInv`, adding the exit of the loop over an error
packet. `LoopTypeCorrect` is about a loop that starts in the middle of a reply:
the rest of the reply is put in front of the stream, so that the bytes at the
cursor may be taken for headers that are none. `LoopTypeInv` needs nothing from
them, only the comparison of their size with what is in the buffer.

### Config

`FileInBuffer`: what was read so far ends at the cursor, and behind it there is
always room for one more `fread` (`ReadingInv`). `CauseOfTheEnd` follows what
was passed to get to each stage (`EndInv`): a line is logged only after the
sections. `SettingsAreTheOnesGiven` has the one invariant that is about two
loops (`SettingsInv`): after so many keys and so many options, a setting is
that of the last option for it so far, else of the key, if it was met and is of
the right type, else unwritten. A string key never depends on `buffer` when its
value is a string, since it is overwritten first; that is what the proof of one
turn of `config_master` shows. When it is not a string, `BufferInv` says what is
there instead: `buffer` is the last string of the entries so far, and a
mistyped setting that of the entries before its own
(`MistypedSettingsAreEarlierOnes`). `TypeCorrect` rests on these: a setting is
written with one value at a time, and a port with one that is cut to 16 bits
(`ValuesInv`). `ConnectsToTheOneGiven` adds `AddressInv`,
that what goes to `connect()` is made of the settings, and that a number and
its `short` are the same in 16 bits.

### Column values

The bytes of a number are its digits to the base 256; lemmas about `\div` and
`%` give the digits of a sum and the number back from its digits, once for each
order of bytes. On them rest one lemma for each reader, that what is stored is
read back, and the dates and times, whose fields are digits to mixed bases
(`UpperNumberFields`, `LowerNumberFields`). `StoredInv` (the bytes on the wire
are those of the column), `ReadInv` (what was read is what the reader gives
for them) and `FatalInv` (only a string kills the reader, and only one that may)
carry them to the specification: `IntegersReadBack`, `TemporalsReadBack` and
`ShortStringsReadBack` hold for every value in the domain and not only for
those TLC tries.

`DecimalProofs` does the same for `DecimalsReadBack`. A part of up to 18 digits
has none, one or two groups; for each layout, what `decimal_number_part` cuts
out is what MySQL put together (`PartReadBack`). One group is `GroupReadBack`:
it leaves the first bit of its bytes free, so the int it is filled into is not
negative, and the mask undoes the complement. The sign bit is flipped twice,
whichever part it is in (`SignReadBack`), and leading groups of 0 are no part of
a number on either side. A negative number needs a short group in both parts,
because an empty one becomes -1 under the mask. `TypeCorrect` of `ColumnValues`
is there too: what is read fits the width of the C type of its reader
(`DecodedFits`): 8, 16, 24 or 32 bits, whatever the bytes are for the readers of
fixed width but `read_int8`, of whose 64 bits the values modelled need 32; the
length of a string with its prefix, which a test before it keeps from going
round; and each coefficient of a DECIMAL.

Where the high byte of the column's length is 2, the two bytes of the prefix
are the lower half of an int whose upper half the stack decides. That makes the
length larger or negative but never smaller (`LengthNotSmaller`), so a string
that is read at all is read whole (`LongStringDecoded`).

### Only model-checked

Liveness: `ImplementsFairDelivery`, `EventuallyHandled`, `RowsEnd`, `RowsOfAnyTableEnd`,
`WaitsOnlyForTheMaster`, `StreamsOrExits` and `DumpHandedOver` rest on fairness,
which is out of the prover's reach.

## 5. Not modelled

* Events that are only logged, or decoded into a variable nothing reads again
  (QUERY, XID, GTID...), change no state and have no action; neither do the
  readers only they use (`int_length`, `read_int6`, `read_uint6`). Memory that
  is never freed (the `TODO: malloc` comments) is left out.
* The byte `rotate_event` writes one past the end of the file name
  (`binlog.c:68`): what it belongs to is the allocator's.
* What the program should do at the end of the stream: it spins
  (`ReadNothing`), and nothing in the repository says what it should do.
* Rows events v0 of early servers. `parse_binlog_events` hands them to
  `rows_event` like the others (`binlog.c:285-287`), and the repository's README
  does not exclude the servers that wrote them; how those laid them out is not
  in the source and not modelled.
* Row images that are not full (`binlog_row_image`): the decoder reads which
  columns are present and does not look.
* FLOAT and DOUBLE are copied bit by bit. BIGINTs beyond 32 bits and the
  overflow of a `long` by a DECIMAL part of more than 18 digits
  (`decimal.c:45`) are beyond TLC's integers. The characters behind the end of
  a VARCHAR that was given a wrong length are whatever the event holds there.
* `decimal_as_string` and `display_decimal` are called by nothing. So are
  `send_query`, `fetch_query_row` and the column definitions of `packet.c`:
  `checksum_binlog` returns before it calls them.
* What is written to the log, and when it is flushed.
* The hash of the password: whether the salt was read whole is all that the
  model has of it.
* `debug.c` prints what was read, if compiled in; `test.c` is not part of the
  program.

## 6. Plan

Done: the loop, its abstract specification and its proofs; the dispatch and the
rows decoder; the session, its proofs and its composition with the loop; the
configuration; the column values and the DECIMALs; for every invariant of a
passing run, a theorem.

Next: for statements of several tables, that the rows are read with the map of
the last one, and what of the four theorems for `MaxTables = 1` is left then; the
refinement of `EventDelivery` by the whole of `Slave`, where all replies come
whole.
