---------------------------- MODULE BinlogStream ----------------------------
(***************************************************************************)
(* run_binlog_stream (binlog.c): the loop that reads the replication       *)
(* connection into a fixed buffer, cuts the buffer into binlog packets,    *)
(* hands each complete event to parse_binlog_events and keeps the rest for *)
(* the next read.                                                          *)
(*                                                                         *)
(* A byte is its offset in the stream the master wrote, so a buffer cell   *)
(* that holds 57 holds the 58th byte of the connection.  What a packet     *)
(* says is reduced to its kind and its extent.                             *)
(*                                                                         *)
(* The master and TCP are external: a read returns any non-empty part of   *)
(* what was written and not yet read; the master may close the connection  *)
(* after its last packet, or the connection may be reset, losing what was  *)
(* not yet read.  After a reset was reported the socket reads as ended.    *)
(***************************************************************************)
EXTENDS Integers, Sequences

CONSTANTS
  BufSize,     \* BUF_SIZE, 4096 in client.h
  EventSizes,  \* sizes of an event's packet on the wire, all headers included
  ErrSizes,    \* sizes of an error packet on the wire
  WrongSizes,  \* what event_size may be in bytes that are no packet's headers
  CopyOrders,  \* the directions in which memcpy may copy overlapping bytes
  MaxPackets   \* bound: how many packets the master writes

PacketHeaderLen == 4                   \* 3 bytes of length, 1 of sequence id
EventHeaderLen == 19
HeadersLen == PacketHeaderLen + 1 + EventHeaderLen  \* 1: the OK or 0xFF byte

Signed(max) == -max - 1 .. max
Int32 == Signed(2147483647)

ASSUME StreamAssumption ==
  /\ BufSize \in Nat \ {0}
  /\ EventSizes \subseteq {s \in Nat : s >= HeadersLen}
  /\ ErrSizes \subseteq {s \in Nat : s > PacketHeaderLen}
  /\ WrongSizes \subseteq Int32
  /\ CopyOrders \subseteq {"forward", "backward"}
  /\ MaxPackets \in Nat

VARIABLES
  sent,       \* packets the master wrote: what each is and the bytes it spans
  conn,       \* "open", "closed" (ended), "reset", "dead" (reset was reported)
  received,   \* how many bytes of the stream read() has returned
  buf,        \* buf[i], i \in 0..rbuflen-1: the bytes of the buffer in use
  rbuflen,
  cursor,
  pc,         \* "read": at the outer while; "parse": at the inner; "exited"
  delivered   \* events handed to parse_binlog_events, by number in sent;
              \* 0 stands for bytes that are not one packet of the master

vars == <<sent, conn, received, buf, rbuflen, cursor, pc, delivered>>
masterVars == <<sent, conn>>

Kinds == {"event", "err"}
Packets == [kind : Kinds, start : Nat, end : Nat]

StreamEnd == IF sent = <<>> THEN 0 ELSE sent[Len(sent)].end
Size(i) == sent[i].end - sent[i].start
ErrSent == sent # <<>> /\ sent[Len(sent)].kind = "err"

LoopInit ==
  /\ received = 0
  /\ buf = [i \in 0 .. -1 |-> 0]
  /\ rbuflen = 0
  /\ cursor = 0
  /\ pc = "read"
  /\ delivered = <<>>

Init ==
  /\ sent = <<>>
  /\ conn = "open"
  /\ LoopInit
-----------------------------------------------------------------------------
(* The master and the connection (external). *)

Send(kind, size) ==
  /\ conn = "open"
  /\ ~ErrSent                          \* an error packet ends a dump
  /\ Len(sent) < MaxPackets
  /\ sent' = Append(sent, [kind |-> kind, start |-> StreamEnd,
                           end |-> StreamEnd + size])
  /\ UNCHANGED <<conn, received, buf, rbuflen, cursor, pc, delivered>>

SendEvent == \E s \in EventSizes : Send("event", s)
SendErr == \E s \in ErrSizes : Send("err", s)

Close ==
  /\ conn = "open"
  /\ conn' = "closed"
  /\ UNCHANGED <<sent, received, buf, rbuflen, cursor, pc, delivered>>

Reset ==
  /\ conn = "open"
  /\ conn' = "reset"
  /\ UNCHANGED <<sent, received, buf, rbuflen, cursor, pc, delivered>>
-----------------------------------------------------------------------------
(* while ((rbuflen += read(sockfd, buf + rbuflen, BUF_SIZE - rbuflen)) != -1) *)

\* Mutant: reads as if the buffer were empty.
RoomOfEmptyBuffer == BufSize

\* Mutant: keeps one byte of the buffer back, as for a terminating zero.
RoomKeepingOneByte == BufSize - rbuflen - 1

Room == BufSize - rbuflen

\* The byte written after the first n of the buffer is the next unread one.
Filled(n) ==
  [i \in 0 .. rbuflen + n - 1 |-> IF i < rbuflen THEN buf[i]
                                  ELSE received + (i - rbuflen)]

ReadBytes(n) ==
  /\ pc = "read"
  /\ conn # "dead"
  /\ n <= Room
  /\ received + n <= StreamEnd
  /\ buf' = Filled(n)
  /\ rbuflen' = rbuflen + n
  /\ received' = received + n
  /\ cursor' = 0
  /\ pc' = "parse"
  /\ UNCHANGED <<masterVars, delivered>>

\* read() returns 0 at the end of the stream, and whenever it is asked for
\* 0 bytes because the buffer is full.  The loop takes both for data.
AtEnd ==
  \/ conn = "dead"
  \/ conn = "closed" /\ received = StreamEnd

ReadNothing ==
  /\ pc = "read"
  /\ Room = 0 \/ AtEnd
  /\ cursor' = 0
  /\ pc' = "parse"
  /\ UNCHANGED <<masterVars, received, buf, rbuflen, delivered>>

\* read() returns -1, which is added to rbuflen like a length: the loop ends
\* only if the buffer was empty, else it goes on one byte shorter.
ReadError ==
  /\ pc = "read"
  /\ conn = "reset"
  /\ Room > 0
  /\ conn' = "dead"
  /\ rbuflen' = rbuflen - 1
  /\ buf' = [i \in 0 .. rbuflen - 2 |-> buf[i]]
  /\ IF rbuflen = 0
     THEN pc' = "exited" /\ UNCHANGED cursor
     ELSE pc' = "parse" /\ cursor' = 0
  /\ UNCHANGED <<sent, received, delivered>>
-----------------------------------------------------------------------------
(* while (cursor + (4 + 19 + 1) < rbuflen) *)

\* Mutant: wants one byte more than it does before it looks at the headers.
HeadersAndTwoMoreBytes == cursor + HeadersLen + 1 < rbuflen

HeadersReadable == cursor + HeadersLen < rbuflen

\* The bytes of packet i start at the cursor, as far as the first n go.
HoldsPacket(i, n) ==
  \A j \in 0 .. n - 1 :
    cursor + j < rbuflen /\ buf[cursor + j] = sent[i].start + j

HeaderFields(i) ==
  [kind |-> sent[i].kind,
   event_size |-> Size(i) - PacketHeaderLen - 1]

\* What the packet and event headers at the cursor decode to: the fields of
\* a packet of the dump if the bytes are its headers, else anything.  Of
\* event_size the 32 bits are taken as signed.
AnyHeader == [kind : Kinds, event_size : WrongSizes]

DecodedHeaders ==
  LET here == {i \in DOMAIN sent : sent[i].kind \in Kinds /\ HoldsPacket(i, HeadersLen)}
  IN  IF here # {} THEN {HeaderFields(i) : i \in here} ELSE AnyHeader

AfterHeaders == cursor + HeadersLen

\* Mutant: an event is taken for complete while its last byte is missing.
EventCompleteButOne(h) ==
  AfterHeaders + (h.event_size - EventHeaderLen) \in 0 .. rbuflen + 1

\* Mutant: event_size is signed, so that a huge one seems to be there.
EventCompleteIfSigned(h) ==
  AfterHeaders + (h.event_size - EventHeaderLen) <= rbuflen

\* ~(cursor + (event_size - 19) > rbuflen), where event_size makes the sum
\* unsigned: one below 0 is above any rbuflen.
EventComplete(h) ==
  AfterHeaders + (h.event_size - EventHeaderLen) \in 0 .. rbuflen

\* Mutant: event_size is taken for the size of the body.
CursorPastWholeSize(h) == AfterHeaders + h.event_size

\* Mutant: the cursor is left where it was and the event is cut again.
CursorNotMoved(h) == cursor

CursorPast(h) == AfterHeaders + (h.event_size - EventHeaderLen)

\* The packet whose bytes the handler is given, 0 if they are not one.
PacketGiven(h) ==
  LET n == h.event_size + PacketHeaderLen + 1
      given == {i \in DOMAIN sent : Size(i) = n /\ HoldsPacket(i, n)}
  IN  IF given # {} THEN CHOOSE i \in given : TRUE ELSE 0

HandleEvent ==
  /\ pc = "parse"
  /\ HeadersReadable
  /\ \E h \in DecodedHeaders :
       /\ h.kind = "event"
       /\ EventComplete(h)
       /\ delivered' = Append(delivered, PacketGiven(h))
       /\ cursor' = CursorPast(h)
  /\ UNCHANGED <<masterVars, received, buf, rbuflen, pc>>

\* An error packet is printed and the program exits with status 2.
HandleErr ==
  /\ pc = "parse"
  /\ HeadersReadable
  /\ \E h \in DecodedHeaders : h.kind = "err"
  /\ pc' = "exited"
  /\ UNCHANGED <<masterVars, received, buf, rbuflen, cursor, delivered>>

\* memcpy(buf, buf + cursor, rbuflen - cursor).  Copied from the last byte
\* down, an overlapping source is overwritten before it is read: byte i then
\* holds the one at the same place of the last stretch of cursor bytes.
Rest == rbuflen - cursor

\* Mutant: the rest is left where it is.
NotMoved(order) == [i \in 0 .. Rest - 1 |-> buf[i]]

Moved(order) ==
  [i \in 0 .. Rest - 1 |->
     IF order = "forward" \/ cursor = 0 THEN buf[cursor + i]
     ELSE buf[Rest + ((i - Rest) % cursor)]]

\* The inner loop stops: too few bytes for the headers, or an event that is
\* not all there.  What is left moves to the front of the buffer.
KeepRest ==
  /\ pc = "parse"
  /\ \/ ~HeadersReadable
     \/ /\ HeadersReadable
        /\ \E h \in DecodedHeaders : h.kind = "event" /\ ~EventComplete(h)
  /\ \E order \in CopyOrders : buf' = Moved(order)
  /\ rbuflen' = Rest
  /\ pc' = "read"
  /\ UNCHANGED <<masterVars, received, cursor, delivered>>

\* The program is gone; only the master may go on.
Exited == pc = "exited" /\ UNCHANGED vars
-----------------------------------------------------------------------------
Client ==
  \/ \E n \in 1 .. BufSize : ReadBytes(n)
  \/ ReadNothing
  \/ ReadError
  \/ HandleEvent
  \/ HandleErr
  \/ KeepRest

Master == SendEvent \/ SendErr \/ Close \/ Reset

Next == Master \/ Client \/ Exited

Spec == Init /\ [][Next]_vars

\* The client is one thread that never waits but in read(), and TCP delivers.
FairSpec == Spec /\ WF_vars(Client)
-----------------------------------------------------------------------------
(* Properties *)

\* Every variable holds a value of its kind; rbuflen is never past the end of
\* the buffer, so that read() is never given a negative size (binlog.c:335).
TypeOK ==
  /\ sent \in Seq(Packets)
  /\ conn \in {"open", "closed", "reset", "dead"}
  /\ received \in Nat
  /\ rbuflen \in -1 .. BufSize
  /\ buf \in [0 .. rbuflen - 1 -> Nat]
  /\ cursor \in 0 .. BufSize
  /\ pc \in {"read", "parse", "exited"}
  /\ delivered \in Seq(Nat)

\* The first byte of the stream that belongs to no event handed over yet.
NextByte ==
  IF Len(delivered) \in DOMAIN sent THEN sent[Len(delivered)].end ELSE 0

\* The bytes of the buffer the loop has yet to cut, counted from here.
Base == IF pc = "parse" THEN cursor ELSE 0

\* Every event handed to parse_binlog_events is exactly one packet of the
\* master, byte for byte, and they come in the master's order, none skipped
\* and none repeated, however the reads cut the stream (binlog.c:341-385).
InOrderOnce ==
  /\ Len(delivered) <= Len(sent)
  /\ \A i \in DOMAIN delivered : delivered[i] = i

\* The bytes kept for later are the stream from the first unhandled byte on,
\* in order, so that the next packet header is looked for where it is: the
\* comment at binlog.c:374 (step back, wait for more, handle it then).
RestWaitsIntact ==
  pc # "exited" =>
    \A i \in Base .. rbuflen - 1 : buf[i] = NextByte + (i - Base)

\* No byte read is lost between reads: the unhandled ones in the buffer are
\* all that was read past the handled ones, but for the single byte that a
\* failed read takes off a non-empty buffer (binlog.c:335, 387-388).
NoByteDropped ==
  pc # "exited" =>
    received - NextByte = (rbuflen - Base) + (IF conn = "dead" THEN 1 ELSE 0)

\* The bytes in the buffer begin a packet that goes on beyond them.
BeginsLongerPacket ==
  \E i \in DOMAIN sent :
    /\ Size(i) > rbuflen
    /\ \A j \in 0 .. HeadersLen - 1 : buf[j] = sent[i].start + j

\* The loop goes back to read() only because the buffer does not hold the
\* headers of a packet, or holds the start of one that is not complete: the
\* comment at binlog.c:340.
ReadsOnlyWhenNeeded == pc = "read" /\ rbuflen >= HeadersLen => BeginsLongerPacket

\* It does, but for a buffer that holds headers and not one byte more.
ReadsOnlyWhenNeededPastHeaders ==
  pc = "read" /\ rbuflen > HeadersLen => BeginsLongerPacket

Lost == conn = "dead" \/ pc = "exited"

\* Every event the master writes is handed over in the end, unless the
\* connection was reset or an error packet came (binlog.c:374-375: handled
\* when the server has returned more data).
EventuallyHandled ==
  \A i \in 1 .. MaxPackets :
    (Len(sent) >= i /\ sent[i].kind = "event") ~> (Len(delivered) >= i \/ Lost)
-----------------------------------------------------------------------------
(* The loop implements EventDelivery. *)

\* The last packet is no event, or one that is all header: that is due when
\* another packet follows, since the loop wants one byte past the headers.
LastIsNotDue == ErrSent \/ (sent # <<>> /\ Size(Len(sent)) = HeadersLen)

EventsDue == IF LastIsNotDue THEN Len(sent) - 1 ELSE Len(sent)

Delivery == INSTANCE EventDelivery WITH
              due <- EventsDue, delivered <- delivered, up <- ~Lost

\* Every step of the loop hands over nothing, or the event that is next
\* (binlog.c:335-389).
ImplementsDelivery == Delivery!SafeSpec

\* And it keeps handing events over as long as any is due, where no event is
\* larger than the buffer (binlog.c:374-375: handled when the server has
\* returned more data).
ImplementsFairDelivery == Delivery!Spec
=============================================================================
