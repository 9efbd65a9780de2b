------------------------- MODULE BinlogStreamProofs -------------------------
(***************************************************************************)
(* Proofs about BinlogStream for every buffer size, every set of packet    *)
(* sizes and every bound on the packets.                                   *)
(***************************************************************************)
EXTENDS BinlogStream, TLAPS

(***************************************************************************)
(* Type correctness.  TypeOK alone is not inductive: that the rest of the  *)
(* buffer has a length needs the cursor to stay within what was read.  It  *)
(* does because the check for a complete event is unsigned.                *)
(***************************************************************************)

CursorInBuffer ==
  /\ pc # "exited" => rbuflen >= 0
  /\ pc = "parse" => cursor <= rbuflen

TypeInv == TypeOK /\ CursorInBuffer

Lens == /\ PacketHeaderLen = 4
        /\ EventHeaderLen = 19
        /\ HeadersLen = 24

LEMMA Lengths == Lens
BY DEF Lens, PacketHeaderLen, EventHeaderLen, HeadersLen

\* The stream ends where the last packet does, at a natural offset.
LEMMA StreamEndNat ==
  ASSUME sent \in Seq(Packets)
  PROVE  /\ StreamEnd \in Nat
         /\ Len(sent) \in Nat
         /\ sent = <<>> <=> Len(sent) = 0
         /\ DOMAIN sent = 1 .. Len(sent)
         /\ \A i \in 1 .. Len(sent) : sent[i] \in Packets
<1>1. /\ Len(sent) \in Nat
      /\ DOMAIN sent = 1 .. Len(sent)
      /\ \A i \in 1 .. Len(sent) : sent[i] \in Packets
  OBVIOUS
<1>2. sent = <<>> <=> Len(sent) = 0
  OBVIOUS
<1>3. StreamEnd \in Nat
  <2>1. CASE Len(sent) = 0
    BY <1>2, <2>1 DEF StreamEnd
  <2>2. CASE Len(sent) # 0
    BY <1>1, <1>2, <2>2 DEF StreamEnd, Packets
  <2> QED
    BY <2>1, <2>2
<1> QED
  BY <1>1, <1>2, <1>3

\* A step of the master that appends a packet keeps the packets typed.
LEMMA SendKeepsTypes ==
  ASSUME TypeInv, NEW kind \in Kinds, NEW size \in Nat, Send(kind, size)
  PROVE  TypeInv'
<1> DEFINE p == [kind |-> kind, start |-> StreamEnd, end |-> StreamEnd + size]
<1>1. StreamEnd \in Nat
  BY StreamEndNat DEF TypeInv, TypeOK
<1>2. p \in Packets
  BY <1>1 DEF Packets
<1>3. sent' = Append(sent, p)
  BY DEF Send
<1>4. sent' \in Seq(Packets)
  BY <1>2, <1>3 DEF TypeInv, TypeOK
<1>5. TypeOK'
  BY <1>4 DEF TypeInv, TypeOK, Send
<1>6. CursorInBuffer'
  BY DEF TypeInv, CursorInBuffer, Send
<1> QED
  BY <1>5, <1>6 DEF TypeInv

LEMMA PacketGivenType ==
  ASSUME TypeInv, NEW h
  PROVE  PacketGiven(h) \in Nat
BY DEF PacketGiven, TypeInv, TypeOK

LEMMA TypeInit == Init => TypeInv
BY StreamAssumption
DEF Init, LoopInit, TypeInv, TypeOK, CursorInBuffer, Packets

LEMMA TypeNext == TypeInv /\ [Next]_vars => TypeInv'
<1> SUFFICES ASSUME TypeInv, [Next]_vars PROVE TypeInv'
  OBVIOUS
<1> USE StreamAssumption, Lengths DEF Lens
<1>1. CASE SendEvent
  <2>1. PICK s \in EventSizes : Send("event", s)
    BY <1>1 DEF SendEvent
  <2> QED
    BY <2>1, SendKeepsTypes DEF Kinds
<1>2. CASE SendErr
  <2>1. PICK s \in ErrSizes : Send("err", s)
    BY <1>2 DEF SendErr
  <2> QED
    BY <2>1, SendKeepsTypes DEF Kinds
<1>3. CASE Close \/ Reset
  BY <1>3 DEF Close, Reset, TypeInv, TypeOK, CursorInBuffer
<1>4. CASE \E n \in 1 .. BufSize : ReadBytes(n)
  <2>1. PICK n \in 1 .. BufSize : ReadBytes(n)
    BY <1>4
  <2> USE <2>1 DEF ReadBytes, TypeInv, TypeOK, CursorInBuffer, Room, masterVars
  <2>2. rbuflen + n \in 0 .. BufSize
    OBVIOUS
  <2>3. buf' \in [0 .. rbuflen' - 1 -> Nat]
    BY <2>2 DEF Filled
  <2> QED
    BY <2>2, <2>3
<1>5. CASE ReadNothing
  BY <1>5 DEF ReadNothing, masterVars, TypeInv, TypeOK, CursorInBuffer
<1>6. CASE ReadError
  BY <1>6 DEF ReadError, TypeInv, TypeOK, CursorInBuffer
<1>7. CASE HandleEvent
  <2>1. PICK h \in DecodedHeaders :
          /\ h.kind = "event"
          /\ EventComplete(h)
          /\ delivered' = Append(delivered, PacketGiven(h))
          /\ cursor' = CursorPast(h)
    BY <1>7 DEF HandleEvent
  <2>2. rbuflen \in Int /\ rbuflen <= BufSize /\ BufSize \in Nat
    BY DEF TypeInv, TypeOK
  <2>3. cursor' \in 0 .. rbuflen
    BY <2>1 DEF EventComplete, CursorPast
  <2>4. cursor' \in 0 .. BufSize /\ cursor' <= rbuflen
    BY <2>2, <2>3
  <2>5. delivered' \in Seq(Nat)
    BY <2>1, PacketGivenType DEF TypeInv, TypeOK
  <2> QED
    BY <1>7, <2>4, <2>5
    DEF HandleEvent, masterVars, TypeInv, TypeOK, CursorInBuffer
<1>8. CASE HandleErr
  BY <1>8 DEF HandleErr, masterVars, TypeInv, TypeOK, CursorInBuffer
<1>9. CASE KeepRest
  <2> USE <1>9 DEF KeepRest, TypeInv, TypeOK, CursorInBuffer, masterVars, Rest
  <2>1. Rest \in 0 .. BufSize /\ cursor + Rest = rbuflen
    OBVIOUS
  <2>2. ASSUME NEW order \in CopyOrders
        PROVE  Moved(order) \in [0 .. Rest - 1 -> Nat]
    <3>1. ASSUME NEW i \in 0 .. Rest - 1
          PROVE  cursor + i \in 0 .. rbuflen - 1
      BY <2>1
    <3>2. ASSUME NEW i \in 0 .. Rest - 1, cursor # 0
          PROVE  Rest + ((i - Rest) % cursor) \in 0 .. rbuflen - 1
      <4>1. cursor \in Nat \ {0} /\ i - Rest \in Int
        BY <3>2
      <4>2. (i - Rest) % cursor \in 0 .. cursor - 1
        BY <4>1
      <4> HIDE DEF Rest
      <4> QED
        BY <4>2, <2>1
    <3> HIDE DEF Rest
    <3> QED
      BY <3>1, <3>2 DEF Moved
  <2>3. buf' \in [0 .. rbuflen' - 1 -> Nat]
    BY <2>2
  <2> QED
    BY <2>1, <2>3
<1>10. CASE UNCHANGED vars
  BY <1>10 DEF vars, TypeInv, TypeOK, CursorInBuffer
<1> QED
  BY <1>1, <1>2, <1>3, <1>4, <1>5, <1>6, <1>7, <1>8, <1>9, <1>10
  DEF Next, Master, Client, Exited

\* In every state the loop reaches, rbuflen and cursor are within the buffer
\* and the kept bytes are bytes of the stream, whatever the reads return and
\* in whichever direction memcpy copies (binlog.c:329-392).
THEOREM TypeCorrect == Spec => []TypeOK
<1>1. TypeInv => TypeOK
  BY DEF TypeInv
<1> QED
  BY TypeInit, TypeNext, <1>1, PTL DEF Spec
-----------------------------------------------------------------------------
(***************************************************************************)
(* Framing.  That events come in order, once and whole is not inductive:   *)
(* it needs the bytes in the buffer to be the stream from NextByte on      *)
(* (RestWaitsIntact), which a read only extends if nothing read was lost   *)
(* (NoByteDropped), and the packet that starts there to be the next one,   *)
(* which needs the packets to tile the stream.                             *)
(***************************************************************************)

PacketsTile ==
  /\ \A i \in DOMAIN sent : sent[i].start < sent[i].end
  /\ \A i \in DOMAIN sent :
       sent[i].start = IF i = 1 THEN 0 ELSE sent[i - 1].end
  /\ \A i, j \in DOMAIN sent : i < j => sent[i].end <= sent[j].start

FramingInv ==
  /\ TypeInv
  /\ PacketsTile
  /\ received <= StreamEnd
  /\ InOrderOnce
  /\ RestWaitsIntact
  /\ NoByteDropped

\* memcpy copies overlapping bytes as memmove does.
ForwardCopy == CopyOrders \subseteq {"forward"}

\* NextByte is an offset; it is the end of the stream once all is delivered,
\* and the start of the next packet before that.
LEMMA NextByteFacts ==
  ASSUME TypeInv, PacketsTile, Len(delivered) <= Len(sent)
  PROVE  /\ NextByte \in Nat
         /\ Len(delivered) = Len(sent) => NextByte = StreamEnd
         /\ Len(delivered) < Len(sent) =>
              NextByte = sent[Len(delivered) + 1].start
<1> DEFINE d == Len(delivered)
<1>1. d \in Nat
  BY DEF TypeInv, TypeOK
<1>2. /\ Len(sent) \in Nat
      /\ DOMAIN sent = 1 .. Len(sent)
      /\ sent = <<>> <=> Len(sent) = 0
      /\ \A i \in 1 .. Len(sent) : sent[i] \in Packets
  BY StreamEndNat DEF TypeInv, TypeOK
<1>3. CASE d = 0
  <2>1. NextByte = 0
    BY <1>2, <1>3 DEF NextByte
  <2>2. Len(sent) > 0 => sent[1].start = 0
    BY <1>2 DEF PacketsTile
  <2> QED
    BY <1>2, <1>3, <2>1, <2>2 DEF StreamEnd
<1>4. CASE d # 0
  <2>1. NextByte = sent[d].end /\ d \in DOMAIN sent
    BY <1>1, <1>2, <1>4 DEF NextByte
  <2>2. d < Len(sent) => sent[d + 1].start = sent[d].end
    <3>1. d < Len(sent) => d + 1 \in DOMAIN sent /\ d + 1 # 1 /\ (d + 1) - 1 = d
      BY <1>1, <1>2, <1>4
    <3> QED
      BY <3>1 DEF PacketsTile
  <2>3. d = Len(sent) => StreamEnd = sent[d].end
    BY <1>2, <1>4 DEF StreamEnd
  <2> QED
    BY <1>2, <2>1, <2>2, <2>3 DEF Packets
<1> QED
  BY <1>3, <1>4

\* No two packets start at the same byte.
LEMMA StartsDiffer ==
  ASSUME TypeInv, PacketsTile, NEW i \in DOMAIN sent, NEW j \in DOMAIN sent,
         sent[i].start = sent[j].start
  PROVE  i = j
<1>1. /\ DOMAIN sent = 1 .. Len(sent)
      /\ \A k \in 1 .. Len(sent) : sent[k] \in Packets
  BY StreamEndNat DEF TypeInv, TypeOK
<1>2. /\ sent[i].start < sent[i].end
      /\ sent[j].start < sent[j].end
      /\ i < j => sent[i].end <= sent[j].start
      /\ j < i => sent[j].end <= sent[i].start
  BY DEF PacketsTile
<1>3. /\ sent[i].start \in Nat /\ sent[i].end \in Nat
      /\ sent[j].start \in Nat /\ sent[j].end \in Nat
  BY <1>1 DEF Packets
<1>4. i \in Nat /\ j \in Nat
  BY <1>1
<1> QED
  BY <1>2, <1>3, <1>4

\* When the loop looks at headers, they are those of the next packet.
LEMMA HeadersAreTheNextOnes ==
  ASSUME FramingInv, pc = "parse", HeadersReadable
  PROVE  /\ Len(delivered) + 1 \in DOMAIN sent
         /\ NextByte = sent[Len(delivered) + 1].start
         /\ DecodedHeaders = {HeaderFields(Len(delivered) + 1)}
<1> DEFINE k == Len(delivered) + 1
<1> USE Lengths DEF Lens
<1>1. /\ Len(sent) \in Nat
      /\ DOMAIN sent = 1 .. Len(sent)
      /\ StreamEnd \in Nat
  BY StreamEndNat DEF FramingInv, TypeInv, TypeOK
<1>2. NextByte \in Nat /\ Len(delivered) \in Nat /\ Len(delivered) <= Len(sent)
  BY NextByteFacts DEF FramingInv, InOrderOnce, TypeInv, TypeOK
<1>3. cursor \in Nat /\ rbuflen \in Int /\ received \in Nat /\ cursor + 24 < rbuflen
  BY DEF FramingInv, TypeInv, TypeOK, HeadersReadable
<1>4. NextByte < StreamEnd
  BY <1>1, <1>2, <1>3 DEF FramingInv, NoByteDropped, Base
<1>5. k \in DOMAIN sent /\ NextByte = sent[k].start
  BY <1>1, <1>2, <1>4, NextByteFacts DEF FramingInv
<1>6. \A j \in 0 .. 23 : cursor + j < rbuflen /\ buf[cursor + j] = NextByte + j
  <2> SUFFICES ASSUME NEW j \in 0 .. 23
               PROVE  cursor + j < rbuflen /\ buf[cursor + j] = NextByte + j
    OBVIOUS
  <2>1. cursor + j \in cursor .. rbuflen - 1 /\ (cursor + j) - cursor = j
    BY <1>3
  <2> QED
    BY <1>3, <2>1 DEF FramingInv, RestWaitsIntact, Base
<1>7. HoldsPacket(k, HeadersLen)
  <2>1. 0 .. HeadersLen - 1 = 0 .. 23
    OBVIOUS
  <2> HIDE DEF k
  <2> QED
    BY <1>5, <1>6, <2>1 DEF HoldsPacket
<1>8. ASSUME NEW i \in DOMAIN sent, HoldsPacket(i, HeadersLen)
      PROVE  i = k
  <2>1. buf[cursor + 0] = sent[i].start + 0
    BY <1>8 DEF HoldsPacket
  <2>2. buf[cursor + 0] = NextByte + 0
    BY <1>6
  <2>3. sent[i].start \in Nat
    BY StreamEndNat, <1>1 DEF FramingInv, TypeInv, TypeOK, Packets
  <2>4. sent[i].start = sent[k].start
    BY <1>2, <1>5, <2>1, <2>2, <2>3
  <2> QED
    BY <1>5, <2>4, StartsDiffer DEF FramingInv
<1>9. {i \in DOMAIN sent : sent[i].kind \in Kinds /\ HoldsPacket(i, HeadersLen)} = {k}
  <2>1. sent[k].kind \in Kinds
    <3>1. \A i \in 1 .. Len(sent) : sent[i] \in Packets
      BY StreamEndNat DEF FramingInv, TypeInv, TypeOK
    <3> HIDE DEF k
    <3>2. sent[k] \in Packets
      BY <1>1, <1>5, <3>1
    <3> QED
      BY <3>2 DEF Packets
  <2> HIDE DEF k
  <2> QED
    BY <1>5, <1>7, <1>8, <2>1
<1>10. DecodedHeaders = {HeaderFields(i) : i \in {k}}
  BY <1>9 DEF DecodedHeaders
<1> QED
  BY <1>5, <1>10

\* The master appends at the end of the stream, and touches nothing else.
LEMMA SendKeepsFraming ==
  ASSUME FramingInv, TypeInv', NEW kind \in Kinds, NEW size \in Nat,
         size > PacketHeaderLen, Send(kind, size)
  PROVE  FramingInv'
<1> DEFINE n == Len(sent)
           p == [kind |-> kind, start |-> StreamEnd, end |-> StreamEnd + size]
<1> USE Lengths DEF Lens
<1>1. /\ n \in Nat
      /\ DOMAIN sent = 1 .. n
      /\ StreamEnd \in Nat
      /\ \A i \in 1 .. n : sent[i] \in Packets
      /\ sent = <<>> <=> n = 0
  BY StreamEndNat DEF FramingInv, TypeInv, TypeOK
<1>2. /\ sent' = Append(sent, p)
      /\ UNCHANGED <<conn, received, buf, rbuflen, cursor, pc, delivered>>
  BY DEF Send
<1>3. /\ Len(sent') = n + 1
      /\ DOMAIN sent' = 1 .. n + 1
      /\ \A i \in 1 .. n : sent'[i] = sent[i]
      /\ sent'[n + 1] = p
  BY <1>1, <1>2 DEF FramingInv, TypeInv, TypeOK
<1>4. n # 0 => StreamEnd = sent[n].end
  BY <1>1 DEF StreamEnd
<1>5. \A i \in 1 .. n : sent[i].end <= StreamEnd
  <2> SUFFICES ASSUME NEW i \in 1 .. n PROVE sent[i].end <= StreamEnd
    OBVIOUS
  <2>1. CASE i = n
    BY <1>1, <1>4, <2>1
  <2>2. CASE i < n
    <3>1. /\ n \in DOMAIN sent
          /\ sent[i].end <= sent[n].start
          /\ sent[n].start < sent[n].end
      BY <1>1, <2>2 DEF FramingInv, PacketsTile
    <3>2. sent[i].end \in Nat /\ sent[n].start \in Nat /\ sent[n].end \in Nat
      BY <1>1, <2>2 DEF Packets
    <3> QED
      BY <1>1, <1>4, <3>1, <3>2
  <2> HIDE DEF n
  <2>3. i = n \/ i < n
    BY <1>1
  <2> QED
    BY <2>1, <2>2, <2>3
<1> HIDE DEF n
<1>6. PacketsTile'
  <2>1. ASSUME NEW i \in DOMAIN sent' PROVE sent'[i].start < sent'[i].end
    BY <1>1, <1>3, <2>1 DEF FramingInv, PacketsTile
  <2>2. ASSUME NEW i \in DOMAIN sent'
        PROVE  sent'[i].start = IF i = 1 THEN 0 ELSE sent'[i - 1].end
    <3>1. CASE i \in 1 .. n
      <4>1. i # 1 => i - 1 \in 1 .. n
        BY <1>1, <3>1
      <4> QED
        BY <1>1, <1>3, <3>1, <4>1 DEF FramingInv, PacketsTile
    <3>2. CASE i = n + 1
      <4>1. CASE n = 0
        BY <1>1, <1>3, <3>2, <4>1 DEF StreamEnd
      <4>2. CASE n # 0
        <5>1. i # 1 /\ i - 1 = n /\ n \in 1 .. n
          BY <1>1, <3>2, <4>2
        <5> QED
          BY <1>3, <1>4, <3>2, <4>2, <5>1
      <4> QED
        BY <4>1, <4>2
    <3> QED
      BY <1>1, <1>3, <2>2, <3>1, <3>2
  <2>3. ASSUME NEW i \in DOMAIN sent', NEW j \in DOMAIN sent', i < j
        PROVE  sent'[i].end <= sent'[j].start
    <3>1. i \in 1 .. n /\ sent'[i] = sent[i]
      BY <1>1, <1>3, <2>3
    <3>2. CASE j \in 1 .. n
      BY <1>1, <1>3, <2>3, <3>1, <3>2 DEF FramingInv, PacketsTile
    <3>3. CASE j = n + 1
      BY <1>3, <1>5, <3>1, <3>3
    <3> QED
      BY <1>1, <1>3, <2>3, <3>2, <3>3
  <2> QED
    BY <2>1, <2>2, <2>3 DEF PacketsTile
<1>7. StreamEnd' = StreamEnd + size
  BY <1>1, <1>3 DEF StreamEnd
<1>8. Len(delivered) \in Nat /\ Len(delivered) <= n
  BY DEF FramingInv, InOrderOnce, TypeInv, TypeOK, n
<1>9. NextByte' = NextByte
  <2>1. Len(delivered) \in 1 .. n + 1 <=> Len(delivered) \in 1 .. n
    BY <1>1, <1>8
  <2> QED
    BY <1>1, <1>2, <1>3, <1>8, <2>1 DEF NextByte
<1>10. received' <= StreamEnd'
  BY <1>1, <1>2, <1>7 DEF FramingInv, TypeInv, TypeOK
<1>11. InOrderOnce'
  BY <1>1, <1>2, <1>3, <1>8 DEF FramingInv, InOrderOnce
<1>12. RestWaitsIntact' /\ NoByteDropped'
  BY <1>2, <1>9 DEF FramingInv, RestWaitsIntact, NoByteDropped, Base
<1> QED
  BY <1>6, <1>10, <1>11, <1>12 DEF FramingInv

\* An event handed over is the next packet, whole, and the cursor is past it.
LEMMA HandleEventKeepsFraming ==
  ASSUME FramingInv, TypeInv', HandleEvent
  PROVE  /\ FramingInv'
         /\ delivered' = Append(delivered, Len(delivered) + 1)
         /\ sent[Len(delivered) + 1].kind = "event"
<1> DEFINE d == Len(delivered)
           k == Len(delivered) + 1
<1> USE Lengths DEF Lens
<1>1. /\ pc = "parse" /\ pc' = "parse" /\ HeadersReadable
      /\ UNCHANGED <<sent, conn, received, buf, rbuflen>>
  BY DEF HandleEvent, masterVars
<1>2. /\ k \in DOMAIN sent
      /\ NextByte = sent[k].start
      /\ DecodedHeaders = {HeaderFields(k)}
  BY <1>1, HeadersAreTheNextOnes
<1> DEFINE h == HeaderFields(k)
<1>3. /\ h.kind = "event"
      /\ EventComplete(h)
      /\ delivered' = Append(delivered, PacketGiven(h))
      /\ cursor' = CursorPast(h)
  BY <1>2 DEF HandleEvent
<1>4. /\ DOMAIN sent = 1 .. Len(sent)
      /\ Len(sent) \in Nat
      /\ \A i \in 1 .. Len(sent) : sent[i] \in Packets
      /\ d \in Nat
  BY StreamEndNat DEF FramingInv, TypeInv, TypeOK
<1>5. /\ h.event_size = Size(k) - 5
      /\ h.kind = sent[k].kind
      /\ Size(k) \in Nat
      /\ Size(k) > 0
      /\ sent[k].start \in Nat
      /\ sent[k].end = sent[k].start + Size(k)
  <2>1. sent[k] \in Packets /\ sent[k].start < sent[k].end
    BY <1>2, <1>4 DEF FramingInv, PacketsTile
  <2> QED
    BY <2>1 DEF HeaderFields, Size, Packets
<1>6. cursor \in Nat /\ rbuflen \in Int /\ received \in Nat
  BY DEF FramingInv, TypeInv, TypeOK
<1> HIDE DEF h
<1>7. cursor' = cursor + Size(k) /\ cursor + Size(k) <= rbuflen
  <2>1. /\ cursor' = (cursor + 24) + (h.event_size - 19)
        /\ (cursor + 24) + (h.event_size - 19) <= rbuflen
    BY <1>3 DEF EventComplete, CursorPast, AfterHeaders
  <2> DEFINE size == Size(k)
  <2>2. size \in Nat /\ h.event_size = size - 5
    BY <1>5
  <2> HIDE DEF size
  <2>3. cursor' = cursor + size /\ cursor + size <= rbuflen
    BY <1>6, <2>1, <2>2
  <2> QED
    BY <2>3 DEF size
<1>8. \A j \in 0 .. Size(k) - 1 :
        cursor + j < rbuflen /\ buf[cursor + j] = sent[k].start + j
  <2> SUFFICES ASSUME NEW j \in 0 .. Size(k) - 1
               PROVE  cursor + j < rbuflen /\ buf[cursor + j] = sent[k].start + j
    OBVIOUS
  <2>1. cursor + j \in cursor .. rbuflen - 1 /\ (cursor + j) - cursor = j
    BY <1>5, <1>6, <1>7
  <2> QED
    BY <1>1, <1>2, <1>6, <2>1 DEF FramingInv, RestWaitsIntact, Base
<1>9. h.event_size + PacketHeaderLen + 1 = Size(k)
  BY <1>5
<1>10. ASSUME NEW i \in DOMAIN sent, HoldsPacket(i, Size(k))
       PROVE  i = k
  <2>1. 0 \in 0 .. Size(k) - 1
    BY <1>5
  <2>2. buf[cursor + 0] = sent[i].start + 0 /\ buf[cursor + 0] = sent[k].start + 0
    BY <1>8, <1>10, <2>1 DEF HoldsPacket
  <2>3. sent[i].start \in Nat
    BY <1>4 DEF Packets
  <2>4. sent[i].start = sent[k].start
    BY <1>5, <2>2, <2>3
  <2> QED
    BY <1>2, <2>4, StartsDiffer DEF FramingInv
<1>11. PacketGiven(h) = k
  <2>1. HoldsPacket(k, Size(k))
    BY <1>8 DEF HoldsPacket
  <2> HIDE DEF k
  <2>2. {i \in DOMAIN sent : Size(i) = Size(k) /\ HoldsPacket(i, Size(k))} = {k}
    BY <1>2, <1>10, <2>1
  <2> QED
    BY <1>9, <2>2 DEF PacketGiven
<1>12. delivered' = Append(delivered, k)
  BY <1>3, <1>11
<1>13. /\ Len(delivered') = k
       /\ DOMAIN delivered' = 1 .. k
       /\ \A i \in 1 .. d : delivered'[i] = delivered[i]
       /\ delivered'[k] = k
       /\ DOMAIN delivered = 1 .. d
  BY <1>12, <1>4 DEF FramingInv, TypeInv, TypeOK
<1>14. InOrderOnce'
  BY <1>1, <1>2, <1>4, <1>13 DEF FramingInv, InOrderOnce
<1>15. NextByte' = NextByte + Size(k)
  BY <1>1, <1>2, <1>5, <1>13 DEF NextByte
<1>16. RestWaitsIntact'
  <2> SUFFICES ASSUME NEW i \in cursor' .. rbuflen' - 1
               PROVE  buf'[i] = NextByte' + (i - cursor')
    BY <1>1 DEF RestWaitsIntact, Base
  <2>1. i \in cursor .. rbuflen - 1
    BY <1>1, <1>5, <1>6, <1>7
  <2>2. buf'[i] = NextByte + (i - cursor)
    BY <1>1, <2>1 DEF FramingInv, RestWaitsIntact, Base
  <2> DEFINE size == Size(k)
  <2>3. size \in Int /\ NextByte \in Int /\ i \in Int
    BY <1>2, <1>5, <1>6, <2>1
  <2>4. NextByte' = NextByte + size /\ cursor' = cursor + size
    BY <1>7, <1>15
  <2> HIDE DEF size
  <2>5. NextByte + (i - cursor) = NextByte' + (i - cursor')
    BY <1>6, <2>3, <2>4
  <2> QED
    BY <2>2, <2>5
<1>17. NoByteDropped'
  <2> DEFINE lost == IF conn = "dead" THEN 1 ELSE 0
             size == Size(k)
  <2>1. received - NextByte = (rbuflen - cursor) + lost
    BY <1>1 DEF FramingInv, NoByteDropped, Base
  <2>2. NextByte \in Int /\ lost \in Int /\ size \in Int
    BY <1>2, <1>5
  <2>3. NextByte' = NextByte + size /\ cursor' = cursor + size
    BY <1>7, <1>15
  <2> HIDE DEF lost, size
  <2>4. received - (NextByte + size) = (rbuflen - (cursor + size)) + lost
    BY <1>6, <2>1, <2>2
  <2>5. received - NextByte' = (rbuflen - cursor') + lost
    BY <2>3, <2>4
  <2> QED
    BY <1>1, <2>5 DEF NoByteDropped, Base, lost
<1>18. PacketsTile' /\ received' <= StreamEnd'
  BY <1>1 DEF FramingInv, PacketsTile, StreamEnd
<1> QED
  BY <1>3, <1>5, <1>12, <1>14, <1>16, <1>17, <1>18 DEF FramingInv

\* The bytes left over move to the front in order if memcpy copies forward.
LEMMA KeepRestKeepsFraming ==
  ASSUME ForwardCopy, FramingInv, TypeInv', KeepRest
  PROVE  FramingInv'
<1>1. /\ pc = "parse" /\ pc' = "read"
      /\ UNCHANGED <<sent, conn, received, delivered>>
      /\ rbuflen' = Rest
  BY DEF KeepRest, masterVars
<1>2. PICK order \in CopyOrders : buf' = Moved(order)
  BY DEF KeepRest
<1>3. /\ cursor \in Nat /\ rbuflen \in Int /\ received \in Nat
      /\ Rest = rbuflen - cursor
  BY DEF FramingInv, TypeInv, TypeOK, Rest
<1>4. \A i \in 0 .. Rest - 1 : buf'[i] = buf[cursor + i]
  BY <1>2 DEF ForwardCopy, Moved
<1>5. NextByte' = NextByte
  BY <1>1 DEF NextByte
<1>6. RestWaitsIntact'
  <2> SUFFICES ASSUME NEW i \in 0 .. rbuflen' - 1
               PROVE  buf'[i] = NextByte' + i
    BY <1>1 DEF RestWaitsIntact, Base
  <2>1. cursor + i \in cursor .. rbuflen - 1 /\ (cursor + i) - cursor = i
    BY <1>1, <1>3
  <2>2. buf[cursor + i] = NextByte + i
    BY <1>1, <2>1 DEF FramingInv, RestWaitsIntact, Base
  <2> QED
    BY <1>1, <1>4, <1>5, <2>2
<1>7. NoByteDropped'
  BY <1>1, <1>3, <1>5 DEF FramingInv, NoByteDropped, Base
<1>8. PacketsTile' /\ received' <= StreamEnd' /\ InOrderOnce'
  BY <1>1 DEF FramingInv, PacketsTile, StreamEnd, InOrderOnce
<1> QED
  BY <1>6, <1>7, <1>8 DEF FramingInv

\* A read that returns bytes extends what the buffer holds of the stream.
LEMMA ReadBytesKeepsFraming ==
  ASSUME FramingInv, TypeInv', NEW n \in 1 .. BufSize, ReadBytes(n)
  PROVE  FramingInv'
<1>1. /\ pc = "read" /\ pc' = "parse" /\ conn # "dead"
      /\ UNCHANGED <<sent, conn, delivered>>
      /\ rbuflen' = rbuflen + n /\ received' = received + n /\ cursor' = 0
      /\ received + n <= StreamEnd
      /\ buf' = Filled(n)
  BY DEF ReadBytes, masterVars
<1>2. n \in Nat /\ rbuflen \in Nat /\ received \in Nat
  BY <1>1, StreamAssumption DEF FramingInv, TypeInv, TypeOK, CursorInBuffer
<1>3. NextByte' = NextByte
  BY <1>1 DEF NextByte
<1>4. NextByte \in Nat
  BY NextByteFacts DEF FramingInv, InOrderOnce
<1>5. received = NextByte + rbuflen
  BY <1>1, <1>2, <1>4 DEF FramingInv, NoByteDropped, Base
<1>6. RestWaitsIntact'
  <2> SUFFICES ASSUME NEW i \in 0 .. rbuflen' - 1
               PROVE  buf'[i] = NextByte' + i
    BY <1>1, <1>2 DEF RestWaitsIntact, Base
  <2>1. i \in 0 .. rbuflen + n - 1
    BY <1>1, <1>2
  <2>2. CASE i < rbuflen
    <3>1. buf[i] = NextByte + i
      BY <1>1, <1>2, <2>1, <2>2 DEF FramingInv, RestWaitsIntact, Base
    <3> QED
      BY <1>1, <1>3, <2>1, <2>2, <3>1 DEF Filled
  <2>3. CASE ~(i < rbuflen)
    <3>1. buf'[i] = received + (i - rbuflen)
      BY <1>1, <2>1, <2>3 DEF Filled
    <3> QED
      BY <1>2, <1>3, <1>4, <1>5, <2>1, <3>1
  <2> QED
    BY <2>2, <2>3
<1>7. NoByteDropped'
  BY <1>1, <1>2, <1>3, <1>4, <1>5 DEF NoByteDropped, Base
<1>8. PacketsTile' /\ received' <= StreamEnd' /\ InOrderOnce'
  BY <1>1 DEF FramingInv, PacketsTile, StreamEnd, InOrderOnce
<1> QED
  BY <1>6, <1>7, <1>8 DEF FramingInv

\* A read that returns nothing, or fails, leaves the rest as it is, the
\* last byte excepted.
LEMMA IdleReadKeepsFraming ==
  ASSUME FramingInv, TypeInv', ReadNothing \/ ReadError
  PROVE  FramingInv'
<1>1. /\ pc = "read"
      /\ UNCHANGED <<sent, received, delivered>>
  BY DEF ReadNothing, ReadError, masterVars
<1>2. rbuflen \in Nat /\ received \in Nat
  BY <1>1 DEF FramingInv, TypeInv, TypeOK, CursorInBuffer
<1>3. NextByte' = NextByte /\ NextByte \in Nat
  BY <1>1, NextByteFacts DEF NextByte, FramingInv, InOrderOnce
<1>4. \A i \in 0 .. rbuflen - 1 : buf[i] = NextByte + i
  BY <1>1, <1>2 DEF FramingInv, RestWaitsIntact, Base
<1>5. RestWaitsIntact'
  <2>1. CASE ReadNothing
    BY <1>1, <1>2, <1>3, <1>4, <2>1 DEF ReadNothing, RestWaitsIntact, Base
  <2>2. CASE ReadError
    <3> SUFFICES ASSUME pc' # "exited", NEW i \in 0 .. rbuflen' - 1
                 PROVE  buf'[i] = NextByte' + i
      BY <2>2, <1>2 DEF RestWaitsIntact, Base, ReadError
    <3>1. i \in 0 .. rbuflen - 2 /\ i \in 0 .. rbuflen - 1
      BY <1>2, <2>2 DEF ReadError
    <3> QED
      BY <1>3, <1>4, <2>2, <3>1 DEF ReadError
  <2> QED
    BY <2>1, <2>2
<1>6. NoByteDropped'
  BY <1>1, <1>2, <1>3
  DEF FramingInv, NoByteDropped, Base, ReadNothing, ReadError, masterVars
<1>7. PacketsTile' /\ received' <= StreamEnd' /\ InOrderOnce'
  BY <1>1 DEF FramingInv, PacketsTile, StreamEnd, InOrderOnce
<1> QED
  BY <1>5, <1>6, <1>7 DEF FramingInv

LEMMA FramingInit == Init => FramingInv
BY TypeInit, StreamAssumption
DEF Init, LoopInit, FramingInv, PacketsTile, StreamEnd, InOrderOnce, RestWaitsIntact,
    NoByteDropped, NextByte, Base

LEMMA FramingNext ==
  ASSUME ForwardCopy, FramingInv, [Next]_vars
  PROVE  FramingInv'
<1> USE StreamAssumption, Lengths DEF Lens
<1>1. TypeInv'
  BY TypeNext DEF FramingInv
<1>2. CASE SendEvent
  BY <1>1, <1>2, SendKeepsFraming DEF SendEvent, Kinds
<1>3. CASE SendErr
  BY <1>1, <1>3, SendKeepsFraming DEF SendErr, Kinds
<1>4. CASE Close \/ Reset
  BY <1>1, <1>4
  DEF Close, Reset, FramingInv, PacketsTile, StreamEnd, InOrderOnce,
      RestWaitsIntact, NoByteDropped, NextByte, Base
<1>5. CASE \E n \in 1 .. BufSize : ReadBytes(n)
  BY <1>1, <1>5, ReadBytesKeepsFraming
<1>6. CASE ReadNothing \/ ReadError
  BY <1>1, <1>6, IdleReadKeepsFraming
<1>7. CASE HandleEvent
  BY <1>1, <1>7, HandleEventKeepsFraming
<1>8. CASE HandleErr
  BY <1>1, <1>8
  DEF HandleErr, masterVars, FramingInv, PacketsTile, StreamEnd, InOrderOnce,
      RestWaitsIntact, NoByteDropped
<1>9. CASE KeepRest
  BY <1>1, <1>9, KeepRestKeepsFraming
<1>10. CASE UNCHANGED vars
  BY <1>1, <1>10
  DEF vars, FramingInv, PacketsTile, StreamEnd, InOrderOnce,
      RestWaitsIntact, NoByteDropped, NextByte, Base
<1> QED
  BY <1>2, <1>3, <1>4, <1>5, <1>6, <1>7, <1>8, <1>9, <1>10
  DEF Next, Master, Client, Exited

\* The same step where the loop is part of a program: as one formula, from any
\* connection the loop is entered with, and with hang-ups of a closed one.
LEMMA FramingStep == ForwardCopy /\ FramingInv /\ [Next]_vars => FramingInv'
BY FramingNext

LEMMA FramingAtEntry ==
  sent = <<>> /\ LoopInit /\ conn \in {"open", "closed", "reset"} => FramingInv
<1> SUFFICES ASSUME sent = <<>>, LoopInit, conn \in {"open", "closed", "reset"}
             PROVE  FramingInv
  OBVIOUS
<1>1. TypeInv
  BY StreamAssumption
  DEF LoopInit, TypeInv, TypeOK, CursorInBuffer, Packets
<1> QED
  BY <1>1 DEF LoopInit, FramingInv, PacketsTile, StreamEnd, InOrderOnce, RestWaitsIntact,
     NoByteDropped, NextByte, Base

HungUp ==
  /\ conn \in {"open", "closed"} /\ conn' \in {"closed", "reset"}
  /\ UNCHANGED <<sent, received, buf, rbuflen, cursor, pc, delivered>>

LEMMA FramingHungUp == FramingInv /\ HungUp => FramingInv'
BY DEF HungUp, FramingInv, TypeInv, TypeOK, CursorInBuffer,
   PacketsTile, StreamEnd, InOrderOnce, RestWaitsIntact, NoByteDropped, NextByte, Base

\* What the loop hands over is the next packet, and it is an event.
LEMMA HandsOverTheNext ==
  FramingInv /\ HandleEvent =>
    /\ delivered' = Append(delivered, Len(delivered) + 1)
    /\ Len(delivered) + 1 \in DOMAIN sent
    /\ sent[Len(delivered) + 1].kind = "event"
<1> SUFFICES ASSUME FramingInv, HandleEvent
             PROVE  /\ delivered' = Append(delivered, Len(delivered) + 1)
                    /\ Len(delivered) + 1 \in DOMAIN sent
                    /\ sent[Len(delivered) + 1].kind = "event"
  OBVIOUS
<1>1. TypeInv'
  BY TypeNext DEF FramingInv, Next, Client
<1>2. Len(delivered) + 1 \in DOMAIN sent
  BY HeadersAreTheNextOnes DEF HandleEvent
<1> QED
  BY <1>1, <1>2, HandleEventKeepsFraming

\* If memcpy copies overlapping bytes as memmove does, parse_binlog_events is
\* given the master's events one by one, whole and in order, whatever the
\* buffer, the sizes of the events and the way the reads cut the stream.
THEOREM EventsInOrderOnce ==
  ASSUME ForwardCopy PROVE Spec => []InOrderOnce
<1>1. FramingInv /\ [Next]_vars => FramingInv'
  BY FramingNext
<1>2. FramingInv => InOrderOnce
  BY DEF FramingInv
<1> QED
  BY FramingInit, <1>1, <1>2, PTL DEF Spec

\* Under the same condition the bytes kept in the buffer are always the stream
\* from the first unhandled byte on (binlog.c:374-388).
THEOREM RestIsIntact ==
  ASSUME ForwardCopy PROVE Spec => []RestWaitsIntact
<1>1. FramingInv /\ [Next]_vars => FramingInv'
  BY FramingNext
<1>2. FramingInv => RestWaitsIntact
  BY DEF FramingInv
<1> QED
  BY FramingInit, <1>1, <1>2, PTL DEF Spec

\* And they are all that was read of it, but for the byte that a failed read
\* takes off (binlog.c:335, 387-388).
THEOREM NoByteIsDropped ==
  ASSUME ForwardCopy PROVE Spec => []NoByteDropped
<1>1. FramingInv /\ [Next]_vars => FramingInv'
  BY FramingNext
<1>2. FramingInv => NoByteDropped
  BY DEF FramingInv
<1> QED
  BY FramingInit, <1>1, <1>2, PTL DEF Spec
-----------------------------------------------------------------------------
(***************************************************************************)
(* Going back to read().  What keeps the loop from handing an event over   *)
(* after the connection failed is that it never reads while it could still *)
(* cut an event off.                                                       *)
(***************************************************************************)

\* At read(), and after the connection failed, the buffer holds no more than
\* headers, or the start of a packet that is longer than what it holds.
RestIncomplete ==
  (pc = "read" \/ conn = "dead") /\ pc # "exited" =>
    \/ rbuflen - Base <= HeadersLen
    \/ /\ Len(delivered) + 1 \in DOMAIN sent
       /\ Size(Len(delivered) + 1) > rbuflen - Base

ReadInv == FramingInv /\ RestIncomplete

\* Appending a packet does not complete one.
LEMMA SendKeepsRestIncomplete ==
  ASSUME ReadInv, NEW kind, NEW size \in Nat, Send(kind, size)
  PROVE  RestIncomplete'
<1> DEFINE p == [kind |-> kind, start |-> StreamEnd, end |-> StreamEnd + size]
           k == Len(delivered) + 1
<1>1. /\ sent' = Append(sent, p)
      /\ UNCHANGED <<conn, received, buf, rbuflen, cursor, pc, delivered>>
  BY DEF Send
<1>2. k \in DOMAIN sent => k \in DOMAIN sent' /\ sent'[k] = sent[k]
  BY <1>1 DEF ReadInv, FramingInv, TypeInv, TypeOK
<1> HIDE DEF k
<1>3. k' = k
  BY <1>1 DEF k
<1>4. k \in DOMAIN sent => Size(k)' = Size(k)
  BY <1>2, <1>3 DEF Size
<1>5. Base' = Base
  BY <1>1 DEF Base
<1> QED
  BY <1>1, <1>2, <1>3, <1>4, <1>5 DEF ReadInv, RestIncomplete, k

\* No event is cut off once the connection failed.
LEMMA NoEventAfterFailure ==
  ASSUME ReadInv, HandleEvent
  PROVE  conn # "dead"
<1> SUFFICES ASSUME conn = "dead" PROVE FALSE
  OBVIOUS
<1> USE Lengths DEF Lens
<1> DEFINE k == Len(delivered) + 1
<1>1. pc = "parse" /\ HeadersReadable
  BY DEF HandleEvent
<1>2. k \in DOMAIN sent /\ DecodedHeaders = {HeaderFields(k)}
  BY <1>1, HeadersAreTheNextOnes DEF ReadInv
<1>3. EventComplete(HeaderFields(k))
  BY <1>2 DEF HandleEvent
<1>4. cursor \in Nat /\ rbuflen \in Int
  BY DEF ReadInv, FramingInv, TypeInv, TypeOK
<1>5. Size(k) \in Int
  <2>1. sent[k] \in Packets
    BY <1>2 DEF ReadInv, FramingInv, TypeInv, TypeOK
  <2> QED
    BY <2>1 DEF Size, Packets
<1>6. rbuflen - cursor > 24
  BY <1>1, <1>4 DEF HeadersReadable
<1>7. Size(k) > rbuflen - cursor
  BY <1>1, <1>4, <1>6 DEF ReadInv, RestIncomplete, Base
<1> HIDE DEF k
<1> QED
  BY <1>3, <1>4, <1>5, <1>7 DEF EventComplete, HeaderFields, AfterHeaders

\* The inner loop stops only on a rest it can cut nothing from.
LEMMA KeepRestLeavesIncomplete ==
  ASSUME ReadInv, KeepRest
  PROVE  RestIncomplete'
<1> USE Lengths DEF Lens
<1> DEFINE k == Len(delivered) + 1
<1>1. /\ pc = "parse" /\ pc' = "read" /\ rbuflen' = rbuflen - cursor
      /\ UNCHANGED <<sent, delivered>>
  BY DEF KeepRest, masterVars, Rest
<1>2. cursor \in Nat /\ rbuflen \in Int
  BY DEF ReadInv, FramingInv, TypeInv, TypeOK
<1>3. CASE ~HeadersReadable
  BY <1>1, <1>2, <1>3 DEF HeadersReadable, RestIncomplete, Base
<1>4. CASE HeadersReadable
  <2>1. k \in DOMAIN sent /\ DecodedHeaders = {HeaderFields(k)}
    BY <1>1, <1>4, HeadersAreTheNextOnes DEF ReadInv
  <2>2. ~EventComplete(HeaderFields(k))
    BY <1>4, <2>1 DEF KeepRest
  <2>3. Size(k) \in Nat /\ Size(k)' = Size(k)
    <3>1. sent[k] \in Packets /\ sent[k].start < sent[k].end
      BY <2>1 DEF ReadInv, FramingInv, TypeInv, TypeOK, PacketsTile
    <3> QED
      BY <1>1, <3>1 DEF Size, Packets
  <2>4. k' = k
    BY <1>1
  <2> HIDE DEF k
  <2>5. Size(k) > rbuflen - cursor
    <3> DEFINE size == Size(k)
    <3>1. ~((cursor + 24) + ((size - 5) - 19) \in 0 .. rbuflen)
      BY <2>2, <2>3 DEF EventComplete, HeaderFields, AfterHeaders
    <3>2. size \in Nat
      BY <2>3
    <3> HIDE DEF size
    <3>3. size > rbuflen - cursor
      BY <1>2, <3>1, <3>2
    <3> QED
      BY <3>3 DEF size
  <2> QED
    BY <1>1, <1>2, <2>1, <2>3, <2>4, <2>5 DEF RestIncomplete, Base, k
<1> QED
  BY <1>3, <1>4

LEMMA ReadInit == Init => ReadInv
<1> SUFFICES ASSUME Init PROVE RestIncomplete
  BY FramingInit DEF ReadInv
<1> QED
  BY Lengths DEF Init, LoopInit, RestIncomplete, Base, Lens

LEMMA ReadNext ==
  ASSUME ForwardCopy, ReadInv, [Next]_vars
  PROVE  ReadInv'
<1> SUFFICES RestIncomplete'
  BY FramingNext DEF ReadInv
<1> USE StreamAssumption, Lengths DEF Lens
<1>1. CASE SendEvent
  BY <1>1, SendKeepsRestIncomplete DEF SendEvent
<1>2. CASE SendErr
  BY <1>2, SendKeepsRestIncomplete DEF SendErr
<1>3. CASE Close \/ Reset
  BY <1>3 DEF Close, Reset, ReadInv, RestIncomplete, Base, Size
<1>4. CASE \E n \in 1 .. BufSize : ReadBytes(n)
  BY <1>4 DEF ReadBytes, masterVars, RestIncomplete
<1>5. CASE ReadNothing
  BY <1>5 DEF ReadNothing, masterVars, ReadInv, RestIncomplete, Base, Size
<1>6. CASE ReadError
  <2>1. rbuflen \in Int /\ \A i \in DOMAIN sent : Size(i) \in Int
    <3>1. rbuflen \in Int /\ \A i \in DOMAIN sent : sent[i] \in Packets
      BY DEF ReadInv, FramingInv, TypeInv, TypeOK
    <3> QED
      BY <3>1 DEF Size, Packets
  <2> QED
    BY <1>6, <2>1 DEF ReadError, ReadInv, RestIncomplete, Base, Size
<1>7. CASE HandleEvent
  BY <1>7, NoEventAfterFailure DEF HandleEvent, masterVars, RestIncomplete
<1>8. CASE HandleErr
  BY <1>8 DEF HandleErr, RestIncomplete
<1>9. CASE KeepRest
  BY <1>9, KeepRestLeavesIncomplete
<1>10. CASE UNCHANGED vars
  BY <1>10 DEF vars, ReadInv, RestIncomplete, Base, Size
<1> QED
  BY <1>1, <1>2, <1>3, <1>4, <1>5, <1>6, <1>7, <1>8, <1>9, <1>10
  DEF Next, Master, Client, Exited

(***************************************************************************)
(* The loop implements EventDelivery: an event packet appended is a Write, *)
(* an event cut off is a Deliver, the end of the connection or of the loop *)
(* is a Fail, and every other step leaves the abstract state as it is.     *)
(***************************************************************************)

LEMMA DeliveryInit == Init => Delivery!Init
BY DEF Init, LoopInit, Delivery!Init, EventsDue, LastIsNotDue, ErrSent, Lost

\* A packet more makes its event due, or that of the one before, or both.
LEMMA SendMakesDue ==
  ASSUME ReadInv, NEW kind \in Kinds, NEW size, Send(kind, size)
  PROVE  [Delivery!Write]_(Delivery!deliveryVars)
<1>1. /\ sent' = Append(sent, [kind |-> kind, start |-> StreamEnd,
                               end |-> StreamEnd + size])
      /\ ~ErrSent
      /\ UNCHANGED <<conn, pc, delivered>>
  BY DEF Send
<1>2. /\ Len(sent) \in Nat
      /\ Len(sent') = Len(sent) + 1
  BY <1>1 DEF ReadInv, FramingInv, TypeInv, TypeOK
<1>3. Len(sent) # 0 \/ EventsDue = 0
  <2>1. Len(sent) = 0 => sent = <<>>
    BY StreamEndNat DEF ReadInv, FramingInv, TypeInv, TypeOK
  <2> QED
    BY <2>1, <1>1, <1>2 DEF EventsDue, LastIsNotDue
<1>4. EventsDue' \in {Len(sent), Len(sent) + 1}
  BY <1>2 DEF EventsDue
<1>5. EventsDue \in {Len(sent) - 1, Len(sent)}
  BY <1>2 DEF EventsDue
<1>6. EventsDue' \in {EventsDue, EventsDue + 1, EventsDue + 2}
  BY <1>2, <1>4, <1>5
<1> QED
  BY <1>1, <1>6 DEF Delivery!Write, Delivery!deliveryVars, Lost

\* If the loop hands over the last event, it has read a byte past its headers.
LEMMA LastIsReadPastItsHeaders ==
  ASSUME ReadInv, HandleEvent, Len(delivered) + 1 = Len(sent)
  PROVE  Size(Len(sent)) # HeadersLen
<1> USE Lengths DEF Lens
<1>1. pc = "parse" /\ rbuflen - cursor > 24
  BY DEF HandleEvent, HeadersReadable, ReadInv, FramingInv, TypeInv, TypeOK
<1>2. /\ Len(sent) \in Nat /\ StreamEnd \in Nat /\ sent # <<>>
      /\ Len(delivered) \in Nat /\ rbuflen \in Int /\ cursor \in Int
      /\ received \in Nat /\ received <= StreamEnd
  BY StreamEndNat DEF ReadInv, FramingInv, TypeInv, TypeOK
<1>3. NextByte \in Nat /\ received >= NextByte + (rbuflen - cursor)
  BY <1>1, <1>2, NextByteFacts DEF ReadInv, FramingInv, NoByteDropped, InOrderOnce, Base
<1>4. sent[Len(sent)].start = NextByte /\ sent[Len(sent)].end = StreamEnd
  BY <1>2, NextByteFacts DEF ReadInv, FramingInv, InOrderOnce, StreamEnd
<1> QED
  BY <1>1, <1>2, <1>3, <1>4 DEF Size

LEMMA DeliveryNext ==
  ASSUME ReadInv, [Next]_vars
  PROVE  [Delivery!Next]_(Delivery!deliveryVars)
<1> USE DEF Delivery!deliveryVars
<1>1. CASE SendEvent
  BY <1>1, SendMakesDue DEF SendEvent, Kinds, Delivery!Next
<1>2. CASE SendErr
  BY <1>2, SendMakesDue DEF SendErr, Kinds, Delivery!Next
<1>3. CASE Close \/ Reset
  BY <1>3 DEF Close, Reset, EventsDue, LastIsNotDue, ErrSent, Size, Lost
<1>4. CASE \E n \in 1 .. BufSize : ReadBytes(n)
  BY <1>4 DEF ReadBytes, masterVars, EventsDue, LastIsNotDue, ErrSent, Size, Lost
<1>5. CASE ReadNothing
  BY <1>5 DEF ReadNothing, masterVars, EventsDue, LastIsNotDue, ErrSent, Size, Lost
<1>6. CASE ReadError
  <2>1. ~Lost /\ Lost' /\ UNCHANGED <<EventsDue, delivered>>
    BY <1>6 DEF ReadError, EventsDue, LastIsNotDue, ErrSent, Size, Lost
  <2> QED
    BY <2>1 DEF Delivery!Next, Delivery!Fail
<1>7. CASE HandleEvent
  <2>1. conn # "dead"
    BY <1>7, NoEventAfterFailure
  <2>2. ~Lost /\ ~Lost' /\ UNCHANGED EventsDue
    BY <1>7, <2>1 DEF HandleEvent, masterVars, EventsDue, LastIsNotDue, ErrSent, Size, Lost
  <2>3. /\ delivered' = Append(delivered, Len(delivered) + 1)
        /\ sent[Len(delivered) + 1].kind = "event"
    BY <1>7, TypeNext, HandleEventKeepsFraming DEF ReadInv, FramingInv
  <2>4. Len(delivered) + 1 \in 1 .. Len(sent)
    <3>1. Len(delivered) + 1 \in DOMAIN sent
      BY <1>7, HeadersAreTheNextOnes DEF ReadInv, HandleEvent
    <3> QED
      BY <3>1 DEF ReadInv, FramingInv, TypeInv, TypeOK
  <2>5. Len(delivered) < EventsDue
    <3>1. Len(sent) \in Nat /\ Len(delivered) \in Nat /\ sent # <<>>
      BY <2>4, StreamEndNat DEF ReadInv, FramingInv, TypeInv, TypeOK
    <3>2. Len(delivered) + 1 = Len(sent) => ~ErrSent
      BY <2>3 DEF ErrSent
    <3>3. Len(delivered) + 1 = Len(sent) => Size(Len(sent)) # HeadersLen
      BY <1>7, LastIsReadPastItsHeaders
    <3> QED
      BY <2>4, <3>1, <3>2, <3>3 DEF EventsDue, LastIsNotDue
  <2> QED
    BY <2>2, <2>3, <2>5 DEF Delivery!Next, Delivery!Deliver
<1>8. CASE HandleErr
  <2>1. Lost' /\ UNCHANGED <<EventsDue, delivered>>
    BY <1>8 DEF HandleErr, masterVars, EventsDue, LastIsNotDue, ErrSent, Size, Lost
  <2>2. CASE Lost
    BY <2>1, <2>2
  <2>3. CASE ~Lost
    BY <2>1, <2>3 DEF Delivery!Next, Delivery!Fail
  <2> QED
    BY <2>2, <2>3
<1>9. CASE KeepRest
  BY <1>9 DEF KeepRest, masterVars, EventsDue, LastIsNotDue, ErrSent, Size, Lost
<1>10. CASE UNCHANGED vars
  BY <1>10 DEF vars, EventsDue, LastIsNotDue, ErrSent, Size, Lost
<1> QED
  BY <1>1, <1>2, <1>3, <1>4, <1>5, <1>6, <1>7, <1>8, <1>9, <1>10
  DEF Next, Master, Client, Exited

\* If memcpy copies forward, the loop implements the first-in first-out
\* delivery of EventDelivery, its liveness left to the model checker.
THEOREM LoopImplementsDelivery ==
  ASSUME ForwardCopy PROVE Spec => ImplementsDelivery
<1>1. ReadInv /\ [Next]_vars => ReadInv'
  BY ReadNext
<1>2. ReadInv /\ [Next]_vars => [Delivery!Next]_(Delivery!deliveryVars)
  BY DeliveryNext
<1> QED
  BY ReadInit, DeliveryInit, <1>1, <1>2, PTL
  DEF Spec, ImplementsDelivery, Delivery!SafeSpec
-----------------------------------------------------------------------------
(***************************************************************************)
(* The loop never waits for bytes it does not need, but for the one past   *)
(* the headers.                                                            *)
(***************************************************************************)

\* If memcpy copies forward, the loop calls read() again only with the start
\* of a packet that is not all there left, or with no more than its headers
\* (binlog.c:340-341).
THEOREM NeverWaitsNeedlessly ==
  ASSUME ForwardCopy PROVE Spec => []ReadsOnlyWhenNeededPastHeaders
<1>1. ReadInv /\ [Next]_vars => ReadInv'
  BY ReadNext
<1>2. ReadInv => ReadsOnlyWhenNeededPastHeaders
  <2> SUFFICES ASSUME ReadInv, pc = "read", rbuflen > HeadersLen
               PROVE  \E i \in DOMAIN sent :
                        /\ Size(i) > rbuflen
                        /\ \A j \in 0 .. HeadersLen - 1 :
                             buf[j] = sent[i].start + j
    BY DEF ReadsOnlyWhenNeededPastHeaders, BeginsLongerPacket
  <2> DEFINE k == Len(delivered) + 1
  <2> USE Lengths DEF Lens
  <2>1. /\ Len(sent) \in Nat /\ DOMAIN sent = 1 .. Len(sent)
        /\ StreamEnd \in Nat
    BY StreamEndNat DEF ReadInv, FramingInv, TypeInv, TypeOK
  <2>2. /\ Len(delivered) \in Nat /\ Len(delivered) <= Len(sent)
        /\ rbuflen \in Int /\ received \in Nat /\ received <= StreamEnd
    BY DEF ReadInv, FramingInv, InOrderOnce, TypeInv, TypeOK
  <2>3. NextByte \in Nat /\ received >= NextByte + rbuflen
    BY <2>2, NextByteFacts DEF ReadInv, FramingInv, NoByteDropped, InOrderOnce, Base
  <2>4. k \in DOMAIN sent /\ NextByte = sent[k].start
    <3>1. Len(delivered) # Len(sent)
      BY <2>1, <2>2, <2>3, NextByteFacts DEF ReadInv, FramingInv, InOrderOnce
    <3> QED
      BY <2>1, <2>2, <3>1, NextByteFacts DEF ReadInv, FramingInv, InOrderOnce
  <2>5. Size(k) > rbuflen
    BY <2>2 DEF ReadInv, RestIncomplete, Base
  <2>6. \A j \in 0 .. 23 : buf[j] = NextByte + j
    BY <2>2, <2>3 DEF ReadInv, FramingInv, RestWaitsIntact, Base
  <2> HIDE DEF k
  <2> QED
    BY <2>4, <2>5, <2>6
<1> QED
  BY ReadInit, <1>1, <1>2, PTL DEF Spec
=============================================================================
