------------------------------- MODULE Slave -------------------------------
(***************************************************************************)
(* The whole of main (client.c) over one connection: Session up to the     *)
(* request for the binlog, then the loop of BinlogStream.  What the        *)
(* session left unread of the replies, and what the master still answers   *)
(* to it, is what the loop reads first.                                    *)
(***************************************************************************)
EXTENDS Session

CONSTANTS BufSize, EventSizes, ErrSizes, WrongSizes, CopyOrders, MaxPackets  \* BinlogStream's

VARIABLES
  sent,       \* what the loop has before it: rest of the replies, then the dump
  received, buf, rbuflen, cursor, delivered,  \* as in BinlogStream
  loop        \* where the loop is once main is in it

loopVars == <<sent, received, buf, rbuflen, cursor, delivered, loop>>
slaveVars == <<vars, loopVars>>

Loop == INSTANCE BinlogStream WITH pc <- loop

ASSUME SlaveAssumption == Loop!StreamAssumption

SlaveInit == Init /\ sent = <<>> /\ Loop!LoopInit

\* Bytes of a reply get in the way of the loop.
Left(replies) ==
  sent' = IF replies = <<>> THEN sent
          ELSE Append(sent, [kind |-> "reply", start |-> Loop!StreamEnd,
                             end |-> Loop!StreamEnd + Len(replies)])

\* The client up to the loop.  The loop's buffer is its own: it starts empty.
SessionStep ==
  /\ Client
  /\ IF pc' = "stream" THEN Left(unread') ELSE UNCHANGED sent
  /\ UNCHANGED <<received, buf, rbuflen, cursor, delivered, loop>>

\* The master may be late with the replies; then the loop gets them.
AnswerStep ==
  /\ Answer
  /\ IF pc = "stream" /\ unread' # unread
     THEN Left(SubSeq(unread', Len(unread) + 1, Len(unread')))
     ELSE UNCHANGED sent
  /\ UNCHANGED <<received, buf, rbuflen, cursor, delivered, loop>>

HangUpStep == HangUp /\ UNCHANGED loopVars

\* The master (external) sends the dump once it accepted the request.
DumpStep ==
  /\ "dump" \in accepted
  /\ Loop!SendEvent \/ Loop!SendErr
  /\ UNCHANGED vars

\* main returns 0 when the loop ends; an error packet makes it exit with 2.
LoopStep ==
  /\ pc = "stream"
  /\ Loop!Client
  /\ IF loop' = "exited"
     THEN pc' = "exited" /\ status' = (IF Loop!HandleErr THEN 2 ELSE 0)
     ELSE UNCHANGED <<pc, status>>
  /\ UNCHANGED <<whole, requests, accepted, unread, salt>>

Gone == pc = "exited" /\ UNCHANGED slaveVars

SlaveNext ==
  SessionStep \/ AnswerStep \/ HangUpStep \/ DumpStep \/ LoopStep \/ Gone

SlaveSpec == SlaveInit /\ [][SlaveNext]_slaveVars

\* main is one thread, which nothing but read() makes wait.
FairSlaveSpec == SlaveSpec /\ WF_slaveVars(SessionStep \/ LoopStep)
-----------------------------------------------------------------------------
(* Properties *)

\* The loop's variables hold values of their kind whatever the replies left
\* in its buffer, and the initial ones before main is in it.
SlaveTypeOK ==
  /\ \A i \in DOMAIN sent : sent[i].kind \in Loop!Kinds \cup {"reply"}
  /\ rbuflen \in -1 .. BufSize
  /\ cursor \in 0 .. BufSize
  /\ pc \notin {"stream", "exited"} => sent = <<>> /\ Loop!LoopInit

\* What parse_binlog_events is given is always an event of the dump:
\* docs/internal.md:9-10, a read returns a packet.
OnlyEventsHandedOver ==
  \A i \in DOMAIN delivered :
    delivered[i] # 0 /\ sent[delivered[i]].kind = "event"

\* It is, in the master's order, none skipped and none twice, if every reply
\* to the session came in one piece (client.c:16-28).
DumpHandedOverInOrder ==
  whole = Replies => OnlyEventsHandedOver /\ Loop!InOrderOnce

\* With the replies read whole and the connection up, the program gets every
\* event that is due to parse_binlog_events, from connect() on.
DumpHandedOver ==
  \A i \in 1 .. MaxPackets :
    (whole = Replies /\ Loop!EventsDue >= i) ~> (Len(delivered) >= i \/ Loop!Lost)
=============================================================================
