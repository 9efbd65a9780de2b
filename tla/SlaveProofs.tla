---------------------------- MODULE SlaveProofs ----------------------------
(***************************************************************************)
(* The two halves of main together, for every packet of the session, every *)
(* size of the buffer and of the events: what SessionProofs says of the    *)
(* moment the loop starts is what BinlogStreamProofs needs to say that the *)
(* loop hands over the dump, which no late answer can then disturb.        *)
(***************************************************************************)
EXTENDS Slave, SessionProofs

Proved == INSTANCE BinlogStreamProofs WITH pc <- loop

\* The loop that Slave runs is the one the proofs are about.
LEMMA SameLoop ==
  /\ Loop!Client => Proved!Client /\ Proved!Next
  /\ (Loop!SendEvent \/ Loop!SendErr) => Proved!Next
  /\ Loop!HandleEvent <=> Proved!HandleEvent
BY DEF Loop!Next, Proved!Next, Loop!Client, Proved!Client, Loop!Master,
    Proved!Master, Loop!Exited, Proved!Exited, Loop!SendEvent,
    Proved!SendEvent, Loop!SendErr, Proved!SendErr, Loop!Send, Proved!Send,
    Loop!Close, Proved!Close, Loop!Reset, Proved!Reset, Loop!ErrSent,
    Proved!ErrSent, Loop!StreamEnd, Proved!StreamEnd, Loop!ReadBytes,
    Proved!ReadBytes, Loop!ReadNothing, Proved!ReadNothing, Loop!ReadError,
    Proved!ReadError, Loop!HandleEvent, Proved!HandleEvent, Loop!HandleErr,
    Proved!HandleErr, Loop!KeepRest, Proved!KeepRest, Loop!Room,
    Proved!Room, Loop!Filled, Proved!Filled, Loop!masterVars,
    Proved!masterVars, Loop!vars, Proved!vars, Loop!AtEnd, Proved!AtEnd,
    Loop!HeadersReadable, Proved!HeadersReadable, Loop!HeadersLen,
    Proved!HeadersLen, Loop!PacketHeaderLen, Proved!PacketHeaderLen,
    Loop!EventHeaderLen, Proved!EventHeaderLen, Loop!DecodedHeaders,
    Proved!DecodedHeaders, Loop!HoldsPacket, Proved!HoldsPacket,
    Loop!HeaderFields, Proved!HeaderFields, Loop!AnyHeader,
    Proved!AnyHeader, Loop!Kinds, Proved!Kinds, Loop!Size, Proved!Size,
    Loop!EventComplete, Proved!EventComplete, Loop!AfterHeaders,
    Proved!AfterHeaders, Loop!CursorPast, Proved!CursorPast,
    Loop!PacketGiven, Proved!PacketGiven, Loop!Moved, Proved!Moved,
    Loop!Rest, Proved!Rest

LEMMA SameSigned == ASSUME NEW max PROVE Loop!Signed(max) = Proved!Signed(max)
BY DEF Loop!Signed, Proved!Signed

LEMMA SameWords == Loop!Int32 = Proved!Int32
BY SameSigned, SMT DEF Loop!Int32, Proved!Int32

LEMMA BoundsAssumed == Proved!StreamAssumption
BY SlaveAssumption, SameWords
DEF Loop!StreamAssumption, Proved!StreamAssumption, Loop!HeadersLen, Proved!HeadersLen,
    Loop!PacketHeaderLen, Proved!PacketHeaderLen, Loop!EventHeaderLen,
    Proved!EventHeaderLen

\* The connection is up, or was, once the greeting has been read.
ConnectionKnown ==
  /\ pc = "greeting" => conn \in {"open", "closed", "reset", "refused"}
  /\ pc \in {"sendLogin", "login", "sendRegister", "register", "sendDump"} =>
       conn \in {"open", "closed", "reset"}

\* The master is asked for the dump last.
DumpIsLast ==
  pc \notin {"stream", "exited"} =>
    "dump" \notin accepted /\ \A i \in DOMAIN requests : requests[i] # "dump"

\* The loop has not read, and nothing is in its way.
LoopFresh == sent = <<>> /\ Loop!LoopInit

LoopInOrder == Proved!FramingInv /\ OnlyEventsHandedOver

\* What outlives the session is true of its own part of the state only.
SessionInv == OrderInv /\ ConnectionKnown /\ DumpIsLast

SlaveInv ==
  /\ SessionInv
  /\ pc \notin {"stream", "exited"} => LoopFresh
  /\ whole = Replies =>
       \/ LoopFresh /\ (pc = "stream" => conn \in {"open", "closed", "reset"})
       \/ LoopInOrder

LEMMA SlaveInvInit == SlaveInit => SlaveInv
BY OrderInit DEF SlaveInit, SlaveInv, SessionInv, Init, ConnectionKnown, DumpIsLast, LoopFresh

\* The session's invariant outlives the session.
LEMMA OrderInSlave ==
  ASSUME SessionInv, [SlaveNext]_slaveVars PROVE OrderInv'
<1>1. CASE SessionStep \/ AnswerStep \/ HangUpStep \/ DumpStep \/ UNCHANGED slaveVars
  <2>1. [Next]_vars
    BY <1>1 DEF SessionStep, AnswerStep, HangUpStep, DumpStep, slaveVars, Next
  <2> QED
    BY <2>1, OrderNext DEF SessionInv
<1>2. CASE LoopStep
  <2>1. /\ UNCHANGED <<whole, requests, accepted, unread, salt>>
        /\ pc = "stream" /\ pc' \in {"stream", "exited"} /\ status' \in {status, 0, 2}
    BY <1>2 DEF LoopStep
  <2>2. conn' \in {conn, "dead"}
    BY <1>2 DEF LoopStep, Loop!Client, Loop!ReadBytes, Loop!ReadNothing, Loop!ReadError,
       Loop!HandleEvent, Loop!HandleErr, Loop!KeepRest, Loop!masterVars
  <2>3. TypeOK'
    BY <2>1, <2>2 DEF SessionInv, OrderInv, TypeOK
  <2>4. GreetingFirst'
    BY <2>1, <2>2 DEF SessionInv, OrderInv, GreetingFirst
  <2>5. CleanSoFar' => NothingInBetween'
    BY <2>1 DEF SessionInv, OrderInv, CleanSoFar, NothingInBetween
  <2>6. LoginNeedsOkAfterWholeGreeting' /\ RegisterNeedsOkAfterWholeLogin'
    BY <2>1, AcceptedIsKept DEF SessionInv
  <2> QED
    BY <2>3, <2>4, <2>5, <2>6 DEF OrderInv
<1> QED
  BY <1>1, <1>2 DEF SlaveNext, Gone

LEMMA ConnectionInSlave ==
  ASSUME SessionInv, [SlaveNext]_slaveVars PROVE ConnectionKnown'
<1>1. CASE SessionStep
  <2>1. CASE Connect
    BY <2>1 DEF Connect, ConnectionKnown
  <2>2. CASE ReadGreeting
    <3>1. conn' = conn /\ pc = "greeting" /\ pc' \in {"exited", "sendLogin"}
      BY <2>2 DEF ReadGreeting, Exit, GoOn, masterVars
    <3>2. pc' = "sendLogin" => conn # "refused"
      BY <2>2 DEF ReadGreeting, Exit, ReadLengths
    <3> QED
      BY <3>1, <3>2 DEF SessionInv, ConnectionKnown
  <2>3. CASE SendLogin \/ ReadLoginReply \/ SendRegister \/ ReadRegisterReply \/ SendDump
    <3>1. /\ conn' = conn
          /\ pc \in {"sendLogin", "login", "sendRegister", "register", "sendDump"}
          /\ pc' \in {"login", "sendRegister", "register", "sendDump", "stream", "exited"}
      BY <2>3 DEF SendLogin, ReadLoginReply, SendRegister, ReadRegisterReply, SendDump,
         Write, Exit, GoOn, masterVars
    <3> QED
      BY <3>1 DEF SessionInv, ConnectionKnown
  <2> QED
    BY <1>1, <2>1, <2>2, <2>3 DEF SessionStep, Client
<1>2. CASE AnswerStep \/ HangUpStep
  <2>1. pc' = pc /\ conn' \in {conn, "closed", "reset"}
    BY <1>2 DEF AnswerStep, HangUpStep, Answer, Greet, AnswerLogin, AnswerRegister,
       AnswerDump, Asked, HangUp, Close, Reset
  <2> QED
    BY <2>1 DEF SessionInv, ConnectionKnown
<1>3. CASE DumpStep \/ UNCHANGED slaveVars
  BY <1>3 DEF DumpStep, slaveVars, vars, masterVars, SessionInv, ConnectionKnown
<1>4. CASE LoopStep
  BY <1>4 DEF LoopStep, ConnectionKnown
<1> QED
  BY <1>1, <1>2, <1>3, <1>4 DEF SlaveNext, Gone

LEMMA DumpStaysLast ==
  ASSUME SessionInv, [SlaveNext]_slaveVars PROVE DumpIsLast'
<1> SUFFICES ASSUME pc' \notin {"stream", "exited"}
             PROVE  "dump" \notin accepted' /\ \A i \in DOMAIN requests' : requests'[i] # "dump"
  BY DEF DumpIsLast
<1>1. requests \in Seq(Exchanges) /\ accepted \subseteq Exchanges
  BY DEF SessionInv, OrderInv, TypeOK
<1>2. CASE SessionStep
  <2>1. /\ pc \notin {"stream", "exited"} /\ accepted' = accepted
        /\ \/ requests' = requests
           \/ \E r \in {"login", "register"} : requests' = Append(requests, r)
    BY <1>2 DEF SessionStep, Client, Connect, ReadGreeting, SendLogin, ReadLoginReply,
       SendRegister, ReadRegisterReply, SendDump, Write, Written, Exit, GoOn, masterVars
  <2>2. ASSUME NEW r \in {"login", "register"}, requests' = Append(requests, r),
               NEW i \in DOMAIN requests'
        PROVE  requests'[i] # "dump"
    BY <1>1, <2>1, <2>2 DEF SessionInv, DumpIsLast
  <2> QED
    BY <2>1, <2>2 DEF SessionInv, DumpIsLast
<1>3. CASE AnswerStep
  <2>1. pc' = pc
    BY <1>3 DEF AnswerStep, Answer, Greet, AnswerLogin, AnswerRegister, AnswerDump, Asked
  <2>2. "dump" \notin accepted /\ \A i \in DOMAIN requests : requests[i] # "dump"
    BY <2>1 DEF SessionInv, DumpIsLast
  <2>3. requests # <<>> => Head(requests) # "dump"
    BY <1>1, <2>2
  <2>4. /\ accepted' \subseteq accepted \cup {"greeting", "login", "register"}
        /\ requests' = requests \/ (requests # <<>> /\ requests' = Tail(requests))
    BY <1>3, <2>3 DEF AnswerStep, Answer, Greet, AnswerLogin, AnswerRegister, AnswerDump, Asked
  <2> QED
    BY <1>1, <2>2, <2>4
<1>4. CASE HangUpStep \/ DumpStep \/ UNCHANGED slaveVars
  BY <1>4 DEF HangUpStep, HangUp, Close, Reset, DumpStep, slaveVars, vars, masterVars,
     SessionInv, DumpIsLast
<1>5. CASE LoopStep
  BY <1>5 DEF LoopStep
<1> QED
  BY <1>2, <1>3, <1>4, <1>5 DEF SlaveNext, Gone

LEMMA SessionStays == SessionInv /\ [SlaveNext]_slaveVars => SessionInv'
BY OrderInSlave, ConnectionInSlave, DumpStaysLast DEF SessionInv

\* A reply that came whole leaves the loop nothing to read.
LEMMA NoReplyInTheWay ==
  ASSUME SessionInv, SessionInv', whole = Replies, whole' = whole,
         SessionStep \/ AnswerStep
  PROVE  sent' = sent
<1>1. CASE SessionStep /\ pc' = "stream"
  <2>1. unread' = <<>>
    BY <1>1 DEF SessionInv, OrderInv, CleanSoFar, NothingInBetween
  <2> QED
    BY <1>1, <2>1 DEF SessionStep, Left
<1>2. CASE SessionStep /\ pc' # "stream"
  BY <1>2 DEF SessionStep
<1>3. CASE AnswerStep /\ pc = "stream"
  <2>1. pc' = pc
    BY <1>3 DEF AnswerStep, Answer, Greet, AnswerLogin, AnswerRegister, AnswerDump, Asked
  <2>2. unread = <<>> /\ unread' = <<>>
    BY <1>3, <2>1 DEF SessionInv, OrderInv, CleanSoFar, NothingInBetween
  <2> QED
    BY <1>3, <2>2 DEF AnswerStep
<1>4. CASE AnswerStep /\ pc # "stream"
  BY <1>4 DEF AnswerStep
<1> QED
  BY <1>1, <1>2, <1>3, <1>4

\* Where the loop's variables and the connection stay as they are, but for a
\* hang-up, so does what the loop has handed over.
LEMMA LoopUndisturbed ==
  ASSUME LoopInOrder, UNCHANGED loopVars,
         \/ conn' = conn
         \/ conn \in {"open", "closed"} /\ conn' \in {"closed", "reset"}
  PROVE  LoopInOrder'
<1>1. UNCHANGED <<sent, received, buf, rbuflen, cursor, delivered, loop>>
  BY DEF loopVars
<1>2. Proved!FramingInv'
  <2>1. CASE conn' = conn
    BY <1>1, <2>1 DEF LoopInOrder, Proved!FramingInv, Proved!TypeInv, Proved!TypeOK,
       Proved!CursorInBuffer, Proved!Size, Proved!PacketsTile,
       Proved!StreamEnd, Proved!InOrderOnce, Proved!RestWaitsIntact,
       Proved!NoByteDropped, Proved!NextByte, Proved!Base
  <2>2. CASE conn \in {"open", "closed"} /\ conn' \in {"closed", "reset"}
    BY <1>1, <2>2, BoundsAssumed, Proved!FramingHungUp
    DEF LoopInOrder, Proved!HungUp
  <2> QED
    BY <2>1, <2>2
<1> QED
  BY <1>1, <1>2 DEF LoopInOrder, OnlyEventsHandedOver

\* A step of the loop, or of the master that sends it the dump.
LEMMA LoopGoesOn ==
  ASSUME Proved!ForwardCopy, LoopInOrder, Proved!Next, Loop!Client \/ DumpStep
  PROVE  LoopInOrder'
<1>1. Proved!FramingInv'
  BY BoundsAssumed, Proved!FramingStep DEF LoopInOrder
<1>2. sent \in Seq(Proved!Packets) /\ delivered \in Seq(Nat)
      /\ Len(delivered) <= Len(sent) /\ \A i \in DOMAIN delivered : delivered[i] = i
  BY DEF LoopInOrder, Proved!FramingInv, Proved!TypeInv, Proved!TypeOK, Proved!InOrderOnce
<1>3. CASE Proved!HandleEvent
  <2>1. /\ delivered' = Append(delivered, Len(delivered) + 1)
        /\ Len(delivered) + 1 \in DOMAIN sent
        /\ sent[Len(delivered) + 1].kind = "event"
    BY <1>3, BoundsAssumed, Proved!HandsOverTheNext DEF LoopInOrder
  <2>2. sent' = sent
    BY <1>3 DEF Proved!HandleEvent, Proved!masterVars
  <2>3. ASSUME NEW i \in DOMAIN delivered'
        PROVE  delivered'[i] # 0 /\ sent'[delivered'[i]].kind = "event"
    <3>1. CASE i = Len(delivered) + 1
      BY <1>2, <2>1, <2>2, <3>1
    <3>2. CASE i # Len(delivered) + 1
      <4>1. i \in DOMAIN delivered /\ delivered'[i] = delivered[i]
        BY <1>2, <2>1, <3>2
      <4> QED
        BY <2>2, <4>1 DEF LoopInOrder, OnlyEventsHandedOver
    <3> QED
      BY <3>1, <3>2
  <2> QED
    BY <1>1, <2>3 DEF LoopInOrder, OnlyEventsHandedOver
<1>4. CASE ~Proved!HandleEvent
  <2>1. /\ delivered' = delivered
        /\ sent' = sent \/ \E p : sent' = Append(sent, p)
    <3>1. CASE Loop!Client
      BY <1>4, <3>1, SameLoop
      DEF Loop!Client, Loop!ReadBytes, Loop!ReadNothing, Loop!ReadError,
          Loop!HandleErr, Loop!KeepRest, Loop!masterVars
    <3>2. CASE DumpStep
      BY <3>2 DEF DumpStep, Loop!SendEvent, Loop!SendErr, Loop!Send
    <3> QED
      BY <3>1, <3>2
  <2>2. \A i \in DOMAIN delivered : sent'[delivered[i]] = sent[delivered[i]]
    <3> SUFFICES ASSUME NEW i \in DOMAIN delivered, NEW p, sent' = Append(sent, p)
                 PROVE  sent'[delivered[i]] = sent[delivered[i]]
      BY <2>1
    <3>1. delivered[i] \in 1 .. Len(sent) /\ Len(sent) \in Nat
      BY <1>2
    <3> QED
      BY <1>2, <3>1
  <2> QED
    BY <1>1, <2>1, <2>2 DEF LoopInOrder, OnlyEventsHandedOver
<1> QED
  BY <1>3, <1>4

\* Before the loop's first read nothing has been handed over.
LEMMA FreshLoopInOrder ==
  ASSUME LoopFresh, conn \in {"open", "closed", "reset"} PROVE LoopInOrder
<1>1. Proved!FramingInv
  BY BoundsAssumed, Proved!FramingAtEntry DEF LoopFresh, Loop!LoopInit, Proved!LoopInit
<1> QED
  BY <1>1 DEF LoopInOrder, OnlyEventsHandedOver, LoopFresh, Loop!LoopInit

LEMMA SlaveStep ==
  ASSUME Proved!ForwardCopy, SlaveInv, [SlaveNext]_slaveVars
  PROVE  SlaveInv'
<1>1. OrderInv' /\ ConnectionKnown' /\ DumpIsLast'
  BY SessionStays DEF SlaveInv, SessionInv
<1>2. SUFFICES /\ pc' \notin {"stream", "exited"} => LoopFresh'
               /\ whole' = Replies =>
                    \/ /\ LoopFresh'
                       /\ pc' = "stream" => conn' \in {"open", "closed", "reset"}
                    \/ LoopInOrder'
  BY <1>1 DEF SlaveInv, SessionInv
<1>3. whole' = whole
  BY DEF SlaveNext, SessionStep, AnswerStep, HangUpStep, DumpStep, LoopStep, Gone,
     Client, Answer, HangUp, slaveVars, vars
<1>4. CASE SessionStep
  <2>1. pc \notin {"stream", "exited"}
    BY <1>4 DEF SessionStep, Client, Connect, ReadGreeting, SendLogin, ReadLoginReply,
       SendRegister, ReadRegisterReply, SendDump
  <2>2. LoopFresh /\ Loop!LoopInit'
    BY <1>4, <2>1 DEF SlaveInv, SessionStep, LoopFresh, Loop!LoopInit
  <2>3. pc' # "stream" => LoopFresh'
    BY <1>4, <2>2 DEF SessionStep, LoopFresh
  <2>4. ASSUME pc' = "stream", whole' = Replies
        PROVE  LoopFresh' /\ conn' \in {"open", "closed", "reset"}
    <3>1. sent' = sent
      BY <1>3, <1>4, <2>4, SessionStays, NoReplyInTheWay DEF SlaveInv
    <3>2. conn' = conn /\ pc = "sendDump"
      BY <1>4, <2>4 DEF SessionStep, Client, Connect, ReadGreeting, SendLogin,
         ReadLoginReply, SendRegister, ReadRegisterReply, SendDump, Write, Exit, GoOn
    <3> QED
      BY <2>2, <3>1, <3>2 DEF LoopFresh, SlaveInv, SessionInv, ConnectionKnown
  <2> QED
    BY <2>3, <2>4
<1>5. CASE AnswerStep \/ HangUpStep
  <2>1. /\ pc' = pc
        /\ \/ conn' = conn
           \/ conn \in {"open", "closed"} /\ conn' \in {"closed", "reset"}
    BY <1>5 DEF AnswerStep, HangUpStep, Answer, Greet, AnswerLogin, AnswerRegister,
       AnswerDump, Asked, HangUp, Close, Reset
  <2>2. UNCHANGED <<received, buf, rbuflen, cursor, delivered, loop>>
    BY <1>5 DEF AnswerStep, HangUpStep, loopVars
  <2>3. pc # "stream" \/ whole = Replies => sent' = sent
    <3>1. CASE HangUpStep
      BY <3>1 DEF HangUpStep, loopVars
    <3>2. CASE AnswerStep /\ pc # "stream"
      BY <3>2 DEF AnswerStep
    <3>3. CASE AnswerStep /\ whole = Replies
      BY <1>3, <3>3, SessionStays, NoReplyInTheWay DEF SlaveInv
    <3> QED
      BY <1>5, <3>1, <3>2, <3>3
  <2>4. LoopFresh /\ sent' = sent => LoopFresh'
    BY <2>2 DEF LoopFresh, Loop!LoopInit
  <2>5. LoopInOrder /\ sent' = sent => LoopInOrder'
    BY <2>1, <2>2, LoopUndisturbed DEF loopVars
  <2> QED
    BY <1>3, <2>1, <2>3, <2>4, <2>5 DEF SlaveInv
<1>6. CASE DumpStep
  <2>1. pc' = pc /\ conn = "open" /\ conn' = conn
    BY <1>6 DEF DumpStep, vars, masterVars, Loop!SendEvent, Loop!SendErr, Loop!Send
  <2>2. pc \in {"stream", "exited"}
    BY <1>6 DEF DumpStep, SlaveInv, SessionInv, DumpIsLast
  <2>3. Proved!Next
    BY <1>6, SameLoop DEF DumpStep
  <2>4. ASSUME whole = Replies
        PROVE  LoopInOrder
    BY <2>1, <2>4, FreshLoopInOrder DEF SlaveInv
  <2>5. whole = Replies => LoopInOrder'
    BY <1>6, <2>3, <2>4, LoopGoesOn
  <2> QED
    BY <1>3, <2>1, <2>2, <2>5
<1>7. CASE LoopStep
  <2>1. pc = "stream" /\ pc' \in {"stream", "exited"} /\ Proved!Next
    BY <1>7, SameLoop DEF LoopStep
  <2>2. ASSUME whole = Replies
        PROVE  LoopInOrder
    BY <2>1, <2>2, FreshLoopInOrder DEF SlaveInv
  <2>3. whole = Replies => LoopInOrder'
    BY <1>7, <2>1, <2>2, LoopGoesOn DEF LoopStep
  <2> QED
    BY <1>3, <2>1, <2>3
<1>8. CASE UNCHANGED slaveVars
  <2>1. UNCHANGED <<pc, whole, conn, loopVars>>
    BY <1>8 DEF slaveVars, vars, masterVars
  <2>2. LoopFresh => LoopFresh'
    BY <2>1 DEF loopVars, LoopFresh, Loop!LoopInit
  <2>3. LoopInOrder => LoopInOrder'
    BY <2>1, LoopUndisturbed
  <2> QED
    BY <2>1, <2>2, <2>3 DEF SlaveInv
<1> QED
  BY <1>4, <1>5, <1>6, <1>7, <1>8 DEF SlaveNext, Gone

\* If every reply came in one piece and memcpy copies forward, the program
\* hands over the events of the dump and nothing else, each once and in the
\* master's order, from connect() to its end (client.c:15-30).
THEOREM DumpInOrder ==
  ASSUME Proved!ForwardCopy PROVE SlaveSpec => []DumpHandedOverInOrder
<1>1. SlaveInv /\ [SlaveNext]_slaveVars => SlaveInv'
  BY SlaveStep
<1>2. SlaveInv => DumpHandedOverInOrder
  <2>1. LoopFresh => OnlyEventsHandedOver /\ Loop!InOrderOnce
    BY DEF LoopFresh, Loop!LoopInit, OnlyEventsHandedOver, Loop!InOrderOnce
  <2>2. LoopInOrder => OnlyEventsHandedOver /\ Loop!InOrderOnce
    BY DEF LoopInOrder, Proved!FramingInv, Proved!InOrderOnce, Loop!InOrderOnce
  <2> QED
    BY <2>1, <2>2 DEF SlaveInv, DumpHandedOverInOrder
<1> QED
  BY SlaveInvInit, <1>1, <1>2, PTL DEF SlaveSpec
-----------------------------------------------------------------------------
(***************************************************************************)
(* What the session promises, while the loop runs and after it.            *)
(***************************************************************************)

LEMMA SessionStarts == SlaveInit => SessionInv
BY OrderInit DEF SlaveInit, SessionInv, Init, ConnectionKnown, DumpIsLast

\* The whole program keeps to the order of the session: it registers after
\* the login was accepted, asks for the binlog after it was registered, and
\* its loop starts at the dump, where the replies come whole; and the
\* session's variables stay of their kind (client.c:15-30).
THEOREM ProgramKeepsTheOrder ==
  SlaveSpec => [](/\ TypeOK
                  /\ LoginNeedsOkAfterWholeGreeting
                  /\ RegisterNeedsOkAfterWholeLogin
                  /\ StreamStartsAtTheDumpIfWhole)
<1>1. OrderInv => StreamStartsAtTheDumpIfWhole
  BY DEF OrderInv, StreamStartsAtTheDumpIfWhole, StreamStartsAtTheDump, CleanSoFar,
     NothingInBetween, GreetingFirst, LoginNeedsOkAfterWholeGreeting, LoggedIn,
     LoginNeedsOk, RegisterNeedsOkAfterWholeLogin, Registered, RegisterNeedsOk,
     Replies, Exchanges
<1>2. SessionInv => /\ TypeOK
                    /\ LoginNeedsOkAfterWholeGreeting
                    /\ RegisterNeedsOkAfterWholeLogin
                    /\ StreamStartsAtTheDumpIfWhole
  BY <1>1 DEF SessionInv, OrderInv
<1> QED
  BY SessionStarts, SessionStays, <1>2, PTL DEF SlaveSpec
-----------------------------------------------------------------------------
(***************************************************************************)
(* The loop whatever it reads: bytes of a late reply may be what it takes  *)
(* for headers.  That the cursor and rbuflen stay within the buffer rests  *)
(* on the check for a complete event alone.                                *)
(***************************************************************************)

Anything == [kind : Loop!Kinds \cup {"reply"}, start : Nat, end : Nat]

LoopTypes ==
  /\ sent \in Seq(Anything)
  /\ received \in Nat
  /\ rbuflen \in -1 .. BufSize
  /\ cursor \in 0 .. BufSize
  /\ loop \in {"read", "parse", "exited"}

InBuffer ==
  /\ loop # "exited" => rbuflen >= 0
  /\ loop = "parse" => cursor <= rbuflen

\* The buffer is empty as long as nothing was sent.
NothingFromNothing == sent = <<>> => rbuflen <= 0

LoopTypeInv ==
  /\ LoopTypes
  /\ InBuffer
  /\ NothingFromNothing
  /\ pc \notin {"stream", "exited"} => LoopFresh

LoopLens == Loop!PacketHeaderLen = 4 /\ Loop!EventHeaderLen = 19 /\ Loop!HeadersLen = 24

LEMMA LoopLengths == LoopLens
BY DEF LoopLens, Loop!PacketHeaderLen, Loop!EventHeaderLen, Loop!HeadersLen

LEMMA LoopBounds ==
  /\ BufSize \in Nat \ {0}
  /\ \A s \in EventSizes : s \in Nat
  /\ \A s \in ErrSizes : s \in Nat
BY SlaveAssumption, LoopLengths DEF Loop!StreamAssumption, LoopLens

\* The stream ends where the last thing sent does, at a natural offset.
LEMMA EndOfAnything ==
  ASSUME sent \in Seq(Anything)
  PROVE  /\ Loop!StreamEnd \in Nat
         /\ sent = <<>> => Loop!StreamEnd = 0
         /\ \A i \in DOMAIN sent : sent[i] \in Anything
<1>1. /\ Len(sent) \in Nat /\ DOMAIN sent = 1 .. Len(sent)
      /\ \A i \in 1 .. Len(sent) : sent[i] \in Anything
      /\ sent = <<>> <=> Len(sent) = 0
  OBVIOUS
<1>2. CASE sent = <<>>
  BY <1>1, <1>2 DEF Loop!StreamEnd
<1>3. CASE sent # <<>>
  BY <1>1, <1>3 DEF Loop!StreamEnd, Anything
<1> QED
  BY <1>1, <1>2, <1>3

\* Something more is sent.
LEMMA SentMore ==
  ASSUME LoopTypeInv, NEW kind \in Loop!Kinds \cup {"reply"}, NEW size \in Nat,
         sent' = Append(sent, [kind |-> kind, start |-> Loop!StreamEnd,
                               end |-> Loop!StreamEnd + size]),
         UNCHANGED <<received, rbuflen, cursor, loop>>
  PROVE  LoopTypes' /\ InBuffer' /\ NothingFromNothing'
<1> DEFINE p == [kind |-> kind, start |-> Loop!StreamEnd, end |-> Loop!StreamEnd + size]
<1>1. sent \in Seq(Anything) /\ Loop!StreamEnd \in Nat
  BY EndOfAnything DEF LoopTypeInv, LoopTypes
<1>2. p \in Anything
  BY <1>1 DEF Anything
<1>3. sent' = Append(sent, p)
  OBVIOUS
<1>4. LoopTypes'
  BY <1>1, <1>2, <1>3 DEF LoopTypeInv, LoopTypes
<1>5. sent' # <<>>
  BY <1>1, <1>3
<1> QED
  BY <1>4, <1>5 DEF LoopTypeInv, InBuffer, NothingFromNothing

\* Nothing of this changes.
LEMMA LoopStays ==
  ASSUME LoopTypeInv, UNCHANGED <<sent, received, rbuflen, cursor, loop>>
  PROVE  LoopTypes' /\ InBuffer' /\ NothingFromNothing'
BY DEF LoopTypeInv, LoopTypes, InBuffer, NothingFromNothing

\* A step of the loop keeps its variables in their bounds.
LEMMA LoopStaysInBuffer ==
  ASSUME LoopTypeInv, Loop!Client
  PROVE  LoopTypes' /\ InBuffer' /\ NothingFromNothing'
<1> USE LoopBounds
<1>1. sent' = sent
  BY DEF Loop!Client, Loop!ReadBytes, Loop!ReadNothing, Loop!ReadError, Loop!HandleEvent,
     Loop!HandleErr, Loop!KeepRest, Loop!masterVars
<1>2. CASE \E n \in 1 .. BufSize : Loop!ReadBytes(n)
  <2>1. PICK n \in 1 .. BufSize : Loop!ReadBytes(n)
    BY <1>2
  <2>2. /\ rbuflen' = rbuflen + n /\ received' = received + n /\ n <= BufSize - rbuflen
        /\ received + n <= Loop!StreamEnd
        /\ cursor' = 0 /\ loop = "read" /\ loop' = "parse"
    BY <2>1 DEF Loop!ReadBytes, Loop!Room
  <2>3. rbuflen >= 0
    BY <2>2 DEF LoopTypeInv, InBuffer
  <2>4. rbuflen + n \in 0 .. BufSize
    BY <2>2, <2>3 DEF LoopTypeInv, LoopTypes
  <2>5. sent # <<>>
    BY <2>2, EndOfAnything DEF LoopTypeInv, LoopTypes
  <2> QED
    BY <1>1, <2>2, <2>4, <2>5 DEF LoopTypeInv, LoopTypes, InBuffer, NothingFromNothing
<1>3. CASE Loop!ReadNothing
  BY <1>1, <1>3 DEF Loop!ReadNothing, LoopTypeInv, LoopTypes, InBuffer, NothingFromNothing
<1>4. CASE Loop!ReadError
  BY <1>1, <1>4 DEF Loop!ReadError, LoopTypeInv, LoopTypes, InBuffer, NothingFromNothing
<1>5. CASE Loop!HandleEvent
  <2>1. PICK h \in Loop!DecodedHeaders :
          h.kind = "event" /\ Loop!EventComplete(h) /\ cursor' = Loop!CursorPast(h)
    BY <1>5 DEF Loop!HandleEvent
  <2>2. cursor' \in 0 .. rbuflen
    BY <2>1 DEF Loop!CursorPast, Loop!EventComplete
  <2>3. rbuflen \in Int /\ rbuflen <= BufSize
    BY DEF LoopTypeInv, LoopTypes
  <2>4. cursor' \in 0 .. BufSize /\ cursor' <= rbuflen
    BY <2>2, <2>3
  <2>5. UNCHANGED <<received, rbuflen, loop>>
    BY <1>5 DEF Loop!HandleEvent
  <2> QED
    BY <1>1, <2>4, <2>5 DEF LoopTypeInv, LoopTypes, InBuffer, NothingFromNothing
<1>6. CASE Loop!HandleErr
  BY <1>1, <1>6 DEF Loop!HandleErr, LoopTypeInv, LoopTypes, InBuffer, NothingFromNothing
<1>7. CASE Loop!KeepRest
  <2>1. /\ rbuflen' = rbuflen - cursor /\ loop = "parse" /\ loop' = "read"
        /\ UNCHANGED <<received, cursor>>
    BY <1>7 DEF Loop!KeepRest, Loop!Rest
  <2> QED
    BY <1>1, <2>1 DEF LoopTypeInv, LoopTypes, InBuffer, NothingFromNothing
<1> QED
  BY <1>2, <1>3, <1>4, <1>5, <1>6, <1>7 DEF Loop!Client

LEMMA LoopTypeInit == SlaveInit => LoopTypeInv
BY LoopBounds
DEF SlaveInit, Loop!LoopInit, LoopTypeInv, LoopTypes, InBuffer,
    NothingFromNothing, LoopFresh

\* Len of what a reply leaves is a number.
LEMMA LeftIsSent ==
  ASSUME LoopTypeInv, NEW S, NEW replies \in Seq(S), Left(replies),
         UNCHANGED <<received, rbuflen, cursor, loop>>
  PROVE  LoopTypes' /\ InBuffer' /\ NothingFromNothing'
<1>1. CASE replies = <<>>
  BY <1>1, LoopStays DEF Left
<1>2. CASE replies # <<>>
  <2>1. /\ sent' = Append(sent, [kind |-> "reply", start |-> Loop!StreamEnd,
                                 end |-> Loop!StreamEnd + Len(replies)])
        /\ Len(replies) \in Nat
    BY <1>2 DEF Left
  <2> QED
    BY <2>1, SentMore
<1> QED
  BY <1>1, <1>2

LEMMA LoopTypeNext ==
  ASSUME SessionInv, LoopTypeInv, [SlaveNext]_slaveVars
  PROVE  LoopTypeInv'
<1>1. SessionInv' /\ TypeOK /\ TypeOK'
  BY SessionStays DEF SessionInv, OrderInv
<1>2. unread \in Seq(Byte) /\ unread' \in Seq(Byte)
  BY <1>1 DEF TypeOK, Byte
<1>3. CASE SessionStep
  <2>1. pc \notin {"stream", "exited"} /\ LoopFresh
    BY <1>3 DEF SessionStep, Client, Connect, ReadGreeting, SendLogin, ReadLoginReply,
       SendRegister, ReadRegisterReply, SendDump, LoopTypeInv
  <2>2. UNCHANGED <<received, buf, rbuflen, cursor, delivered, loop>>
    BY <1>3 DEF SessionStep
  <2>3. LoopTypes' /\ InBuffer' /\ NothingFromNothing'
    BY <1>2, <1>3, <2>2, LeftIsSent, LoopStays DEF SessionStep
  <2>4. pc' \notin {"stream", "exited"} => LoopFresh'
    BY <1>3, <2>1, <2>2 DEF SessionStep, LoopFresh, Loop!LoopInit
  <2> QED
    BY <2>3, <2>4 DEF LoopTypeInv
<1>4. CASE AnswerStep
  <2>1. UNCHANGED <<received, buf, rbuflen, cursor, delivered, loop>>
    BY <1>4 DEF AnswerStep
  <2>2. pc' = pc
    BY <1>4 DEF AnswerStep, Answer, Greet, AnswerLogin, AnswerRegister, AnswerDump, Asked
  <2>3. SubSeq(unread', Len(unread) + 1, Len(unread')) \in Seq(Byte)
    BY <1>2
  <2>4. LoopTypes' /\ InBuffer' /\ NothingFromNothing'
    BY <1>4, <2>1, <2>3, LeftIsSent, LoopStays DEF AnswerStep
  <2>5. pc' \notin {"stream", "exited"} => LoopFresh'
    BY <1>4, <2>1, <2>2 DEF AnswerStep, LoopTypeInv, LoopFresh, Loop!LoopInit
  <2> QED
    BY <2>4, <2>5 DEF LoopTypeInv
<1>5. CASE HangUpStep \/ UNCHANGED slaveVars
  <2>1. UNCHANGED <<pc, loopVars>>
    BY <1>5 DEF HangUpStep, HangUp, Close, Reset, slaveVars, vars
  <2> QED
    BY <2>1, LoopStays DEF loopVars, LoopTypeInv, LoopFresh, Loop!LoopInit
<1>6. CASE DumpStep
  <2>1. pc \in {"stream", "exited"} /\ pc' = pc
    BY <1>6 DEF DumpStep, SessionInv, DumpIsLast, vars
  <2>2. PICK kind \in {"event", "err"}, size \in Nat : Loop!Send(kind, size)
    BY <1>6, LoopBounds DEF DumpStep, Loop!SendEvent, Loop!SendErr
  <2>3. LoopTypes' /\ InBuffer' /\ NothingFromNothing'
    BY <2>2, SentMore DEF Loop!Send, Loop!Kinds
  <2> QED
    BY <2>1, <2>3 DEF LoopTypeInv
<1>7. CASE LoopStep
  <2>1. pc = "stream" /\ pc' \in {"stream", "exited"} /\ Loop!Client
    BY <1>7 DEF LoopStep
  <2> QED
    BY <2>1, LoopStaysInBuffer DEF LoopTypeInv
<1> QED
  BY <1>3, <1>4, <1>5, <1>6, <1>7 DEF SlaveNext, Gone

\* However the replies and the dump arrive, and whatever bytes the loop takes
\* for headers, rbuflen and the cursor stay within the loop's buffer, and the
\* loop has touched nothing before main gets to it (binlog.c:329-392).
THEOREM LoopTypeCorrect == SlaveSpec => []SlaveTypeOK
<1>1. LoopTypeInv => SlaveTypeOK
  BY EndOfAnything DEF LoopTypeInv, LoopTypes, SlaveTypeOK, LoopFresh, Anything
<1>2. SessionInv /\ LoopTypeInv /\ [SlaveNext]_slaveVars => LoopTypeInv'
  BY LoopTypeNext
<1> QED
  BY SessionStarts, SessionStays, LoopTypeInit, <1>1, <1>2, PTL DEF SlaveSpec
-----------------------------------------------------------------------------
(***************************************************************************)
(* The exit status of the whole program.  The loop adds one way to exit    *)
(* with 2, an error packet, which with whole replies only the dump has.    *)
(***************************************************************************)

StageInSlave ==
  whole = Replies =>
    \/ StageInv
    \/ pc = "exited" /\ status = 2 /\ "dump" \in accepted

\* With whole replies, all that is before the loop is the dump.
SentIsTheDump == whole = Replies /\ sent # <<>> => "dump" \in accepted

StatusInSlaveInv == SessionInv /\ LoopTypeInv /\ SentIsTheDump /\ StageInSlave

LEMMA StatusInSlaveInit == SlaveInit => StatusInSlaveInv
BY SessionStarts, LoopTypeInit
DEF SlaveInit, Init, StatusInSlaveInv, SentIsTheDump, StageInSlave, StageInv, NothingAsked

\* What the session and the master do leaves the stage told.
LEMMA StageOutsideTheLoop ==
  ASSUME SessionInv, StageInSlave,
         SessionStep \/ AnswerStep \/ HangUpStep \/ DumpStep \/ UNCHANGED slaveVars
  PROVE  StageInSlave'
<1>1. [Next]_vars
  BY DEF SessionStep, AnswerStep, HangUpStep, DumpStep, slaveVars, Next
<1>2. whole' = whole
  BY DEF SessionStep, AnswerStep, HangUpStep, DumpStep, Client, Answer, HangUp, slaveVars, vars
<1> SUFFICES ASSUME whole = Replies
             PROVE  StageInv' \/ (pc' = "exited" /\ status' = 2 /\ "dump" \in accepted')
  BY <1>2 DEF StageInSlave
<1>3. CASE StageInv
  BY <1>1, <1>2, <1>3, StatusNext DEF StatusInv, SessionInv
<1>4. CASE pc = "exited" /\ status = 2 /\ "dump" \in accepted
  <2>1. pc' = pc /\ status' = status
    BY <1>4 DEF SessionStep, Client, Connect, ReadGreeting, SendLogin, ReadLoginReply,
       SendRegister, ReadRegisterReply, SendDump, AnswerStep, Answer, Greet, AnswerLogin,
       AnswerRegister, AnswerDump, Asked, HangUpStep, HangUp, Close, Reset, DumpStep,
       slaveVars, vars
  <2>2. accepted \subseteq accepted'
    BY <1>4 DEF SessionStep, Client, Connect, ReadGreeting, SendLogin, ReadLoginReply,
       SendRegister, ReadRegisterReply, SendDump, AnswerStep, Answer, Greet, AnswerLogin,
       AnswerRegister, AnswerDump, Asked, HangUpStep, HangUp, Close, Reset, DumpStep,
       slaveVars, vars, masterVars
  <2> QED
    BY <1>4, <2>1, <2>2
<1> QED
  BY <1>3, <1>4 DEF StageInSlave

\* The loop exits with 2 only over something that was sent to it.
LEMMA StageInTheLoop ==
  ASSUME StatusInSlaveInv, LoopStep PROVE StageInSlave'
<1>1. /\ UNCHANGED <<whole, requests, accepted, unread>>
      /\ pc = "stream"
      /\ \/ pc' = "exited" /\ status' = (IF Loop!HandleErr THEN 2 ELSE 0)
         \/ UNCHANGED <<pc, status>>
  BY DEF LoopStep
<1>2. conn' \in {conn, "dead"}
  BY DEF LoopStep, Loop!Client, Loop!ReadBytes, Loop!ReadNothing, Loop!ReadError,
     Loop!HandleEvent, Loop!HandleErr, Loop!KeepRest, Loop!masterVars
<1> SUFFICES ASSUME whole = Replies
             PROVE  StageInv' \/ (pc' = "exited" /\ status' = 2 /\ "dump" \in accepted')
  BY <1>1 DEF StageInSlave
<1>3. StageInv /\ status = 0
  BY <1>1 DEF StatusInSlaveInv, StageInSlave, StageInv
<1>4. CASE Loop!HandleErr
  <2>1. cursor + 24 < rbuflen
    BY <1>4, LoopLengths DEF Loop!HandleErr, Loop!HeadersReadable, LoopLens
  <2>2. sent # <<>>
    BY <2>1 DEF StatusInSlaveInv, LoopTypeInv, LoopTypes, NothingFromNothing
  <2>3. "dump" \in accepted'
    BY <1>1, <2>2 DEF StatusInSlaveInv, SentIsTheDump
  <2>4. CASE UNCHANGED <<pc, status>>
    BY <1>1, <1>2, <1>3, <2>4 DEF StageInv
  <2>5. CASE pc' = "exited" /\ status' = (IF Loop!HandleErr THEN 2 ELSE 0)
    BY <1>4, <2>3, <2>5
  <2> QED
    BY <1>1, <2>4, <2>5
<1>5. CASE ~Loop!HandleErr
  <2>1. status' = 0 /\ pc' \in {"stream", "exited"}
    BY <1>1, <1>3, <1>5
  <2> QED
    BY <1>1, <1>2, <1>3, <2>1 DEF StageInv
<1> QED
  BY <1>4, <1>5

LEMMA StatusInSlaveNext == StatusInSlaveInv /\ [SlaveNext]_slaveVars => StatusInSlaveInv'
<1> SUFFICES ASSUME StatusInSlaveInv, [SlaveNext]_slaveVars PROVE StatusInSlaveInv'
  OBVIOUS
<1>1. SessionInv /\ LoopTypeInv /\ SentIsTheDump /\ StageInSlave
  BY DEF StatusInSlaveInv
<1>2. SessionInv' /\ LoopTypeInv' /\ whole' = whole
  <2>1. whole' = whole
    BY DEF SlaveNext, SessionStep, AnswerStep, HangUpStep, DumpStep, LoopStep, Gone,
       Client, Answer, HangUp, slaveVars, vars
  <2> QED
    BY <1>1, <2>1, SessionStays, LoopTypeNext
<1>3. SentIsTheDump'
  <2> SUFFICES ASSUME whole = Replies, sent' # <<>> PROVE "dump" \in accepted'
    BY <1>2 DEF SentIsTheDump
  <2>1. CASE SessionStep \/ AnswerStep
    <3>1. sent' = sent
      BY <1>1, <1>2, <2>1, NoReplyInTheWay
    <3>2. accepted \subseteq accepted'
      BY <2>1 DEF SessionStep, Client, Connect, ReadGreeting, SendLogin, ReadLoginReply,
         SendRegister, ReadRegisterReply, SendDump, Write, Exit, GoOn, masterVars,
         AnswerStep, Answer, Greet, AnswerLogin, AnswerRegister, AnswerDump, Asked
    <3> QED
      BY <1>1, <3>1, <3>2 DEF SentIsTheDump
  <2>2. CASE HangUpStep \/ UNCHANGED slaveVars
    BY <1>1, <2>2 DEF HangUpStep, HangUp, Close, Reset, slaveVars, vars, masterVars,
       loopVars, SentIsTheDump
  <2>3. CASE DumpStep
    BY <2>3 DEF DumpStep, vars, masterVars
  <2>4. CASE LoopStep
    <3>1. sent' = sent
      BY <2>4 DEF LoopStep, Loop!Client, Loop!ReadBytes, Loop!ReadNothing, Loop!ReadError,
         Loop!HandleEvent, Loop!HandleErr, Loop!KeepRest, Loop!masterVars
    <3> QED
      BY <1>1, <2>4, <3>1 DEF LoopStep, SentIsTheDump
  <2> QED
    BY <2>1, <2>2, <2>3, <2>4 DEF SlaveNext, Gone
<1>4. StageInSlave'
  BY <1>1, StageOutsideTheLoop, StageInTheLoop DEF SlaveNext, Gone
<1> QED
  BY <1>2, <1>3, <1>4 DEF StatusInSlaveInv

\* The exit status tells how far the whole program came, its loop included,
\* if every reply comes in one piece: 2 before the login was accepted or over
\* an error packet of the dump, 3 before the registration was
\* (connect.c:185, query.c:177, binlog.c:367).
THEOREM ProgramsStatusSaysHowFar == SlaveSpec => []StatusTellsTheStage
<1>1. StatusInSlaveInv => StatusTellsTheStage
  BY DEF StatusInSlaveInv, StageInSlave, StageInv, StatusTellsTheStage
<1> QED
  BY StatusInSlaveInit, StatusInSlaveNext, <1>1, PTL DEF SlaveSpec
=============================================================================
