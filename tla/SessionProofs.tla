--------------------------- MODULE SessionProofs ---------------------------
(***************************************************************************)
(* Proofs about Session for packets of any length and contents.  What was  *)
(* read before decides what the next read() is about, so the invariant     *)
(* speaks of the sessions that are clean so far: every reply up to the     *)
(* stage the program is at came in one piece.                              *)
(***************************************************************************)
EXTENDS Session, SequenceTheorems, TLAPS

Byte == [of : Exchanges, at : Nat, byte : Classes]

\* The packet the master sends, as the bytes of the connection.
LEMMA BytesOfPacket ==
  ASSUME NEW exchange \in Exchanges, NEW packet \in Seq(Classes)
  PROVE  /\ Bytes(exchange, packet) \in Seq(Byte)
         /\ Len(Bytes(exchange, packet)) = Len(packet)
         /\ \A i \in 1 .. Len(packet) :
              /\ Bytes(exchange, packet)[i].of = exchange
              /\ Bytes(exchange, packet)[i].byte = packet[i]
<1>1. Len(packet) \in Nat /\ DOMAIN packet = 1 .. Len(packet)
  OBVIOUS
<1>2. Bytes(exchange, packet) \in [1 .. Len(packet) -> Byte]
  BY <1>1 DEF Bytes, Byte
<1> QED
  BY <1>1, <1>2 DEF Bytes

LEMMA PacketFacts ==
  ASSUME NEW packet \in {Greeting, OkPacket, ErrPacket, SwitchPacket}
  PROVE  packet \in Seq(Classes) /\ Len(packet) \in Nat /\ Len(packet) >= 5
BY SessionAssumption

\* What a read may return, and what it leaves.
LEMMA ReadFacts ==
  ASSUME unread \in Seq(Byte), NEW n \in ReadLengths, Read(n)
  PROVE  /\ n \in Int
         /\ n > 0 => n \in 1 .. Len(unread) /\ unread # <<>>
         /\ n <= 0 => unread' = unread
         /\ unread' \in Seq(Byte)
<1>1. n > 0 => n \in 1 .. Len(unread) /\ unread # <<>>
  BY DEF ReadLengths
<1>2. n \in Int
  BY DEF ReadLengths
<1>3. n > 0 => unread' = SubSeq(unread, n + 1, Len(unread))
  BY DEF Read
<1>4. n > 0 => unread' \in Seq(Byte)
  BY <1>1, <1>2, <1>3
<1>5. n <= 0 => unread' = unread
  BY <1>2 DEF Read
<1> QED
  BY <1>1, <1>2, <1>4, <1>5
-----------------------------------------------------------------------------
(***************************************************************************)
(* Type correctness.                                                       *)
(***************************************************************************)

LEMMA NothingTyped ==
  <<>> \in Seq([of : Exchanges, at : Nat, byte : Classes]) /\ <<>> \in Seq(Exchanges)
BY EmptySeq

LEMMA TypeInit == Init => TypeOK
BY NothingTyped DEF Init, TypeOK

LEMMA AnswerKeepsTypes ==
  ASSUME TypeOK, Answer PROVE TypeOK'
<1>1. ASSUME NEW exchange \in Exchanges,
             NEW packet \in {Greeting, OkPacket, ErrPacket, SwitchPacket},
             Say(exchange, packet)
      PROVE  unread' \in Seq(Byte)
  <2>1. unread \in Seq(Byte)
    BY DEF TypeOK, Byte
  <2>2. Bytes(exchange, packet) \in Seq(Byte)
    BY PacketFacts, BytesOfPacket
  <2> QED
    BY <1>1, <2>1, <2>2, ConcatProperties DEF Say
<1>2. ASSUME NEW exchange, Asked(exchange)
      PROVE  requests' \in Seq(Exchanges)
  BY <1>2 DEF Asked, TypeOK
<1>3. unread' \in Seq(Byte)
  <2>1. unread \in Seq(Byte)
    BY DEF TypeOK, Byte
  <2>2. CASE Greet
    BY <1>1, <2>2 DEF Greet, Exchanges
  <2>3. CASE AnswerLogin
    BY <1>1, <2>3 DEF AnswerLogin, Exchanges
  <2>4. CASE AnswerRegister
    BY <1>1, <2>1, <2>4 DEF AnswerRegister, Exchanges
  <2>5. CASE AnswerDump
    BY <2>1, <2>5 DEF AnswerDump
  <2> QED
    BY <2>2, <2>3, <2>4, <2>5 DEF Answer
<1>4. requests' \in Seq(Exchanges)
  BY <1>2 DEF Answer, Greet, AnswerLogin, AnswerRegister, AnswerDump, TypeOK
<1>5. /\ UNCHANGED <<whole, salt, pc, status>>
      /\ conn' \in {conn, "closed"}
      /\ accepted' \subseteq accepted \cup Exchanges
  BY DEF Answer, Greet, AnswerLogin, AnswerRegister, AnswerDump, Asked, Exchanges
<1> QED
  BY <1>3, <1>4, <1>5 DEF TypeOK, Byte

LEMMA WriteKeepsTypes ==
  ASSUME TypeOK, NEW request \in Exchanges,
         NEW next \in {"login", "register", "stream"},
         Write(request, next), UNCHANGED whole
  PROVE  TypeOK'
<1>1. requests' \in Seq(Exchanges)
  BY DEF Write, Written, TypeOK
<1> QED
  BY <1>1 DEF Write, TypeOK

LEMMA ClientKeepsTypes ==
  ASSUME TypeOK, Client PROVE TypeOK'
<1>1. ASSUME NEW n \in ReadLengths, Read(n)
      PROVE  unread' \in Seq([of : Exchanges, at : Nat, byte : Classes])
  BY <1>1, ReadFacts DEF TypeOK, Byte
<1>2. CASE Connect
  BY <1>2 DEF Connect, Client, TypeOK
<1>3. CASE ReadGreeting
  <2>1. UNCHANGED <<whole, conn, requests, accepted>>
    BY <1>3 DEF ReadGreeting, Exit, GoOn, masterVars, Client
  <2>2. unread' \in Seq([of : Exchanges, at : Nat, byte : Classes])
    BY <1>1, <1>3 DEF ReadGreeting
  <2>3. status' \in {status, 1, 2, 139} /\ pc' \in {"exited", "sendLogin"}
    BY <1>3 DEF ReadGreeting, Exit, GoOn
  <2>4. salt' \in BOOLEAN
    BY <1>3 DEF ReadGreeting, Exit, GoOn, WholeSalt, TypeOK
  <2> QED
    BY <2>1, <2>2, <2>3, <2>4 DEF TypeOK
<1>4. CASE SendLogin
  BY <1>4, WriteKeepsTypes DEF SendLogin, Exchanges, Client
<1>5. CASE ReadLoginReply
  <2>1. UNCHANGED <<whole, conn, requests, accepted, salt>>
    BY <1>5 DEF ReadLoginReply, Exit, GoOn, masterVars, Client
  <2>2. unread' \in Seq([of : Exchanges, at : Nat, byte : Classes])
    BY <1>1, <1>5 DEF ReadLoginReply
  <2>3. status' \in {status, 1, 2, 3} /\ pc' \in {"exited", "sendRegister", "sendDump"}
    BY <1>5 DEF ReadLoginReply, Exit, GoOn
  <2> QED
    BY <2>1, <2>2, <2>3 DEF TypeOK
<1>6. CASE SendRegister
  BY <1>6, WriteKeepsTypes DEF SendRegister, Exchanges, Client
<1>7. CASE ReadRegisterReply
  <2>1. UNCHANGED <<whole, conn, requests, accepted, salt>>
    BY <1>7 DEF ReadRegisterReply, Exit, GoOn, masterVars, Client
  <2>2. unread' \in Seq([of : Exchanges, at : Nat, byte : Classes])
    BY <1>1, <1>7 DEF ReadRegisterReply
  <2>3. status' \in {status, 1, 2, 3} /\ pc' \in {"exited", "sendRegister", "sendDump"}
    BY <1>7 DEF ReadRegisterReply, Exit, GoOn
  <2> QED
    BY <2>1, <2>2, <2>3 DEF TypeOK
<1>8. CASE SendDump
  BY <1>8, WriteKeepsTypes DEF SendDump, Exchanges, Client
<1> QED
  BY <1>2, <1>3, <1>4, <1>5, <1>6, <1>7, <1>8 DEF Client

LEMMA TypeNext == TypeOK /\ [Next]_vars => TypeOK'
<1> SUFFICES ASSUME TypeOK, [Next]_vars PROVE TypeOK'
  OBVIOUS
<1>1. CASE HangUp
  <2>1. unread' \in Seq([of : Exchanges, at : Nat, byte : Classes])
    BY <1>1, NothingTyped DEF HangUp, Close, Reset, TypeOK
  <2>2. conn' \in {"closed", "reset"}
        /\ UNCHANGED <<whole, requests, accepted, salt, pc, status>>
    BY <1>1 DEF HangUp, Close, Reset
  <2> QED
    BY <2>1, <2>2 DEF TypeOK
<1>2. CASE UNCHANGED vars
  BY <1>2 DEF vars, masterVars, TypeOK
<1> QED
  BY <1>1, <1>2, AnswerKeepsTypes, ClientKeepsTypes DEF Next, Over

\* Every variable of the session holds a value of its kind, whatever the
\* packets of the master are (connect.c, query.c:123-222).
THEOREM TypeCorrect == Spec => []TypeOK
BY TypeInit, TypeNext, PTL DEF Spec
-----------------------------------------------------------------------------
(***************************************************************************)
(* The order of the exchanges.                                             *)
(***************************************************************************)

\* The replies read before the program is where it is came in one piece.
CleanSoFar ==
  CASE pc \in {"connect", "greeting"} -> TRUE
    [] pc \in {"sendLogin", "login"} -> "greeting" \in whole
    [] pc \in {"sendRegister", "register"} -> {"greeting", "login"} \subseteq whole
    [] pc \in {"sendDump", "stream"} -> whole = Replies
    [] OTHER -> FALSE

\* The only bytes to read, if any, are the answer to what was asked last.
AnswerIsNext(exchange) ==
  \/ requests = <<exchange>> /\ unread = <<>>
  \/ requests = <<>> /\ unread = <<>>
  \/ /\ requests = <<>>
     /\ \/ unread = Bytes(exchange, OkPacket) /\ exchange \in accepted
        \/ unread \in {Bytes(exchange, ErrPacket), Bytes(exchange, SwitchPacket)}

NothingInBetween ==
  /\ pc = "greeting" =>
       /\ requests = <<>>
       /\ \/ unread = <<>>
          \/ unread = Bytes("greeting", Greeting) /\ accepted # {}
          \/ unread = Bytes("greeting", ErrPacket) /\ conn # "open"
  /\ pc \in {"login", "register"} => AnswerIsNext(pc)
  /\ pc \in {"connect", "sendLogin", "sendRegister", "sendDump"} =>
       requests = <<>> /\ unread = <<>>
  /\ pc = "stream" => requests \in {<<>>, <<"dump">>} /\ unread = <<>>

\* Nothing is accepted without a greeting, which comes once and first.
GreetingFirst ==
  /\ accepted # {} => "greeting" \in accepted
  /\ pc = "connect" => accepted = {} /\ conn = "none"
  /\ pc \notin {"connect", "greeting"} /\ accepted = {} => conn # "open"

OrderInv ==
  /\ TypeOK
  /\ GreetingFirst
  /\ CleanSoFar => NothingInBetween
  /\ LoginNeedsOkAfterWholeGreeting
  /\ RegisterNeedsOkAfterWholeLogin

\* A read of a packet that is all there to read and comes in one piece takes
\* all of it.
LEMMA WholeReadTakesAll ==
  ASSUME NEW exchange \in whole \cap Exchanges,
         NEW packet \in {Greeting, OkPacket, ErrPacket, SwitchPacket},
         unread = Bytes(exchange, packet),
         NEW n \in ReadLengths, Read(n), n > 0
  PROVE  unread' = <<>>
<1>1. /\ unread \in Seq(Byte) /\ Len(unread) = Len(packet)
      /\ Len(packet) \in Nat /\ Len(packet) >= 5
      /\ \A i \in 1 .. Len(packet) : unread[i].of = exchange
  BY PacketFacts, BytesOfPacket
<1>2. n \in 1 .. Len(unread) /\ unread # <<>>
  BY <1>1, ReadFacts
<1>3. FirstPacket = 1 .. Len(unread)
  BY <1>1 DEF FirstPacket
<1>4. unread[1].of = exchange
  BY <1>1
<1>5. FirstPacket \subseteq 1 .. n
  BY <1>2, <1>4 DEF ReadLengths
<1>6. Len(unread) \in 1 .. n
  BY <1>1, <1>3, <1>5
<1>7. n = Len(unread)
  BY <1>1, <1>2, <1>6
<1>8. unread' = SubSeq(unread, n + 1, Len(unread))
  BY DEF Read
<1> QED
  BY <1>1, <1>7, <1>8, SubSeqEmpty

\* What is judged is the fifth byte of the answer.
LEMMA FifthOfAnswer ==
  ASSUME TypeOK, NEW exchange \in {"login", "register"},
         AnswerIsNext(exchange), NEW n \in ReadLengths, Fifth(n) = "00"
  PROVE  /\ exchange \in accepted /\ requests = <<>>
         /\ unread = Bytes(exchange, OkPacket) /\ n > 0
<1> USE DEF Exchanges
<1>1. n \in Int /\ n >= 5
  <2>1. n \in Int
    BY DEF ReadLengths
  <2> QED
    BY <2>1 DEF Fifth
<1>2. unread # <<>>
  BY <1>1 DEF ReadLengths
<1>3. ASSUME NEW packet \in {ErrPacket, SwitchPacket}, unread = Bytes(exchange, packet)
      PROVE  FALSE
  <2>1. n \in 1 .. Len(packet) /\ Len(packet) \in Nat
    <3>1. Len(unread) = Len(packet) /\ unread \in Seq(Byte) /\ Len(packet) \in Nat
      BY <1>3, PacketFacts, BytesOfPacket
    <3> QED
      BY <1>1, <1>2, <3>1 DEF ReadLengths
  <2>2. unread[5].byte = packet[5]
    BY <1>1, <1>3, <2>1, PacketFacts, BytesOfPacket
  <2> QED
    BY <1>1, <1>3, <2>2, SessionAssumption DEF Fifth
<1> QED
  BY <1>1, <1>2, <1>3 DEF AnswerIsNext

LEMMA OrderInit == Init => OrderInv
<1> SUFFICES ASSUME Init PROVE OrderInv
  OBVIOUS
<1>1. TypeOK
  BY TypeInit
<1> QED
  BY <1>1 DEF Init, OrderInv, GreetingFirst, NothingInBetween, LoggedIn, Registered,
     LoginNeedsOkAfterWholeGreeting, RegisterNeedsOkAfterWholeLogin,
     LoginNeedsOk, RegisterNeedsOk

\* What the two properties say of a state in which the client has not moved on.
LEMMA AcceptedIsKept ==
  ASSUME OrderInv, accepted \subseteq accepted', UNCHANGED whole,
         pc' = pc \/ pc' \notin {"sendRegister", "register", "sendDump", "stream"}
  PROVE  LoginNeedsOkAfterWholeGreeting' /\ RegisterNeedsOkAfterWholeLogin'
BY DEF OrderInv, LoggedIn, Registered, LoginNeedsOkAfterWholeGreeting,
   RegisterNeedsOkAfterWholeLogin, LoginNeedsOk, RegisterNeedsOk

\* The master answers where the program waits for the answer, if it waits.
LEMMA AnswerKeepsOrder ==
  ASSUME OrderInv, Answer PROVE OrderInv'
<1>1. TypeOK' /\ TypeOK
  BY AnswerKeepsTypes DEF OrderInv
<1>2. UNCHANGED <<whole, pc, salt, status>> /\ accepted \subseteq accepted'
  BY DEF Answer, Greet, AnswerLogin, AnswerRegister, AnswerDump, Asked
<1>3. LoginNeedsOkAfterWholeGreeting' /\ RegisterNeedsOkAfterWholeLogin'
  BY <1>2, AcceptedIsKept
<1>4. CleanSoFar' <=> CleanSoFar
  BY <1>2 DEF CleanSoFar
<1>5. ASSUME NEW exchange \in Exchanges, unread = <<>>,
             NEW packet \in {Greeting, OkPacket, ErrPacket, SwitchPacket},
             Say(exchange, packet)
      PROVE  unread' = Bytes(exchange, packet)
  BY <1>5, PacketFacts, BytesOfPacket, ConcatEmptySeq DEF Say
<1>6. CASE Greet
  <2>1. pc # "connect" /\ conn = "open" /\ accepted = {}
    BY <1>6 DEF Greet, OrderInv, GreetingFirst
  <2>2. pc = "greeting"
    BY <2>1 DEF OrderInv, GreetingFirst
  <2>3. CleanSoFar /\ requests = <<>> /\ unread = <<>>
    BY <2>1, <2>2 DEF OrderInv, CleanSoFar, NothingInBetween
  <2>4. \/ unread' = Bytes("greeting", Greeting) /\ accepted' = {"greeting"}
        \/ unread' = Bytes("greeting", ErrPacket) /\ accepted' = {} /\ conn' = "closed"
    BY <1>5, <1>6, <2>1, <2>3 DEF Greet, Exchanges
  <2>5. requests' = <<>>
    BY <1>6, <2>3 DEF Greet
  <2>6. NothingInBetween'
    BY <1>2, <2>2, <2>4, <2>5 DEF NothingInBetween
  <2>7. GreetingFirst'
    BY <1>2, <2>2, <2>4 DEF GreetingFirst
  <2> QED
    BY <1>1, <1>3, <2>6, <2>7 DEF OrderInv
<1>7. CASE AnswerLogin \/ AnswerRegister \/ AnswerDump
  <2>1. PICK exchange \in {"login", "register", "dump"} : Asked(exchange)
    BY <1>7 DEF AnswerLogin, AnswerRegister, AnswerDump
  <2>2. conn = "open" /\ requests # <<>> /\ Head(requests) = exchange
        /\ requests' = Tail(requests)
    BY <2>1 DEF Asked
  <2>3. pc # "connect"
    BY <2>2 DEF OrderInv, GreetingFirst
  <2>4. ASSUME CleanSoFar
        PROVE  /\ requests = <<exchange>> /\ requests' = <<>> /\ unread = <<>>
               /\ pc = (IF exchange = "dump" THEN "stream" ELSE exchange)
    BY <2>1, <2>2, <2>3, <2>4, <1>1
    DEF OrderInv, NothingInBetween, AnswerIsNext, TypeOK, CleanSoFar
  <2>5. NothingInBetween' \/ ~CleanSoFar
    <3> SUFFICES ASSUME CleanSoFar PROVE NothingInBetween'
      OBVIOUS
    <3>1. CASE AnswerLogin
      BY <1>2, <1>5, <2>1, <2>2, <2>4, <3>1
      DEF AnswerLogin, Asked, NothingInBetween, AnswerIsNext, Exchanges
    <3>2. CASE AnswerRegister
      BY <1>2, <1>5, <2>1, <2>2, <2>4, <3>2
      DEF AnswerRegister, Asked, NothingInBetween, AnswerIsNext, Exchanges
    <3>3. CASE AnswerDump
      BY <1>2, <2>1, <2>2, <2>4, <3>3
      DEF AnswerDump, Asked, NothingInBetween, AnswerIsNext
    <3> QED
      BY <1>7, <3>1, <3>2, <3>3
  <2>6. GreetingFirst'
    <3>1. conn' \in {conn, "closed"}
      BY <1>7 DEF AnswerLogin, AnswerRegister, AnswerDump
    <3>2. accepted # {} \/ accepted' = accepted
      <4>1. CASE pc = "greeting"
        BY <2>2, <2>4, <4>1 DEF CleanSoFar
      <4>2. CASE pc # "greeting"
        BY <2>2, <2>3, <4>2 DEF OrderInv, GreetingFirst
      <4> QED
        BY <4>1, <4>2
    <3> QED
      BY <1>2, <2>3, <3>1, <3>2 DEF OrderInv, GreetingFirst
  <2> QED
    BY <1>1, <1>3, <1>4, <2>5, <2>6 DEF OrderInv
<1> QED
  BY <1>6, <1>7 DEF Answer

\* The client sends a request only when nothing is left to read.
LEMMA WriteKeepsOrder ==
  ASSUME OrderInv, UNCHANGED whole, TypeOK',
         \/ SendLogin \/ SendRegister \/ SendDump
  PROVE  OrderInv'
<1>1. UNCHANGED <<conn, accepted, unread, salt>>
  BY DEF SendLogin, SendRegister, SendDump, Write
<1>2. \/ pc = "sendLogin" /\ pc' \in {"login", "exited"}
      \/ pc = "sendRegister" /\ pc' \in {"register", "exited"}
      \/ pc = "sendDump" /\ pc' \in {"stream", "exited"}
  BY DEF SendLogin, SendRegister, SendDump, Write
<1>3. GreetingFirst'
  BY <1>1, <1>2 DEF OrderInv, GreetingFirst
<1>4. LoginNeedsOkAfterWholeGreeting' /\ RegisterNeedsOkAfterWholeLogin'
  BY <1>1, <1>2 DEF OrderInv, LoggedIn, Registered, LoginNeedsOkAfterWholeGreeting,
     RegisterNeedsOkAfterWholeLogin, LoginNeedsOk, RegisterNeedsOk
<1>5. ASSUME CleanSoFar'
      PROVE  NothingInBetween'
  <2>1. CleanSoFar /\ requests = <<>> /\ unread = <<>>
    BY <1>2, <1>5 DEF CleanSoFar, OrderInv, NothingInBetween
  <2>2. requests' \in {<<>>, <<IF pc' = "stream" THEN "dump" ELSE pc'>>}
    BY <1>2, <1>5, <2>1 DEF CleanSoFar, SendLogin, SendRegister, SendDump, Write, Written
  <2> QED
    BY <1>1, <1>2, <1>5, <2>1, <2>2 DEF CleanSoFar, NothingInBetween, AnswerIsNext
<1> QED
  BY <1>3, <1>4, <1>5 DEF OrderInv

\* The end of the program leaves what was accepted as it is.
LEMMA ExitKeepsOrder ==
  ASSUME OrderInv, UNCHANGED <<whole, conn, accepted>>, pc' = "exited", TypeOK',
         accepted = {} => conn # "open"
  PROVE  OrderInv'
<1>1. LoginNeedsOkAfterWholeGreeting' /\ RegisterNeedsOkAfterWholeLogin'
  BY AcceptedIsKept
<1> QED
  BY <1>1 DEF OrderInv, CleanSoFar, GreetingFirst

LEMMA ReadGreetingKeepsOrder ==
  ASSUME OrderInv, UNCHANGED whole, TypeOK', ReadGreeting PROVE OrderInv'
<1>1. PICK n \in ReadLengths :
        /\ Read(n)
        /\ \/ n = -1 /\ Exit(1)
           \/ n = 0 /\ Exit(2)
           \/ n > 0 /\ ~WholeSalt(n) /\ Exit(139)
           \/ n > 0 /\ salt' = WholeSalt(n) /\ GoOn("sendLogin")
  BY DEF ReadGreeting
<1>2. /\ pc = "greeting" /\ CleanSoFar /\ requests = <<>>
      /\ UNCHANGED <<conn, requests, accepted>> /\ pc' \in {"exited", "sendLogin"}
  BY <1>1 DEF ReadGreeting, CleanSoFar, OrderInv, NothingInBetween, Exit, GoOn, masterVars
<1>3. accepted = {} => conn # "open"
  BY <1>1, <1>2 DEF OrderInv, NothingInBetween, ReadLengths
<1>4. CASE pc' = "exited"
  BY <1>2, <1>3, <1>4, ExitKeepsOrder
<1>5. CASE pc' = "sendLogin"
  <2>1. n \in Int /\ n > 0
    BY <1>1, <1>5 DEF ReadLengths, Exit
  <2>2. \E packet \in {Greeting, ErrPacket} : unread = Bytes("greeting", packet)
    <3>1. unread # <<>>
      BY <2>1 DEF ReadLengths
    <3> QED
      BY <1>2, <3>1 DEF OrderInv, NothingInBetween
  <2>3. "greeting" \in whole => unread' = <<>>
    BY <1>1, <2>1, <2>2, WholeReadTakesAll DEF Exchanges
  <2>4. GreetingFirst'
    BY <1>2, <1>3, <1>5 DEF OrderInv, GreetingFirst
  <2>5. CleanSoFar' => NothingInBetween'
    BY <1>2, <1>5, <2>3 DEF CleanSoFar, NothingInBetween
  <2>6. LoginNeedsOkAfterWholeGreeting' /\ RegisterNeedsOkAfterWholeLogin'
    BY <1>5 DEF LoginNeedsOkAfterWholeGreeting, RegisterNeedsOkAfterWholeLogin,
       LoginNeedsOk, RegisterNeedsOk, LoggedIn, Registered
  <2> QED
    BY <2>4, <2>5, <2>6 DEF OrderInv
<1> QED
  BY <1>2, <1>4, <1>5

LEMMA ReadLoginReplyKeepsOrder ==
  ASSUME OrderInv, UNCHANGED whole, TypeOK', ReadLoginReply PROVE OrderInv'
<1>1. PICK n \in ReadLengths :
        /\ Read(n)
        /\ \/ n = -1 /\ Exit(1)
           \/ n # -1 /\ ~LoginOk(n) /\ Exit(2)
           \/ LoginOk(n) /\ GoOn("sendRegister") /\ UNCHANGED salt
  BY DEF ReadLoginReply
<1>2. /\ pc = "login" /\ UNCHANGED <<conn, requests, accepted>>
      /\ pc' \in {"exited", "sendRegister"}
  BY <1>1 DEF ReadLoginReply, Exit, GoOn, masterVars
<1>3. GreetingFirst /\ (accepted = {} => conn # "open")
  BY <1>2 DEF OrderInv, GreetingFirst
<1>4. CASE pc' = "exited"
  BY <1>2, <1>3, <1>4, ExitKeepsOrder
<1>5. CASE pc' = "sendRegister"
  <2>1. Fifth(n) = "00"
    BY <1>1, <1>5 DEF LoginOk, Exit
  <2>2. ASSUME "greeting" \in whole
        PROVE  /\ "login" \in accepted /\ requests = <<>> /\ n > 0
               /\ unread = Bytes("login", OkPacket)
    BY <1>2, <2>1, <2>2, FifthOfAnswer DEF OrderInv, CleanSoFar, NothingInBetween
  <2>3. ASSUME {"greeting", "login"} \subseteq whole
        PROVE  unread' = <<>>
    BY <1>1, <2>2, <2>3, WholeReadTakesAll DEF Exchanges
  <2>4. CleanSoFar' => NothingInBetween'
    BY <1>2, <1>5, <2>2, <2>3 DEF CleanSoFar, NothingInBetween
  <2>5. LoginNeedsOkAfterWholeGreeting' /\ RegisterNeedsOkAfterWholeLogin'
    BY <1>2, <1>5, <2>2 DEF LoginNeedsOkAfterWholeGreeting,
       RegisterNeedsOkAfterWholeLogin, LoginNeedsOk, RegisterNeedsOk, LoggedIn, Registered
  <2> QED
    BY <1>2, <1>3, <1>5, <2>4, <2>5 DEF OrderInv, GreetingFirst
<1> QED
  BY <1>2, <1>4, <1>5

LEMMA ReadRegisterReplyKeepsOrder ==
  ASSUME OrderInv, UNCHANGED whole, TypeOK', ReadRegisterReply PROVE OrderInv'
<1>1. PICK n \in ReadLengths :
        /\ Read(n)
        /\ \/ ~RegisterOk(n) /\ Exit(3)
           \/ RegisterOk(n) /\ GoOn("sendDump") /\ UNCHANGED salt
  BY DEF ReadRegisterReply
<1>2. /\ pc = "register" /\ UNCHANGED <<conn, requests, accepted>>
      /\ pc' \in {"exited", "sendDump"}
  BY <1>1 DEF ReadRegisterReply, Exit, GoOn, masterVars
<1>3. GreetingFirst /\ (accepted = {} => conn # "open")
  BY <1>2 DEF OrderInv, GreetingFirst
<1>4. CASE pc' = "exited"
  BY <1>2, <1>3, <1>4, ExitKeepsOrder
<1>5. CASE pc' = "sendDump"
  <2>1. Fifth(n) = "00"
    BY <1>1, <1>5 DEF RegisterOk, Exit
  <2>2. ASSUME {"greeting", "login"} \subseteq whole
        PROVE  /\ "register" \in accepted /\ requests = <<>> /\ n > 0
               /\ unread = Bytes("register", OkPacket)
    BY <1>2, <2>1, <2>2, FifthOfAnswer DEF OrderInv, CleanSoFar, NothingInBetween
  <2>3. ASSUME whole = Replies
        PROVE  unread' = <<>>
    BY <1>1, <2>2, <2>3, WholeReadTakesAll DEF Exchanges, Replies
  <2>4. CleanSoFar' => NothingInBetween'
    BY <1>2, <1>5, <2>2, <2>3 DEF CleanSoFar, NothingInBetween, Replies, Exchanges
  <2>5. LoginNeedsOkAfterWholeGreeting' /\ RegisterNeedsOkAfterWholeLogin'
    BY <1>2, <1>5, <2>2 DEF OrderInv, LoginNeedsOkAfterWholeGreeting,
       RegisterNeedsOkAfterWholeLogin, LoginNeedsOk, RegisterNeedsOk, LoggedIn, Registered
  <2> QED
    BY <1>2, <1>3, <1>5, <2>4, <2>5 DEF OrderInv, GreetingFirst
<1> QED
  BY <1>2, <1>4, <1>5

LEMMA OrderNext == OrderInv /\ [Next]_vars => OrderInv'
<1> SUFFICES ASSUME OrderInv, [Next]_vars PROVE OrderInv'
  OBVIOUS
<1>1. TypeOK'
  BY TypeNext DEF OrderInv
<1>2. CASE Client
  <2>1. CASE Connect
    BY <1>1, <1>2, <2>1
    DEF Client, Connect, OrderInv, GreetingFirst, CleanSoFar, NothingInBetween, LoggedIn,
        Registered, LoginNeedsOkAfterWholeGreeting, RegisterNeedsOkAfterWholeLogin,
        LoginNeedsOk, RegisterNeedsOk
  <2> QED
    BY <1>1, <1>2, <2>1, WriteKeepsOrder, ReadGreetingKeepsOrder,
       ReadLoginReplyKeepsOrder, ReadRegisterReplyKeepsOrder DEF Client
<1>3. CASE HangUp
  <2>1. /\ conn' # "open" /\ conn \in {"open", "closed"} /\ unread' \in {unread, <<>>}
        /\ UNCHANGED <<whole, requests, accepted, pc>>
    BY <1>3 DEF HangUp, Close, Reset
  <2>2. LoginNeedsOkAfterWholeGreeting' /\ RegisterNeedsOkAfterWholeLogin'
    BY <2>1, AcceptedIsKept
  <2>3. GreetingFirst'
    BY <2>1 DEF OrderInv, GreetingFirst
  <2>4. CleanSoFar' => NothingInBetween'
    BY <2>1 DEF OrderInv, CleanSoFar, NothingInBetween, AnswerIsNext
  <2> QED
    BY <1>1, <2>2, <2>3, <2>4 DEF OrderInv
<1>4. CASE UNCHANGED vars
  BY <1>1, <1>4
  DEF vars, masterVars, OrderInv, GreetingFirst, CleanSoFar, NothingInBetween,
      AnswerIsNext, LoggedIn, Registered, LoginNeedsOkAfterWholeGreeting,
      RegisterNeedsOkAfterWholeLogin, LoginNeedsOk, RegisterNeedsOk
<1> QED
  BY <1>2, <1>3, <1>4, AnswerKeepsOrder DEF Next, Over

\* If the greeting came in one piece, the program registers as a slave only
\* after the master accepted the login (connect.c:174-186).
THEOREM LoginComesFirst == Spec => []LoginNeedsOkAfterWholeGreeting
BY OrderInit, OrderNext, PTL DEF Spec, OrderInv

\* If the greeting and the answer to the login came in one piece each, the
\* program asks for the binlog only after the master accepted it as a slave
\* (query.c:171-178).
THEOREM RegistrationComesFirst == Spec => []RegisterNeedsOkAfterWholeLogin
BY OrderInit, OrderNext, PTL DEF Spec, OrderInv

\* If every reply came in one piece, nothing of the session is left, or still
\* to come, when the binlog loop starts to read (client.c:16-28).
THEOREM LoopStartsAtTheDump == Spec => []StreamStartsAtTheDumpIfWhole
<1>1. OrderInv => StreamStartsAtTheDumpIfWhole
  BY DEF OrderInv, StreamStartsAtTheDumpIfWhole, StreamStartsAtTheDump, CleanSoFar,
     NothingInBetween, GreetingFirst, LoginNeedsOkAfterWholeGreeting, LoggedIn,
     LoginNeedsOk, RegisterNeedsOkAfterWholeLogin, Registered, RegisterNeedsOk,
     Replies, Exchanges
<1> QED
  BY OrderInit, OrderNext, <1>1, PTL DEF Spec
-----------------------------------------------------------------------------
(***************************************************************************)
(* The exit status, in sessions whose replies all come in one piece.  What *)
(* the master accepted and the program has not read is there to be read,   *)
(* unless the connection was reset; so it exits over a reply that is no OK *)
(* only if the master did not accept.  After that nothing is asked.        *)
(***************************************************************************)

AcceptedIsUnread(exchange) ==
  exchange \in accepted =>
    conn = "reset" \/ (requests = <<>> /\ unread = Bytes(exchange, OkPacket))

NothingAsked == requests = <<>> \/ conn # "open"

StageInv ==
  /\ pc # "exited" => status = 0
  /\ pc \in {"connect", "greeting", "sendLogin"} => "login" \notin accepted
  /\ pc \in {"connect", "greeting", "sendLogin", "login", "sendRegister"} =>
       "register" \notin accepted
  /\ pc \in {"login", "register"} => AcceptedIsUnread(pc)
  /\ conn = "refused" => accepted = {}
  /\ status = 2 => NothingAsked /\ "login" \notin accepted
  /\ status = 3 => /\ NothingAsked /\ "login" \in accepted
                   /\ "register" \in accepted => conn = "reset"

StatusInv == whole = Replies => StageInv

LEMMA CleanUntilTheEnd ==
  ASSUME OrderInv, whole = Replies, pc # "exited"
  PROVE  NothingInBetween
<1>1. CleanSoFar
  BY DEF OrderInv, TypeOK, CleanSoFar, Replies, Exchanges
<1> QED
  BY <1>1 DEF OrderInv

\* The client reads the whole of an OK packet, and sees that it is one.
LEMMA OkIsSeen ==
  ASSUME NEW exchange \in {"login", "register"}, whole = Replies,
         unread = Bytes(exchange, OkPacket), conn # "reset", conn # "refused",
         NEW n \in ReadLengths
  PROVE  Fifth(n) = "00"
<1> USE DEF Exchanges, Replies
<1>1. /\ unread \in Seq(Byte) /\ Len(unread) = Len(OkPacket)
      /\ Len(OkPacket) \in Nat /\ Len(OkPacket) >= 5
      /\ \A i \in 1 .. Len(OkPacket) : unread[i].of = exchange
      /\ unread[5].byte = "00"
  BY PacketFacts, BytesOfPacket, SessionAssumption
<1>2. n \in DOMAIN unread /\ FirstPacket \subseteq 1 .. n
  BY <1>1 DEF ReadLengths
<1>3. Len(unread) \in FirstPacket
  BY <1>1 DEF FirstPacket
<1>4. n >= 5
  BY <1>1, <1>2, <1>3
<1> QED
  BY <1>1, <1>4 DEF Fifth

LEMMA StatusAnswer ==
  ASSUME OrderInv, StatusInv, Answer PROVE StatusInv'
<1>1. UNCHANGED <<whole, pc, salt, status>> /\ conn = "open" /\ conn' # "refused"
  BY DEF Answer, Greet, AnswerLogin, AnswerRegister, AnswerDump, Asked
<1> SUFFICES ASSUME whole = Replies PROVE StageInv'
  BY <1>1 DEF StatusInv
<1>2. StageInv
  BY DEF StatusInv
<1>3. CASE Greet
  BY <1>1, <1>2, <1>3 DEF Greet, StageInv, OrderInv, GreetingFirst, AcceptedIsUnread,
     NothingAsked
<1>4. CASE AnswerLogin \/ AnswerRegister \/ AnswerDump
  <2>1. PICK exchange \in {"login", "register", "dump"} : Asked(exchange)
    BY <1>4 DEF AnswerLogin, AnswerRegister, AnswerDump
  <2>2. requests # <<>> /\ Head(requests) = exchange /\ requests' = Tail(requests)
    BY <2>1 DEF Asked
  <2>3. CASE pc = "exited"
    BY <1>1, <1>2, <1>4, <2>2, <2>3
    DEF StageInv, NothingAsked, AnswerLogin, AnswerRegister, AnswerDump
  <2>4. CASE pc # "exited"
    <3>1. /\ requests = <<exchange>> /\ requests' = <<>> /\ unread = <<>>
          /\ pc = (IF exchange = "dump" THEN "stream" ELSE exchange)
      BY <1>1, <2>1, <2>2, <2>4, CleanUntilTheEnd
      DEF OrderInv, NothingInBetween, AnswerIsNext, TypeOK, GreetingFirst
    <3>2. CASE AnswerLogin
      <4>1. exchange = "login"
        BY <2>1, <3>1, <3>2 DEF AnswerLogin, Asked
      <4>2. "login" \in accepted' => unread' = Bytes("login", OkPacket)
        <5>1. "login" \notin accepted
          BY <1>1, <1>2, <3>1, <4>1 DEF StageInv, AcceptedIsUnread
        <5>2. <<>> \o Bytes("login", OkPacket) = Bytes("login", OkPacket)
          BY PacketFacts, BytesOfPacket, ConcatEmptySeq DEF Exchanges
        <5> QED
          BY <3>1, <3>2, <5>1, <5>2 DEF AnswerLogin, Say
      <4>3. "register" \in accepted' => "register" \in accepted
        BY <3>2 DEF AnswerLogin
      <4> QED
        BY <1>1, <1>2, <2>4, <3>1, <4>1, <4>2, <4>3 DEF StageInv, AcceptedIsUnread
    <3>3. CASE AnswerRegister
      <4>1. exchange = "register"
        BY <2>1, <3>1, <3>3 DEF AnswerRegister, Asked
      <4>2. "register" \in accepted' => unread' = Bytes("register", OkPacket)
        <5>1. "register" \notin accepted
          BY <1>1, <1>2, <3>1, <4>1 DEF StageInv, AcceptedIsUnread
        <5>2. <<>> \o Bytes("register", OkPacket) = Bytes("register", OkPacket)
          BY PacketFacts, BytesOfPacket, ConcatEmptySeq DEF Exchanges
        <5> QED
          BY <3>1, <3>3, <5>1, <5>2 DEF AnswerRegister, Say
      <4> QED
        BY <1>1, <1>2, <2>4, <3>1, <4>1, <4>2 DEF StageInv, AcceptedIsUnread
    <3>4. CASE AnswerDump
      <4>1. pc = "stream"
        BY <2>1, <3>1, <3>4 DEF AnswerDump, Asked
      <4> QED
        BY <1>1, <1>2, <4>1 DEF StageInv
    <3> QED
      BY <1>4, <3>2, <3>3, <3>4
  <2> QED
    BY <2>3, <2>4
<1> QED
  BY <1>3, <1>4 DEF Answer

LEMMA StatusHangUp ==
  ASSUME OrderInv, StatusInv, HangUp PROVE StatusInv'
<1>1. /\ UNCHANGED <<whole, requests, accepted, pc, status>> /\ conn # "reset"
      /\ \/ conn' = "reset"
         \/ conn = "open" /\ conn' = "closed" /\ unread' = unread
  BY DEF HangUp, Close, Reset
<1> QED
  BY <1>1 DEF StatusInv, StageInv, AcceptedIsUnread, NothingAsked

LEMMA StatusWrite ==
  ASSUME OrderInv, StatusInv, UNCHANGED whole,
         Connect \/ SendLogin \/ SendRegister \/ SendDump
  PROVE  StatusInv'
<1> SUFFICES ASSUME whole = Replies PROVE StageInv'
  BY DEF StatusInv
<1>1. StageInv
  BY DEF StatusInv
<1>2. CASE Connect
  BY <1>1, <1>2 DEF Connect, StageInv, OrderInv, GreetingFirst
<1>3. CASE SendLogin \/ SendRegister \/ SendDump
  <2>1. /\ UNCHANGED <<conn, accepted>>
        /\ \/ pc' = "exited" /\ status' = 141
           \/ /\ UNCHANGED status
              /\ \/ pc = "sendLogin" /\ pc' = "login"
                 \/ pc = "sendRegister" /\ pc' = "register"
                 \/ pc = "sendDump" /\ pc' = "stream"
    BY <1>3 DEF SendLogin, SendRegister, SendDump, Write
  <2> QED
    BY <1>1, <1>3, <2>1
    DEF StageInv, AcceptedIsUnread, SendLogin, SendRegister, SendDump
<1> QED
  BY <1>2, <1>3

LEMMA StatusRead ==
  ASSUME OrderInv, StatusInv, UNCHANGED whole,
         ReadGreeting \/ ReadLoginReply \/ ReadRegisterReply
  PROVE  StatusInv'
<1> SUFFICES ASSUME whole = Replies PROVE StageInv'
  BY DEF StatusInv
<1>1. StageInv
  BY DEF StatusInv
<1>2. UNCHANGED <<conn, requests, accepted>>
  BY DEF ReadGreeting, ReadLoginReply, ReadRegisterReply, Exit, GoOn, masterVars
<1>3. CASE ReadGreeting
  <2>1. NothingInBetween
    BY <1>3, CleanUntilTheEnd DEF ReadGreeting
  <2>2. pc = "greeting" /\ requests = <<>>
    BY <1>3, <2>1 DEF ReadGreeting, NothingInBetween
  <2>3. \/ pc' = "exited" /\ status' \in {1, 2, 139}
        \/ pc' = "sendLogin" /\ UNCHANGED status
    BY <1>3 DEF ReadGreeting, Exit, GoOn
  <2> QED
    BY <1>1, <1>2, <2>2, <2>3 DEF StageInv, NothingAsked
<1>4. CASE ReadLoginReply
  <2>1. PICK n \in ReadLengths :
          \/ n = -1 /\ Exit(1)
          \/ n # -1 /\ ~LoginOk(n) /\ Exit(2)
          \/ LoginOk(n) /\ GoOn("sendRegister")
    BY <1>4 DEF ReadLoginReply
  <2>2. pc = "login"
    BY <1>4 DEF ReadLoginReply
  <2>3. CASE n # -1 /\ ~LoginOk(n) /\ Exit(2)
    <3>1. NothingInBetween
      BY <2>2, CleanUntilTheEnd
    <3>2. conn \notin {"reset", "refused"}
      BY <2>3 DEF ReadLengths
    <3>3. "login" \notin accepted
      BY <1>1, <2>2, <2>3, <3>2, OkIsSeen DEF StageInv, AcceptedIsUnread, LoginOk
    <3>4. NothingAsked
      <4>1. CASE unread = <<>>
        BY <2>3, <3>2, <4>1 DEF ReadLengths, NothingAsked
      <4>2. CASE unread # <<>>
        BY <2>2, <3>1, <4>2 DEF NothingInBetween, AnswerIsNext, NothingAsked
      <4> QED
        BY <4>1, <4>2
    <3> QED
      BY <1>1, <1>2, <2>3, <3>3, <3>4 DEF StageInv, NothingAsked, Exit
  <2> QED
    BY <1>1, <1>2, <2>1, <2>2, <2>3 DEF StageInv, Exit, GoOn
<1>5. CASE ReadRegisterReply
  <2>1. PICK n \in ReadLengths :
          \/ ~RegisterOk(n) /\ Exit(3)
          \/ RegisterOk(n) /\ GoOn("sendDump")
    BY <1>5 DEF ReadRegisterReply
  <2>2. pc = "register"
    BY <1>5 DEF ReadRegisterReply
  <2>3. CASE ~RegisterOk(n) /\ Exit(3)
    <3>1. NothingInBetween
      BY <2>2, CleanUntilTheEnd
    <3>2. "login" \in accepted
      BY <2>2 DEF OrderInv, LoginNeedsOkAfterWholeGreeting, LoginNeedsOk, LoggedIn,
         Replies, Exchanges
    <3>3. ASSUME "register" \in accepted, conn # "reset" PROVE FALSE
      <4>1. conn # "refused"
        BY <1>1, <3>2 DEF StageInv
      <4> QED
        BY <1>1, <2>2, <2>3, <3>3, <4>1, OkIsSeen DEF StageInv, AcceptedIsUnread, RegisterOk
    <3>4. NothingAsked
      <4>1. CASE unread = <<>>
        BY <4>1 DEF ReadLengths, NothingAsked
      <4>2. CASE unread # <<>>
        BY <2>2, <3>1, <4>2 DEF NothingInBetween, AnswerIsNext, NothingAsked
      <4> QED
        BY <4>1, <4>2
    <3> QED
      BY <1>1, <1>2, <2>3, <3>2, <3>3, <3>4 DEF StageInv, NothingAsked, Exit
  <2> QED
    BY <1>1, <1>2, <2>1, <2>2, <2>3 DEF StageInv, Exit, GoOn
<1> QED
  BY <1>3, <1>4, <1>5

LEMMA StatusNext == OrderInv /\ StatusInv /\ [Next]_vars => StatusInv'
<1> SUFFICES ASSUME OrderInv, StatusInv, [Next]_vars PROVE StatusInv'
  OBVIOUS
<1>1. CASE UNCHANGED vars
  BY <1>1 DEF vars, masterVars, StatusInv, StageInv, AcceptedIsUnread, NothingAsked
<1> QED
  BY <1>1, StatusAnswer, StatusHangUp, StatusWrite, StatusRead DEF Next, Over, Client

\* If every reply comes in one piece, status 2 says that the login was not
\* accepted, and 3 that the registration was not, but for a reset, after the
\* login was (connect.c:185, query.c:177).
THEOREM StatusSaysHowFar == Spec => []StatusTellsTheStage
<1>1. Init => StatusInv
  BY DEF Init, StatusInv, StageInv, NothingAsked
<1>2. StatusInv => StatusTellsTheStage
  BY DEF StatusInv, StageInv, StatusTellsTheStage
<1> QED
  BY <1>1, <1>2, OrderInit, OrderNext, StatusNext, PTL DEF Spec
=============================================================================
