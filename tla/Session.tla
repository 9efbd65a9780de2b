------------------------------ MODULE Session ------------------------------
(***************************************************************************)
(* main (client.c) up to the binlog loop: connect_master with the          *)
(* handshake and the login (connect.c), register_as_slave and              *)
(* send_binlog_dump_request (query.c).  Each reply is taken with a single  *)
(* read() and judged by the fifth byte of the buffer (packet.c).           *)
(*                                                                         *)
(* The master and TCP are external.  A byte is reduced to the packet it    *)
(* belongs to, its place in it, and whether it is 0x00, 0xFE or another    *)
(* value, which is all parse_ok_packet tells apart.  A read returns some   *)
(* of the unread bytes, wherever a packet ends; for some of the replies it *)
(* may be known that TCP delivers them in one piece.                       *)
(***************************************************************************)
EXTENDS Integers, Sequences

CONSTANTS
  Greeting,   \* the bytes of the packets the master may send: "00", "FE", "xx"
  OkPacket,
  ErrPacket,
  SwitchPacket,  \* asks for another way to authenticate
  SaltEnd     \* how much of Greeting is needed for the password's salt

Exchanges == {"greeting", "login", "register", "dump"}
Replies == Exchanges \ {"dump"}
Classes == {"00", "FE", "xx"}

ASSUME SessionAssumption ==
  /\ {Greeting, OkPacket, ErrPacket, SwitchPacket} \subseteq Seq(Classes)
  /\ \A p \in {Greeting, OkPacket, ErrPacket, SwitchPacket} : Len(p) >= 5
  /\ OkPacket[5] = "00" /\ ErrPacket[5] = "xx" /\ SwitchPacket[5] = "FE"
  /\ SaltEnd \in 1 .. Len(Greeting)

VARIABLES
  whole,     \* the replies that TCP delivers whole in this session
  conn,      \* "none", "open", "refused", "closed" (by the master), "reset";
             \* "dead" once the binlog loop was told of a reset
  requests,  \* what the client wrote and the master has not answered
  accepted,  \* exchanges the master went along with
  unread,    \* bytes the master sent and read() has not returned
  salt,      \* the whole salt was in what was read as the greeting
  pc,        \* where main is: about to connect, to read the reply of an exchange
             \* or to send a request, in the binlog loop ("stream"), "exited"
  status     \* exit status, 0 while running, 141 if killed by SIGPIPE, 139 if
             \* by SIGSEGV

masterVars == <<conn, requests, accepted>>
vars == <<whole, masterVars, unread, salt, pc, status>>

Bytes(exchange, packet) ==
  [i \in DOMAIN packet |-> [of |-> exchange, at |-> i, byte |-> packet[i]]]

Init ==
  /\ whole \in SUBSET Replies
  /\ conn = "none"
  /\ requests = <<>>
  /\ accepted = {}
  /\ unread = <<>>
  /\ salt = FALSE
  /\ pc = "connect"
  /\ status = 0
-----------------------------------------------------------------------------
(* The master (external). *)

Say(exchange, packet) == unread' = unread \o Bytes(exchange, packet)

\* The first packet may be an error, as when there are too many connections.
Greet ==
  /\ conn = "open"
  /\ accepted = {}
  /\ \/ /\ Say("greeting", Greeting)
        /\ accepted' = {"greeting"}
        /\ UNCHANGED <<conn, requests>>
     \/ /\ Say("greeting", ErrPacket)
        /\ conn' = "closed"
        /\ UNCHANGED <<requests, accepted>>
  /\ UNCHANGED <<salt, pc, status>>

Asked(exchange) ==
  /\ conn = "open"
  /\ requests # <<>> /\ Head(requests) = exchange
  /\ requests' = Tail(requests)
  /\ UNCHANGED <<salt, pc, status>>

\* Only the password hashed with the master's own salt is accepted.
AnswerLogin ==
  /\ Asked("login")
  /\ \/ salt /\ Say("login", OkPacket) /\ accepted' = accepted \cup {"login"}
             /\ UNCHANGED conn
     \/ Say("login", ErrPacket) /\ conn' = "closed" /\ UNCHANGED accepted
     \/ Say("login", SwitchPacket) /\ UNCHANGED <<conn, accepted>>

\* A client that is not logged in is disconnected whatever it asks.
AnswerRegister ==
  /\ Asked("register")
  /\ IF "login" \in accepted
     THEN \/ Say("register", OkPacket) /\ accepted' = accepted \cup {"register"}
             /\ UNCHANGED conn
          \/ Say("register", ErrPacket) /\ UNCHANGED <<conn, accepted>>
     ELSE conn' = "closed" /\ UNCHANGED <<unread, accepted>>

\* What the master sends then is no reply: see Slave.
AnswerDump ==
  /\ Asked("dump")
  /\ IF "login" \in accepted
     THEN accepted' = accepted \cup {"dump"} /\ UNCHANGED conn
     ELSE conn' = "closed" /\ UNCHANGED accepted
  /\ UNCHANGED unread

Close ==
  /\ conn = "open"
  /\ conn' = "closed"
  /\ UNCHANGED <<requests, accepted, unread, salt, pc, status>>

Reset ==
  /\ conn \in {"open", "closed"}
  /\ conn' = "reset"
  /\ unread' = <<>>
  /\ UNCHANGED <<requests, accepted, salt, pc, status>>
-----------------------------------------------------------------------------
(* The client. *)

\* connect() failing is reported, and the program goes on to read.
Connect ==
  /\ pc = "connect"
  /\ \E c \in {"open", "refused"} : conn' = c
  /\ pc' = "greeting"
  /\ UNCHANGED <<requests, accepted, unread, salt, status>>

FirstPacket == {i \in DOMAIN unread : unread[i].of = unread[1].of}

\* Mutant: read() is called until the fifth byte is there.
ReadLengthsOfFive ==
  IF conn \in {"refused", "reset"} THEN {-1}
  ELSE {n \in DOMAIN unread : n >= 5}

\* What read() may return: so many bytes, 0 at the end, -1 on an error.
ReadLengths ==
  IF conn \in {"refused", "reset"} THEN {-1}
  ELSE IF unread = <<>> THEN IF conn = "closed" THEN {0} ELSE {}
  ELSE {n \in DOMAIN unread : unread[1].of \in whole => FirstPacket \subseteq 1 .. n}

\* Mutant: the reply to the registration is peeked at and left unread.
ReadPeekingAtTheLast(n) ==
  unread' = IF n > 0 /\ pc # "register" THEN SubSeq(unread, n + 1, Len(unread))
            ELSE unread

Read(n) == unread' = IF n > 0 THEN SubSeq(unread, n + 1, Len(unread)) ELSE unread

Exit(code) ==
  /\ pc' = "exited"
  /\ status' = code
  /\ UNCHANGED <<masterVars, salt>>

\* Mutant: the request is put together but not written.
NotWritten(request) == requests' = requests

\* Mutant: the command is that of the stage entered, which for the last is none.
CommandOfStage(request) == requests' = Append(requests, pc')

Written(request) ==
  requests' = IF conn = "open" THEN Append(requests, request) ELSE requests

\* Nobody looks at what write() returns.  Once the connection is gone it may
\* be lost, or kill the program.
Write(request, next) ==
  /\ UNCHANGED <<conn, accepted, unread, salt>>
  /\ \/ pc' = next /\ Written(request) /\ UNCHANGED status
     \/ conn # "open" /\ pc' = "exited" /\ status' = 141 /\ UNCHANGED requests

GoOn(next) ==
  /\ pc' = next
  /\ UNCHANGED <<masterVars, status>>

\* pkt->header.  If fewer bytes were read it is the request's own fifth byte,
\* 0x08 of the login's capabilities or COM_REGISTER_SLAVE.
Fifth(n) == IF n >= 5 THEN unread[5].byte ELSE "xx"

WholeSalt(n) == "greeting" \in accepted /\ n >= SaltEnd

\* handshake_with_server: what was read is taken for a greeting, and whole.
\* What was not read is whatever the stack holds, and if that is taken for the
\* length of the salt it may make memcpy run wild.
ReadGreeting ==
  /\ pc = "greeting"
  /\ \E n \in ReadLengths :
       /\ Read(n)
       /\ \/ n = -1 /\ Exit(1)
          \/ n = 0 /\ Exit(2)
          \/ n > 0 /\ ~WholeSalt(n) /\ Exit(139)
          \/ n > 0 /\ salt' = WholeSalt(n) /\ GoOn("sendLogin")

\* Mutant: only the end of the connection, not an error packet, is an error.
LoginOkUnlessSwitch(n) == n > 0 /\ Fifth(n) # "FE"

\* Mutant: more than the eleven bytes of a plain OK packet are expected.
LoginOkIfLonger(n) == Fifth(n) = "00" /\ n > 11

LoginOk(n) == Fifth(n) = "00"

\* response_handshake_to_server.
SendLogin == pc = "sendLogin" /\ Write("login", "login")

ReadLoginReply ==
  /\ pc = "login"
  /\ \E n \in ReadLengths :
       /\ Read(n)
       /\ \/ n = -1 /\ Exit(1)
          \/ n # -1 /\ ~LoginOk(n) /\ Exit(2)
          \/ LoginOk(n) /\ GoOn("sendRegister") /\ UNCHANGED salt

\* register_as_slave; checksum_binlog, which comes first, returns at once.
SendRegister == pc = "sendRegister" /\ Write("register", "register")

\* Mutant: -1 and 0xFE, but not 0x00, are taken for an error.
RegisterOkOnEof(n) == Fifth(n) \in {"00", "FE"} \/ n = 0

RegisterOk(n) == Fifth(n) = "00"

\* A read that fails is not noticed.
ReadRegisterReply ==
  /\ pc = "register"
  /\ \E n \in ReadLengths :
       /\ Read(n)
       /\ \/ ~RegisterOk(n) /\ Exit(3)
          \/ RegisterOk(n) /\ GoOn("sendDump") /\ UNCHANGED salt

\* send_binlog_dump_request.
SendDump == pc = "sendDump" /\ Write("dump", "stream")

\* The binlog loop reads on, see Slave; or the program is gone.
Over == pc \in {"stream", "exited"} /\ UNCHANGED vars
-----------------------------------------------------------------------------
Client ==
  /\ \/ Connect
     \/ ReadGreeting \/ SendLogin
     \/ ReadLoginReply \/ SendRegister
     \/ ReadRegisterReply \/ SendDump
  /\ UNCHANGED whole

Answer ==
  /\ Greet \/ AnswerLogin \/ AnswerRegister \/ AnswerDump
  /\ UNCHANGED whole

HangUp == (Close \/ Reset) /\ UNCHANGED whole

Next == Client \/ Answer \/ HangUp \/ Over

Spec == Init /\ [][Next]_vars

\* One thread, which nothing but read() makes wait.
FairSpec == Spec /\ WF_vars(Client)
-----------------------------------------------------------------------------
(* Properties *)

\* Every variable holds a value of its kind.
TypeOK ==
  /\ whole \subseteq Replies
  /\ conn \in {"none", "open", "refused", "closed", "reset", "dead"}
  /\ requests \in Seq(Exchanges)
  /\ accepted \subseteq Exchanges
  /\ unread \in Seq([of : Exchanges, at : Nat, byte : Classes])
  /\ salt \in BOOLEAN
  /\ pc \in {"connect", "greeting", "sendLogin", "login", "sendRegister",
            "register", "sendDump", "stream", "exited"}
  /\ status \in {0, 1, 2, 3, 139, 141}

LoggedIn == pc \in {"sendRegister", "register", "sendDump", "stream"}
Registered == pc \in {"sendDump", "stream"}

\* The program registers as a slave only after the master accepted the login:
\* the comment at connect.c:174, "make soure we login success".
LoginNeedsOk == LoggedIn => "login" \in accepted

\* It does if no part of the greeting can be taken for the answer.
LoginNeedsOkAfterWholeGreeting == "greeting" \in whole => LoginNeedsOk

\* The program asks for the binlog only after the master accepted it as a
\* slave: the comment at query.c:171, "expect a OK packet here".
RegisterNeedsOk == Registered => "register" \in accepted

\* It does if the replies before that come in one piece each; a part of the
\* reply to the registration is enough.
RegisterNeedsOkAfterWholeLogin == {"greeting", "login"} \subseteq whole => RegisterNeedsOk

\* The binlog loop starts at the first byte of the dump, with nothing left or
\* to come of an earlier reply.
StreamStartsAtTheDump ==
  pc = "stream" => Replies \subseteq accepted /\ unread = <<>>

\* It does if the greeting and the answer to the login come in one piece each,
\* the reply to the registration being what one read() returns
\* (docs/internal.md:9-10).
StreamStartsAtTheDumpAfterWholeLogin ==
  {"greeting", "login"} \subseteq whole => StreamStartsAtTheDump

\* It does if every reply comes in one piece.
StreamStartsAtTheDumpIfWhole == whole = Replies => StreamStartsAtTheDump

\* Who runs the program can tell from its status how far it came if replies
\* come whole: 2 before the login was accepted or because of an error packet
\* in the dump, 3 after the login and, the connection not being reset, before
\* the registration was (connect.c:185, query.c:177, binlog.c:367).
StatusTellsTheStage ==
  whole = Replies =>
    /\ status = 2 => "login" \notin accepted \/ "dump" \in accepted
    /\ status = 3 => "login" \in accepted
    /\ status = 3 /\ "register" \in accepted => conn = "reset"

Arrived == pc \in {"stream", "exited"}

\* The program is in read() for a reply of which no byte has come, on a
\* connection that is up.
WaitsForReply == pc \in Replies /\ conn = "open" /\ unread = <<>>

\* The program gets to the binlog loop or ends, unless from some time on it
\* waits for a master that says nothing: read() has no timeout (connect.c:200,
\* connect.c:175, query.c:172), but nothing else holds the program up.
WaitsOnlyForTheMaster == <>Arrived \/ <>[]WaitsForReply

\* If the master answers what it is asked, the program gets to the binlog loop
\* or ends, however the replies arrive: the two never wait for each other.
StreamsOrExits == WF_vars(Answer) => <>Arrived
=============================================================================
