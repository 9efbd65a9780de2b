------------------------------- MODULE Config -------------------------------
(***************************************************************************)
(* What main (client.c) does before it talks to the master: read_config    *)
(* and parse_command_pareters (read_config.c), the logger they open and    *)
(* write to (log.c), and the settings connect_master (connect.c) uses.     *)
(*                                                                         *)
(* json-c, getopt and the file system are external.  A JSON value is its   *)
(* type with what json-c gives for it as a string and as an int; the       *)
(* settings are sequences of at most one value, and <<>> is a variable of  *)
(* server_info that was never written and holds whatever the stack held.   *)
(***************************************************************************)
EXTENDS Integers, Sequences

CONSTANTS
  Files,       \* fake-slave.json: [exists, size, json, sections], the sections
               \* [name, object, entries], their entries [key, value]
  Commands,    \* arguments: sequences of [opt, value]
  BUFFER_SIZE, \* bytes read at once
  Unopenable,  \* paths the log cannot be written to
  Dotted       \* hosts inet_aton understands

PointerKeys == {"host", "user", "password", "database", "binlog"}
Keys == PointerKeys \cup {"port", "position", "debug"}

\* getopt's "dh:u:p:D:P:".
KeyOf == [d |-> "debug", h |-> "host", u |-> "user", p |-> "password",
          D |-> "database", P |-> "port"]

\* json-c's type of a value, and what it gives for it as a string and an int.
Value == [type : STRING, text : STRING, int : Int]
Entry == [key : STRING, value : Value]
Argument == [opt : STRING, value : Value]
Section == [name : STRING, object : BOOLEAN, entries : Seq(Entry)]

UniqueKeys(entries) ==
  \A i, j \in DOMAIN entries : entries[i].key = entries[j].key => i = j

ASSUME ConfigAssumption ==
  /\ BUFFER_SIZE \in Nat \ {0}
  /\ Files \subseteq
       [exists : BOOLEAN, size : Nat, json : BOOLEAN, sections : Seq(Section)]
  /\ Commands \subseteq Seq(Argument)
  /\ \A f \in Files : \A i, j \in DOMAIN f.sections :
       /\ f.sections[i].name = f.sections[j].name => i = j
       /\ UniqueKeys(f.sections[i].entries)

LOG_INFO == 1
LOG_ERROR == 3

VARIABLES
  file, argv,   \* what the program is started with
  cursor, capacity,  \* of the buffer the file is read into
  got,          \* bytes read into it
  section, key, \* of the JSON: how far the two loops over it came
  buffer,       \* config_master's: the last string
  server,       \* server_info.master
  fp, level,    \* the log: whether it is open, and log_level
  optind,       \* how many arguments were looked at
  sin,          \* the address and port connected to, <<>> where they may be any
  pc,           \* the function main is in: "read", "parse", "sections", "master",
                \* "options", "connect", "handshake"; "exited", "crashed"
  status        \* exit status

inputs == <<file, argv>>
reading == <<cursor, capacity, got>>
parsing == <<section, key, buffer>>
log == <<fp, level>>
vars == <<inputs, reading, parsing, server, log, optind, sin, pc, status>>

Init ==
  /\ file \in Files
  /\ argv \in Commands
  /\ cursor = 0 /\ capacity = BUFFER_SIZE /\ got = 0
  /\ section = 1 /\ key = 1
  /\ buffer = <<>>
  /\ server = [k \in Keys |-> <<>>]
  /\ fp = FALSE /\ level = 0
  /\ optind = 0
  /\ sin = [addr |-> <<>>, port |-> <<>>]
  /\ pc = "read"
  /\ status = 0

Exit(code) == pc' = "exited" /\ status' = code

Crash == pc' = "crashed" /\ UNCHANGED status

GoOn(next) == pc' = next /\ UNCHANGED status

\* Mutant: a log that was never opened is not written to.
LogInfoIfOpen(next) == GoOn(next)

\* logger(LOG_INFO, ...), then on: vfprintf to a log that is not open.
LogInfo(next) == IF LOG_INFO >= level /\ ~fp THEN Crash ELSE GoOn(next)
-----------------------------------------------------------------------------
(* read_config *)

\* Mutant: the buffer grows to the size that was read.
GrownToCursor(cur) == cur

Grown(cur) == cur + BUFFER_SIZE

\* One fread; of a file that is not there it is a fread from NULL.
ReadFile ==
  /\ pc = "read"
  /\ IF ~file.exists THEN Crash /\ UNCHANGED reading
     ELSE LET left == file.size - got
          IN  IF left >= BUFFER_SIZE
              THEN /\ got' = got + BUFFER_SIZE
                   /\ cursor' = cursor + BUFFER_SIZE
                   /\ capacity' = Grown(cursor')
                   /\ UNCHANGED <<pc, status>>
              ELSE /\ got' = got + left
                   /\ GoOn("parse")
                   /\ UNCHANGED <<cursor, capacity>>
  /\ UNCHANGED <<inputs, parsing, server, log, optind, sin>>

\* json_tokener_parse_verbose needs the text's end or a zero; a file that ends
\* before its object does is taken to go on with what is no JSON.
Parse ==
  /\ pc = "parse"
  /\ IF file.json THEN GoOn("sections") ELSE Exit(5)
  /\ UNCHANGED <<inputs, reading, parsing, server, log, optind, sin>>

\* config_log.  json_object_get_string gives NULL for null only.
ConfigLog(entries) ==
  LET of(k) == {e \in {entries[i] : i \in DOMAIN entries} : e.key = k}
      names == {e.value.text : e \in {x \in of("file") : x.value.type # "null"}}
  IN  IF names = {} \/ names \subseteq Unopenable
      THEN Exit(2) /\ UNCHANGED log
      ELSE /\ fp' = TRUE
           /\ level' = IF of("level") = {} THEN LOG_ERROR
                       ELSE (CHOOSE e \in of("level") : TRUE).value.int
           /\ GoOn("sections")

\* One turn of the loop over the sections.  A section that is not an object
\* has no entries to loop over, not even none.
NextSection ==
  /\ pc = "sections"
  /\ IF section > Len(file.sections)
     THEN LogInfo("options") /\ UNCHANGED <<parsing, log>>
     ELSE LET s == file.sections[section]
          IN  /\ section' = section + 1
              /\ key' = 1
              /\ buffer' = <<>>
              /\ CASE s.name \in {"master", "log"} /\ ~s.object -> Crash /\ UNCHANGED log
                   [] s.name = "master" /\ s.object -> GoOn("master") /\ UNCHANGED log
                   [] s.name = "log" /\ s.object -> ConfigLog(s.entries)
                   [] OTHER -> GoOn("sections") /\ UNCHANGED log
  /\ UNCHANGED <<inputs, reading, server, optind, sin>>

Shorts == -32768 .. 32767

\* Mutant: the port is kept in an int.
NotShortened(n) == n

Short(n) == ((n + 32768) % 65536) - 32768

\* json_object_get_boolean.
Boolean(v) == IF v.type = "string" THEN v.text # "" ELSE v.int # 0

\* Mutant: only one copy is made, of the first string.
BufferKeptFor(v) == IF v.type = "string" /\ buffer = <<>> THEN <<v.text>> ELSE buffer

\* A copy of the value if it is a string, and else that of an earlier key.
BufferFor(v) == IF v.type = "string" THEN <<v.text>> ELSE buffer

\* One turn of config_master's loop, for any key.
ConfigMaster ==
  /\ pc = "master"
  /\ LET entries == file.sections[section - 1].entries
     IN  IF key > Len(entries)
         THEN GoOn("sections") /\ UNCHANGED <<parsing, server>>
         ELSE LET k == entries[key].key
                  v == entries[key].value
              IN  /\ key' = key + 1
                  /\ buffer' = BufferFor(v)
                  /\ server' = CASE k \in PointerKeys -> [server EXCEPT ![k] = buffer']
                                 [] k = "port" -> [server EXCEPT ![k] = <<Short(v.int)>>]
                                 [] k = "position" -> [server EXCEPT ![k] = <<v.int>>]
                                 [] k = "debug" -> [server EXCEPT ![k] = <<Boolean(v)>>]
                                 [] OTHER -> server
                  /\ UNCHANGED <<section, pc, status>>
  /\ UNCHANGED <<inputs, reading, log, optind, sin>>
-----------------------------------------------------------------------------
(* parse_command_pareters and connect_master *)

OptionValue(o) ==
  CASE o.opt = "d" -> <<TRUE>>
    [] o.opt = "P" -> <<Short(o.value.int)>>
    [] OTHER -> <<o.value.text>>

\* One turn of the loop over the arguments.
ParseOption ==
  /\ pc = "options"
  /\ IF optind = Len(argv)
     THEN LogInfo("connect") /\ UNCHANGED <<server, optind>>
     ELSE LET o == argv[optind + 1]
          IN  /\ optind' = optind + 1
              /\ IF o.opt \in DOMAIN KeyOf
                 THEN server' = [server EXCEPT ![KeyOf[o.opt]] = OptionValue(o)]
                      /\ UNCHANGED <<pc, status>>
                 ELSE Exit(1) /\ UNCHANGED server
  /\ UNCHANGED <<inputs, reading, parsing, log, sin>>

\* A host that inet_aton does not understand leaves the address zero, which is
\* this machine; one that was never set points anywhere.
Address(host) == [i \in DOMAIN host |-> IF host[i] \in Dotted THEN host[i] ELSE "0.0.0.0"]

\* Mutant: the sign of the short is not lost in htons.
NetworkPortSigned(port) == port

\* htons takes the short for 16 bits without a sign.
NetworkPort(port) == [i \in DOMAIN port |-> port[i] % 65536]

\* A setting that was never written may be zero or not, and a host that was not
\* is a pointer inet_aton may not be able to read from.
ConnectMaster ==
  /\ pc = "connect"
  /\ \/ /\ server.host = <<>> \/ server.port \in {<<>>, <<0>>}
        /\ Exit(2)
        /\ UNCHANGED sin
     \/ /\ server.host = <<>> /\ server.port # <<0>>
        /\ Crash
        /\ UNCHANGED sin
     \/ /\ server.port # <<0>>
        /\ sin' = [addr |-> Address(server.host), port |-> NetworkPort(server.port)]
        /\ GoOn("handshake")
  /\ UNCHANGED <<inputs, reading, parsing, server, log, optind>>

\* Session goes on from the handshake; or the program is gone.
Over == pc \in {"handshake", "exited", "crashed"} /\ UNCHANGED vars

Next ==
  \/ ReadFile \/ Parse \/ NextSection \/ ConfigMaster
  \/ ParseOption \/ ConnectMaster
  \/ Over

Spec == Init /\ [][Next]_vars
-----------------------------------------------------------------------------
(* Properties *)

\* Every variable holds a value of its kind, the settings one that fits the
\* struct (client.h:18-27).
TypeOK ==
  /\ file \in Files /\ argv \in Commands
  /\ cursor \in Nat /\ capacity \in Nat /\ got \in Nat
  /\ section \in Nat /\ key \in Nat /\ optind \in 0 .. Len(argv)
  /\ Len(buffer) <= 1
  /\ \A k \in Keys : Len(server[k]) <= 1
  /\ server.port = <<>> \/ server.port[1] \in Shorts
  /\ fp \in BOOLEAN /\ level \in Int
  /\ pc \in {"read", "parse", "sections", "master", "options", "connect",
             "handshake", "exited", "crashed"}
  /\ status \in {0, 1, 2, 5}

\* However long fake-slave.json is, no fread writes past the buffer, the text
\* is in it whole when it is parsed, and there is room behind it for the zero
\* that is never written (read_config.c:92-100).
FileFitsBuffer ==
  /\ got <= capacity
  /\ pc \notin {"read", "crashed"} => got = file.size /\ got < capacity

MasterEntries ==
  LET of == {i \in DOMAIN file.sections : file.sections[i].name = "master"}
  IN  IF of = {} THEN <<>> ELSE file.sections[CHOOSE i \in of : TRUE].entries

EntriesFor(k) == {i \in DOMAIN MasterEntries : MasterEntries[i].key = k}

OptionsFor(k) == {i \in DOMAIN argv : argv[i].opt \in DOMAIN KeyOf /\ KeyOf[argv[i].opt] = k}

IsLast(i, indices) == i \in indices /\ \A j \in indices : j <= i

Configured == pc \in {"connect", "handshake"}

Meant(k, v) ==
  CASE k \in PointerKeys -> <<v.text>>
    [] k = "debug" -> <<Boolean(v)>>
    [] OTHER -> <<v.int>>

Same(k, setting, meant) ==
  IF k = "port" THEN Len(setting) = 1 /\ (setting[1] - meant[1]) % 65536 = 0
  ELSE setting = meant

\* A setting is what its own option says, the last one if it is repeated, else
\* what its own key in the file says, whatever the order of the keys and of the
\* options and whatever the others hold; and a key that is not given leaves its
\* setting unwritten ("override configure file", client.c:12).
SettingsAsGiven ==
  Configured => \A k \in Keys :
    /\ \A i \in OptionsFor(k) :
         IsLast(i, OptionsFor(k)) =>
           Same(k, server[k], IF k = "debug" THEN <<TRUE>> ELSE Meant(k, argv[i].value))
    /\ OptionsFor(k) = {} => \A i \in EntriesFor(k) :
         k \notin PointerKeys \/ MasterEntries[i].value.type = "string" =>
           Same(k, server[k], Meant(k, MasterEntries[i].value))
    /\ OptionsFor(k) \cup EntriesFor(k) = {} => server[k] = <<>>

\* A string setting whose value in the file is not a string is the value of the
\* nearest key before it that is one, be it of another setting or of none, and
\* is unwritten if there is none (read_config.c:42-50).
MistypedSettingIsAnEarlierOne ==
  Configured => \A k \in PointerKeys : OptionsFor(k) = {} => \A i \in EntriesFor(k) :
    LET earlier == {j \in 1 .. i - 1 : MasterEntries[j].value.type = "string"}
    IN  MasterEntries[i].value.type # "string" =>
          /\ earlier = {} => server[k] = <<>>
          /\ \A j \in earlier :
               IsLast(j, earlier) => server[k] = <<MasterEntries[j].value.text>>

\* The ports there are.
Ports == 0 .. 65535

\* The program connects to the host and port it was given, a port above 32767
\* too, though it is negative while it is a short; for a host that inet_aton
\* does not understand, whose result nobody looks at, it connects to this
\* machine all the same (connect.c:240-243).
ConnectsWhereTold ==
  pc = "handshake" =>
    /\ \A i \in EntriesFor("host") :
         OptionsFor("host") = {} /\ MasterEntries[i].value.type = "string"
           => LET host == MasterEntries[i].value.text
              IN  sin.addr = IF host \in Dotted THEN <<host>> ELSE <<"0.0.0.0">>
    /\ \A i \in EntriesFor("port") :
         OptionsFor("port") = {} /\ MasterEntries[i].value.int \in Ports
           => sin.port = <<MasterEntries[i].value.int>>

HasLog == \E i \in DOMAIN file.sections : file.sections[i].name = "log"
AllObjects ==
  \A i \in DOMAIN file.sections :
    file.sections[i].name \in {"master", "log"} => file.sections[i].object

\* All of the file and of the options was taken, and there was no host.
NoHost ==
  section > Len(file.sections) /\ optind = Len(argv) /\ server.host = <<>>

\* How it ends tells what was wrong: it is killed if there is no file, no log
\* section (the first line logged has nowhere to go), a section that is not an
\* object, or no string and no option that could be the host (inet_aton is
\* given whatever the stack held); 5 is a bad file, 2 the log file, the host or
\* the port, 1 an option; and it goes on to the handshake only if none of the
\* first three, and no bad file, port or option, is the case.
EndTellsTheCause ==
  LET options == {argv[i].opt : i \in DOMAIN argv}
  IN  /\ pc = "crashed" => ~file.exists \/ ~HasLog \/ ~AllObjects \/ NoHost
      /\ status = 5 <=> pc = "exited" /\ file.exists /\ ~file.json
      /\ status = 2 => ~fp \/ server.host = <<>> \/ server.port \in {<<>>, <<0>>}
      /\ status = 1 => fp /\ ~(options \subseteq DOMAIN KeyOf)
      /\ pc = "handshake" =>
           fp /\ file.json /\ AllObjects /\ options \subseteq DOMAIN KeyOf
             /\ sin.port # <<0>>
=============================================================================
