---------------------------- MODULE ConfigProofs ----------------------------
(* Theorems about Config, for every file, every size of the buffer and every *)
(* command line.                                                             *)
EXTENDS Config, TLAPS

(***************************************************************************)
(* The buffer the file is read into.                                       *)
(***************************************************************************)

InputsTyped == file \in Files /\ argv \in Commands

\* Before each fread the buffer is as large as what is in it and BUFFER_SIZE
\* more.
ReadingInv ==
  /\ got \in 0 .. file.size
  /\ cursor \in Nat /\ capacity = cursor + BUFFER_SIZE
  /\ pc = "read" => cursor = got
  /\ pc \notin {"read", "crashed"} =>
       got = file.size /\ got < capacity
  /\ got <= capacity

LEMMA FileTyped ==
  ASSUME InputsTyped
  PROVE  /\ file.size \in Nat
         /\ file.exists \in BOOLEAN /\ file.json \in BOOLEAN
         /\ file.sections \in Seq(Section)
         /\ argv \in Seq(Argument)
         /\ \A i, j \in DOMAIN file.sections :
              /\ file.sections[i].name = file.sections[j].name => i = j
              /\ UniqueKeys(file.sections[i].entries)
BY ConfigAssumption DEF InputsTyped

LEMMA InputsStay ==
  ASSUME InputsTyped, [Next]_vars
  PROVE  InputsTyped' /\ UNCHANGED inputs
BY DEF InputsTyped, Next, vars, inputs, ReadFile, Parse, NextSection, ConfigMaster,
       ParseOption, ConnectMaster, Over

(***************************************************************************)
(* What a turn of the loop over the sections does.                         *)
(***************************************************************************)

LEMMA ConfigLogOutcome ==
  ASSUME NEW entries, ConfigLog(entries)
  PROVE  \/ Exit(2) /\ UNCHANGED log
         \/ fp' = TRUE /\ GoOn("sections")
BY DEF ConfigLog

\* The cases of a section that is there.
SectionRead(s) ==
  \/ s.name \in {"master", "log"} /\ ~s.object /\ Crash /\ UNCHANGED log
  \/ s.name = "master" /\ s.object /\ GoOn("master") /\ UNCHANGED log
  \/ s.name = "log" /\ s.object /\ ConfigLog(s.entries)
  \/ s.name \notin {"master", "log"} /\ GoOn("sections") /\ UNCHANGED log

LEMMA NextSectionOutcome ==
  ASSUME NextSection
  PROVE  \/ section > Len(file.sections) /\ LogInfo("options") /\ UNCHANGED <<parsing, log>>
         \/ /\ ~(section > Len(file.sections))
            /\ section' = section + 1 /\ key' = 1 /\ buffer' = <<>>
            /\ SectionRead(file.sections[section])
BY DEF NextSection, SectionRead

LEMMA SectionReadStatus ==
  ASSUME NEW s, SectionRead(s)
  PROVE  pc' \in {"crashed", "master", "exited", "sections"}
BY ConfigLogOutcome DEF SectionRead, Exit, Crash, GoOn

LEMMA ReadingInit ==
  ASSUME Init
  PROVE  InputsTyped /\ ReadingInv
<1>1. InputsTyped
  BY DEF Init, InputsTyped
<1>. QED
  BY <1>1, FileTyped, ConfigAssumption DEF Init, ReadingInv

LEMMA ReadingStep ==
  ASSUME InputsTyped, ReadingInv, [Next]_vars
  PROVE  ReadingInv'
<1>. USE FileTyped, ConfigAssumption
<1>1. CASE ReadFile
  <2>. UNCHANGED file
    BY <1>1 DEF ReadFile, inputs
  <2>1. CASE ~file.exists
    BY <1>1, <2>1 DEF ReadFile, ReadingInv, Crash, reading
  <2>2. CASE file.exists /\ file.size - got >= BUFFER_SIZE
    BY <1>1, <2>2 DEF ReadFile, ReadingInv, Grown
  <2>3. CASE file.exists /\ ~(file.size - got >= BUFFER_SIZE)
    BY <1>1, <2>3 DEF ReadFile, ReadingInv, GoOn
  <2>. QED
    BY <2>1, <2>2, <2>3
<1>2. CASE UNCHANGED <<file, reading>> /\ pc # "read" /\ (pc = "crashed" => pc' = "crashed")
                /\ pc' # "read"
  BY <1>2 DEF ReadingInv, reading
<1>3. CASE Parse \/ NextSection \/ ConfigMaster \/ ParseOption \/ ConnectMaster
  <2>1. UNCHANGED <<file, reading>>
    BY <1>3 DEF Parse, NextSection, ConfigMaster, ParseOption, ConnectMaster, inputs
  <2>2. pc \notin {"read", "crashed"}
    BY <1>3 DEF Parse, NextSection, ConfigMaster, ParseOption, ConnectMaster
  <2>3. pc' # "read"
    BY <1>3, NextSectionOutcome, SectionReadStatus DEF Parse, ConfigMaster, ParseOption, ConnectMaster,
                Exit, Crash, GoOn, LogInfo
  <2>. QED
    BY <1>2, <2>1, <2>2, <2>3
<1>4. CASE UNCHANGED vars
  BY <1>4 DEF vars, inputs, reading, ReadingInv
<1>. QED
  BY <1>1, <1>3, <1>4 DEF Next, Over

\* However long the file is, no fread writes past the buffer it is read into,
\* and what is parsed is the whole file with room behind it
\* (read_config.c:92-100).
THEOREM FileInBuffer == Spec => []FileFitsBuffer
<1>1. Init => InputsTyped /\ ReadingInv
  BY ReadingInit
<1>2. InputsTyped /\ ReadingInv /\ [Next]_vars => (InputsTyped /\ ReadingInv)'
  BY ReadingStep, InputsStay
<1>3. InputsTyped /\ ReadingInv => FileFitsBuffer
  BY FileTyped, ConfigAssumption DEF ReadingInv, FileFitsBuffer
<1>. QED
  BY <1>1, <1>2, <1>3, PTL DEF Spec

(***************************************************************************)
(* How it ends.                                                            *)
(***************************************************************************)

Running == pc \notin {"crashed", "exited"}

\* How far it came, and what was wrong if it stopped there.
PlaceInv ==
  /\ section \in Nat \ {0} /\ optind \in 0 .. Len(argv)
  /\ pc \in {"read", "parse", "sections", "master", "options", "connect",
             "handshake", "exited", "crashed"}
  /\ status \in {0, 1, 2, 5}
  /\ status # 0 => pc = "exited"
  /\ pc \notin {"read", "crashed"} => file.exists
  /\ pc = "exited" => (status = 5 <=> ~file.json)
  /\ pc \in {"read", "parse"} => section = 1 /\ ~fp
  /\ pc \notin {"read", "parse"} /\ Running => file.json

\* The log is open once its section was read, and before it has no level.
LogInv ==
  /\ fp \in BOOLEAN /\ (fp = FALSE => level = 0)
  /\ Running => (fp <=> \E i \in DOMAIN file.sections :
                          i < section /\ file.sections[i].name = "log")
  /\ pc \in {"options", "connect", "handshake"} => fp /\ section > Len(file.sections)
  /\ Running => \A i \in DOMAIN file.sections :
       i < section /\ file.sections[i].name \in {"master", "log"} => file.sections[i].object

OptionsInv ==
  /\ Running => \A i \in 1 .. optind : argv[i].opt \in DOMAIN KeyOf
  /\ pc \in {"connect", "handshake"} => optind = Len(argv)

\* Shorts as the numbers between its ends.
LEMMA ShortsAre ==
  ASSUME NEW n
  PROVE  n \in Shorts <=> n \in Int /\ -32768 <= n /\ n <= 32767
<1>. DEFINE lo == -32768
            hi == 32767
<1>1. lo \in Int /\ hi \in Int
  OBVIOUS
<1>2. n \in lo .. hi <=> n \in Int /\ lo <= n /\ n <= hi
  <2>. HIDE DEF lo, hi
  <2>. QED
    BY <1>1
<1>. QED
  BY <1>2 DEF Shorts

PortInv ==
  /\ server = [k \in Keys |-> server[k]]
  /\ server.port = <<>> \/ \E n \in Shorts : server.port = <<n>>
  /\ pc = "handshake" => sin.port # <<0>>

CauseInv ==
  /\ pc = "crashed" => ~file.exists \/ ~HasLog \/ ~AllObjects \/ NoHost
  /\ status = 2 => ~fp \/ server.host = <<>> \/ server.port \in {<<>>, <<0>>}
  /\ status = 1 => fp /\ ~({argv[i].opt : i \in DOMAIN argv} \subseteq DOMAIN KeyOf)

\* The entry config_master looks at is one of the section named master.
CursorInv ==
  /\ key \in Nat \ {0}
  /\ pc = "master" => /\ section - 1 \in DOMAIN file.sections
                      /\ file.sections[section - 1].name = "master"

EndInv == PlaceInv /\ CursorInv /\ LogInv /\ OptionsInv /\ PortInv /\ CauseInv

LEMMA ShortIsShort ==
  ASSUME NEW n \in Int
  PROVE  Short(n) \in Shorts
<1>. DEFINE r == (n + 32768) % 65536
<1>1. r \in Int /\ 0 <= r /\ r < 65536
  <2>1. \A a \in Int : a % 65536 \in Int
    BY SMT
  <2>2. \A a \in Int : 0 <= a % 65536
    BY SMT
  <2>3. \A a \in Int : a % 65536 < 65536
    BY SMT
  <2>. QED
    BY <2>1, <2>2, <2>3, SMT
<1>2. Short(n) = r - 32768
  BY DEF Short
<1>. HIDE DEF r
<1>. QED
  BY <1>1, <1>2, ShortsAre, SMT

LEMMA EndInit == ASSUME Init PROVE EndInv
<1>1. InputsTyped
  BY ReadingInit
<1>2. PlaceInv
  BY <1>1, FileTyped DEF Init, PlaceInv
<1>7. CursorInv
  BY DEF Init, CursorInv
<1>3. LogInv
  <2>1. \A i \in DOMAIN file.sections : ~(i < section)
    BY <1>1, FileTyped DEF Init
  <2>. QED
    BY <2>1 DEF Init, LogInv, Running
<1>4. OptionsInv
  BY DEF Init, OptionsInv
<1>5. PortInv
  BY DEF Init, PortInv, Keys, PointerKeys
<1>6. CauseInv
  BY DEF Init, CauseInv
<1>. QED
  BY <1>2, <1>3, <1>4, <1>5, <1>6, <1>7 DEF EndInv

LEMMA EndReading ==
  ASSUME InputsTyped, EndInv, ReadFile \/ Parse
  PROVE  EndInv'
<1>. USE FileTyped
<1>1. UNCHANGED <<inputs, section, fp, level, server, optind, sin>> /\ pc \in {"read", "parse"}
  BY DEF ReadFile, Parse, parsing, log
<1>2. \/ pc' = "crashed" /\ ~file.exists /\ UNCHANGED status
      \/ pc' \in {"read", "parse"} /\ file.exists /\ UNCHANGED status
      \/ pc' = "sections" /\ file.exists /\ file.json /\ UNCHANGED status
      \/ pc' = "exited" /\ file.exists /\ ~file.json /\ status' = 5
  <2>1. CASE ReadFile
    BY <2>1 DEF ReadFile, Crash, GoOn, EndInv, PlaceInv
  <2>2. CASE Parse
    BY <2>2 DEF Parse, Exit, GoOn, EndInv, PlaceInv
  <2>. QED
    BY <2>1, <2>2
<1>3. PlaceInv'
  BY <1>1, <1>2 DEF EndInv, PlaceInv, inputs, Running
<1>4. LogInv'
  <2>1. Running /\ section = 1 /\ fp = FALSE
    BY <1>1 DEF EndInv, PlaceInv, LogInv, Running
  <2>2. \A i \in DOMAIN file.sections : ~(i < section)
    BY <2>1
  <2>. QED
    BY <1>1, <1>2, <2>1, <2>2 DEF EndInv, LogInv, Running, inputs
<1>5. OptionsInv'
  BY <1>1, <1>2 DEF EndInv, OptionsInv, Running, inputs
<1>6. PortInv'
  BY <1>1, <1>2 DEF EndInv, PortInv
<1>7. CauseInv'
  BY <1>1, <1>2 DEF EndInv, CauseInv, PlaceInv, HasLog, AllObjects, inputs
<1>8. CursorInv'
  <2>1. UNCHANGED key
    BY DEF ReadFile, Parse, parsing
  <2>. QED
    BY <1>2, <1>1, <2>1 DEF EndInv, CursorInv
<1>. QED
  BY <1>3, <1>4, <1>5, <1>6, <1>7, <1>8 DEF EndInv

LEMMA EndSections ==
  ASSUME InputsTyped, EndInv, NextSection
  PROVE  EndInv'
<1>. USE FileTyped
<1>1. /\ UNCHANGED <<inputs, server, optind, sin>> /\ pc = "sections"
      /\ status = 0 /\ file.exists /\ file.json /\ section \in Nat \ {0}
      /\ fp \in BOOLEAN /\ (fp = FALSE => level = 0)
      /\ (fp <=> \E i \in DOMAIN file.sections : i < section /\ file.sections[i].name = "log")
      /\ \A i \in DOMAIN file.sections :
           i < section /\ file.sections[i].name \in {"master", "log"} => file.sections[i].object
  BY DEF NextSection, EndInv, PlaceInv, LogInv, Running
<1>2. PortInv'
  <2>1. pc' # "handshake"
    BY NextSectionOutcome, SectionReadStatus DEF LogInfo, Crash, GoOn
  <2>. QED
    BY <1>1, <2>1 DEF EndInv, PortInv
<1>3. CASE section > Len(file.sections) /\ LogInfo("options") /\ UNCHANGED <<parsing, log>>
  <2>1. \A i \in DOMAIN file.sections : i < section
    BY <1>1, <1>3
  <2>2. UNCHANGED <<section, fp, level, status>>
    BY <1>3 DEF parsing, log, LogInfo, Crash, GoOn
  <2>3. \/ pc' = "crashed" /\ fp = FALSE
        \/ pc' = "options" /\ fp = TRUE
    BY <1>1, <1>3 DEF LogInfo, Crash, GoOn, LOG_INFO
  <2>4. PlaceInv'
    BY <1>1, <2>2, <2>3 DEF EndInv, PlaceInv, inputs, Running
  <2>5. LogInv'
    BY <1>1, <1>3, <2>2, <2>3 DEF LogInv, inputs, Running
  <2>6. OptionsInv'
    BY <1>1, <2>3 DEF EndInv, OptionsInv, Running, inputs
  <2>7. CauseInv'
    BY <1>1, <2>1, <2>2, <2>3 DEF CauseInv, HasLog, inputs
  <2>8. CursorInv'
    BY <1>3, <2>3 DEF EndInv, CursorInv, parsing
  <2>. QED
    BY <1>2, <2>4, <2>5, <2>6, <2>7, <2>8 DEF EndInv
<1>4. CASE /\ ~(section > Len(file.sections))
           /\ section' = section + 1 /\ key' = 1
           /\ SectionRead(file.sections[section])
  <2>. DEFINE s == file.sections[section]
  <2>1. section \in DOMAIN file.sections
    BY <1>1, <1>4
  <2>2. \A i \in DOMAIN file.sections : i < section' <=> i < section \/ i = section
    BY <1>1, <1>4
  <2>3. \/ s.name \in {"master", "log"} /\ ~s.object /\ pc' = "crashed" /\ UNCHANGED <<status, fp, level>>
        \/ s.name = "master" /\ s.object /\ pc' = "master" /\ UNCHANGED <<status, fp, level>>
        \/ s.name = "log" /\ s.object /\ pc' = "exited" /\ status' = 2 /\ UNCHANGED <<fp, level>>
        \/ s.name = "log" /\ s.object /\ fp' = TRUE /\ pc' = "sections" /\ UNCHANGED status
        \/ s.name \notin {"master", "log"} /\ pc' = "sections" /\ UNCHANGED <<status, fp, level>>
    BY <1>4, ConfigLogOutcome DEF SectionRead, Exit, Crash, GoOn, log
  <2>4. PlaceInv'
    BY <1>1, <1>4, <2>3 DEF EndInv, PlaceInv, inputs, Running
  <2>5. LogInv'
    <3>1. fp' \in BOOLEAN /\ (fp' = FALSE => level' = 0)
      BY <1>1, <2>3
    <3>2. Running' => (fp' <=> \E i \in DOMAIN file.sections :
                                 i < section' /\ file.sections[i].name = "log")
      <4>1. (\E i \in DOMAIN file.sections : i < section' /\ file.sections[i].name = "log")
              <=> fp \/ s.name = "log"
        BY <1>1, <2>1, <2>2
      <4>. QED
        BY <1>1, <2>3, <4>1 DEF Running
    <3>3. pc' \notin {"options", "connect", "handshake"}
      BY <2>3, <1>1
    <3>4. Running' => \A i \in DOMAIN file.sections :
            i < section' /\ file.sections[i].name \in {"master", "log"} => file.sections[i].object
      BY <1>1, <2>2, <2>3 DEF Running
    <3>. QED
      BY <1>1, <3>1, <3>2, <3>3, <3>4 DEF LogInv, inputs
  <2>6. OptionsInv'
    BY <1>1, <2>3 DEF EndInv, OptionsInv, Running, inputs
  <2>7. CauseInv'
    <3>1. pc' = "crashed" => ~AllObjects'
      BY <1>1, <2>1, <2>3 DEF AllObjects, inputs
    <3>2. status' = 2 => fp' = FALSE
      <4>1. s.name = "log" => \A i \in DOMAIN file.sections :
              i < section => file.sections[i].name # "log"
        BY <1>1, <2>1
      <4>. QED
        BY <1>1, <2>3, <4>1
    <3>3. status' # 1
      BY <1>1, <2>3
    <3>. QED
      BY <3>1, <3>2, <3>3 DEF CauseInv
  <2>8. CursorInv'
    <3>1. section' - 1 = section
      BY <1>1, <1>4
    <3>. QED
      BY <1>1, <1>4, <2>1, <2>3, <3>1 DEF CursorInv, inputs
  <2>. QED
    BY <1>2, <2>4, <2>5, <2>6, <2>7, <2>8 DEF EndInv
<1>. QED
  BY <1>3, <1>4, NextSectionOutcome

\* The settings stay a function over the keys, with a port that is a short.
LEMMA PortStays ==
  ASSUME PortInv, NEW k \in Keys, NEW v, server' = [server EXCEPT ![k] = v],
         k = "port" => v = <<>> \/ \E n \in Shorts : v = <<n>>
  PROVE  /\ server' = [x \in Keys |-> server'[x]]
         /\ server'.port = <<>> \/ \E n \in Shorts : server'.port = <<n>>
<1>1. DOMAIN server = Keys /\ "port" \in Keys
  BY DEF PortInv, Keys
<1>2. server' = [x \in Keys |-> IF x = k THEN v ELSE server[x]]
  BY <1>1
<1>. QED
  BY <1>1, <1>2 DEF PortInv

LEMMA EntriesTyped ==
  ASSUME InputsTyped, NEW i \in DOMAIN file.sections
  PROVE  /\ file.sections[i] \in Section
         /\ file.sections[i].entries \in Seq(Entry)
         /\ \A j \in DOMAIN file.sections[i].entries : file.sections[i].entries[j] \in Entry
<1>1. file.sections \in Seq(Section)
  BY FileTyped
<1>2. file.sections[i] \in Section
  BY <1>1
<1>3. file.sections[i].entries \in Seq(Entry)
  BY <1>2 DEF Section
<1>. QED
  BY <1>2, <1>3

LEMMA EndMaster ==
  ASSUME InputsTyped, EndInv, ConfigMaster
  PROVE  EndInv'
<1>. USE FileTyped
<1>1. /\ UNCHANGED <<inputs, section, fp, level, optind, sin, status>>
      /\ pc = "master" /\ pc' \in {"master", "sections"}
  BY DEF ConfigMaster, GoOn, parsing, log
<1>2. PlaceInv' /\ LogInv' /\ OptionsInv' /\ CauseInv'
  <2>1. PlaceInv'
    BY <1>1 DEF EndInv, PlaceInv, inputs, Running
  <2>2. LogInv'
    BY <1>1 DEF EndInv, LogInv, inputs, Running
  <2>3. OptionsInv'
    BY <1>1 DEF EndInv, OptionsInv, inputs, Running
  <2>4. CauseInv'
    BY <1>1 DEF EndInv, CauseInv, PlaceInv, HasLog, AllObjects, inputs
  <2>. QED
    BY <2>1, <2>2, <2>3, <2>4
<1>4. CursorInv'
  <2>1. key \in Nat \ {0} /\ (key' = key \/ key' = key + 1)
    BY DEF ConfigMaster, EndInv, CursorInv, parsing
  <2>2. key' \in Nat \ {0}
    BY <2>1
  <2>3. /\ section - 1 \in DOMAIN file.sections
        /\ file.sections[section - 1].name = "master"
    BY <1>1 DEF EndInv, CursorInv
  <2>4. UNCHANGED <<file, section>>
    BY <1>1 DEF inputs
  <2>. QED
    BY <2>2, <2>3, <2>4 DEF CursorInv
<1>3. PortInv'
  <2>. SUFFICES ASSUME server' # server PROVE PortInv'
    BY <1>1 DEF EndInv, PortInv
  <2>. DEFINE entries == file.sections[section - 1].entries
              k == entries[key].key
              v == entries[key].value
  <2>1. \/ k \in PointerKeys /\ server' = [server EXCEPT ![k] = buffer']
        \/ k = "port" /\ server' = [server EXCEPT ![k] = <<Short(v.int)>>]
        \/ k = "position" /\ server' = [server EXCEPT ![k] = <<v.int>>]
        \/ k = "debug" /\ server' = [server EXCEPT ![k] = <<Boolean(v)>>]
    BY DEF ConfigMaster
  <2>2. k = "port" => v.int \in Int
    <3>1. key \in DOMAIN entries
      <4>1. entries \in Seq(Entry)
        BY <1>1, EntriesTyped DEF EndInv, CursorInv
      <4>2. ~(key > Len(entries))
        BY DEF ConfigMaster
      <4>. QED
        BY <4>1, <4>2 DEF EndInv, CursorInv
    <3>. QED
      BY <1>1, <3>1, EntriesTyped DEF Entry, Value, EndInv, CursorInv
  <2>. QED
    BY <1>1, <2>1, <2>2, PortStays, ShortIsShort DEF EndInv, PortInv, Keys, PointerKeys
<1>. QED
  BY <1>2, <1>3, <1>4 DEF EndInv

LEMMA EndOptions ==
  ASSUME InputsTyped, EndInv, ParseOption
  PROVE  EndInv'
<1>. USE FileTyped
<1>1. UNCHANGED <<inputs, section, key, fp, level, sin>> /\ pc = "options" /\ fp = TRUE
  BY DEF ParseOption, parsing, log, EndInv, LogInv
<1>2. \/ pc' = "connect" /\ optind = Len(argv) /\ UNCHANGED <<status, server, optind>>
      \/ /\ optind # Len(argv) /\ optind' = optind + 1
         /\ LET o == argv[optind + 1]
            IN  \/ /\ o.opt \in DOMAIN KeyOf
                   /\ server' = [server EXCEPT ![KeyOf[o.opt]] = OptionValue(o)]
                   /\ UNCHANGED <<pc, status>>
                \/ /\ o.opt \notin DOMAIN KeyOf
                   /\ pc' = "exited" /\ status' = 1 /\ UNCHANGED server
  <2>1. CASE optind = Len(argv)
    BY <1>1, <2>1 DEF ParseOption, LogInfo, GoOn
  <2>2. CASE optind # Len(argv)
    BY <1>1, <2>2 DEF ParseOption, Exit
  <2>. QED
    BY <2>1, <2>2
<1>3. PlaceInv'
  BY <1>1, <1>2 DEF EndInv, PlaceInv, inputs, Running
<1>4. LogInv' /\ CursorInv'
  BY <1>1, <1>2 DEF EndInv, LogInv, CursorInv, inputs, Running
<1>5. OptionsInv'
  BY <1>1, <1>2 DEF EndInv, OptionsInv, PlaceInv, inputs, Running
<1>6. PortInv'
  <2>. SUFFICES ASSUME server' # server PROVE PortInv'
    BY <1>1, <1>2 DEF EndInv, PortInv
  <2>. DEFINE o == argv[optind + 1]
  <2>1. /\ o.opt \in DOMAIN KeyOf
        /\ server' = [server EXCEPT ![KeyOf[o.opt]] = OptionValue(o)]
        /\ pc' = "options"
        /\ optind + 1 \in DOMAIN argv
    BY <1>1, <1>2 DEF EndInv, PlaceInv
  <2>2. o.value.int \in Int
    <3>1. argv \in Seq(Argument)
      BY FileTyped
    <3>2. \A i \in DOMAIN argv : argv[i] \in Argument
      BY <3>1
    <3>3. argv[optind + 1] \in Argument
      BY <2>1, <3>2
    <3>. QED
      BY <3>3 DEF Argument, Value
  <2>3. KeyOf[o.opt] \in Keys /\ (KeyOf[o.opt] = "port" => o.opt = "P")
    BY <2>1 DEF KeyOf, Keys, PointerKeys
  <2>4. o.opt = "P" => OptionValue(o) = <<Short(o.value.int)>>
    BY DEF OptionValue
  <2>. HIDE DEF o
  <2>. QED
    BY <2>1, <2>2, <2>3, <2>4, PortStays, ShortIsShort DEF EndInv, PortInv
<1>7. CauseInv'
  BY <1>1, <1>2 DEF EndInv, CauseInv, PlaceInv, inputs, HasLog, AllObjects
<1>. QED
  BY <1>3, <1>4, <1>5, <1>6, <1>7 DEF EndInv

\* A port that is not 0 as a short is not 0 as it goes on the wire.
LEMMA PortNotLost ==
  ASSUME NEW n \in Shorts, n # 0
  PROVE  NetworkPort(<<n>>) # <<0>>
<1>1. n % 65536 # 0
  <2>1. n \in Int /\ -32768 <= n /\ n <= 32767
    BY ShortsAre, SMT
  <2>2. CASE 0 < n
    <3>1. n % 65536 = n
      BY <2>1, <2>2, SMT
    <3>. QED
      BY <2>2, <3>1
  <2>3. CASE n <= -1
    <3>1. n % 65536 = n + 65536
      BY <2>1, <2>3, SMT
    <3>. QED
      BY <2>1, <3>1, SMT
  <2>. QED
    BY <2>1, <2>2, <2>3, SMT
<1>2. NetworkPort(<<n>>)[1] = n % 65536
  BY DEF NetworkPort
<1>. QED
  BY <1>1, <1>2

LEMMA EndConnect ==
  ASSUME InputsTyped, EndInv, ConnectMaster
  PROVE  EndInv'
<1>. USE FileTyped
<1>1. /\ UNCHANGED <<inputs, section, key, fp, level, server, optind>>
      /\ pc = "connect" /\ fp = TRUE /\ status = 0
  BY DEF ConnectMaster, parsing, log, EndInv, LogInv, PlaceInv
<1>2. \/ /\ server.host = <<>> \/ server.port \in {<<>>, <<0>>}
         /\ pc' = "exited" /\ status' = 2
      \/ server.host = <<>> /\ pc' = "crashed" /\ UNCHANGED status
      \/ /\ server.port # <<0>> /\ sin'.port = NetworkPort(server.port)
         /\ pc' = "handshake" /\ UNCHANGED status
  BY DEF ConnectMaster, Exit, Crash, GoOn
<1>3. PlaceInv'
  BY <1>1, <1>2 DEF EndInv, PlaceInv, inputs, Running
<1>4. LogInv' /\ CursorInv' /\ OptionsInv'
  BY <1>1, <1>2 DEF EndInv, LogInv, CursorInv, OptionsInv, inputs, Running
<1>5. PortInv'
  <2>1. server.port # <<0>> => NetworkPort(server.port) # <<0>>
    <3>1. CASE server.port = <<>>
      <4>1. DOMAIN NetworkPort(<<>>) = {}
        BY DEF NetworkPort
      <4>2. DOMAIN <<0>> = {1}
        OBVIOUS
      <4>. QED
        BY <3>1, <4>1, <4>2
    <3>2. CASE \E n \in Shorts : server.port = <<n>>
      BY <3>2, PortNotLost
    <3>. QED
      BY <3>1, <3>2 DEF EndInv, PortInv
  <2>. QED
    BY <1>1, <1>2, <2>1 DEF EndInv, PortInv
<1>6. CauseInv'
  <2>1. section > Len(file.sections) /\ optind = Len(argv)
    BY <1>1 DEF EndInv, LogInv, OptionsInv
  <2>2. pc' = "crashed" => NoHost'
    BY <1>1, <1>2, <2>1 DEF NoHost, inputs
  <2>. QED
    BY <1>1, <1>2, <2>2 DEF EndInv, CauseInv, PlaceInv, inputs, HasLog, AllObjects
<1>. QED
  BY <1>3, <1>4, <1>5, <1>6 DEF EndInv

LEMMA EndStep ==
  ASSUME InputsTyped, EndInv, [Next]_vars
  PROVE  EndInv'
<1>1. CASE UNCHANGED vars
  BY <1>1 DEF vars, inputs, reading, parsing, log, EndInv, PlaceInv, CursorInv, LogInv,
              OptionsInv, PortInv, CauseInv, Running, HasLog, AllObjects, NoHost
<1>. QED
  BY <1>1, EndReading, EndSections, EndMaster, EndOptions, EndConnect DEF Next, Over

LEMMA EndIsTold == InputsTyped /\ EndInv => EndTellsTheCause
<1>. SUFFICES ASSUME InputsTyped, EndInv PROVE EndTellsTheCause
  OBVIOUS
<1>. USE FileTyped
<1>. DEFINE options == {argv[i].opt : i \in DOMAIN argv}
<1>1. pc = "crashed" => ~file.exists \/ ~HasLog \/ ~AllObjects \/ NoHost
  BY DEF EndInv, CauseInv
<1>2. status = 5 <=> pc = "exited" /\ file.exists /\ ~file.json
  BY DEF EndInv, PlaceInv
<1>3. /\ status = 2 => ~fp \/ server.host = <<>> \/ server.port \in {<<>>, <<0>>}
      /\ status = 1 => fp /\ ~(options \subseteq DOMAIN KeyOf)
  BY DEF EndInv, CauseInv
<1>4. ASSUME pc = "handshake"
      PROVE  fp /\ file.json /\ AllObjects /\ options \subseteq DOMAIN KeyOf
               /\ sin.port # <<0>>
  <2>1. AllObjects
    <3>1. \A i \in DOMAIN file.sections : i < section
      BY <1>4 DEF EndInv, LogInv, PlaceInv
    <3>. QED
      BY <1>4, <3>1 DEF EndInv, LogInv, Running, AllObjects
  <2>2. options \subseteq DOMAIN KeyOf
    BY <1>4 DEF EndInv, OptionsInv, Running
  <2>. QED
    BY <1>4, <2>1, <2>2 DEF EndInv, LogInv, PlaceInv, Running, PortInv
<1>. QED
  BY <1>1, <1>2, <1>3, <1>4 DEF EndTellsTheCause

\* The exit status, a crash and the start of the handshake each tell what the
\* file, the log and the options were like (read_config.c, log.c:53-66,
\* connect.c:223-253).
THEOREM CauseOfTheEnd == Spec => []EndTellsTheCause
<1>1. Init => InputsTyped /\ EndInv
  BY ReadingInit, EndInit
<1>2. InputsTyped /\ EndInv /\ [Next]_vars => (InputsTyped /\ EndInv)'
  BY InputsStay, EndStep
<1>. QED
  BY <1>1, <1>2, EndIsTold, PTL DEF Spec

(***************************************************************************)
(* The settings.                                                           *)
(***************************************************************************)

EntriesIn(es, k) == {i \in DOMAIN es : es[i].key = k}
OptionsIn(args, k) ==
  {i \in DOMAIN args : args[i].opt \in DOMAIN KeyOf /\ KeyOf[args[i].opt] = k}

OptionMeant(k, v) == IF k = "debug" THEN <<TRUE>> ELSE Meant(k, v)

\* What the first n entries and the first m options give for key k.
SettingOf(k, setting, es, args, n, m) ==
  LET parsed == {i \in OptionsIn(args, k) : i <= m}
      taken == {i \in EntriesIn(es, k) : i <= n}
  IN  /\ \A i \in parsed : IsLast(i, parsed) =>
           Same(k, setting, OptionMeant(k, args[i].value))
      /\ parsed = {} => \A i \in taken :
           k \notin PointerKeys \/ es[i].value.type = "string" =>
             Same(k, setting, Meant(k, es[i].value))
      /\ parsed = {} /\ taken = {} => setting = <<>>

SettingsOf(srv, es, args, n, m) ==
  \A k \in Keys : SettingOf(k, srv[k], es, args, n, m)

SettingsTo(n, m) == SettingsOf(server, MasterEntries, argv, n, m)

PastMaster ==
  \E i \in DOMAIN file.sections : i < section /\ file.sections[i].name = "master"

\* How many of the entries of the section named master were looked at.
Taken ==
  IF pc = "master" THEN key - 1
  ELSE IF PastMaster THEN Len(MasterEntries) ELSE 0

SettingsInv ==
  /\ Running => SettingsTo(Taken, optind)
  /\ pc \in {"read", "parse", "sections", "master"} => optind = 0
  /\ pc = "master" => key <= Len(MasterEntries) + 1
  /\ pc \in {"options", "connect", "handshake"} =>
       \A i \in DOMAIN MasterEntries : i <= Taken

LEMMA MasterIs ==
  ASSUME InputsTyped, NEW m \in DOMAIN file.sections, file.sections[m].name = "master"
  PROVE  MasterEntries = file.sections[m].entries
<1>. DEFINE of == {i \in DOMAIN file.sections : file.sections[i].name = "master"}
<1>1. of = {m}
  BY FileTyped
<1>2. (CHOOSE i \in of : TRUE) = m
  BY <1>1
<1>. QED
  BY <1>1, <1>2 DEF MasterEntries

LEMMA MasterTyped ==
  ASSUME InputsTyped
  PROVE  MasterEntries \in Seq(Entry) /\ UniqueKeys(MasterEntries)
<1>1. CASE \E m \in DOMAIN file.sections : file.sections[m].name = "master"
  <2>. PICK m \in DOMAIN file.sections : file.sections[m].name = "master"
    BY <1>1
  <2>1. UniqueKeys(file.sections[m].entries)
    BY FileTyped
  <2>. QED
    BY <2>1, MasterIs, EntriesTyped
<1>2. CASE ~\E m \in DOMAIN file.sections : file.sections[m].name = "master"
  <2>1. MasterEntries = <<>>
    BY <1>2 DEF MasterEntries
  <2>. QED
    BY <2>1 DEF UniqueKeys
<1>. QED
  BY <1>1, <1>2

LEMMA SettingsInit == ASSUME Init PROVE SettingsInv
<1>. InputsTyped
  BY ReadingInit
<1>1. Taken = 0
  <2>1. ~PastMaster
    BY FileTyped DEF Init, PastMaster
  <2>. QED
    BY <2>1 DEF Init, Taken
<1>2. server = [k \in Keys |-> <<>>]
  BY DEF Init
<1>3. \A k \in Keys : /\ {i \in OptionsIn(argv, k) : i <= 0} = {}
                      /\ {i \in EntriesIn(MasterEntries, k) : i <= 0} = {}
  BY FileTyped, MasterTyped DEF OptionsIn, EntriesIn
<1>4. \A k \in Keys : SettingOf(k, <<>>, MasterEntries, argv, 0, 0)
  BY <1>3 DEF SettingOf
<1>5. SettingsTo(0, 0)
  BY <1>2, <1>4 DEF SettingsTo, SettingsOf
<1>. QED
  BY <1>1, <1>5 DEF Init, SettingsInv

\* A step that reads no entry and no option and writes no setting.
LEMMA SettingsStay ==
  ASSUME UNCHANGED <<inputs, server>>, NEW n, NEW m, SettingsTo(n, m)
  PROVE  SettingsTo(n, m)'
BY DEF SettingsTo, inputs, MasterEntries

LEMMA SettingsReading ==
  ASSUME InputsTyped, EndInv, SettingsInv, ReadFile \/ Parse
  PROVE  SettingsInv'
<1>1. /\ UNCHANGED <<inputs, section, server, optind>>
      /\ pc \in {"read", "parse"} /\ section = 1 /\ Running /\ optind = 0
      /\ pc' \in {"read", "parse", "sections", "crashed", "exited"}
  BY DEF ReadFile, Parse, parsing, EndInv, PlaceInv, SettingsInv, Running, Crash, GoOn, Exit
<1>2. ~PastMaster /\ ~PastMaster'
  BY <1>1, FileTyped DEF PastMaster, inputs
<1>3. Taken = 0 /\ Taken' = 0
  BY <1>1, <1>2 DEF Taken
<1>. QED
  BY <1>1, <1>3, SettingsStay DEF SettingsInv

LEMMA SettingsSections ==
  ASSUME InputsTyped, EndInv, SettingsInv, NextSection
  PROVE  SettingsInv'
<1>. USE FileTyped
<1>1. /\ UNCHANGED <<inputs, server, optind>> /\ pc = "sections" /\ Running
      /\ section \in Nat \ {0} /\ optind = 0
  BY DEF NextSection, SettingsInv, Running, EndInv, PlaceInv
<1>2. MasterEntries' = MasterEntries
  BY <1>1 DEF MasterEntries, inputs
<1>3. MasterEntries \in Seq(Entry)
  BY MasterTyped
<1>4. CASE section > Len(file.sections) /\ LogInfo("options") /\ UNCHANGED <<parsing, log>>
  <2>1. PastMaster' = PastMaster /\ pc' \in {"options", "crashed"}
    BY <1>1, <1>4 DEF PastMaster, inputs, parsing, LogInfo, Crash, GoOn
  <2>2. Taken' = Taken
    BY <1>1, <1>2, <2>1 DEF Taken
  <2>3. \A i \in DOMAIN MasterEntries : i <= Taken
    <3>1. CASE PastMaster
      BY <1>1, <1>3, <3>1 DEF Taken
    <3>2. CASE ~PastMaster
      <4>1. ~\E i \in DOMAIN file.sections : file.sections[i].name = "master"
        BY <1>1, <1>4, <3>2 DEF PastMaster
      <4>. QED
        BY <4>1 DEF MasterEntries
    <3>. QED
      BY <3>1, <3>2
  <2>4. SettingsTo(Taken, optind)'
    BY <1>1, <2>2, SettingsStay DEF SettingsInv
  <2>. QED
    BY <1>2, <2>1, <2>2, <2>3, <2>4 DEF SettingsInv
<1>5. CASE /\ ~(section > Len(file.sections))
           /\ section' = section + 1 /\ key' = 1
           /\ SectionRead(file.sections[section])
  <2>. DEFINE s == file.sections[section]
  <2>1. section \in DOMAIN file.sections
    BY <1>1, <1>5
  <2>2. PastMaster' <=> PastMaster \/ s.name = "master"
    BY <1>1, <1>5, <2>1 DEF PastMaster, inputs
  <2>3. s.name = "master" => ~PastMaster
    BY <1>1, <2>1 DEF PastMaster
  <2>4. /\ pc' \in {"crashed", "exited", "master", "sections"}
        /\ pc' = "master" => s.name = "master"
        /\ pc' = "sections" => s.name # "master"
    BY <1>5, ConfigLogOutcome DEF SectionRead, Exit, Crash, GoOn
  <2>5. pc' \in {"master", "sections"} => Taken' = Taken
    BY <1>1, <1>2, <1>5, <2>2, <2>3, <2>4 DEF Taken
  <2>6. pc' \in {"master", "sections"} => SettingsTo(Taken, optind)'
    BY <1>1, <2>5, SettingsStay DEF SettingsInv
  <2>. QED
    BY <1>1, <1>2, <1>3, <1>5, <2>4, <2>6 DEF SettingsInv, Running
<1>. QED
  BY <1>4, <1>5, NextSectionOutcome

LEMMA ShortIsSame ==
  ASSUME NEW n \in Int
  PROVE  (Short(n) - n) % 65536 = 0
<1>1. \A a \in Int : ((a % 65536) - a) % 65536 = 0
  OBVIOUS
<1>2. Short(n) - n = ((n + 32768) % 65536) - (n + 32768)
  BY DEF Short
<1>. QED
  BY <1>1, <1>2

\* What one entry or one option gives is the same as it means.
LEMMA EntryGiven ==
  ASSUME NEW k \in Keys, NEW v \in Value
  PROVE  /\ k \in PointerKeys => Same(k, <<v.text>>, Meant(k, v))
         /\ k = "port" => Same(k, <<Short(v.int)>>, Meant(k, v))
         /\ k = "position" => Same(k, <<v.int>>, Meant(k, v))
         /\ k = "debug" => Same(k, <<Boolean(v)>>, Meant(k, v))
<1>1. v.int \in Int
  BY DEF Value
<1>2. k = "port" => Same(k, <<Short(v.int)>>, Meant(k, v))
  BY <1>1, ShortIsSame DEF Same, Meant, PointerKeys
<1>3. k \in PointerKeys => Same(k, <<v.text>>, Meant(k, v))
  BY DEF Same, Meant, PointerKeys
<1>4. k = "position" => Same(k, <<v.int>>, Meant(k, v))
  BY DEF Same, Meant, PointerKeys
<1>5. k = "debug" => Same(k, <<Boolean(v)>>, Meant(k, v))
  BY DEF Same, Meant, PointerKeys
<1>. QED
  BY <1>2, <1>3, <1>4, <1>5

\* The next entry is taken: it is the first of its key, and no option was.
LEMMA EntryTaken ==
  ASSUME NEW es \in Seq(Entry), UniqueKeys(es), NEW args \in Seq(Argument),
         NEW n \in DOMAIN es, NEW srv, NEW srv1, SettingsOf(srv, es, args, n - 1, 0),
         \A x \in Keys : x # es[n].key => srv1[x] = srv[x],
         es[n].key \in Keys
           /\ (es[n].key \notin PointerKeys \/ es[n].value.type = "string") =>
             Same(es[n].key, srv1[es[n].key], Meant(es[n].key, es[n].value))
  PROVE  SettingsOf(srv1, es, args, n, 0)
<1>. SUFFICES ASSUME NEW k \in Keys PROVE SettingOf(k, srv1[k], es, args, n, 0)
  BY DEF SettingsOf
<1>1. {i \in OptionsIn(args, k) : i <= 0} = {}
  BY DEF OptionsIn
<1>2. SettingOf(k, srv[k], es, args, n - 1, 0)
  BY DEF SettingsOf
<1>3. CASE k = es[n].key
  <2>1. {i \in EntriesIn(es, k) : i <= n} = {n}
    BY <1>3 DEF EntriesIn, UniqueKeys
  <2>. QED
    BY <1>1, <1>3, <2>1 DEF SettingOf
<1>4. CASE k # es[n].key
  <2>1. {i \in EntriesIn(es, k) : i <= n} = {i \in EntriesIn(es, k) : i <= n - 1}
    BY <1>4 DEF EntriesIn
  <2>. QED
    BY <1>2, <1>4, <2>1 DEF SettingOf
<1>. QED
  BY <1>3, <1>4

LEMMA SettingsMaster ==
  ASSUME InputsTyped, EndInv, SettingsInv, ConfigMaster
  PROVE  SettingsInv'
<1>. DEFINE es == file.sections[section - 1].entries
<1>1. /\ UNCHANGED <<inputs, section, optind>> /\ pc = "master" /\ Running /\ optind = 0
      /\ section \in Nat /\ section - 1 \in DOMAIN file.sections
      /\ file.sections[section - 1].name = "master" /\ key \in Nat \ {0}
  BY DEF ConfigMaster, SettingsInv, Running, EndInv, CursorInv, PlaceInv, parsing
<1>2. /\ MasterEntries = es
      /\ MasterEntries \in Seq(Entry) /\ UniqueKeys(MasterEntries)
  BY <1>1, MasterIs, MasterTyped
<1>6. MasterEntries' = MasterEntries
  BY <1>1 DEF MasterEntries, inputs
<1>3. Taken = key - 1 /\ key <= Len(MasterEntries) + 1
  BY <1>1 DEF Taken, SettingsInv
<1>4. CASE key > Len(es)
  <2>1. pc' = "sections" /\ UNCHANGED <<parsing, server>>
    BY <1>4 DEF ConfigMaster, GoOn
  <2>2. PastMaster'
    BY <1>1, <2>1 DEF PastMaster, inputs
  <2>3. Taken' = Taken
    BY <1>1, <1>2, <1>6, <1>3, <1>4, <2>1, <2>2 DEF Taken
  <2>4. SettingsTo(Taken, optind)'
    BY <1>1, <2>1, <2>3, SettingsStay DEF SettingsInv
  <2>. QED
    BY <1>1, <2>1, <2>4 DEF SettingsInv
<1>5. CASE ~(key > Len(es))
  <2>. DEFINE k == es[key].key
              v == es[key].value
  <2>1. /\ key \in DOMAIN es /\ v \in Value
    <3>1. key \in DOMAIN es
      BY <1>1, <1>2, <1>5
    <3>2. es[key] \in Entry
      BY <1>1, <3>1, EntriesTyped
    <3>. QED
      BY <3>1, <3>2 DEF Entry
  <2>2. /\ key' = key + 1 /\ pc' = pc
        /\ v.type = "string" => buffer' = <<v.text>>
        /\ \/ k \in PointerKeys /\ server' = [server EXCEPT ![k] = buffer']
           \/ k = "port" /\ server' = [server EXCEPT ![k] = <<Short(v.int)>>]
           \/ k = "position" /\ server' = [server EXCEPT ![k] = <<v.int>>]
           \/ k = "debug" /\ server' = [server EXCEPT ![k] = <<Boolean(v)>>]
           \/ k \notin Keys /\ server' = server
    <3>1. /\ key' = key + 1 /\ pc' = pc /\ buffer' = BufferFor(v)
          /\ server' = CASE k \in PointerKeys -> [server EXCEPT ![k] = buffer']
                         [] k = "port" -> [server EXCEPT ![k] = <<Short(v.int)>>]
                         [] k = "position" -> [server EXCEPT ![k] = <<v.int>>]
                         [] k = "debug" -> [server EXCEPT ![k] = <<Boolean(v)>>]
                         [] OTHER -> server
      BY <1>5 DEF ConfigMaster
    <3>2. v.type = "string" => BufferFor(v) = <<v.text>>
      BY DEF BufferFor
    <3>. HIDE DEF k, v
    <3>. QED
      BY <3>1, <3>2 DEF Keys
  <2>10. pc' = "master" /\ key' = key + 1 /\ key \in Nat
    BY <1>1, <2>2
  <2>3. Taken' = key
    BY <2>10 DEF Taken
  <2>4. DOMAIN server = Keys
    BY DEF EndInv, PortInv
  <2>5. \A x \in Keys : x # k => server'[x] = server[x]
    BY <2>2, <2>4
  <2>6. k \in Keys /\ (k \notin PointerKeys \/ v.type = "string") =>
          Same(k, server'[k], Meant(k, v))
    <3>. HIDE DEF k, v
    <3>. QED
      BY <2>1, <2>2, <2>4, EntryGiven DEF Keys, PointerKeys
  <2>7. SettingsOf(server, MasterEntries, argv, key - 1, 0)
    BY <1>1, <1>3 DEF SettingsInv, SettingsTo
  <2>8. SettingsOf(server', MasterEntries, argv, key, 0)
    <3>1. argv \in Seq(Argument)
      BY FileTyped
    <3>. QED
      BY <1>2, <2>1, <2>5, <2>6, <2>7, <3>1, EntryTaken
  <2>9. SettingsTo(Taken, optind)'
    BY <1>1, <1>6, <2>3, <2>8 DEF SettingsTo, inputs
  <2>11. pc' = "master" => key' <= Len(MasterEntries') + 1
    <3>1. Len(es) \in Nat
      BY <1>2
    <3>2. key' <= Len(es) + 1
      BY <1>5, <2>10, <3>1
    <3>. QED
      BY <1>2, <1>6, <3>2
  <2>. QED
    BY <1>1, <2>2, <2>9, <2>11 DEF SettingsInv
<1>. QED
  BY <1>4, <1>5

\* The next option is taken: it is the last of its key now, whatever the file
\* and earlier options had for it.
LEMMA OptionTaken ==
  ASSUME NEW es, NEW args \in Seq(Argument), NEW n, NEW m \in DOMAIN args,
         args[m].opt \in DOMAIN KeyOf,
         NEW srv, NEW srv1, SettingsOf(srv, es, args, n, m - 1),
         \A x \in Keys : x # KeyOf[args[m].opt] => srv1[x] = srv[x],
         LET k == KeyOf[args[m].opt]
         IN  Same(k, srv1[k], OptionMeant(k, args[m].value))
  PROVE  SettingsOf(srv1, es, args, n, m)
<1>. SUFFICES ASSUME NEW x \in Keys PROVE SettingOf(x, srv1[x], es, args, n, m)
  BY DEF SettingsOf
<1>. DEFINE k == KeyOf[args[m].opt]
<1>. OptionsIn(args, x) \subseteq Nat /\ m \in Nat
  BY DEF OptionsIn
<1>1. CASE x = k
  <2>. DEFINE parsed == {i \in OptionsIn(args, x) : i <= m}
  <2>1. m \in parsed
    BY <1>1 DEF OptionsIn
  <2>2. \A i \in parsed : IsLast(i, parsed) => i = m
    BY <2>1 DEF IsLast
  <2>. QED
    BY <1>1, <2>1, <2>2 DEF SettingOf
<1>2. CASE x # k
  <2>1. {i \in OptionsIn(args, x) : i <= m} = {i \in OptionsIn(args, x) : i <= m - 1}
    BY <1>2 DEF OptionsIn
  <2>2. SettingOf(x, srv[x], es, args, n, m - 1)
    BY DEF SettingsOf
  <2>. QED
    BY <1>2, <2>1, <2>2 DEF SettingOf
<1>. QED
  BY <1>1, <1>2

LEMMA OptionGiven ==
  ASSUME NEW o \in Argument, o.opt \in DOMAIN KeyOf
  PROVE  LET k == KeyOf[o.opt]
         IN  /\ k \in Keys
             /\ Same(k, OptionValue(o),
                     OptionMeant(k, o.value))
<1>1. o.value \in Value
  BY DEF Argument
<1>2. /\ KeyOf[o.opt] \in PointerKeys \cup {"port", "debug"}
      /\ KeyOf[o.opt] = "port" <=> o.opt = "P"
      /\ KeyOf[o.opt] = "debug" <=> o.opt = "d"
  BY DEF KeyOf, PointerKeys
<1>3. CASE KeyOf[o.opt] = "port"
  <2>1. OptionValue(o) = <<Short(o.value.int)>>
    BY <1>2, <1>3 DEF OptionValue
  <2>. QED
    BY <1>1, <1>3, <2>1, EntryGiven DEF Keys, OptionMeant
<1>4. CASE KeyOf[o.opt] = "debug"
  <2>1. OptionValue(o) = <<TRUE>>
    BY <1>2, <1>4 DEF OptionValue
  <2>. QED
    BY <1>4, <2>1 DEF Same, Keys, OptionMeant
<1>5. CASE KeyOf[o.opt] \in PointerKeys
  <2>1. OptionValue(o) = <<o.value.text>> /\ KeyOf[o.opt] # "debug"
    BY <1>2, <1>5 DEF OptionValue, PointerKeys
  <2>. QED
    BY <1>1, <1>5, <2>1, EntryGiven DEF Keys, OptionMeant
<1>. QED
  BY <1>2, <1>3, <1>4, <1>5

LEMMA SettingsOptions ==
  ASSUME InputsTyped, EndInv, SettingsInv, ParseOption
  PROVE  SettingsInv'
<1>1. /\ UNCHANGED <<inputs, section, key>> /\ pc = "options" /\ Running
      /\ optind \in 0 .. Len(argv) /\ argv \in Seq(Argument)
  BY FileTyped DEF ParseOption, parsing, EndInv, PlaceInv, Running
<1>2. MasterEntries' = MasterEntries /\ PastMaster' = PastMaster
  BY <1>1 DEF MasterEntries, PastMaster, inputs
<1>3. pc' # "master" => Taken' = Taken
  BY <1>1, <1>2 DEF Taken
<1>4. SettingsTo(Taken, optind) /\ \A i \in DOMAIN MasterEntries : i <= Taken
  BY <1>1 DEF SettingsInv
<1>5. CASE optind = Len(argv)
  <2>1. pc' \in {"connect", "crashed"} /\ UNCHANGED <<server, optind>>
    BY <1>5 DEF ParseOption, LogInfo, GoOn, Crash
  <2>2. SettingsTo(Taken, optind)'
    BY <1>1, <1>3, <1>4, <2>1, SettingsStay
  <2>. QED
    BY <1>2, <1>3, <1>4, <2>1, <2>2 DEF SettingsInv
<1>6. CASE optind # Len(argv)
  <2>. DEFINE m == optind + 1
              o == argv[m]
              k == KeyOf[o.opt]
  <2>1. m \in DOMAIN argv /\ optind = m - 1 /\ o \in Argument
    BY <1>1, <1>6
  <2>2. /\ optind' = m
        /\ \/ /\ o.opt \in DOMAIN KeyOf /\ UNCHANGED pc
              /\ server' = [server EXCEPT ![k] = OptionValue(o)]
           \/ pc' = "exited"
    BY <1>6 DEF ParseOption, Exit
  <2>3. CASE pc' = "exited"
    BY <2>3 DEF SettingsInv, Running
  <2>4. CASE /\ o.opt \in DOMAIN KeyOf /\ UNCHANGED pc
             /\ server' = [server EXCEPT ![k] = OptionValue(o)]
    <3>1. DOMAIN server = Keys
      BY DEF EndInv, PortInv
    <3>2. /\ k \in Keys
          /\ Same(k, OptionValue(o), OptionMeant(k, o.value))
      BY <2>1, <2>4, OptionGiven
    <3>3. server'[k] = OptionValue(o) /\ \A x \in Keys : x # k => server'[x] = server[x]
      BY <2>4, <3>1, <3>2
    <3>4. SettingsOf(server, MasterEntries, argv, Taken, m - 1)
      BY <1>4, <2>1 DEF SettingsTo
    <3>5. SettingsOf(server', MasterEntries, argv, Taken, m)
      <4>1. Same(k, server'[k], OptionMeant(k, o.value))
        BY <3>2, <3>3
      <4>. HIDE DEF m
      <4>2. \A x \in Keys : x # k => server'[x] = server[x]
        BY <3>3
      <4>. QED
        BY <1>1, <2>1, <2>4, <3>2, <3>4, <4>1, <4>2, OptionTaken
    <3>6. SettingsTo(Taken, optind)'
      BY <1>1, <1>2, <1>3, <2>2, <2>4, <3>5 DEF SettingsTo, inputs
    <3>. QED
      BY <1>1, <1>2, <1>3, <1>4, <2>4, <3>6 DEF SettingsInv
  <2>. QED
    BY <2>2, <2>3, <2>4
<1>. QED
  BY <1>5, <1>6

LEMMA SettingsConnect ==
  ASSUME InputsTyped, EndInv, SettingsInv, ConnectMaster
  PROVE  SettingsInv'
<1>1. /\ UNCHANGED <<inputs, section, key, server, optind>> /\ pc = "connect" /\ Running
      /\ pc' \in {"exited", "crashed", "handshake"}
  BY DEF ConnectMaster, parsing, Running, Exit, Crash, GoOn
<1>2. MasterEntries' = MasterEntries /\ Taken' = Taken
  BY <1>1 DEF MasterEntries, PastMaster, Taken, inputs
<1>3. SettingsTo(Taken, optind)'
  BY <1>1, <1>2, SettingsStay DEF SettingsInv
<1>. QED
  BY <1>1, <1>2, <1>3 DEF SettingsInv

LEMMA SettingsStep ==
  ASSUME InputsTyped, EndInv, SettingsInv, [Next]_vars
  PROVE  SettingsInv'
<1>1. CASE UNCHANGED vars
  <2>1. UNCHANGED <<inputs, section, key, server, optind, pc>>
    BY <1>1 DEF vars, parsing
  <2>2. MasterEntries' = MasterEntries /\ Taken' = Taken
    BY <2>1 DEF MasterEntries, PastMaster, Taken, inputs
  <2>3. Running' => SettingsTo(Taken, optind)'
    BY <2>1, <2>2, SettingsStay DEF SettingsInv, Running
  <2>. QED
    BY <2>1, <2>2, <2>3 DEF SettingsInv
<1>. QED
  BY <1>1, SettingsReading, SettingsSections, SettingsMaster, SettingsOptions,
     SettingsConnect DEF Next, Over

LEMMA SettingsAreGiven == InputsTyped /\ EndInv /\ SettingsInv => SettingsAsGiven
<1>. SUFFICES ASSUME InputsTyped, EndInv, SettingsInv, Configured, NEW k \in Keys
              PROVE  /\ \A i \in OptionsFor(k) : IsLast(i, OptionsFor(k)) =>
                          Same(k, server[k], IF k = "debug" THEN <<TRUE>>
                                             ELSE Meant(k, argv[i].value))
                     /\ OptionsFor(k) = {} => \A i \in EntriesFor(k) :
                          k \notin PointerKeys \/ MasterEntries[i].value.type = "string" =>
                            Same(k, server[k], Meant(k, MasterEntries[i].value))
                     /\ OptionsFor(k) \cup EntriesFor(k) = {} => server[k] = <<>>
  BY DEF SettingsAsGiven
<1>1. pc \in {"connect", "handshake"} /\ Running
  BY DEF Configured, Running
<1>2. optind = Len(argv) /\ \A i \in DOMAIN MasterEntries : i <= Taken
  BY <1>1 DEF EndInv, OptionsInv, SettingsInv
<1>3. {i \in OptionsIn(argv, k) : i <= optind} = OptionsFor(k)
  BY <1>2, FileTyped DEF OptionsIn, OptionsFor
<1>4. {i \in EntriesIn(MasterEntries, k) : i <= Taken} = EntriesFor(k)
  BY <1>2 DEF EntriesIn, EntriesFor
<1>5. SettingOf(k, server[k], MasterEntries, argv, Taken, optind)
  BY <1>1 DEF SettingsInv, SettingsTo, SettingsOf
<1>. QED
  BY <1>3, <1>4, <1>5 DEF SettingOf, OptionMeant

\* Whatever the order of the keys and options and whatever the other ones hold,
\* each setting is what its last option says, else what its own key says, and
\* else was never written (read_config.c:34-82 and 144-175).
THEOREM SettingsAreTheOnesGiven == Spec => []SettingsAsGiven
<1>1. Init => InputsTyped /\ EndInv /\ SettingsInv
  BY ReadingInit, EndInit, SettingsInit
<1>2. InputsTyped /\ EndInv /\ SettingsInv /\ [Next]_vars
        => (InputsTyped /\ EndInv /\ SettingsInv)'
  BY InputsStay, EndStep, SettingsStep
<1>. QED
  BY <1>1, <1>2, SettingsAreGiven, PTL DEF Spec

(***************************************************************************)
(* Where it connects.                                                      *)
(***************************************************************************)

\* What goes to connect() is made of the settings as they are then.
AddressInv ==
  pc = "handshake" =>
    sin = [addr |-> Address(server.host), port |-> NetworkPort(server.port)]

LEMMA AddressStep ==
  ASSUME AddressInv, [Next]_vars
  PROVE  AddressInv'
<1>1. CASE ConnectMaster
  BY <1>1 DEF ConnectMaster, AddressInv, Exit, Crash, GoOn
<1>2. CASE UNCHANGED vars
  BY <1>2 DEF vars, AddressInv
<1>3. CASE ReadFile \/ Parse \/ ParseOption
  BY <1>3 DEF ReadFile, Parse, ParseOption, LogInfo, Exit, GoOn, Crash, AddressInv
<1>4. CASE NextSection
  BY <1>4, NextSectionOutcome, SectionReadStatus DEF LogInfo, GoOn, Crash, AddressInv
<1>5. CASE ConfigMaster
  BY <1>5 DEF ConfigMaster, GoOn, AddressInv
<1>. QED
  BY <1>1, <1>2, <1>3, <1>4, <1>5 DEF Next, Over

\* A port that is the same in 16 bits is the same on the wire.
LEMMA PortOnTheWire ==
  ASSUME NEW s \in Shorts, NEW n \in Ports, (s - n) % 65536 = 0
  PROVE  s % 65536 = n
<1>1. s \in Int /\ n \in Int /\ 0 <= n /\ n < 65536
  BY ShortsAre, SMT DEF Ports
<1>. QED
  BY <1>1, SMT

LEMMA ConnectsThere ==
  InputsTyped /\ EndInv /\ SettingsAsGiven /\ AddressInv => ConnectsWhereTold
<1>. SUFFICES ASSUME EndInv, SettingsAsGiven, AddressInv, pc = "handshake"
              PROVE  /\ \A i \in EntriesFor("host") :
                          OptionsFor("host") = {} /\ MasterEntries[i].value.type = "string"
                            => sin.addr = IF MasterEntries[i].value.text \in Dotted
                                          THEN <<MasterEntries[i].value.text>>
                                          ELSE <<"0.0.0.0">>
                     /\ \A i \in EntriesFor("port") :
                          OptionsFor("port") = {} /\ MasterEntries[i].value.int \in Ports
                            => sin.port = <<MasterEntries[i].value.int>>
  BY Zenon DEF ConnectsWhereTold
<1>1. \A k \in Keys : OptionsFor(k) = {} => \A i \in EntriesFor(k) :
        k \notin PointerKeys \/ MasterEntries[i].value.type = "string" =>
          Same(k, server[k], Meant(k, MasterEntries[i].value))
  BY DEF SettingsAsGiven, Configured
<1>2. ASSUME NEW i \in EntriesFor("host"), OptionsFor("host") = {},
             MasterEntries[i].value.type = "string"
      PROVE  sin.addr = IF MasterEntries[i].value.text \in Dotted
                        THEN <<MasterEntries[i].value.text>> ELSE <<"0.0.0.0">>
  <2>1. server.host = <<MasterEntries[i].value.text>>
    BY <1>1, <1>2 DEF Keys, PointerKeys, Same, Meant
  <2>. QED
    BY <1>2, <2>1 DEF AddressInv, Address
<1>3. ASSUME NEW i \in EntriesFor("port"), OptionsFor("port") = {},
             MasterEntries[i].value.int \in Ports
      PROVE  sin.port = <<MasterEntries[i].value.int>>
  <2>. DEFINE n == MasterEntries[i].value.int
  <2>1. Same("port", server.port, Meant("port", MasterEntries[i].value))
    BY <1>1, <1>3 DEF Keys, PointerKeys
  <2>2. Len(server.port) = 1 /\ (server.port[1] - n) % 65536 = 0
    <3>1. Meant("port", MasterEntries[i].value) = <<n>>
      BY DEF Meant, PointerKeys
    <3>. HIDE DEF n
    <3>. QED
      BY <2>1, <3>1 DEF Same
  <2>3. PICK s \in Shorts : server.port = <<s>>
    BY <2>2 DEF EndInv, PortInv
  <2>4. s % 65536 = n
    BY <1>3, <2>2, <2>3, PortOnTheWire
  <2>5. NetworkPort(<<s>>) = <<s % 65536>>
    BY DEF NetworkPort
  <2>. QED
    BY <2>3, <2>4, <2>5 DEF AddressInv
<1>. QED
  BY <1>2, <1>3

\* A host and a port of the file that no option replaces are those the program
\* connects to, the port whatever its sign as a short, and this machine for
\* a host that is no dotted address (connect.c:240-243).
THEOREM ConnectsToTheOneGiven == Spec => []ConnectsWhereTold
<1>1. Init => AddressInv
  BY DEF Init, AddressInv
<1>2. AddressInv /\ [Next]_vars => AddressInv'
  BY AddressStep
<1>3. Init => InputsTyped /\ EndInv
  BY ReadingInit, EndInit
<1>4. InputsTyped /\ EndInv /\ [Next]_vars => (InputsTyped /\ EndInv)'
  BY InputsStay, EndStep
<1>. QED
  BY <1>1, <1>2, <1>3, <1>4, ConnectsThere, SettingsAreTheOnesGiven, PTL DEF Spec

(***************************************************************************)
(* The buffer of config_master: it is what the last string left there, and *)
(* so is a setting that found no string of its own.                        *)
(***************************************************************************)

\* The last string of the first n entries, <<>> if there is none.
LastString(es, n, string) ==
  LET earlier == {j \in 1 .. n : es[j].value.type = "string"}
  IN  /\ earlier = {} => string = <<>>
      /\ \A j \in earlier : IsLast(j, earlier) => string = <<es[j].value.text>>

MistypedTo(srv, es, args, n, m) ==
  \A k \in PointerKeys : {i \in OptionsIn(args, k) : i <= m} = {} =>
    \A i \in EntriesIn(es, k) :
      i <= n /\ es[i].value.type # "string" => LastString(es, i - 1, srv[k])

BufferInv ==
  /\ pc = "master" => LastString(MasterEntries, key - 1, buffer)
  /\ Running => MistypedTo(server, MasterEntries, argv, Taken, optind)

\* Steps that read neither an entry nor an option.
LEMMA QuietStep ==
  ASSUME InputsTyped, EndInv, SettingsInv, Running',
         ReadFile \/ Parse \/ NextSection \/ ConnectMaster \/ UNCHANGED vars
  PROVE  /\ Running
         /\ UNCHANGED <<inputs, server, optind>>
         /\ MasterEntries' = MasterEntries /\ Taken' = Taken
         /\ pc' = "master" => \/ pc = "master" /\ UNCHANGED <<key, buffer>>
                              \/ key' = 1 /\ buffer' = <<>>
<1>. USE FileTyped
<1>1. CASE ReadFile \/ Parse
  <2>1. /\ UNCHANGED <<inputs, section, server, optind>>
        /\ pc \in {"read", "parse"} /\ section = 1 /\ pc' \in {"read", "parse", "sections"}
    BY <1>1 DEF ReadFile, Parse, parsing, EndInv, PlaceInv, Running, Crash, GoOn, Exit
  <2>2. ~PastMaster /\ ~PastMaster'
    BY <2>1 DEF PastMaster, inputs
  <2>. QED
    BY <2>1, <2>2 DEF Taken, MasterEntries, inputs, Running
<1>2. CASE NextSection
  <2>1. /\ UNCHANGED <<inputs, server, optind>> /\ pc = "sections" /\ section \in Nat \ {0}
    BY <1>2 DEF NextSection, EndInv, PlaceInv
  <2>2. MasterEntries' = MasterEntries
    BY <2>1 DEF MasterEntries, inputs
  <2>3. CASE section > Len(file.sections) /\ LogInfo("options") /\ UNCHANGED <<parsing, log>>
    <3>1. PastMaster' = PastMaster /\ pc' = "options"
      BY <2>1, <2>3 DEF PastMaster, inputs, parsing, LogInfo, Crash, GoOn, Running
    <3>. QED
      BY <2>1, <2>2, <3>1 DEF Taken, Running
  <2>4. CASE /\ ~(section > Len(file.sections))
             /\ section' = section + 1 /\ key' = 1 /\ buffer' = <<>>
             /\ SectionRead(file.sections[section])
    <3>. DEFINE s == file.sections[section]
    <3>1. section \in DOMAIN file.sections
      BY <2>1, <2>4
    <3>2. PastMaster' <=> PastMaster \/ s.name = "master"
      BY <2>1, <2>4, <3>1 DEF PastMaster, inputs
    <3>3. s.name = "master" => ~PastMaster
      BY <2>1, <3>1 DEF PastMaster
    <3>4. /\ pc' \in {"master", "sections"}
          /\ pc' = "master" => s.name = "master"
          /\ pc' = "sections" => s.name # "master"
      BY <2>4, ConfigLogOutcome DEF SectionRead, Exit, Crash, GoOn, Running
    <3>5. Taken' = Taken
      BY <2>1, <2>2, <2>4, <3>2, <3>3, <3>4 DEF Taken
    <3>. QED
      BY <2>1, <2>2, <2>4, <3>5 DEF Running
  <2>. QED
    BY <1>2, <2>3, <2>4, NextSectionOutcome
<1>3. CASE ConnectMaster
  <2>1. /\ UNCHANGED <<inputs, section, key, server, optind>> /\ pc = "connect"
        /\ pc' \in {"exited", "crashed", "handshake"}
    BY <1>3 DEF ConnectMaster, parsing, Exit, Crash, GoOn
  <2>. QED
    BY <2>1 DEF MasterEntries, PastMaster, Taken, inputs, Running
<1>4. CASE UNCHANGED vars
  BY <1>4 DEF vars, parsing, MasterEntries, PastMaster, Taken, inputs, Running
<1>. QED
  BY <1>1, <1>2, <1>3, <1>4

LEMMA BufferQuiet ==
  ASSUME InputsTyped, EndInv, SettingsInv, BufferInv,
         ReadFile \/ Parse \/ NextSection \/ ConnectMaster \/ UNCHANGED vars
  PROVE  BufferInv'
<1>. SUFFICES ASSUME Running' PROVE BufferInv'
  BY DEF BufferInv, Running
<1>1. MistypedTo(server, MasterEntries, argv, Taken, optind)'
  BY QuietStep DEF BufferInv, inputs
<1>2. LastString(MasterEntries, 0, <<>>)
  BY DEF LastString
<1>3. pc' = "master" => LastString(MasterEntries, key - 1, buffer)'
  BY <1>2, QuietStep DEF BufferInv
<1>. QED
  BY <1>1, <1>3 DEF BufferInv

\* One entry more: a string is the last one, anything else leaves it.
LEMMA StringTaken ==
  ASSUME NEW es, NEW n \in Nat \ {0}, NEW string, LastString(es, n - 1, string)
  PROVE  LastString(es, n, IF es[n].value.type = "string" THEN <<es[n].value.text>>
                           ELSE string)
<1>. DEFINE before == {j \in 1 .. n - 1 : es[j].value.type = "string"}
            earlier == {j \in 1 .. n : es[j].value.type = "string"}
<1>1. CASE es[n].value.type = "string"
  <2>1. n \in earlier
    BY <1>1
  <2>2. \A j \in earlier : IsLast(j, earlier) => j = n
    BY <2>1 DEF IsLast
  <2>. QED
    BY <1>1, <2>1, <2>2 DEF LastString
<1>2. CASE es[n].value.type # "string"
  <2>1. earlier = before
    BY <1>2
  <2>. QED
    BY <1>2, <2>1 DEF LastString
<1>. QED
  BY <1>1, <1>2

LEMMA BufferMaster ==
  ASSUME InputsTyped, EndInv, SettingsInv, BufferInv, ConfigMaster
  PROVE  BufferInv'
<1>. DEFINE es == file.sections[section - 1].entries
<1>1. /\ UNCHANGED <<inputs, section, optind>> /\ pc = "master" /\ Running
      /\ section \in Nat /\ section - 1 \in DOMAIN file.sections
      /\ file.sections[section - 1].name = "master" /\ key \in Nat \ {0}
  BY DEF ConfigMaster, Running, EndInv, CursorInv, PlaceInv, parsing
<1>2. MasterEntries = es /\ MasterEntries' = es /\ es \in Seq(Entry) /\ UniqueKeys(es)
  BY <1>1, MasterIs, MasterTyped DEF MasterEntries, inputs
<1>3. Taken = key - 1 /\ key <= Len(es) + 1
  BY <1>1, <1>2 DEF Taken, SettingsInv
<1>4. /\ LastString(es, key - 1, buffer)
      /\ MistypedTo(server, es, argv, key - 1, optind)
  BY <1>1, <1>2, <1>3 DEF BufferInv
<1>5. CASE key > Len(es)
  <2>1. pc' = "sections" /\ UNCHANGED <<parsing, server>>
    BY <1>5 DEF ConfigMaster, GoOn
  <2>2. PastMaster'
    BY <1>1, <2>1 DEF PastMaster, inputs
  <2>3. Taken' = key - 1
    BY <1>1, <1>2, <1>3, <1>5, <2>1, <2>2 DEF Taken
  <2>. QED
    BY <1>1, <1>2, <1>4, <2>1, <2>3 DEF BufferInv, inputs
<1>6. CASE ~(key > Len(es))
  <2>. DEFINE k == es[key].key
              v == es[key].value
  <2>1. key \in DOMAIN es
    BY <1>1, <1>2, <1>6
  <2>2. /\ key' = key + 1 /\ pc' = "master" /\ buffer' = BufferFor(v)
        /\ k \in PointerKeys => server' = [server EXCEPT ![k] = BufferFor(v)]
        /\ \/ \E setting : server' = [server EXCEPT ![k] = setting]
           \/ server' = server
    <3>1. /\ key' = key + 1 /\ pc' = pc /\ buffer' = BufferFor(v)
          /\ server' = CASE k \in PointerKeys -> [server EXCEPT ![k] = buffer']
                         [] k = "port" -> [server EXCEPT ![k] = <<Short(v.int)>>]
                         [] k = "position" -> [server EXCEPT ![k] = <<v.int>>]
                         [] k = "debug" -> [server EXCEPT ![k] = <<Boolean(v)>>]
                         [] OTHER -> server
      BY <1>6 DEF ConfigMaster
    <3>2. pc' = "master"
      BY <1>1, <3>1
    <3>. HIDE DEF k, v
    <3>3. k \in PointerKeys => k \notin {"port", "position", "debug"}
      BY DEF PointerKeys
    <3>. QED
      BY <3>1, <3>2, <3>3
  <2>3. Taken' = key
    BY <1>1, <2>2 DEF Taken
  <2>4. LastString(es, key, BufferFor(v))
    BY <1>1, <1>4, StringTaken DEF BufferFor
  <2>5. /\ k \in PointerKeys => server'[k] = BufferFor(v)
        /\ \A x \in Keys : x # k => server'[x] = server[x]
    <3>1. DOMAIN server = Keys
      BY DEF EndInv, PortInv
    <3>2. PointerKeys \subseteq Keys
      BY DEF Keys
    <3>. HIDE DEF k, v
    <3>. QED
      BY <2>2, <3>1, <3>2
  <2>6. MistypedTo(server', es, argv, key, optind)
    <3>. SUFFICES ASSUME NEW x \in PointerKeys,
                         {i \in OptionsIn(argv, x) : i <= optind} = {},
                         NEW i \in EntriesIn(es, x), i <= key,
                         es[i].value.type # "string"
                  PROVE  LastString(es, i - 1, server'[x])
      BY DEF MistypedTo
    <3>1. i \in DOMAIN es /\ i \in Nat /\ es[i].key = x
      BY <1>2 DEF EntriesIn
    <3>2. CASE i = key
      <4>1. server'[x] = buffer
        BY <2>5, <3>1, <3>2 DEF BufferFor
      <4>. QED
        BY <1>4, <3>2, <4>1
    <3>3. CASE i # key
      <4>1. x # k
        BY <1>2, <2>1, <3>1, <3>3 DEF UniqueKeys
      <4>2. server'[x] = server[x]
        BY <2>5, <4>1 DEF Keys
      <4>3. i <= key - 1
        BY <1>1, <3>1, <3>3
      <4>. QED
        BY <1>4, <4>2, <4>3 DEF MistypedTo
    <3>. QED
      BY <3>2, <3>3
  <2>7. LastString(MasterEntries, key - 1, buffer)'
    <3>1. key' - 1 = key
      BY <1>1, <2>2
    <3>. HIDE DEF v
    <3>. QED
      BY <1>2, <2>2, <2>4, <3>1
  <2>8. MistypedTo(server, MasterEntries, argv, Taken, optind)'
    BY <1>1, <1>2, <2>3, <2>6 DEF inputs
  <2>. QED
    BY <2>7, <2>8 DEF BufferInv
<1>. QED
  BY <1>5, <1>6

LEMMA BufferOptions ==
  ASSUME InputsTyped, EndInv, SettingsInv, BufferInv, ParseOption
  PROVE  BufferInv'
<1>1. /\ UNCHANGED <<inputs, section, key>> /\ pc = "options" /\ Running
      /\ optind \in 0 .. Len(argv) /\ argv \in Seq(Argument)
  BY FileTyped DEF ParseOption, parsing, EndInv, PlaceInv, Running
<1>2. pc' # "master"
  BY <1>1 DEF ParseOption, LogInfo, Exit, GoOn, Crash
<1>3. MasterEntries' = MasterEntries /\ Taken' = Taken
  BY <1>1, <1>2 DEF MasterEntries, PastMaster, Taken, inputs
<1>4. MistypedTo(server, MasterEntries, argv, Taken, optind)
  BY <1>1 DEF BufferInv
<1>5. CASE optind = Len(argv)
  BY <1>1, <1>2, <1>3, <1>4, <1>5 DEF ParseOption, BufferInv, inputs
<1>6. CASE optind # Len(argv)
  <2>. DEFINE m == optind + 1
              o == argv[m]
  <2>. SUFFICES ASSUME Running' PROVE BufferInv'
    BY <1>2 DEF BufferInv, Running
  <2>1. /\ optind' = m /\ o.opt \in DOMAIN KeyOf
        /\ server' = [server EXCEPT ![KeyOf[o.opt]] = OptionValue(o)]
    BY <1>6 DEF ParseOption, Exit, Running
  <2>2. m \in DOMAIN argv
    BY <1>1, <1>6
  <2>3. MistypedTo(server', MasterEntries, argv, Taken, m)
    <3>. SUFFICES ASSUME NEW x \in PointerKeys,
                         {i \in OptionsIn(argv, x) : i <= m} = {},
                         NEW i \in EntriesIn(MasterEntries, x), i <= Taken,
                         MasterEntries[i].value.type # "string"
                  PROVE  LastString(MasterEntries, i - 1, server'[x])
      BY DEF MistypedTo
    <3>1. x # KeyOf[o.opt]
      BY <1>1, <2>1, <2>2 DEF OptionsIn
    <3>2. server'[x] = server[x]
      <4>1. DOMAIN server = Keys /\ x \in Keys
        BY DEF EndInv, PortInv, Keys
      <4>. QED
        BY <2>1, <3>1, <4>1
    <3>3. {j \in OptionsIn(argv, x) : j <= optind} = {}
      BY <1>1 DEF OptionsIn
    <3>. QED
      BY <1>4, <3>2, <3>3 DEF MistypedTo
  <2>. QED
    BY <1>1, <1>2, <1>3, <2>1, <2>3 DEF BufferInv, inputs
<1>. QED
  BY <1>5, <1>6

LEMMA BufferInit == ASSUME Init PROVE BufferInv
<1>. InputsTyped
  BY ReadingInit
<1>1. Taken = 0 /\ pc # "master"
  <2>1. ~PastMaster
    BY FileTyped DEF Init, PastMaster
  <2>. QED
    BY <2>1 DEF Init, Taken
<1>2. \A k \in PointerKeys : \A i \in EntriesIn(MasterEntries, k) : ~(i <= 0)
  BY MasterTyped DEF EntriesIn
<1>. QED
  BY <1>1, <1>2 DEF BufferInv, MistypedTo

LEMMA MistypedIsEarlier ==
  InputsTyped /\ EndInv /\ SettingsInv /\ BufferInv => MistypedSettingIsAnEarlierOne
<1>. SUFFICES ASSUME InputsTyped, EndInv, SettingsInv, BufferInv, Configured,
                     NEW k \in PointerKeys, OptionsFor(k) = {}, NEW i \in EntriesFor(k),
                     MasterEntries[i].value.type # "string"
              PROVE  LastString(MasterEntries, i - 1, server[k])
  BY DEF MistypedSettingIsAnEarlierOne, LastString
<1>1. pc \in {"connect", "handshake"} /\ Running
  BY DEF Configured, Running
<1>2. optind = Len(argv) /\ \A j \in DOMAIN MasterEntries : j <= Taken
  BY <1>1 DEF EndInv, OptionsInv, SettingsInv
<1>3. {j \in OptionsIn(argv, k) : j <= optind} = {}
  BY <1>2 DEF OptionsIn, OptionsFor
<1>4. i \in EntriesIn(MasterEntries, k) /\ i <= Taken
  BY <1>2 DEF EntriesIn, EntriesFor
<1>. QED
  BY <1>1, <1>3, <1>4 DEF BufferInv, MistypedTo

\* A string setting whose value is no string is the last string before it, of
\* whatever key, for any file and any arguments (read_config.c:42-50).
THEOREM MistypedSettingsAreEarlierOnes == Spec => []MistypedSettingIsAnEarlierOne
<1>. DEFINE Inv == InputsTyped /\ EndInv /\ SettingsInv /\ BufferInv
<1>1. Init => Inv
  BY ReadingInit, EndInit, SettingsInit, BufferInit
<1>2. Inv /\ [Next]_vars => Inv'
  BY InputsStay, EndStep, SettingsStep, BufferQuiet, BufferMaster, BufferOptions
  DEF Next, Over
<1>3. Inv => MistypedSettingIsAnEarlierOne
  BY MistypedIsEarlier
<1>. QED
  BY <1>1, <1>2, <1>3, PTL DEF Spec

(***************************************************************************)
(* Types.  A setting is at most one value: the string of an entry or of an *)
(* option, or what was in the buffer, which is at most one string too.     *)
(***************************************************************************)

AtMostOne(setting) == setting = <<>> \/ \E v : setting = <<v>>

ValuesInv ==
  /\ AtMostOne(buffer)
  /\ \A k \in Keys : AtMostOne(server[k])
  /\ level \in Int

LEMMA AtMostOneStays ==
  ASSUME PortInv, \A k \in Keys : AtMostOne(server[k]), NEW k \in Keys, NEW v,
         AtMostOne(v), server' = [server EXCEPT ![k] = v]
  PROVE  \A x \in Keys : AtMostOne(server'[x])
<1>1. DOMAIN server = Keys
  BY DEF PortInv
<1>. QED
  BY <1>1

LEMMA LevelIsInt ==
  ASSUME NEW entries \in Seq(Entry), ConfigLog(entries), level \in Int
  PROVE  level' \in Int
<1>. DEFINE levels == {e \in {entries[i] : i \in DOMAIN entries} : e.key = "level"}
<1>1. \A e \in levels : e.value.int \in Int
  <2>1. \A i \in DOMAIN entries : entries[i] \in Entry
    OBVIOUS
  <2>2. \A e \in Entry : e.value.int \in Int
    BY DEF Entry, Value
  <2>. QED
    BY <2>1, <2>2
<1>2. \/ level' = level
      \/ level' = IF levels = {} THEN LOG_ERROR ELSE (CHOOSE e \in levels : TRUE).value.int
  BY DEF ConfigLog, log
<1>3. levels # {} => (CHOOSE e \in levels : TRUE) \in levels
  BY Zenon
<1>. HIDE DEF levels
<1>. QED
  BY <1>1, <1>2, <1>3 DEF LOG_ERROR

LEMMA ValuesInit == ASSUME Init PROVE ValuesInv
BY DEF Init, ValuesInv, AtMostOne

LEMMA ValuesSections ==
  ASSUME InputsTyped, EndInv, ValuesInv, NextSection
  PROVE  ValuesInv'
<1>1. UNCHANGED server
  BY DEF NextSection
<1>2. CASE UNCHANGED <<parsing, log>>
  BY <1>1, <1>2 DEF parsing, log, ValuesInv
<1>3. CASE /\ ~(section > Len(file.sections)) /\ buffer' = <<>>
           /\ SectionRead(file.sections[section])
  <2>1. section \in DOMAIN file.sections
    BY <1>3, FileTyped DEF EndInv, PlaceInv
  <2>2. file.sections[section].entries \in Seq(Entry)
    BY <2>1, EntriesTyped
  <2>3. level' \in Int
    <3>1. CASE UNCHANGED log
      BY <3>1 DEF log, ValuesInv
    <3>2. CASE ConfigLog(file.sections[section].entries)
      BY <2>2, <3>2, LevelIsInt DEF ValuesInv
    <3>. QED
      BY <1>3, <3>1, <3>2 DEF SectionRead
  <2>. QED
    BY <1>1, <1>3, <2>3 DEF ValuesInv, AtMostOne
<1>. QED
  BY <1>2, <1>3, NextSectionOutcome

LEMMA ValuesMaster ==
  ASSUME EndInv, ValuesInv, ConfigMaster
  PROVE  ValuesInv'
<1>. DEFINE entries == file.sections[section - 1].entries
            k == entries[key].key
            v == entries[key].value
<1>1. UNCHANGED level
  BY DEF ConfigMaster, log
<1>2. CASE UNCHANGED <<parsing, server>>
  BY <1>1, <1>2 DEF parsing, ValuesInv
<1>3. CASE /\ buffer' = BufferFor(v)
           /\ \/ \E w : AtMostOne(w) /\ k \in Keys /\ server' = [server EXCEPT ![k] = w]
              \/ server' = server
  <2>1. AtMostOne(buffer')
    BY <1>3 DEF BufferFor, ValuesInv, AtMostOne
  <2>2. \A x \in Keys : AtMostOne(server'[x])
    <3>1. CASE server' = server
      BY <3>1 DEF ValuesInv
    <3>2. ASSUME NEW w, AtMostOne(w), k \in Keys, server' = [server EXCEPT ![k] = w]
          PROVE  \A x \in Keys : AtMostOne(server'[x])
      <4>. HIDE DEF k
      <4>. QED
        BY <3>2, AtMostOneStays DEF EndInv, ValuesInv
    <3>. QED
      BY <1>3, <3>1, <3>2
  <2>. QED
    BY <1>1, <2>1, <2>2 DEF ValuesInv
<1>4. CASE ~(key > Len(entries))
  <2>1. buffer' = BufferFor(v) /\ AtMostOne(buffer')
    BY <1>4 DEF ConfigMaster, BufferFor, ValuesInv, AtMostOne
  <2>2. \/ k \in PointerKeys /\ server' = [server EXCEPT ![k] = buffer']
        \/ k = "port" /\ server' = [server EXCEPT ![k] = <<Short(v.int)>>]
        \/ k = "position" /\ server' = [server EXCEPT ![k] = <<v.int>>]
        \/ k = "debug" /\ server' = [server EXCEPT ![k] = <<Boolean(v)>>]
        \/ server' = server
    BY <1>4 DEF ConfigMaster
  <2>3. \A w : AtMostOne(<<w>>)
    BY DEF AtMostOne
  <2>4. PointerKeys \subseteq Keys /\ {"port", "position", "debug"} \subseteq Keys
    BY DEF Keys
  <2>. HIDE DEF k, v, entries
  <2>. QED
    BY <1>3, <2>1, <2>2, <2>3, <2>4
<1>. QED
  BY <1>2, <1>4 DEF ConfigMaster

LEMMA ValuesOptions ==
  ASSUME EndInv, ValuesInv, ParseOption
  PROVE  ValuesInv'
<1>. DEFINE o == argv[optind + 1]
<1>1. UNCHANGED <<buffer, level>>
  BY DEF ParseOption, parsing, log
<1>2. \/ UNCHANGED server
      \/ o.opt \in DOMAIN KeyOf /\ server' = [server EXCEPT ![KeyOf[o.opt]] = OptionValue(o)]
  BY DEF ParseOption
<1>3. \A w : AtMostOne(OptionValue(w))
  BY DEF OptionValue, AtMostOne
<1>4. o.opt \in DOMAIN KeyOf => KeyOf[o.opt] \in Keys
  BY DEF KeyOf, Keys, PointerKeys
<1>. HIDE DEF o
<1>5. \A k \in Keys : AtMostOne(server'[k])
  BY <1>2, <1>3, <1>4, AtMostOneStays DEF EndInv, ValuesInv
<1>. QED
  BY <1>1, <1>5 DEF ValuesInv

LEMMA ValuesStep ==
  ASSUME InputsTyped, EndInv, ValuesInv, [Next]_vars
  PROVE  ValuesInv'
<1>1. CASE UNCHANGED <<buffer, server, level>>
  BY <1>1 DEF ValuesInv
<1>2. CASE ReadFile \/ Parse \/ ConnectMaster \/ Over \/ UNCHANGED vars
  BY <1>1, <1>2 DEF ReadFile, Parse, ConnectMaster, Over, vars, parsing, log
<1>. QED
  BY <1>2, ValuesSections, ValuesMaster, ValuesOptions DEF Next

\* For any file and command line, no setting is more than one value, and the
\* port fits its short, whatever number the file or the option gives.
THEOREM TypeCorrect == Spec => []TypeOK
<1>. DEFINE Inv == InputsTyped /\ ReadingInv /\ EndInv /\ ValuesInv
<1>1. Init => Inv
  BY ReadingInit, EndInit, ValuesInit
<1>2. Inv /\ [Next]_vars => Inv'
  BY InputsStay, ReadingStep, EndStep, ValuesStep
<1>3. Inv => TypeOK
  <2>. SUFFICES ASSUME Inv PROVE TypeOK
    OBVIOUS
  <2>1. cursor \in Nat /\ capacity \in Nat /\ got \in Nat
    BY FileTyped, ConfigAssumption DEF ReadingInv
  <2>2. \A w : AtMostOne(w) => Len(w) <= 1
    BY DEF AtMostOne
  <2>3. server.port = <<>> \/ server.port[1] \in Shorts
    BY DEF EndInv, PortInv
  <2>4. Len(buffer) <= 1 /\ (\A k \in Keys : Len(server[k]) <= 1) /\ level \in Int
    BY <2>2 DEF ValuesInv
  <2>5. section \in Nat /\ key \in Nat /\ fp \in BOOLEAN
    BY DEF EndInv, PlaceInv, CursorInv, LogInv
  <2>6. /\ optind \in 0 .. Len(argv) /\ status \in {0, 1, 2, 5}
        /\ pc \in {"read", "parse", "sections", "master", "options", "connect",
                   "handshake", "exited", "crashed"}
    BY DEF EndInv, PlaceInv
  <2>. QED
    BY <2>1, <2>3, <2>4, <2>5, <2>6 DEF InputsTyped, TypeOK
<1>. QED
  BY <1>1, <1>2, <1>3, PTL DEF Spec
=============================================================================
