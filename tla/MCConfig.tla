------------------------------ MODULE MCConfig ------------------------------
(* Files and arguments for model checking Config: two settings and another   *)
(* key in every order, with values of the right and the wrong type.          *)
EXTENDS Config

Text(t) == [type |-> "string", text |-> t, int |-> 0]
Numeral(t, n) == [type |-> "string", text |-> t, int |-> n]
Number(n) == [type |-> "int", text |-> "number", int |-> n]
Null == [type |-> "null", text |-> "", int |-> 0]

Entries(k, values) == {[key |-> k, value |-> v] : v \in values}

SomeEntries ==
  Entries("host", {Text("10.0.0.1"), Text("db"), Number(5), Null})
    \cup Entries("port", {Number(3306), Number(40000), Number(65536), Numeral("3306", 3306)})
    \cup Entries("user", {Text("root"), Number(7)})
    \cup Entries("position", {Number(4)})
    \cup Entries("debug", {Number(1), Text("")})
    \cup Entries("comment", {Text("note")})

MasterSections ==
  {[name |-> "master", object |-> TRUE, entries |-> e] :
     e \in {<<>>} \cup {<<x>> : x \in SomeEntries}
             \cup {t \in SomeEntries \X SomeEntries : UniqueKeys(t)}
             \cup {t \in SomeEntries \X SomeEntries \X SomeEntries : UniqueKeys(t)}}

LogSection(entries) == [name |-> "log", object |-> TRUE, entries |-> entries]
LogTo(v) == LogSection(<<[key |-> "file", value |-> v]>>)
LoudLog == LogSection(<<[key |-> "level", value |-> Number(0)],
                        [key |-> "file", value |-> Text("slave.log")]>>)

File(size, sections) == [exists |-> TRUE, size |-> size, json |-> TRUE, sections |-> sections]

Broken(size) == [exists |-> TRUE, size |-> size, json |-> FALSE, sections |-> <<>>]

Plain == [name |-> "master", object |-> TRUE,
          entries |-> <<[key |-> "host", value |-> Text("10.0.0.1")],
                        [key |-> "port", value |-> Number(3306)]>>]
NoObject(name) == [name |-> name, object |-> FALSE, entries |-> <<>>]
Other == [name |-> "version", object |-> FALSE, entries |-> <<>>]

\* Of every length up to two buffers and one byte, in either order.
AllFiles ==
  {File(5, <<m, LoudLog>>) : m \in MasterSections}
    \cup {File(n, <<LogTo(Text("slave.log")), Other, Plain>>) : n \in 1 .. 5}
    \cup {File(3, s) : s \in {<<>>, <<Plain>>, <<Plain, LogTo(Text("/no"))>>,
                               <<LogTo(Null), Plain>>, <<LogSection(<<>>)>>,
                               <<NoObject("log"), Plain>>, <<LoudLog, NoObject("master")>>}}
    \cup {Broken(n) : n \in {0, 2, 5}}
    \cup {[Broken(0) EXCEPT !.exists = FALSE]}

Option(opt, v) == [opt |-> opt, value |-> v]

AllCommands ==
  {<<>>, <<Option("h", Text("10.0.0.2"))>>,
   <<Option("P", Numeral("3307", 3307)), Option("d", Null), Option("P", Numeral("0", 0))>>,
   <<Option("P", Numeral("33060", 33060)), Option("u", Text("me"))>>,
   <<Option("x", Null), Option("h", Text("10.0.0.2"))>>}
=============================================================================
