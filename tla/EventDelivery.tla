--------------------------- MODULE EventDelivery ---------------------------
(***************************************************************************)
(* What the binlog loop of fake-slave promises to the rest of the program: *)
(* the events the master writes to the connection are handed to            *)
(* parse_binlog_events in the order they were written, each once, none     *)
(* invented; and as long as the connection is up every event that is due   *)
(* is handed over in the end.  Bytes, packets and buffers do not appear    *)
(* here: BinlogStream implements this specification.                       *)
(***************************************************************************)
EXTENDS Naturals, Sequences

VARIABLES
  due,        \* how many of the events the master has written are due
  delivered,  \* numbers of the events handed over, oldest first
  up          \* FALSE once the connection failed or the program left the loop

deliveryVars == <<due, delivered, up>>

Init ==
  /\ due = 0
  /\ delivered = <<>>
  /\ up = TRUE

\* A packet may make an event due that was written before it.
Write ==
  /\ due' \in {due + 1, due + 2}
  /\ UNCHANGED <<delivered, up>>

Deliver ==
  /\ up
  /\ Len(delivered) < due
  /\ delivered' = Append(delivered, Len(delivered) + 1)
  /\ UNCHANGED <<due, up>>

Fail ==
  /\ up
  /\ up' = FALSE
  /\ UNCHANGED <<due, delivered>>

Next == Write \/ Deliver \/ Fail

SafeSpec == Init /\ [][Next]_deliveryVars

Spec == SafeSpec /\ WF_deliveryVars(Deliver)
=============================================================================
