------------------------------ MODULE MCSlave ------------------------------
(* The packets of MCSession, and the loop's bounds from the configuration. *)
EXTENDS Slave, MCSession

\* A size that is negative as a signed number, and two that the buffer holds.
MCWrongSizes == {-100, 0, 20}
=============================================================================
