--------------------------- MODULE MCBinlogStream ---------------------------
(* Model checking of BinlogStream: see README.md for the bounds of each run. *)
EXTENDS BinlogStream
=============================================================================
