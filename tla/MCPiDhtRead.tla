----------------------------- MODULE MCPiDhtRead -----------------------------
(***************************************************************************)
(* Readings: 55.0 % and 20.2 degrees; below zero; a checksum of more than  *)
(* a byte before it is cut.  The counts stand for microseconds.            *)
(***************************************************************************)
EXTENDS PiDhtRead

MCReadings == {<<550, 202>>, <<1000, -15>>, <<767, 511>>}
=============================================================================
