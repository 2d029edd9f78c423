---------------------------- MODULE MCAm2302Sensor ----------------------------
(***************************************************************************)
(* Three calls; readings that are close, too warm and too humid for each   *)
(* other, and two of the library's error codes.                            *)
(***************************************************************************)
EXTENDS Am2302Sensor

CONSTANTS c1, c2, c3

MCReading == {<<-2, 50>>, <<3, 60>>, <<4, 50>>, <<-2, 61>>}

MCErrorCode == {-1, -2}  \* DHT_ERROR_TIMEOUT, DHT_ERROR_CHECKSUM
=============================================================================
