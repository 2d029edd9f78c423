------------------------------ MODULE MCLogFile ------------------------------
(***************************************************************************)
(* Three samples of one sensor and day and one error of the same sensor.   *)
(***************************************************************************)
EXTENDS LogFile, TLC

CONSTANTS s1, s2, s3, e1, sensorLog, errorLog

MCFileOf == s1 :> sensorLog @@ s2 :> sensorLog @@ s3 :> sensorLog @@ e1 :> errorLog
=============================================================================
