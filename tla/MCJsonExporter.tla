---------------------------- MODULE MCJsonExporter ----------------------------
(***************************************************************************)
(* Instances of JsonExporter: x and y are wanted, z is not.  The bus may   *)
(* hold early for y and other for z when the node joins.                   *)
(***************************************************************************)
EXTENDS JsonExporter, TLC

CONSTANTS early, other, s1, s2, s3, x, y, z

MCSensorOf == early :> y @@ other :> z @@ s1 :> x @@ s2 :> x @@ s3 :> x
MCTimeOf   == early :> 0 @@ other :> 1 @@ s1 :> 1 @@ s2 :> 2 @@ s3 :> 3
MCDataKey  == {"temperature"}
MCKeysOf   == [s \in Sample |-> MCDataKey]
=============================================================================
