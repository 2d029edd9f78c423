----------------------------- MODULE MCSensorBus -----------------------------
(***************************************************************************)
(* Instances of SensorBus with two nodes.                                  *)
(***************************************************************************)
EXTENDS SensorBus, TLC

CONSTANTS a, b, temp, http, console

MCNamePart == {"a", "b", "c", "t", "h", "dummy"}

MCSampleType  == temp :> <<"t">> @@ http :> <<"h">>
MCErrorType   == temp :> <<"dummy">> @@ http :> <<"h">>
MCPlatformOf  == a :> <<"a">> @@ b :> <<"b">>

\* a samples one sensor again and again and receives its own samples and
\* errors; b only receives, from both platforms, but no errors of the dummy.
MCSensorsOf   == a :> {temp} @@ b :> {}
MCReceiversOf == a :> {console} @@ b :> {console}
MCTypePattern == a :> {<<"t">>, <<"h">>, <<"dummy">>} @@ b :> {<<"t">>, <<"h">>}
MCPlatformPattern == a :> {<<"a">>} @@ b :> {<<"a">>, <<"b">>}

\* The same with a sensor that stamps its sample before it measures.
HttpSensorsOf == a :> {http} @@ b :> {}
=============================================================================
