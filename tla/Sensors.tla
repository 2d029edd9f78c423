------------------------------- MODULE Sensors -------------------------------
(***************************************************************************)
(* HttpXmlSensor and SystemStatsSensor: each measurement runs in a thread  *)
(* of its own and shares nothing with others.  The HTTP sensor fetches one *)
(* document and evaluates all its paths on it.                             *)
(*                                                                         *)
(* Of a document counts, for each path, what the path selects first: an    *)
(* element, whose node value is null, a text or attribute, or nothing.     *)
(***************************************************************************)
EXTENDS Naturals, Sequences

CONSTANTS
  Measurement,
  HttpXml,       \* the HTTP sensors
  SystemStats,   \* the sensors of the JVM's figures
  Missing,       \* HTTP sensors without a source
  SensorsFor,    \* measurement -> the sensors it may be a measurement of
  PathsOf,       \* HTTP sensor -> its paths
  Documents      \* what a URL may answer: path -> "element", "text", "nothing"

ASSUME SensorConstants ==
  /\ Missing \subseteq HttpXml
  /\ SensorsFor \in [Measurement -> SUBSET (HttpXml \cup SystemStats)]
  /\ HttpXml \cap SystemStats = {}
  /\ LET Path == UNION {DOMAIN document : document \in Documents}
     IN  /\ PathsOf \in [HttpXml -> Seq(Path)]
         /\ Documents \subseteq [Path -> {"element", "text", "nothing"}]

VARIABLES
  sensing,       \* measurement -> how far its thread is
  sensorOf,      \* measurement -> its sensor, or "none"
  values         \* measurement -> the values of its sample's items

sensorVars == <<sensing, sensorOf, values>>

SensorsInit ==
  /\ sensing = [m \in Measurement |-> "idle"]
  /\ sensorOf = [m \in Measurement |-> "none"]
  /\ values = [m \in Measurement |-> <<>>]

End(m, from, to) == sensing[m] = from /\ sensing' = [sensing EXCEPT ![m] = to]

\* The sensor's thread begins measure().
Measure(m, sensor) ==
  /\ End(m, "idle", "measuring")
  /\ sensorOf' = [sensorOf EXCEPT ![m] = sensor]
  /\ UNCHANGED values

\* HttpXmlSensor.getNodeContentWith
NodeContent(document, path) ==
  CASE document[path] = "element" -> "null"
    [] document[path] = "text" -> "text"
    [] document[path] = "nothing" -> "empty"

\* HttpXmlSensor.measureWith, when the URL answers with a document.
Fetch(m, document) ==
  /\ sensorOf[m] \in HttpXml \ Missing
  /\ End(m, "measuring", "sampled")
  /\ values' = [values EXCEPT ![m] =
                  [i \in DOMAIN PathsOf[sensorOf[m]] |->
                     NodeContent(document, PathsOf[sensorOf[m]][i])]]
  /\ UNCHANGED sensorOf

\* HttpXmlSensor.measureWith: no connection, no XML, no valid path.  The invoker
\* sends an error sample.
FetchFails(m) ==
  /\ sensorOf[m] \in HttpXml \ Missing
  /\ End(m, "measuring", "reported")
  /\ UNCHANGED <<sensorOf, values>>

\* HttpXmlSensor.measureWith without a source: the catch block fails as the try
\* block did, and the thread ends with that exception.
SourceMissing(m) ==
  /\ sensorOf[m] \in Missing
  /\ End(m, "measuring", "dead")
  /\ UNCHANGED <<sensorOf, values>>

\* SystemStatsSensor.measure: load and used memory.
ReadSystemStats(m) ==
  /\ sensorOf[m] \in SystemStats
  /\ End(m, "measuring", "sampled")
  /\ values' = [values EXCEPT ![m] = <<"number", "number">>]
  /\ UNCHANGED sensorOf

SensorStep(m) ==
  \/ \E sensor \in SensorsFor[m] : Measure(m, sensor)
  \/ \E document \in Documents : Fetch(m, document)
  \/ FetchFails(m)
  \/ SourceMissing(m)
  \/ ReadSystemStats(m)
=============================================================================
