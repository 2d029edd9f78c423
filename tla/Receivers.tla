------------------------------ MODULE Receivers ------------------------------
(***************************************************************************)
(* One node from its sensors to its receivers: measurements become samples *)
(* or errors, the listener of SampleReceiverManager starts a thread per    *)
(* receiver for each, and the threads of log file, console and Graphite    *)
(* run side by side.  The bus between them is module SensorBus; here it    *)
(* hands the node's own samples to its listener.                           *)
(***************************************************************************)
EXTENDS Sensors, LogFile, GraphiteReceiver

CONSTANT ActiveReceivers   \* a sequence of "file", "console" and "graphite"

ASSUME ReceiversConstants ==
  /\ Post \subseteq [id : Measurement, sensor : HttpXml \cup SystemStats, kind : {"sample", "error"}]
  /\ Sample = Post
  /\ ActiveReceivers \in Seq({"file", "console", "graphite"})

VARIABLES
  started,       \* post -> for how many receivers a thread has been started
  onConsole      \* the posts printed to standard output or error

allVars == <<sensorVars, vars, graphiteVars, started, onConsole>>

NodeInit ==
  /\ SensorsInit
  /\ Init
  /\ GraphiteInit
  /\ started = [p \in Post |-> 0]
  /\ onConsole = {}

\* SensorInvoker.invokeSensor has sent the sample, or the error of its exception.
Sent(p) ==
  /\ sensorOf[p.id] = p.sensor
  /\ sensing[p.id] = IF p.kind = "sample" THEN "sampled" ELSE "reported"

Runs(p, receiver) == \E i \in 1 .. started[p] : ActiveReceivers[i] = receiver

\* A call of a receiver for p has returned or thrown.
Over(p, receiver) ==
  CASE receiver = "file" -> stage[p] \in {"logged", "failed"}
    [] receiver = "console" -> p \in onConsole
    [] receiver = "graphite" -> sending[p] \in {"ended", "dead"}

\* Mutated form of StartReceiver: the listener's own thread calls the receivers.
StartReceiverInTurn(p) ==
  /\ Sent(p)
  /\ started[p] < Len(ActiveReceivers)
  /\ started[p] > 0 => Over(p, ActiveReceivers[started[p]])
  /\ started' = [started EXCEPT ![p] = @ + 1]
  /\ UNCHANGED <<sensorVars, vars, graphiteVars, onConsole>>

\* SampleReceiverManager.processSample, one turn of the loop.
StartReceiver(p) ==
  /\ Sent(p)
  /\ started[p] < Len(ActiveReceivers)
  /\ started' = [started EXCEPT ![p] = @ + 1]
  /\ UNCHANGED <<sensorVars, vars, graphiteVars, onConsole>>

\* ConsolePrintSampleReceiver
PrintOnConsole(p) ==
  /\ Runs(p, "console")
  /\ p \notin onConsole
  /\ onConsole' = onConsole \cup {p}
  /\ UNCHANGED <<sensorVars, vars, graphiteVars, started>>

WriteLog(p) ==
  /\ Runs(p, "file")
  /\ Process(p) \/ LookForFile(p) \/ CreateFile(p) \/ AppendSampleToFile(p) \/ MeetIOException(p)
  /\ UNCHANGED <<sensorVars, graphiteVars, started, onConsole>>

SendToCarbon(p) ==
  /\ Runs(p, "graphite")
  /\ SendStep(p, values[p.id])
  /\ UNCHANGED <<sensorVars, vars, started, onConsole>>

Sense(m) ==
  /\ SensorStep(m)
  /\ UNCHANGED <<vars, graphiteVars, started, onConsole>>

\* What the node does by itself for p.
Local(p) == StartReceiver(p) \/ PrintOnConsole(p) \/ WriteLog(p)

NodeNext ==
  \/ \E m \in Measurement : Sense(m)
  \/ \E p \in Post : Local(p) \/ SendToCarbon(p)

\* The JVM runs the listener's thread and those of the local receivers, which take
\* finitely many steps: fairness of them together is enough.  Nothing is
\* assumed of sensors and of Carbon: a connection may hang for good.
NodeSpec ==
  NodeInit /\ [][NodeNext]_allVars /\ WF_allVars(\E p \in Post : Local(p))
-----------------------------------------------------------------------------
NodeTypeOK ==
  /\ TypeOK
  /\ \A p \in Post :
       /\ started[p] \in 0 .. Len(ActiveReceivers)
       /\ started[p] > 0 => Sent(p)
       /\ stage[p] # "idle" => Runs(p, "file")
       /\ sending[p] # "idle" => Runs(p, "graphite")
  /\ sockets \subseteq Post /\ trouble \subseteq Post /\ onConsole \subseteq Post

\* See LinesArrive.
CarbonHasFirstLines == \A p \in Post : Sent(p) => LinesArrive(p, values[p.id])

\* The receivers are isolated: whatever becomes of the calls to Carbon, even if they
\* never return, the node catches up again and again: each sample and error sent so
\* far is printed, and its line is written or the log file's call has thrown.
ReceiversAreIsolated ==
  []<>(\A p \in Post : Sent(p) => Over(p, "file") /\ Over(p, "console"))
=============================================================================
