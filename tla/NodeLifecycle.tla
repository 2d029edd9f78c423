---------------------------- MODULE NodeLifecycle ----------------------------
(***************************************************************************)
(* The life of one SensorSamplor process: the steps of SensorSamplor.start *)
(* in the main thread, each of which may fail on a value of the            *)
(* configuration, and the end of the process by its shutdown hooks, which  *)
(* may come at any moment.  An exception that start does not catch ends    *)
(* the main thread only; the threads of Hazelcast and Quartz keep the      *)
(* process alive.                                                          *)
(*                                                                         *)
(* A single value of the configuration is what the code makes of it:       *)
(* "empty", "malformed", "valid" or Null (no such key); a list is Null or  *)
(* the set of its items.                                                   *)
(***************************************************************************)
CONSTANTS
  Configurations,   \* the configurations the process may be started with
  Shipped,          \* the configuration file of the distribution
  Null              \* what the loader returns for a key that is not there

VARIABLES
  conf,        \* the configuration
  step,        \* what the main thread does next
  process,     \* the process runs, runs its shutdown hooks, or has ended
  member,      \* the Hazelcast instance is up
  receivers,   \* the receivers made from the active ones
  listening,   \* the receiver manager's listener is registered
  sensors,     \* the sensors made from the active ones
  scheduler,   \* the Quartz scheduler
  hook         \* the program's shutdown hook

vars == <<conf, step, process, member, receivers, listening, sensors, scheduler, hook>>

Single == {Null, "empty", "malformed", "valid"}
Singles == {"sensorPattern", "platformPattern", "cronExpression", "httpxmlSource",
            "gpioDataPin", "temperatureCorrection", "humidityCorrection",
            "maximumEntries", "carbonPort", "loggingDirectory"}
Lists == {"interfaces", "remoteMembers", "activeSensors", "activeReceivers"}

ASSUME LifecycleConstants ==
  /\ Shipped \in Configurations
  /\ \A c \in Configurations :
       /\ DOMAIN c = Singles \cup Lists
       /\ \A p \in Singles : c[p] \in Single

SensorFactories == {"temperature", "systemStats", "httpxml"}
ReceiverFactories == {"console", "logfile", "json", "graphite"}

Steps == {"loadConfiguration", "createSensorBus", "loadReceivers",
          "createReceiverManager", "loadSensors", "createScheduler",
          "scheduleIntervals", "registerShutdownHook",
          "operational",   \* start has returned
          "dead",          \* the main thread ended with an exception
          "exiting"}       \* the main thread called System.exit

Init ==
  /\ conf \in Configurations
  /\ step = "loadConfiguration"
  /\ process = "running"
  /\ member = FALSE
  /\ receivers = {}
  /\ listening = FALSE
  /\ sensors = {}
  /\ scheduler = "none"
  /\ hook = "none"

\* What the node is made of.  A list that a failing step has begun to fill counts
\* as empty: nothing reads it any more.
parts == <<member, receivers, listening, sensors, scheduler, hook>>

At(s) == step = s /\ process # "ended"

Throw(s) ==
  /\ At(s)
  /\ step' = "dead"
  /\ UNCHANGED <<conf, process, parts>>

\* System.exit starts the shutdown hooks and never returns.
SystemExit(s) ==
  /\ At(s)
  /\ step' = "exiting"
  /\ process' = "stopping"
  /\ UNCHANGED <<conf, parts>>
-----------------------------------------------------------------------------
(* What the code cannot do with which values.                              *)

Items(name) == IF conf[name] = Null THEN {} ELSE conf[name]

MissingList(names) == \E name \in names : conf[name] = Null

NotCompiled(pattern) == conf[pattern] \in {Null, "malformed"}

\* setConfigurationValues of all receiver factories, active or not; only the
\* carbon port may be left empty.
ReceiversNotConfigurable ==
  \/ conf.maximumEntries \in {"empty", "malformed"}
  \/ conf.carbonPort = "malformed"

\* setConfigurationValues of all sensor factories: numbers must be numbers, and
\* a source has a name, a well-formed URL and a path.
SensorsNotConfigurable ==
  \E p \in {"gpioDataPin", "temperatureCorrection", "humidityCorrection", "httpxmlSource"} :
    conf[p] \in {"empty", "malformed"}

PatternsNotCompiled == NotCompiled("sensorPattern") \/ NotCompiled("platformPattern")

\* The log file receiver makes its directory, the JSON receiver compiles the
\* patterns for its own filter.
ReceiversNotCreated ==
  \/ "logfile" \in Items("activeReceivers") /\ conf.loggingDirectory \in {Null, "malformed"}
  \/ "json" \in Items("activeReceivers") /\ PatternsNotCompiled
-----------------------------------------------------------------------------
(* SensorSamplor.start.                                                    *)

LoadConfiguration ==
  /\ At("loadConfiguration")
  /\ step' = "createSensorBus"
  /\ UNCHANGED <<conf, process, parts>>

\* No configuration file: logged, and the program ends.
ConfigurationNotFound == SystemExit("loadConfiguration")

CreateSensorBus ==
  /\ ~MissingList({"interfaces", "remoteMembers"})
  /\ At("createSensorBus")
  /\ process = "running"
  /\ step' = "loadReceivers"
  /\ member' = TRUE
  /\ UNCHANGED <<conf, process, receivers, listening, sensors, scheduler, hook>>

\* A list is missing, or Hazelcast cannot be started, which also registers a
\* shutdown hook and so cannot be done during the shutdown.
SensorBusFails == Throw("createSensorBus")

LoadReceivers ==
  /\ ~MissingList({"activeReceivers"})
  /\ ~ReceiversNotConfigurable
  /\ ~ReceiversNotCreated
  /\ At("loadReceivers")
  /\ step' = "createReceiverManager"
  /\ receivers' = ReceiverFactories \cap Items("activeReceivers")
  /\ UNCHANGED <<conf, process, member, listening, sensors, scheduler, hook>>

LoadReceiversFails ==
  /\ MissingList({"activeReceivers"}) \/ ReceiversNotConfigurable \/ ReceiversNotCreated
  /\ Throw("loadReceivers")

CreateReceiverManager ==
  /\ ~PatternsNotCompiled
  /\ At("createReceiverManager")
  /\ member
  /\ step' = "loadSensors"
  /\ listening' = TRUE
  /\ UNCHANGED <<conf, process, member, receivers, sensors, scheduler, hook>>

CreateReceiverManagerFails ==
  /\ PatternsNotCompiled \/ ~member
  /\ Throw("createReceiverManager")

\* Mutated form of SensorsFor: no dummy takes the place of a missing library.
SensorsWithoutDummy(temperature) ==
  (SensorFactories \cap Items("activeSensors")) \ (IF temperature = "dummy"
                                               THEN {"temperature"} ELSE {})

\* Mutated form of SensorsFor: identifiers no factory has are taken over.
SensorsUnknown(temperature) ==
  {IF f = "temperature" THEN temperature ELSE f : f \in Items("activeSensors")}

\* TemperatureHumiditySensorFactory makes a dummy when the native library
\* cannot be loaded.
SensorsFor(temperature) ==
  {IF f = "temperature" THEN temperature ELSE f :
     f \in SensorFactories \cap Items("activeSensors")}

LoadSensors ==
  /\ ~MissingList({"activeSensors"})
  /\ ~SensorsNotConfigurable
  /\ At("loadSensors")
  /\ step' = "createScheduler"
  /\ \E temperature \in {"temperature", "dummy"} : sensors' = SensorsFor(temperature)
  /\ UNCHANGED <<conf, process, member, receivers, listening, scheduler, hook>>

LoadSensorsFails ==
  /\ MissingList({"activeSensors"}) \/ SensorsNotConfigurable
  /\ Throw("loadSensors")

CreateScheduler ==
  /\ At("createScheduler")
  /\ step' = "scheduleIntervals"
  /\ scheduler' = "started"
  /\ UNCHANGED <<conf, process, member, receivers, listening, sensors, hook>>

ScheduleIntervals ==
  /\ conf.cronExpression = "valid"
  /\ At("scheduleIntervals")
  /\ step' = "registerShutdownHook"
  /\ scheduler' = "scheduled"
  /\ UNCHANGED <<conf, process, member, receivers, listening, sensors, hook>>

\* A SchedulerException: the scheduler cannot be made, or the trigger of a
\* well-formed expression will never fire.
SchedulerExceptionCaught ==
  \/ SystemExit("createScheduler")
  \/ conf.cronExpression = "valid" /\ SystemExit("scheduleIntervals")

\* An expression that cannot be parsed is no SchedulerException.
ScheduleIntervalsFails ==
  /\ conf.cronExpression # "valid"
  /\ Throw("scheduleIntervals")

\* Mutated form of RegisterShutdownHook: as if it came before scheduleSensors.
RegisterShutdownHookEarly ==
  /\ \/ At("createScheduler") /\ step' = step
     \/ At("registerShutdownHook") /\ step' = "operational"
  /\ process = "running"
  /\ hook' = "registered"
  /\ UNCHANGED <<conf, process, member, receivers, listening, sensors, scheduler>>

RegisterShutdownHook ==
  /\ At("registerShutdownHook")
  /\ process = "running"
  /\ step' = "operational"
  /\ hook' = "registered"
  /\ UNCHANGED <<conf, process, member, receivers, listening, sensors, scheduler>>

\* No hook can be registered once the shutdown is under way.
RegisterShutdownHookFails ==
  /\ process = "stopping"
  /\ Throw("registerShutdownHook")
-----------------------------------------------------------------------------
(* The end of the process.                                                 *)

\* A signal asks the process to end.
Terminate ==
  /\ process = "running"
  /\ process' = "stopping"
  /\ UNCHANGED <<conf, step, parts>>

\* The main thread is dead and no other thread holds the process up.
LastThreadEnds ==
  /\ step = "dead"
  /\ ~member
  /\ scheduler = "none"
  /\ Terminate

StopInvokerManager ==
  /\ process = "stopping"
  /\ hook = "registered"
  /\ hook' = "stoppingBus"
  /\ scheduler' = "shutdown"
  /\ UNCHANGED <<conf, step, process, member, receivers, listening, sensors>>

\* Mutated form of StopInvokerManagerFails: nothing catches the exception, and
\* the hook's thread ends.
StopInvokerManagerThrows ==
  /\ process = "stopping"
  /\ hook = "registered"
  /\ hook' = "finished"
  /\ UNCHANGED <<conf, step, process, member, receivers, listening, sensors, scheduler>>

\* The scheduler cannot be shut down: a SchedulerException is logged, and the
\* bus is stopped all the same.  The trigger goes on until the process ends.
StopInvokerManagerFails ==
  /\ process = "stopping"
  /\ hook = "registered"
  /\ hook' = "stoppingBus"
  /\ UNCHANGED <<conf, step, process, member, receivers, listening, sensors, scheduler>>

\* Mutated form of StopSensorBus: it waits for an instance that is still up.
StopSensorBusFirst ==
  /\ process = "stopping"
  /\ hook = "stoppingBus"
  /\ member
  /\ hook' = "finished"
  /\ member' = FALSE
  /\ listening' = FALSE
  /\ UNCHANGED <<conf, step, process, receivers, sensors, scheduler>>

\* Shutting down an instance that is down already has no effect.
StopSensorBus ==
  /\ process = "stopping"
  /\ hook = "stoppingBus"
  /\ hook' = "finished"
  /\ member' = FALSE
  /\ listening' = FALSE
  /\ UNCHANGED <<conf, step, process, receivers, sensors, scheduler>>

\* Hazelcast registers a shutdown hook of its own; hooks run concurrently.
HazelcastShutdownHook ==
  /\ process = "stopping"
  /\ member
  /\ member' = FALSE
  /\ listening' = FALSE
  /\ UNCHANGED <<conf, step, process, receivers, sensors, scheduler, hook>>

HooksFinished == ~member /\ hook \in {"none", "finished"}

\* When the hooks have finished the process ends with all its threads.
End ==
  /\ process = "stopping"
  /\ HooksFinished
  /\ process' = "ended"
  /\ UNCHANGED <<conf, step, parts>>

Start ==
  \/ LoadConfiguration
  \/ ConfigurationNotFound
  \/ CreateSensorBus
  \/ SensorBusFails
  \/ LoadReceivers
  \/ LoadReceiversFails
  \/ CreateReceiverManager
  \/ CreateReceiverManagerFails
  \/ LoadSensors
  \/ LoadSensorsFails
  \/ CreateScheduler
  \/ ScheduleIntervals
  \/ SchedulerExceptionCaught
  \/ ScheduleIntervalsFails
  \/ RegisterShutdownHook
  \/ RegisterShutdownHookFails

Hooks ==
  \/ StopInvokerManager
  \/ StopInvokerManagerFails
  \/ StopSensorBus
  \/ HazelcastShutdownHook
  \/ End

Next == Start \/ Terminate \/ LastThreadEnds \/ Hooks

Spec == Init /\ [][Next]_vars

\* The main thread and the hooks are run by the JVM.
FairSpec == Spec /\ WF_vars(Start) /\ WF_vars(Hooks) /\ WF_vars(LastThreadEnds)
-----------------------------------------------------------------------------
TypeOK ==
  /\ DOMAIN conf = Singles \cup Lists
  /\ step \in Steps
  /\ process \in {"running", "stopping", "ended"}
  /\ member \in BOOLEAN
  /\ receivers \subseteq ReceiverFactories
  /\ listening \in BOOLEAN
  /\ sensors \subseteq SensorFactories \cup {"dummy"}
  /\ scheduler \in {"none", "started", "scheduled", "shutdown"}
  /\ hook \in {"none", "registered", "stoppingBus", "finished"}

\* The hook stops the invoker manager and the bus by their fields: whenever it runs,
\* start has set both, at whatever moment the signal comes.  When it has finished,
\* the node has left the cluster, also when the scheduler could not be shut down:
\* start goes on during the shutdown, but does not bring the node back.
HookStopsAll ==
  /\ hook # "none" => scheduler # "none" /\ step \notin {"loadConfiguration", "createSensorBus"}
  /\ hook = "finished" => ~member

\* As soon as this node's trigger can fire, it finds a sensor for each active sensor
\* there is a factory for (for the temperature sensor it may be a dummy), and the
\* node's own listener hears what they sample, for as long as the node is a member.
TriggerFindsNodeReady ==
  scheduler = "scheduled" =>
    /\ member => listening
    /\ \A s \in SensorFactories \cap Items("activeSensors") :
         s \in sensors \/ (s = "temperature" /\ "dummy" \in sensors)

\* README: "All properties not shown here can be left on their respective
\* default values."  With the shipped configuration no step of start fails
\* after the node has joined the cluster.
DefaultsWork == conf = Shipped /\ member /\ process = "running" => step # "dead"

\* A process asked to end does end, although two hooks shut the same Hazelcast
\* instance down at once and start may still be on its way.
StopEnds == process = "stopping" ~> process = "ended"
=============================================================================
