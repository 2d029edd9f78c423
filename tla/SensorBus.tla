------------------------------ MODULE SensorBus ------------------------------
(***************************************************************************)
(* The path of a measurement through the cluster: the Quartz job starts    *)
(* one thread per sensor (SensorInvoker), the thread hands a sample to the *)
(* bus, the bus starts a sender thread that puts it into the Hazelcast map *)
(* (HazelcastSensorBus, DistributedMap), the map publishes an entry event  *)
(* to every registered listener, and the listener starts one thread per    *)
(* active receiver (SampleReceiverManager).  Nodes start, stop and start   *)
(* again (SensorSamplor.start and its shutdown hook).                      *)
(*                                                                         *)
(* Every hand-over is a thread of its own, so the model keeps no order     *)
(* between measurements beyond the one the code enforces.  A measurement   *)
(* is one firing of the trigger for one sensor of one node; it yields at   *)
(* most one sample, so it also serves as the sample's identifier.          *)
(*                                                                         *)
(* A name (platform identifier or sensor type) is the sequence of the      *)
(* parts between its dashes, so joining two names with the dash is \o.     *)
(* A regular expression is the set of the names it matches as a whole.     *)
(***************************************************************************)
EXTENDS Naturals, Sequences

CONSTANTS
  Node,             \* the SensorSamplor processes
  Sensor,           \* the sensor plugins
  Receiver,         \* the receiver plugins
  NamePart,         \* the parts names are made of
  SensorsOf,        \* node -> its active sensors
  ReceiversOf,      \* node -> its active receivers
  PlatformOf,       \* node -> its platform identifier
  SampleType,       \* sensor -> the type its samples carry
  ErrorType,        \* sensor -> the type its errors carry ("dummy" differs)
  StampsFirst,      \* the sensors that stamp the sample before they measure
  TypePattern,      \* node -> the types its receivers want
  PlatformPattern,  \* node -> the platforms its receivers want
  MaxRounds,        \* bound: trigger firings followed per node
  NoSample          \* an absent map entry

Name == Seq(NamePart)

ASSUME BusConstants ==
  /\ SensorsOf \in [Node -> SUBSET Sensor]
  /\ ReceiversOf \in [Node -> SUBSET Receiver]
  /\ PlatformOf \in [Node -> Name]
  /\ SampleType \in [Sensor -> Name]
  /\ ErrorType \in [Sensor -> Name]
  /\ StampsFirst \subseteq Sensor
  /\ MaxRounds \in Nat

Measurement ==
  {m \in [node : Node, sensor : Sensor, round : 1..MaxRounds] :
     m.sensor \in SensorsOf[m.node]}

ASSUME NoSampleIsNone == NoSample \notin Measurement

VARIABLES
  phase,      \* node -> how far start() or the shutdown hook has come
  fired,      \* node -> how often its trigger has fired
  stage,      \* measurement -> where it is on its way into the map
  isError,    \* measurement -> whether its sample is an ErrorSample
  time,       \* measurement -> the time stamp of its sample
  clock,      \* the time stamp the next sample gets
  map,        \* the distributed map: key -> measurement or NoSample
  events,     \* <<node, measurement>>: entry events on their way
  threads,    \* <<node, receiver, measurement>>: receiver threads not yet run
  received,   \* <<node, receiver, measurement>>: handed over (history)
  audience    \* measurement -> the running nodes its event went to (history)

measuring == <<fired, stage, isError, time, clock>>
delivery  == <<events, threads, received, audience>>
vars      == <<phase, measuring, map, delivery>>

Phases == {"down", "joined", "listening", "scheduled", "draining", "stopped"}
Stages == {"idle", "measuring", "taken", "sending", "put", "lost"}
InFlight == {"measuring", "taken", "sending"}
-----------------------------------------------------------------------------
(* The names a sample carries, its key in the map, and the filter.         *)

TypeOf(m) == IF isError[m] THEN ErrorType[m.sensor] ELSE SampleType[m.sensor]

KeyOf(m) == PlatformOf[m.node] \o TypeOf(m)

TypesOf(s) == {SampleType[s], ErrorType[s]}

Key == UNION {{PlatformOf[m.node] \o t : t \in TypesOf(m.sensor)} :
                m \in Measurement}

\* Mutated form of Matches: the type pattern is forgotten.
MatchesPlatformOnly(n, m) == PlatformOf[m.node] \in PlatformPattern[n]

Matches(n, m) ==
  /\ TypeOf(m) \in TypePattern[n]
  /\ PlatformOf[m.node] \in PlatformPattern[n]

IsMember(n) == phase[n] \in Phases \ {"down", "stopped"}

IsListening(n) == phase[n] \in {"listening", "scheduled", "draining"}

Init ==
  /\ phase = [n \in Node |-> "down"]
  /\ fired = [n \in Node |-> 0]
  /\ stage = [m \in Measurement |-> "idle"]
  /\ isError = [m \in Measurement |-> FALSE]
  /\ time = [m \in Measurement |-> 0]
  /\ clock = 1
  /\ map = [k \in Key |-> NoSample]
  /\ events = {}
  /\ threads = {}
  /\ received = {}
  /\ audience = [m \in Measurement |-> {}]
-----------------------------------------------------------------------------
(* SensorSamplor.start(), as far as the bus is concerned.                  *)

\* createSensorBus: the node joins the cluster.
CreateSensorBus(n) ==
  /\ phase[n] = "down"
  /\ phase' = [phase EXCEPT ![n] = "joined"]
  /\ UNCHANGED <<measuring, map, delivery>>

\* createReceiverManager: its listener is registered with the map.
RegisterSampleListener(n) ==
  /\ phase[n] = "joined"
  /\ phase' = [phase EXCEPT ![n] = "listening"]
  /\ UNCHANGED <<measuring, map, delivery>>

\* scheduleSensors and registerShutdownHook.
ScheduleSensors(n) ==
  /\ phase[n] = "listening"
  /\ phase' = [phase EXCEPT ![n] = "scheduled"]
  /\ UNCHANGED <<measuring, map, delivery>>

(* The shutdown hook: stop the scheduler without waiting for the sensor    *)
(* threads, then stop the bus; the process ends when the hook has run.     *)

StopInvokerManager(n) ==
  /\ phase[n] = "scheduled"
  /\ phase' = [phase EXCEPT ![n] = "draining"]
  /\ UNCHANGED <<measuring, map, delivery>>

\* Mutated form of StopSensorBus: the leaving node destroys the map.
StopDestroysMap(n) ==
  /\ phase[n] = "draining"
  /\ phase' = [phase EXCEPT ![n] = "stopped"]
  /\ map' = [k \in Key |-> NoSample]
  /\ events' = {e \in events : e[1] # n}
  /\ audience' = [m \in Measurement |-> audience[m] \ {n}]
  /\ UNCHANGED <<measuring, threads, received>>

\* The map outlives the node as long as another member holds it.
StopSensorBus(n) ==
  /\ phase[n] = "draining"
  /\ phase' = [phase EXCEPT ![n] = "stopped"]
  /\ map' = IF \E o \in Node \ {n} : IsMember(o)
            THEN map ELSE [k \in Key |-> NoSample]
  /\ events' = {e \in events : e[1] # n}
  /\ audience' = [m \in Measurement |-> audience[m] \ {n}]
  /\ UNCHANGED <<measuring, threads, received>>

\* The threads of the process end with it.
Exit(n) ==
  /\ phase[n] = "stopped"
  /\ phase' = [phase EXCEPT ![n] = "down"]
  /\ stage' = [m \in Measurement |->
                 IF m.node = n /\ stage[m] \in InFlight THEN "lost" ELSE stage[m]]
  /\ threads' = {t \in threads : t[1] # n}
  /\ UNCHANGED <<fired, isError, time, clock, map, events, received, audience>>
-----------------------------------------------------------------------------
(* SensorInvoker: the job and the sensor threads it starts.                *)

\* execute: one thread per sensor; the job does not wait for them.
InvokeSensors(n) ==
  /\ phase[n] = "scheduled"
  /\ fired[n] < MaxRounds
  /\ fired' = [fired EXCEPT ![n] = @ + 1]
  /\ stage' = [m \in Measurement |->
                 IF m.node = n /\ m.round = fired[n] + 1 THEN "measuring"
                 ELSE stage[m]]
  /\ UNCHANGED <<phase, isError, time, clock, map, delivery>>

Stamp(m, error) ==
  /\ stage' = [stage EXCEPT ![m] = "taken"]
  /\ isError' = [isError EXCEPT ![m] = error]
  /\ time' = [time EXCEPT ![m] = clock]
  /\ clock' = clock + 1
  /\ UNCHANGED <<phase, fired, map, delivery>>

\* measure() builds a TransferSample, stamped with the time of its creation.
TakeSample(m) == stage[m] = "measuring" /\ Stamp(m, FALSE)

\* measure() throws a SensorException; processError builds an ErrorSample.
TakeError(m) ==
  /\ \/ stage[m] = "measuring"
     \/ stage[m] = "taken" /\ ~isError[m] /\ m.sensor \in StampsFirst
  /\ Stamp(m, TRUE)

\* measure() throws anything else: the sensor thread dies, nothing is sent.
SensorThreadDies(m) ==
  /\ \/ stage[m] = "measuring"
     \/ stage[m] = "taken" /\ ~isError[m] /\ m.sensor \in StampsFirst
  /\ stage' = [stage EXCEPT ![m] = "lost"]
  /\ UNCHANGED <<phase, fired, isError, time, clock, map, delivery>>

\* HazelcastSensorBus.send: the sample is left to a thread of its own.
Send(m) ==
  /\ stage[m] = "taken"
  /\ stage' = [stage EXCEPT ![m] = "sending"]
  /\ UNCHANGED <<phase, fired, isError, time, clock, map, delivery>>
-----------------------------------------------------------------------------
(* SampleSender and the map.                                               *)

Listeners == {n \in Node : IsListening(n)}

\* Mutated form of Put: the listener is registered with includeValue = false.
PutEventWithoutValue(m) ==
  /\ stage[m] = "sending"
  /\ IsMember(m.node)
  /\ stage' = [stage EXCEPT ![m] = "put"]
  /\ map' = [map EXCEPT ![KeyOf(m)] = m]
  /\ events' = events \cup (Listeners \X {NoSample})
  /\ audience' = [audience EXCEPT ![m] = Listeners]
  /\ UNCHANGED <<phase, fired, isError, time, clock, threads, received>>

\* Mutated form of Put: the adapter handles entryAdded but not entryUpdated.
PutUpdateUnheard(m) ==
  /\ stage[m] = "sending"
  /\ IsMember(m.node)
  /\ stage' = [stage EXCEPT ![m] = "put"]
  /\ map' = [map EXCEPT ![KeyOf(m)] = m]
  /\ events' = IF map[KeyOf(m)] = NoSample
                THEN events \cup (Listeners \X {m}) ELSE events
  /\ audience' = [audience EXCEPT ![m] = Listeners]
  /\ UNCHANGED <<phase, fired, isError, time, clock, threads, received>>

\* DistributedMap.put: the entry is added or updated, and every listener
\* registered at that moment is sent an event with the sample.
Put(m) ==
  /\ stage[m] = "sending"
  /\ IsMember(m.node)
  /\ stage' = [stage EXCEPT ![m] = "put"]
  /\ map' = [map EXCEPT ![KeyOf(m)] = m]
  /\ events' = events \cup (Listeners \X {m})
  /\ audience' = [audience EXCEPT ![m] = Listeners]
  /\ UNCHANGED <<phase, fired, isError, time, clock, threads, received>>

\* The put throws a RuntimeException, as it always does on a stopped bus.
SendFails(m) ==
  /\ stage[m] = "sending"
  /\ stage' = [stage EXCEPT ![m] = "lost"]
  /\ UNCHANGED <<phase, fired, isError, time, clock, map, delivery>>
-----------------------------------------------------------------------------
(* SampleReceiverManager on node n.                                        *)

\* Mutated form of ProcessSample: the event is not acknowledged.
ProcessSampleAgain(n, m) ==
  /\ <<n, m>> \in events
  /\ threads' = IF Matches(n, m)
                THEN threads \cup {<<n, r, m>> : r \in ReceiversOf[n]}
                ELSE threads
  /\ UNCHANGED <<phase, measuring, map, events, received, audience>>

\* entryAdded or entryUpdated: filter, then one thread per active receiver.
ProcessSample(n, m) ==
  /\ <<n, m>> \in events
  /\ events' = events \ {<<n, m>>}
  /\ threads' = IF Matches(n, m)
                THEN threads \cup {<<n, r, m>> : r \in ReceiversOf[n]}
                ELSE threads
  /\ UNCHANGED <<phase, measuring, map, received, audience>>

\* ReceiverRunner: reading the buffer throws when the bus has been stopped,
\* and the receiver is then not called.
InvokeSampleReceiver(n, r, m) ==
  /\ <<n, r, m>> \in threads
  /\ threads' = threads \ {<<n, r, m>>}
  /\ received' = IF IsMember(n) THEN received \cup {<<n, r, m>>} ELSE received
  /\ UNCHANGED <<phase, measuring, map, events, audience>>
-----------------------------------------------------------------------------
NodeStep(n) ==
  \/ CreateSensorBus(n)
  \/ RegisterSampleListener(n)
  \/ ScheduleSensors(n)
  \/ StopInvokerManager(n)
  \/ StopSensorBus(n)
  \/ Exit(n)
  \/ InvokeSensors(n)

SensorStep(m) ==
  \/ TakeSample(m)
  \/ TakeError(m)
  \/ SensorThreadDies(m)
  \/ Send(m)
  \/ Put(m)
  \/ SendFails(m)

Next ==
  \/ \E n \in Node : NodeStep(n)
  \/ \E m \in Measurement : SensorStep(m)
  \/ \E n \in Node, m \in Measurement : ProcessSample(n, m)
  \/ \E n \in Node, r \in Receiver, m \in Measurement :
       InvokeSampleReceiver(n, r, m)

Spec == Init /\ [][Next]_vars

\* A started sender, an event of a running node and a started receiver thread
\* are run by the JVM sooner or later.  Nothing is assumed of the trigger, of
\* a sensor (a fetch has no timeout) or of an operator who stops nodes.
Fairness ==
  /\ \A m \in Measurement : WF_vars(Put(m) \/ SendFails(m))
  /\ \A n \in Node, m \in Measurement : WF_vars(ProcessSample(n, m))
  /\ \A n \in Node, r \in Receiver, m \in Measurement :
       WF_vars(InvokeSampleReceiver(n, r, m))

FairSpec == Spec /\ Fairness
-----------------------------------------------------------------------------
TypeOK ==
  /\ phase \in [Node -> Phases]
  /\ fired \in [Node -> 0..MaxRounds]
  /\ stage \in [Measurement -> Stages]
  /\ isError \in [Measurement -> BOOLEAN]
  /\ time \in [Measurement -> Nat]
  /\ clock \in Nat
  /\ map \in [Key -> Measurement \cup {NoSample}]
  /\ events \subseteq Node \X Measurement
  /\ threads \subseteq Node \X Receiver \X Measurement
  /\ received \subseteq Node \X Receiver \X Measurement
  /\ audience \in [Measurement -> SUBSET Node]

\* No receiver is handed one sample twice, also across restarts: a sample is
\* for a receiver in at most one of the places an event, a waiting receiver
\* thread and a finished call, and in none before it is in the map (every hop
\* of send, sampleAdded and processSample is a new thread).
ProcessedOnce ==
  \A n \in Node, m \in Measurement :
    /\ <<n, m>> \in events =>
         /\ stage[m] = "put"
         /\ \A r \in Receiver : <<n, r, m>> \notin threads \cup received
    /\ \A r \in Receiver :
         <<n, r, m>> \in threads =>
           stage[m] = "put" /\ <<n, r, m>> \notin received

\* No hop drops a sample while the node stays up: whoever was listening when
\* the sample was put still has its event, does not want the sample, or has
\* for each of its receivers a waiting thread or a finished call.
NothingSkipped ==
  \A m \in Measurement : \A n \in audience[m] :
    \/ <<n, m>> \in events
    \/ ~Matches(n, m)
    \/ \A r \in ReceiversOf[n] : <<n, r, m>> \in threads \cup received

\* DistributedMap: "keeping the last item per node and sensor".  As long as a
\* node that heard of a sample is up, the buffer the receivers are given holds
\* an item of that sample's platform and sensor type, whoever leaves.
EntryPerNodeAndSensor ==
  \A m \in Measurement : audience[m] # {} =>
    \E k \in Key :
      /\ map[k] # NoSample
      /\ PlatformOf[map[k].node] = PlatformOf[m.node]
      /\ TypeOf(map[k]) = TypeOf(m)

\* DistributedMap: the item kept is the last one, that is, no sample that was
\* put is newer than the entry under its key.
KeepsLastItem ==
  \A k \in Key : map[k] # NoSample =>
    \A m \in Measurement :
      stage[m] = "put" /\ KeyOf(m) = k => time[m] <= time[map[k]]

\* Every receiver of a node that listened when a sample it wants was put is
\* handed the sample, unless the node's bus is stopped first.
Delivered ==
  \A n \in Node, m \in Measurement :
    n \in audience[m] /\ Matches(n, m) ~>
      \/ phase[n] = "stopped"
      \/ \A r \in ReceiversOf[n] : <<n, r, m>> \in received

\* The bus and the manager implement SampleRelay: a post is a sample in or
\* through the map, a delivery is a finished receiver call.
PostOf(m) == [id |-> m, platform |-> PlatformOf[m.node], type |-> TypeOf(m)]

Posts == UNION {{[id |-> m, platform |-> PlatformOf[m.node], type |-> t] :
                   t \in TypesOf(m.sensor)} : m \in Measurement}

Relay == INSTANCE SampleRelay WITH
  Post <- Posts,
  posted <- {PostOf(m) : m \in {x \in Measurement : stage[x] = "put"}},
  delivered <- received

RelayRefined == Relay!RelaySpec
=============================================================================
