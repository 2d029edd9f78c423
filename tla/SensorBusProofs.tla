--------------------------- MODULE SensorBusProofs ---------------------------
(***************************************************************************)
(* Proofs about SensorBus, for every set of nodes, sensors, receivers,     *)
(* names, patterns and every number of rounds.                             *)
(***************************************************************************)
EXTENDS SensorBus, TLAPS

(* What the safety properties rest on: who has heard of a sample, and what *)
(* may be said of a sample that waits for a receiver or lies in the map.   *)

\* Only samples in the map have been heard of, and only by nodes that listen.
HeardByListeners ==
  \A m \in Measurement : \A n \in audience[m] :
    stage[m] = "put" /\ IsListening(n)

\* What receivers were handed has been in the map.
ReceivedWasPut ==
  \A n \in Node, r \in Receiver, m \in Measurement :
    <<n, r, m>> \in received => stage[m] = "put"

\* Receiver threads exist for active receivers and wanted samples only.
ThreadsWanted ==
  \A n \in Node, r \in Receiver, m \in Measurement :
    <<n, r, m>> \in threads => r \in ReceiversOf[n] /\ Matches(n, m)

\* An entry lies under its own key.
MapKeyed ==
  \A k \in Key : map[k] # NoSample => stage[map[k]] = "put" /\ KeyOf(map[k]) = k

\* The key of a sample somebody up has heard of is not vacant.
HeardIsKept ==
  \A m \in Measurement : audience[m] # {} => map[KeyOf(m)] # NoSample

\* A measurement is idle until its round is fired, and never again.
RoundsFired ==
  \A m \in Measurement : stage[m] = "idle" <=> m.round > fired[m.node]

BusInv ==
  /\ ProcessedOnce
  /\ NothingSkipped
  /\ HeardByListeners
  /\ ReceivedWasPut
  /\ ThreadsWanted
  /\ MapKeyed
  /\ HeardIsKept
-----------------------------------------------------------------------------
(* Type correctness.                                                       *)

\* Every variable keeps its type under every step of the bus.
THEOREM TypeCorrect == Spec => []TypeOK
<1>1. Init => TypeOK
  BY BusConstants DEF Init, TypeOK, Phases, Stages
<1>2. TypeOK /\ [Next]_vars => TypeOK'
  <2> SUFFICES ASSUME TypeOK, [Next]_vars PROVE TypeOK'
    OBVIOUS
  <2> USE DEF TypeOK, measuring, delivery
  <2>1. ASSUME NEW n \in Node, NodeStep(n) PROVE TypeOK'
    <3>1. CASE CreateSensorBus(n) BY <3>1 DEF CreateSensorBus, Phases
    <3>2. CASE RegisterSampleListener(n) BY <3>2 DEF RegisterSampleListener, Phases
    <3>3. CASE ScheduleSensors(n) BY <3>3 DEF ScheduleSensors, Phases
    <3>4. CASE StopInvokerManager(n) BY <3>4 DEF StopInvokerManager, Phases
    <3>5. CASE StopSensorBus(n) BY <3>5 DEF StopSensorBus, Phases
    <3>6. CASE Exit(n) BY <3>6 DEF Exit, Phases, Stages
    <3>7. CASE InvokeSensors(n)
      <4>1. fired[n] + 1 \in 0..MaxRounds
        BY <3>7, BusConstants DEF InvokeSensors
      <4>2. fired' \in [Node -> 0..MaxRounds]
        BY <3>7, <4>1 DEF InvokeSensors
      <4>3. stage' \in [Measurement -> Stages]
        BY <3>7 DEF InvokeSensors, Stages
      <4> QED BY <3>7, <4>2, <4>3 DEF InvokeSensors
    <3> QED BY <2>1, <3>1, <3>2, <3>3, <3>4, <3>5, <3>6, <3>7 DEF NodeStep
  <2>2. ASSUME NEW m \in Measurement, SensorStep(m) PROVE TypeOK'
    <3>1. ASSUME NEW error \in BOOLEAN, Stamp(m, error) PROVE TypeOK'
      BY <3>1 DEF Stamp, Stages
    <3>2. CASE TakeSample(m) BY <3>1, <3>2 DEF TakeSample
    <3>3. CASE TakeError(m) BY <3>1, <3>3 DEF TakeError
    <3>4. CASE SensorThreadDies(m) BY <3>4 DEF SensorThreadDies, Stages
    <3>5. CASE Send(m) BY <3>5 DEF Send, Stages
    <3>6. CASE Put(m)
      <4>1. stage' \in [Measurement -> Stages]
        BY <3>6 DEF Put, Stages
      <4>2. map' \in [Key -> Measurement \cup {NoSample}]
        BY <3>6 DEF Put
      <4>3. /\ events' \subseteq Node \X Measurement
            /\ audience' \in [Measurement -> SUBSET Node]
        BY <3>6 DEF Put, Listeners
      <4> QED BY <3>6, <4>1, <4>2, <4>3 DEF Put
    <3>7. CASE SendFails(m) BY <3>7 DEF SendFails, Stages
    <3> QED BY <2>2, <3>2, <3>3, <3>4, <3>5, <3>6, <3>7 DEF SensorStep
  <2>3. ASSUME NEW n \in Node, NEW m \in Measurement, ProcessSample(n, m)
        PROVE TypeOK'
    <3>1. ReceiversOf[n] \subseteq Receiver
      BY BusConstants
    <3> QED BY <2>3, <3>1 DEF ProcessSample
  <2>4. ASSUME NEW n \in Node, NEW r \in Receiver, NEW m \in Measurement,
               InvokeSampleReceiver(n, r, m)
        PROVE TypeOK'
    BY <2>4 DEF InvokeSampleReceiver
  <2>5. CASE UNCHANGED vars BY <2>5 DEF vars
  <2> QED BY <2>1, <2>2, <2>3, <2>4, <2>5 DEF Next
<1> QED BY <1>1, <1>2, PTL DEF Spec
-----------------------------------------------------------------------------
(* Rounds: the trigger never restarts a measurement that has begun.        *)

LEMMA RoundsFiredInv == Spec => []RoundsFired
<1>1. Init => RoundsFired
  BY BusConstants DEF Init, RoundsFired, Measurement
<1>2. TypeOK /\ RoundsFired /\ [Next]_vars => RoundsFired'
  <2> SUFFICES ASSUME TypeOK, RoundsFired, [Next]_vars,
                      NEW m \in Measurement
               PROVE (stage[m] = "idle" <=> m.round > fired[m.node])'
    BY DEF RoundsFired
  <2>0. /\ m.node \in Node
        /\ m.round \in Nat
        /\ fired \in [Node -> Nat]
        /\ stage[m] = "idle" <=> m.round > fired[m.node]
        /\ stage \in [Measurement -> Stages]
    BY BusConstants DEF Measurement, TypeOK, RoundsFired
  <2>1. ASSUME NEW n \in Node, NodeStep(n)
        PROVE (stage[m] = "idle" <=> m.round > fired[m.node])'
    <3>1. CASE InvokeSensors(n)
      <4>1. /\ fired' = [fired EXCEPT ![n] = fired[n] + 1]
            /\ stage'[m] = IF m.node = n /\ m.round = fired[n] + 1
                           THEN "measuring" ELSE stage[m]
        BY <3>1 DEF InvokeSensors
      <4>2. CASE m.node = n
        BY <2>0, <4>1, <4>2
      <4>3. CASE m.node # n
        BY <2>0, <4>1, <4>3
      <4> QED BY <4>2, <4>3
    <3>2. CASE Exit(n)
      BY <2>0, <3>2 DEF Exit, InFlight
    <3>3. CASE ~InvokeSensors(n) /\ ~Exit(n)
      BY <2>0, <2>1, <3>3 DEF NodeStep, CreateSensorBus, RegisterSampleListener,
         ScheduleSensors, StopInvokerManager, StopSensorBus, measuring
    <3> QED BY <3>1, <3>2, <3>3
  <2>2. ASSUME NEW x \in Measurement, SensorStep(x)
        PROVE (stage[m] = "idle" <=> m.round > fired[m.node])'
    BY <2>0, <2>2 DEF SensorStep, TakeSample, TakeError, Stamp,
       SensorThreadDies, Send, Put, SendFails
  <2>3. CASE \/ \E n \in Node, x \in Measurement : ProcessSample(n, x)
             \/ \E n \in Node, r \in Receiver, x \in Measurement :
                  InvokeSampleReceiver(n, r, x)
             \/ UNCHANGED vars
    BY <2>0, <2>3 DEF ProcessSample, InvokeSampleReceiver, measuring, vars
  <2> QED BY <2>1, <2>2, <2>3 DEF Next
<1> QED BY <1>1, <1>2, TypeCorrect, PTL DEF Spec
-----------------------------------------------------------------------------
(* The invariant of the bus.                                               *)

\* The map has a place for every sample.
LEMMA KeyOfInKey ==
  ASSUME NEW m \in Measurement
  PROVE  KeyOf(m) \in Key
<1> DEFINE KeysOf(x) == {PlatformOf[x.node] \o t : t \in TypesOf(x.sensor)}
<1>1. TypeOf(m) \in TypesOf(m.sensor)
  BY DEF TypeOf, TypesOf
<1>2. KeyOf(m) \in KeysOf(m)
  BY <1>1 DEF KeyOf
<1>3. Key = UNION {KeysOf(x) : x \in Measurement}
  BY DEF Key
<1> HIDE DEF KeysOf
<1> QED BY <1>2, <1>3

\* Steps that put nothing, hand nothing over and silence no listener, the
\* sensor threads' and the starting node's, cannot disturb the invariant.
LEMMA QuietStep ==
  ASSUME TypeOK, BusInv, TypeOK',
         \A m \in Measurement :
           /\ stage'[m] = "put" <=> stage[m] = "put"
           /\ stage[m] = "put" => isError'[m] = isError[m],
         \A n \in Node : IsListening(n) => IsListening(n)',
         UNCHANGED <<map, events, threads, received, audience>>
  PROVE  BusInv'
<1>1. \A m \in Measurement : stage[m] = "put" =>
        /\ TypeOf(m)' = TypeOf(m)
        /\ KeyOf(m)' = KeyOf(m)
        /\ \A n \in Node : Matches(n, m)' <=> Matches(n, m)
  BY DEF TypeOf, KeyOf, Matches
<1>2. ProcessedOnce'
  BY DEF BusInv, ProcessedOnce
<1>3. HeardByListeners'
  BY DEF BusInv, HeardByListeners, TypeOK
<1>4. ReceivedWasPut'
  BY DEF BusInv, ReceivedWasPut
<1>5. ThreadsWanted'
  BY <1>1 DEF BusInv, ThreadsWanted, ProcessedOnce
<1>6. NothingSkipped'
  BY <1>1 DEF BusInv, NothingSkipped, HeardByListeners, TypeOK
<1>7. MapKeyed'
  BY <1>1 DEF BusInv, MapKeyed, TypeOK
<1>8. HeardIsKept'
  BY <1>1 DEF BusInv, HeardIsKept, HeardByListeners, TypeOK
<1> QED BY <1>2, <1>3, <1>4, <1>5, <1>6, <1>7, <1>8 DEF BusInv

\* Starting nodes and sensor threads take quiet steps only.
LEMMA QuietActions ==
  ASSUME TypeOK, TypeOK', RoundsFired, BusInv,
         \/ \E n \in Node :
              \/ CreateSensorBus(n) \/ RegisterSampleListener(n)
              \/ ScheduleSensors(n) \/ StopInvokerManager(n)
              \/ InvokeSensors(n)
         \/ \E m \in Measurement :
              \/ TakeSample(m) \/ TakeError(m) \/ SensorThreadDies(m)
              \/ Send(m) \/ SendFails(m)
         \/ UNCHANGED vars
  PROVE  BusInv'
<1>1. ASSUME NEW n \in Node,
             \/ CreateSensorBus(n) \/ RegisterSampleListener(n)
             \/ ScheduleSensors(n) \/ StopInvokerManager(n)
      PROVE BusInv'
  <2>1. \A o \in Node : IsListening(o) => IsListening(o)'
    BY <1>1 DEF TypeOK, IsListening, CreateSensorBus, RegisterSampleListener,
       ScheduleSensors, StopInvokerManager
  <2>2. UNCHANGED <<measuring, map, delivery>>
    BY <1>1 DEF CreateSensorBus, RegisterSampleListener, ScheduleSensors,
       StopInvokerManager
  <2> QED BY <2>1, <2>2, QuietStep DEF measuring, delivery
<1>2. ASSUME NEW n \in Node, InvokeSensors(n)
      PROVE BusInv'
  <2>1. \A m \in Measurement :
          m.node = n /\ m.round = fired[n] + 1 => stage[m] = "idle"
    <3> SUFFICES ASSUME NEW m \in Measurement,
                        m.node = n, m.round = fired[n] + 1
                 PROVE stage[m] = "idle"
      OBVIOUS
    <3>1. fired[n] \in Nat
      BY BusConstants DEF TypeOK
    <3> QED BY <3>1 DEF RoundsFired
  <2>2. \A m \in Measurement : stage'[m] = "put" <=> stage[m] = "put"
    BY <1>2, <2>1 DEF InvokeSensors
  <2> QED BY <1>2, <2>2, QuietStep DEF InvokeSensors, delivery, IsListening
<1>3. ASSUME NEW m \in Measurement,
             \/ TakeSample(m) \/ TakeError(m) \/ SensorThreadDies(m)
             \/ Send(m) \/ SendFails(m)
      PROVE BusInv'
  <2>1. \A x \in Measurement :
          /\ stage'[x] = "put" <=> stage[x] = "put"
          /\ stage[x] = "put" => isError'[x] = isError[x]
    BY <1>3 DEF TypeOK, TakeSample, TakeError, Stamp, SensorThreadDies, Send,
       SendFails
  <2>2. UNCHANGED <<phase, map, delivery>>
    BY <1>3 DEF TakeSample, TakeError, Stamp, SensorThreadDies, Send, SendFails
  <2> QED BY <2>1, <2>2, QuietStep DEF delivery, IsListening
<1>4. CASE UNCHANGED vars
  BY <1>4, QuietStep DEF vars, measuring, delivery, IsListening
<1> QED BY <1>1, <1>2, <1>3, <1>4

\* A leaving node takes its events, its threads and its place in every
\* audience with it; the map it leaves to the members that remain.
LEMMA LeavingActions ==
  ASSUME TypeOK, TypeOK', BusInv, NEW n \in Node,
         StopSensorBus(n) \/ Exit(n)
  PROVE  BusInv'
<1>1. CASE StopSensorBus(n)
  <2>1. /\ UNCHANGED <<fired, stage, isError, threads, received>>
        /\ events' = {e \in events : e[1] # n}
        /\ audience' = [m \in Measurement |-> audience[m] \ {n}]
        /\ phase' = [phase EXCEPT ![n] = "stopped"]
    BY <1>1 DEF StopSensorBus, measuring
  <2>2. \A m \in Measurement : /\ TypeOf(m)' = TypeOf(m)
                               /\ KeyOf(m)' = KeyOf(m)
                               /\ \A o \in Node : Matches(o, m)' <=> Matches(o, m)
    BY <2>1 DEF TypeOf, KeyOf, Matches
  <2>3. ProcessedOnce'
    BY <2>1 DEF BusInv, ProcessedOnce
  <2>4. HeardByListeners'
    BY <2>1 DEF BusInv, HeardByListeners, TypeOK, IsListening
  <2>5. ReceivedWasPut' /\ ThreadsWanted'
    BY <2>1, <2>2 DEF BusInv, ReceivedWasPut, ThreadsWanted
  <2>6. NothingSkipped'
    BY <2>1, <2>2 DEF BusInv, NothingSkipped, TypeOK
  <2>7. \/ UNCHANGED map
        \/ /\ map' = [k \in Key |-> NoSample]
           /\ \A o \in Node \ {n} : ~IsMember(o)
    BY <1>1 DEF StopSensorBus
  <2>8. MapKeyed'
    BY <2>1, <2>2, <2>7 DEF BusInv, MapKeyed, TypeOK
  <2>9. HeardIsKept'
    <3>1. CASE UNCHANGED map
      BY <2>1, <2>2, <3>1 DEF BusInv, HeardIsKept
    <3>2. CASE \A o \in Node \ {n} : ~IsMember(o)
      <4>1. \A o \in Node \ {n} : ~IsListening(o)
        BY <3>2 DEF IsMember, IsListening, Phases
      <4>2. \A m \in Measurement : audience'[m] = {}
        BY <2>1, <4>1 DEF BusInv, HeardByListeners, TypeOK
      <4> QED BY <4>2 DEF HeardIsKept
    <3> QED BY <2>7, <3>1, <3>2
  <2> QED BY <2>3, <2>4, <2>5, <2>6, <2>8, <2>9 DEF BusInv
<1>2. CASE Exit(n)
  <2>1. /\ UNCHANGED <<fired, isError, map, events, received, audience>>
        /\ \A m \in Measurement : stage'[m] = "put" <=> stage[m] = "put"
        /\ threads' = {t \in threads : t[1] # n}
        /\ ~IsListening(n)
        /\ \A o \in Node : IsListening(o) => IsListening(o)'
    BY <1>2 DEF Exit, TypeOK, InFlight, IsListening
  <2>2. \A m \in Measurement : /\ TypeOf(m)' = TypeOf(m)
                               /\ KeyOf(m)' = KeyOf(m)
                               /\ \A o \in Node : Matches(o, m)' <=> Matches(o, m)
    BY <2>1 DEF TypeOf, KeyOf, Matches
  <2>3. ProcessedOnce'
    BY <2>1 DEF BusInv, ProcessedOnce
  <2>4. HeardByListeners'
    BY <2>1 DEF BusInv, HeardByListeners, TypeOK
  <2>5. ReceivedWasPut' /\ ThreadsWanted'
    BY <2>1, <2>2 DEF BusInv, ReceivedWasPut, ThreadsWanted
  <2>6. NothingSkipped'
    BY <2>1, <2>2 DEF BusInv, NothingSkipped, HeardByListeners, TypeOK
  <2>7. MapKeyed' /\ HeardIsKept'
    BY <2>1, <2>2 DEF BusInv, MapKeyed, HeardIsKept, TypeOK
  <2> QED BY <2>3, <2>4, <2>5, <2>6, <2>7 DEF BusInv
<1> QED BY <1>1, <1>2

\* The put makes the sample heard of by whoever listens at that moment.
LEMMA PutAction ==
  ASSUME TypeOK, TypeOK', BusInv, NEW x \in Measurement, Put(x)
  PROVE  BusInv'
<1>1. /\ stage[x] = "sending"
      /\ stage' = [stage EXCEPT ![x] = "put"]
      /\ map' = [map EXCEPT ![KeyOf(x)] = x]
      /\ events' = events \cup (Listeners \X {x})
      /\ audience' = [audience EXCEPT ![x] = Listeners]
      /\ UNCHANGED <<phase, fired, isError, time, clock, threads, received>>
  BY DEF Put
<1>2. \A m \in Measurement : /\ TypeOf(m)' = TypeOf(m)
                             /\ KeyOf(m)' = KeyOf(m)
                             /\ \A o \in Node : Matches(o, m)' <=> Matches(o, m)
  BY <1>1 DEF TypeOf, KeyOf, Matches
<1>3. \A n \in Node : IsListening(n)' <=> IsListening(n)
  BY <1>1 DEF IsListening
<1>4. \A m \in Measurement :
        /\ m # x => stage'[m] = stage[m] /\ audience'[m] = audience[m]
        /\ stage'[x] = "put" /\ audience'[x] = Listeners
  BY <1>1 DEF TypeOK
<1>5. \A n \in Node, r \in Receiver :
        <<n, r, x>> \notin threads /\ <<n, r, x>> \notin received
  BY <1>1 DEF BusInv, ProcessedOnce, ReceivedWasPut
<1>6. ProcessedOnce'
  <2> SUFFICES ASSUME NEW n \in Node, NEW m \in Measurement
               PROVE /\ <<n, m>> \in events' =>
                          /\ stage'[m] = "put"
                          /\ \A r \in Receiver : <<n, r, m>> \notin threads' \cup received'
                     /\ \A r \in Receiver :
                          <<n, r, m>> \in threads' =>
                            stage'[m] = "put" /\ <<n, r, m>> \notin received'
    BY DEF ProcessedOnce
  <2>1. CASE m = x
    BY <1>1, <1>4, <1>5, <2>1
  <2>2. CASE m # x
    BY <1>1, <1>4, <2>2 DEF BusInv, ProcessedOnce
  <2> QED BY <2>1, <2>2
<1>7. HeardByListeners'
  BY <1>3, <1>4 DEF BusInv, HeardByListeners, Listeners, TypeOK
<1>8. ReceivedWasPut' /\ ThreadsWanted'
  BY <1>1, <1>2, <1>4 DEF BusInv, ReceivedWasPut, ThreadsWanted
<1>9. NothingSkipped'
  <2> SUFFICES ASSUME NEW m \in Measurement, NEW n \in audience'[m]
               PROVE \/ <<n, m>> \in events'
                     \/ ~Matches(n, m)'
                     \/ \A r \in ReceiversOf[n] : <<n, r, m>> \in threads' \cup received'
    BY DEF NothingSkipped
  <2>1. CASE m = x
    BY <1>1, <1>4, <2>1
  <2>2. CASE m # x
    BY <1>1, <1>2, <1>4, <2>2 DEF BusInv, NothingSkipped, TypeOK
  <2> QED BY <2>1, <2>2
<1>10. \A k \in Key : map'[k] = IF k = KeyOf(x) THEN x ELSE map[k]
  BY <1>1 DEF TypeOK
<1>11. MapKeyed'
  BY <1>2, <1>4, <1>10 DEF BusInv, MapKeyed, TypeOK
<1>12. \A m \in Measurement : KeyOf(m) \in Key
  BY KeyOfInKey
<1>13. HeardIsKept'
  BY <1>2, <1>4, <1>10, <1>12, NoSampleIsNone DEF BusInv, HeardIsKept
<1> QED BY <1>6, <1>7, <1>8, <1>9, <1>11, <1>13 DEF BusInv

\* An event becomes one thread per receiver, a thread becomes a call.
LEMMA ReceiverActions ==
  ASSUME TypeOK, TypeOK', BusInv, NEW n0 \in Node, NEW x \in Measurement,
         \/ ProcessSample(n0, x)
         \/ \E r \in Receiver : InvokeSampleReceiver(n0, r, x)
  PROVE  BusInv'
<1>1. UNCHANGED <<phase, fired, stage, isError, map, audience>>
  BY DEF ProcessSample, InvokeSampleReceiver, measuring
<1>2. \A m \in Measurement : /\ TypeOf(m)' = TypeOf(m)
                             /\ KeyOf(m)' = KeyOf(m)
                             /\ \A o \in Node : Matches(o, m)' <=> Matches(o, m)
  BY <1>1 DEF TypeOf, KeyOf, Matches
<1>3. HeardByListeners' /\ MapKeyed' /\ HeardIsKept'
  BY <1>1, <1>2 DEF BusInv, HeardByListeners, MapKeyed, HeardIsKept, IsListening,
     TypeOK
<1>4. CASE ProcessSample(n0, x)
  <2>1. /\ <<n0, x>> \in events
        /\ events' = events \ {<<n0, x>>}
        /\ received' = received
        /\ threads' = IF Matches(n0, x)
                      THEN threads \cup {<<n0, r, x>> : r \in ReceiversOf[n0]}
                      ELSE threads
    BY <1>4 DEF ProcessSample
  <2>2. stage[x] = "put" /\ \A r \in Receiver : <<n0, r, x>> \notin received
    BY <2>1 DEF BusInv, ProcessedOnce
  <2>3. \A n \in Node, r \in Receiver, m \in Measurement :
          <<n, r, m>> \in threads' =>
            \/ <<n, r, m>> \in threads
            \/ n = n0 /\ m = x /\ r \in ReceiversOf[n] /\ Matches(n, m)
    BY <2>1
  <2>4. ProcessedOnce'
    BY <1>1, <2>1, <2>2, <2>3 DEF BusInv, ProcessedOnce
  <2>5. ReceivedWasPut' /\ ThreadsWanted'
    BY <1>1, <1>2, <2>1, <2>3 DEF BusInv, ReceivedWasPut, ThreadsWanted
  <2>6. NothingSkipped'
    BY <1>1, <1>2, <2>1 DEF BusInv, NothingSkipped, TypeOK
  <2> QED BY <1>3, <2>4, <2>5, <2>6 DEF BusInv
<1>5. CASE \E r \in Receiver : InvokeSampleReceiver(n0, r, x)
  <2>1. PICK r0 \in Receiver : InvokeSampleReceiver(n0, r0, x)
    BY <1>5
  <2>2. /\ <<n0, r0, x>> \in threads
        /\ threads' = threads \ {<<n0, r0, x>>}
        /\ events' = events
        /\ received' = IF IsMember(n0) THEN received \cup {<<n0, r0, x>>}
                       ELSE received
    BY <2>1 DEF InvokeSampleReceiver
  <2>3. stage[x] = "put" /\ <<n0, x>> \notin events
    BY <2>2 DEF BusInv, ProcessedOnce
  <2>4. ProcessedOnce'
    BY <1>1, <2>2, <2>3 DEF BusInv, ProcessedOnce
  <2>5. ReceivedWasPut' /\ ThreadsWanted'
    BY <1>1, <1>2, <2>2, <2>3 DEF BusInv, ReceivedWasPut, ThreadsWanted
  <2>6. n0 \in audience[x] => IsMember(n0)
    BY DEF BusInv, HeardByListeners, IsListening, IsMember, Phases
  <2>7. NothingSkipped'
    BY <1>1, <1>2, <2>2, <2>6 DEF BusInv, NothingSkipped, TypeOK
  <2> QED BY <1>3, <2>4, <2>5, <2>7 DEF BusInv
<1> QED BY <1>4, <1>5

THEOREM BusInvariant == Spec => []BusInv
<1>1. Init => BusInv
  BY NoSampleIsNone DEF Init, BusInv, ProcessedOnce, NothingSkipped,
     HeardByListeners, ReceivedWasPut, ThreadsWanted, MapKeyed, HeardIsKept
<1>2. TypeOK /\ TypeOK' /\ RoundsFired /\ BusInv /\ [Next]_vars => BusInv'
  BY QuietActions, LeavingActions, PutAction, ReceiverActions
     DEF Next, NodeStep, SensorStep
<1> QED BY <1>1, <1>2, TypeCorrect, RoundsFiredInv, PTL DEF Spec
-----------------------------------------------------------------------------
(* What follows from it.                                                   *)

\* ProcessedOnce: no receiver is handed a sample twice, whatever the order of
\* events and threads and however often nodes restart.
THEOREM BusProcessesOnce == Spec => []ProcessedOnce
<1>1. BusInv => ProcessedOnce
  BY DEF BusInv
<1> QED BY <1>1, BusInvariant, PTL

\* NothingSkipped: between the map and the receivers no sample is dropped on
\* a node that stays up.
THEOREM BusSkipsNothing == Spec => []NothingSkipped
<1>1. BusInv => NothingSkipped
  BY DEF BusInv
<1> QED BY <1>1, BusInvariant, PTL

\* No two platforms and types in use are joined to one key.
KeysDistinct ==
  \A m1, m2 \in Measurement :
    \A t1 \in TypesOf(m1.sensor), t2 \in TypesOf(m2.sensor) :
      PlatformOf[m1.node] \o t1 = PlatformOf[m2.node] \o t2 =>
        PlatformOf[m1.node] = PlatformOf[m2.node] /\ t1 = t2

\* EntryPerNodeAndSensor holds whenever the dash of createKeyOf is unambiguous
\* for the names in use; without that it does not.
THEOREM BusKeepsEntries ==
  ASSUME KeysDistinct
  PROVE  Spec => []EntryPerNodeAndSensor
<1>1. ASSUME TypeOK, BusInv PROVE EntryPerNodeAndSensor
  <2> SUFFICES ASSUME NEW m \in Measurement, audience[m] # {}
               PROVE \E k \in Key :
                       /\ map[k] # NoSample
                       /\ PlatformOf[map[k].node] = PlatformOf[m.node]
                       /\ TypeOf(map[k]) = TypeOf(m)
    BY DEF EntryPerNodeAndSensor
  <2>1. KeyOf(m) \in Key
    BY KeyOfInKey
  <2>2. map[KeyOf(m)] # NoSample
    BY <1>1 DEF BusInv, HeardIsKept
  <2>3. map[KeyOf(m)] \in Measurement /\ KeyOf(map[KeyOf(m)]) = KeyOf(m)
    BY <1>1, <2>1, <2>2 DEF BusInv, MapKeyed, TypeOK
  <2>4. /\ PlatformOf[map[KeyOf(m)].node] = PlatformOf[m.node]
        /\ TypeOf(map[KeyOf(m)]) = TypeOf(m)
    BY <2>3 DEF KeysDistinct, KeyOf, TypeOf, TypesOf
  <2> QED BY <2>1, <2>2, <2>4
<1> QED BY <1>1, BusInvariant, TypeCorrect, PTL
-----------------------------------------------------------------------------
(* The bus implements SampleRelay.                                         *)

Posted == {PostOf(m) : m \in {x \in Measurement : stage[x] = "put"}}

\* Every sample is one of the posts the abstract specification knows.
LEMMA PostOfInPosts ==
  ASSUME NEW m \in Measurement
  PROVE  PostOf(m) \in Posts
<1> DEFINE PostsOf(x) == {[id |-> x, platform |-> PlatformOf[x.node], type |-> t] :
                            t \in TypesOf(x.sensor)}
<1>1. PostOf(m) \in PostsOf(m)
  BY DEF PostOf, TypeOf, TypesOf
<1>2. Posts = UNION {PostsOf(x) : x \in Measurement}
  BY DEF Posts
<1> HIDE DEF PostsOf
<1> QED BY <1>1, <1>2

\* What was posted stays as it was posted.
LEMMA PostsStay ==
  ASSUME \A m \in Measurement :
           /\ stage'[m] = "put" <=> stage[m] = "put"
           /\ stage[m] = "put" => isError'[m] = isError[m]
  PROVE  Posted' = Posted
<1> DEFINE Put1 == {x \in Measurement : stage[x] = "put"}
<1>1. Put1' = Put1
  OBVIOUS
<1>2. \A m \in Put1 : PostOf(m)' = PostOf(m)
  BY DEF PostOf, TypeOf
<1>3. Posted = {PostOf(m) : m \in Put1} /\ Posted' = {PostOf(m)' : m \in Put1'}
  BY DEF Posted
<1> HIDE DEF Put1
<1> QED BY <1>1, <1>2, <1>3

\* A quiet or a leaving step leaves what was posted and delivered alone.
LEMMA SilentActions ==
  ASSUME TypeOK, RoundsFired,
         \/ \E n \in Node : NodeStep(n)
         \/ \E m \in Measurement :
              \/ TakeSample(m) \/ TakeError(m) \/ SensorThreadDies(m)
              \/ Send(m) \/ SendFails(m)
         \/ \E n \in Node, m \in Measurement : ProcessSample(n, m)
         \/ UNCHANGED vars
  PROVE  UNCHANGED <<Posted, received>>
<1>1. CASE \E n \in Node : NodeStep(n)
  <2>1. PICK n \in Node : NodeStep(n)
    BY <1>1
  <2>2. CASE InvokeSensors(n)
    <3>1. \A m \in Measurement :
            m.node = n /\ m.round = fired[n] + 1 => stage[m] = "idle"
      <4> SUFFICES ASSUME NEW m \in Measurement,
                          m.node = n, m.round = fired[n] + 1
                   PROVE stage[m] = "idle"
        OBVIOUS
      <4>1. fired[n] \in Nat
        BY BusConstants DEF TypeOK
      <4> QED BY <4>1 DEF RoundsFired
    <3> QED BY <2>2, <3>1, PostsStay DEF InvokeSensors, delivery
  <2>3. CASE Exit(n)
    BY <2>3, PostsStay DEF Exit, InFlight
  <2>4. CASE ~InvokeSensors(n) /\ ~Exit(n)
    BY <2>1, <2>4, PostsStay DEF NodeStep, CreateSensorBus,
       RegisterSampleListener, ScheduleSensors, StopInvokerManager,
       StopSensorBus, measuring, delivery
  <2> QED BY <2>2, <2>3, <2>4
<1>2. CASE \E m \in Measurement :
             \/ TakeSample(m) \/ TakeError(m) \/ SensorThreadDies(m)
             \/ Send(m) \/ SendFails(m)
  BY <1>2, PostsStay DEF TypeOK, TakeSample, TakeError, Stamp,
     SensorThreadDies, Send, SendFails, delivery
<1>3. CASE \/ \E n \in Node, m \in Measurement : ProcessSample(n, m)
           \/ UNCHANGED vars
  BY <1>3, PostsStay DEF ProcessSample, vars, measuring, delivery
<1> QED BY <1>1, <1>2, <1>3

\* Every behaviour of the bus, the manager and restarting nodes is, seen from
\* the receivers, a behaviour of SampleRelay.
THEOREM BusImplementsRelay == Spec => RelayRefined
<1>1. Init => Relay!RelayInit
  BY DEF Init, Relay!RelayInit
<1>2. ASSUME TypeOK, RoundsFired, BusInv, [Next]_vars
      PROVE  [Relay!RelayNext]_(Relay!relayVars)
  <2>1. ASSUME NEW x \in Measurement, Put(x)
        PROVE \E p \in Posts : Relay!Publish(p)
    <3>1. PostOf(x) \in Posts
      BY PostOfInPosts
    <3>2. \A q \in Posted : q.id # PostOf(x).id
      BY <2>1 DEF Put, Posted, PostOf
    <3>3. Posted' = Posted \cup {PostOf(x)}
      <4> DEFINE Put1 == {m \in Measurement : stage[m] = "put"}
      <4>1. Put1' = Put1 \cup {x}
        <5>1. \A m \in Measurement : stage'[m] = IF m = x THEN "put" ELSE stage[m]
          BY <1>2, <2>1 DEF Put, TypeOK
        <5> QED BY <5>1
      <4>2. \A m \in Measurement : PostOf(m)' = PostOf(m)
        BY <2>1 DEF Put, PostOf, TypeOf
      <4>3. /\ Posted = {PostOf(m) : m \in Put1}
            /\ Posted' = {PostOf(m)' : m \in Put1'}
        BY DEF Posted
      <4>4. Put1 \subseteq Measurement
        OBVIOUS
      <4> HIDE DEF Put1
      <4> QED BY <4>1, <4>2, <4>3, <4>4
    <3> QED BY <2>1, <3>1, <3>2, <3>3 DEF Relay!Publish, Posted, Put
  <2>2. ASSUME NEW n \in Node, NEW r \in Receiver, NEW m \in Measurement,
               InvokeSampleReceiver(n, r, m)
        PROVE \/ \E p \in Posts : Relay!Deliver(n, r, p)
              \/ UNCHANGED <<Posted, received>>
    <3>1. Posted' = Posted
      BY <2>2, PostsStay DEF InvokeSampleReceiver, measuring
    <3>2. CASE ~IsMember(n)
      BY <2>2, <3>1, <3>2 DEF InvokeSampleReceiver
    <3>3. CASE IsMember(n)
      <4>1. /\ stage[m] = "put"
            /\ <<n, r, m>> \notin received
            /\ r \in ReceiversOf[n]
            /\ Matches(n, m)
            /\ received' = received \cup {<<n, r, m>>}
        BY <1>2, <2>2, <3>3 DEF InvokeSampleReceiver, BusInv, ProcessedOnce, ThreadsWanted
      <4>2. PostOf(m) \in Posted
        BY <4>1 DEF Posted
      <4>3. PostOf(m) \in Posts
        BY PostOfInPosts
      <4>4. Relay!Wanted(n, PostOf(m))
        BY <4>1 DEF Relay!Wanted, Matches, PostOf
      <4> QED BY <3>1, <4>1, <4>2, <4>3, <4>4 DEF Relay!Deliver, Posted, PostOf
    <3> QED BY <3>2, <3>3
  <2>3. UNCHANGED <<Posted, received>> => UNCHANGED Relay!relayVars
    BY DEF Relay!relayVars, Posted
  <2> QED BY <1>2, <2>1, <2>2, <2>3, SilentActions DEF Next, SensorStep, Relay!RelayNext
<1> QED BY <1>1, <1>2, TypeCorrect, RoundsFiredInv, BusInvariant, PTL
        DEF Spec, RelayRefined, Relay!RelaySpec
=============================================================================
