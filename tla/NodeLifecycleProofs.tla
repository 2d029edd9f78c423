------------------------- MODULE NodeLifecycleProofs -------------------------
(***************************************************************************)
(* Proofs about NodeLifecycle, for every set of configurations.            *)
(***************************************************************************)
EXTENDS NodeLifecycle, TLAPS

\* What start has done when it is about to take a step.
Scheduling == {"scheduleIntervals", "registerShutdownHook", "operational"}
Receiving == {"loadSensors", "createScheduler"} \cup Scheduling

\* The scheduler is there from createScheduler on.
SchedulerIsMade == step \in Scheduling => scheduler # "none"

\* Once its listener is due, the node is no member or listens.
MembersListen == step \in Receiving /\ member => listening

\* The bus has been joined before it is left: a later step joins no more.
HookComesLast == hook # "none" => step = "operational"

HookHasLeft == hook = "finished" => ~member

\* What is active has a sensor from loadSensors on.
SensorsAreMade ==
  step \in {"createScheduler"} \cup Scheduling =>
    \A s \in SensorFactories \cap Items("activeSensors") :
      s \in sensors \/ (s = "temperature" /\ "dummy" \in sensors)

\* The trigger is set by scheduleIntervals, with which a start never ends; if it fails
\* after that, the shutdown is under way.
ScheduledIsReady ==
  scheduler = "scheduled" =>
    /\ member => listening
    /\ \A s \in SensorFactories \cap Items("activeSensors") :
         s \in sensors \/ (s = "temperature" /\ "dummy" \in sensors)
    /\ step \in {"registerShutdownHook", "operational", "dead"}

LifeInv ==
  /\ SchedulerIsMade
  /\ MembersListen
  /\ HookComesLast
  /\ HookHasLeft
  /\ SensorsAreMade
  /\ ScheduledIsReady
-----------------------------------------------------------------------------
\* Every variable keeps its type under every step of a process.
THEOREM NodeTypeCorrect == Spec => []TypeOK
<1>1. Init => TypeOK
  BY LifecycleConstants DEF Init, TypeOK, Steps
<1>2. TypeOK /\ [Next]_vars => TypeOK'
  <2> SUFFICES ASSUME TypeOK, [Next]_vars PROVE TypeOK'
    OBVIOUS
  <2> USE DEF TypeOK, parts, At, Steps
  <2>1. ASSUME NEW s, Throw(s) PROVE TypeOK'
    BY <2>1 DEF Throw
  <2>2. ASSUME NEW s, SystemExit(s) PROVE TypeOK'
    BY <2>2 DEF SystemExit
  <2>3. CASE Start
    <3>1. CASE LoadConfiguration BY <3>1 DEF LoadConfiguration
    <3>2. CASE CreateSensorBus BY <3>2 DEF CreateSensorBus
    <3>3. CASE LoadReceivers BY <3>3 DEF LoadReceivers
    <3>4. CASE CreateReceiverManager BY <3>4 DEF CreateReceiverManager
    <3>5. CASE LoadSensors
      <4>1. sensors' \subseteq SensorFactories \cup {"dummy"}
        BY <3>5 DEF LoadSensors, SensorsFor
      <4> QED BY <3>5, <4>1 DEF LoadSensors
    <3>6. CASE CreateScheduler BY <3>6 DEF CreateScheduler
    <3>7. CASE ScheduleIntervals BY <3>7 DEF ScheduleIntervals
    <3>8. CASE RegisterShutdownHook BY <3>8 DEF RegisterShutdownHook
    <3>9. CASE ConfigurationNotFound \/ SchedulerExceptionCaught
      BY <2>2, <3>9 DEF ConfigurationNotFound, SchedulerExceptionCaught
    <3>10. CASE SensorBusFails \/ LoadReceiversFails \/ CreateReceiverManagerFails
                  \/ LoadSensorsFails \/ ScheduleIntervalsFails \/ RegisterShutdownHookFails
      BY <2>1, <3>10 DEF SensorBusFails, LoadReceiversFails, CreateReceiverManagerFails,
                         LoadSensorsFails, ScheduleIntervalsFails, RegisterShutdownHookFails
    <3> QED BY <2>3, <3>1, <3>2, <3>3, <3>4, <3>5, <3>6, <3>7, <3>8, <3>9, <3>10 DEF Start
  <2>4. CASE Terminate \/ LastThreadEnds
    BY <2>4 DEF Terminate, LastThreadEnds
  <2>5. CASE Hooks
    BY <2>5 DEF Hooks, StopInvokerManager, StopInvokerManagerFails, StopSensorBus,
                HazelcastShutdownHook, End
  <2>6. CASE UNCHANGED vars
    BY <2>6 DEF vars
  <2> QED BY <2>3, <2>4, <2>5, <2>6 DEF Next
<1> QED BY <1>1, <1>2, PTL DEF Spec
-----------------------------------------------------------------------------
(* The invariant.                                                          *)

\* A start that fails or exits takes the node apart no further.
LEMMA EndingSteps ==
  ASSUME LifeInv, NEW s \in Steps, s # "operational",
         Throw(s) \/ (SystemExit(s) /\ scheduler # "scheduled")
  PROVE  LifeInv'
BY DEF LifeInv, SchedulerIsMade, MembersListen, HookComesLast, HookHasLeft, SensorsAreMade,
       ScheduledIsReady, Throw, SystemExit, At, parts, Items, Scheduling, Receiving

\* Start brings the node up step by step, and its hook comes last.
LEMMA StartSteps == ASSUME TypeOK, LifeInv, Start PROVE LifeInv'
<1> USE DEF LifeInv, SchedulerIsMade, MembersListen, HookComesLast, HookHasLeft, SensorsAreMade,
            ScheduledIsReady, Items, At, Scheduling, Receiving
<1>1. CASE LoadConfiguration BY <1>1 DEF LoadConfiguration, parts
<1>2. CASE CreateSensorBus BY <1>2 DEF CreateSensorBus
<1>3. CASE LoadReceivers BY <1>3 DEF LoadReceivers
<1>4. CASE CreateReceiverManager BY <1>4 DEF CreateReceiverManager
<1>5. CASE LoadSensors
  <2>1. /\ step = "loadSensors" /\ step' = "createScheduler"
        /\ UNCHANGED <<conf, process, member, receivers, listening, scheduler, hook>>
    BY <1>5 DEF LoadSensors
  <2>2. \A s \in SensorFactories \cap Items("activeSensors") :
          s \in sensors' \/ (s = "temperature" /\ "dummy" \in sensors')
    BY <1>5 DEF LoadSensors, SensorsFor
  <2> QED BY <2>1, <2>2
<1>6. CASE CreateScheduler BY <1>6 DEF CreateScheduler, TypeOK
<1>7. CASE ScheduleIntervals BY <1>7 DEF ScheduleIntervals
<1>8. CASE RegisterShutdownHook BY <1>8 DEF RegisterShutdownHook, TypeOK
<1>9. CASE ConfigurationNotFound \/ SchedulerExceptionCaught
  BY <1>9, EndingSteps DEF ConfigurationNotFound, SchedulerExceptionCaught, SystemExit, Steps
<1>10. CASE SensorBusFails \/ LoadReceiversFails \/ CreateReceiverManagerFails
              \/ LoadSensorsFails \/ ScheduleIntervalsFails \/ RegisterShutdownHookFails
  BY <1>10, EndingSteps DEF SensorBusFails, LoadReceiversFails, CreateReceiverManagerFails,
        LoadSensorsFails, ScheduleIntervalsFails, RegisterShutdownHookFails, Steps
<1> QED BY <1>1, <1>2, <1>3, <1>4, <1>5, <1>6, <1>7, <1>8, <1>9, <1>10 DEF Start

\* The hooks take down what they find.
LEMMA HookSteps == ASSUME TypeOK, LifeInv, Hooks PROVE LifeInv'
<1> USE DEF LifeInv, SchedulerIsMade, MembersListen, HookComesLast, HookHasLeft, SensorsAreMade,
            ScheduledIsReady, Items, Scheduling, Receiving
<1>1. CASE StopInvokerManager BY <1>1 DEF StopInvokerManager
<1>2. CASE StopSensorBus BY <1>2 DEF StopSensorBus
<1>3. CASE HazelcastShutdownHook BY <1>3 DEF HazelcastShutdownHook
<1>4. CASE End BY <1>4 DEF End, parts
<1>5. CASE StopInvokerManagerFails BY <1>5 DEF StopInvokerManagerFails
<1> QED BY <1>1, <1>2, <1>3, <1>4, <1>5 DEF Hooks

\* The inductive invariant of the start: which parts there are at which step.
THEOREM NodeInvariant == Spec => []LifeInv
<1>1. Init => LifeInv
  BY DEF Init, LifeInv, SchedulerIsMade, MembersListen, HookComesLast, HookHasLeft,
         SensorsAreMade, ScheduledIsReady, Scheduling, Receiving
<1>2. TypeOK /\ LifeInv /\ [Next]_vars => LifeInv'
  <2> SUFFICES ASSUME TypeOK, LifeInv, [Next]_vars PROVE LifeInv'
    OBVIOUS
  <2>1. CASE Start BY <2>1, StartSteps
  <2>2. CASE Hooks BY <2>2, HookSteps
  <2>3. CASE Terminate \/ LastThreadEnds \/ UNCHANGED vars
    BY <2>3 DEF LifeInv, SchedulerIsMade, MembersListen, HookComesLast, HookHasLeft,
          SensorsAreMade, ScheduledIsReady, Items, Terminate, LastThreadEnds, parts, vars
  <2> QED BY <2>1, <2>2, <2>3 DEF Next
<1> QED BY <1>1, <1>2, NodeTypeCorrect, PTL DEF Spec
-----------------------------------------------------------------------------
\* Whenever the hook runs, start has set both fields it uses, and when it has finished
\* the node is out of the cluster, even if its scheduler could not be shut down.
THEOREM NodeHookStopsAll == Spec => []HookStopsAll
<1>1. TypeOK /\ LifeInv => HookStopsAll
  BY DEF TypeOK, LifeInv, SchedulerIsMade, HookComesLast, HookHasLeft, HookStopsAll, Scheduling
<1> QED BY <1>1, NodeTypeCorrect, NodeInvariant, PTL

\* A trigger that can fire finds a sensor for each active one, and a listener.
THEOREM NodeTriggerReady == Spec => []TriggerFindsNodeReady
<1>1. LifeInv => TriggerFindsNodeReady
  BY DEF LifeInv, ScheduledIsReady, TriggerFindsNodeReady
<1> QED BY <1>1, NodeInvariant, PTL
=============================================================================
