# SensorSamplor in TLA+

SensorSamplor samples sensors at the instants of a cron expression, spreads the
samples over a cluster of its own processes with a Hazelcast map, and hands them to
receiver plugins (console, log files, JSON export, Graphite) on every node whose name
patterns match. A web page, the sample viewer, draws what the JSON export holds. This
directory models the parts of it in which threads, events and restarts meet, checks the
models with TLC on small instances, and proves with TLAPS that every safety property
checked there holds for all values of the constants.

Paths below are relative to the repository; `base`, `app`, `json`, `file`, `graphite`,
`temperature`, `httpxml` stand for the `src/main` Java packages of the subprojects of
those names. `rickshaw.js` is
`src/sensorsamplor.opt/sampleViewer/rickshaw/rickshaw.js`, third-party code that the
repository keeps; the page loads its minified twin, which is taken to be the same program.

## 1. The system

| Component | State | Operations | Talks to |
|---|---|---|---|
| `SensorSamplor` (app) | the lists of sensors and receivers, the start's progress, the shutdown hook | start (join bus, configure, listen, schedule, register hook), hook (stop scheduler, stop bus) | everything below |
| `SensorInvokerManager`, `SensorInvoker` (base) | Quartz scheduler and job | schedule, stop, `execute`: one thread per sensor | sensors, bus |
| Sensors: `Am2302Sensor`, `DummyTemperatureSensor`, `HttpXmlSensor`, `SystemStatsSensor` | AM2302: return code, tries, cache, two native cells; the others none | `measure` | native DHT driver, HTTP |
| `HazelcastSensorBus`, `DistributedMap` (base) | the replicated map platform-type -> last sample, its listeners | `send` (a sender thread per sample), `put`, entry events, `getBuffer`, `stop` | other nodes |
| `SampleReceiverManager`, `SamplePatternChecker` (base) | the listener, the two patterns | `processSample`: filter, a thread per receiver and sample | receivers, bus (buffer) |
| `JsonExporterSampleReceiver`, `SampleCollection` (json) | series per sensor and data key, first-run flag, time of the last export, output file | `processSample`: import the buffer once, add, export at most every n seconds | file system |
| `FileSampleReceiver` (file) | the log files | `processSample`, `processError` | file system |
| `GraphiteSampleReceiver`, `ConsolePrintSampleReceiver` | none | `processSample`, `processError` | a socket, stdout |
| `ConfigurationLoader`, factories | none | reading properties | - |
| sampleViewer: page | none | loads the export, makes a graph per node, sensor and key | the JSON file, Rickshaw |
| sampleViewer: Rickshaw | a graph: series, window, what is drawn; legend, highlighted line, hover detail, preview frame, slider | construct, add rows, take a reply, render; clicks, mouse moves, drags | the page, a server, the user |

A sample's way: the trigger fires on a node; the job starts a thread per active sensor
and does not wait for them; each thread calls `measure`, makes a sample or - after a
`SensorException` - an error sample, and gives it to the bus; the bus starts a sender
thread; the thread puts the sample into the map; Hazelcast sends an added or updated
event to each registered listener; the listener filters and starts a thread for each
active receiver; that thread reads the buffer (the map's values) and calls the receiver.

**What is hard.** Every hop is a new thread, so nothing keeps samples in order, and a
firing may begin while the last one's threads still run. Receivers are objects shared by
all these threads: the JSON exporter locks some of its methods, the file logger locks
nothing, and `Am2302Sensor` - "not thread safe" by its own comment - is called by one
thread per firing. Nodes start, stop and start again while samples are under way. Files
and reads of the native driver fail; the AM2302 loop retries on shared fields. A
connection to Graphite may fail at any point or hang for good. In the chart library all
extensions work on one array of series and hear of every drawing, so events of user,
server and page meet in any order, and state kept by one handler - a place in the array,
a colour, a mouse event, a frame in pixels - is used by another later. The full
list, each item with its line and the properties aimed at it, is `hazards` in
`PROJECT.json`.

**What makes the parts correct.** Bus and manager: a sample is handed to each wanting
receiver of each listening node, once, and to no other; the map keeps an entry for each
platform and type, and the last one. JSON exporter: the buffer is imported once and
first; no series outgrows its maximum or loses what it should keep; exports are spaced
and never go back. File receiver: each sample gives one line. AM2302: a sample is the
reading of its own call, outliers are retried, the call ends. DHT driver: a read that
reports success has the reading that was sent, one that fails leaves zeros, and none
leaves the thread at real-time priority. `SensorSamplor`: whatever the configuration and
the moment, the hook finds what it stops, and the process ends. Graphite: Carbon gets the
first lines of a sample and never later ones without them, and no socket stays open.
Manager: a receiver that hangs delays no other. Chart: what is on the screen - drawing,
legend, detail, frame, slider, ticks - agrees with the data, whatever came in between.

## 2. The modules

| Module | Models | Role |
|---|---|---|
| `SampleRelay` | what bus and manager promise a receiver | abstract specification |
| `SensorBus` | `SensorInvoker`, `SensorInvokerManager`, `HazelcastSensorBus`, `DistributedMap`, `SampleReceiverManager`, `SamplePatternChecker`, `SensorSamplor`'s start and hook | composition of the sampling path |
| `SensorBusProofs` | - | theorems about `SensorBus` |
| `SampleCollection` | `SampleCollection` | operators on the exporter's data |
| `JsonExporter` | `JsonExporterSampleReceiver` | threads, monitor, clock and file around `SampleCollection` |
| `LogFile` | `FileSampleReceiver` | threads and file system |
| `Am2302Sensor` | `Am2302Sensor`, effect of `pi_dht_read` | threads on the sensor's fields and native cells |
| `PiDhtRead` | `pi_dht_read`, `pi_mmio_init` | one read: counts, time-outs, decoding |
| `NodeLifecycle` | `SensorSamplor`, `ConfigurationLoader`, the configuration of all factories | the start of a process with its failures, and its end |
| `Sensors` | `HttpXmlSensor`, `SystemStatsSensor` | measurements up to their values |
| `GraphiteReceiver` | `GraphiteSampleReceiver` | one connection per sample |
| `Receivers` | `SampleReceiverManager`, `ConsolePrintSampleReceiver` | composes `Sensors`, `LogFile`, `GraphiteReceiver` |
| `RickshawData` | computations of `rickshaw.js` on points | operators |
| `RickshawGraph` | `Rickshaw.Graph`, `Series`, `FixedDuration`, `Graph.Ajax`, `Smoother` | the graph and how points come in |
| `RickshawLegend` | `Legend`, `Behavior.Series.Toggle`, `Highlight`, `Order` | extension |
| `RickshawHover` | `HoverDetail` | extension |
| `RickshawRange` | `RangeSlider`, `RangeSlider.Preview` | extension |
| `Chart` | the page and a graph with all its extensions | composes the three extensions |
| `ReceiversProofs`, `JsonExporterProofs`, `Am2302SensorProofs`, `PiDhtReadProofs`, `NodeLifecycleProofs`, `ChartProofs` | - | theorems about the module each extends; `ReceiversProofs` also has those about `LogFile` |
| `SequenceLemmas` | - | lemmas on recursive functions, sequences and division that the proofs cite |
| `MC*` | - | instances for TLC |

Actions carry the names of the methods they stand for; `map` in `PROJECT.json` gives the
lines of every definition. Operators commented as a *mutated form* are wrong variants of
the definition after them: each property of a run is violated when one of them takes the
place of its original, which shows that the property depends on the code. No
specification uses them.

### SensorBus and SampleRelay

`phase` is the progress of a process: `down`, `joined` (the bus exists), `listening`
(the listener is registered), `scheduled`, `draining` (scheduler stopped), `stopped` (the
map is gone, the process's threads still run), `down` again. `stage` is the place of a
measurement between its firing and the map; a measurement is one firing for one sensor
of one node and yields at most one sample, so it is also the sample's identity. `map`,
`events` and `threads` are the Hazelcast map, its events on their way, and receiver
threads not yet run. `received` and `audience` are history variables.

- A name is the sequence of the parts between its dashes and a key is `\o` of two of
  them, so that names with dashes can collide as they do in `createKeyOf`. A regular
  expression is the set of names it matches as a whole.
- A time stamp is the value of a counter; simultaneous stamps of different samples do
  not occur.
- A `SensorException` is possible before or, for a sensor that stamps first
  (`StampsFirst`, the HTTP sensor's order of events), after the sample's stamp. Any
  other exception ends the sensor thread. A put may fail on a running bus and always
  fails on a stopped one; both are only logged.
- Hazelcast is external: a put, its event and its listeners are one atomic step; the map
  lives while a member is up; events of a node that leaves are dropped. Merging after a
  network partition and a process that is killed without its hook are left out, and so
  is Hazelcast's own shutdown hook, which the JVM may run concurrently with the
  program's; either shortens the `draining` phase, whose sends may fail at any time in
  the model too.
- `StopInvokerManager` needs `scheduled`: the hook is registered at the end of `start`. A
  scheduler that cannot be shut down fires on: until the bus stops that is the phase
  `scheduled`, after that each send of the process fails, and such firings are left out.

`SampleRelay` knows neither map, events nor threads: a sample is posted once, and each
receiver gets a posted sample at most once and only if the patterns of its node match.
`RelayRefined` is `SensorBus` under the mapping: posted are the samples that have
reached the map, delivered is `received`.

### SampleCollection and JsonExporter

A `TreeMap` of the code is the set of the samples its entries came from; values and
text are left out. `AddSampleToTuples` polls first and puts afterwards, as the code
does, and an entry with an equal time stamp keeps its key. `CheckForDataStructure`
replaces all of a sample's series as soon as one is missing, as `createValuesFor` does.

`owner` is the receiver's monitor, taken by `importCompleteBufferIfFirstRun` and
`conditionallyCreateExport` for their whole bodies; adding to the collection does not
take it, so samples are added while an export is under way. The synchronized methods
of the collection are one step each. The static fields of the class are the variables
`firstRun`, `collection` and `lastExport`. The bus appears as its last entry per sensor
(`entries`), in put order; that an event's thread reads a buffer newer than its sample
is part of the model. The clock does not go back. A text is the state of the collection
and the number of additions it was taken after.

`Files.write` opens the file, which truncates it, and then writes: `OpenFile` makes the
file `Incomplete`, `WriteFile` puts the text there. An `IOException` may come from either
(`WriteFails`). After one of the second kind the file stays incomplete, and since the time
of the export is not updated, the next call writes again at once: `ExportsInOrder` says
what the code does promise, that a complete export is left alone for the interval, and
`IncompleteIsRewritten` that no call is put off while the file is incomplete. How much of
a text an incomplete file holds is left open; exceptions of the write other than
`IOException` are left out.

### LogFile

One call per sample or error: `looking` for the file of its kind, type and day,
`creating` it, `appending`. `createNewFile` is atomic and tells whether it created the
file. A line is appended as a whole. The directory exists, as the constructor ensures,
and nobody else removes files while the calls run.

### Am2302Sensor

Shared are the fields `returnCode`, `triesSoFar`, the cache and the two native cells.
A read sets the cells to zero, then writes both or fails. The steps are the evaluation
of the loop's condition, the start and the end of a read, the evaluation after the loop,
caching, building the sample. With `Overlap = TRUE` a coarse grain hides no behaviour
that the run needs: it already finds the disagreement. With `Overlap = FALSE` there is
one thread at a time and the grain does not matter. Values are whole numbers; the
corrections that constants add, and rounding, are left out. What a read may do to the
cells - both values with success, zeros with an error - is what `ReadsWhatWasSent` and
`ReturnsClean` check of `PiDhtRead`.

### PiDhtRead

A read asks the sensor, waits for its response, counts 41 low and 41 high pulses, each up
to `DHT_MAXCOUNT`, and interprets them. A counting loop is one step that yields its
count. The sensor and the line are external: the sensor sends the five bytes of one
reading; a pulse has its nominal count, except that one pulse of a read may have another
one. Threshold, bits, bytes, checksum and values are computed as the code does, on
integers: values stay in tenths (the code divides by `10.0f`), and C's unsigned division
and the cut to 8 bits are `\div` and `% 256`. Register access, delays, the DHT11 branch
and the check for null pointers, which no caller can fail, are left out.

### NodeLifecycle

`step` is what the main thread does next. An exception that `start` does not catch ends
that thread (`dead`) and nothing else: the threads of Hazelcast and Quartz keep the
process up. `System.exit` runs the hooks and never returns. `conf` holds, for each
property that some step can fail on, what the code makes of its value - none, empty,
malformed, valid - and, for a list, its items. Which values a step fails on comes from
the `setConfigurationValues` and `create...` methods of all factories, active or not.
`hook` and `member` are what two shutdown hooks work on: the program's, which stops the
scheduler and then the bus, and Hazelcast's own; the JVM runs them concurrently, with
the main thread still going on. When the scheduler cannot be shut down the exception is
caught and the bus is stopped all the same (`StopInvokerManagerFails`). A scheduler that was
not shut down, and the sensor and receiver threads, end with the process. In `SensorBus`
only starts that succeed appear.

### Sensors, GraphiteReceiver and Receivers

`Receivers` is one node from its sensors to its receivers. Its step is a step of a
measurement (`Sense`), one turn of the manager's loop over the receivers
(`StartReceiver`), or a step of a receiver's thread (`PrintOnConsole`, `WriteLog`,
`SendToCarbon`); `WriteLog` and `SendToCarbon` are the whole next-state relations of
`LogFile` and `GraphiteReceiver`. The bus between sensors and manager is `SensorBus`; here
it hands the node's own samples to its own listener. A post is what the log file calls a
sample: a sample or an error of one measurement.

- A document says what each path selects first: an element (its node value is null), a
  text or attribute, or nothing (the empty string). The HTTP sensor fetches one document
  and evaluates all its paths on it; any exception becomes an error, except when there is
  no source, where the catch block fails like the try block.
- All lines of a sample are made before the connection is opened, and `valueOf` fails on a
  null. `println` of a `PrintWriter` throws nothing: a line arrives unless the
  connection breaks or has broken before. `closing` is a call that has failed after the
  socket was opened. Path and time stamp of a line are left out: a line is its value.
- The documentation of the HTTP sensor's paths (`src/sensorsamplor.app/src/dist/conf/sensor-samplor.properties:72`)
  shows element paths, for which the value is null, so Graphite sends nothing of such a
  sample. `CarbonHasFirstLines` states that as it is.

### The chart: RickshawData, RickshawGraph, RickshawLegend, RickshawHover, RickshawRange, Chart

JavaScript runs one handler at a time, so an event is one step: its handler, the drawing
the handler asks for (`Render`), and the callbacks of `onUpdate` (`Updated`). A drawing
that throws does not reach the callbacks. `kit` says what a page has put together; the
viewer's own page is the kind with `source` "static" and the hover detail. The other kits
are what the library offers to a page, so this part of the project says more about the
library than about the one page that is there.

- A point has a time and, of its value, whether it is a number, null or a text.
  `stackedData` are the points last drawn. `failed` is whether the last constructor or
  drawing threw; a graph of which no constructor has come to its end is not `Built`.
- `AddRow` is `FixedDuration.addData`: new names become series filled up from the first
  one, all series get a point, and all lose their first one beyond the maximum. `Splice`
  is what a reply does, with a drawing after it: it overwrites the points of the series it
  names and, if it has them, their colours. (It can overwrite the name too; series and
  replies have no keys here, so that is the same name again.)
- `series` is the one array that `Order`, `Highlight`, `Toggle` and `addItem` work on.
- A `color` is a hue and how often that has been dimmed. `Highlight` keeps the first colour
  it sees of a series and never forgets it, so a `mouseout` after a reply with another
  colour puts back the old one (`rickshaw.js:1823`, `1847-1848`);
  `HighlightLeavesNoTrace` says what holds, that a series gets back, undimmed, a colour
  that the page or a reply gave it. `natural` and `given` are history.
- `HoverDetail` keeps the last mouse event and looks again with it after each drawing. How
  far a point is from the pointer is left open: any series may be the nearest.
- The frame of the preview is in pixels, the window in time, and the domain that relates
  them is that of the data at the moment. A drag keeps the frame it began with. The code
  rounds the left edge of a frame to a pixel and leaves the right one where it falls, so
  the model counts in grains, of which a pixel has `Grain`. With the values of the run no
  edge falls between two grains (`GrainsAreFine` in `MCChart`), so the edges are the
  code's fractions exactly; the run has frames whose right edge is a half or a third of a
  pixel off. The pointer's time is rounded down where the code has fractions.
- The units of the time axis are constants. Days, months and years begin at `starts` that
  need not be equally far apart and repeat with a `cycle` (400 years in our calendar, with
  the changes of summer time); the other units begin at the multiples of their length. A
  day in `leap` is a 29 February: the code puts a day together from its date, its month and
  its year, in this order and beginning in 1970 (`rickshaw.js:1106-1113`), where that day is
  the first of March, so its label is never made. Other units have no such day.

## 3. The runs

| Run | Distinct states | Shows |
|---|---|---|
| `bus` | 160,000 | `ProcessedOnce`, `NothingSkipped`, `EntryPerNodeAndSensor`, `Delivered`, `RelayRefined` |
| `bus_last_item` | - | violation of `KeepsLastItem` |
| `json_export` | 169,000 | `ImportGoesFirst`, `SeriesAreSound`, `NewestIsKept`, `KeepsLastNInOrder`, `IncompleteIsRewritten`, `ExportsInOrder`, `CallsReturn` |
| `json_last_n` | - | violation of `KeepsLastN` |
| `receivers` | 286,000 | `OneLinePerSample`, `SocketsAreClosed`, `CarbonHasFirstLines`, `ReceiversAreIsolated` |
| `log_every` | - | violation of `EveryMeasurementLogged` |
| `am2302_serial` | 221,000 | `SampleIsOwnReading`, `OutliersAreRetried`, `MeasureEnds` |
| `am2302_overlap` | - | violation of `SampleIsOwnReading` |
| `dht_read` | 48,000 | `ReadsWhatWasSent`, `ReturnsClean` |
| `node_start` | 28,000 | `HookStopsAll`, `TriggerFindsNodeReady`, `StopEnds` |
| `node_defaults` | - | violation of `DefaultsWork` |
| `chart` | 191,000 | `SeriesFitTogether`, `DrawnIsCurrent`, `LegendShowsDisabled`, `HighlightLeavesNoTrace`, `DetailIsNearest`, `ControlsFit`, `TicksInOrder`, `NewestStaysVisible`, `RigidDragKeepsWidth` |

Every passing run also checks its module's `TypeOK` (`NodeTypeOK` in `receivers`).

**Bounds and why they are enough.** *Bus*: two nodes, because every interaction is
between a sender, the map and one listening node, and restart, departure and survival of
the map need one other node. `MaxRounds` = 2 firings per node (and life of the model, not
of a process) lets two measurements of one sensor overlap and update one entry. Node `a`
samples and hears itself, node `b` only listens, each with one receiver: the fan-out to
several receivers is one thread more of the same kind, and the proofs cover any number.
*Exporter*: three samples of one sensor, a maximum of two entries (one
eviction, and room for another sample to stay), two other sensors whose entries may be
in the buffer - one wanted, one not -, an interval of one second and two seconds. *Log
file alone*: three calls on one file (a winner, two losers, or one late caller) and one on a
second. *Receivers*: two measurements, which may race for one log file with their samples
or with their errors; three receivers, of which the one that can hang is started first;
two paths and two documents that differ on both, one of them with a null; a sample has two
lines, so that the connection can break before, between and after them. *AM2302*: three calls (the cache empty, filled, and judged against after a
failure), four readings of which some are within both limits, some beyond one limit
only, two error codes, one of which equals the field's initial value; the number of
retries is the code's own. *DHT read*: three readings (plain, below zero, with a sum
over a byte); any one of the 82 counts may be off, by nothing counted, a count next to
the threshold on either side, a stretch that lifts the average over the count of a 1,
and the last count before and at the time-out. Two disturbed pulses in one read can
cancel out in an 8-bit sum and are beyond what the checksum promises. *Node*: the
shipped configuration and each that differs in at most two values from one that works,
so that every step is the first to fail, alone or with a later one. *Chart*: three names,
so that a line between two others can be moved, highlighted and switched; a maximum of
four points and rows beyond it, so that points are dropped several times; all pairs of
sorted lists of up to three points from {60, 120, 240} - equal times, gaps, empty lists -
and one list that begins with a text; replies of two, three and four points, with a new
colour for one series or none; a pointer at the left, at the right and between; previews of four and two pixels, of twelve grains each;
drags in both directions, beyond both borders; a calendar with months of 112 and 122 and
days of 46, 48 and 50, one of them a leap day. The axis has labels of all its units.

**Fairness.** A started thread and an arrived event are run by the JVM: weak fairness
for sender, event and receiver threads in `SensorBus!FairSpec`, for `Call(t)` in
`JsonExporter!FairSpec`, for `Step(c)` in `Am2302Sensor!FairSpec`, for the main thread,
the hooks and the JVM's own end in `NodeLifecycle!FairSpec`, for the manager's loop and
the threads of console and log file together in `Receivers!NodeSpec`: they take finitely
many steps, so fairness of all of them as one gives each its own. Nothing is assumed of
the trigger, of a sensor (an HTTP fetch has no timeout), of a connection to Graphite, of an operator who starts or
stops nodes, of the clock, or of Java monitors: in the exporter the calls are finitely
many and each leaves the monitor after finitely many steps, so weak fairness of a call
is enough. A read ends because all waits of the driver are counted (`DHT_MAXCOUNT`).

**Deadlock** is checked for the bus, where a node can always be started again. The runs
of the other modules follow finitely many calls, or one process to its end, and may stop
when those are done.

**Disagreements found.** Each is a run that TLC ends with a counterexample, and an
entry of `findings` with the lines quoted.

1. `KeepsLastItem`: the map keeps "the last item per node and sensor", but each sample
   is put by a thread of its own and time stamps are not compared; an older sample put
   late takes a newer one's place.
2. `KeepsLastN`: adding polls the oldest entry before it is known whether the put adds
   one; a sample added twice - by the import and by its own call - or late evicts one
   that belongs to the last n. `KeepsLastNInOrder` and `NewestIsKept` say what does hold.
3. `EveryMeasurementLogged`: threads that both find the day's file missing race for
   `createNewFile`; the loser throws and its sample is in no log. `OneLinePerSample` says
   what does hold.
4. `SampleIsOwnReading`: firings do not wait for each other, and overlapping calls of
   the AM2302 sensor mix up their return code, tries and cells.
5. `DefaultsWork`: the shipped configuration leaves the source of the HTTP sensor empty,
   and that sensor is not active, but all factories are configured and this one splits
   the empty text into parts it does not have. `start` ends with an exception after the
   node has joined the cluster: a member that listens, samples nothing and has no hook.

Another has no run of its own: a key joins platform and type with a dash that both may
contain, so `a` + `b-c` and `a-b` + `c` share an entry of the map, though it is to keep
"the last item per node and sensor". `EntryPerNodeAndSensor` is checked, and proved, for
names that make distinct keys.

One thing is no disagreement but worth knowing: `ReadsWhatWasSent` allows zeros
because a single low pulse that is stretched far enough lifts the average, against which
all bits are judged, over the length of a 1. All 40 bits then read 0 and the checksum
holds, so a read of 0.0 % and 0.0 degrees is reported as a success.

## 4. The proofs

`SensorBusProofs` proves, for all finite or infinite sets of nodes, sensors and
receivers, all patterns and names, and every `MaxRounds`:

| Theorem | Statement |
|---|---|
| `TypeCorrect` | `Spec => []TypeOK` |
| `BusInvariant` | `Spec => []BusInv`, the inductive invariant |
| `BusProcessesOnce` | `Spec => []ProcessedOnce` |
| `BusSkipsNothing` | `Spec => []NothingSkipped` |
| `BusKeepsEntries` | `Spec => []EntryPerNodeAndSensor`, if `KeysDistinct` |
| `BusImplementsRelay` | `Spec => RelayRefined` |

Assumed are `BusConstants` (the types of the constants) and `NoSampleIsNone` (an absent
entry is no measurement), which TLC evaluates for every instance. `BusKeepsEntries`
also assumes `KeysDistinct`, that different pairs of platform and type make different
keys; platform `a` with type `b-c` and platform `a-b` with type `c` show that it cannot be
left out.

*The argument.* None of the three safety properties is inductive. `ProcessedOnce` needs
that a measurement which is not yet put has been received by nobody
(`ReceivedWasPut`) and that an event can only come into being by the one step that puts
its sample, which `RoundsFired` supports: a measurement of a round not yet fired is
idle, so a firing never sets back one on its way. `NothingSkipped` needs that the nodes
in a sample's `audience` are running listeners (`HeardByListeners`), so that a receiver
thread they run is a finished call and never one cut short by a stopped bus.
`EntryPerNodeAndSensor` needs that each entry lies under its own key (`MapKeyed`) and
that the key of each heard sample is occupied (`HeardIsKept`); a map that is lost
with its last member is lost when nobody is left in any audience. For the refinement
`ThreadsWanted` keeps the filter's result with the thread, and `ReceivedWasPut` and
`ProcessedOnce` make the delivery new. `BusInv` was checked by TLC on small
instances before it was proved, and holds on the instance of the run `bus`. Steps that
change only the stage of a measurement, or only a phase, are dealt with by common lemmas
(`QuietStep`, `LeavingActions`); the others have a lemma each.

The other proof modules hold for any values of their constants too:

| Module | Theorems | Statement |
|---|---|---|
| `NodeLifecycleProofs` | `NodeTypeCorrect`, `NodeHookStopsAll`, `NodeTriggerReady` | `TypeOK`, `HookStopsAll`, `TriggerFindsNodeReady` |
| `JsonExporterProofs` | `ExporterTypeCorrect`, `ExporterImportsFirst`, `ExporterSeriesAreSound`, `ExporterKeepsNewest`, `ExporterRewrites` | `TypeOK`, `ImportGoesFirst`, `SeriesAreSound`, `NewestIsKept`, `IncompleteIsRewritten` |
| | `ExporterWritesInOrder` | `Spec => ExportsInOrder`, a property of steps |
| | `ExporterKeepsLastN` | `KeepsLastNInOrder`, if `SameKeys` |
| `ReceiversProofs` | `LogHasOneLinePerSample` | `OneLinePerSample` of `LogFile` |
| | `NodeImplementsLogFile` | `NodeSpec => Spec` of `LogFile`, so `OneLinePerSample` holds in the node |
| | `NodeTypeCorrect`, `NodeClosesSockets`, `NodeSendsFirstLines` | `NodeTypeOK`, `SocketsAreClosed`, `CarbonHasFirstLines` |
| `Am2302SensorProofs` | `SerialTypeCorrect`, `SerialSampleIsOwnReading`, `SerialOutliersAreRetried` | `TypeOK`, `SampleIsOwnReading`, `OutliersAreRetried`, if not `Overlap` |
| `PiDhtReadProofs` | `ReadTypeCorrect`, `ReadReturnsClean`, `ReadsOnlyWhatWasSent` | `TypeOK`, `ReturnsClean`, `ReadsWhatWasSent` |
| `ChartProofs` | `ChartTypeCorrect`, `SeriesFit`, `ScreenIsCurrent` | `TypeOK`, `SeriesFitTogether`, `DrawnIsCurrent` |
| | `LegendShowsWhatIsOff`, `HighlightIsUndone` | `LegendShowsDisabled`, `HighlightLeavesNoTrace` |
| | `DetailIsUpToDate`, `ControlsAgree`, `LabelsFollow` | `DetailIsNearest`, `ControlsFit`, `TicksInOrder` |
| | `NewestStays`, `RigidFrameKeepsWidth` | `NewestStaysVisible`, `RigidDragKeepsWidth`, properties of steps |

Assumed are the named assumptions on constants of each module, which TLC evaluates for
every instance. `ExporterKeepsLastN` also assumes `SameKeys`, that the samples of a sensor
have the same keys: a new key makes `CheckForDataStructure` replace the old series.
`NewestIsKept` has that condition in itself. Without `not Overlap` the statements about
`Am2302Sensor` are false, as the run `am2302_overlap` shows.

What the theorems about the chart assume, and why the code justifies it:

- `DataConstants`: days, months and years last between three quarters and one and a half of
  the seconds the code gives their unit, and their starts repeat. A day lasts 23 to 25 of
  its 24 hours, a month 28 to 31 of its 30.5 days, a year 365 or 366 of 365.25.
- `PointConstants`: the points that a page or a server hands out are in order of time, as
  the exporter writes them.
- `GraphConstants`, `HoverConstants`: `Undefined` is none of the values it stands beside.
  A `FixedDuration` of one or two points, into which the constructor fills nothing, is
  left out.
- `RangeConstants`: the widths of the preview and the minimum width of its frame are whole
  pixels; the widths, in grains, divide `TimeInterval`, so that a grain is a whole number
  of time units, as the code's times need no rounding; and the minimum width is 0, the
  code's default (`rickshaw.js:2528`), or there is one width only. The theorems hold for
  every `Grain`, also one that cuts the fractions of a right edge.
- `KitConstants`: what a page puts together, without the combinations that section 5 sets
  aside.

*The arguments.*
- `LogFile`: a call that has lost the race for a file, or is about to, has a winner before
  it (`RacesHaveWinners`): a call that appends, has appended, or met an `IOException`. Who
  met one has failed for good (`ErrorsHaveFailed`), so a winner is never lost. The lines of
  a file are counted against the calls that have returned (`LinesAreLogged`).
- `Receivers`: what has been sent keeps its values (`SentStays`), because nothing measures
  the same again, and no call runs for what has not been sent (`CallsFollowSending`); so
  the lines of a call are those of one sample. The lines that have arrived are the first
  ones printed, and all of those while there is no trouble (`ArrivedArePrinted`). An open
  socket belongs to a call that will still close it (`SocketsAreHeld`).
- `JsonExporter`: who is inside the synchronized methods owns the monitor (`MonitorHeld`),
  from which the order of imports follows. For the exports, the
  last complete text, the one about to be written and the collection have no fewer
  additions each than the one before (`TextsInOrder`); the last complete write is stamped
  before the monitor is left, and nothing is stamped while the file is incomplete
  (`ExportsAreTimed`). A series stays within its
  maximum because polling drops the earliest entry (`EarliestEntry`, `NewestLeaveRoom`),
  for which all times in it must differ (`Distinct`). That the last n stay needs that the
  newest of the kept are the newest of all (`NewestOfMore`).
- `Am2302Sensor`: the shared fields are those of the one call that runs (`FieldsAreOwn`),
  the cache is the last sample until the next is built (`CacheFollows`), and what passes
  the loop is no outlier or has used up its tries (`OutliersJudged`).
- `PiDhtRead`: during a read the cells hold the zeros it began with (`ReadInv`). If a high
  pulse is disturbed the threshold is the nominal low count, and at most one bit is wrong:
  it changes one byte by no more than 128 and so the sum, and the checksum does not hold
  (`OneBitOff`). If a low pulse is, only the threshold moves: between the counts of a 0 and a
  1 all bits are right (`RightBits`); above both all are 0, which the checksum accepts;
  below both all are 1, which it does not.
- `NodeLifecycle`: `LifeInv`. The hook is registered last (`HookComesLast`), when the
  scheduler has been made (`SchedulerIsMade`), so the start makes nothing anew behind it,
  and once it is through the node is no member (`HookHasLeft`). When the listener is due
  the node is no member or listens (`MembersListen`), and the trigger is only set
  afterwards (`ScheduledIsReady`).
- `Chart`, series: legend, lines and series have the same names, none twice, and something
  is on (`LegendInv`). While a line of an unstacked graph is highlighted its series has been
  taken from its place and put last, and the place kept is the one it came from; for
  a dimmed series a colour has been kept, and what is kept has been given (`HighlightInv`). That needs that nothing else moves
  the series meanwhile, which is the condition on kits with the highlight.
- `Chart`, points: all series of a `FixedDuration` are the same last rows (`RowsInv`). What
  comes from a page or a reply is in order of time, and filled up it is as the page gave it
  with zeros in between (`PointsInv`). Filling up puts in a point for each time
  that a series lacks, in passes over lists that grow while the code walks them: after
  each pass the lists agree up to the place reached, and fewer points of all lists lie beyond
  it (`Passed`), so the passes end with lists that agree wholly.
- `Chart`, screen: unless drawing threw, what is drawn is what is to be drawn now
  (`ScreenInv`), and its slices are those of the series, in order (`SlicesInv`, `DrawnInv`). The
  detail is about one of them (`HoverInv`): the code's walk over the points comes to rest
  where a point is not after and the next one is after the pointer's time.
- `Chart`, range: a window begins early enough to leave room for the smallest frame and ends
  before the data does or not at all (`WindowInv`), which stays so while rows come in and
  old ones go (`RoomLater`). A rigid drag asks for a frame as wide as it was
  (`FrameAfterFacts`), and its times are exact, for a grain is a whole number of them; drawn
  again, its right edge is where it was and its left one the nearest pixel (`RoundTrip`), or
  the edge of the preview. `SliderInv` ties the
  handles to the window.
- `Chart`, ticks: a gap between two starts is at least three quarters of the unit and less
  than one and a half, so half a unit after a start the next start has not begun, and from
  there the next one is found within a unit; a leap day is found and left for the next day.

*Induction.* The theorems of the library that take an operator cannot be used with the
provers at hand. `SetInduction` of `SequenceLemmas` says the same of a set of numbers, and
follows from the well-foundedness of `<`; with it the recursive functions of the models
(sums, the filling up, the labels, the first place of a value in a sequence) are shown to
exist and to have the properties needed. No model uses RECURSIVE operators.

*Only model-checked:* liveness (`Delivered`, `CallsReturn`, `MeasureEnds`, `StopEnds`,
`ReceiversAreIsolated`), which is out of the prover's reach with the fairness it rests on.
All other properties of the runs, invariants and properties of steps, are proved.

## 5. What is not modelled

Parsing of property files, network configuration, text formats, rounding, the values of
samples, cron arithmetic (Quartz), replication (Hazelcast), and the build are left out.

Of the sample viewer: loading the export and building the page's elements; SVG output and
the renderers; the Y axis, axes other than the one of time, palettes and how
colours are dimmed, annotations, number formats; vertical positions and distances. About a third of the lines
of `rickshaw.js` are modelled: the part that keeps state or computes on times and places
in arrays.

*Set aside in the chart*, because the code does not do there what its comments or its users
could expect; each was seen with TLC or by reading while the kits of `MCChart` were chosen,
and no kit contains it:

- Highlight with Order, or with a new series on an unstacked graph: `mouseout` moves
  whatever series is last to the place kept (`rickshaw.js:1842`), under the comment "return
  reordered series to its original place".
- A resize in the middle of a drag: the drag goes on with the frame of the old width, and
  the window can end up beyond the data with the frame sticking out.
- A `minimumFrameWidth` over 0 together with a resize, or of a broken number of pixels: the
  frame sticks out by it, and the window can then get stuck beyond the data. The run uses
  the default, 0.
- Slider and preview on one graph: each sets the window without the other following.
- A drag with several fingers (its distance is NaN);
  `renderer.configure` with options that are false.
- The preview or the slider on a `FixedDuration` of at most three points, which has only
  one time at first, so that the domain the pixels are computed with is empty.
- A `FixedDuration` that is given series with more than one point, or none at all. With one
  empty series its first row repeats the time of the last point it was filled with.
- Stack layouts for slices of different length.
- While the pointer is outside the drawing, or no series has a point in the window, the
  detail is not looked for and an old one stays (`DetailIsNearest` says when it is current).
- A detail about a text: the default `yFormatter` throws on it (`rickshaw.js:2048`), in the
  middle of `update`, so the detail stays as it was. The model shows the point.
- With the slider's handles put together the graph keeps its window but the handles move
  (`ControlsFit` excepts it).
- At or after the last point the second to last one may be shown (`DetailIsNearest`
  excepts it), and on a day of 25 hours the first tick may lie before the domain.
- The label of 29 February is missing (`TicksInOrder` excepts it). East of Greenwich a year
  that begins just at the left edge has none either, because `ceil` compares with the
  UTC year (`rickshaw.js:1142`); this is not in the model.

*Seen on the page while reading*: `processData` stops at the first series the graph refuses
(an empty one, or one of texts); a request during an export, or after one that failed, reads an incomplete file,
which is ignored in silence; charts are made in a copy that is then inserted as text, so
their listeners are lost; the detail's date takes seconds for milliseconds.

## 6. Plan

Done: the sampling path with its abstract specification and proofs; exporter, log file,
AM2302 sensor and driver, and the life of a process; the other sensors and receivers and
their composition; the chart library of the viewer; proofs of all safety properties of
the runs.

Next, in this order:

1. `Receivers` implements a specification in which each call of a receiver is a single
   step, stated, checked and proved.
2. An abstract specification of the DHT read that `PiDhtRead` implements and
   `Am2302Sensor` uses in place of its own two read actions.
3. A composition of `SensorBus` with the exporter in place of its `entries`, so that
   the exporter's import is checked against real joins and restarts.
