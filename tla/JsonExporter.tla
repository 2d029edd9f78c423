----------------------------- MODULE JsonExporter -----------------------------
(***************************************************************************)
(* JsonExporterSampleReceiver.processSample, run by one receiver thread    *)
(* per sample (SampleReceiverManager.ReceiverRunner): the first call       *)
(* imports the buffer of the bus, every call adds its sample to the        *)
(* collection, and a call that comes late enough after the last export     *)
(* writes the whole collection to the output file.  Files.write truncates  *)
(* the file before it writes: in between, and for good when writing fails, *)
(* the file is incomplete.                                                 *)
(*                                                                         *)
(* The synchronized methods share one monitor, that of the receiver (the   *)
(* variable owner); adding to the collection does not take it.  The bus    *)
(* appears as what a receiver sees of it: the last entry of each sensor.   *)
(***************************************************************************)
EXTENDS SampleCollection

CONSTANTS
  Live,                     \* the wanted samples this node gets events for
  Wanted,                   \* the samples that match and are no errors
  EXPORT_INTERVAL_SECONDS,
  MaxTime,                  \* bound: seconds followed
  Nobody,                   \* the monitor is free
  NoEntry,                  \* the buffer has no entry for the sensor
  Incomplete                \* the file is empty or holds a part of a text

ASSUME ExporterConstants ==
  /\ Wanted \subseteq Sample
  /\ Live \subseteq Wanted
  /\ EXPORT_INTERVAL_SECONDS \in Nat \ {0}
  /\ MaxTime \in Nat
  /\ Nobody \notin Sample
  /\ NoEntry \notin Sample

\* A text is a state of the collection and when, in additions, it was taken.
Texts == [data : Collections, version : Nat]

Blank == [data |-> EmptyCollection, version |-> 0]

ASSUME IncompleteIsNoText == Incomplete \notin Texts

VARIABLES
  entries,     \* sensor -> the sample the bus keeps for it
  stage,       \* live sample -> how far the thread of its call is
  buffer,      \* live sample -> the buffered samples still to be imported
  owner,       \* whose thread is in the receiver's monitor
  firstRun,    \* no buffer has been imported yet
  collection,  \* the SampleCollection
  json,        \* live sample -> the JSON text its thread is about to write
  file,        \* the output file: the text last written, or Incomplete
  lastExport,  \* when the last successful export ended
  now,         \* the clock
  version,     \* how many samples have been added (history)
  added,       \* the samples added to the collection (history)
  inOrder,     \* each sensor's samples were added in their order, only the
               \* very first possibly again at once (history)
  complete     \* the version of the last complete write and when it ended
               \* (history)

adding  == <<collection, version, added, inOrder>>
writing == <<json, file, lastExport, complete>>
vars    == <<entries, stage, buffer, owner, firstRun, adding, writing, now>>

Stages == {"idle", "started", "called", "importing", "imported", "added",
           "exporting", "writing", "opened", "stamping", "done"}

Advance(t, from, to) == stage[t] = from /\ stage' = [stage EXCEPT ![t] = to]

Free == owner = Nobody

\* The entries the bus may hold when the node joins.
Init ==
  /\ entries \in [Sensors -> (Sample \ Live) \cup {NoEntry}]
  /\ \A x \in Sensors : entries[x] # NoEntry => SensorOf[entries[x]] = x
  /\ stage = [t \in Live |-> "idle"]
  /\ buffer = [t \in Live |-> {}]
  /\ owner = Nobody
  /\ firstRun = TRUE
  /\ collection = EmptyCollection
  /\ json = [t \in Live |-> Blank]
  /\ file = Blank
  /\ lastExport = 0
  /\ now = 0
  /\ version = 0
  /\ added = {}
  /\ inOrder = TRUE
  /\ complete = [version |-> 0, at |-> 0]
-----------------------------------------------------------------------------
\* The bus: the sample is put into the map and its receiver thread started.
Publish(t) ==
  /\ Advance(t, "idle", "started")
  /\ entries' = [entries EXCEPT ![SensorOf[t]] = t]
  /\ UNCHANGED <<buffer, owner, firstRun, adding, writing, now>>

Tick ==
  /\ now < MaxTime
  /\ now' = now + 1
  /\ UNCHANGED <<entries, stage, buffer, owner, firstRun, adding, writing>>

\* Mutated form of InvokeSampleReceiver: vacant entries are not left out.
InvokeWithVacantEntries(t) ==
  /\ Advance(t, "started", "called")
  /\ buffer' = [buffer EXCEPT ![t] = {entries[x] : x \in Sensors}]
  /\ UNCHANGED <<entries, owner, firstRun, adding, writing, now>>

\* ReceiverRunner: the buffer is read, then processSample is called.  (The
\* call for an ErrorSample, processError, does nothing.)
InvokeSampleReceiver(t) ==
  /\ Advance(t, "started", "called")
  /\ buffer' = [buffer EXCEPT ![t] = {entries[x] : x \in Sensors} \ {NoEntry}]
  /\ UNCHANGED <<entries, owner, firstRun, adding, writing, now>>

\* Mutated form of AddToCollection: buffered samples are not filtered again.
AddUnfiltered(s) ==
  /\ collection' = AddSample(collection, s)
  /\ version' = version + 1
  /\ added' = added \cup {s}
  /\ inOrder' = (inOrder /\ \A x \in added :
                   SensorOf[x] = SensorOf[s] => TimeOf[x] < TimeOf[s])

\* addToCollection: the filter, and addSample in the collection's monitor.
AddToCollection(s) ==
  LET before == {x \in added : SensorOf[x] = SensorOf[s]} IN
  IF s \in Wanted
  THEN /\ collection' = AddSample(collection, s)
       /\ version' = version + 1
       /\ added' = added \cup {s}
       /\ inOrder' = (inOrder /\ (before = {s} \/ \A x \in before : TimeOf[x] < TimeOf[s]))
  ELSE UNCHANGED adding
-----------------------------------------------------------------------------
(* importCompleteBufferIfFirstRun, one buffered sample at a time.          *)

\* Mutated form of BeginImport: the method is not synchronized.
BeginImportUnsynchronized(t) ==
  /\ Advance(t, "called", "importing")
  /\ firstRun
  /\ UNCHANGED <<entries, buffer, owner, firstRun, adding, writing, now>>

BeginImport(t) ==
  /\ Free
  /\ firstRun
  /\ Advance(t, "called", "importing")
  /\ owner' = t
  /\ UNCHANGED <<entries, buffer, firstRun, adding, writing, now>>

ImportSample(t, s) ==
  /\ stage[t] = "importing"
  /\ s \in buffer[t]
  /\ AddToCollection(s)
  /\ buffer' = [buffer EXCEPT ![t] = @ \ {s}]
  /\ UNCHANGED <<entries, stage, owner, firstRun, writing, now>>

EndImport(t) ==
  /\ buffer[t] = {}
  /\ Advance(t, "importing", "imported")
  /\ firstRun' = FALSE
  /\ owner' = Nobody
  /\ UNCHANGED <<entries, buffer, adding, writing, now>>

SkipImport(t) ==
  /\ Free
  /\ ~firstRun
  /\ Advance(t, "called", "imported")
  /\ buffer' = [buffer EXCEPT ![t] = {}]
  /\ UNCHANGED <<entries, owner, firstRun, adding, writing, now>>

AddOwnSample(t) ==
  /\ Advance(t, "imported", "added")
  /\ AddToCollection(t)
  /\ UNCHANGED <<entries, buffer, owner, firstRun, writing, now>>
-----------------------------------------------------------------------------
(* conditionallyCreateExport.                                              *)

EnoughTimeHasPassed == now >= lastExport + EXPORT_INTERVAL_SECONDS

\* Mutated form of BeginExport: the method is not synchronized.
BeginExportUnsynchronized(t) ==
  /\ EnoughTimeHasPassed
  /\ Advance(t, "added", "exporting")
  /\ UNCHANGED <<entries, buffer, owner, firstRun, adding, writing, now>>

BeginExport(t) ==
  /\ Free
  /\ EnoughTimeHasPassed
  /\ Advance(t, "added", "exporting")
  /\ owner' = t
  /\ UNCHANGED <<entries, buffer, firstRun, adding, writing, now>>

SkipExport(t) ==
  /\ Free
  /\ ~EnoughTimeHasPassed
  /\ Advance(t, "added", "done")
  /\ UNCHANGED <<entries, buffer, owner, firstRun, adding, writing, now>>

ToJSON(t) ==
  /\ Advance(t, "exporting", "writing")
  /\ json' = [json EXCEPT ![t] = [data |-> collection, version |-> version]]
  /\ UNCHANGED <<entries, buffer, owner, firstRun, adding, file, lastExport,
                 complete, now>>

\* Files.write opens the file: what it held is gone.
OpenFile(t) ==
  /\ Advance(t, "writing", "opened")
  /\ file' = Incomplete
  /\ UNCHANGED <<entries, buffer, owner, firstRun, adding, json, lastExport,
                 complete, now>>

WriteFile(t) ==
  /\ Advance(t, "opened", "stamping")
  /\ file' = json[t]
  /\ complete' = [version |-> json[t].version, at |-> now]
  /\ json' = [json EXCEPT ![t] = Blank]
  /\ UNCHANGED <<entries, buffer, owner, firstRun, adding, lastExport, now>>

\* Mutated form of WriteFails: a lock that is not released on an IOException.
WriteFailsLocked(t) ==
  /\ stage[t] \in {"writing", "opened"}
  /\ stage' = [stage EXCEPT ![t] = "done"]
  /\ json' = [json EXCEPT ![t] = Blank]
  /\ UNCHANGED <<entries, buffer, owner, firstRun, adding, file, lastExport,
                 complete, now>>

\* Mutated form of WriteFails: the export is stamped in a finally block.
WriteFailsStamped(t) ==
  /\ stage[t] \in {"writing", "opened"}
  /\ stage' = [stage EXCEPT ![t] = "done"]
  /\ json' = [json EXCEPT ![t] = Blank]
  /\ lastExport' = now
  /\ owner' = Nobody
  /\ UNCHANGED <<entries, buffer, firstRun, adding, file, complete, now>>

\* An IOException, of the opening or of the writing, is logged.  A file that
\* was opened stays incomplete; nothing is stamped, so that the next call
\* tries again at once.
WriteFails(t) ==
  /\ stage[t] \in {"writing", "opened"}
  /\ stage' = [stage EXCEPT ![t] = "done"]
  /\ json' = [json EXCEPT ![t] = Blank]
  /\ owner' = Nobody
  /\ UNCHANGED <<entries, buffer, firstRun, adding, file, lastExport,
                 complete, now>>

UpdateLastExportTimestamp(t) ==
  /\ Advance(t, "stamping", "done")
  /\ lastExport' = now
  /\ owner' = Nobody
  /\ UNCHANGED <<entries, buffer, firstRun, adding, json, file, complete, now>>
-----------------------------------------------------------------------------
Call(t) ==
  \/ InvokeSampleReceiver(t)
  \/ BeginImport(t)
  \/ \E s \in Sample : ImportSample(t, s)
  \/ EndImport(t)
  \/ SkipImport(t)
  \/ AddOwnSample(t)
  \/ BeginExport(t)
  \/ SkipExport(t)
  \/ ToJSON(t)
  \/ OpenFile(t)
  \/ WriteFile(t)
  \/ WriteFails(t)
  \/ UpdateLastExportTimestamp(t)

Next == Tick \/ \E t \in Live : Publish(t) \/ Call(t)

Spec == Init /\ [][Next]_vars

\* A started thread is run by the JVM.  Java monitors need not be fair: the
\* calls followed are finitely many, each holds the monitor for finitely many
\* steps, and once they are done it stays free for the thread that waits.
FairSpec == Spec /\ \A t \in Live : WF_vars(Call(t))
-----------------------------------------------------------------------------
TypeOK ==
  /\ entries \in [Sensors -> Sample \cup {NoEntry}]
  /\ stage \in [Live -> Stages]
  /\ buffer \in [Live -> SUBSET Sample]
  /\ owner \in Live \cup {Nobody}
  /\ firstRun \in BOOLEAN
  /\ collection \in Collections
  /\ json \in [Live -> Texts]
  /\ file \in Texts \cup {Incomplete}
  /\ lastExport \in 0..MaxTime
  /\ now \in 0..MaxTime
  /\ version \in Nat
  /\ added \subseteq Sample
  /\ inOrder \in BOOLEAN
  /\ complete \in [version : Nat, at : 0..MaxTime]

\* The buffer is imported by one call, and before any call adds its own
\* sample, however many calls start at once.
ImportGoesFirst ==
  /\ \A t, u \in Live : stage[t] = "importing" /\ stage[u] = "importing" => t = u
  /\ firstRun =>
       \A t \in Live : stage[t] \in {"idle", "started", "called", "importing"}
  /\ ~firstRun => \A t \in Live : stage[t] # "importing"

\* Whatever is imported or added by whichever thread, a series of the collection or
\* of a complete file holds nothing the patterns exclude and no error, although the
\* buffer does, only samples of its own, and no more of them than the configured
\* maximum.
SeriesAreSound ==
  \A r \in Series :
  \A kept \in {Entries(collection, r)}
               \cup {Entries(text.data, r) : text \in {file} \ {Incomplete}} :
    /\ kept \subseteq {s \in Wanted : r \in SeriesOf(s)}
    /\ Cardinality(kept) <= maximumEntriesPerSensor

AddedTo(r) == {s \in added : r \in SeriesOf(s)}

\* "Keeps the last n sensor items for every node and sensor": each series is
\* the maximumEntriesPerSensor newest of the samples added to it.
KeepsLastN ==
  \A r \in Series :
    Entries(collection, r) = Newest(AddedTo(r), maximumEntriesPerSensor)

\* The code keeps the last n when each sensor's samples are added in the order
\* of their time stamps; the first may be added twice, as it is by the call
\* that imports its own sample with the buffer and then adds it.
KeepsLastNInOrder == inOrder => KeepsLastN

SameKeys ==
  \A s, u \in Sample : SensorOf[s] = SensorOf[u] => KeysOf[s] = KeysOf[u]

\* In any order of calls the newest sample added to a series is still in it,
\* if there is room for two and a sensor's keys never change.
NewestIsKept ==
  maximumEntriesPerSensor >= 2 /\ SameKeys =>
    \A r \in Series : AddedTo(r) # {} =>
      \E t \in Entries(collection, r) : \A s \in AddedTo(r) : TimeOf[s] <= TimeOf[t]

\* "Don't export more than once every n seconds": what a complete export has written
\* nobody touches for the interval, also when several calls find it is time, and an
\* export that is completed later never goes back to an older state of the collection,
\* whatever failed in between.
ExportsInOrder ==
  [][file' # file =>
       /\ now >= complete.at + EXPORT_INTERVAL_SECONDS
       /\ file' # Incomplete => file'.version >= complete.version]_vars

\* While the file is incomplete, because it is being written or because writing it has
\* failed, it is time for an export: no call that comes to it is put off until the
\* interval is over, and the reader of the file does not wait for that.
IncompleteIsRewritten == file = Incomplete => EnoughTimeHasPassed

\* Every call returns: no thread waits for the monitor for ever, also when the
\* file cannot be written.
CallsReturn == \A t \in Live : stage[t] = "called" ~> stage[t] = "done"
=============================================================================
