-------------------------- MODULE JsonExporterProofs --------------------------
(***************************************************************************)
(* Proofs about SampleCollection and JsonExporter, for any samples, keys,  *)
(* intervals and maxima, and any number of concurrent calls.               *)
(***************************************************************************)
EXTENDS JsonExporter, FiniteSetTheorems, WellFoundedInduction, TLAPS

\* TreeMap keys are times: no two entries of a series have the same.
Distinct(tuples) == \A t, u \in tuples : TimeOf[t] = TimeOf[u] => t = u

\* What a series may hold.
SoundSeries(r, tuples) ==
  /\ tuples \subseteq {s \in Wanted : r \in SeriesOf(s)}
  /\ IsFiniteSet(tuples)
  /\ Cardinality(tuples) <= maximumEntriesPerSensor
  /\ Distinct(tuples)

Sound(data) == \A r \in DOMAIN data : SoundSeries(r, data[r])

Newer(tuples, t) == {u \in tuples : TimeOf[u] > TimeOf[t]}
-----------------------------------------------------------------------------
(* SampleCollection                                                        *)

\* A series with entries has an earliest one.
LEMMA EarliestEntry ==
  ASSUME NEW tuples \in SUBSET Sample, tuples # {}
  PROVE  \E t \in tuples : \A u \in tuples : TimeOf[t] <= TimeOf[u]
<1> DEFINE times == {TimeOf[t] : t \in tuples}
<1>1. times \subseteq Nat /\ times # {} BY CollectionConstants
<1>2. \E n \in times : \A k \in times : ~(<<k, n>> \in OpToRel(<, Nat))
  <2> HIDE DEF times
  <2> QED BY <1>1, NatLessThanWellFounded, WFMin
<1>3. PICK n \in times : \A k \in times : ~(<<k, n>> \in OpToRel(<, Nat)) BY <1>2
<1>4. \A k \in times : ~(k < n)
  BY <1>1, <1>3 DEF OpToRel
<1>5. PICK t \in tuples : TimeOf[t] = n BY <1>3
<1>6. ASSUME NEW u \in tuples PROVE TimeOf[t] <= TimeOf[u]
  <2>1. TimeOf[u] \in times /\ TimeOf[u] \in Nat /\ TimeOf[t] \in Nat BY CollectionConstants
  <2>2. ~(TimeOf[u] < n) BY <1>4, <2>1
  <2> QED BY <1>5, <2>1, <2>2
<1> QED BY <1>6

\* There is room for one more among the newest maximumEntriesPerSensor - 1.
LEMMA NewestLeaveRoom ==
  ASSUME NEW tuples \in SUBSET Sample, IsFiniteSet(tuples), Distinct(tuples),
         Cardinality(tuples) <= maximumEntriesPerSensor
  PROVE  /\ Newest(tuples, maximumEntriesPerSensor - 1) \subseteq tuples
         /\ IsFiniteSet(Newest(tuples, maximumEntriesPerSensor - 1))
         /\ Cardinality(Newest(tuples, maximumEntriesPerSensor - 1))
              <= maximumEntriesPerSensor - 1
<1> DEFINE n == maximumEntriesPerSensor
           rest == Newest(tuples, n - 1)
<1>1. n \in Nat \ {0} /\ Cardinality(tuples) \in Nat
  BY CollectionConstants, FS_CardinalityType
<1>2. rest \subseteq tuples BY DEF Newest
<1>3. IsFiniteSet(rest) /\ Cardinality(rest) \in Nat /\ Cardinality(rest) <= Cardinality(tuples)
  BY <1>2, FS_Subset, FS_CardinalityType
<1>4. CASE Cardinality(tuples) < n
  BY <1>1, <1>2, <1>3, <1>4
<1>5. CASE Cardinality(tuples) = n
  <2>1. tuples # {} BY <1>1, <1>5, FS_EmptySet
  <2>2. PICK t \in tuples : \A u \in tuples : TimeOf[t] <= TimeOf[u]
    BY <2>1, EarliestEntry
  <2>3. Newer(tuples, t) = tuples \ {t}
    BY <2>2, CollectionConstants DEF Newer, Distinct
  <2>4. IsFiniteSet(tuples \ {t}) /\ Cardinality(tuples \ {t}) = n - 1
    BY <1>5, FS_RemoveElement
  <2>5. t \notin rest BY <1>1, <2>3, <2>4 DEF Newest, Newer
  <2>6. rest \subseteq tuples \ {t} BY <1>2, <2>5
  <2>7. Cardinality(rest) <= n - 1 BY <2>4, <2>6, FS_Subset
  <2> QED BY <1>2, <1>3, <2>7
<1> QED BY <1>1, <1>4, <1>5

\* Adding keeps a series sound.
LEMMA AddKeepsSound ==
  ASSUME NEW r, NEW tuples, SoundSeries(r, tuples), NEW s \in Wanted, r \in SeriesOf(s)
  PROVE  SoundSeries(r, AddSampleToTuples(tuples, s))
<1> DEFINE n == maximumEntriesPerSensor
           rest == Newest(tuples, n - 1)
<1>1. tuples \in SUBSET Sample BY ExporterConstants DEF SoundSeries
<1>2. rest \subseteq tuples /\ IsFiniteSet(rest) /\ Cardinality(rest) <= n - 1
  BY <1>1, NewestLeaveRoom DEF SoundSeries
<1>3. n \in Nat \ {0} /\ Cardinality(rest) \in Nat
  BY <1>2, CollectionConstants, FS_CardinalityType
<1> HIDE DEF rest
<1>4. Distinct(rest) BY <1>2 DEF SoundSeries, Distinct
<1>5. CASE \E t \in rest : TimeOf[t] = TimeOf[s]
  <2>1. AddSampleToTuples(tuples, s) = rest BY <1>5 DEF AddSampleToTuples, rest
  <2> QED BY <1>2, <1>3, <1>4, <2>1 DEF SoundSeries
<1>6. CASE ~\E t \in rest : TimeOf[t] = TimeOf[s]
  <2>1. AddSampleToTuples(tuples, s) = rest \cup {s} BY <1>6 DEF AddSampleToTuples, rest
  <2>2. IsFiniteSet(rest \cup {s}) /\ Cardinality(rest \cup {s}) <= n
    <3>1. /\ IsFiniteSet(rest \cup {s})
          /\ Cardinality(rest \cup {s}) \in {Cardinality(rest), Cardinality(rest) + 1}
      BY <1>2, FS_AddElement, Zenon
    <3>2. n \in Nat /\ Cardinality(rest) <= n - 1 BY <1>2, <1>3
    <3> HIDE DEF n
    <3> QED BY <1>3, <3>1, <3>2
  <2>3. Distinct(rest \cup {s}) BY <1>4, <1>6 DEF Distinct
  <2> QED BY <1>2, <2>1, <2>2, <2>3 DEF SoundSeries
<1> QED BY <1>5, <1>6

\* addSample: where the collection changes, and into what.
LEMMA AddSampleShape ==
  ASSUME NEW data, NEW s
  PROVE  /\ DOMAIN AddSample(data, s) = DOMAIN data \cup SeriesOf(s)
         /\ \A r \in (DOMAIN data) \ SeriesOf(s) : AddSample(data, s)[r] = data[r]
         /\ \A r \in SeriesOf(s) :
              AddSample(data, s)[r] = AddSampleToTuples(IF HasValues(data, s) THEN data[r]
                                                                             ELSE {}, s)
<1>1. CASE HasValues(data, s)
  <2>1. CheckForDataStructure(data, s) = data /\ SeriesOf(s) \subseteq DOMAIN data
    BY <1>1 DEF CheckForDataStructure, HasValues
  <2> QED BY <1>1, <2>1 DEF AddSample
<1>2. CASE ~HasValues(data, s)
  <2>1. CheckForDataStructure(data, s) =
          [r \in DOMAIN data \cup SeriesOf(s) |-> IF r \in SeriesOf(s) THEN {} ELSE data[r]]
    BY <1>2 DEF CheckForDataStructure
  <2> QED BY <1>2, <2>1 DEF AddSample
<1> QED BY <1>1, <1>2

LEMMA AddSampleKeepsSound ==
  ASSUME NEW data, Sound(data), NEW s \in Wanted
  PROVE  Sound(AddSample(data, s))
<1> SUFFICES ASSUME NEW r \in DOMAIN data \cup SeriesOf(s)
             PROVE  SoundSeries(r, AddSample(data, s)[r])
  BY AddSampleShape DEF Sound
<1>1. CASE r \notin SeriesOf(s)
  BY <1>1, AddSampleShape DEF Sound
<1>2. CASE r \in SeriesOf(s)
  <2> DEFINE old == IF HasValues(data, s) THEN data[r] ELSE {}
  <2>1. SoundSeries(r, old)
    <3>1. SoundSeries(r, {})
      BY FS_EmptySet, CollectionConstants DEF SoundSeries, Distinct
    <3>2. HasValues(data, s) => SoundSeries(r, data[r])
      BY <1>2 DEF HasValues, Sound
    <3> QED BY <3>1, <3>2
  <2>2. AddSample(data, s)[r] = AddSampleToTuples(old, s) BY <1>2, AddSampleShape
  <2> HIDE DEF old
  <2> QED BY <1>2, <2>1, <2>2, AddKeepsSound
<1> QED BY <1>1, <1>2

LEMMA EmptyIsCollection == EmptyCollection \in Collections
<1>1. [r \in {} |-> {}] \in [{} -> SUBSET Sample] OBVIOUS
<1>2. {} \in SUBSET Series OBVIOUS
<1> QED BY <1>1, <1>2 DEF EmptyCollection, Collections

\* A collection stays one.
LEMMA AddSampleType ==
  ASSUME NEW data \in Collections, NEW s \in Sample
  PROVE  AddSample(data, s) \in Collections
<1> DEFINE checked == CheckForDataStructure(data, s)
<1>1. SeriesOf(s) \subseteq Series
  BY CollectionConstants DEF SeriesOf, Series, Sensors
<1>2. PICK existing \in SUBSET Series : data \in [existing -> SUBSET Sample]
  BY DEF Collections
<1>3. PICK domain \in SUBSET Series : checked \in [domain -> SUBSET Sample]
  <2>1. CASE HasValues(data, s)
    <3>1. checked = data BY <2>1 DEF CheckForDataStructure
    <3> QED BY <1>2, <3>1
  <2>2. CASE ~HasValues(data, s)
    <3>1. checked = [r \in existing \cup SeriesOf(s) |->
                       IF r \in SeriesOf(s) THEN {} ELSE data[r]]
      BY <1>2, <2>2 DEF CheckForDataStructure
    <3>2. existing \cup SeriesOf(s) \in SUBSET Series BY <1>1, <1>2
    <3>3. checked \in [existing \cup SeriesOf(s) -> SUBSET Sample]
      BY <1>2, <3>1
    <3> QED BY <3>2, <3>3
  <2> QED BY <2>1, <2>2
<1> HIDE DEF checked
<1>4. \A tuples \in SUBSET Sample : AddSampleToTuples(tuples, s) \in SUBSET Sample
  BY DEF AddSampleToTuples, Newest
<1>5. AddSample(data, s) = [r \in domain |-> IF r \in SeriesOf(s)
                                             THEN AddSampleToTuples(checked[r], s)
                                             ELSE checked[r]]
  BY <1>3 DEF AddSample, checked
<1>6. AddSample(data, s) \in [domain -> SUBSET Sample]
  BY <1>3, <1>4, <1>5
<1> QED BY <1>6 DEF Collections
-----------------------------------------------------------------------------
(* The monitor                                                             *)

Inside == {"importing", "exporting", "writing", "opened", "stamping"}

\* Who is inside the receiver's synchronized methods owns its monitor.
MonitorHeld == \A t \in Live : owner = t <=> stage[t] \in Inside

MonitorInv == TypeOK /\ MonitorHeld /\ ImportGoesFirst

\* The calls keep their types.
LEMMA TypeSteps == TypeOK /\ [Next]_vars => TypeOK'
<1> SUFFICES ASSUME TypeOK, [Next]_vars PROVE TypeOK'
  OBVIOUS
<1> USE ExporterConstants DEF TypeOK, Texts, Advance, Stages
<1>1. ASSUME NEW s \in Sample, AddToCollection(s)
      PROVE  /\ collection' \in Collections
             /\ version' \in Nat
             /\ added' \subseteq Sample
             /\ inOrder' \in BOOLEAN
  <2>1. AddSample(collection, s) \in Collections BY AddSampleType
  <2>2. CASE s \in Wanted
    <3>1. /\ collection' = AddSample(collection, s)
          /\ version' = version + 1
          /\ added' = added \cup {s}
      BY <1>1, <2>2 DEF AddToCollection
    <3>2. inOrder' \in BOOLEAN BY <1>1, <2>2 DEF AddToCollection
    <3> QED BY <2>1, <3>1, <3>2
  <2>3. CASE s \notin Wanted BY <1>1, <2>3 DEF AddToCollection, adding
  <2> QED BY <2>2, <2>3
<1>2. CASE Tick BY <1>2 DEF Tick, adding, writing
<1>3. ASSUME NEW t \in Live, Publish(t) PROVE TypeOK'
  BY <1>3 DEF Publish, adding, writing, Sensors
<1>4. ASSUME NEW t \in Live, Call(t) PROVE TypeOK'
  <2>1. CASE InvokeSampleReceiver(t) BY <2>1 DEF InvokeSampleReceiver, adding, writing
  <2>2. CASE BeginImport(t) BY <2>2 DEF BeginImport, adding, writing
  <2>3. ASSUME NEW s \in Sample, ImportSample(t, s) PROVE TypeOK'
    BY <1>1, <2>3 DEF ImportSample, writing
  <2>4. CASE EndImport(t) BY <2>4 DEF EndImport, adding, writing
  <2>5. CASE SkipImport(t) BY <2>5 DEF SkipImport, adding, writing
  <2>6. CASE AddOwnSample(t) BY <1>1, <2>6 DEF AddOwnSample, writing
  <2>7. CASE BeginExport(t) BY <2>7 DEF BeginExport, adding, writing
  <2>8. CASE SkipExport(t) BY <2>8 DEF SkipExport, adding, writing
  <2>9. CASE ToJSON(t) BY <2>9 DEF ToJSON, adding
  <2>10. Blank \in Texts BY EmptyIsCollection DEF Blank
  <2>11. CASE WriteFile(t) BY <2>10, <2>11 DEF WriteFile, adding
  <2>12. CASE WriteFails(t) BY <2>10, <2>12 DEF WriteFails, adding
  <2>13. CASE UpdateLastExportTimestamp(t)
    BY <2>13 DEF UpdateLastExportTimestamp, adding
  <2>14. CASE OpenFile(t) BY <2>14 DEF OpenFile, adding
  <2> QED BY <1>4, <2>1, <2>2, <2>3, <2>4, <2>5, <2>6, <2>7, <2>8, <2>9, <2>11, <2>12, <2>13,
             <2>14 DEF Call
<1>5. CASE UNCHANGED vars BY <1>5 DEF vars, adding, writing
<1> QED BY <1>2, <1>3, <1>4, <1>5 DEF Next

\* One call at a time is inside the monitor, and imports go first.
LEMMA MonitorSteps ==
  TypeOK /\ MonitorHeld /\ ImportGoesFirst /\ [Next]_vars => MonitorHeld' /\ ImportGoesFirst'
<1> SUFFICES ASSUME TypeOK, MonitorHeld, ImportGoesFirst, [Next]_vars
             PROVE  MonitorHeld' /\ ImportGoesFirst'
  OBVIOUS
<1> USE ExporterConstants DEF TypeOK, MonitorHeld, Inside, ImportGoesFirst, Advance, Free, Stages
<1>1. CASE Tick BY <1>1 DEF Tick
<1>2. ASSUME NEW t \in Live, Publish(t) PROVE MonitorHeld' /\ ImportGoesFirst'
  BY <1>2 DEF Publish
<1>3. ASSUME NEW t \in Live, Call(t) PROVE MonitorHeld' /\ ImportGoesFirst'
  <2>1. CASE InvokeSampleReceiver(t) BY <2>1 DEF InvokeSampleReceiver
  <2>2. CASE BeginImport(t) BY <2>2 DEF BeginImport
  <2>3. ASSUME NEW s \in Sample, ImportSample(t, s) PROVE MonitorHeld' /\ ImportGoesFirst'
    BY <2>3 DEF ImportSample
  <2>4. CASE EndImport(t) BY <2>4 DEF EndImport
  <2>5. CASE SkipImport(t) BY <2>5 DEF SkipImport
  <2>6. CASE AddOwnSample(t) BY <2>6 DEF AddOwnSample
  <2>7. CASE BeginExport(t) BY <2>7 DEF BeginExport
  <2>8. CASE SkipExport(t) BY <2>8 DEF SkipExport
  <2>9. CASE ToJSON(t) BY <2>9 DEF ToJSON
  <2>10. CASE WriteFile(t) BY <2>10 DEF WriteFile
  <2>11. CASE WriteFails(t) BY <2>11 DEF WriteFails
  <2>12. CASE UpdateLastExportTimestamp(t) BY <2>12 DEF UpdateLastExportTimestamp
  <2>13. CASE OpenFile(t) BY <2>13 DEF OpenFile
  <2> QED BY <1>3, <2>1, <2>2, <2>3, <2>4, <2>5, <2>6, <2>7, <2>8, <2>9, <2>10, <2>11, <2>12,
             <2>13 DEF Call
<1>4. CASE UNCHANGED vars BY <1>4 DEF vars
<1> QED BY <1>1, <1>2, <1>3, <1>4 DEF Next

\* Types, the monitor and the order of imports.
THEOREM ExporterMonitor == Spec => []MonitorInv
<1>1. Init => MonitorInv
  <2> SUFFICES ASSUME Init PROVE MonitorInv
    OBVIOUS
  <2> USE ExporterConstants DEF Init
  <2>1. Blank \in Texts /\ EmptyCollection \in Collections
    BY EmptyIsCollection DEF Blank, Texts
  <2>2. entries \in [Sensors -> Sample \cup {NoEntry}] OBVIOUS
  <2>3. TypeOK BY <2>1, <2>2 DEF TypeOK, Stages
  <2>4. MonitorHeld BY DEF MonitorHeld, Inside
  <2>5. ImportGoesFirst BY DEF ImportGoesFirst
  <2> QED BY <2>3, <2>4, <2>5 DEF MonitorInv
<1>2. MonitorInv /\ [Next]_vars => MonitorInv'
  BY TypeSteps, MonitorSteps DEF MonitorInv
<1> QED BY <1>1, <1>2, PTL DEF Spec

\* The types of monitor, buffers, collection, texts and clock.
THEOREM ExporterTypeCorrect == Spec => []TypeOK
<1>1. MonitorInv => TypeOK BY DEF MonitorInv
<1> QED BY <1>1, ExporterMonitor, PTL

\* One call imports the buffer, before any call adds its own sample.
THEOREM ExporterImportsFirst == Spec => []ImportGoesFirst
<1>1. MonitorInv => ImportGoesFirst BY DEF MonitorInv
<1> QED BY <1>1, ExporterMonitor, PTL
-----------------------------------------------------------------------------
(* Exports                                                                 *)

\* Whose thread has found that enough time has passed and holds the monitor.
Exporting == {"exporting", "writing", "opened"}

\* The last complete write is stamped before the monitor is left, who is about to write
\* has found that enough time has passed since, and so it has for an incomplete file.
ExportsAreTimed ==
  /\ complete.at <= now /\ lastExport <= now
  /\ (\A t \in Live : stage[t] # "stamping") => complete.at <= lastExport
  /\ \A t \in Live : stage[t] \in Exporting => EnoughTimeHasPassed
  /\ \A t \in Live : stage[t] = "stamping" => file # Incomplete
  /\ IncompleteIsRewritten

\* The last complete text, what is about to be written and the collection are in order.
TextsInOrder ==
  /\ complete.version <= version
  /\ file # Incomplete => file.version <= version
  /\ \A t \in Live : stage[t] \in {"writing", "opened"} =>
       complete.version <= json[t].version /\ json[t].version <= version

ExportInv == ExportsAreTimed /\ TextsInOrder

\* Steps that leave file, texts and stamps alone keep the exports in order, unless they
\* begin one.
LEMMA AsideSteps ==
  ASSUME TypeOK, MonitorHeld, ExportInv,
         UNCHANGED writing, now' >= now, now' \in Nat,
         \A t \in Live : stage'[t] \in Exporting \cup {"stamping"} \/
                         stage[t] \in Exporting \cup {"stamping"} =>
                           stage'[t] = stage[t],
         UNCHANGED adding \/ version' = version + 1
  PROVE  ExportInv'
<1> USE ExporterConstants DEF TypeOK, writing, adding
<1>1. lastExport \in Nat /\ now \in Nat /\ complete.at \in Nat /\ complete.version \in Nat
      /\ version \in Nat /\ version' \in Nat /\ version <= version'
  OBVIOUS
<1>2. EnoughTimeHasPassed => EnoughTimeHasPassed' BY <1>1 DEF EnoughTimeHasPassed
<1>3. ExportsAreTimed'
  BY <1>1, <1>2 DEF ExportInv, ExportsAreTimed, IncompleteIsRewritten, Exporting
<1>4. TextsInOrder'
  BY <1>1 DEF ExportInv, TextsInOrder, Exporting, Texts
<1> QED BY <1>3, <1>4 DEF ExportInv

\* The steps of an export.
LEMMA ExportSteps ==
  ASSUME TypeOK, MonitorHeld, ExportInv, NEW t \in Live,
         BeginExport(t) \/ ToJSON(t) \/ OpenFile(t) \/ WriteFile(t) \/ WriteFails(t)
           \/ UpdateLastExportTimestamp(t)
  PROVE  ExportInv'
<1> USE ExporterConstants, IncompleteIsNoText DEF TypeOK, Advance, Stages, Texts, Exporting
<1>1. \A u \in Live \ {t} : /\ stage[u] \notin Exporting \cup {"stamping"}
                            /\ stage'[u] = stage[u] /\ json'[u] = json[u]
  BY DEF BeginExport, ToJSON, OpenFile, WriteFile, WriteFails, UpdateLastExportTimestamp,
         MonitorHeld, Inside, Free, writing
<1>2. collection' = collection /\ version' = version
  BY DEF BeginExport, ToJSON, OpenFile, WriteFile, WriteFails, UpdateLastExportTimestamp, adding
<1>3. CASE BeginExport(t)
  BY <1>1, <1>2, <1>3 DEF BeginExport, ExportInv, ExportsAreTimed, TextsInOrder,
     EnoughTimeHasPassed, IncompleteIsRewritten, writing
<1>4. CASE ToJSON(t)
  BY <1>1, <1>2, <1>4 DEF ToJSON, ExportInv, ExportsAreTimed, TextsInOrder,
     EnoughTimeHasPassed, IncompleteIsRewritten
<1>5. CASE OpenFile(t)
  BY <1>1, <1>2, <1>5 DEF OpenFile, ExportInv, ExportsAreTimed, TextsInOrder,
     EnoughTimeHasPassed, IncompleteIsRewritten
<1>6. CASE WriteFile(t)
  BY <1>1, <1>2, <1>6 DEF WriteFile, ExportInv, ExportsAreTimed, TextsInOrder,
     EnoughTimeHasPassed, IncompleteIsRewritten
<1>7. CASE WriteFails(t)
  BY <1>1, <1>2, <1>7 DEF WriteFails, ExportInv, ExportsAreTimed, TextsInOrder,
     EnoughTimeHasPassed, IncompleteIsRewritten
<1>8. CASE UpdateLastExportTimestamp(t)
  BY <1>1, <1>2, <1>8 DEF UpdateLastExportTimestamp, ExportInv, ExportsAreTimed, TextsInOrder,
     EnoughTimeHasPassed, IncompleteIsRewritten
<1> QED BY <1>3, <1>4, <1>5, <1>6, <1>7, <1>8

\* The invariant of clock, stamps and texts.
THEOREM ExporterTexts == Spec => []ExportInv
<1>1. Init => ExportInv
  <2>1. Blank \in Texts BY EmptyIsCollection DEF Blank, Texts
  <2> QED BY <2>1, IncompleteIsNoText DEF Init, ExportInv, ExportsAreTimed, TextsInOrder, Blank,
             Exporting, IncompleteIsRewritten
<1>2. MonitorInv /\ ExportInv /\ [Next]_vars => ExportInv'
  <2> SUFFICES ASSUME MonitorInv, ExportInv, [Next]_vars PROVE ExportInv'
    OBVIOUS
  <2> USE ExporterConstants DEF MonitorInv
  <2>1. CASE Tick
    <3>1. now' >= now /\ now' \in Nat /\ UNCHANGED <<stage, adding, writing>>
      BY <2>1 DEF Tick, TypeOK
    <3> QED BY <3>1, AsideSteps
  <2>2. CASE UNCHANGED vars
    <3>1. now' >= now /\ now' \in Nat /\ UNCHANGED <<stage, adding, writing>>
      BY <2>2 DEF vars, TypeOK
    <3> QED BY <3>1, AsideSteps
  <2>3. ASSUME NEW t \in Live,
               \/ Publish(t) \/ InvokeSampleReceiver(t) \/ BeginImport(t)
               \/ (\E s \in Sample : ImportSample(t, s)) \/ EndImport(t) \/ SkipImport(t)
               \/ AddOwnSample(t) \/ SkipExport(t)
        PROVE  ExportInv'
    <3>1. now' >= now /\ now' \in Nat /\ UNCHANGED writing
      BY <2>3 DEF Publish, InvokeSampleReceiver, BeginImport, ImportSample, EndImport, SkipImport,
                  AddOwnSample, SkipExport, TypeOK
    <3>2. UNCHANGED adding \/ version' = version + 1
      BY <2>3 DEF Publish, InvokeSampleReceiver, BeginImport, ImportSample, EndImport, SkipImport,
                  AddOwnSample, SkipExport, AddToCollection
    <3>3. \A u \in Live : stage'[u] \in Exporting \cup {"stamping"} \/
                          stage[u] \in Exporting \cup {"stamping"} =>
                            stage'[u] = stage[u]
      BY <2>3 DEF Publish, InvokeSampleReceiver, BeginImport, ImportSample, EndImport, SkipImport,
                  AddOwnSample, SkipExport, Advance, TypeOK, Exporting
    <3> QED BY <3>1, <3>2, <3>3, AsideSteps
  <2> QED BY <2>1, <2>2, <2>3, ExportSteps DEF Next, Call
<1> QED BY <1>1, <1>2, ExporterMonitor, PTL DEF Spec

\* A complete export stands for the interval, and is never followed by an older one.
THEOREM ExporterWritesInOrder == Spec => ExportsInOrder
<1>1. MonitorInv /\ ExportInv /\ [Next]_vars =>
        [file' # file =>
           /\ now >= complete.at + EXPORT_INTERVAL_SECONDS
           /\ file' # Incomplete => file'.version >= complete.version]_vars
  <2> SUFFICES ASSUME MonitorInv, ExportInv, Next, file' # file
               PROVE  /\ now >= complete.at + EXPORT_INTERVAL_SECONDS
                      /\ file' # Incomplete => file'.version >= complete.version
    OBVIOUS
  <2>1. PICK t \in Live : OpenFile(t) \/ WriteFile(t)
    BY DEF Next, Tick, Publish, Call, InvokeSampleReceiver, BeginImport, ImportSample, EndImport,
           SkipImport, AddOwnSample, BeginExport, SkipExport, ToJSON, WriteFails,
           UpdateLastExportTimestamp, writing
  <2>2. stage[t] \in {"writing", "opened"} /\ file' \in {Incomplete, json[t]}
        /\ json[t] \in Texts
    BY <2>1 DEF OpenFile, WriteFile, Advance, MonitorInv, TypeOK
  <2>3. \A u \in Live : stage[u] # "stamping"
    BY <2>2 DEF MonitorInv, MonitorHeld, Inside
  <2>4. now >= complete.at + EXPORT_INTERVAL_SECONDS
    BY <2>2, <2>3, ExporterConstants
       DEF ExportInv, ExportsAreTimed, Exporting, EnoughTimeHasPassed, MonitorInv, TypeOK
  <2>5. file' # Incomplete => file'.version >= complete.version
    BY <2>2 DEF ExportInv, TextsInOrder, MonitorInv, TypeOK, Texts
  <2> QED BY <2>4, <2>5
<1> QED BY <1>1, ExporterMonitor, ExporterTexts, PTL DEF Spec, ExportsInOrder

\* A file left incomplete is written again by the next call.
THEOREM ExporterRewrites == Spec => []IncompleteIsRewritten
<1>1. ExportInv => IncompleteIsRewritten BY DEF ExportInv, ExportsAreTimed
<1> QED BY <1>1, ExporterTexts, PTL
-----------------------------------------------------------------------------
(* What the series hold                                                    *)

\* Each sample added has its series, and these hold nothing else.
SeriesOfAdded ==
  /\ added \subseteq Wanted /\ IsFiniteSet(added)
  /\ \A s \in added : SeriesOf(s) \subseteq DOMAIN collection
  /\ \A r \in DOMAIN collection : collection[r] \subseteq added

\* If a sensor's keys never change: the newest sample stays, and samples added in their
\* order have distinct times and leave the newest.
NewestStays ==
  SameKeys =>
    /\ NewestIsKept
    /\ inOrder => /\ \A s, u \in added :
                       SensorOf[s] = SensorOf[u] /\ TimeOf[s] = TimeOf[u] => s = u
                  /\ KeepsLastN

TextsAreSound ==
  /\ Sound(collection)
  /\ file # Incomplete => Sound(file.data)
  /\ \A t \in Live : Sound(json[t].data)

CollectionInv == SeriesOfAdded /\ TextsAreSound

LEMMA SeriesInCommon ==
  ASSUME SameKeys, NEW s \in Sample, NEW u \in Sample, NEW r \in SeriesOf(s)
  PROVE  /\ r \in SeriesOf(u) <=> SensorOf[u] = SensorOf[s]
         /\ r \in SeriesOf(u) => SeriesOf(u) = SeriesOf(s)
BY DEF SameKeys, SeriesOf

\* The collection is sound and knows what has been added.
LEMMA AddingKeepsCollection ==
  ASSUME TypeOK, CollectionInv, NEW s \in Wanted, AddToCollection(s)
  PROVE  SeriesOfAdded' /\ Sound(collection')
<1>1. collection' = AddSample(collection, s) /\ added' = added \cup {s}
  BY DEF AddToCollection
<1>2. Sound(collection')
  BY <1>1, AddSampleKeepsSound DEF CollectionInv, TextsAreSound
<1>3. added' \subseteq Wanted /\ IsFiniteSet(added')
  BY <1>1, FS_AddElement DEF CollectionInv, SeriesOfAdded
<1>4. DOMAIN collection' = DOMAIN collection \cup SeriesOf(s)
  BY <1>1, AddSampleShape
<1>5. \A u \in added' : SeriesOf(u) \subseteq DOMAIN collection'
  BY <1>1, <1>4 DEF CollectionInv, SeriesOfAdded
<1>6. ASSUME NEW r \in DOMAIN collection' PROVE collection'[r] \subseteq added'
  <2>1. CASE r \notin SeriesOf(s)
    BY <1>1, <1>4, <2>1, AddSampleShape DEF CollectionInv, SeriesOfAdded
  <2>2. CASE r \in SeriesOf(s)
    <3> DEFINE old == IF HasValues(collection, s) THEN collection[r] ELSE {}
    <3>1. old \subseteq added BY <2>2 DEF HasValues, CollectionInv, SeriesOfAdded
    <3>2. AddSample(collection, s)[r] = AddSampleToTuples(old, s) BY <2>2, AddSampleShape
    <3> HIDE DEF old
    <3>3. AddSampleToTuples(old, s) \subseteq old \cup {s}
      BY DEF AddSampleToTuples, Newest
    <3> QED BY <1>1, <3>1, <3>2, <3>3
  <2> QED BY <2>1, <2>2
<1> QED BY <1>2, <1>3, <1>5, <1>6 DEF SeriesOfAdded

\* Nothing is added: texts are taken and written as they are.
LEMMA CopyingKeepsTexts ==
  ASSUME TypeOK, CollectionInv, UNCHANGED adding,
         \/ UNCHANGED <<json, file>>
         \/ \E t \in Live : ToJSON(t) \/ OpenFile(t) \/ WriteFile(t) \/ WriteFails(t)
  PROVE  CollectionInv'
<1>1. Sound(EmptyCollection) BY DEF Sound, EmptyCollection
<1>2. SeriesOfAdded' BY DEF CollectionInv, SeriesOfAdded, adding
<1>3. CASE UNCHANGED <<json, file>>
  BY <1>2, <1>3 DEF CollectionInv, TextsAreSound, adding
<1>4. ASSUME NEW t \in Live, ToJSON(t) \/ OpenFile(t) \/ WriteFile(t) \/ WriteFails(t)
      PROVE  CollectionInv'
  <2> USE DEF CollectionInv, TextsAreSound, adding, TypeOK
  <2>1. \A u \in Live \ {t} : json'[u] = json[u]
    BY <1>4 DEF ToJSON, OpenFile, WriteFile, WriteFails
  <2>2. Sound(json'[t].data)
    BY <1>1, <1>4 DEF ToJSON, OpenFile, WriteFile, WriteFails, Blank
  <2>3. file' # Incomplete => Sound(file'.data)
    BY <1>4 DEF ToJSON, OpenFile, WriteFile, WriteFails
  <2> QED BY <1>2, <2>1, <2>2, <2>3
<1> QED BY <1>3, <1>4

\* The invariant of the collection and of what is written of it.
THEOREM ExporterCollection == Spec => []CollectionInv
<1>1. Init => CollectionInv
  BY FS_EmptySet DEF Init, CollectionInv, SeriesOfAdded, TextsAreSound, Sound, EmptyCollection,
                     Blank
<1>2. TypeOK /\ CollectionInv /\ [Next]_vars => CollectionInv'
  <2> SUFFICES ASSUME TypeOK, CollectionInv, [Next]_vars PROVE CollectionInv'
    OBVIOUS
  <2>1. ASSUME NEW s \in Sample, AddToCollection(s), UNCHANGED writing
        PROVE  CollectionInv'
    <3>1. CASE s \in Wanted
      <4>1. SeriesOfAdded' /\ Sound(collection') BY <2>1, <3>1, AddingKeepsCollection
      <4> QED BY <2>1, <4>1 DEF CollectionInv, TextsAreSound, writing
    <3>2. CASE s \notin Wanted
      <4>1. UNCHANGED adding /\ UNCHANGED <<json, file>>
        BY <2>1, <3>2 DEF AddToCollection, writing
      <4> QED BY <4>1, CopyingKeepsTexts
    <3> QED BY <3>1, <3>2
  <2>2. ASSUME NEW t \in Live, (\E s \in Sample : ImportSample(t, s)) \/ AddOwnSample(t)
        PROVE  CollectionInv'
    BY <2>1, <2>2, ExporterConstants DEF ImportSample, AddOwnSample
  <2>3. ASSUME NEW t \in Live, ToJSON(t) \/ OpenFile(t) \/ WriteFile(t) \/ WriteFails(t)
        PROVE  CollectionInv'
    <3>1. UNCHANGED adding BY <2>3 DEF ToJSON, OpenFile, WriteFile, WriteFails
    <3> QED BY <2>3, <3>1, CopyingKeepsTexts
  <2>4. ASSUME NEW t \in Live,
               \/ Publish(t) \/ InvokeSampleReceiver(t) \/ BeginImport(t) \/ EndImport(t)
               \/ SkipImport(t) \/ BeginExport(t) \/ SkipExport(t) \/ UpdateLastExportTimestamp(t)
        PROVE  CollectionInv'
    <3>1. UNCHANGED adding /\ UNCHANGED <<json, file>>
      BY <2>4 DEF Publish, InvokeSampleReceiver, BeginImport, EndImport, SkipImport, BeginExport,
                  SkipExport, UpdateLastExportTimestamp, writing
    <3> QED BY <3>1, CopyingKeepsTexts
  <2>5. CASE Tick \/ UNCHANGED vars
    <3>1. UNCHANGED adding /\ UNCHANGED <<json, file>>
      BY <2>5 DEF Tick, vars, writing
    <3> QED BY <3>1, CopyingKeepsTexts
  <2> QED BY <2>2, <2>3, <2>4, <2>5 DEF Next, Call
<1> QED BY <1>1, <1>2, ExporterTypeCorrect, PTL DEF Spec

\* No series holds more than the maximum, or anything that is not wanted or its own.
THEOREM ExporterSeriesAreSound == Spec => []SeriesAreSound
<1>1. CollectionInv => SeriesAreSound
  <2> SUFFICES ASSUME CollectionInv, NEW r \in Series,
                      NEW data \in {collection} \cup {text.data : text \in {file} \ {Incomplete}}
               PROVE  /\ Entries(data, r) \subseteq {s \in Wanted : r \in SeriesOf(s)}
                      /\ Cardinality(Entries(data, r)) <= maximumEntriesPerSensor
    BY DEF SeriesAreSound
  <2>1. Sound(data) BY DEF CollectionInv, TextsAreSound
  <2>2. CASE r \in DOMAIN data BY <2>1, <2>2 DEF Sound, SoundSeries, Entries
  <2>3. CASE r \notin DOMAIN data
    BY <2>3, FS_EmptySet, CollectionConstants DEF Entries
  <2> QED BY <2>2, <2>3
<1> QED BY <1>1, ExporterCollection, PTL
-----------------------------------------------------------------------------
(* Which samples stay                                                      *)

\* After later samples the newest of all are the newest of those kept.
LEMMA NewestOfMore ==
  ASSUME NEW A \in SUBSET Sample, IsFiniteSet(A), NEW s \in Sample,
         \A x \in A : TimeOf[x] < TimeOf[s]
  PROVE  AddSampleToTuples(Newest(A, maximumEntriesPerSensor), s)
           = Newest(A \cup {s}, maximumEntriesPerSensor)
<1> DEFINE n == maximumEntriesPerSensor
           kept == Newest(A, n)
           rest == Newest(kept, n - 1)
<1>1. n \in Nat \ {0} /\ \A x \in Sample : TimeOf[x] \in Nat BY CollectionConstants
<1>2. \A x \in A : IsFiniteSet(Newer(A, x)) /\ Cardinality(Newer(A, x)) \in Nat
  BY FS_Subset, FS_CardinalityType DEF Newer
<1>3. kept = {t \in A : Cardinality(Newer(A, t)) < n} BY DEF Newest, Newer
<1>4. ASSUME NEW t \in kept PROVE Newer(kept, t) = Newer(A, t)
  <2> SUFFICES ASSUME NEW u \in Newer(A, t) PROVE u \in kept
    BY <1>3 DEF Newer
  <2>1. t \in A /\ u \in A /\ Newer(A, u) \subseteq Newer(A, t)
    BY <1>1, <1>3 DEF Newer
  <2>2. Cardinality(Newer(A, u)) <= Cardinality(Newer(A, t))
    BY <1>2, <2>1, FS_Subset
  <2>3. Cardinality(Newer(A, t)) < n /\ Cardinality(Newer(A, t)) \in Nat
        /\ Cardinality(Newer(A, u)) \in Nat
    BY <1>2, <1>3, <2>1
  <2> QED BY <1>1, <1>3, <2>1, <2>2, <2>3
<1>5. rest = {t \in A : Cardinality(Newer(A, t)) < n - 1}
  <2>1. rest = {t \in kept : Cardinality(Newer(kept, t)) < n - 1} BY DEF Newest, Newer
  <2> HIDE DEF rest, kept
  <2>2. rest = {t \in kept : Cardinality(Newer(A, t)) < n - 1} BY <1>4, <2>1
  <2>3. \A t \in A : Cardinality(Newer(A, t)) < n - 1 => Cardinality(Newer(A, t)) < n
    BY <1>1, <1>2
  <2> QED BY <1>3, <2>2, <2>3
<1>6. AddSampleToTuples(kept, s) = rest \cup {s}
  <2>1. ~\E t \in rest : TimeOf[t] = TimeOf[s] BY <1>1, <1>5
  <2> QED BY <2>1 DEF AddSampleToTuples
<1>7. Newest(A \cup {s}, n) = {t \in A \cup {s} : Cardinality(Newer(A \cup {s}, t)) < n}
  BY DEF Newest, Newer
<1>8. Newer(A \cup {s}, s) = {} BY <1>1 DEF Newer
<1>9. ASSUME NEW t \in A
      PROVE  Cardinality(Newer(A \cup {s}, t)) < n <=> Cardinality(Newer(A, t)) < n - 1
  <2>1. Newer(A \cup {s}, t) = Newer(A, t) \cup {s} /\ s \notin Newer(A, t)
    BY <1>1 DEF Newer
  <2>2. Cardinality(Newer(A, t) \cup {s}) = Cardinality(Newer(A, t)) + 1
    BY <1>2, <2>1, FS_AddElement
  <2>3. Cardinality(Newer(A \cup {s}, t)) = Cardinality(Newer(A, t)) + 1 BY <2>1, <2>2
  <2>4. n \in Nat /\ Cardinality(Newer(A, t)) \in Nat BY <1>1, <1>2
  <2> HIDE DEF n
  <2> QED BY <2>3, <2>4
<1>10. Cardinality(Newer(A \cup {s}, s)) < n BY <1>1, <1>8, FS_EmptySet
<1> HIDE DEF rest, kept, n
<1>11. Newest(A \cup {s}, n) = rest \cup {s} BY <1>5, <1>7, <1>9, <1>10
<1> QED BY <1>6, <1>11 DEF kept, n

\* The same sample again changes nothing.
LEMMA NewestOfOne ==
  ASSUME NEW s \in Sample
  PROVE  AddSampleToTuples(Newest({s}, maximumEntriesPerSensor), s)
           = Newest({s}, maximumEntriesPerSensor)
<1>1. maximumEntriesPerSensor \in Nat \ {0} /\ TimeOf[s] \in Nat BY CollectionConstants
<1>2. {u \in {s} : TimeOf[u] > TimeOf[s]} = {} BY <1>1
<1>3. \A n \in Int : Newest({s}, n) = IF 0 < n THEN {s} ELSE {}
  BY <1>2, FS_EmptySet DEF Newest
<1> QED BY <1>1, <1>3 DEF AddSampleToTuples

\* If a sensor's keys never change, no series is ever replaced by an empty one.
LEMMA AddToEntries ==
  ASSUME SameKeys, CollectionInv, NEW s \in Wanted, NEW r \in SeriesOf(s)
  PROVE  Entries(AddSample(collection, s), r)
           = AddSampleToTuples(Entries(collection, r), s)
<1>1. CASE HasValues(collection, s)
  BY <1>1, AddSampleShape DEF Entries, HasValues
<1>2. CASE ~HasValues(collection, s)
  <2>1. Entries(collection, r) = {}
    <3> SUFFICES ASSUME r \in DOMAIN collection, NEW u \in collection[r] PROVE FALSE
      BY DEF Entries
    <3>1. u \in added BY DEF CollectionInv, SeriesOfAdded
    <3>2. u \in Sample /\ s \in Sample /\ r \in SeriesOf(u)
      BY ExporterConstants DEF CollectionInv, TextsAreSound, Sound, SoundSeries
    <3>3. SeriesOf(s) \subseteq DOMAIN collection
      BY <3>1, <3>2, SeriesInCommon DEF CollectionInv, SeriesOfAdded
    <3> QED BY <1>2, <3>3 DEF HasValues
  <2>2. r \in DOMAIN AddSample(collection, s) BY AddSampleShape
  <2>3. AddSample(collection, s)[r] = AddSampleToTuples({}, s)
    <3> DEFINE old == IF HasValues(collection, s) THEN collection[r] ELSE {}
    <3>1. AddSample(collection, s)[r] = AddSampleToTuples(old, s) BY AddSampleShape
    <3>2. old = {} BY <1>2
    <3> HIDE DEF old
    <3> QED BY <3>1, <3>2
  <2> QED BY <2>1, <2>2, <2>3 DEF Entries
<1> QED BY <1>1, <1>2

\* An adding call keeps the newest.
LEMMA AddingKeepsNewest ==
  ASSUME SameKeys, TypeOK, CollectionInv, NewestStays, NEW s \in Wanted, AddToCollection(s)
  PROVE  NewestStays'
<1> DEFINE n == maximumEntriesPerSensor
           E(r) == Entries(collection, r)
<1>1. /\ collection' = AddSample(collection, s) /\ added' = added \cup {s}
      /\ inOrder' = (inOrder /\ (\/ {x \in added : SensorOf[x] = SensorOf[s]} = {s}
                                 \/ \A x \in {y \in added : SensorOf[y] = SensorOf[s]} :
                                      TimeOf[x] < TimeOf[s]))
  BY DEF AddToCollection
<1>2. s \in Sample /\ added \subseteq Sample /\ n \in Nat \ {0}
      /\ \A x \in Sample : TimeOf[x] \in Nat
  BY ExporterConstants, CollectionConstants DEF CollectionInv, SeriesOfAdded
<1>3. ASSUME NEW r \in Series, r \notin SeriesOf(s)
      PROVE  AddedTo(r)' = AddedTo(r) /\ Entries(collection, r)' = E(r)
  <2>1. AddedTo(r)' = AddedTo(r) BY <1>1, <1>3 DEF AddedTo
  <2>2. Entries(AddSample(collection, s), r) = E(r)
    BY <1>3, AddSampleShape DEF Entries
  <2> QED BY <1>1, <2>1, <2>2
<1>4. ASSUME NEW r \in SeriesOf(s)
      PROVE  /\ AddedTo(r)' = AddedTo(r) \cup {s}
             /\ AddedTo(r) = {x \in added : SensorOf[x] = SensorOf[s]}
             /\ Entries(collection, r)' = AddSampleToTuples(E(r), s)
             /\ E(r) \subseteq AddedTo(r)
  <2>1. AddedTo(r)' = AddedTo(r) \cup {s} BY <1>1 DEF AddedTo
  <2>2. AddedTo(r) = {x \in added : SensorOf[x] = SensorOf[s]}
    BY <1>2, SeriesInCommon DEF AddedTo
  <2>3. Entries(collection, r)' = AddSampleToTuples(E(r), s)
    BY <1>1, AddToEntries
  <2>4. E(r) \subseteq AddedTo(r)
    BY DEF Entries, AddedTo, CollectionInv, SeriesOfAdded, TextsAreSound, Sound, SoundSeries
  <2> QED BY <2>1, <2>2, <2>3, <2>4
<1>5. SeriesOf(s) \subseteq Series
  BY <1>2, CollectionConstants DEF SeriesOf, Series, Sensors
<1>6. NewestIsKept'
  <2> SUFFICES ASSUME n >= 2, NEW r \in Series, AddedTo(r)' # {}
               PROVE  \E t \in Entries(collection, r)' :
                        \A x \in AddedTo(r)' : TimeOf[x] <= TimeOf[t]
    BY DEF NewestIsKept, SameKeys
  <2>1. AddedTo(r) # {} =>
          \E t \in E(r) : \A x \in AddedTo(r) : TimeOf[x] <= TimeOf[t]
    BY DEF NewestStays, NewestIsKept
  <2>2. CASE r \notin SeriesOf(s) BY <1>3, <2>1, <2>2
  <2>3. CASE r \in SeriesOf(s)
    <3> DEFINE rest == Newest(E(r), n - 1)
    <3>1. AddSampleToTuples(E(r), s) = IF \E t \in rest : TimeOf[t] = TimeOf[s]
                                       THEN rest ELSE rest \cup {s}
      BY DEF AddSampleToTuples
    <3>2. rest \subseteq E(r) BY DEF Newest
    <3>3. ASSUME NEW t \in E(r), \A x \in AddedTo(r) : TimeOf[x] <= TimeOf[t]
          PROVE  t \in rest
      <4>1. {u \in E(r) : TimeOf[u] > TimeOf[t]} = {}
        BY <1>2, <1>4, <2>3, <3>3 DEF AddedTo
      <4>2. Cardinality({u \in E(r) : TimeOf[u] > TimeOf[t]}) = 0
        BY <4>1, FS_EmptySet, Zenon
      <4>3. n \in Nat /\ 0 < n - 1 BY <1>2
      <4> HIDE DEF E, n
      <4> QED BY <3>3, <4>2, <4>3 DEF Newest
    <3> HIDE DEF rest, E
    <3>4. CASE AddedTo(r) = {}
      <4>1. rest = {} BY <1>4, <2>3, <3>2, <3>4
      <4> QED BY <1>2, <1>4, <2>3, <3>1, <3>4, <4>1
    <3>5. CASE AddedTo(r) # {}
      <4>1. PICK t \in E(r) : \A x \in AddedTo(r) : TimeOf[x] <= TimeOf[t] BY <2>1, <3>5
      <4>2. t \in rest /\ t \in Sample BY <1>2, <1>4, <2>3, <3>3, <4>1 DEF AddedTo
      <4>3. CASE \E u \in rest : TimeOf[u] = TimeOf[s]
        <5>1. PICK u \in rest : TimeOf[u] = TimeOf[s] BY <4>3
        <5>2. u \in AddedTo(r) BY <1>4, <2>3, <3>2
        <5>3. TimeOf[s] <= TimeOf[t] BY <4>1, <5>1, <5>2
        <5> QED BY <1>4, <2>3, <3>1, <4>1, <4>2, <4>3, <5>3
      <4>4. CASE ~\E u \in rest : TimeOf[u] = TimeOf[s]
        <5>1. Entries(collection, r)' = rest \cup {s} BY <1>4, <2>3, <3>1, <4>4
        <5>2. CASE TimeOf[s] <= TimeOf[t]
          BY <1>4, <2>3, <4>1, <4>2, <5>1, <5>2
        <5>3. CASE TimeOf[t] < TimeOf[s]
          <6>1. \A x \in AddedTo(r) : x \in Sample BY <1>2 DEF AddedTo
          <6> QED BY <1>2, <1>4, <2>3, <4>1, <4>2, <5>1, <5>3, <6>1
        <5> QED BY <1>2, <4>2, <5>2, <5>3
      <4> QED BY <4>3, <4>4
    <3> QED BY <3>4, <3>5
  <2> QED BY <2>2, <2>3
<1>7. ASSUME inOrder'
      PROVE  /\ \A x, u \in added' :
                  SensorOf[x] = SensorOf[u] /\ TimeOf[x] = TimeOf[u] => x = u
             /\ KeepsLastN'
  <2>1. /\ \A x, u \in added : SensorOf[x] = SensorOf[u] /\ TimeOf[x] = TimeOf[u] => x = u
        /\ KeepsLastN
    BY <1>1, <1>7 DEF NewestStays
  <2>2. \/ {x \in added : SensorOf[x] = SensorOf[s]} = {s}
        \/ \A x \in added : SensorOf[x] = SensorOf[s] => TimeOf[x] < TimeOf[s]
    BY <1>1, <1>7
  <2>3. \A x \in added : SensorOf[x] = SensorOf[s] /\ TimeOf[x] = TimeOf[s] => x = s
    BY <1>2, <2>2
  <2>4. \A x, u \in added' : SensorOf[x] = SensorOf[u] /\ TimeOf[x] = TimeOf[u] => x = u
    BY <1>1, <2>1, <2>3
  <2>5. ASSUME NEW r \in Series PROVE Entries(collection, r)' = Newest(AddedTo(r)', n)
    <3>1. E(r) = Newest(AddedTo(r), n) BY <2>1 DEF KeepsLastN
    <3>2. CASE r \notin SeriesOf(s) BY <1>3, <3>1, <3>2
    <3>3. CASE r \in SeriesOf(s)
      <4> HIDE DEF E
      <4>1. CASE AddedTo(r) = {s}
        <5>1. AddedTo(r)' = {s} BY <1>4, <3>3, <4>1
        <5> QED BY <1>2, <1>4, <3>1, <3>3, <4>1, <5>1, NewestOfOne
      <4>2. CASE \A x \in AddedTo(r) : TimeOf[x] < TimeOf[s]
        <5>1. AddedTo(r) \in SUBSET Sample /\ IsFiniteSet(AddedTo(r))
          BY <1>2, FS_Subset DEF AddedTo, CollectionInv, SeriesOfAdded
        <5>2. AddSampleToTuples(Newest(AddedTo(r), n), s) = Newest(AddedTo(r) \cup {s}, n)
          BY <1>2, <4>2, <5>1, NewestOfMore
        <5> QED BY <1>4, <3>1, <3>3, <5>2
      <4> QED BY <1>4, <2>2, <3>3, <4>1, <4>2
    <3> QED BY <3>2, <3>3
  <2> QED BY <2>4, <2>5 DEF KeepsLastN
<1> QED BY <1>6, <1>7 DEF NewestStays, SameKeys

\* If a sensor's keys never change: which samples the collection keeps.
THEOREM ExporterNewest == Spec => []NewestStays
<1>1. Init => NewestStays
  BY FS_EmptySet DEF Init, NewestStays, NewestIsKept, KeepsLastN, AddedTo, Entries, Newest,
                     EmptyCollection
<1>2. TypeOK /\ CollectionInv /\ NewestStays /\ [Next]_vars => NewestStays'
  <2> SUFFICES ASSUME TypeOK, CollectionInv, NewestStays, [Next]_vars PROVE NewestStays'
    OBVIOUS
  <2>1. CASE UNCHANGED adding
    <3>1. \A r \in Series : AddedTo(r)' = AddedTo(r)
      BY <2>1 DEF adding, AddedTo
    <3> QED BY <2>1, <3>1 DEF adding, NewestStays, NewestIsKept, KeepsLastN, SameKeys
  <2>2. ASSUME NEW s \in Sample, AddToCollection(s) PROVE NewestStays'
    <3>1. CASE s \in Wanted /\ SameKeys BY <2>2, <3>1, AddingKeepsNewest
    <3>2. CASE s \notin Wanted BY <2>1, <2>2, <3>2 DEF AddToCollection
    <3>3. CASE ~SameKeys BY <3>3 DEF NewestStays, SameKeys
    <3> QED BY <3>1, <3>2, <3>3
  <2>3. ASSUME NEW t \in Live, (\E s \in Sample : ImportSample(t, s)) \/ AddOwnSample(t)
        PROVE  NewestStays'
    BY <2>2, <2>3, ExporterConstants DEF ImportSample, AddOwnSample
  <2>4. ASSUME NEW t \in Live,
               \/ Publish(t) \/ InvokeSampleReceiver(t) \/ BeginImport(t) \/ EndImport(t)
               \/ SkipImport(t) \/ BeginExport(t) \/ SkipExport(t) \/ ToJSON(t)
               \/ OpenFile(t) \/ WriteFile(t) \/ WriteFails(t) \/ UpdateLastExportTimestamp(t)
        PROVE  UNCHANGED adding
    BY <2>4 DEF Publish, InvokeSampleReceiver, BeginImport, EndImport, SkipImport, BeginExport,
                SkipExport, ToJSON, OpenFile, WriteFile, WriteFails,
                UpdateLastExportTimestamp
  <2>5. CASE Tick \/ UNCHANGED vars
    <3>1. UNCHANGED adding BY <2>5 DEF Tick, vars
    <3> QED BY <2>1, <3>1
  <2> QED BY <2>1, <2>3, <2>4, <2>5 DEF Next, Call
<1> QED BY <1>1, <1>2, ExporterTypeCorrect, ExporterCollection, PTL DEF Spec

\* The newest sample added to a series is still in it, in any order of calls.
THEOREM ExporterKeepsNewest == Spec => []NewestIsKept
<1>1. NewestStays => NewestIsKept BY DEF NewestStays, NewestIsKept, SameKeys
<1> QED BY <1>1, ExporterNewest, PTL

\* Added in their order, each sensor's samples leave the last n.
THEOREM ExporterKeepsLastN == SameKeys => (Spec => []KeepsLastNInOrder)
<1> SUFFICES ASSUME SameKeys PROVE Spec => []KeepsLastNInOrder
  OBVIOUS
<1>1. NewestStays => KeepsLastNInOrder BY DEF NewestStays, KeepsLastNInOrder
<1> QED BY <1>1, ExporterNewest, PTL
=============================================================================
