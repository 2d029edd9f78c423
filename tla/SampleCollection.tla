--------------------------- MODULE SampleCollection ---------------------------
(***************************************************************************)
(* The JSON exporter's SampleCollection: for every sensor of a platform    *)
(* and every data key of its samples a TreeMap of at most                  *)
(* maximumEntriesPerSensor entries, ordered by time stamp.  A TreeMap is   *)
(* the set of the samples its entries were made of; the value and the      *)
(* formatted time stamp of an entry follow from its sample.  addSample and *)
(* toJSON are synchronized, so each is one step on the whole collection.   *)
(***************************************************************************)
EXTENDS Naturals, FiniteSets

CONSTANTS
  Sample,     \* the samples (TransferSamples and ErrorSamples)
  SensorOf,   \* sample -> its platform identifier and sensor type
  TimeOf,     \* sample -> its time stamp
  KeysOf,     \* sample -> the keys of its data
  DataKey,    \* all data keys
  maximumEntriesPerSensor

ASSUME CollectionConstants ==
  /\ TimeOf \in [Sample -> Nat]
  /\ KeysOf \in [Sample -> SUBSET DataKey]
  /\ maximumEntriesPerSensor \in Nat \ {0}  \* with 0 addSample never returns

Sensors == {SensorOf[s] : s \in Sample}

\* One TreeMap per platform, sensor type and data key.
Series == Sensors \X DataKey

SeriesOf(s) == {SensorOf[s]} \X KeysOf[s]

\* A collection maps the series that have a TreeMap to their entries.
Collections ==
  UNION {[existing -> SUBSET Sample] : existing \in SUBSET Series}

EmptyCollection == [r \in {} |-> {}]

\* The n last entries of a TreeMap.
Newest(tuples, n) ==
  {t \in tuples : Cardinality({u \in tuples : TimeOf[u] > TimeOf[t]}) < n}

\* Mutated form of AddSampleToTuples: polls the last entry, not the first.
AddPollingLast(tuples, s) ==
  LET rest == {t \in tuples : Cardinality({u \in tuples : TimeOf[u] < TimeOf[t]})
                                < maximumEntriesPerSensor - 1}
  IN  IF \E t \in rest : TimeOf[t] = TimeOf[s] THEN rest ELSE rest \cup {s}

\* Polls the first entries until there is room for one more.  TreeMap.put
\* keeps the key it has when it compares as equal, that is, at equal times.
AddSampleToTuples(tuples, s) ==
  LET rest == Newest(tuples, maximumEntriesPerSensor - 1)
  IN  IF \E t \in rest : TimeOf[t] = TimeOf[s] THEN rest ELSE rest \cup {s}

HasValues(data, s) == SeriesOf(s) \subseteq DOMAIN data

\* Mutated form of CheckForDataStructure: the TreeMaps are always created.
CreateDataStructure(data, s) ==
  [r \in DOMAIN data \cup SeriesOf(s) |-> IF r \in SeriesOf(s) THEN {} ELSE data[r]]

\* createValuesFor replaces the TreeMaps of all the sample's keys, also of
\* those that were there, as soon as one of them is missing.
CheckForDataStructure(data, s) ==
  IF HasValues(data, s) THEN data
  ELSE [r \in DOMAIN data \cup SeriesOf(s) |->
          IF r \in SeriesOf(s) THEN {} ELSE data[r]]

AddSample(data, s) ==
  LET checked == CheckForDataStructure(data, s)
  IN  [r \in DOMAIN checked |-> IF r \in SeriesOf(s)
                                THEN AddSampleToTuples(checked[r], s)
                                ELSE checked[r]]

\* What toJSON writes of a series.
Entries(data, r) == IF r \in DOMAIN data THEN data[r] ELSE {}
=============================================================================
