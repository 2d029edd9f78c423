-------------------------- MODULE Am2302SensorProofs --------------------------
(***************************************************************************)
(* Proofs about Am2302Sensor when its calls do not overlap, for any number *)
(* of calls and retries, any readings and any allowed variations.          *)
(***************************************************************************)
EXTENDS Am2302Sensor, TLAPS

Ends == {"idle", "returned", "threw"}

OneAtATime == \A c, d \in Running : c = d

\* A call that is still to come has done nothing.
IdleIsNew == \A c \in Call : stage[c] = "idle" => lastRead[c] = None /\ tries[c] = 0

\* The shared fields are those of the one call that runs.
FieldsAreOwn ==
  \A c \in Running :
    /\ tries[c] = triesSoFar
    /\ sampleBefore[c] = lastSample
    /\ stage[c] \in {"deciding", "judging"} =>
         IF returnCode = DHT_SUCCESS THEN lastRead[c] = memory /\ lastRead[c] # None
                                     ELSE lastRead[c] = None
    /\ stage[c] = "building" => /\ lastRead[c] = memory /\ lastRead[c] # None
                                /\ cache = memory

\* The cache holds the last sample's readings until the next sample is built.
CacheFollows ==
  (\A c \in Call : stage[c] # "building") => cache = lastSample

UsedUp(c) == tries[c] = RETRIES_IN_ERROR_CASE + 1

\* What passes the loop is no outlier, or the tries are used up.
OutliersJudged ==
  \A c \in Call :
    /\ stage[c] = "judging" /\ returnCode = DHT_SUCCESS /\ cache # None
         /\ FarApart(cache, memory) => UsedUp(c)
    /\ stage[c] = "building" /\ sampleBefore[c] # None
         /\ FarApart(sampleBefore[c], memory) => UsedUp(c)
    /\ stage[c] = "returned" /\ sampleBefore[c] # None
         /\ FarApart(sampleBefore[c], sample[c]) => UsedUp(c)

SerialInv ==
  /\ TypeOK
  /\ OneAtATime
  /\ IdleIsNew
  /\ FieldsAreOwn
  /\ CacheFollows
  /\ OutliersJudged
  /\ SampleIsOwnReading
-----------------------------------------------------------------------------
\* A call begins when no other runs.
LEMMA BeginSteps ==
  ASSUME SerialInv, ~Overlap, NEW c \in Call, Begin(c)
  PROVE  SerialInv'
<1> USE SensorConstants DEF SerialInv, TypeOK, Stages, Advance, Begin, Running, DHT_SUCCESS
<1>1. /\ stage[c] = "idle" /\ stage'[c] = "deciding" /\ returnCode' = -1
      /\ \A d \in Call \ {c} : stage'[d] = stage[d] /\ stage[d] \in Ends
      /\ UNCHANGED <<memory, cache, sample, lastRead, tries, lastSample>>
  BY DEF Ends
<1>2. TypeOK' OBVIOUS
<1>3. OneAtATime' /\ IdleIsNew'
  BY <1>1 DEF OneAtATime, IdleIsNew, Ends
<1>4. FieldsAreOwn'
  BY <1>1 DEF FieldsAreOwn, IdleIsNew, Ends
<1>5. CacheFollows'
  BY <1>1 DEF CacheFollows, Ends
<1>6. OutliersJudged'
  <2>1. \A d \in Call \ {c} : sampleBefore'[d] = sampleBefore[d]
    OBVIOUS
  <2> QED BY <1>1, <2>1 DEF OutliersJudged, UsedUp, Ends
<1>7. SampleIsOwnReading'
  BY <1>1 DEF SampleIsOwnReading
<1> QED BY <1>2, <1>3, <1>4, <1>5, <1>6, <1>7

\* A step of the one call that runs.
LEMMA CallSteps ==
  ASSUME SerialInv, NEW c \in Call, Step(c)
  PROVE  SerialInv'
<1> USE SensorConstants DEF SerialInv, TypeOK, Stages, Advance, DHT_SUCCESS
<1>1. /\ stage[c] \notin Ends /\ c \in Running
      /\ stage'[c] # "idle"
      /\ \A d \in Call \ {c} : stage'[d] = stage[d] /\ sample'[d] = sample[d]
                               /\ lastRead'[d] = lastRead[d] /\ tries'[d] = tries[d]
      /\ sampleBefore' = sampleBefore
  BY DEF Step, TryAgain, EndTries, StartRead, ReadSucceeds, ReadFails, ThrowSensorException,
         CacheMeasurements, ReturnSample, Ends, Running, shared, history
<1>2. \A d \in Call \ {c} : stage[d] \in Ends
  BY <1>1 DEF OneAtATime, Running, Ends
<1>3. OneAtATime' /\ IdleIsNew'
  BY <1>1, <1>2 DEF OneAtATime, IdleIsNew, Running, Ends
<1>4. /\ tries[c] = triesSoFar /\ sampleBefore[c] = lastSample
      /\ stage[c] # "building" => cache = lastSample
  BY <1>1, <1>2 DEF FieldsAreOwn, CacheFollows, Ends
<1>5. TypeOK'
  BY <1>4 DEF Step, TryAgain, EndTries, StartRead, ReadSucceeds, ReadFails,
              ThrowSensorException, CacheMeasurements, ReturnSample, HasTriesLeft, shared, history
<1>6. FieldsAreOwn'
  <2> SUFFICES ASSUME c \in Running'
               PROVE  /\ tries'[c] = triesSoFar'
                      /\ sampleBefore'[c] = lastSample'
                      /\ stage'[c] \in {"deciding", "judging"} =>
                           IF returnCode' = DHT_SUCCESS
                           THEN lastRead'[c] = memory' /\ lastRead'[c] # None
                           ELSE lastRead'[c] = None
                      /\ stage'[c] = "building" =>
                           lastRead'[c] = memory' /\ lastRead'[c] # None /\ cache' = memory'
    BY <1>1, <1>2 DEF FieldsAreOwn, Running, Ends
  <2> QED BY <1>1, <1>4 DEF FieldsAreOwn, Step, TryAgain, EndTries, StartRead, ReadSucceeds,
             ReadFails, ThrowSensorException, CacheMeasurements, ReturnSample,
             MeasurementNotSuccessful, Running, shared, history
<1>7. CacheFollows'
  BY <1>1, <1>2, <1>4 DEF CacheFollows, FieldsAreOwn, Step, TryAgain, EndTries, StartRead,
     ReadSucceeds, ReadFails, ThrowSensorException, CacheMeasurements, ReturnSample, Ends,
     shared, history
<1>8. OutliersJudged'
  <2> SUFFICES ASSUME TRUE
               PROVE  /\ stage'[c] = "judging" /\ returnCode' = DHT_SUCCESS /\ cache' # None
                           /\ FarApart(cache', memory') => UsedUp(c)'
                      /\ stage'[c] = "building" /\ sampleBefore'[c] # None
                           /\ FarApart(sampleBefore'[c], memory') => UsedUp(c)'
                      /\ stage'[c] = "returned" /\ sampleBefore'[c] # None
                           /\ FarApart(sampleBefore'[c], sample'[c]) => UsedUp(c)'
    BY <1>1, <1>2 DEF OutliersJudged, UsedUp, Ends
  <2>1. CASE EndTries(c)
    BY <1>4, <2>1 DEF EndTries, MeasurementNotSuccessful, TooFarOff, HasTriesLeft, UsedUp,
                      shared, history
  <2>2. CASE CacheMeasurements(c)
    BY <1>4, <2>2 DEF CacheMeasurements, MeasurementNotSuccessful, OutliersJudged, UsedUp,
                      history
  <2>3. CASE ReturnSample(c)
    BY <1>4, <2>3 DEF ReturnSample, OutliersJudged, UsedUp, shared
  <2>4. CASE \/ TryAgain(c) \/ StartRead(c) \/ (\E r \in Reading : ReadSucceeds(c, r))
             \/ (\E code \in ErrorCode : ReadFails(c, code)) \/ ThrowSensorException(c)
    BY <2>4 DEF TryAgain, StartRead, ReadSucceeds, ReadFails, ThrowSensorException
  <2> QED BY <2>1, <2>2, <2>3, <2>4 DEF Step
<1>9. SampleIsOwnReading'
  <2> SUFFICES /\ stage'[c] = "returned" => sample'[c] = lastRead'[c] /\ lastRead'[c] # None
               /\ stage'[c] = "threw" => lastRead'[c] = None
    BY <1>1 DEF SampleIsOwnReading
  <2> QED BY <1>1 DEF FieldsAreOwn, Step, TryAgain, EndTries, StartRead, ReadSucceeds, ReadFails,
     ThrowSensorException, CacheMeasurements, ReturnSample, MeasurementNotSuccessful, shared,
     history
<1> QED BY <1>3, <1>5, <1>6, <1>7, <1>8, <1>9

\* The invariant of calls that follow one another.
THEOREM SerialInvariant == ~Overlap => (Spec => []SerialInv)
<1> SUFFICES ASSUME ~Overlap PROVE Spec => []SerialInv
  OBVIOUS
<1>1. Init => SerialInv
  BY SensorConstants DEF Init, SerialInv, TypeOK, Stages, OneAtATime, Running, IdleIsNew,
     FieldsAreOwn, CacheFollows, OutliersJudged, SampleIsOwnReading, DHT_SUCCESS
<1>2. SerialInv /\ [Next]_vars => SerialInv'
  <2> SUFFICES ASSUME SerialInv, [Next]_vars PROVE SerialInv'
    OBVIOUS
  <2>1. CASE Next BY <2>1, BeginSteps, CallSteps DEF Next
  <2>2. CASE UNCHANGED vars
    BY <2>2 DEF vars, shared, history, SerialInv, TypeOK, OneAtATime, Running, IdleIsNew,
       FieldsAreOwn, CacheFollows, OutliersJudged, UsedUp, SampleIsOwnReading
  <2> QED BY <2>1, <2>2
<1> QED BY <1>1, <1>2, PTL DEF Spec

\* Calls that do not overlap report what their own last read returned.
THEOREM SerialSampleIsOwnReading == ~Overlap => (Spec => []SampleIsOwnReading)
<1>1. SerialInv => SampleIsOwnReading BY DEF SerialInv
<1> QED BY <1>1, SerialInvariant, PTL

\* The types of fields, cells and calls, if the calls do not overlap.
THEOREM SerialTypeCorrect == ~Overlap => (Spec => []TypeOK)
<1>1. SerialInv => TypeOK BY DEF SerialInv
<1> QED BY <1>1, SerialInvariant, PTL

\* An outlier is reported only after all tries, and judged by the last sample.
THEOREM SerialOutliersAreRetried == ~Overlap => (Spec => []OutliersAreRetried)
<1>1. SerialInv => OutliersAreRetried
  BY DEF SerialInv, OutliersJudged, UsedUp, CacheFollows, Running, OutliersAreRetried
<1> QED BY <1>1, SerialInvariant, PTL
=============================================================================
