----------------------------- MODULE Am2302Sensor -----------------------------
(***************************************************************************)
(* Am2302Sensor.measure: up to RETRIES_IN_ERROR_CASE + 1 reads through the *)
(* native library, repeated while a read fails or its values are too far   *)
(* from the last sample's.  The threads of a call share the sensor's       *)
(* fields (returnCode, triesSoFar, the cache) and its two cells of native  *)
(* memory; a read first sets the cells to zero (pi_dht_read).              *)
(*                                                                         *)
(* SensorInvoker starts a thread per firing and does not wait for the last *)
(* one, so calls overlap when they take longer than the trigger's period;  *)
(* Overlap = FALSE is a trigger slow enough.  Values are whole degrees and *)
(* per cent; corrections and rounding are left out.                        *)
(***************************************************************************)
EXTENDS Integers

CONSTANTS
  Call,                  \* the calls of measure(), one thread each
  Reading,               \* the <<temperature, humidity>> pairs read
  ErrorCode,             \* what pi_dht_read returns when it fails
  Overlap,               \* may a call start while another is running?
  RETRIES_IN_ERROR_CASE,
  ALLOWED_TEMPERATURE_VARIATION,
  ALLOWED_HUMIDITY_VARIATION,
  None                   \* no reading: an empty cache, a call without result

DHT_SUCCESS == 0

ASSUME SensorConstants ==
  /\ Reading \subseteq Int \X Nat
  /\ ErrorCode \subseteq Int \ {DHT_SUCCESS}
  /\ Overlap \in BOOLEAN
  /\ RETRIES_IN_ERROR_CASE \in Nat
  /\ ALLOWED_TEMPERATURE_VARIATION \in Nat
  /\ ALLOWED_HUMIDITY_VARIATION \in Nat
  /\ None \notin Int \X Nat

VARIABLES
  stage,        \* call -> where its thread is
  memory,       \* the native cells: <<temperature, humidity>>
  cache,        \* the readings of the last sample, or None
  returnCode,   \* of the last read
  triesSoFar,
  sample,       \* call -> the reading its sample was made of, or None
  lastRead,     \* call -> the reading its last read returned (history)
  tries,        \* call -> how many reads it has made (history)
  lastSample,   \* the reading of the last sample returned (history)
  sampleBefore  \* call -> lastSample when it began (history)

shared  == <<memory, cache, returnCode, triesSoFar>>
history == <<lastRead, tries, lastSample, sampleBefore>>
vars    == <<stage, shared, sample, history>>

Stages == {"idle", "deciding", "calling", "reading", "judging", "building",
           "returned", "threw"}

Advance(c, from, to) == stage[c] = from /\ stage' = [stage EXCEPT ![c] = to]

Distance(d1, d2) == IF d1 < d2 THEN d2 - d1 ELSE d1 - d2

FarApart(r, q) ==
  \/ ALLOWED_TEMPERATURE_VARIATION < Distance(r[1], q[1])
  \/ ALLOWED_HUMIDITY_VARIATION < Distance(r[2], q[2])

Init ==
  /\ stage = [c \in Call |-> "idle"]
  /\ memory = <<0, 0>>
  /\ cache = None
  /\ returnCode = 0
  /\ triesSoFar = 0
  /\ sample = [c \in Call |-> None]
  /\ lastRead = [c \in Call |-> None]
  /\ tries = [c \in Call |-> 0]
  /\ lastSample = None
  /\ sampleBefore = [c \in Call |-> None]

Running == {c \in Call : stage[c] \notin {"idle", "returned", "threw"}}

\* measureWithRetries sets the fields up.
Begin(c) ==
  /\ Overlap \/ Running = {}
  /\ Advance(c, "idle", "deciding")
  /\ returnCode' = -1
  /\ triesSoFar' = 0
  /\ sampleBefore' = [sampleBefore EXCEPT ![c] = lastSample]
  /\ UNCHANGED <<memory, cache, sample, lastRead, tries, lastSample>>

\* Mutated form of MeasurementNotSuccessful: only a timeout counts.
MeasurementTimedOut == returnCode = -1

MeasurementNotSuccessful == returnCode # DHT_SUCCESS

\* Mutated form of TooFarOff: the humidity is not looked at.
TooHotOrCold ==
  cache # None /\ ALLOWED_TEMPERATURE_VARIATION < Distance(cache[1], memory[1])

TooFarOff == cache # None /\ FarApart(cache, memory)

\* Mutated form of HasTriesLeft: one read too many.
HasOneMoreTry == triesSoFar <= RETRIES_IN_ERROR_CASE + 1

HasTriesLeft == triesSoFar <= RETRIES_IN_ERROR_CASE

\* Mutated form of TryAgain: the try is not counted.
TryAgainUncounted(c) ==
  /\ (MeasurementNotSuccessful \/ TooFarOff) /\ HasTriesLeft
  /\ Advance(c, "deciding", "calling")
  /\ UNCHANGED <<shared, sample, history>>

\* The loop's condition, and triesSoFar++ when it goes on.
TryAgain(c) ==
  /\ (MeasurementNotSuccessful \/ TooFarOff) /\ HasTriesLeft
  /\ Advance(c, "deciding", "calling")
  /\ triesSoFar' = triesSoFar + 1
  /\ tries' = [tries EXCEPT ![c] = @ + 1]
  /\ UNCHANGED <<memory, cache, returnCode, sample, lastRead, lastSample,
                 sampleBefore>>

EndTries(c) ==
  /\ ~((MeasurementNotSuccessful \/ TooFarOff) /\ HasTriesLeft)
  /\ Advance(c, "deciding", "judging")
  /\ UNCHANGED <<shared, sample, history>>

\* pi_dht_read first sets both cells to zero.
StartRead(c) ==
  /\ Advance(c, "calling", "reading")
  /\ memory' = <<0, 0>>
  /\ UNCHANGED <<cache, returnCode, triesSoFar, sample, history>>

ReadSucceeds(c, r) ==
  /\ Advance(c, "reading", "deciding")
  /\ memory' = r
  /\ returnCode' = DHT_SUCCESS
  /\ lastRead' = [lastRead EXCEPT ![c] = r]
  /\ UNCHANGED <<cache, triesSoFar, sample, tries, lastSample, sampleBefore>>

\* The thread sleeps for WAITING_TIME_MS_BEFORE_RETRY before it decides.
ReadFails(c, code) ==
  /\ Advance(c, "reading", "deciding")
  /\ returnCode' = code
  /\ lastRead' = [lastRead EXCEPT ![c] = None]
  /\ UNCHANGED <<memory, cache, triesSoFar, sample, tries, lastSample, sampleBefore>>

ThrowSensorException(c) ==
  /\ MeasurementNotSuccessful
  /\ Advance(c, "judging", "threw")
  /\ UNCHANGED <<shared, sample, history>>

CacheMeasurements(c) ==
  /\ ~MeasurementNotSuccessful
  /\ Advance(c, "judging", "building")
  /\ cache' = memory
  /\ UNCHANGED <<memory, returnCode, triesSoFar, sample, history>>

ReturnSample(c) ==
  /\ Advance(c, "building", "returned")
  /\ sample' = [sample EXCEPT ![c] = memory]
  /\ lastSample' = memory
  /\ UNCHANGED <<shared, lastRead, tries, sampleBefore>>

Step(c) ==
  \/ TryAgain(c)
  \/ EndTries(c)
  \/ StartRead(c)
  \/ \E r \in Reading : ReadSucceeds(c, r)
  \/ \E code \in ErrorCode : ReadFails(c, code)
  \/ ThrowSensorException(c)
  \/ CacheMeasurements(c)
  \/ ReturnSample(c)

Next == \E c \in Call : Begin(c) \/ Step(c)

Spec == Init /\ [][Next]_vars

\* A started thread runs on: every wait of a read is bounded (DHT_MAXCOUNT).
FairSpec == Spec /\ \A c \in Call : WF_vars(Step(c))
-----------------------------------------------------------------------------
TypeOK ==
  /\ stage \in [Call -> Stages]
  /\ memory \in Reading \cup {<<0, 0>>}
  /\ cache \in Reading \cup {<<0, 0>>, None}
  /\ returnCode \in ErrorCode \cup {DHT_SUCCESS, -1}
  /\ triesSoFar \in 0..RETRIES_IN_ERROR_CASE + 1
  /\ sample \in [Call -> Reading \cup {<<0, 0>>, None}]
  /\ lastRead \in [Call -> Reading \cup {None}]
  /\ tries \in [Call -> 0..RETRIES_IN_ERROR_CASE + 1]
  /\ lastSample \in Reading \cup {<<0, 0>>, None}
  /\ sampleBefore \in [Call -> Reading \cup {<<0, 0>>, None}]

\* A sample carries what the last read of its own call returned, never the
\* zeros of a read under way or failed and never the reading of another call;
\* a call whose last read failed throws.
SampleIsOwnReading ==
  \A c \in Call :
    /\ stage[c] = "returned" => sample[c] = lastRead[c] /\ lastRead[c] # None
    /\ stage[c] = "threw" => lastRead[c] = None

\* A sample that is too far from the sample before it is reported only when every try
\* has been used up on it; and what outliers are judged by is always the last sample
\* reported: a call that throws does not move it.
OutliersAreRetried ==
  /\ \A c \in Call :
       /\ stage[c] = "returned"
       /\ sampleBefore[c] # None
       /\ FarApart(sampleBefore[c], sample[c])
       => tries[c] = RETRIES_IN_ERROR_CASE + 1
  /\ Running = {} => cache = lastSample

\* Every call returns or throws, however often reads fail or are far off.
MeasureEnds == \A c \in Call : stage[c] = "deciding" ~> stage[c] \in {"returned", "threw"}
=============================================================================
