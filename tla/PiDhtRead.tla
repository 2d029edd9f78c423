------------------------------- MODULE PiDhtRead -------------------------------
(***************************************************************************)
(* pi_dht_read: one read of a DHT22 (AM2302) sensor.  The function asks    *)
(* the sensor for data, counts how long each of DHT_PULSES pulses is low   *)
(* and then high, and interprets the counts as 40 bits with a checksum.    *)
(* A counting loop is one step: what it yields is the count.               *)
(*                                                                         *)
(* The sensor and the line are external: the sensor sends one reading, and *)
(* at most one pulse is disturbed, which then takes any of the counts in   *)
(* DisturbedLow or DisturbedHigh.  Readings are in tenths.                 *)
(***************************************************************************)
EXTENDS Integers

CONSTANTS
  Readings,        \* the <<humidity, temperature>> pairs the sensor may send
  Low, Zero, One,  \* undisturbed counts: a low pulse, a high of a 0, of a 1
  DisturbedLow,
  DisturbedHigh,
  DHT_MAXCOUNT

DHT_PULSES == 41

DHT_SUCCESS == 0
DHT_ERROR_TIMEOUT == -1
DHT_ERROR_CHECKSUM == -2
DHT_ERROR_GPIO == -4

ASSUME PulseConstants ==
  /\ Readings \subseteq Nat \X Int
  /\ \A r \in Readings : r[1] < 65536 /\ -32768 < r[2] /\ r[2] < 32768
  /\ DHT_MAXCOUNT \in Nat
  /\ {Low, Zero, One} \subseteq 1..(DHT_MAXCOUNT - 1)
  /\ Zero < Low /\ Low <= One
  /\ DisturbedLow \cup DisturbedHigh \subseteq 0..DHT_MAXCOUNT

VARIABLES
  stage,        \* where the function is
  pulse,        \* the pulse counted next
  lowCounts,    \* pulse -> pulseCounts[2 * pulse]
  highCounts,   \* pulse -> pulseCounts[2 * pulse + 1]
  humidity,     \* the caller's two cells
  temperature,
  returnCode,   \* valid when the function has returned
  priority,     \* the scheduling priority of the thread
  sent,         \* the reading the sensor sends
  undisturbed   \* nothing has gone wrong with this read

counts == <<pulse, lowCounts, highCounts>>
cells  == <<humidity, temperature>>
vars   == <<stage, counts, cells, returnCode, priority, sent, undisturbed>>

Pulses == 0..DHT_PULSES - 1
DataPulses == 1..DHT_PULSES - 1

Init ==
  /\ stage = "called"
  /\ pulse = 0
  /\ lowCounts = [p \in Pulses |-> 0]
  /\ highCounts = [p \in Pulses |-> 0]
  /\ humidity \in {0, 201}      \* zero, or what an earlier read left
  /\ temperature = humidity
  /\ returnCode = DHT_SUCCESS
  /\ priority = "default"
  /\ sent \in Readings
  /\ undisturbed = TRUE
-----------------------------------------------------------------------------
(* The sensor's side: five bytes, the last one a checksum; in the third    *)
(* the highest bit is the sign of the temperature.                         *)

SentByte(k) ==
  LET h == sent[1]
      t == IF sent[2] < 0 THEN -sent[2] ELSE sent[2]
      data == <<h \div 256, h % 256,
                (t \div 256) + (IF sent[2] < 0 THEN 128 ELSE 0), t % 256>>
  IN  IF k < 4 THEN data[k + 1]
      ELSE (data[1] + data[2] + data[3] + data[4]) % 256

BitValue == <<128, 64, 32, 16, 8, 4, 2, 1>>

SentBit(p) == (SentByte((p - 1) \div 8) \div BitValue[((p - 1) % 8) + 1]) % 2

SentHigh(p) == IF p \in DataPulses /\ SentBit(p) = 0 THEN Zero ELSE One
-----------------------------------------------------------------------------
(* The interpretation of the counts.                                       *)

\* The average count of the low pulses, without the first.
Threshold ==
  LET sum[p \in 0 .. DHT_PULSES - 1] ==
        IF p = 0 THEN 0 ELSE sum[p - 1] + lowCounts[p]
  IN  sum[DHT_PULSES - 1] \div (DHT_PULSES - 1)

Bit(p) == IF highCounts[p] >= Threshold THEN 1 ELSE 0

\* A byte: eight bits, shifted in from the right.
Data(k) ==
  LET byte[j \in 0 .. 8] == IF j = 0 THEN 0 ELSE 2 * byte[j - 1] + Bit(8 * k + j)
  IN  byte[8]

\* Mutated form of ChecksumHolds: the checksum is not verified.
ChecksumIgnored == TRUE

ChecksumHolds == Data(4) = (Data(0) + Data(1) + Data(2) + Data(3)) % 256

Humidity == Data(0) * 256 + Data(1)

Temperature ==
  LET magnitude == (Data(2) % 128) * 256 + Data(3)
  IN  IF Data(2) >= 128 THEN -magnitude ELSE magnitude
-----------------------------------------------------------------------------
Return(code) ==
  /\ stage' = "returned"
  /\ returnCode' = code

\* The cells are set to zero, the pin is set up and the request is sent, from
\* where on the thread runs with the highest priority.
Request ==
  /\ stage = "called"
  /\ stage' = "waiting"
  /\ humidity' = 0
  /\ temperature' = 0
  /\ priority' = "max"
  /\ UNCHANGED <<counts, returnCode, sent, undisturbed>>

\* The memory of the GPIO pins cannot be mapped.
MmioInitFails ==
  /\ stage = "called"
  /\ Return(DHT_ERROR_GPIO)
  /\ humidity' = 0
  /\ temperature' = 0
  /\ undisturbed' = FALSE
  /\ UNCHANGED <<counts, priority, sent>>

Response ==
  /\ stage = "waiting"
  /\ stage' = "low"
  /\ UNCHANGED <<counts, cells, returnCode, priority, sent, undisturbed>>

ResponseTimeout ==
  /\ stage = "waiting"
  /\ Return(DHT_ERROR_TIMEOUT)
  /\ priority' = "default"
  /\ undisturbed' = FALSE
  /\ UNCHANGED <<counts, cells, sent>>

\* The line yields count where expected was sent; one disturbance in a read.
Line(count, expected, disturbances) ==
  \/ count = expected /\ UNCHANGED undisturbed
  \/ undisturbed /\ count \in disturbances /\ undisturbed' = FALSE

CountLow(count) ==
  /\ stage = "low"
  /\ Line(count, Low, DisturbedLow)
  /\ count < DHT_MAXCOUNT
  /\ lowCounts' = [lowCounts EXCEPT ![pulse] = count]
  /\ stage' = "high"
  /\ UNCHANGED <<pulse, highCounts, cells, returnCode, priority, sent>>

\* Mutated form of CountHigh: one pulse too many is counted.
CountHighTooFar(count) ==
  /\ stage = "high"
  /\ Line(count, SentHigh(pulse), DisturbedHigh)
  /\ count < DHT_MAXCOUNT
  /\ highCounts' = [highCounts EXCEPT ![pulse] = count]
  /\ stage' = IF pulse < DHT_PULSES THEN "low" ELSE "interpreting"
  /\ pulse' = pulse + 1
  /\ UNCHANGED <<lowCounts, cells, returnCode, priority, sent>>

CountHigh(count) ==
  /\ stage = "high"
  /\ Line(count, SentHigh(pulse), DisturbedHigh)
  /\ count < DHT_MAXCOUNT
  /\ highCounts' = [highCounts EXCEPT ![pulse] = count]
  /\ IF pulse = DHT_PULSES - 1
     THEN stage' = "interpreting" /\ pulse' = pulse
     ELSE stage' = "low" /\ pulse' = pulse + 1
  /\ UNCHANGED <<lowCounts, cells, returnCode, priority, sent>>

PulseTimeout ==
  /\ \/ stage = "low" /\ Line(DHT_MAXCOUNT, Low, DisturbedLow)
     \/ stage = "high" /\ Line(DHT_MAXCOUNT, SentHigh(pulse), DisturbedHigh)
  /\ Return(DHT_ERROR_TIMEOUT)
  /\ priority' = "default"
  /\ UNCHANGED <<counts, cells, sent>>

\* Mutated form of Interpret: the cells are written before the verification.
InterpretUnverified ==
  /\ stage = "interpreting"
  /\ priority' = "default"
  /\ humidity' = Humidity
  /\ temperature' = Temperature
  /\ Return(IF ChecksumHolds THEN DHT_SUCCESS ELSE DHT_ERROR_CHECKSUM)
  /\ UNCHANGED <<counts, sent, undisturbed>>

Interpret ==
  /\ stage = "interpreting"
  /\ priority' = "default"
  /\ \/ /\ ChecksumHolds
        /\ humidity' = Humidity
        /\ temperature' = Temperature
        /\ Return(DHT_SUCCESS)
     \/ /\ ~ChecksumHolds
        /\ UNCHANGED cells
        /\ Return(DHT_ERROR_CHECKSUM)
  /\ UNCHANGED <<counts, sent, undisturbed>>

Next ==
  \/ Request
  \/ MmioInitFails
  \/ Response
  \/ ResponseTimeout
  \/ \E count \in {Low} \cup DisturbedLow : CountLow(count)
  \/ \E count \in {Zero, One} \cup DisturbedHigh : CountHigh(count)
  \/ PulseTimeout
  \/ Interpret

Spec == Init /\ [][Next]_vars
-----------------------------------------------------------------------------
TypeOK ==
  /\ stage \in {"called", "waiting", "low", "high", "interpreting", "returned"}
  /\ pulse \in Pulses
  /\ lowCounts \in [Pulses -> 0..DHT_MAXCOUNT]
  /\ highCounts \in [Pulses -> 0..DHT_MAXCOUNT]
  /\ humidity \in Nat
  /\ temperature \in Int
  /\ returnCode \in {DHT_SUCCESS, DHT_ERROR_TIMEOUT, DHT_ERROR_CHECKSUM, DHT_ERROR_GPIO}
  /\ priority \in {"default", "max"}
  /\ sent \in Readings
  /\ undisturbed \in BOOLEAN

\* A read that nothing disturbs succeeds, for every reading: negative ones, and those
\* whose checksum exceeds a byte.  And any read reports success only with the reading
\* that was sent, whichever pulse is disturbed and however - but for zeros: a low
\* pulse stretched far enough lifts the average over the count of a 1, so that all
\* bits read 0, and the checksum of zeros is zero.
ReadsWhatWasSent ==
  stage = "returned" =>
    /\ undisturbed => returnCode = DHT_SUCCESS
    /\ returnCode = DHT_SUCCESS => <<humidity, temperature>> \in {sent, <<0, 0>>}

\* Whichever way the function returns, it does not leave the thread at real-time
\* priority; and after a failed read the cells, which Am2302Sensor judges all the
\* same, hold zeros, never an earlier reading or a part of a new one.
ReturnsClean ==
  stage = "returned" =>
    /\ priority = "default"
    /\ returnCode # DHT_SUCCESS => <<humidity, temperature>> = <<0, 0>>
=============================================================================
