--------------------------- MODULE PiDhtReadProofs ---------------------------
(***************************************************************************)
(* Proofs about PiDhtRead, for every reading, every disturbance and every  *)
(* bound of the counts.                                                    *)
(***************************************************************************)
EXTENDS PiDhtRead, SequenceLemmas

Running == {"waiting", "low", "high", "interpreting"}

\* Before the request the priority is the default one, and during the read the cells
\* hold the zeros of its beginning: nothing is written before it has been verified.
ReadInv ==
  /\ stage \in Running \cup {"called", "returned"}
  /\ stage = "called" => priority = "default"
  /\ stage \in Running => humidity = 0 /\ temperature = 0
  /\ ReturnsClean

\* Whichever way a read ends, it leaves the default priority, and zeros if it failed.
THEOREM ReadReturnsClean == Spec => []ReturnsClean
<1>1. Init => ReadInv
  BY DEF Init, ReadInv, ReturnsClean, Running
<1>2. ReadInv /\ [Next]_vars => ReadInv'
  <2> SUFFICES ASSUME ReadInv, [Next]_vars PROVE ReadInv'
    OBVIOUS
  <2> USE DEF ReadInv, ReturnsClean, Running, Return, cells
  <2>1. CASE Request BY <2>1 DEF Request
  <2>2. CASE MmioInitFails BY <2>2 DEF MmioInitFails
  <2>3. CASE Response BY <2>3 DEF Response
  <2>4. CASE ResponseTimeout BY <2>4 DEF ResponseTimeout
  <2>5. ASSUME NEW count, CountLow(count) PROVE ReadInv'
    BY <2>5 DEF CountLow
  <2>6. ASSUME NEW count, CountHigh(count) PROVE ReadInv'
    BY <2>6 DEF CountHigh
  <2>7. CASE PulseTimeout BY <2>7 DEF PulseTimeout
  <2>8. CASE Interpret BY <2>8 DEF Interpret
  <2>9. CASE UNCHANGED vars BY <2>9 DEF vars
  <2> QED BY <2>1, <2>2, <2>3, <2>4, <2>5, <2>6, <2>7, <2>8, <2>9 DEF Next
<1>3. ReadInv => ReturnsClean
  BY DEF ReadInv
<1> QED BY <1>1, <1>2, <1>3, PTL DEF Spec
-----------------------------------------------------------------------------
(* The interpretation of the counts.                                       *)

Counted ==
  /\ lowCounts \in [Pulses -> 0..DHT_MAXCOUNT]
  /\ highCounts \in [Pulses -> 0..DHT_MAXCOUNT]
  /\ sent \in Readings

\* All the counts of data but one, of pulse q, are what was sent; pulse 0 is no data, and
\* so all of them are for q = 0.
LowsSentBut(q) == \A p \in DataPulses \ {q} : lowCounts[p] = Low
HighsSentBut(q) == \A p \in DataPulses \ {q} : highCounts[p] = SentHigh(p)

LEMMA NominalCounts ==
  /\ DHT_MAXCOUNT \in Nat
  /\ Low \in Nat /\ Zero \in Nat /\ One \in Nat
  /\ 0 < Zero /\ Zero < Low /\ Low <= One
BY PulseConstants

\* The threshold is an average: one count that is off moves it by a fortieth.
LEMMA ThresholdIsAverage ==
  ASSUME Counted, NEW q \in DataPulses, LowsSentBut(q)
  PROVE  Threshold = (39 * Low + lowCounts[q]) \div 40
<1> DEFINE Sums(f) == f = [p \in 0 .. DHT_PULSES - 1 |-> IF p = 0 THEN 0 ELSE f[p - 1] + lowCounts[p]]
           sum == CHOOSE f : Sums(f)
           extra == lowCounts[q] - Low
<1>1. /\ DHT_PULSES - 1 = 40
      /\ Low \in Int /\ lowCounts[q] \in Int /\ extra \in Int
      /\ \A p \in 1 .. 40 : lowCounts[p] \in Int /\ (p # q => lowCounts[p] = Low)
  <2>1. Low \in Int /\ DHT_MAXCOUNT \in Int BY NominalCounts
  <2>2. \A p \in Pulses : lowCounts[p] \in Int BY <2>1 DEF Counted
  <2>3. DHT_PULSES - 1 = 40 /\ Pulses = 0 .. 40 /\ DataPulses = 1 .. 40
    BY DEF Pulses, DataPulses, DHT_PULSES
  <2> QED BY <2>1, <2>2, <2>3 DEF LowsSentBut
<1>2. \E f : Sums(f)
  <2> DEFINE digit == [p \in 1 .. 40 |-> lowCounts[p]]
  <2>1. digit \in [1 .. 40 -> Int] /\ 1 \in Int /\ 40 \in Nat BY <1>1
  <2>2. PICK f \in [0 .. 40 -> Int] : Digits(f, 40, 1, digit)
    <3> HIDE DEF digit
    <3> QED BY <2>1, DigitsExist
  <2>3. \A p \in 1 .. 40 : f[p] = f[p - 1] + lowCounts[p]
    BY <1>1, <2>2 DEF Digits
  <2>4. Sums(f) BY <1>1, <2>2, <2>3 DEF Digits
  <2> QED BY <2>4
<1>3. Sums(sum)
  <2> HIDE DEF Sums
  <2> QED BY <1>2
<1>4. sum[0] = 0 /\ \A p \in 1 .. 40 : sum[p] = sum[p - 1] + lowCounts[p]
  <2> HIDE DEF sum
  <2> QED BY <1>1, <1>3
<1> HIDE DEF sum, extra, Sums
<1> DEFINE S == {n \in Nat : n <= 40 => sum[n] = n * Low + IF q <= n THEN extra ELSE 0}
<1>5. 0 \in S /\ \A n \in Nat : n \in S => n + 1 \in S
  <2>1. 0 \in S BY <1>1, <1>4 DEF DataPulses
  <2>2. ASSUME NEW n \in Nat, n + 1 <= 40, sum[n] = n * Low + IF q <= n THEN extra ELSE 0
        PROVE  sum[n + 1] = (n + 1) * Low + IF q <= n + 1 THEN extra ELSE 0
    <3>1. sum[n + 1] = sum[n] + lowCounts[n + 1] BY <1>4, <2>2
    <3>2. (n + 1) * Low = n * Low + Low /\ n * Low \in Int BY <1>1
    <3>3. q \in Int BY DEF DataPulses, DHT_PULSES
    <3>4. CASE q = n + 1 BY <1>1, <2>2, <3>1, <3>2, <3>4 DEF extra
    <3>5. CASE q # n + 1 BY <1>1, <2>2, <3>1, <3>2, <3>3, <3>5
    <3> QED BY <3>4, <3>5
  <2> QED BY <2>1, <2>2
<1>6. sum[40] = 40 * Low + extra
  <2>1. 40 \in S
    <3> HIDE DEF S
    <3> QED BY <1>5, SetInduction
  <2> QED BY <2>1, <1>1 DEF DataPulses, DHT_PULSES
<1>7. sum[40] = 39 * Low + lowCounts[q] BY <1>1, <1>6 DEF extra
<1> QED BY <1>1, <1>7 DEF Threshold, sum, Sums

\* A byte is made of its eight bits.
LEMMA DataIsByte ==
  ASSUME NEW k \in 0 .. 4
  PROVE  Data(k) = 128 * Bit(8 * k + 1) + 64 * Bit(8 * k + 2) + 32 * Bit(8 * k + 3)
                     + 16 * Bit(8 * k + 4) + 8 * Bit(8 * k + 5) + 4 * Bit(8 * k + 6)
                     + 2 * Bit(8 * k + 7) + Bit(8 * k + 8)
<1> DEFINE Makes(f) == f = [j \in 0 .. 8 |-> IF j = 0 THEN 0 ELSE 2 * f[j - 1] + Bit(8 * k + j)]
           byte == CHOOSE f : Makes(f)
<1>1. \A p : Bit(p) \in {0, 1} BY DEF Bit
<1>2. \E f : Makes(f)
  <2> DEFINE digit == [j \in 1 .. 8 |-> Bit(8 * k + j)]
  <2>1. digit \in [1 .. 8 -> Int] /\ 2 \in Int /\ 8 \in Nat BY <1>1
  <2>2. PICK f \in [0 .. 8 -> Int] : Digits(f, 8, 2, digit)
    <3> HIDE DEF digit
    <3> QED BY <2>1, DigitsExist
  <2>3. \A j \in 1 .. 8 : f[j] = 2 * f[j - 1] + Bit(8 * k + j) BY <2>2 DEF Digits
  <2>4. Makes(f) BY <2>2, <2>3 DEF Digits
  <2> QED BY <2>4
<1>3. Makes(byte)
  <2> HIDE DEF Makes
  <2> QED BY <1>2
<1>4. byte[0] = 0 /\ \A j \in 1 .. 8 : byte[j] = 2 * byte[j - 1] + Bit(8 * k + j)
  <2> HIDE DEF byte
  <2> QED BY <1>3
<1>5. Data(k) = byte[8] BY DEF Data, byte, Makes
<1> HIDE DEF byte
<1>6. /\ byte[1] = Bit(8 * k + 1)
      /\ byte[2] = 2 * byte[1] + Bit(8 * k + 2) /\ byte[3] = 2 * byte[2] + Bit(8 * k + 3)
      /\ byte[4] = 2 * byte[3] + Bit(8 * k + 4) /\ byte[5] = 2 * byte[4] + Bit(8 * k + 5)
      /\ byte[6] = 2 * byte[5] + Bit(8 * k + 6) /\ byte[7] = 2 * byte[6] + Bit(8 * k + 7)
      /\ byte[8] = 2 * byte[7] + Bit(8 * k + 8)
  BY <1>4, <1>1
<1> QED BY <1>1, <1>5, <1>6

Bytes == {b \in Nat : b < 256}

LEMMA DataInByte ==
  ASSUME NEW k \in 0 .. 4
  PROVE  Data(k) \in Bytes
<1>1. \A p : Bit(p) \in {0, 1} BY DEF Bit
<1> QED BY <1>1, DataIsByte DEF Bytes

\* What the sensor sends are five bytes, the last one the sum of the others, and the
\* reading can be made of them.
LEMMA SentBytes ==
  ASSUME Counted
  PROVE  /\ \A k \in 0 .. 4 : SentByte(k) \in Bytes
         /\ SentByte(4) = (SentByte(0) + SentByte(1) + SentByte(2) + SentByte(3)) % 256
         /\ SentByte(0) * 256 + SentByte(1) = sent[1]
         /\ LET magnitude == (SentByte(2) % 128) * 256 + SentByte(3)
            IN  sent[2] = IF SentByte(2) >= 128 THEN -magnitude ELSE magnitude
<1> DEFINE h == sent[1]
           t == IF sent[2] < 0 THEN -sent[2] ELSE sent[2]
           b == (t \div 256) + (IF sent[2] < 0 THEN 128 ELSE 0)
<1>1. h \in Nat /\ h < 65536 /\ sent[2] \in Int /\ t \in Nat /\ t < 32768
  BY PulseConstants DEF Counted
<1>2. /\ SentByte(0) = h \div 256 /\ SentByte(1) = h % 256
      /\ SentByte(2) = b /\ SentByte(3) = t % 256
      /\ SentByte(4) = ((h \div 256) + (h % 256) + b + (t % 256)) % 256
  BY <1>1 DEF SentByte
<1>3. b \in Bytes /\ (b >= 128 <=> sent[2] < 0) /\ b % 128 = t \div 256
  BY <1>1 DEF Bytes
<1> HIDE DEF h, t, b
<1>4. /\ h \div 256 \in Bytes /\ h % 256 \in Bytes /\ t % 256 \in Bytes
      /\ (h \div 256) * 256 + (h % 256) = h /\ (t \div 256) * 256 + (t % 256) = t
  BY <1>1 DEF Bytes
<1>5. \A k \in 0 .. 4 : SentByte(k) \in Bytes
  <2>1. SentByte(4) \in Bytes BY <1>2, <1>3, <1>4 DEF Bytes
  <2> QED BY <1>2, <1>3, <1>4, <2>1
<1>6. SentByte(0) * 256 + SentByte(1) = sent[1] BY <1>2, <1>4 DEF h
<1>7. LET magnitude == (SentByte(2) % 128) * 256 + SentByte(3)
      IN  sent[2] = IF SentByte(2) >= 128 THEN -magnitude ELSE magnitude
  <2>1. (SentByte(2) % 128) * 256 + SentByte(3) = t BY <1>2, <1>3, <1>4
  <2> QED BY <1>1, <1>2, <1>3, <2>1 DEF t
<1> QED BY <1>2, <1>5, <1>6, <1>7

LEMMA SentByteIsBits ==
  ASSUME Counted, NEW k \in 0 .. 4
  PROVE  /\ SentByte(k) = 128 * SentBit(8 * k + 1) + 64 * SentBit(8 * k + 2)
                            + 32 * SentBit(8 * k + 3) + 16 * SentBit(8 * k + 4)
                            + 8 * SentBit(8 * k + 5) + 4 * SentBit(8 * k + 6)
                            + 2 * SentBit(8 * k + 7) + SentBit(8 * k + 8)
         /\ \A i \in 1 .. 8 : SentBit(8 * k + i) \in {0, 1}
<1>1. \A i \in 1 .. 8 : SentBit(8 * k + i) = (SentByte(k) \div BitValue[i]) % 2
  <2> TAKE i \in 1 .. 8
  <2>1. (8 * k + i - 1) \div 8 = k /\ ((8 * k + i - 1) % 8) + 1 = i OBVIOUS
  <2> QED BY <2>1 DEF SentBit
<1>2. SentByte(k) \in Bytes BY SentBytes
<1>3. /\ SentBit(8 * k + 1) = (SentByte(k) \div 128) % 2
      /\ SentBit(8 * k + 2) = (SentByte(k) \div 64) % 2
      /\ SentBit(8 * k + 3) = (SentByte(k) \div 32) % 2
      /\ SentBit(8 * k + 4) = (SentByte(k) \div 16) % 2
      /\ SentBit(8 * k + 5) = (SentByte(k) \div 8) % 2
      /\ SentBit(8 * k + 6) = (SentByte(k) \div 4) % 2
      /\ SentBit(8 * k + 7) = (SentByte(k) \div 2) % 2
      /\ SentBit(8 * k + 8) = (SentByte(k) \div 1) % 2
  BY <1>1 DEF BitValue
<1> QED
  <2> DEFINE b == SentByte(k)
  <2> HIDE DEF b
  <2>1. b \in Nat /\ b < 256 BY <1>2 DEF b, Bytes
  <2>2. \A x \in Int : x % 2 \in {0, 1} OBVIOUS
  <2>3. b = 128 * ((b \div 128) % 2) + 64 * ((b \div 64) % 2) + 32 * ((b \div 32) % 2)
            + 16 * ((b \div 16) % 2) + 8 * ((b \div 8) % 2) + 4 * ((b \div 4) % 2)
            + 2 * ((b \div 2) % 2) + ((b \div 1) % 2)
    BY <2>1
  <2>4. \A i \in 1 .. 8 : SentBit(8 * k + i) \in {0, 1}
    BY <1>1, <2>1 DEF b, BitValue
  <2> QED BY <1>3, <2>3, <2>4 DEF b

\* When all bits of a byte are read as they were sent, so is the byte; when one of them is
\* not, the byte is off by at most 128, and not by 0 unless it is right.
LEMMA ByteAsSent ==
  ASSUME Counted, NEW k \in 0 .. 4, \A i \in 1 .. 8 : Bit(8 * k + i) = SentBit(8 * k + i)
  PROVE  Data(k) = SentByte(k)
<1>1. /\ Bit(8 * k + 1) = SentBit(8 * k + 1) /\ Bit(8 * k + 2) = SentBit(8 * k + 2)
      /\ Bit(8 * k + 3) = SentBit(8 * k + 3) /\ Bit(8 * k + 4) = SentBit(8 * k + 4)
      /\ Bit(8 * k + 5) = SentBit(8 * k + 5) /\ Bit(8 * k + 6) = SentBit(8 * k + 6)
      /\ Bit(8 * k + 7) = SentBit(8 * k + 7) /\ Bit(8 * k + 8) = SentBit(8 * k + 8)
  OBVIOUS
<1> QED BY <1>1, DataIsByte, SentByteIsBits

LEMMA ByteButOne ==
  ASSUME Counted, NEW k \in 0 .. 4, NEW j \in 1 .. 8,
         \A i \in 1 .. 8 \ {j} : Bit(8 * k + i) = SentBit(8 * k + i)
  PROVE  -128 <= Data(k) - SentByte(k) /\ Data(k) - SentByte(k) <= 128
<1> DEFINE off(i) == Bit(8 * k + i) - SentBit(8 * k + i)
<1>1. \A i \in 1 .. 8 : Bit(8 * k + i) \in {0, 1} /\ SentBit(8 * k + i) \in {0, 1}
  BY SentByteIsBits DEF Bit
<1>2. Data(k) - SentByte(k) = 128 * off(1) + 64 * off(2) + 32 * off(3) + 16 * off(4)
                                + 8 * off(5) + 4 * off(6) + 2 * off(7) + off(8)
  BY <1>1, DataIsByte, SentByteIsBits
<1>3. \A i \in 1 .. 8 : off(i) \in {-1, 0, 1} /\ (i # j => off(i) = 0)
  BY <1>1
<1> HIDE DEF off
<1> QED BY <1>2, <1>3

\* Bits as sent make a reading as sent.
LEMMA RightBits ==
  ASSUME Counted, \A p \in DataPulses : Bit(p) = SentBit(p)
  PROVE  ChecksumHolds /\ <<Humidity, Temperature>> = sent
<1>1. \A k \in 0 .. 4 : \A i \in 1 .. 8 : 8 * k + i \in DataPulses
  BY DEF DataPulses, DHT_PULSES
<1>2. \A k \in 0 .. 4 : Data(k) = SentByte(k)
  BY <1>1, ByteAsSent
<1>3. sent = <<sent[1], sent[2]>>
  BY PulseConstants DEF Counted
<1> QED BY <1>2, <1>3, SentBytes DEF ChecksumHolds, Humidity, Temperature

\* One bit that is not read as sent is noticed: the checksum does not hold.
LEMMA OneBitOff ==
  ASSUME Counted, NEW q \in DataPulses, \A p \in DataPulses \ {q} : Bit(p) = SentBit(p),
         ChecksumHolds
  PROVE  <<Humidity, Temperature>> = sent
<1> DEFINE K == (q - 1) \div 8
           j == ((q - 1) % 8) + 1
           d == Data(K) - SentByte(K)
<1>1. K \in 0 .. 4 /\ j \in 1 .. 8 /\ q = 8 * K + j
  BY DEF DataPulses, DHT_PULSES
<1> HIDE DEF K, j
<1>2. \A k \in 0 .. 4 : \A i \in 1 .. 8 : 8 * k + i \in DataPulses /\ (8 * k + i = q => k = K /\ i = j)
  BY <1>1 DEF DataPulses, DHT_PULSES
<1>3. \A k \in 0 .. 4 \ {K} : Data(k) = SentByte(k)
  BY <1>2, ByteAsSent
<1>4. d \in Int /\ -128 <= d /\ d <= 128
  <2>1. \A i \in 1 .. 8 \ {j} : Bit(8 * K + i) = SentBit(8 * K + i) BY <1>1, <1>2
  <2>2. Data(K) \in Bytes /\ SentByte(K) \in Bytes BY <1>1, DataInByte, SentBytes
  <2>3. d \in Int BY <2>2 DEF Bytes
  <2>4. -128 <= Data(K) - SentByte(K) /\ Data(K) - SentByte(K) <= 128
    <3> HIDE DEF d
    <3> QED BY <1>1, <2>1, ByteButOne
  <2> QED BY <2>3, <2>4
<1>5. \A k \in 0 .. 4 : SentByte(k) \in Int BY SentBytes DEF Bytes
<1>6. \A k \in 0 .. 3 : Data(k) = SentByte(k)
  <2> DEFINE S == SentByte(0) + SentByte(1) + SentByte(2) + SentByte(3)
  <2>1. CASE K = 4 BY <2>1, <1>3
  <2>2. CASE K # 4
    <3>1. Data(4) = S % 256 BY <2>2, <1>3, SentBytes
    <3>2. Data(0) + Data(1) + Data(2) + Data(3) = S + d
      <4>1. Data(K) = SentByte(K) + d
        BY <1>1, <1>5, DataInByte DEF Bytes
      <4> HIDE DEF d
      <4>2. K = 0 \/ K = 1 \/ K = 2 \/ K = 3 BY <1>1, <2>2
      <4> QED BY <4>1, <4>2, <1>3, <1>4, <1>5
    <3>3. S \in Int BY <1>5
    <3> HIDE DEF S, d
    <3>4. S % 256 = (S + d) % 256 BY <3>1, <3>2 DEF ChecksumHolds
    <3>5. d = 0 BY <1>4, <3>3, <3>4
    <3>6. Data(K) = SentByte(K) BY <1>1, <1>5, <3>5, DataInByte DEF d, Bytes
    <3> QED BY <1>3, <3>6
  <2> QED BY <2>1, <2>2
<1>7. sent = <<sent[1], sent[2]>>
  BY PulseConstants DEF Counted
<1> QED BY <1>6, <1>7, SentBytes DEF Humidity, Temperature

\* What the checksum says, if one pulse at most was disturbed.
LEMMA InterpretationIsRight ==
  ASSUME Counted, NEW q \in Pulses,
         \/ LowsSentBut(0) /\ HighsSentBut(q)
         \/ LowsSentBut(q) /\ HighsSentBut(0)
  PROVE  /\ q = 0 => ChecksumHolds
         /\ ChecksumHolds => <<Humidity, Temperature>> \in {sent, <<0, 0>>}
<1>1. /\ DataPulses = 1 .. 40 /\ DataPulses = Pulses \ {0}
      /\ \A p \in DataPulses : highCounts[p] \in Int /\ lowCounts[p] \in Int
  BY NominalCounts DEF DataPulses, Pulses, DHT_PULSES, Counted
<1>2. \A p \in DataPulses : SentBit(p) \in {0, 1}
  <2> TAKE p \in DataPulses
  <2> DEFINE k == (p - 1) \div 8
             i == ((p - 1) % 8) + 1
  <2>1. k \in 0 .. 4 /\ i \in 1 .. 8 /\ p = 8 * k + i BY <1>1
  <2> HIDE DEF k, i
  <2> QED BY <2>1, SentByteIsBits
<1>3. ASSUME Threshold \in Int, Zero < Threshold, Threshold <= One,
             NEW p \in DataPulses, highCounts[p] = SentHigh(p)
      PROVE  Bit(p) = SentBit(p)
  BY <1>2, <1>3, NominalCounts DEF Bit, SentHigh
<1>4. ASSUME LowsSentBut(0) PROVE Threshold = Low
  <2>1. lowCounts[1] = Low /\ LowsSentBut(1) BY <1>1, <1>4 DEF LowsSentBut
  <2>2. Threshold = (39 * Low + Low) \div 40 BY <1>1, <2>1, ThresholdIsAverage
  <2> QED BY <2>2, NominalCounts
<1>5. CASE LowsSentBut(0) /\ HighsSentBut(q)
  <2>1. \A p \in DataPulses \ {q} : Bit(p) = SentBit(p)
    BY <1>3, <1>4, <1>5, NominalCounts DEF HighsSentBut
  <2>2. CASE q \in DataPulses
    BY <1>1, <2>1, <2>2, OneBitOff
  <2>3. CASE q \notin DataPulses
    BY <2>1, <2>3, RightBits
  <2> QED BY <2>2, <2>3
<1>6. CASE LowsSentBut(q) /\ HighsSentBut(0)
  <2>1. CASE q = 0
    <3>1. \A p \in DataPulses : Bit(p) = SentBit(p)
      BY <1>1, <1>3, <1>4, <1>6, <2>1, NominalCounts DEF HighsSentBut
    <3> QED BY <3>1, RightBits
  <2>2. CASE q # 0
    <3>1. Threshold \in Int
      BY <1>1, <1>6, <2>2, ThresholdIsAverage, NominalCounts
    <3>2. \A p \in DataPulses : highCounts[p] = SentHigh(p) /\ SentHigh(p) \in {Zero, One}
      BY <1>1, <1>6 DEF HighsSentBut, SentHigh
    <3>3. CASE Threshold <= Zero
      <4>1. \A p \in DataPulses : Bit(p) = 1 BY <3>1, <3>2, <3>3, NominalCounts DEF Bit
      <4>2. \A k \in 0 .. 4 : Data(k) = 255 BY <4>1, DataIsByte, <1>1
      <4> QED BY <2>2, <4>2 DEF ChecksumHolds
    <3>4. CASE Zero < Threshold /\ Threshold <= One
      <4>1. \A p \in DataPulses : Bit(p) = SentBit(p) BY <1>3, <3>1, <3>2, <3>4
      <4> QED BY <4>1, RightBits
    <3>5. CASE One < Threshold
      <4>1. \A p \in DataPulses : Bit(p) = 0 BY <3>1, <3>2, <3>5, NominalCounts DEF Bit
      <4>2. \A k \in 0 .. 4 : Data(k) = 0 BY <4>1, DataIsByte, <1>1
      <4> QED BY <2>2, <4>2 DEF Humidity, Temperature
    <3> QED BY <3>1, <3>3, <3>4, <3>5, NominalCounts
  <2> QED BY <2>1, <2>2
<1> QED BY <1>5, <1>6
-----------------------------------------------------------------------------
(* Types, and the correctness of a read.                                   *)

LEMMA InterpretedTypes == Humidity \in Nat /\ Temperature \in Int
<1>1. \A k \in 0 .. 4 : Data(k) \in Nat BY DataInByte DEF Bytes
<1> QED BY <1>1 DEF Humidity, Temperature

\* Every read keeps to its types: in particular no pulse is counted past the last.
THEOREM ReadTypeCorrect == Spec => []TypeOK
<1>1. Init => TypeOK
  BY NominalCounts DEF Init, TypeOK, Pulses, DHT_PULSES, DHT_SUCCESS
<1>2. TypeOK /\ [Next]_vars => TypeOK'
  <2> SUFFICES ASSUME TypeOK, [Next]_vars PROVE TypeOK'
    OBVIOUS
  <2>0. \A code : Return(code) => stage' = "returned" /\ returnCode' = code BY DEF Return
  <2> USE DEF TypeOK, counts, cells
  <2>1. CASE Request BY <2>1 DEF Request
  <2>2. CASE MmioInitFails
    <3>1. stage' = "returned" /\ returnCode' = DHT_ERROR_GPIO BY <2>0, <2>2 DEF MmioInitFails
    <3>2. UNCHANGED counts /\ humidity' \in Nat /\ temperature' \in Int
      BY <2>2 DEF MmioInitFails
    <3>3. UNCHANGED <<priority, sent>> /\ undisturbed' = FALSE BY <2>2 DEF MmioInitFails
    <3> QED BY <3>1, <3>2, <3>3
  <2>3. CASE Response BY <2>3 DEF Response
  <2>4. CASE ResponseTimeout BY <2>0, <2>4 DEF ResponseTimeout
  <2>5. ASSUME NEW count \in {Low} \cup DisturbedLow, CountLow(count) PROVE TypeOK'
    <3>1. count \in 0 .. DHT_MAXCOUNT BY PulseConstants, NominalCounts
    <3>2. undisturbed' \in BOOLEAN BY <2>5 DEF CountLow, Line
    <3> QED BY <2>5, <3>1, <3>2 DEF CountLow
  <2>6. ASSUME NEW count \in {Zero, One} \cup DisturbedHigh, CountHigh(count) PROVE TypeOK'
    <3>1. count \in 0 .. DHT_MAXCOUNT BY PulseConstants, NominalCounts
    <3>2. undisturbed' \in BOOLEAN BY <2>6 DEF CountHigh, Line
    <3>3. pulse' \in Pulses BY <2>6 DEF CountHigh, Pulses, DHT_PULSES
    <3>4. stage' \in {"low", "interpreting"} BY <2>6 DEF CountHigh
    <3> QED BY <2>6, <3>1, <3>2, <3>3, <3>4 DEF CountHigh
  <2>7. CASE PulseTimeout
    <3>1. undisturbed' \in BOOLEAN BY <2>7 DEF PulseTimeout, Line
    <3> QED BY <2>0, <2>7, <3>1 DEF PulseTimeout
  <2>8. CASE Interpret BY <2>0, <2>8, InterpretedTypes DEF Interpret
  <2>9. CASE UNCHANGED vars BY <2>9 DEF vars
  <2> QED BY <2>1, <2>2, <2>3, <2>4, <2>5, <2>6, <2>7, <2>8, <2>9 DEF Next
<1> QED BY <1>1, <1>2, PTL DEF Spec

\* The pulses of data that have been counted so far.
CountedLows == {p \in DataPulses : \/ stage = "low" /\ p < pulse
                                   \/ stage = "high" /\ p <= pulse
                                   \/ stage = "interpreting"}
CountedHighs == {p \in DataPulses : stage = "interpreting" \/ p < pulse}

\* While the counts are taken, all but at most one of them are what the sensor sent, and
\* all of them if nothing has gone wrong.
AsSentBut(q) ==
  /\ undisturbed => q = 0
  /\ \/ /\ \A p \in CountedLows : lowCounts[p] = Low
        /\ \A p \in CountedHighs \ {q} : highCounts[p] = SentHigh(p)
     \/ /\ \A p \in CountedLows \ {q} : lowCounts[p] = Low
        /\ \A p \in CountedHighs : highCounts[p] = SentHigh(p)

Counting == {"low", "high", "interpreting"}

ReadRight ==
  /\ stage \in {"called", "waiting"} => pulse = 0
  /\ stage \in Counting => \E q \in Pulses : AsSentBut(q)
  /\ ReadsWhatWasSent

\* A read that nothing disturbs succeeds, and one that succeeds has read what was sent, or
\* zeros, whichever pulse is disturbed and however.
THEOREM ReadsOnlyWhatWasSent == Spec => []ReadsWhatWasSent
<1>1. Init => ReadRight
  BY DEF Init, ReadRight, ReadsWhatWasSent, Counting
<1>2. TypeOK /\ ReadRight /\ [Next]_vars => ReadRight'
  <2> SUFFICES ASSUME TypeOK, ReadRight, [Next]_vars PROVE ReadRight'
    OBVIOUS
  <2>0. /\ Pulses = 0 .. 40 /\ DataPulses = 1 .. 40 /\ DHT_PULSES - 1 = 40
        /\ pulse \in Pulses
        /\ lowCounts \in [Pulses -> 0 .. DHT_MAXCOUNT]
        /\ highCounts \in [Pulses -> 0 .. DHT_MAXCOUNT]
    BY DEF Pulses, DataPulses, DHT_PULSES, TypeOK
  <2>1. CASE Request
    BY <2>1 DEF Request, ReadRight, ReadsWhatWasSent, Counting, counts
  <2>2. CASE MmioInitFails
    BY <2>2 DEF MmioInitFails, Return, ReadRight, ReadsWhatWasSent, Counting,
                DHT_SUCCESS, DHT_ERROR_GPIO
  <2>3. CASE Response
    <3>1. stage' = "low" /\ pulse' = 0 BY <2>3 DEF Response, ReadRight, counts
    <3>2. AsSentBut(0)' BY <2>0, <3>1 DEF AsSentBut, CountedLows, CountedHighs
    <3> QED BY <2>0, <3>1, <3>2 DEF ReadRight, ReadsWhatWasSent, Pulses
  <2>4. CASE ResponseTimeout
    BY <2>4 DEF ResponseTimeout, Return, ReadRight, ReadsWhatWasSent, Counting,
                DHT_SUCCESS, DHT_ERROR_TIMEOUT
  <2>5. ASSUME NEW count, CountLow(count) PROVE ReadRight'
    <3>1. PICK q \in Pulses : AsSentBut(q) BY <2>5 DEF CountLow, ReadRight, Counting
    <3>2. /\ stage = "low" /\ stage' = "high" /\ pulse' = pulse /\ sent' = sent
          /\ highCounts' = highCounts
          /\ lowCounts' = [lowCounts EXCEPT ![pulse] = count]
      BY <2>5 DEF CountLow
    <3>3. /\ \A p \in CountedLows' : p \in Pulses /\ (p \in CountedLows \/ p = pulse)
          /\ \A p \in CountedHighs' : p \in Pulses /\ p \in CountedHighs
      BY <2>0, <3>2 DEF CountedLows, CountedHighs
    <3>4. \A p : SentHigh(p)' = SentHigh(p) BY <3>2 DEF SentHigh, SentBit, SentByte
    <3>5. CASE count = Low /\ UNCHANGED undisturbed
      <4>1. AsSentBut(q)' BY <2>0, <3>1, <3>2, <3>3, <3>4, <3>5 DEF AsSentBut
      <4> QED BY <3>2, <4>1 DEF ReadRight, ReadsWhatWasSent
    <3>6. CASE undisturbed /\ undisturbed' = FALSE
      <4>1. q = 0 /\ 0 \notin DataPulses BY <2>0, <3>1, <3>6 DEF AsSentBut
      <4>2. /\ \A p \in CountedLows : lowCounts[p] = Low
            /\ \A p \in CountedHighs : highCounts[p] = SentHigh(p)
        BY <3>1, <4>1 DEF AsSentBut, CountedLows, CountedHighs
      <4>3. AsSentBut(pulse)' BY <2>0, <3>2, <3>3, <3>4, <3>6, <4>2 DEF AsSentBut
      <4> QED BY <2>0, <3>2, <4>3 DEF ReadRight, ReadsWhatWasSent
    <3> QED BY <2>5, <3>5, <3>6 DEF CountLow, Line
  <2>6. ASSUME NEW count, CountHigh(count) PROVE ReadRight'
    <3>1. PICK q \in Pulses : AsSentBut(q) BY <2>6 DEF CountHigh, ReadRight, Counting
    <3>2. /\ stage = "high" /\ stage' \in {"low", "interpreting"} /\ sent' = sent
          /\ lowCounts' = lowCounts
          /\ highCounts' = [highCounts EXCEPT ![pulse] = count]
          /\ IF pulse = 40 THEN stage' = "interpreting" /\ pulse' = pulse
             ELSE stage' = "low" /\ pulse' = pulse + 1
      BY <2>0, <2>6 DEF CountHigh
    <3>3. /\ \A p \in CountedHighs' : p \in Pulses /\ (p \in CountedHighs \/ p = pulse)
          /\ \A p \in CountedLows' : p \in Pulses /\ p \in CountedLows
      BY <2>0, <3>2 DEF CountedLows, CountedHighs
    <3>4. \A p : SentHigh(p)' = SentHigh(p) BY <3>2 DEF SentHigh, SentBit, SentByte
    <3>5. CASE count = SentHigh(pulse) /\ UNCHANGED undisturbed
      <4>1. AsSentBut(q)' BY <2>0, <3>1, <3>2, <3>3, <3>4, <3>5 DEF AsSentBut
      <4> QED BY <3>2, <4>1 DEF ReadRight, ReadsWhatWasSent
    <3>6. CASE undisturbed /\ undisturbed' = FALSE
      <4>1. q = 0 /\ 0 \notin DataPulses BY <2>0, <3>1, <3>6 DEF AsSentBut
      <4>2. /\ \A p \in CountedLows : lowCounts[p] = Low
            /\ \A p \in CountedHighs : highCounts[p] = SentHigh(p)
        BY <3>1, <4>1 DEF AsSentBut, CountedLows, CountedHighs
      <4>3. PICK r \in Pulses : r = pulse BY <2>0
      <4>4. AsSentBut(r)' BY <2>0, <3>2, <3>3, <3>4, <3>6, <4>2, <4>3 DEF AsSentBut
      <4> QED BY <3>2, <4>4 DEF ReadRight, ReadsWhatWasSent
    <3> QED BY <2>6, <3>5, <3>6 DEF CountHigh, Line
  <2>7. CASE PulseTimeout
    <3>1. DHT_MAXCOUNT # Low /\ DHT_MAXCOUNT # SentHigh(pulse)
      BY PulseConstants DEF SentHigh
    <3>2. undisturbed' = FALSE BY <2>7, <3>1 DEF PulseTimeout, Line
    <3> QED
      BY <2>7, <3>2 DEF PulseTimeout, Return, ReadRight, ReadsWhatWasSent, Counting,
                        DHT_SUCCESS, DHT_ERROR_TIMEOUT
  <2>8. CASE Interpret
    <3>1. stage = "interpreting" /\ stage' = "returned" /\ sent' = sent /\ undisturbed' = undisturbed
      BY <2>8 DEF Interpret, Return
    <3>2. PICK q \in Pulses : AsSentBut(q) BY <3>1 DEF ReadRight, Counting
    <3>3. CountedLows = DataPulses /\ CountedHighs = DataPulses
      BY <3>1 DEF CountedLows, CountedHighs
    <3>4. \/ LowsSentBut(0) /\ HighsSentBut(q)
          \/ LowsSentBut(q) /\ HighsSentBut(0)
      BY <2>0, <3>2, <3>3 DEF AsSentBut, LowsSentBut, HighsSentBut
    <3>5. Counted BY DEF Counted, TypeOK
    <3>6. /\ undisturbed => ChecksumHolds
          /\ ChecksumHolds => <<Humidity, Temperature>> \in {sent, <<0, 0>>}
      BY <3>2, <3>4, <3>5, InterpretationIsRight DEF AsSentBut
    <3>7. CASE ChecksumHolds
      <4>1. returnCode' = DHT_SUCCESS /\ humidity' = Humidity /\ temperature' = Temperature
        BY <2>8, <3>7 DEF Interpret, Return
      <4> QED BY <3>1, <3>6, <3>7, <4>1 DEF ReadRight, ReadsWhatWasSent, Counting
    <3>8. CASE ~ChecksumHolds
      <4>1. returnCode' = DHT_ERROR_CHECKSUM BY <2>8, <3>8 DEF Interpret, Return
      <4> QED
        BY <3>1, <3>6, <3>8, <4>1 DEF ReadRight, ReadsWhatWasSent, Counting,
                                      DHT_SUCCESS, DHT_ERROR_CHECKSUM
    <3> QED BY <3>7, <3>8
  <2>9. CASE UNCHANGED vars
    BY <2>9 DEF vars, counts, cells, ReadRight, AsSentBut, CountedLows, CountedHighs,
                        SentHigh, SentBit, SentByte, ReadsWhatWasSent
  <2> QED BY <2>1, <2>2, <2>3, <2>4, <2>5, <2>6, <2>7, <2>8, <2>9 DEF Next
<1>3. ReadRight => ReadsWhatWasSent
  BY DEF ReadRight
<1> QED BY <1>1, <1>2, <1>3, ReadTypeCorrect, PTL DEF Spec
===============================================================================
