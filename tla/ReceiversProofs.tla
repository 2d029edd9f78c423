--------------------------- MODULE ReceiversProofs ---------------------------
(***************************************************************************)
(* Proofs about Receivers and, first, about its part LogFile, for any      *)
(* samples, files, measurements, sensors, documents and active receivers.  *)
(***************************************************************************)
EXTENDS Receivers, FiniteSetTheorems, SequenceTheorems, TLAPS
-----------------------------------------------------------------------------
(* LogFile, for any samples, files and old files.                          *)

LinesTyped == lines \in [File -> Seq(Sample)]

LoggedIn(f) == {s \in Sample : stage[s] = "logged" /\ FileOf[s] = f}

\* Each line of a file is that of another sample, whose call has returned.
LinesAreLogged ==
  \A f \in File :
    /\ ToSet(lines[f]) = LoggedIn(f)
    /\ IsFiniteSet(LoggedIn(f))
    /\ Len(lines[f]) = Cardinality(LoggedIn(f))

\* Somebody has found or made the file and will log, has logged, or cannot.
Served(f) ==
  \E u \in Sample : /\ FileOf[u] = f
                    /\ stage[u] \in {"appending", "logged"} \/ u \in ioErrors

\* Who is going to create a file, or has lost the race for it, has a winner before it
\* as soon as the file is there.
RacesHaveWinners ==
  \A s \in Sample :
    /\ stage[s] = "creating" /\ FileOf[s] \in exists => Served(FileOf[s])
    /\ stage[s] = "failed" => Served(FileOf[s])

ErrorsHaveFailed == \A s \in ioErrors : stage[s] = "failed"

LogInv == LinesTyped /\ LinesAreLogged /\ RacesHaveWinners /\ ErrorsHaveFailed
-----------------------------------------------------------------------------
\* A line more is a sample more.
LEMMA AppendToSet ==
  ASSUME NEW S, NEW q \in Seq(S), NEW e \in S
  PROVE  ToSet(Append(q, e)) = ToSet(q) \cup {e}
<1>1. /\ Len(Append(q, e)) = Len(q) + 1 /\ Len(q) \in Nat
      /\ DOMAIN Append(q, e) = 1 .. Len(q) + 1 /\ DOMAIN q = 1 .. Len(q)
      /\ \A i \in 1 .. Len(q) : Append(q, e)[i] = q[i]
      /\ Append(q, e)[Len(q) + 1] = e
  OBVIOUS
<1>2. ToSet(q) \subseteq ToSet(Append(q, e))
  BY <1>1 DEF ToSet
<1>3. e \in ToSet(Append(q, e))
  BY <1>1 DEF ToSet
<1>4. ToSet(Append(q, e)) \subseteq ToSet(q) \cup {e}
  <2> SUFFICES ASSUME NEW i \in 1 .. Len(q) + 1
               PROVE  Append(q, e)[i] \in ToSet(q) \cup {e}
    BY <1>1 DEF ToSet
  <2>1. CASE i = Len(q) + 1 BY <1>1, <2>1
  <2>2. CASE i \in 1 .. Len(q) BY <1>1, <2>2 DEF ToSet
  <2> QED BY <1>1, <2>1, <2>2
<1> QED BY <1>2, <1>3, <1>4

\* The types of threads, files, lines and errors.
THEOREM LogTypeCorrect == Spec => []TypeOK
<1>1. Init => TypeOK
  BY LogFileConstants DEF Init, TypeOK, Stages
<1>2. TypeOK /\ LinesTyped /\ [Next]_vars => TypeOK' /\ LinesTyped'
  <2> SUFFICES ASSUME TypeOK, LinesTyped, [Next]_vars PROVE TypeOK' /\ LinesTyped'
    OBVIOUS
  <2> USE LogFileConstants DEF TypeOK, LinesTyped, Advance, Stages
  <2>1. ASSUME NEW s \in Sample, Process(s) PROVE TypeOK' /\ LinesTyped' BY <2>1 DEF Process
  <2>2. ASSUME NEW s \in Sample, LookForFile(s) PROVE TypeOK' /\ LinesTyped'
    BY <2>2 DEF LookForFile
  <2>3. ASSUME NEW s \in Sample, CreateFile(s) PROVE TypeOK' /\ LinesTyped'
    BY <2>3 DEF CreateFile
  <2>4. ASSUME NEW s \in Sample, AppendSampleToFile(s) PROVE TypeOK' /\ LinesTyped'
    BY <2>4 DEF AppendSampleToFile
  <2>5. ASSUME NEW s \in Sample, MeetIOException(s) PROVE TypeOK' /\ LinesTyped'
    BY <2>5 DEF MeetIOException
  <2>6. CASE UNCHANGED vars BY <2>6 DEF vars
  <2> QED BY <2>1, <2>2, <2>3, <2>4, <2>5, <2>6 DEF Next
<1>3. Init => LinesTyped
  BY DEF Init, LinesTyped
<1> QED BY <1>1, <1>2, <1>3, PTL DEF Spec
-----------------------------------------------------------------------------
\* A call that goes on and logs nothing leaves files and their winners as they are.
LEMMA SilentCalls ==
  ASSUME TypeOK, LogInv, NEW s \in Sample,
         Process(s) \/ LookForFile(s) \/ CreateFile(s) \/ MeetIOException(s)
  PROVE  LogInv'
<1> USE LogFileConstants DEF TypeOK, LogInv, LinesTyped, Advance, Stages, Served
<1>1. stage[s] \in {"idle", "looking", "creating", "appending"} /\ stage'[s] # "logged"
      /\ \A u \in Sample \ {s} : stage'[u] = stage[u]
  BY DEF Process, LookForFile, CreateFile, MeetIOException
<1>2. lines' = lines
  BY DEF Process, LookForFile, CreateFile, MeetIOException
<1>3. \A f \in File : LoggedIn(f)' = LoggedIn(f)
  BY <1>1 DEF LoggedIn
<1>4. LinesTyped' /\ LinesAreLogged'
  BY <1>2, <1>3 DEF LinesAreLogged
<1>5. RacesHaveWinners' /\ ErrorsHaveFailed'
  <2>1. CASE Process(s)
    BY <2>1 DEF Process, RacesHaveWinners, ErrorsHaveFailed
  <2>2. CASE LookForFile(s)
    BY <2>2 DEF LookForFile, RacesHaveWinners, ErrorsHaveFailed
  <2>3. CASE CreateFile(s)
    <3>1. ErrorsHaveFailed' BY <2>3 DEF CreateFile, ErrorsHaveFailed
    <3>2. Served(FileOf[s])'
      <4>1. CASE FileOf[s] \in exists
        <5>1. PICK u \in Sample : /\ FileOf[u] = FileOf[s]
                                  /\ stage[u] \in {"appending", "logged"} \/ u \in ioErrors
          BY <2>3, <4>1 DEF CreateFile, RacesHaveWinners
        <5>2. u # s BY <5>1, <2>3 DEF CreateFile, ErrorsHaveFailed
        <5> QED BY <5>1, <5>2, <1>1, <2>3 DEF CreateFile
      <4>2. CASE FileOf[s] \notin exists
        BY <2>3, <4>2 DEF CreateFile
      <4> QED BY <4>1, <4>2
    <3>3. \A f \in File : Served(f) => Served(f)'
      <4> SUFFICES ASSUME NEW f \in File, NEW u \in Sample, FileOf[u] = f,
                          stage[u] \in {"appending", "logged"} \/ u \in ioErrors
                   PROVE  Served(f)'
        OBVIOUS
      <4>1. u # s BY <2>3 DEF CreateFile, ErrorsHaveFailed
      <4> QED BY <4>1, <1>1, <2>3 DEF CreateFile
    <3>4. RacesHaveWinners'
      <4> SUFFICES ASSUME NEW t \in Sample,
                          \/ stage'[t] = "creating" /\ FileOf[t] \in exists'
                          \/ stage'[t] = "failed"
                   PROVE  Served(FileOf[t])'
        BY DEF RacesHaveWinners
      <4>1. CASE FileOf[t] = FileOf[s] BY <4>1, <3>2
      <4>2. CASE FileOf[t] # FileOf[s]
        <5>1. Served(FileOf[t]) BY <4>2, <1>1, <2>3 DEF CreateFile, RacesHaveWinners
        <5> QED BY <5>1, <3>3
      <4> QED BY <4>1, <4>2
    <3> QED BY <3>1, <3>4
  <2>4. CASE MeetIOException(s)
    BY <2>4 DEF MeetIOException, RacesHaveWinners, ErrorsHaveFailed
  <2> QED BY <2>1, <2>2, <2>3, <2>4
<1> QED BY <1>4, <1>5

\* Appending makes a line of the sample and nothing else.
LEMMA AppendingCalls ==
  ASSUME TypeOK, LogInv, NEW s \in Sample, AppendSampleToFile(s)
  PROVE  LogInv'
<1> USE LogFileConstants DEF TypeOK, LogInv, LinesTyped, Advance, Stages, AppendSampleToFile
<1>1. LinesTyped'
  <2>1. FileOf[s] \in File /\ lines[FileOf[s]] \in Seq(Sample)
    OBVIOUS
  <2>2. Append(lines[FileOf[s]], s) \in Seq(Sample)
    BY <2>1
  <2>3. lines' = [lines EXCEPT ![FileOf[s]] = Append(lines[FileOf[s]], s)]
    OBVIOUS
  <2> QED BY <2>1, <2>2, <2>3
<1>2. ASSUME NEW f \in File
      PROVE  /\ ToSet(lines'[f]) = LoggedIn(f)'
             /\ IsFiniteSet(LoggedIn(f)')
             /\ Len(lines'[f]) = Cardinality(LoggedIn(f)')
  <2>1. CASE f # FileOf[s]
    <3>1. LoggedIn(f)' = LoggedIn(f) /\ lines'[f] = lines[f] BY <2>1 DEF LoggedIn
    <3> QED BY <3>1 DEF LinesAreLogged
  <2>2. CASE f = FileOf[s]
    <3>1. lines'[f] = Append(lines[f], s) /\ lines[f] \in Seq(Sample) BY <2>2
    <3>2. s \notin LoggedIn(f) /\ LoggedIn(f)' = LoggedIn(f) \cup {s}
      BY <2>2 DEF LoggedIn
    <3>3. ToSet(lines'[f]) = LoggedIn(f)'
      BY <3>1, <3>2, AppendToSet DEF LinesAreLogged
    <3>4. Len(lines'[f]) = Len(lines[f]) + 1
      BY <3>1
    <3>5. IsFiniteSet(LoggedIn(f)') /\ Cardinality(LoggedIn(f)') = Cardinality(LoggedIn(f)) + 1
      <4>1. IsFiniteSet(LoggedIn(f)) BY DEF LinesAreLogged
      <4>2. \A S, x : IsFiniteSet(S) /\ x \notin S =>
              IsFiniteSet(S \cup {x}) /\ Cardinality(S \cup {x}) = Cardinality(S) + 1
        BY FS_AddElement
      <4>3. /\ IsFiniteSet(LoggedIn(f) \cup {s})
            /\ Cardinality(LoggedIn(f) \cup {s}) = Cardinality(LoggedIn(f)) + 1
        BY <3>2, <4>1, <4>2
      <4> QED BY <3>2, <4>3
    <3> QED BY <3>3, <3>4, <3>5 DEF LinesAreLogged
  <2> QED BY <2>1, <2>2
<1>3. LinesAreLogged' BY <1>2 DEF LinesAreLogged
<1>4. RacesHaveWinners' /\ ErrorsHaveFailed'
  BY DEF RacesHaveWinners, ErrorsHaveFailed, Served
<1> QED BY <1>1, <1>3, <1>4

\* The invariant of the log: who has lines, and who won the race for a file.
THEOREM LogInvariant == Spec => []LogInv
<1>1. Init => LogInv
  <2> SUFFICES ASSUME Init PROVE LogInv
    OBVIOUS
  <2>1. \A f \in File : LoggedIn(f) = {} /\ ToSet(lines[f]) = {} /\ Len(lines[f]) = 0
    BY DEF Init, LoggedIn, ToSet
  <2>2. LinesAreLogged
    BY <2>1, FS_EmptySet DEF LinesAreLogged
  <2> QED BY <2>2 DEF Init, LogInv, LinesTyped, RacesHaveWinners, ErrorsHaveFailed
<1>2. TypeOK /\ LogInv /\ [Next]_vars => LogInv'
  <2> SUFFICES ASSUME TypeOK, LogInv, [Next]_vars PROVE LogInv'
    OBVIOUS
  <2>1. CASE Next BY <2>1, SilentCalls, AppendingCalls DEF Next
  <2>2. CASE UNCHANGED vars
    BY <2>2 DEF vars, LogInv, LinesTyped, LinesAreLogged, LoggedIn, RacesHaveWinners,
                ErrorsHaveFailed, Served
  <2> QED BY <2>1, <2>2
<1> QED BY <1>1, <1>2, LogTypeCorrect, PTL DEF Spec

\* Each file has one line for each sample logged in it and no other, and calls that
\* race for a new file do not all go without a line.
THEOREM LogHasOneLinePerSample == Spec => []OneLinePerSample
<1>1. TypeOK /\ LogInv => OneLinePerSample
  <2> SUFFICES ASSUME TypeOK, LogInv, NEW f \in File
               PROVE  LET calls == {s \in Sample : FileOf[s] = f /\ stage[s] # "idle"}
                      IN  /\ ToSet(lines[f]) = {s \in calls : stage[s] = "logged"}
                          /\ Len(lines[f]) = Cardinality(ToSet(lines[f]))
                          /\ calls # {} /\ (\A s \in calls : stage[s] \in {"logged", "failed"})
                               /\ calls \cap ioErrors = {}
                             => lines[f] # <<>>
    BY DEF OneLinePerSample
  <2> DEFINE calls == {s \in Sample : FileOf[s] = f /\ stage[s] # "idle"}
  <2>1. ToSet(lines[f]) = {s \in calls : stage[s] = "logged"}
    BY DEF LogInv, LinesAreLogged, LoggedIn
  <2>2. Len(lines[f]) = Cardinality(ToSet(lines[f]))
    BY DEF LogInv, LinesAreLogged
  <2>3. ASSUME calls # {}, \A s \in calls : stage[s] \in {"logged", "failed"},
               calls \cap ioErrors = {}
        PROVE  lines[f] # <<>>
    <3>1. PICK u \in calls : stage[u] = "logged"
      <4>1. PICK s \in calls : TRUE BY <2>3
      <4>2. CASE stage[s] = "failed"
        <5>1. PICK u \in Sample : /\ FileOf[u] = f
                                  /\ stage[u] \in {"appending", "logged"} \/ u \in ioErrors
          BY <4>1, <4>2 DEF LogInv, RacesHaveWinners, Served
        <5>2. u \in calls BY <5>1 DEF LogInv, ErrorsHaveFailed
        <5> QED BY <5>1, <5>2, <2>3
      <4> QED BY <4>1, <4>2, <2>3
    <3>2. u \in ToSet(lines[f]) BY <3>1, <2>1
    <3>3. ToSet(<<>>) = {} BY DEF ToSet
    <3> QED BY <3>2, <3>3
  <2> QED BY <2>1, <2>2, <2>3
<1> QED BY <1>1, LogTypeCorrect, LogInvariant, PTL

-----------------------------------------------------------------------------
(* The sensors, the other receivers, and all of them together.             *)

Value == {"null", "text", "empty", "number"}

SensorsTyped ==
  /\ sensing \in [Measurement -> {"idle", "measuring", "sampled", "reported", "dead"}]
  /\ sensorOf \in [Measurement -> HttpXml \cup SystemStats \cup {"none"}]
  /\ values \in [Measurement -> Seq(Value)]

CallsTyped ==
  /\ sending \in [Post -> {"idle", "writing", "closing", "ended", "dead"}]
  /\ printed \in [Post -> Nat]
  /\ arrived \in [Post -> Seq(Value)]
  /\ sockets \subseteq Post
  /\ trouble \subseteq Post
  /\ started \in [Post -> 0 .. Len(ActiveReceivers)]
  /\ onConsole \subseteq Post

\* No thread is started, and no call runs, for what has not been sent.
CallsFollowSending ==
  \A p \in Post :
    /\ started[p] > 0 => Sent(p)
    /\ stage[p] # "idle" => Runs(p, "file")
    /\ sending[p] # "idle" => Runs(p, "graphite")

\* An open socket belongs to a call that will still come to its end.
SocketsAreHeld == \A p \in sockets : sending[p] \in {"writing", "closing"}

\* The lines that have arrived are the first ones given to the writer, and all of those
\* while there is no trouble; of a sample with a null, none is given to it.
ArrivedArePrinted(p, items) ==
  /\ Len(arrived[p]) <= printed[p]
  /\ printed[p] <= Len(items)
  /\ \A i \in 1 .. Len(arrived[p]) : arrived[p][i] = items[i]
  /\ p \notin trouble => Len(arrived[p]) = printed[p]
  /\ ~Formats(items) => printed[p] = 0

\* A call that waits has printed nothing; one that has ended without trouble, all.
PrintingProgresses(p, items) ==
  /\ sending[p] = "idle" => printed[p] = 0 /\ arrived[p] = <<>>
  /\ sending[p] = "writing" => Formats(items)
  /\ sending[p] = "closing" => p \in trouble
  /\ sending[p] = "ended" /\ p.kind = "sample" /\ p \notin trouble => printed[p] = Len(items)

LinesInOrder ==
  \A p \in Post : ArrivedArePrinted(p, values[p.id]) /\ PrintingProgresses(p, values[p.id])

CallInv == CallsTyped /\ CallsFollowSending /\ SocketsAreHeld /\ LinesInOrder
-----------------------------------------------------------------------------
\* The values of a sample that an HTTP sensor makes are those of one document.
LEMMA FetchedValues ==
  ASSUME NEW sensor \in HttpXml, NEW document \in Documents
  PROVE  [i \in DOMAIN PathsOf[sensor] |-> NodeContent(document, PathsOf[sensor][i])]
           \in Seq(Value)
<1> DEFINE Path == UNION {DOMAIN d : d \in Documents}
<1>1. PathsOf[sensor] \in Seq(Path) /\ document \in [Path -> {"element", "text", "nothing"}]
  BY SensorConstants
<1>2. \A path \in Path : NodeContent(document, path) \in Value
  BY <1>1 DEF NodeContent, Value
<1> HIDE DEF Path
<1>3. /\ DOMAIN PathsOf[sensor] = 1 .. Len(PathsOf[sensor])
      /\ Len(PathsOf[sensor]) \in Nat
      /\ \A i \in DOMAIN PathsOf[sensor] : PathsOf[sensor][i] \in Path
  BY <1>1
<1>4. [i \in 1 .. Len(PathsOf[sensor]) |-> NodeContent(document, PathsOf[sensor][i])]
        \in [1 .. Len(PathsOf[sensor]) -> Value]
  BY <1>2, <1>3
<1>5. \A n \in Nat : [1 .. n -> Value] \subseteq Seq(Value)
  OBVIOUS
<1> QED BY <1>3, <1>4, <1>5

\* Sensors keep their types.
LEMMA SensorInvariant == NodeSpec => []SensorsTyped
<1>1. NodeInit => SensorsTyped
  BY DEF NodeInit, SensorsInit, SensorsTyped
<1>2. ASSUME SensorsTyped, NEW m \in Measurement, SensorStep(m) PROVE SensorsTyped'
  <2> USE SensorConstants DEF SensorsTyped, End
  <2>1. ASSUME NEW sensor \in SensorsFor[m], Measure(m, sensor) PROVE SensorsTyped'
    <3>1. sensor \in HttpXml \cup SystemStats OBVIOUS
    <3> QED BY <1>2, <2>1, <3>1 DEF Measure
  <2>2. ASSUME NEW document \in Documents, Fetch(m, document) PROVE SensorsTyped'
    <3> DEFINE fetched == [i \in DOMAIN PathsOf[sensorOf[m]] |->
                             NodeContent(document, PathsOf[sensorOf[m]][i])]
    <3>1. sensorOf[m] \in HttpXml BY <2>2 DEF Fetch
    <3>2. fetched \in Seq(Value) BY <3>1, FetchedValues
    <3>3. /\ sensing' = [sensing EXCEPT ![m] = "sampled"]
          /\ values' = [values EXCEPT ![m] = fetched]
          /\ sensorOf' = sensorOf
      BY <2>2 DEF Fetch
    <3> HIDE DEF fetched
    <3> QED BY <1>2, <3>2, <3>3
  <2>3. CASE FetchFails(m) BY <1>2, <2>3 DEF FetchFails
  <2>4. CASE SourceMissing(m) BY <1>2, <2>4 DEF SourceMissing
  <2>5. CASE ReadSystemStats(m)
    <3>1. <<"number", "number">> \in Seq(Value) BY DEF Value
    <3> QED BY <1>2, <2>5, <3>1 DEF ReadSystemStats
  <2> QED BY <1>2, <2>1, <2>2, <2>3, <2>4, <2>5 DEF SensorStep
<1>3. SensorsTyped /\ [NodeNext]_allVars => SensorsTyped'
  <2> SUFFICES ASSUME SensorsTyped, [NodeNext]_allVars PROVE SensorsTyped'
    OBVIOUS
  <2>1. CASE \E m \in Measurement : Sense(m)
    BY <1>2, <2>1 DEF Sense
  <2>2. CASE UNCHANGED sensorVars
    BY <2>2 DEF sensorVars, SensorsTyped
  <2> QED BY <2>1, <2>2 DEF NodeNext, Local, StartReceiver, PrintOnConsole, WriteLog,
                            SendToCarbon, allVars
<1> QED BY <1>1, <1>3, PTL DEF NodeSpec
-----------------------------------------------------------------------------
\* The node implements the log file's specification: its threads take no other steps
\* on the files than that describes.
THEOREM NodeImplementsLogFile == NodeSpec => Spec
<1>1. NodeInit => Init
  BY DEF NodeInit
<1>2. [NodeNext]_allVars => [Next]_vars
  <2> SUFFICES ASSUME NodeNext PROVE [Next]_vars
    BY DEF allVars, vars
  <2>1. ASSUME NEW m \in Measurement, Sense(m) PROVE UNCHANGED vars
    BY <2>1 DEF Sense
  <2>2. ASSUME NEW p \in Post, StartReceiver(p) \/ PrintOnConsole(p) \/ SendToCarbon(p)
        PROVE  UNCHANGED vars
    BY <2>2 DEF StartReceiver, PrintOnConsole, SendToCarbon
  <2>3. ASSUME NEW p \in Post, WriteLog(p) PROVE Next
    BY <2>3, ReceiversConstants DEF WriteLog, Next
  <2> QED BY <2>1, <2>2, <2>3 DEF NodeNext, Local
<1> QED BY <1>1, <1>2, PTL DEF NodeSpec, Spec

\* So the node's log files have one line for each sample logged.
THEOREM NodeHasOneLinePerSample == NodeSpec => []OneLinePerSample
<1> QED BY NodeImplementsLogFile, LogHasOneLinePerSample, PTL
-----------------------------------------------------------------------------
\* What has been sent keeps its values: no thread measures the same again.
LEMMA SentStays ==
  ASSUME SensorsTyped, NEW m \in Measurement, SensorStep(m), NEW p \in Post, Sent(p)
  PROVE  Sent(p)' /\ values'[p.id] = values[p.id]
<1>1. p.id \in Measurement BY ReceiversConstants
<1>2. /\ sensing[m] \in {"idle", "measuring"}
      /\ \A u \in Measurement \ {m} :
           sensing'[u] = sensing[u] /\ sensorOf'[u] = sensorOf[u] /\ values'[u] = values[u]
  BY DEF SensorsTyped, SensorStep, End, Measure, Fetch, FetchFails, SourceMissing,
         ReadSystemStats
<1>3. p.id # m BY <1>2 DEF Sent
<1> QED BY <1>1, <1>2, <1>3 DEF Sent

\* Sensors leave the calls alone.
LEMMA SensingSteps ==
  ASSUME SensorsTyped, SensorsTyped', CallInv, NEW m \in Measurement, Sense(m)
  PROVE  CallInv'
<1>1. /\ SensorStep(m)
      /\ UNCHANGED <<stage, sending, printed, arrived, sockets, trouble, started, onConsole>>
  BY DEF Sense, vars, graphiteVars
<1>2. CallsTyped' /\ SocketsAreHeld'
  BY <1>1 DEF CallInv, CallsTyped, SocketsAreHeld
<1>3. CallsFollowSending'
  BY <1>1, SentStays DEF CallInv, CallsFollowSending, Runs
<1>4. ASSUME NEW p \in Post
      PROVE  ArrivedArePrinted(p, values[p.id])' /\ PrintingProgresses(p, values[p.id])'
  <2>1. p.id \in Measurement BY ReceiversConstants
  <2>2. CASE Sent(p)
    <3>1. values'[p.id] = values[p.id] BY <1>1, <2>2, SentStays
    <3>2. ArrivedArePrinted(p, values[p.id]) /\ PrintingProgresses(p, values[p.id])
      BY DEF CallInv, LinesInOrder
    <3> QED BY <1>1, <3>1, <3>2 DEF ArrivedArePrinted, PrintingProgresses
  <2>3. CASE ~Sent(p)
    <3>1. started[p] = 0
      BY <2>3 DEF CallInv, CallsFollowSending, CallsTyped
    <3>2. sending[p] = "idle"
      BY <3>1 DEF CallInv, CallsFollowSending, Runs
    <3>3. printed[p] = 0 /\ arrived[p] = <<>> /\ (p \notin trouble \/ p \in trouble)
      BY <3>2 DEF CallInv, LinesInOrder, PrintingProgresses
    <3>4. Len(values'[p.id]) \in Nat BY <2>1 DEF SensorsTyped
    <3> QED BY <1>1, <3>2, <3>3, <3>4 DEF ArrivedArePrinted, PrintingProgresses
  <2> QED BY <2>2, <2>3
<1> QED BY <1>2, <1>3, <1>4 DEF CallInv, LinesInOrder

\* The listener, the console and the log file leave the calls to Carbon alone.
LEMMA LocalSteps ==
  ASSUME SensorsTyped, CallInv, NEW p \in Post, Local(p), TypeOK
  PROVE  CallInv'
<1>1. UNCHANGED <<sensing, sensorOf, values, sending, printed, arrived, sockets, trouble>>
  BY DEF Local, StartReceiver, PrintOnConsole, WriteLog, sensorVars, graphiteVars
<1>2. SocketsAreHeld' /\ LinesInOrder'
  BY <1>1 DEF CallInv, SocketsAreHeld, LinesInOrder, ArrivedArePrinted, PrintingProgresses
<1>3. CallsTyped' /\ CallsFollowSending'
  <2> USE DEF CallInv, CallsTyped, CallsFollowSending, Runs, Sent
  <2>0. Len(ActiveReceivers) \in Nat BY ReceiversConstants
  <2>1. CASE StartReceiver(p)
    BY <1>1, <2>0, <2>1 DEF StartReceiver, vars
  <2>2. CASE PrintOnConsole(p)
    BY <1>1, <2>0, <2>2 DEF PrintOnConsole, vars
  <2>3. CASE WriteLog(p)
    <3>1. started' = started /\ onConsole' = onConsole /\ Runs(p, "file")
      BY <2>3 DEF WriteLog
    <3>2. \A q \in Post \ {p} : stage'[q] = stage[q]
      BY <2>3, ReceiversConstants
      DEF WriteLog, Process, LookForFile, CreateFile, AppendSampleToFile, MeetIOException,
          Advance, TypeOK
    <3> QED BY <1>1, <3>1, <3>2
  <2> QED BY <2>1, <2>2, <2>3 DEF Local
<1> QED BY <1>2, <1>3 DEF CallInv

\* A line that arrives is the next one of the sample.
LEMMA LineArrives ==
  ASSUME NEW p \in Post, NEW items \in Seq(Value), CallInv, items = values[p.id],
         Println(p, items)
  PROVE  /\ UNCHANGED <<started, onConsole>> => CallsTyped'
         /\ ArrivedArePrinted(p, items)'
<1>1. /\ sending[p] = "writing" /\ printed[p] \in Nat /\ printed[p] < Len(items)
      /\ printed' = [printed EXCEPT ![p] = @ + 1] /\ sending' = sending /\ sockets' = sockets
      /\ arrived[p] \in Seq(Value) /\ ArrivedArePrinted(p, items) /\ Formats(items)
  BY DEF CallInv, CallsTyped, LinesInOrder, PrintingProgresses, Println
<1>2. printed'[p] = printed[p] + 1 BY <1>1 DEF CallInv, CallsTyped
<1>3. Len(items) \in Nat /\ \A i \in 1 .. Len(items) : items[i] \in Value
  OBVIOUS
<1>4. CASE p \notin trouble /\ trouble' = trouble
             /\ arrived' = [arrived EXCEPT ![p] = Append(@, items[printed[p] + 1])]
  <2> DEFINE e == items[printed[p] + 1]
  <2>1. e \in Value /\ Len(arrived[p]) = printed[p]
    BY <1>1, <1>3, <1>4 DEF ArrivedArePrinted
  <2>2. arrived'[p] = Append(arrived[p], e)
    BY <1>1, <1>4 DEF CallInv, CallsTyped
  <2>3. /\ Append(arrived[p], e) \in Seq(Value)
        /\ Len(Append(arrived[p], e)) = printed[p] + 1
        /\ \A i \in 1 .. printed[p] : Append(arrived[p], e)[i] = arrived[p][i]
        /\ Append(arrived[p], e)[printed[p] + 1] = e
    <3> HIDE DEF e
    <3> QED BY <1>1, <2>1, AppendProperties
  <2>4. \A i \in 1 .. printed[p] + 1 : Append(arrived[p], e)[i] = items[i]
    <3>1. \A i \in 1 .. printed[p] : arrived[p][i] = items[i]
      BY <1>1, <2>1 DEF ArrivedArePrinted
    <3> QED BY <1>1, <2>3, <3>1
  <2>5. ArrivedArePrinted(p, items)'
    BY <1>1, <1>2, <1>3, <1>4, <2>2, <2>3, <2>4 DEF ArrivedArePrinted
  <2>6. UNCHANGED <<started, onConsole>> => CallsTyped'
    <3> HIDE DEF e
    <3> QED BY <1>1, <1>4, <2>3 DEF CallInv, CallsTyped
  <2> QED BY <2>5, <2>6
<1>5. CASE trouble' = trouble \cup {p} /\ arrived' = arrived
  <2>1. ArrivedArePrinted(p, items)'
    BY <1>1, <1>2, <1>3, <1>5 DEF ArrivedArePrinted
  <2> QED BY <2>1, <1>1, <1>5 DEF CallInv, CallsTyped
<1> QED BY <1>4, <1>5 DEF Println

\* A call to Carbon keeps the order of its lines and holds its socket to its end.
LEMMA CarbonSteps ==
  ASSUME SensorsTyped, CallInv, NEW p \in Post, SendToCarbon(p)
  PROVE  CallInv'
<1> DEFINE items == values[p.id]
<1>1. /\ SendStep(p, items) /\ Runs(p, "graphite")
      /\ UNCHANGED <<sensing, sensorOf, values, stage, started, onConsole>>
  BY DEF SendToCarbon, sensorVars, vars
<1>2. items \in Seq(Value) /\ Len(items) \in Nat /\ items' = items
  <2>1. p.id \in Measurement BY ReceiversConstants
  <2> QED BY <1>1, <2>1 DEF SensorsTyped
<1>3. ArrivedArePrinted(p, items) /\ PrintingProgresses(p, items)
  BY DEF CallInv, LinesInOrder
<1>4. \A q \in Post \ {p} : /\ sending'[q] = sending[q]
                            /\ printed'[q] = printed[q]
                            /\ arrived'[q] = arrived[q]
                            /\ q \in sockets' <=> q \in sockets
                            /\ q \in trouble' <=> q \in trouble
  BY <1>1 DEF SendStep, Go, IgnoreError, GraphiteFormatFails, Connect, ConnectFails,
              GetOutputStreamFails, Println, GracefullyClose, CallInv, CallsTyped
<1>5. CallsTyped'
  <2>1. CASE Println(p, items) BY <1>1, <1>2, <2>1, LineArrives
  <2>2. CASE ~Println(p, items)
    BY <1>1, <2>2 DEF SendStep, Go, IgnoreError, GraphiteFormatFails, Connect, ConnectFails,
                      GetOutputStreamFails, GracefullyClose, CallInv, CallsTyped
  <2> QED BY <2>1, <2>2
<1>6. CallsFollowSending'
  BY <1>1, <1>4 DEF CallInv, CallsFollowSending, Runs, Sent
<1>7. SocketsAreHeld'
  BY <1>1, <1>4 DEF SendStep, Go, IgnoreError, GraphiteFormatFails, Connect, ConnectFails,
                    GetOutputStreamFails, Println, GracefullyClose, CallInv, CallsTyped,
                    SocketsAreHeld
<1>8. ArrivedArePrinted(p, items)'
  <2>1. CASE Println(p, items) BY <1>1, <1>2, <2>1, LineArrives
  <2>2. CASE ~Println(p, items)
    <3>1. printed' = printed /\ arrived' = arrived /\ trouble \subseteq trouble'
      BY <1>1, <2>2 DEF SendStep, IgnoreError, GraphiteFormatFails, Connect, ConnectFails,
                        GetOutputStreamFails, GracefullyClose
    <3> HIDE DEF items
    <3> QED BY <1>2, <3>1, <1>3 DEF ArrivedArePrinted
  <2> QED BY <2>1, <2>2
<1>9. PrintingProgresses(p, items)'
  <2> HIDE DEF items
  <2> USE DEF Go, CallInv, CallsTyped, PrintingProgresses
  <2>1. CASE IgnoreError(p) BY <1>2, <1>3, <2>1 DEF IgnoreError
  <2>2. CASE GraphiteFormatFails(p, items) BY <1>2, <1>3, <2>2 DEF GraphiteFormatFails
  <2>3. CASE Connect(p, items) BY <1>2, <1>3, <2>3 DEF Connect
  <2>4. CASE ConnectFails(p, items) BY <1>2, <1>3, <2>4 DEF ConnectFails
  <2>5. CASE GetOutputStreamFails(p, items) BY <1>2, <1>3, <2>5 DEF GetOutputStreamFails
  <2>6. CASE Println(p, items) BY <1>2, <1>3, <2>6 DEF Println
  <2>7. CASE GracefullyClose(p, items) BY <1>2, <1>3, <2>7 DEF GracefullyClose
  <2> QED BY <1>1, <2>1, <2>2, <2>3, <2>4, <2>5, <2>6, <2>7 DEF SendStep
<1>10. LinesInOrder'
  <2> SUFFICES ASSUME NEW q \in Post
               PROVE  ArrivedArePrinted(q, values[q.id])' /\ PrintingProgresses(q, values[q.id])'
    BY DEF LinesInOrder
  <2>1. CASE q = p BY <2>1, <1>1, <1>8, <1>9
  <2>2. CASE q # p
    <3>1. ArrivedArePrinted(q, values[q.id]) /\ PrintingProgresses(q, values[q.id])
      BY DEF CallInv, LinesInOrder
    <3> QED BY <2>2, <3>1, <1>1, <1>4 DEF ArrivedArePrinted, PrintingProgresses
  <2> QED BY <2>1, <2>2
<1> QED BY <1>5, <1>6, <1>7, <1>10 DEF CallInv

\* The invariant of the calls: sensors, listener, local receivers and Carbon together.
THEOREM NodeInvariant == NodeSpec => []CallInv
<1>1. NodeInit => CallInv
  <2> SUFFICES ASSUME NodeInit PROVE CallInv
    OBVIOUS
  <2>1. Len(ActiveReceivers) \in Nat BY ReceiversConstants
  <2>2. <<>> \in Seq(Value) /\ Len(<<>>) = 0
    OBVIOUS
  <2>3. CallsTyped
    BY <2>1, <2>2 DEF NodeInit, GraphiteInit, CallsTyped
  <2>4. CallsFollowSending /\ SocketsAreHeld
    BY ReceiversConstants DEF NodeInit, Init, GraphiteInit, CallsFollowSending, SocketsAreHeld
  <2>5. ASSUME NEW p \in Post
        PROVE  ArrivedArePrinted(p, values[p.id]) /\ PrintingProgresses(p, values[p.id])
    <3>1. p.id \in Measurement BY ReceiversConstants
    <3>2. values[p.id] = <<>> /\ arrived[p] = <<>> /\ printed[p] = 0 /\ sending[p] = "idle"
      BY <3>1 DEF NodeInit, SensorsInit, GraphiteInit
    <3> QED BY <3>2, <2>2 DEF ArrivedArePrinted, PrintingProgresses
  <2> QED BY <2>3, <2>4, <2>5 DEF CallInv, LinesInOrder
<1>2. TypeOK /\ SensorsTyped /\ SensorsTyped' /\ CallInv /\ [NodeNext]_allVars => CallInv'
  <2> SUFFICES ASSUME TypeOK, SensorsTyped, SensorsTyped', CallInv, [NodeNext]_allVars
               PROVE  CallInv'
    OBVIOUS
  <2>1. CASE NodeNext
    BY <2>1, SensingSteps, LocalSteps, CarbonSteps DEF NodeNext
  <2>2. CASE UNCHANGED allVars
    <3>1. UNCHANGED <<sensing, sensorOf, values, stage, sending, printed, arrived, sockets,
                      trouble, started, onConsole>>
      BY <2>2 DEF allVars, sensorVars, vars, graphiteVars
    <3> QED BY <3>1 DEF CallInv, CallsTyped, CallsFollowSending, Runs, Sent, SocketsAreHeld,
                        LinesInOrder, ArrivedArePrinted, PrintingProgresses
  <2> QED BY <2>1, <2>2
<1>3. NodeSpec => []TypeOK BY NodeImplementsLogFile, LogTypeCorrect, PTL
<1>4. NodeSpec => []SensorsTyped BY SensorInvariant, PTL
<1> QED BY <1>1, <1>2, <1>3, <1>4, PTL DEF NodeSpec

\* The types of the node's parts, and who is started before whom.
THEOREM NodeTypeCorrect == NodeSpec => []NodeTypeOK
<1>1. TypeOK /\ CallInv => NodeTypeOK
  BY DEF CallInv, CallsTyped, CallsFollowSending, NodeTypeOK
<1> QED BY <1>1, NodeImplementsLogFile, LogTypeCorrect, NodeInvariant, PTL

\* No call to Carbon leaves its socket open, whatever fails in it.
THEOREM NodeClosesSockets == NodeSpec => []SocketsAreClosed
<1>1. CallInv => SocketsAreClosed
  BY DEF CallInv, SocketsAreHeld, SocketsAreClosed
<1> QED BY <1>1, NodeInvariant, PTL

\* Carbon gets the first lines of a sample, in order and without gaps; all of them
\* without trouble; and none of a sample with a null.
THEOREM NodeSendsFirstLines == NodeSpec => []CarbonHasFirstLines
<1>1. SensorsTyped /\ CallInv => CarbonHasFirstLines
  <2> SUFFICES ASSUME SensorsTyped, CallInv, NEW p \in Post
               PROVE  LinesArrive(p, values[p.id])
    BY DEF CarbonHasFirstLines
  <2> DEFINE items == values[p.id]
             came == arrived[p]
  <2>1. items \in Seq(Value) /\ came \in Seq(Value)
    <3>1. p.id \in Measurement BY ReceiversConstants
    <3> QED BY <3>1 DEF SensorsTyped, CallInv, CallsTyped
  <2>2. /\ Len(came) <= printed[p] /\ printed[p] <= Len(items) /\ printed[p] \in Nat
        /\ \A i \in 1 .. Len(came) : came[i] = items[i]
        /\ p \notin trouble => Len(came) = printed[p]
        /\ ~Formats(items) => printed[p] = 0
        /\ sending[p] = "ended" /\ p.kind = "sample" /\ p \notin trouble
             => printed[p] = Len(items)
    BY DEF CallInv, CallsTyped, LinesInOrder, ArrivedArePrinted, PrintingProgresses
  <2> HIDE DEF items, came
  <2>3. Len(came) \in Nat /\ Len(items) \in Nat /\ Len(came) <= Len(items)
    BY <2>1, <2>2
  <2>4. IsPrefix(came, items)
    <3>1. /\ \A i \in 1 .. Len(came) : came[i] \in Value /\ items[i] \in Value
      BY <2>1, <2>3
    <3>2. /\ SubSeq(came, 1, Len(came)) \in Seq(Value)
          /\ Len(SubSeq(came, 1, Len(came))) = Len(came)
          /\ \A i \in 1 .. Len(came) : SubSeq(came, 1, Len(came))[i] = came[i]
      BY <2>1, <2>3, <3>1
    <3>3. /\ SubSeq(items, 1, Len(came)) \in Seq(Value)
          /\ Len(SubSeq(items, 1, Len(came))) = Len(came)
          /\ \A i \in 1 .. Len(came) : SubSeq(items, 1, Len(came))[i] = items[i]
      BY <2>1, <2>3, <3>1
    <3>4. SubSeq(came, 1, Len(came)) = SubSeq(items, 1, Len(came))
      BY <3>2, <3>3, <2>2, SeqEqual
    <3> QED BY <2>3, <3>4 DEF IsPrefix
  <2>5. "null" \in ToSet(items) => came = <<>>
    <3>1. Len(came) = 0 => came = <<>> BY <2>1, EmptySeq
    <3> QED BY <2>2, <2>3, <3>1 DEF Formats
  <2>6. sending[p] = "ended" /\ p.kind = "sample" /\ p \notin trouble => came = items
    <3>1. Len(came) = Len(items) => came = items
      BY <2>1, <2>2, SeqEqual
    <3> QED BY <2>2, <3>1
  <2> QED BY <2>4, <2>5, <2>6 DEF LinesArrive, items, came
<1> QED BY <1>1, NodeInvariant, SensorInvariant, PTL
=============================================================================
