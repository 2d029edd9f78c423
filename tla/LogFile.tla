------------------------------- MODULE LogFile -------------------------------
(***************************************************************************)
(* FileSampleReceiver: one receiver thread per sample or error appends one *)
(* line to the log file of its kind, sensor type and day, and creates the  *)
(* file first if it is not there.  Looking for the file, creating it and   *)
(* appending to it are three steps, and nothing keeps threads apart.       *)
(***************************************************************************)
EXTENDS Naturals, Sequences, SequencesExt, FiniteSets

CONSTANTS
  Sample,     \* the samples and errors to be logged
  File,       \* the names getFileNameFor makes of prefix, type and day
  OldFiles,   \* the files that earlier runs of the program may have left
  FileOf      \* sample -> the file its line belongs to

ASSUME LogFileConstants == OldFiles \subseteq File /\ FileOf \in [Sample -> File]

VARIABLES
  stage,      \* sample -> how far the thread of its call is
  exists,     \* the files there are
  lines,      \* file -> the samples logged in it
  ioErrors    \* samples whose call met an IOException (history)

vars == <<stage, exists, lines, ioErrors>>

Stages == {"idle", "looking", "creating", "appending", "logged", "failed"}

Advance(s, from, to) == stage[s] = from /\ stage' = [stage EXCEPT ![s] = to]

\* The lines that old files hold already are not followed.
Init ==
  /\ stage = [s \in Sample |-> "idle"]
  /\ exists \in SUBSET OldFiles
  /\ lines = [f \in File |-> <<>>]
  /\ ioErrors = {}

\* processSample or processError is called.
Process(s) ==
  /\ Advance(s, "idle", "looking")
  /\ UNCHANGED <<exists, lines, ioErrors>>

LookForFile(s) ==
  /\ Advance(s, "looking", IF FileOf[s] \in exists THEN "appending" ELSE "creating")
  /\ UNCHANGED <<exists, lines, ioErrors>>

\* Mutated form of CreateFile: the parts of the file's name are mixed up.
CreateMisnamedFile(s) ==
  /\ Advance(s, "creating", IF FileOf[s] \in exists THEN "failed" ELSE "appending")
  /\ exists' = exists \cup {Reverse(FileOf[s])}
  /\ UNCHANGED <<lines, ioErrors>>

\* createNewFile is atomic; it returns FALSE when the file has come into being
\* meanwhile, and the call ends with a RuntimeException.
CreateFile(s) ==
  /\ Advance(s, "creating", IF FileOf[s] \in exists THEN "failed" ELSE "appending")
  /\ exists' = exists \cup {FileOf[s]}
  /\ UNCHANGED <<lines, ioErrors>>

\* Mutated form of AppendSampleToFile: the file is written, not appended to.
OverwriteFile(s) ==
  /\ Advance(s, "appending", "logged")
  /\ lines' = [lines EXCEPT ![FileOf[s]] = <<s>>]
  /\ UNCHANGED <<exists, ioErrors>>

AppendSampleToFile(s) ==
  /\ Advance(s, "appending", "logged")
  /\ lines' = [lines EXCEPT ![FileOf[s]] = Append(@, s)]
  /\ UNCHANGED <<exists, ioErrors>>

\* Creating or appending throws an IOException; the call ends with a
\* RuntimeException.
MeetIOException(s) ==
  /\ Advance(s, "creating", "failed") \/ Advance(s, "appending", "failed")
  /\ ioErrors' = ioErrors \cup {s}
  /\ UNCHANGED <<exists, lines>>

Next ==
  \E s \in Sample :
    \/ Process(s)
    \/ LookForFile(s)
    \/ CreateFile(s)
    \/ AppendSampleToFile(s)
    \/ MeetIOException(s)

Spec == Init /\ [][Next]_vars
-----------------------------------------------------------------------------
TypeOK ==
  /\ stage \in [Sample -> Stages]
  /\ exists \subseteq File
  /\ \A f \in File : lines[f] \in Seq(Sample)
  /\ ioErrors \subseteq Sample

\* A log file holds one line for each sample of its own whose call returned normally,
\* and no other line; and threads that race for a new file do not lose all their
\* samples: one of them logs, unless it meets an IOException.
OneLinePerSample ==
  \A f \in File :
    LET calls == {s \in Sample : FileOf[s] = f /\ stage[s] # "idle"}
    IN  /\ ToSet(lines[f]) = {s \in calls : stage[s] = "logged"}
        /\ Len(lines[f]) = Cardinality(ToSet(lines[f]))
        /\ calls # {} /\ (\A s \in calls : stage[s] \in {"logged", "failed"})
             /\ calls \cap ioErrors = {}
           => lines[f] # <<>>

\* README: "on every measurement - produces an entry in a log file".  Only an
\* IOException keeps a sample out of its log file.
EveryMeasurementLogged == \A s \in Sample : stage[s] = "failed" => s \in ioErrors
=============================================================================
