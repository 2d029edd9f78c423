--------------------------- MODULE GraphiteReceiver ---------------------------
(***************************************************************************)
(* GraphiteSampleReceiver: the thread of a call makes a line of each item, *)
(* opens a connection to Carbon, writes the lines and closes what it has   *)
(* opened.  PrintWriter throws nothing: once the connection is broken, the *)
(* lines still to come are lost in silence.                                *)
(*                                                                         *)
(* A step of the network may take any time; nothing has a timeout.  A line *)
(* is the value it carries.                                                *)
(***************************************************************************)
EXTENDS Naturals, Sequences, SequencesExt

CONSTANT Post    \* the samples and errors: records with a kind, "sample" or "error"

VARIABLES
  sending,       \* post -> how far its call is
  printed,       \* post -> how many of its lines have been given to the writer
  arrived,       \* post -> the lines that have come to Carbon
  sockets,       \* the posts whose socket is open
  trouble        \* the posts whose connection has failed or broken

graphiteVars == <<sending, printed, arrived, sockets, trouble>>

GraphiteInit ==
  /\ sending = [p \in Post |-> "idle"]
  /\ printed = [p \in Post |-> 0]
  /\ arrived = [p \in Post |-> <<>>]
  /\ sockets = {}
  /\ trouble = {}

Go(p, from, to) == sending[p] = from /\ sending' = [sending EXCEPT ![p] = to]

\* valueOf of a null fails.
Formats(items) == "null" \notin ToSet(items)

\* processError
IgnoreError(p) ==
  /\ p.kind = "error"
  /\ Go(p, "idle", "ended")
  /\ UNCHANGED <<printed, arrived, sockets, trouble>>

\* graphiteFormatOf comes before anything is sent; it ends the thread.
GraphiteFormatFails(p, items) ==
  /\ p.kind = "sample"
  /\ ~Formats(items)
  /\ Go(p, "idle", "dead")
  /\ UNCHANGED <<printed, arrived, sockets, trouble>>

\* The constructor of Socket and getOutputStream return.
Connect(p, items) ==
  /\ p.kind = "sample"
  /\ Formats(items)
  /\ Go(p, "idle", "writing")
  /\ sockets' = sockets \cup {p}
  /\ UNCHANGED <<printed, arrived, trouble>>

\* The constructor of Socket throws.
ConnectFails(p, items) ==
  /\ p.kind = "sample"
  /\ Formats(items)
  /\ Go(p, "idle", "ended")
  /\ trouble' = trouble \cup {p}
  /\ UNCHANGED <<printed, arrived, sockets>>

\* Mutated form of GetOutputStreamFails: the writer alone is closed, which is not
\* there yet.
GetOutputStreamFailsOpen(p, items) ==
  /\ p.kind = "sample"
  /\ Formats(items)
  /\ Go(p, "idle", "ended")
  /\ sockets' = sockets \cup {p}
  /\ trouble' = trouble \cup {p}
  /\ UNCHANGED <<printed, arrived>>

\* The socket is there, but getOutputStream throws.
GetOutputStreamFails(p, items) ==
  /\ p.kind = "sample"
  /\ Formats(items)
  /\ Go(p, "idle", "closing")
  /\ sockets' = sockets \cup {p}
  /\ trouble' = trouble \cup {p}
  /\ UNCHANGED <<printed, arrived>>

\* Mutated form of Println: after a line that was lost the next one is tried anew.
PrintlnAnew(p, items) ==
  /\ sending[p] = "writing"
  /\ printed[p] < Len(items)
  /\ printed' = [printed EXCEPT ![p] = @ + 1]
  /\ \/ /\ arrived' = [arrived EXCEPT ![p] = Append(@, items[printed[p] + 1])]
        /\ UNCHANGED trouble
     \/ /\ trouble' = trouble \cup {p}
        /\ UNCHANGED arrived
  /\ UNCHANGED <<sending, sockets>>

\* A line arrives, unless the connection breaks or has broken before.
Println(p, items) ==
  /\ sending[p] = "writing"
  /\ printed[p] < Len(items)
  /\ printed' = [printed EXCEPT ![p] = @ + 1]
  /\ \/ /\ p \notin trouble
        /\ arrived' = [arrived EXCEPT ![p] = Append(@, items[printed[p] + 1])]
        /\ UNCHANGED trouble
     \/ /\ trouble' = trouble \cup {p}
        /\ UNCHANGED arrived
  /\ UNCHANGED <<sending, sockets>>

\* gracefullyClose, three times; a close that throws is logged.
GracefullyClose(p, items) ==
  /\ Go(p, "closing", "ended") \/ (printed[p] = Len(items) /\ Go(p, "writing", "ended"))
  /\ sockets' = sockets \ {p}
  /\ UNCHANGED <<printed, arrived, trouble>>

SendStep(p, items) ==
  \/ IgnoreError(p)
  \/ GraphiteFormatFails(p, items)
  \/ Connect(p, items)
  \/ ConnectFails(p, items)
  \/ GetOutputStreamFails(p, items)
  \/ Println(p, items)
  \/ GracefullyClose(p, items)
-----------------------------------------------------------------------------
\* No socket outlives the call that opened it.
SocketsAreClosed == \A p \in sockets : sending[p] \notin {"ended", "dead"}

\* Carbon has the first lines of a sample and never later ones without them; all of
\* them if the call has ended and the network gave no trouble; and nothing at all of
\* a sample with a null in it.
LinesArrive(p, items) ==
  /\ IsPrefix(arrived[p], items)
  /\ "null" \in ToSet(items) => arrived[p] = <<>>
  /\ sending[p] = "ended" /\ p.kind = "sample" /\ p \notin trouble => arrived[p] = items
=============================================================================
