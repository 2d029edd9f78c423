----------------------------- MODULE SampleRelay -----------------------------
(***************************************************************************)
(* What the sensor bus and the receiver manager together promise to the    *)
(* receivers of every node, with no map, no event and no thread: a sample  *)
(* is posted at most once, and each receiver of each node is handed a      *)
(* posted sample at most once, and only if the node's two patterns match   *)
(* it.  SensorBus implements this specification (SensorBus!RelayRefined).  *)
(***************************************************************************)
CONSTANTS
  Node,             \* the SensorSamplor processes of the cluster
  Receiver,         \* the receiver plugins
  ReceiversOf,      \* node -> its active receivers
  Post,             \* the samples: records with id, platform and type
  TypePattern,      \* node -> the sensor type names its pattern matches
  PlatformPattern   \* node -> the platform names its pattern matches

VARIABLES
  posted,           \* the samples that entered the bus
  delivered         \* <<node, receiver, sample id>> handed over so far

relayVars == <<posted, delivered>>

Wanted(n, p) == p.type \in TypePattern[n] /\ p.platform \in PlatformPattern[n]

RelayInit == posted = {} /\ delivered = {}

Publish(p) ==
  /\ \A q \in posted : q.id # p.id
  /\ posted' = posted \cup {p}
  /\ UNCHANGED delivered

Deliver(n, r, p) ==
  /\ p \in posted
  /\ r \in ReceiversOf[n]
  /\ Wanted(n, p)
  /\ <<n, r, p.id>> \notin delivered
  /\ delivered' = delivered \cup {<<n, r, p.id>>}
  /\ UNCHANGED posted

RelayNext ==
  \/ \E p \in Post : Publish(p)
  \/ \E n \in Node, r \in Receiver, p \in Post : Deliver(n, r, p)

RelaySpec == RelayInit /\ [][RelayNext]_relayVars
=============================================================================
