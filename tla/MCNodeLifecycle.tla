--------------------------- MODULE MCNodeLifecycle ---------------------------
(***************************************************************************)
(* The shipped configuration, and every configuration that differs in at   *)
(* most two values from one that works.                                    *)
(***************************************************************************)
EXTENDS NodeLifecycle

MCShipped ==
  [p \in Singles \cup Lists |->
     CASE p \in {"httpxmlSource", "carbonPort"} -> "empty"
       [] p = "interfaces" -> {"10.100.10.*", "192.168.1.*", "127.0.0.*"}
       [] p = "remoteMembers" -> {}
       [] p = "activeSensors" -> {"temperature", "systemStats"}
       [] p = "activeReceivers" -> {"console", "logfile", "json"}
       [] OTHER -> "valid"]

Working == [MCShipped EXCEPT !["httpxmlSource"] = "valid"]

ValuesOf(p) ==
  CASE p = "activeSensors" -> {Null, {}, {"temperature", "systemStats"}, {"httpxml", "co2"}}
    [] p = "activeReceivers" -> {Null, {}, {"console", "logfile", "json"}, {"graphite"}}
    [] p \in {"interfaces", "remoteMembers"} -> {Null, {}, {"10.100.10.*"}}
    [] OTHER -> Single

Changes(c) == UNION {{[c EXCEPT ![p] = v] : v \in ValuesOf(p)} : p \in DOMAIN c}

MCConfigurations == {MCShipped} \cup UNION {Changes(c) : c \in Changes(Working)}
=============================================================================
