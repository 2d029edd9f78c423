---------------------------- MODULE MCReceivers ----------------------------
(***************************************************************************)
(* Two measurements: one of the weather; one of the weather, of an HTTP    *)
(* sensor without a source, or of the JVM's figures.  Two paths, documents *)
(* with and without a null.                                                *)
(***************************************************************************)
EXTENDS Receivers, TLC

CONSTANTS m1, m2, weather, bare, system, temperature, wind

MCPathsOf == weather :> <<temperature, wind>> @@ bare :> <<>>

MCSensorsFor == m1 :> {weather} @@ m2 :> {weather, bare, system}

MCDocuments ==
  {temperature :> "text" @@ wind :> "nothing", temperature :> "nothing" @@ wind :> "element"}

MCPost ==
  {[id |-> m, sensor |-> weather, kind |-> k] : m \in {m1, m2}, k \in {"sample", "error"}}
    \cup {[id |-> m2, sensor |-> system, kind |-> "sample"]}

MCFile == {<<"sample", weather>>, <<"error", weather>>, <<"sample", system>>}

MCOldFiles == {<<"sample", weather>>}

MCFileOf == [p \in MCPost |-> <<p.kind, p.sensor>>]

MCActiveReceivers == <<"graphite", "file", "console">>
=============================================================================
