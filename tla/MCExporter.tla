----------------------------- MODULE MCExporter -----------------------------
(* Small instances of Exporter.                                            *)
EXTENDS Exporter

CONSTANTS e1, e2, s1, s2, batt, temp

\* A satellite with packets of three kinds, two of them of the same time, and
\* another satellite.
Fleet ==
  { [sat |-> s1, time |-> 1, metrics |-> {batt, temp}, id |-> 1],
    [sat |-> s1, time |-> 2, metrics |-> {batt}, id |-> 2],
    [sat |-> s1, time |-> 2, metrics |-> {temp}, id |-> 3],
    [sat |-> s2, time |-> 1, metrics |-> {temp}, id |-> 4] }

TwoPackets ==
  { [sat |-> s1, time |-> 1, metrics |-> {batt}, id |-> 1],
    [sat |-> s1, time |-> 2, metrics |-> {temp}, id |-> 2] }
=============================================================================
