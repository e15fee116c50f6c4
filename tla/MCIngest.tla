------------------------------ MODULE MCIngest ------------------------------
(* Small instances of Ingest.                                              *)
EXTENDS Ingest

CONSTANTS w1, w2, b1

\* One satellite heard by two stations under one observation id, as frames
\* without an observation id (-1) are: two captures of one key.
TwoStations ==
  { [norad |-> 1, obs |-> -1, station |-> n, body |-> b1] : n \in 1 .. 2 }

OneFrame == { [norad |-> 1, obs |-> -1, station |-> 1, body |-> b1] }

NoRecording == {}

FairSpec ==
  /\ Spec
  /\ Fairness
  /\ \A f \in RawFrames : Offers("raw", f)
  /\ \A f \in AudioObs : Offers("audio", f)
=============================================================================
