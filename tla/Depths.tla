------------------------------- MODULE Depths -------------------------------
(***************************************************************************)
(* The queue depth gauges of the observability process, composed with the  *)
(* workers whose queues they count: _update_queue_depths reads the four    *)
(* depths one after the other while Pipeline goes on.                      *)
(***************************************************************************)
EXTENDS Pipeline

CONSTANT Frame  \* the item that is followed

ASSUME FrameAssumption == Frame \in Item

VARIABLES
  reads,  \* queues read so far, in a scan
  seen,   \* one of the reads counted the frame
  unheld  \* at every read the frame was in one of the queues

scan == <<reads, seen, unheld>>

\* Mutant of QueueKeys: against the direction in which frames move.
QueueKeysReversed == <<"telemetry", "decoded", "audio", "raw">>

\* _QUEUE_KEYS, in the order in which their depths are read.
QueueKeys == <<"raw", "audio", "decoded", "telemetry">>

DepthInit == Init /\ reads = 0 /\ seen = FALSE /\ unheld = TRUE

\* One LLEN: it counts whatever is in the list at that moment.  Bound: one
\* scan, which may begin at any time.
ReadDepth ==
  /\ reads < 4
  /\ reads' = reads + 1
  /\ seen' = (seen \/ Frame \in Items(queue[QueueKeys[reads + 1]]))
  /\ unheld' = (unheld /\ \E i \in 1 .. 4 : Frame \in Items(queue[QueueKeys[i]]))
  /\ UNCHANGED vars

DepthNext == ReadDepth \/ (Next /\ UNCHANGED scan)

DepthSpec == DepthInit /\ [][DepthNext]_<<vars, scan>>

\* The four depths are no snapshot: frames move on between the reads, and one
\* may be counted twice.  None is missed, though, but one that was in the hand
\* of a worker, or gone, at one of the reads.
DepthsMissNothing == reads = 4 /\ unheld => seen

=============================================================================
