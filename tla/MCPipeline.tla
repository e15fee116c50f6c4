----------------------------- MODULE MCPipeline -----------------------------
(* Small instances of Pipeline.                                            *)
EXTENDS Pipeline, TLC

CONSTANTS d1, d2, a1, m1, m2, r1, r2, r3, o1

\* One worker of each kind, as deployed.
Deployed == (d1 :> "decode") @@ (a1 :> "audio") @@ (m1 :> "demux")

\* Two pods of the decode and the demux service during a rolling update, the
\* one that brings demux.run in the place of decoupled_run.
Rolling == (d1 :> "decode") @@ (d2 :> "decode") @@ (m1 :> "demux") @@ (m2 :> "decoupled")

\* The two decode pods may change places.
Pods == Permutations({d1, d2})

\* The way of a recording, during a change from decoupled_run to demux.run.
Recorded == (a1 :> "audio") @@ (m1 :> "demux") @@ (m2 :> "decoupled")

\* decoupled_run in the place of demux.run.
DecoupledPath == (d1 :> "decode") @@ (m1 :> "decoupled")

OneEach == [l \in Lists |-> 1]
TwoEach == [l \in Lists |-> 2]

RawFairSpec == Spec /\ RawFairness
FairSpec == Spec /\ Fairness
=============================================================================
