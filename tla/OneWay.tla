------------------------------- MODULE OneWay -------------------------------
(***************************************************************************)
(* What a line of queues and workers promises, whatever it is built from:  *)
(* a thing comes in at its head, goes from stage to stage and never back,  *)
(* is read once at its end or drops out, and what is found in a thing      *)
(* takes its place.  Nothing is said of lists, commands, processes or      *)
(* crashes.                                                                *)
(***************************************************************************)
CONSTANTS
  Things,  \* what may be on its way
  PartsOf  \* what may be found in each: a function from Things to sets of them

VARIABLE at  \* the things at each stage

Stages == {"input", "decoder", "decoded", "demux", "telemetry", "letters", "read", "out"}

\* From one stage to the next; from every one but the ends a thing may drop out.
Ways ==
  { <<"input", "decoder">>, <<"decoder", "decoded">>, <<"decoded", "demux">>,
    <<"demux", "telemetry">>, <<"demux", "letters">>, <<"telemetry", "read">> }

Ends == {"read", "out"}

TypeOK == at \in [Stages -> SUBSET Things]

Init == at = [s \in Stages |-> {}]

\* It has never been on the line.
New(x) == \A s \in Stages : x \notin at[s]

\* A new thing comes in; those it leaves no room for drop out.
Enter(x, A) ==
  /\ New(x)
  /\ A \subseteq at["input"]
  /\ at' = [at EXCEPT !["input"] = (@ \ A) \cup {x}, !["out"] = @ \cup A]

Advance(x, way) ==
  /\ x \in at[way[1]]
  /\ at' = [at EXCEPT ![way[1]] = @ \ {x}, ![way[2]] = @ \cup {x}]

\* What is found in a thing is worked on in its place.
Unfold(x, N) ==
  /\ x \in at["decoder"]
  /\ \A y \in N : New(y)
  /\ at' = [at EXCEPT !["decoder"] = (@ \ {x}) \cup N, !["out"] = @ \cup {x}]

DropOut(A, s) ==
  /\ A \subseteq at[s]
  /\ at' = [at EXCEPT ![s] = @ \ A, !["out"] = @ \cup A]

Next ==
  \/ \E x \in Things : \E A \in SUBSET at["input"] : Enter(x, A)
  \/ \E x \in Things, way \in Ways : Advance(x, way)
  \/ \E x \in Things : \E N \in SUBSET PartsOf[x] : Unfold(x, N)
  \/ \E s \in Stages \ Ends : \E A \in SUBSET at[s] : DropOut(A, s)

Spec == Init /\ [][Next]_at
=============================================================================
