---------------------------- MODULE OnceDelivery ----------------------------
(***************************************************************************)
(* What a deduplicating queue promises, whatever it is built from: each    *)
(* admission is held by one process, queued once, and leaves once, to a    *)
(* consumer, to the bound of the queue or to a crash.  Nothing is said of  *)
(* seen sets, lists, commands or processes.                                *)
(***************************************************************************)
CONSTANT Admissions  \* one for each time a key may be admitted

VARIABLES
  held,    \* admitted, not queued yet
  queued,  \* waiting for a consumer
  gone     \* consumed, evicted or lost

vars == <<held, queued, gone>>

TypeOK ==
  /\ held \in SUBSET Admissions
  /\ queued \in SUBSET Admissions
  /\ gone \in SUBSET Admissions

Init == held = {} /\ queued = {} /\ gone = {}

\* An admission nobody has made before.
Admit(a) ==
  /\ a \notin held \cup queued \cup gone
  /\ held' = held \cup {a}
  /\ UNCHANGED <<queued, gone>>

Enqueue(a) ==
  /\ a \in held
  /\ held' = held \ {a}
  /\ queued' = queued \cup {a}
  /\ UNCHANGED gone

\* A consumer takes one, or the bound of the queue drops several.
Leave(A) ==
  /\ A # {}
  /\ queued' = queued \ A
  /\ gone' = gone \cup A
  /\ UNCHANGED held

\* The process that holds it crashes.
Lose(a) ==
  /\ a \in held
  /\ held' = held \ {a}
  /\ gone' = gone \cup {a}
  /\ UNCHANGED queued

Next ==
  \/ \E a \in Admissions : Admit(a) \/ Enqueue(a) \/ Lose(a)
  \/ \E A \in SUBSET queued : Leave(A)

Spec == Init /\ [][Next]_vars
=============================================================================
