--------------------------- MODULE ArchiveProofs ---------------------------
(* The theorems about Archive, for any connections, any keys, any page size *)
(* and any number of inserts and failures.                                  *)
EXTENDS Archive, RedisListProofs, FiniteSetTheorems

\* A connection that commits has its row pending, and no other row is.
PendingOwned ==
  /\ \A c \in Connections : pc[c] = "commit" => row[c] \in pending
  /\ \A r \in pending : \E c \in Connections : pc[c] = "commit" /\ row[c] = r

\* Backfill inserts the first frame it has not inserted yet.
BackfillShape ==
  /\ status = "running" => todo # << >>
  /\ pc[Backfill] # "idle" => status = "running" /\ row[Backfill].key = Head(todo)

\* No two INSERTs under way have the same id.
InFlightApart ==
  \A c, d \in Connections : c # d /\ pc[c] # "idle" /\ pc[d] # "idle" => row[c].id # row[d].id

IdsDrawn ==
  /\ \A r \in rows : r.id <= lastId
  /\ \A c \in Connections : row[c].id <= lastId
  /\ after <= lastId

Shape == TypeOK /\ PendingOwned /\ BackfillShape /\ IdsDrawn /\ InFlightApart /\ IsFiniteSet(rows)

USE DEF Connections

LEMMA InitShape == Init => Shape
<1> SUFFICES ASSUME Init PROVE Shape
  OBVIOUS
<1>1. << >> \in Seq(Keys)
  OBVIOUS
<1>2. PICK k \in Keys : row = [c \in Connections |-> [id |-> 0, key |-> k]]
  BY DEF Init
<1>3. [id |-> 0, key |-> k] \in Row
  BY DEF Row
<1>4. row \in [Connections -> Row]
  BY <1>2, <1>3
<1>5. TypeOK
  BY <1>1, <1>4 DEF Init, TypeOK
<1>6. IdsDrawn
  BY <1>2 DEF Init, IdsDrawn
<1>7. PendingOwned /\ BackfillShape /\ InFlightApart /\ IsFiniteSet(rows)
  BY FS_EmptySet DEF Init, PendingOwned, BackfillShape, InFlightApart
<1> QED BY <1>5, <1>6, <1>7 DEF Shape

LEMMA KeyFacts == ASSUME NEW r \in Row PROVE r.id \in Nat /\ r.key \in Keys
BY DEF Row

\* What drawing an id leaves as it was.
LEMMA DrawShape ==
  ASSUME Shape, NEW c \in Connections, NEW k \in Keys, Draw(c, k),
         UNCHANGED <<table, todo, status, after>>
  PROVE  /\ lastId' \in Nat
         /\ pc' \in [Connections -> {"idle", "check", "commit"}]
         /\ row' \in [Connections -> Row]
         /\ PendingOwned' /\ IdsDrawn' /\ InFlightApart'
         /\ \A d \in Connections \ {c} : pc'[d] = pc[d] /\ row'[d] = row[d]
         /\ pc[c] = "idle" /\ pc'[c] = "check" /\ row'[c] = [id |-> lastId + 1, key |-> k]
<1> USE DEF Shape, Draw
<1>1. lastId \in Nat /\ lastId' = lastId + 1
  BY DEF TypeOK
<1>2. [id |-> lastId + 1, key |-> k] \in Row
  BY <1>1 DEF Row
<1>3. /\ pc' \in [Connections -> {"idle", "check", "commit"}]
      /\ row' \in [Connections -> Row]
      /\ \A d \in Connections \ {c} : pc'[d] = pc[d] /\ row'[d] = row[d]
      /\ pc[c] = "idle" /\ pc'[c] = "check" /\ row'[c] = [id |-> lastId + 1, key |-> k]
  BY <1>2 DEF TypeOK
<1>4. PendingOwned'
  BY <1>3 DEF PendingOwned, table
<1>5. \A r \in Row : r.id \in Nat
  BY KeyFacts
<1>6. IdsDrawn'
  BY <1>1, <1>3, <1>5 DEF IdsDrawn, table, TypeOK
<1>7. InFlightApart'
  BY <1>1, <1>3, <1>5 DEF InFlightApart, IdsDrawn, TypeOK
<1> QED BY <1>1, <1>3, <1>4, <1>6, <1>7

\* What the end of an INSERT leaves as it was.
LEMMA ReturnShape ==
  ASSUME Shape, NEW c \in Connections, pc[c] # "idle", NEW new \in {0, 1}, Return(c, new)
  PROVE  /\ pc' \in [Connections -> {"idle", "check", "commit"}]
         /\ \A d \in Connections \ {c} : pc'[d] = pc[d]
         /\ pc'[c] = "idle"
         /\ todo' \in Seq(Keys) /\ peeked' \in Seq(Keys) /\ inserted' \in Nat
         /\ status' \in {"off", "running", "complete", "failed"}
         /\ UNCHANGED row => BackfillShape'
<1> USE DEF Shape, Return, backfill
<1>1. /\ pc' \in [Connections -> {"idle", "check", "commit"}]
      /\ \A d \in Connections \ {c} : pc'[d] = pc[d]
      /\ pc'[c] = "idle"
  BY DEF TypeOK
<1>2. CASE c = Backfill
  <2>1. todo \in Seq(Keys) /\ todo # << >>
    BY <1>2 DEF TypeOK, BackfillShape
  <2>2. Tail(todo) \in Seq(Keys)
    BY <2>1
  <2>3. BackfillShape'
    BY <1>1, <1>2, <2>2 DEF BackfillShape
  <2>4. inserted' \in Nat
    BY <1>2 DEF TypeOK
  <2>5. peeked' \in Seq(Keys) /\ status' \in {"off", "running", "complete", "failed"}
    BY <1>2 DEF TypeOK
  <2> QED BY <1>1, <1>2, <2>2, <2>3, <2>4, <2>5
<1>3. CASE c # Backfill
  BY <1>1, <1>3 DEF TypeOK, BackfillShape
<1> QED BY <1>2, <1>3

LEMMA StepShape == Shape /\ [Next]_vars => Shape'
<1> SUFFICES ASSUME Shape, [Next]_vars PROVE Shape'
  OBVIOUS
<1> USE DEF Shape
<1>0. Backfill \in Connections /\ Backfill \notin Writers /\ \A c \in Connections : row[c] \in Row
  BY ArchiveAssumption DEF TypeOK
<1>1. ASSUME NEW w \in Writers, NEW k \in Keys, Ingest(w, k) PROVE Shape'
  <2>1. /\ lastId' \in Nat /\ pc' \in [Connections -> {"idle", "check", "commit"}]
        /\ row' \in [Connections -> Row] /\ PendingOwned' /\ IdsDrawn' /\ InFlightApart'
        /\ \A d \in Connections \ {w} : pc'[d] = pc[d] /\ row'[d] = row[d]
    BY <1>1, DrawShape DEF Ingest, table, backfill, reader
  <2>2. RPushed(queue, k) \in Seq(Keys)
    BY RPushedFacts DEF TypeOK
  <2>3. queue' \in Seq(Keys)
    BY <1>1, <2>2, TrimmedFacts, ArchiveAssumption DEF Ingest
  <2>4. BackfillShape'
    BY <1>0, <1>1, <2>1 DEF Ingest, BackfillShape, backfill
  <2> QED BY <1>1, <2>1, <2>3, <2>4 DEF Ingest, TypeOK, table, backfill, reader
<1>2. ASSUME NEW c \in Connections, Present(c) PROVE Shape'
  <2>1. /\ pc' \in [Connections -> {"idle", "check", "commit"}]
        /\ todo' \in Seq(Keys) /\ peeked' \in Seq(Keys) /\ inserted' \in Nat
        /\ status' \in {"off", "running", "complete", "failed"} /\ BackfillShape'
        /\ pc'[c] = "idle" /\ \A d \in Connections \ {c} : pc'[d] = pc[d]
    BY <1>2, ReturnShape DEF Present
  <2>2. PendingOwned' /\ IdsDrawn' /\ InFlightApart'
    BY <1>2, <2>1 DEF Present, PendingOwned, IdsDrawn, InFlightApart, table, reader
  <2> QED BY <1>2, <2>1, <2>2 DEF Present, TypeOK, table, reader
<1>3. ASSUME NEW c \in Connections, Add(c) PROVE Shape'
  <2>1. pc'[c] = "commit" /\ \A d \in Connections \ {c} : pc'[d] = pc[d]
    BY <1>3 DEF Add, TypeOK
  <2>2. PendingOwned' /\ InFlightApart'
    BY <1>3, <2>1 DEF Add, PendingOwned, InFlightApart
  <2>3. BackfillShape'
    BY <1>3, <2>1 DEF Add, BackfillShape, backfill
  <2> QED BY <1>0, <1>3, <2>2, <2>3 DEF Add, TypeOK, IdsDrawn, backfill, reader
<1>4. ASSUME NEW c \in Connections, pc[c] # "idle", rows' = rows \/ rows' = rows \cup {row[c]},
             pending' = pending \ {row[c]}, UNCHANGED <<queue, lastId, row, reader>>,
             todo' \in Seq(Keys), peeked' \in Seq(Keys), inserted' \in Nat, fails' \in Nat,
             status' \in {"off", "running", "complete", "failed"}, BackfillShape',
             pc' \in [Connections -> {"idle", "check", "commit"}],
             pc'[c] = "idle", \A d \in Connections \ {c} : pc'[d] = pc[d]
      PROVE  Shape'
  <2>1. IsFiniteSet(rows')
    <3>1. IsFiniteSet(rows \cup {row[c]})
      BY FS_AddElement
    <3> QED BY <1>4, <3>1
  <2>2. IdsDrawn'
    BY <1>4 DEF IdsDrawn, reader
  <2>3. \A d \in Connections \ {c} : pc'[d] = "commit" => row[d] # row[c]
    BY <1>4 DEF InFlightApart
  <2>4. PendingOwned' /\ InFlightApart'
    BY <1>4, <2>3 DEF PendingOwned, InFlightApart
  <2>5. TypeOK'
    BY <1>0, <1>4 DEF TypeOK, reader
  <2> QED BY <1>4, <2>1, <2>2, <2>4, <2>5
<1>5. ASSUME NEW c \in Connections, Commit(c) PROVE Shape'
  <2>1. /\ pc' \in [Connections -> {"idle", "check", "commit"}]
        /\ todo' \in Seq(Keys) /\ peeked' \in Seq(Keys) /\ inserted' \in Nat
        /\ status' \in {"off", "running", "complete", "failed"} /\ BackfillShape'
        /\ pc'[c] = "idle" /\ \A d \in Connections \ {c} : pc'[d] = pc[d]
    BY <1>5, ReturnShape DEF Commit
  <2> QED BY <1>4, <1>5, <2>1 DEF Commit, TypeOK
<1>6. ASSUME NEW c \in Connections, Fail(c) PROVE Shape'
  <2>1. pc[c] # "idle" /\ pending' = pending \ {row[c]} /\ UNCHANGED <<queue, lastId, row, reader>>
    BY <1>6 DEF Fail, Raise
  <2>2. rows' = rows \/ rows' = rows \cup {row[c]}
    BY <1>6 DEF Fail, Raise
  <2>3. /\ pc' \in [Connections -> {"idle", "check", "commit"}] /\ fails' \in Nat
        /\ pc'[c] = "idle" /\ \A d \in Connections \ {c} : pc'[d] = pc[d]
    BY <1>6 DEF Fail, Raise, TypeOK
  <2>4. /\ todo' \in Seq(Keys) /\ peeked' \in Seq(Keys) /\ inserted' \in Nat
        /\ status' \in {"off", "running", "complete", "failed"}
    <3>1. << >> \in Seq(Keys)
      OBVIOUS
    <3>2. CASE c = Backfill
      BY <1>6, <3>1, <3>2 DEF Fail, TypeOK
    <3>3. CASE c # Backfill
      BY <1>6, <3>3 DEF Fail, TypeOK, backfill
    <3> QED BY <3>2, <3>3
  <2>5. BackfillShape'
    BY <1>0, <1>6, <2>1, <2>3 DEF Fail, BackfillShape, backfill
  <2> QED BY <1>4, <2>1, <2>2, <2>3, <2>4, <2>5
<1>7. CASE Pop
  <2>1. queue' \in Seq(Keys)
    BY <1>7, PoppedFacts DEF Pop, TypeOK
  <2> QED BY <1>7, <2>1
      DEF Pop, TypeOK, PendingOwned, BackfillShape, IdsDrawn, InFlightApart, table, backfill, reader
<1>8. CASE Peek
  BY <1>0, <1>8 DEF Peek, TypeOK, PendingOwned, BackfillShape, IdsDrawn, InFlightApart, table, reader
<1>9. CASE BackfillNext
  <2>1. todo \in Seq(Keys) /\ todo # << >> /\ Head(todo) \in Keys
    BY <1>9 DEF BackfillNext, BackfillShape, TypeOK
  <2>2. /\ lastId' \in Nat /\ pc' \in [Connections -> {"idle", "check", "commit"}]
        /\ row' \in [Connections -> Row] /\ PendingOwned' /\ IdsDrawn' /\ InFlightApart'
        /\ row'[Backfill].key = Head(todo)
    <3>1. PICK k \in Keys : k = Head(todo)
      BY <2>1
    <3>2. Draw(Backfill, k) /\ UNCHANGED <<table, todo, status, after>>
      BY <1>9, <3>1 DEF BackfillNext, backfill, reader
    <3>3. /\ lastId' \in Nat /\ pc' \in [Connections -> {"idle", "check", "commit"}]
          /\ row' \in [Connections -> Row] /\ PendingOwned' /\ IdsDrawn' /\ InFlightApart'
          /\ row'[Backfill] = [id |-> lastId + 1, key |-> k]
      BY <1>0, <3>2, DrawShape
    <3>4. row'[Backfill].key = k
      BY <3>3
    <3> QED BY <3>1, <3>3, <3>4
  <2>3. BackfillShape'
    BY <1>9, <2>1, <2>2 DEF BackfillNext, BackfillShape, backfill
  <2> QED BY <1>9, <2>2, <2>3 DEF BackfillNext, TypeOK, table, backfill, reader
<1>10. CASE Fetch
  <2>1. PICK last \in PageAfter(after) : after' = last.id
    BY <1>10 DEF Fetch
  <2>2. last \in rows /\ last.id \in Nat /\ after' \in Nat /\ after' <= lastId
    BY <2>1, KeyFacts DEF PageAfter, Ahead, TypeOK, IdsDrawn
  <2>3. got' \subseteq Nat
    BY <1>10, KeyFacts DEF Fetch, PageAfter, Ahead, TypeOK
  <2>4. passed' \subseteq Nat
    BY <1>0, <1>10, KeyFacts DEF Fetch, TypeOK, InFlight
  <2> QED BY <1>10, <2>2, <2>3, <2>4
      DEF Fetch, TypeOK, PendingOwned, BackfillShape, IdsDrawn, InFlightApart, table, backfill
<1>11. CASE UNCHANGED vars
  BY <1>11
  DEF vars, TypeOK, PendingOwned, BackfillShape, IdsDrawn, InFlightApart, table, backfill, reader
<1> QED
  BY <1>1, <1>2, <1>3, <1>5, <1>6, <1>7, <1>8, <1>9, <1>10, <1>11 DEF Next, Statement

\* Every reachable state of the archive is well typed.
THEOREM TypeCorrect == Spec => []TypeOK
<1>1. Shape => TypeOK
  BY DEF Shape
<1> QED BY <1>1, InitShape, StepShape, PTL DEF Spec
-----------------------------------------------------------------------------
(* One row for a key.                                                       *)

\* Rows that are there or may come.
Written == rows \cup pending
EachKeyOnce == /\ \A r, q \in Written : r.key = q.key => r = q
               /\ rows \cap pending = {}

LEMMA StepKeyOnce == Shape /\ EachKeyOnce /\ [Next]_vars => EachKeyOnce'
<1> SUFFICES ASSUME Shape, EachKeyOnce, [Next]_vars PROVE EachKeyOnce'
  OBVIOUS
<1>1. ASSUME Written' \subseteq Written, rows' \cap pending' = {} PROVE EachKeyOnce'
  BY <1>1 DEF EachKeyOnce
<1>2. ASSUME NEW c \in Connections, Add(c) PROVE EachKeyOnce'
  <2>1. Written' = Written \cup {row[c]} /\ \A r \in Written : r.key # row[c].key
    BY <1>2 DEF Add, Written, KeysOf
  <2>2. rows' = rows /\ pending' = pending \cup {row[c]} /\ row[c] \notin rows
    BY <1>2, <2>1 DEF Add, Written
  <2> QED BY <2>1, <2>2 DEF EachKeyOnce
<1>3. ASSUME NEW c \in Connections, Commit(c) PROVE EachKeyOnce'
  <2>1. row[c] \in pending
    BY <1>3 DEF Commit, Shape, PendingOwned
  <2>2. Written' \subseteq Written /\ rows' \cap pending' = {}
    BY <1>3, <2>1 DEF Commit, Written, EachKeyOnce
  <2> QED BY <1>1, <2>2
<1>4. ASSUME NEW c \in Connections, Fail(c) PROVE EachKeyOnce'
  <2>1. pc[c] = "commit" => row[c] \in pending
    BY DEF Shape, PendingOwned
  <2>2. Written' \subseteq Written /\ rows' \cap pending' = {}
    BY <1>4, <2>1 DEF Fail, Raise, Written, EachKeyOnce
  <2> QED BY <1>1, <2>2
<1>5. CASE UNCHANGED table
  BY <1>5 DEF table, Written, EachKeyOnce
<1> QED
  BY <1>2, <1>3, <1>4, <1>5
  DEF Next, Statement, Ingest, Present, Pop, Peek, BackfillNext, Fetch, vars, table

\* However many connections insert a key at the same time, it has one row.
THEOREM KeyOnceCorrect == Spec => []KeyOnce
<1>1. Init => Shape /\ EachKeyOnce
  BY InitShape DEF Init, EachKeyOnce, Written
<1>2. Shape /\ EachKeyOnce /\ [Next]_vars => Shape' /\ EachKeyOnce'
  BY StepShape, StepKeyOnce
<1>3. EachKeyOnce => KeyOnce
  BY DEF EachKeyOnce, KeyOnce, Written
<1> QED BY <1>1, <1>2, <1>3, PTL DEF Spec
-----------------------------------------------------------------------------
(* What the reader passes over.                                             *)

\* An INSERT under way whose id the reader has gone past is accounted for.
FlightsNoted ==
  \A c \in Connections : pc[c] # "idle" /\ row[c].id <= after => row[c].id \in passed

\* A page is closed downwards: a row below one of the page is of the page.
LEMMA PageIsFirst ==
  ASSUME Shape, NEW id \in Nat, NEW last \in PageAfter(id), NEW r \in rows, r.id > id, r.id <= last.id
  PROVE  r \in PageAfter(id)
<1> DEFINE Below(x) == { q \in Ahead(id) : q.id < x.id }
<1>1. \A x \in rows : x.id \in Nat
  BY KeyFacts DEF Shape, TypeOK
<1>2. last \in rows /\ Cardinality(Below(last)) < Limit
  BY DEF PageAfter, Ahead
<1>3. Below(r) \subseteq Below(last)
  BY <1>1, <1>2 DEF Ahead
<1>4. IsFiniteSet(Below(last))
  BY FS_Subset DEF Shape, Ahead
<1>5. Cardinality(Below(r)) <= Cardinality(Below(last))
  BY <1>3, <1>4, FS_Subset
<1>6. IsFiniteSet(Below(r))
  BY <1>3, <1>4, FS_Subset
<1>7. Cardinality(Below(r)) \in Nat /\ Cardinality(Below(last)) \in Nat /\ Limit \in Nat
  BY <1>4, <1>6, FS_CardinalityType, ArchiveAssumption
<1> HIDE DEF Below
<1>8. Cardinality(Below(r)) < Limit
  BY <1>2, <1>5, <1>7
<1>9. r \in Ahead(id)
  BY DEF Ahead
<1> QED BY <1>8, <1>9 DEF PageAfter, Below

LEMMA StepPassed ==
  ASSUME Shape, FlightsNoted, PassedOnlyInFlight, [Next]_vars
  PROVE  FlightsNoted' /\ PassedOnlyInFlight'
<1> USE DEF Shape
<1>0. /\ \A c \in Connections : row[c].id \in Nat
      /\ \A r \in rows : r.id \in Nat
      /\ lastId \in Nat /\ after \in Nat /\ after <= lastId
  BY KeyFacts DEF TypeOK, IdsDrawn
<1>1. ASSUME NEW c \in Connections, NEW k, Draw(c, k), UNCHANGED <<table, reader>>
      PROVE  FlightsNoted' /\ PassedOnlyInFlight'
  <2>1. row'[c].id = lastId + 1 /\ \A d \in Connections \ {c} : row'[d] = row[d] /\ pc'[d] = pc[d]
    BY <1>1 DEF Draw, TypeOK
  <2>2. ~(row'[c].id <= after)
    BY <1>0, <2>1
  <2> QED BY <1>1, <2>1, <2>2 DEF FlightsNoted, PassedOnlyInFlight, table, reader
<1>2. ASSUME UNCHANGED <<row, reader>>, \A c \in Connections : pc[c] = "idle" => pc'[c] = "idle",
             \A r \in rows' \ rows : \E c \in Connections : r = row[c] /\ pc[c] # "idle"
      PROVE  FlightsNoted' /\ PassedOnlyInFlight'
  BY <1>2 DEF FlightsNoted, PassedOnlyInFlight, reader
<1>3. ASSUME NEW c \in Connections, Present(c) \/ Add(c) \/ Commit(c)
      PROVE  FlightsNoted' /\ PassedOnlyInFlight'
  <2>1. UNCHANGED <<row, reader>> /\ \A d \in Connections : pc[d] = "idle" => pc'[d] = "idle"
    BY <1>3 DEF Present, Add, Commit, Return, TypeOK
  <2>2. \A r \in rows' \ rows : r = row[c] /\ pc[c] # "idle"
    BY <1>3 DEF Present, Add, Commit, table
  <2> QED BY <1>2, <2>1, <2>2
<1>4. ASSUME NEW c \in Connections, Fail(c)
      PROVE  FlightsNoted' /\ PassedOnlyInFlight'
  <2>1. UNCHANGED <<row, reader>> /\ \A d \in Connections : pc[d] = "idle" => pc'[d] = "idle"
    BY <1>4 DEF Fail, Raise, TypeOK
  <2>2. \A r \in rows' \ rows : r = row[c] /\ pc[c] # "idle"
    BY <1>4 DEF Fail, Raise
  <2> QED BY <1>2, <2>1, <2>2
<1>5. CASE Fetch
  <2>1. PICK last \in PageAfter(after) : after' = last.id
    BY <1>5 DEF Fetch
  <2>2. UNCHANGED <<rows, row, pc>>
    BY <1>5 DEF Fetch, table
  <2>3. FlightsNoted'
    BY <1>5, <2>2 DEF Fetch, FlightsNoted, InFlight
  <2>4. ASSUME NEW r \in rows, r.id <= after' PROVE r.id \in got' \cup passed'
    <3>1. CASE r.id <= after
      BY <1>5, <3>1 DEF Fetch, PassedOnlyInFlight
    <3>2. CASE r.id > after
      <4>1. r \in PageAfter(after)
        BY <1>0, <2>1, <2>4, <3>2, PageIsFirst
      <4> QED BY <1>5, <4>1 DEF Fetch
    <3> QED BY <1>0, <3>1, <3>2
  <2> QED BY <2>2, <2>3, <2>4 DEF PassedOnlyInFlight
<1>6. CASE UNCHANGED <<rows, pc, row, reader>>
  BY <1>2, <1>6
<1>7. ASSUME NEW w \in Writers, NEW k \in Keys, Ingest(w, k)
      PROVE  FlightsNoted' /\ PassedOnlyInFlight'
  BY <1>1, <1>7 DEF Ingest
<1>8. CASE BackfillNext
  BY <1>1, <1>8 DEF BackfillNext
<1> QED
  BY <1>3, <1>4, <1>5, <1>6, <1>7, <1>8 DEF Next, Statement, Pop, Peek, vars, table, reader

\* Whatever commits late, a reader that pages by id misses only rows whose
\* INSERT was under way when it went past them.
THEOREM PassedOnlyInFlightCorrect == Spec => []PassedOnlyInFlight
<1>1. Init => Shape /\ FlightsNoted /\ PassedOnlyInFlight
  BY InitShape DEF Init, FlightsNoted, PassedOnlyInFlight
<1>2. Shape /\ FlightsNoted /\ PassedOnlyInFlight /\ [Next]_vars
        => Shape' /\ FlightsNoted' /\ PassedOnlyInFlight'
  BY StepShape, StepPassed
<1> QED BY <1>1, <1>2, PTL DEF Spec
-----------------------------------------------------------------------------
(* What a run of backfill has done.                                         *)

\* The frames backfill is through with, of those it peeked at.
Through == Len(peeked) - Len(todo)
DoneKeys == { peeked[i] : i \in 1 .. Through }

Progress ==
  status \in {"running", "complete"} =>
    /\ Len(todo) <= Len(peeked)
    /\ \A i \in DOMAIN todo : todo[i] = peeked[i + Through]
    /\ DoneKeys \subseteq KeysOf(rows) /\ IsFiniteSet(DoneKeys)
    /\ inserted <= Cardinality(DoneKeys)
    /\ status = "complete" => todo = << >>

Lens == /\ Len(peeked) \in Nat /\ DOMAIN peeked = 1 .. Len(peeked)
        /\ Len(todo) \in Nat /\ DOMAIN todo = 1 .. Len(todo)

LEMMA LensOK == TypeOK => Lens
BY LenProperties DEF TypeOK, Lens

\* Backfill goes on to the next frame, whose key now has a row.
LEMMA StepThrough ==
  ASSUME Shape, Progress, pc[Backfill] # "idle", NEW new \in {0, 1}, Return(Backfill, new),
         KeysOf(rows) \subseteq KeysOf(rows)', row[Backfill].key \in KeysOf(rows)',
         new = 1 => row[Backfill].key \notin KeysOf(rows)
  PROVE  Progress'
<1> USE DEF Return
<1>1. status = "running" /\ todo \in Seq(Keys) /\ todo # << >> /\ row[Backfill].key = Head(todo)
  BY DEF Shape, TypeOK, BackfillShape
<1>2. Lens /\ TypeOK
  BY LensOK DEF Shape
<1>3. todo' = Popped(todo) /\ peeked' = peeked
  BY DEF Popped
<1>4. /\ Popped(todo) \in Seq(Keys) /\ Len(Popped(todo)) = Len(todo) - 1
      /\ \A i \in DOMAIN Popped(todo) : Popped(todo)[i] = todo[i + 1] /\ i + 1 \in DOMAIN todo
      /\ Head(todo) = todo[1] /\ 1 \in DOMAIN todo
  BY <1>1, PoppedFacts, PoppedPlaces
<1>5. Len(todo') = Len(todo) - 1 /\ Through' = Through + 1 /\ Through \in Nat
  BY <1>1, <1>2, <1>3, <1>4 DEF Lens, Through, Progress
<1>6. DOMAIN todo' = 1 .. Len(todo')
  BY <1>3, <1>4, LenProperties
<1>7. \A i \in DOMAIN todo' : todo'[i] = peeked'[i + Through']
  <2> TAKE i \in DOMAIN todo'
  <2>1. todo'[i] = todo[i + 1] /\ i + 1 \in DOMAIN todo
    BY <1>3, <1>4
  <2>2. todo[i + 1] = peeked[i + 1 + Through]
    BY <1>1, <2>1 DEF Progress
  <2>3. i \in Nat /\ i + 1 + Through = i + Through'
    BY <1>2, <1>4, <1>5, <1>6 DEF Lens
  <2> QED BY <1>3, <2>1, <2>2, <2>3
<1>8. Head(todo) = peeked[1 + Through]
  BY <1>1, <1>4 DEF Progress
<1>9. DoneKeys' = DoneKeys \cup {Head(todo)}
  BY <1>3, <1>5, <1>8 DEF DoneKeys
<1>10. DoneKeys' \subseteq KeysOf(rows)' /\ IsFiniteSet(DoneKeys')
  BY <1>1, <1>9, FS_AddElement DEF Progress
<1>11. inserted' <= Cardinality(DoneKeys')
  <2>1. IsFiniteSet(DoneKeys) /\ Cardinality(DoneKeys) \in Nat /\ inserted \in Nat
        /\ inserted <= Cardinality(DoneKeys) /\ inserted' = inserted + new
    BY <1>1, <1>2, FS_CardinalityType DEF TypeOK, Progress
  <2>2. CASE new = 0
    <3>1. Cardinality(DoneKeys) <= Cardinality(DoneKeys') /\ Cardinality(DoneKeys') \in Nat
      BY <1>9, <1>10, FS_Subset, FS_CardinalityType
    <3> QED BY <2>1, <2>2, <3>1
  <2>3. CASE new = 1
    <3>1. Head(todo) \notin DoneKeys
      BY <1>1, <2>3 DEF Progress
    <3>2. Cardinality(DoneKeys') = Cardinality(DoneKeys) + 1
      BY <1>9, <2>1, <3>1, FS_AddElement
    <3> QED BY <2>1, <2>3, <3>2
  <2> QED BY <2>2, <2>3
<1>12. status' = "complete" => todo' = << >>
  BY <1>1
<1>13. Len(todo') <= Len(peeked')
  BY <1>2, <1>3, <1>5, <1>1 DEF Lens, Progress
<1> QED BY <1>7, <1>10, <1>11, <1>12, <1>13 DEF Progress

LEMMA StepProgress == Shape /\ EachKeyOnce /\ Progress /\ [Next]_vars => Progress'
<1> SUFFICES ASSUME Shape, EachKeyOnce, Progress, [Next]_vars PROVE Progress'
  OBVIOUS
<1>0. Backfill \notin Writers
  BY ArchiveAssumption
<1>1. ASSUME UNCHANGED backfill, KeysOf(rows) \subseteq KeysOf(rows)' PROVE Progress'
  BY <1>1 DEF Progress, Through, DoneKeys, backfill
<1>2. ASSUME NEW c \in Connections, Present(c) PROVE Progress'
  <2>1. CASE c = Backfill
    BY <1>2, <2>1, StepThrough DEF Present, table, KeysOf
  <2>2. CASE c # Backfill
    BY <1>1, <1>2, <2>2 DEF Present, Return, table, KeysOf
  <2> QED BY <2>1, <2>2
<1>3. ASSUME NEW c \in Connections, Commit(c) PROVE Progress'
  <2>1. KeysOf(rows) \subseteq KeysOf(rows)' /\ row[c].key \in KeysOf(rows)'
    BY <1>3 DEF Commit, KeysOf
  <2>2. row[c].key \notin KeysOf(rows)
    BY <1>3 DEF Commit, Shape, PendingOwned, EachKeyOnce, Written, KeysOf
  <2>3. CASE c = Backfill
    <3>1. pc[Backfill] # "idle" /\ Return(Backfill, 1)
      BY <1>3, <2>3 DEF Commit
    <3> QED BY <2>1, <2>2, <2>3, <3>1, StepThrough
  <2>4. CASE c # Backfill
    BY <1>1, <1>3, <2>1, <2>4 DEF Commit, Return
  <2> QED BY <2>3, <2>4
<1>4. ASSUME NEW c \in Connections, Fail(c) PROVE Progress'
  <2>1. CASE c = Backfill
    BY <1>4, <2>1 DEF Fail, Progress
  <2>2. CASE c # Backfill
    BY <1>1, <1>4, <2>2 DEF Fail, Raise, KeysOf
  <2> QED BY <2>1, <2>2
<1>5. CASE Peek
  <2>1. todo' = peeked' /\ inserted' = 0 /\ todo' \in Seq(Keys)
        /\ (status' = "complete" => todo' = << >>)
    BY <1>5 DEF Peek, Shape, TypeOK
  <2>2. Through' = 0 /\ Len(todo') \in Nat /\ DOMAIN todo' = 1 .. Len(todo')
    BY <2>1, LenProperties DEF Through
  <2>3. DoneKeys' = {}
    BY <2>2 DEF DoneKeys
  <2>4. IsFiniteSet(DoneKeys') /\ Cardinality(DoneKeys') = 0 /\ Len(todo') <= Len(peeked')
    BY <2>1, <2>2, <2>3, FS_EmptySet
  <2>5. \A i \in DOMAIN todo' : todo'[i] = peeked'[i + Through']
    BY <2>1, <2>2
  <2> QED BY <2>1, <2>3, <2>4, <2>5 DEF Progress
<1>6. CASE UNCHANGED <<rows, backfill>>
  BY <1>1, <1>6 DEF KeysOf
<1> QED
  BY <1>2, <1>3, <1>4, <1>5, <1>6
  DEF Next, Statement, Ingest, Add, Pop, BackfillNext, Fetch, vars, table

\* A run of backfill that is complete has left no frame of the list out of the
\* archive and has counted none twice, whatever ingest inserted beside it and
\* however often it ran before.
THEOREM BackfillCompleteCorrect == Spec => []BackfillComplete
<1>1. Init => Shape /\ EachKeyOnce /\ Progress
  BY InitShape DEF Init, EachKeyOnce, Written, Progress
<1>2. Shape /\ EachKeyOnce /\ Progress /\ [Next]_vars => Shape' /\ EachKeyOnce' /\ Progress'
  BY StepShape, StepKeyOnce, StepProgress
<1>3. Shape /\ Progress => BackfillComplete
  <2> SUFFICES ASSUME Shape, Progress, status = "complete"
               PROVE  Items(peeked) \subseteq KeysOf(rows) /\ inserted <= Cardinality(Items(peeked))
    BY DEF BackfillComplete
  <2>1. Through = Len(peeked) /\ DOMAIN peeked = 1 .. Len(peeked)
    BY LensOK DEF Shape, Lens, Through, Progress
  <2>2. DoneKeys = Items(peeked)
    BY <2>1 DEF DoneKeys, Items
  <2> QED BY <2>2 DEF Progress
<1> QED BY <1>1, <1>2, <1>3, PTL DEF Spec
=============================================================================
