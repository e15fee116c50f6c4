------------------------------- MODULE Archive -------------------------------
(***************************************************************************)
(* The table raw_frames in Postgres: ingest processes insert the frames    *)
(* they queue, backfill inserts what is queued when it starts, and a       *)
(* reader pages through the table by id.  An INSERT is three steps of the  *)
(* server, so that those of several connections interleave.                *)
(***************************************************************************)
EXTENDS Naturals, FiniteSets, RedisList

CONSTANTS
  Writers,   \* ingest processes, one connection each
  Backfill,  \* the connection of backfill
  Keys,      \* dedup keys
  Limit,     \* limit of fetch_since
  MaxQueue,  \* max_queue_size of the raw list
  MaxId,     \* bound: ids drawn
  MaxFail    \* bound: inserts that raise

Connections == Writers \cup {Backfill}
Row == [id : Nat, key : Keys]

ASSUME ArchiveAssumption ==
  /\ Backfill \notin Writers
  /\ {Limit, MaxQueue} \subseteq Nat \ {0}
  /\ {MaxId, MaxFail} \subseteq Nat

VARIABLES
  queue,     \* the raw list (Redis)
  rows,      \* committed rows
  pending,   \* rows inserted and not committed yet
  lastId,    \* the BIGSERIAL sequence
  pc,        \* where each connection stands in insert_frame
  row,       \* the row it inserts
  todo,      \* frames backfill has not inserted yet
  peeked,    \* what peek_all gave backfill
  inserted,  \* rows backfill counted as new
  status,    \* of backfill: "off", "running", "complete" or "failed"
  after,     \* after_id of the reader
  got,       \* history: ids the reader got
  passed,    \* history: ids in flight when the reader went past them
  fails      \* history: inserts that raised

table == <<rows, pending>>
backfill == <<todo, peeked, inserted, status>>
reader == <<after, got, passed>>
vars == <<queue, table, lastId, pc, row, backfill, reader, fails>>

TypeOK ==
  /\ queue \in Seq(Keys)
  /\ rows \subseteq Row
  /\ pending \subseteq Row
  /\ lastId \in Nat
  /\ pc \in [Connections -> {"idle", "check", "commit"}]
  /\ row \in [Connections -> Row]
  /\ todo \in Seq(Keys) /\ peeked \in Seq(Keys)
  /\ inserted \in Nat
  /\ status \in {"off", "running", "complete", "failed"}
  /\ after \in Nat /\ got \subseteq Nat /\ passed \subseteq Nat
  /\ fails \in Nat

Init ==
  /\ queue = << >> /\ rows = {} /\ pending = {} /\ lastId = 0
  /\ pc = [c \in Connections |-> "idle"]
  /\ row \in { [c \in Connections |-> [id |-> 0, key |-> k]] : k \in Keys }
  /\ todo = << >> /\ peeked = << >> /\ inserted = 0 /\ status = "off"
  /\ after = 0 /\ got = {} /\ passed = {} /\ fails = 0

-----------------------------------------------------------------------------
(* INSERT ... ON CONFLICT (dedup_key) DO NOTHING.                          *)

\* The default of id is drawn before the key is looked up, and for good: a row
\* that is not inserted after all leaves a gap.
Draw(c, k) ==
  /\ pc[c] = "idle"
  /\ lastId < MaxId
  /\ lastId' = lastId + 1
  /\ row' = [row EXCEPT ![c] = [id |-> lastId + 1, key |-> k]]
  /\ pc' = [pc EXCEPT ![c] = "check"]

KeysOf(R) == { r.key : r \in R }

\* insert_frame is over.  Backfill counts what was new and is complete with
\* the last frame.
Return(c, new) ==
  /\ pc' = [pc EXCEPT ![c] = "idle"]
  /\ IF c = Backfill
     THEN /\ todo' = Tail(todo)
          /\ inserted' = inserted + new
          /\ status' = IF Tail(todo) = << >> THEN "complete" ELSE status
          /\ UNCHANGED peeked
     ELSE UNCHANGED backfill

Present(c) ==
  /\ pc[c] = "check"
  /\ row[c].key \in KeysOf(rows)
  /\ Return(c, 0)
  /\ UNCHANGED <<queue, table, lastId, row, reader, fails>>

\* Mutant of Add: no unique key, or a SELECT in its place.
AddUnseen(c) ==
  /\ pc[c] = "check"
  /\ row[c].key \notin KeysOf(rows)
  /\ pending' = pending \cup {row[c]}
  /\ pc' = [pc EXCEPT ![c] = "commit"]
  /\ UNCHANGED <<queue, rows, lastId, row, backfill, reader, fails>>

\* A key that another transaction has inserted and not committed makes this
\* one wait for its end.
Add(c) ==
  /\ pc[c] = "check"
  /\ row[c].key \notin KeysOf(rows \cup pending)
  /\ pending' = pending \cup {row[c]}
  /\ pc' = [pc EXCEPT ![c] = "commit"]
  /\ UNCHANGED <<queue, rows, lastId, row, backfill, reader, fails>>

\* Mutant of Commit: a connection without autocommit.
CommitNever(c) ==
  /\ pc[c] = "commit"
  /\ Return(c, 1)
  /\ UNCHANGED <<queue, table, lastId, row, reader, fails>>

\* Autocommit.
Commit(c) ==
  /\ pc[c] = "commit"
  /\ pending' = pending \ {row[c]}
  /\ rows' = rows \cup {row[c]}
  /\ Return(c, 1)
  /\ UNCHANGED <<queue, lastId, row, reader, fails>>

\* insert_frame raises, before the commit or after it.  Ingest logs that and
\* goes on; backfill ends.
Raise(c) ==
  /\ fails < MaxFail
  /\ fails' = fails + 1
  /\ pc' = [pc EXCEPT ![c] = "idle"]
  /\ pending' = pending \ {row[c]}
  /\ \/ pc[c] \in {"check", "commit"} /\ UNCHANGED rows
     \/ pc[c] = "commit" /\ rows' = rows \cup {row[c]}
  /\ UNCHANGED <<queue, lastId, row, reader>>

\* Mutant of Fail: backfill logs and goes on, as ingest does.
FailGoesOn(c) ==
  /\ Raise(c)
  /\ IF c = Backfill
     THEN /\ todo' = Tail(todo)
          /\ status' = IF Tail(todo) = << >> THEN "complete" ELSE status
          /\ UNCHANGED <<peeked, inserted>>
     ELSE UNCHANGED backfill

Fail(c) ==
  /\ Raise(c)
  /\ IF c = Backfill
     THEN todo' = << >> /\ status' = "failed" /\ UNCHANGED <<peeked, inserted>>
     ELSE UNCHANGED backfill

-----------------------------------------------------------------------------
(* Who inserts and who reads.                                              *)

\* A frame that passed the seen set is queued and then archived.  The seen set
\* expires, so that a key may come again.
Ingest(w, k) ==
  /\ Draw(w, k)
  /\ queue' = Trimmed(RPushed(queue, k), MaxQueue)
  /\ UNCHANGED <<table, backfill, reader, fails>>

\* A decode worker takes the oldest frame.
Pop ==
  /\ queue # << >>
  /\ queue' = Popped(queue)
  /\ UNCHANGED <<table, lastId, pc, row, backfill, reader, fails>>

\* backfill starts, or is run again: peek_all leaves the list as it is.
Peek ==
  /\ status # "running"
  /\ peeked' = queue /\ todo' = queue
  /\ inserted' = 0
  /\ status' = IF queue = << >> THEN "complete" ELSE "running"
  /\ UNCHANGED <<queue, table, lastId, pc, row, reader, fails>>

BackfillNext ==
  /\ status = "running"
  /\ Draw(Backfill, Head(todo))
  /\ UNCHANGED <<queue, table, backfill, reader, fails>>

Ahead(id) == { r \in rows : r.id > id }

\* Mutants of PageAfter: no ORDER BY; the next ids in the place of the next rows.
PageNewest(id) == { r \in Ahead(id) : Cardinality({ q \in Ahead(id) : q.id > r.id }) < Limit }
PageByNumber(id) == { r \in Ahead(id) : r.id <= id + Limit }

\* fetch_since(id): the first rows beyond an id.
PageAfter(id) == { r \in Ahead(id) : Cardinality({ q \in Ahead(id) : q.id < r.id }) < Limit }

InFlight == { c \in Connections : pc[c] # "idle" }

\* The reader passes the last id it saw back in as after_id.
Fetch ==
  /\ \E last \in PageAfter(after) :
       /\ \A r \in PageAfter(after) : r.id <= last.id
       /\ after' = last.id
  /\ got' = got \cup { r.id : r \in PageAfter(after) }
  /\ passed' = passed \cup { i \in { row[c].id : c \in InFlight } : i <= after' }
  /\ UNCHANGED <<queue, table, lastId, pc, row, backfill, fails>>

Statement(c) == Present(c) \/ Add(c) \/ Commit(c)

Next ==
  \/ \E w \in Writers, k \in Keys : Ingest(w, k)
  \/ \E c \in Connections : Statement(c) \/ Fail(c)
  \/ Pop \/ Peek \/ BackfillNext \/ Fetch

Spec == Init /\ [][Next]_vars

\* Postgres executes what it was sent, and the reader goes on reading.
Fairness == WF_vars(Fetch) /\ \A c \in Connections : WF_vars(Statement(c))

FairSpec == Spec /\ Fairness

-----------------------------------------------------------------------------
(* What must hold.                                                         *)

\* A key has one row, whichever connections insert it at the same time: this
\* is what makes backfill safe beside ingest and safe to run again.
KeyOnce == \A r, q \in rows : r.key = q.key => r = q

\* Paging by id passes over a row only when its INSERT was under way, its id
\* drawn and its commit still to come, while the reader got a younger one.
PassedOnlyInFlight == \A r \in rows : r.id <= after => r.id \in got \cup passed

\* A run of backfill that reports completion has archived every frame it found
\* in the list, and counts none of them as new twice.
BackfillComplete ==
  status = "complete" =>
    /\ Items(peeked) \subseteq KeysOf(rows)
    /\ inserted <= Cardinality(Items(peeked))

\* No INSERT waits forever: two that wait for each other are impossible, since
\* each is a transaction of its own.
InsertReturns == \A c \in Connections : pc[c] # "idle" ~> pc[c] = "idle"

\* The reader gets every row it did not pass over, across the gaps that
\* conflicts and errors leave in the ids.
EveryRowIsRead == \A i \in 1 .. MaxId : i \in { r.id : r \in rows } ~> i \in got \cup passed
=============================================================================
