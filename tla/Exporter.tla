------------------------------ MODULE Exporter ------------------------------
(***************************************************************************)
(* The observability service: each process replays the last reading of     *)
(* every satellite from a Redis hash into its fresh Prometheus registry,   *)
(* opens the scrape endpoint, and then pops readings, publishes them and   *)
(* saves the newest one of each satellite back.  Scrapes run in a thread   *)
(* of their own (module Scrape) and may come between any two assignments   *)
(* to the registry, so that each is a step.                                *)
(***************************************************************************)
EXTENDS Integers, FiniteSets, RedisList

CONSTANTS
  Exporters,  \* processes that may be alive at the same time
  Sats,       \* satellites (NORAD ids)
  Names,      \* metric names
  Readings,   \* readings demux may produce: [sat, time, metrics, id] records
  MaxQueue,   \* max_queue_size of the telemetry list
  None,       \* no reading
  MaxStop,    \* bound: signals in a behaviour
  MaxCrash    \* bound: crashes in a behaviour

ASSUME ReadingAssumption ==
  Readings \subseteq [sat : Sats, time : Nat \ {0}, metrics : SUBSET Names, id : Nat]
ASSUME NoneAssumption == None \notin Readings
ASSUME QueueAssumption == MaxQueue \in Nat \ {0}
ASSUME BoundAssumption == MaxStop \in Nat /\ MaxCrash \in Nat

Reading0 == Readings \cup {None}
Time(r) == IF r = None THEN 0 ELSE r.time

VARIABLES
  queue,     \* the telemetry list (Redis)
  store,     \* the hash of last readings (Redis)
  pc,        \* where each process stands
  cur,       \* the reading it is working on
  todo,      \* metrics of that reading it has yet to publish
  loaded,    \* readings it has yet to replay
  serving,   \* its scrape endpoint is open
  stopping,  \* its stop_event
  latest,    \* _latest_exported: time of the newest reading, 0 for none
  gauge,     \* TELEMETRY_METRIC: the reading each series has its value from
  stamp,     \* LAST_READING_TIMESTAMP: the reading it was set from
  score,     \* READINESS_SCORE: the reading it was computed from
  counter,   \* READINGS_TOTAL
  arrived,   \* history: readings demux has pushed
  evicted,   \* history: readings LTRIM dropped
  popped,    \* history: readings each process popped since its start
  stops, crashes  \* history: signals and crashes so far

registry == <<latest, gauge, stamp, score, counter>>
process == <<pc, cur, todo, loaded, serving, stopping>>
vars == <<queue, store, process, registry, arrived, evicted, popped, stops, crashes>>

Series == Sats \X Names
PC == {"down", "replay", "top", "metrics", "stamp", "score", "hget", "hset"}

TypeOK ==
  /\ queue \in Seq(Readings)
  /\ store \in [Sats -> Reading0]
  /\ pc \in [Exporters -> PC]
  /\ cur \in [Exporters -> Reading0]
  /\ todo \in [Exporters -> SUBSET Names]
  /\ loaded \in [Exporters -> SUBSET Readings]
  /\ serving \in [Exporters -> BOOLEAN]
  /\ stopping \in [Exporters -> BOOLEAN]
  /\ latest \in [Exporters -> [Sats -> Nat]]
  /\ gauge \in [Exporters -> [Series -> Reading0]]
  /\ stamp \in [Exporters -> [Sats -> Reading0]]
  /\ score \in [Exporters -> [Sats -> Reading0]]
  /\ counter \in [Exporters -> [Sats -> Nat]]
  /\ arrived \in SUBSET Readings
  /\ evicted \in SUBSET Readings
  /\ popped \in [Exporters -> SUBSET Readings]
  /\ stops \in Nat /\ crashes \in Nat

Blank == [s \in Sats |-> None]
Zero == [s \in Sats |-> 0]

Init ==
  /\ queue = << >>
  /\ store = Blank
  /\ pc = [w \in Exporters |-> "down"]
  /\ cur = [w \in Exporters |-> None]
  /\ todo = [w \in Exporters |-> {}]
  /\ loaded = [w \in Exporters |-> {}]
  /\ serving = [w \in Exporters |-> FALSE]
  /\ stopping = [w \in Exporters |-> FALSE]
  /\ latest = [w \in Exporters |-> Zero]
  /\ gauge = [w \in Exporters |-> [k \in Series |-> None]]
  /\ stamp = [w \in Exporters |-> Blank]
  /\ score = [w \in Exporters |-> Blank]
  /\ counter = [w \in Exporters |-> Zero]
  /\ arrived = {}
  /\ evicted = {}
  /\ popped = [w \in Exporters |-> {}]
  /\ stops = 0 /\ crashes = 0

\* demux pushes a reading: RPUSH and LTRIM, or RPUSH alone if the worker ends
\* between them.  (Pipeline has the two apart.  A Pop between them takes what one
\* before or after them would.)  Pages come newest first and backfills replay
\* history, so that readings come in any order.
Arrive(r) ==
  /\ r \notin arrived
  /\ arrived' = arrived \cup {r}
  /\ \/ queue' = Trimmed(RPushed(queue, r), MaxQueue)
     \/ queue' = RPushed(queue, r)
  /\ evicted' = evicted \cup (Items(queue) \ Items(queue'))
  /\ UNCHANGED <<store, process, registry, popped, stops, crashes>>

-----------------------------------------------------------------------------
(* export.                                                                 *)

\* Mutant of Older: no comparison.
OlderNever(w, r) == FALSE

\* The satellite has a newer reading in the registry already.
Older(w, r) == latest[w][r.sat] # 0 /\ r.time < latest[w][r.sat]

Counted(w, r) == [counter EXCEPT ![w][r.sat] = @ + 1]

\* Mutant of Count: the replay of a restart counts as well.
CountReplays(w, r) == counter' = Counted(w, r)

\* count=True for what was popped, count=False for what is replayed.
Count(w, r) == counter' = IF serving[w] THEN Counted(w, r) ELSE counter

\* What follows export: save for what was popped, the next one in a replay.
AfterExport(w) == IF serving[w] THEN "hget" ELSE "replay"

\* The head of export: an older reading is only counted.
Begin(w, r) ==
  /\ cur' = [cur EXCEPT ![w] = r]
  /\ \/ /\ Older(w, r)
        /\ Count(w, r)
        /\ pc' = [pc EXCEPT ![w] = AfterExport(w)]
        /\ UNCHANGED <<latest, todo>>
     \/ /\ ~Older(w, r)
        /\ latest' = [latest EXCEPT ![w][r.sat] = r.time]
        /\ todo' = [todo EXCEPT ![w] = r.metrics]
        /\ pc' = [pc EXCEPT ![w] = "metrics"]
        /\ UNCHANGED counter
  /\ UNCHANGED <<gauge, stamp, score, serving, stopping>>

\* One metric of the reading is set.
SetMetric(w) ==
  /\ pc[w] = "metrics"
  /\ \E n \in todo[w] :
       /\ gauge' = [gauge EXCEPT ![w][<<cur[w].sat, n>>] = cur[w]]
       /\ todo' = [todo EXCEPT ![w] = @ \ {n}]
  /\ UNCHANGED <<queue, store, pc, cur, loaded, serving, stopping, latest, stamp, score, counter,
                 arrived, evicted, popped, stops, crashes>>

\* Mutant of CountReading: out of the loop over the metrics too early.
CountReadingEarly(w) ==
  /\ pc[w] = "metrics"
  /\ Count(w, cur[w])
  /\ pc' = [pc EXCEPT ![w] = "stamp"]
  /\ UNCHANGED <<queue, store, cur, todo, loaded, serving, stopping, latest, gauge, stamp, score,
                 arrived, evicted, popped, stops, crashes>>

\* The counter, once the metrics are set.
CountReading(w) ==
  /\ pc[w] = "metrics"
  /\ todo[w] = {}
  /\ Count(w, cur[w])
  /\ pc' = [pc EXCEPT ![w] = "stamp"]
  /\ UNCHANGED <<queue, store, cur, todo, loaded, serving, stopping, latest, gauge, stamp, score,
                 arrived, evicted, popped, stops, crashes>>

SetStamp(w) ==
  /\ pc[w] = "stamp"
  /\ stamp' = [stamp EXCEPT ![w][cur[w].sat] = cur[w]]
  /\ pc' = [pc EXCEPT ![w] = "score"]
  /\ UNCHANGED <<queue, store, cur, todo, loaded, serving, stopping, latest, gauge, score, counter,
                 arrived, evicted, popped, stops, crashes>>

SetScore(w) ==
  /\ pc[w] = "score"
  /\ score' = [score EXCEPT ![w][cur[w].sat] = cur[w]]
  /\ pc' = [pc EXCEPT ![w] = AfterExport(w)]
  /\ UNCHANGED <<queue, store, cur, todo, loaded, serving, stopping, latest, gauge, stamp, counter,
                 arrived, evicted, popped, stops, crashes>>

-----------------------------------------------------------------------------
(* The life of one process.                                                *)

\* What HGETALL returns.
Stored == { store[s] : s \in Sats } \ {None}

\* load_all: HGETALL, before the scrape endpoint opens.
Load(w) ==
  /\ pc[w] = "down"
  /\ loaded' = [loaded EXCEPT ![w] = Stored]
  /\ pc' = [pc EXCEPT ![w] = "replay"]
  /\ UNCHANGED <<queue, store, cur, todo, serving, stopping, registry, arrived, evicted, popped,
                 stops, crashes>>

Replay(w) ==
  /\ pc[w] = "replay"
  /\ \E r \in loaded[w] :
       /\ Begin(w, r)
       /\ loaded' = [loaded EXCEPT ![w] = @ \ {r}]
  /\ UNCHANGED <<queue, store, arrived, evicted, popped, stops, crashes>>

\* start_scrape_endpoint; the loop begins.
Serve(w) ==
  /\ pc[w] = "replay"
  /\ loaded[w] = {}
  /\ serving' = [serving EXCEPT ![w] = TRUE]
  /\ cur' = [cur EXCEPT ![w] = None]
  /\ pc' = [pc EXCEPT ![w] = "top"]
  /\ UNCHANGED <<queue, store, todo, loaded, stopping, registry, arrived, evicted, popped, stops, crashes>>

\* _export_once: pop and export.
Pop(w) ==
  /\ pc[w] = "top"
  /\ ~stopping[w]
  /\ queue # << >>
  /\ Begin(w, Head(queue))
  /\ popped' = [popped EXCEPT ![w] = @ \cup {Head(queue)}]
  /\ queue' = Popped(queue)
  /\ UNCHANGED <<store, loaded, arrived, evicted, stops, crashes>>

\* Mutants of Keeps: nothing kept; a reading of the same time kept; the
\* comparison the wrong way round.
KeepsNothing(old, r) == FALSE
KeepsEqual(old, r) == old # None /\ old.time >= r.time

KeepsOlder(old, r) == old # None /\ old.time < r.time

\* The stored reading is newer than the one to save.
Keeps(old, r) == old # None /\ old.time > r.time

\* save, first command: HGET and the comparison.
HGet(w) ==
  /\ pc[w] = "hget"
  /\ LET kept == Keeps(store[cur[w].sat], cur[w])
     IN /\ pc' = [pc EXCEPT ![w] = IF kept THEN "top" ELSE "hset"]
        /\ cur' = [cur EXCEPT ![w] = IF kept THEN None ELSE @]
  /\ UNCHANGED <<queue, store, todo, loaded, serving, stopping, registry, arrived, evicted, popped,
                 stops, crashes>>

\* save, second command: HSET.
HSet(w) ==
  /\ pc[w] = "hset"
  /\ store' = [store EXCEPT ![cur[w].sat] = cur[w]]
  /\ pc' = [pc EXCEPT ![w] = "top"]
  /\ cur' = [cur EXCEPT ![w] = None]
  /\ UNCHANGED <<queue, todo, loaded, serving, stopping, registry, arrived, evicted, popped, stops,
                 crashes>>

\* Signal handlers are installed after the replay.
Sigterm(w) ==
  /\ serving[w] /\ ~stopping[w]
  /\ stops < MaxStop
  /\ stops' = stops + 1
  /\ stopping' = [stopping EXCEPT ![w] = TRUE]
  /\ UNCHANGED <<queue, store, pc, cur, todo, loaded, serving, registry, arrived, evicted, popped,
                 crashes>>

\* The memory of the process is gone.
Ends(w) ==
  /\ pc' = [pc EXCEPT ![w] = "down"]
  /\ cur' = [cur EXCEPT ![w] = None]
  /\ todo' = [todo EXCEPT ![w] = {}]
  /\ loaded' = [loaded EXCEPT ![w] = {}]
  /\ serving' = [serving EXCEPT ![w] = FALSE]
  /\ stopping' = [stopping EXCEPT ![w] = FALSE]
  /\ latest' = [latest EXCEPT ![w] = Zero]
  /\ gauge' = [gauge EXCEPT ![w] = [k \in Series |-> None]]
  /\ stamp' = [stamp EXCEPT ![w] = Blank]
  /\ score' = [score EXCEPT ![w] = Blank]
  /\ counter' = [counter EXCEPT ![w] = Zero]
  /\ popped' = [popped EXCEPT ![w] = {}]

Exit(w) ==
  /\ pc[w] = "top" /\ stopping[w]
  /\ Ends(w)
  /\ UNCHANGED <<queue, store, arrived, evicted, stops, crashes>>

\* Killed, or a Redis command raised out of run.
Crash(w) ==
  /\ pc[w] # "down"
  /\ crashes < MaxCrash
  /\ crashes' = crashes + 1
  /\ Ends(w)
  /\ UNCHANGED <<queue, store, arrived, evicted, stops>>

Step(w) ==
  \/ Load(w) \/ Replay(w) \/ Serve(w) \/ Pop(w) \/ SetMetric(w) \/ CountReading(w)
  \/ SetStamp(w) \/ SetScore(w) \/ HGet(w) \/ HSet(w) \/ Exit(w)

Next ==
  \/ \E r \in Readings : Arrive(r)
  \/ \E w \in Exporters : Step(w) \/ Sigterm(w) \/ Crash(w)

Spec == Init /\ [][Next]_vars

\* The event loop runs and Kubernetes restarts the pod.
Fairness == \A w \in Exporters : WF_vars(Step(w))

-----------------------------------------------------------------------------
(* What must hold.                                                         *)

\* README.md: "Gauges are monotonic in frame time, so out-of-order batches
\* cannot regress them": while a process lives, none of its series goes back
\* to an older reading, in whatever order readings come.
GaugesMonotone ==
  [][ \A w \in Exporters : pc'[w] # "down" =>
        \A s \in Sats :
          /\ Time(stamp[w][s]) <= Time(stamp'[w][s])
          /\ Time(score[w][s]) <= Time(score'[w][s])
          /\ \A n \in Names : Time(gauge[w][<<s, n>>]) <= Time(gauge'[w][<<s, n>>]) ]_vars

\* The counter of a process is the number of readings it popped, replays aside.
CountsPopped ==
  \A w \in Exporters, s \in Sats : pc[w] = "top" =>
    counter[w][s] = Cardinality({ r \in popped[w] : r.sat = s })

\* With one exporter, the registry shows exactly the reading of each satellite
\* that the store would replay, but for the reading in hand, between the
\* assignment of its timestamp and its save.  A crash there takes that one back
\* and no other; anywhere else a restart changes no timestamp and no score.
ShowsStored ==
  \A w \in Exporters : serving[w] => \A s \in Sats :
    \/ stamp[w][s] = store[s] /\ score[w][s] = store[s]
    \/ /\ pc[w] \in {"score", "hget", "hset"}
       /\ cur[w].sat = s
       /\ Time(store[s]) <= cur[w].time
       /\ stamp[w][s] = cur[w]
       /\ score[w][s] = IF pc[w] = "score" THEN store[s] ELSE cur[w]

\* last_readings.py: "out-of-order processing cannot regress the replay state".
StoreMonotone == [][ \A s \in Sats : Time(store[s]) <= Time(store'[s]) ]_vars

\* Once nobody crashes, a reading that is still queued gets to the store, or a
\* reading as new does, unless LTRIM takes it from a list that is full.
NewestIsStored ==
  \A r \in Readings :
    (crashes = MaxCrash /\ r \in Items(queue))
      ~> (Time(store[r.sat]) >= r.time \/ r \in evicted)
=============================================================================
