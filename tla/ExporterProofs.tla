--------------------------- MODULE ExporterProofs ---------------------------
(* The theorems about Exporter and Scrape, for any number of processes,     *)
(* satellites, metrics and readings, and any number of stops and crashes.   *)
EXTENDS Scrape, RedisListProofs, FiniteSetTheorems

LEMMA ReadingFacts ==
  /\ \A r \in Readings : /\ r # None
                         /\ r.sat \in Sats /\ r.time \in Nat \ {0}
                         /\ r.metrics \subseteq Names
                         /\ Time(r) = r.time
  /\ \A r \in Reading0 : Time(r) \in Nat
  /\ Time(None) = 0
  /\ None \in Reading0
BY ReadingAssumption, NoneAssumption DEF Time, Reading0

\* A process that exports or saves holds a reading, the newest of its
\* satellite as long as it exports.
HandOK ==
  \A w \in Exporters :
    /\ pc[w] \in {"metrics", "stamp", "score", "hget", "hset"} => cur[w] \in Readings
    /\ pc[w] \in {"metrics", "stamp", "score"} => latest[w][cur[w].sat] = cur[w].time

LEMMA InitTyped == Init => TypeOK /\ HandOK
<1> SUFFICES ASSUME Init PROVE TypeOK /\ HandOK
  OBVIOUS
<1>1. << >> \in Seq(Readings)
  OBVIOUS
<1>2. TypeOK
  BY <1>1, ReadingFacts DEF Init, TypeOK, PC, Blank, Zero
<1>3. HandOK
  BY DEF Init, HandOK
<1> QED BY <1>2, <1>3

\* What the head of export does to the process.
Begun(w, r) ==
  /\ cur' = [cur EXCEPT ![w] = r]
  /\ pc' \in [Exporters -> PC]
  /\ todo' \in [Exporters -> SUBSET Names]
  /\ latest' \in [Exporters -> [Sats -> Nat]]
  /\ counter' \in [Exporters -> [Sats -> Nat]]
  /\ UNCHANGED <<gauge, stamp, score, serving, stopping>>

LEMMA BeginTyped ==
  ASSUME TypeOK, HandOK, NEW w \in Exporters, NEW r \in Readings, Begin(w, r)
  PROVE  Begun(w, r) /\ HandOK'
<1> USE DEF Begun
<1>1. r \in Readings /\ r.sat \in Sats /\ r.time \in Nat /\ r.metrics \subseteq Names
  BY ReadingFacts
<1>2. CASE Older(w, r)
  <2>1. counter' \in [Exporters -> [Sats -> Nat]]
    <3>1. Count(w, r)
      BY <1>2 DEF Begin
    <3> QED BY <1>1, <3>1 DEF Count, Counted, TypeOK
  <2>2. /\ cur' = [cur EXCEPT ![w] = r]
        /\ pc' = [pc EXCEPT ![w] = AfterExport(w)]
        /\ UNCHANGED <<latest, todo, gauge, stamp, score, serving, stopping>>
    BY <1>2 DEF Begin
  <2>3. AfterExport(w) \in {"hget", "replay"}
    BY DEF AfterExport
  <2> QED BY <1>1, <2>1, <2>2, <2>3 DEF TypeOK, PC, HandOK
<1>3. CASE ~Older(w, r)
  <2>1. /\ cur' = [cur EXCEPT ![w] = r]
        /\ pc' = [pc EXCEPT ![w] = "metrics"]
        /\ todo' = [todo EXCEPT ![w] = r.metrics]
        /\ latest' = [latest EXCEPT ![w][r.sat] = r.time]
        /\ UNCHANGED <<counter, gauge, stamp, score, serving, stopping>>
    BY <1>3 DEF Begin
  <2> QED BY <1>1, <2>1 DEF TypeOK, PC, HandOK
<1> QED BY <1>2, <1>3

\* What a push leaves in the list, trimmed or not.
LEMMA PushedFacts ==
  ASSUME queue \in Seq(Readings), NEW r \in Readings, Arrive(r)
  PROVE  /\ queue' \in Seq(Readings)
         /\ \A x : x \in Items(queue') => x \in Items(queue) \/ x = r
         /\ Distinct(queue) /\ r \notin Items(queue) => Distinct(queue')
<1> DEFINE longer == RPushed(queue, r)
<1>1. /\ longer \in Seq(Readings)
      /\ \A x : x \in Items(longer) <=> x \in Items(queue) \/ x = r
      /\ Distinct(queue) /\ r \notin Items(queue) => Distinct(longer)
  BY RPushedFacts
<1>2. queue' = longer \/ queue' = Trimmed(longer, MaxQueue)
  BY DEF Arrive
<1> HIDE DEF longer
<1>3. /\ Trimmed(longer, MaxQueue) \in Seq(Readings)
      /\ Items(Trimmed(longer, MaxQueue)) \subseteq Items(longer)
      /\ Distinct(longer) => Distinct(Trimmed(longer, MaxQueue))
  BY <1>1, TrimmedFacts, QueueAssumption
<1> QED BY <1>1, <1>2, <1>3

\* Every step keeps the state well typed and the hands right.
LEMMA StepTyped == TypeOK /\ HandOK /\ [Next]_vars => TypeOK' /\ HandOK'
<1> SUFFICES ASSUME TypeOK, HandOK, [Next]_vars PROVE TypeOK' /\ HandOK'
  OBVIOUS
<1> USE DEF TypeOK, HandOK, PC
<1>1. ASSUME NEW r \in Readings, Arrive(r) PROVE TypeOK' /\ HandOK'
  <2>1. queue' \in Seq(Readings)
    BY <1>1, PushedFacts
  <2>2. Items(queue) \subseteq Readings
    BY DEF Items
  <2> QED BY <1>1, <2>1, <2>2 DEF Arrive, process, registry
<1>2. ASSUME NEW w \in Exporters, Load(w) PROVE TypeOK' /\ HandOK'
  <2>1. Stored \subseteq Readings
    BY DEF Stored, Reading0
  <2> QED BY <1>2, <2>1 DEF Load, registry
<1>3. ASSUME NEW w \in Exporters, Replay(w) PROVE TypeOK' /\ HandOK'
  <2>1. PICK r \in loaded[w] : Begin(w, r) /\ loaded' = [loaded EXCEPT ![w] = @ \ {r}]
    BY <1>3 DEF Replay
  <2>2. r \in Readings
    BY <2>1
  <2>3. Begun(w, r) /\ HandOK'
    BY <2>1, <2>2, BeginTyped
  <2>4. TypeOK'
    BY <1>3, <2>1, <2>2, <2>3 DEF Begun, Replay, Reading0
  <2> QED BY <2>3, <2>4
<1>4. ASSUME NEW w \in Exporters, Serve(w) PROVE TypeOK' /\ HandOK'
  BY <1>4, ReadingFacts DEF Serve, registry
<1>5. ASSUME NEW w \in Exporters, Pop(w) PROVE TypeOK' /\ HandOK'
  <2>1. Head(queue) \in Readings /\ Popped(queue) \in Seq(Readings)
    BY <1>5, PoppedFacts DEF Pop
  <2>2. Begun(w, Head(queue)) /\ HandOK'
    BY <1>5, <2>1, BeginTyped DEF Pop
  <2>3. TypeOK'
    BY <1>5, <2>1, <2>2 DEF Begun, Pop, Reading0
  <2> QED BY <2>2, <2>3
<1>6. ASSUME NEW w \in Exporters, SetMetric(w) PROVE TypeOK' /\ HandOK'
  <2>1. PICK n \in todo[w] :
          /\ gauge' = [gauge EXCEPT ![w][<<cur[w].sat, n>>] = cur[w]]
          /\ todo' = [todo EXCEPT ![w] = @ \ {n}]
    BY <1>6 DEF SetMetric
  <2>2. cur[w] \in Readings /\ <<cur[w].sat, n>> \in Series
    BY <1>6, <2>1, ReadingFacts DEF SetMetric, Series
  <2>3. /\ gauge' \in [Exporters -> [Series -> Reading0]]
    BY <2>1, <2>2 DEF Reading0
  <2>4. todo' \in [Exporters -> SUBSET Names]
    BY <2>1
  <2>5. TypeOK'
    BY <1>6, <2>3, <2>4 DEF SetMetric
  <2>6. HandOK'
    BY <1>6 DEF SetMetric
  <2> QED BY <2>5, <2>6
<1>7. ASSUME NEW w \in Exporters, CountReading(w) PROVE TypeOK' /\ HandOK'
  <2>1. cur[w] \in Readings /\ cur[w].sat \in Sats
    BY <1>7, ReadingFacts DEF CountReading
  <2>2. counter' \in [Exporters -> [Sats -> Nat]]
    BY <1>7, <2>1 DEF CountReading, Count, Counted
  <2> QED BY <1>7, <2>1, <2>2 DEF CountReading
<1>8. ASSUME NEW w \in Exporters, SetStamp(w) PROVE TypeOK' /\ HandOK'
  <2>1. cur[w] \in Readings /\ cur[w].sat \in Sats
    BY <1>8, ReadingFacts DEF SetStamp
  <2> QED BY <1>8, <2>1 DEF SetStamp
<1>9. ASSUME NEW w \in Exporters, SetScore(w) PROVE TypeOK' /\ HandOK'
  <2>1. cur[w] \in Readings /\ cur[w].sat \in Sats
    BY <1>9, ReadingFacts DEF SetScore
  <2>2. AfterExport(w) \in {"hget", "replay"}
    BY DEF AfterExport
  <2> QED BY <1>9, <2>1, <2>2 DEF SetScore
<1>10. ASSUME NEW w \in Exporters, HGet(w) PROVE TypeOK' /\ HandOK'
  BY <1>10, ReadingFacts DEF HGet, registry
<1>11. ASSUME NEW w \in Exporters, HSet(w) PROVE TypeOK' /\ HandOK'
  <2>1. cur[w] \in Readings /\ cur[w].sat \in Sats
    BY <1>11, ReadingFacts DEF HSet
  <2> QED BY <1>11, <2>1, ReadingFacts DEF HSet, registry
<1>12. ASSUME NEW w \in Exporters, Sigterm(w) PROVE TypeOK' /\ HandOK'
  BY <1>12 DEF Sigterm, registry
<1>13. ASSUME NEW w \in Exporters, Ends(w), UNCHANGED <<queue, store, arrived, evicted>>,
              stops' \in Nat, crashes' \in Nat
       PROVE  TypeOK' /\ HandOK'
  BY <1>13, ReadingFacts DEF Ends, Blank, Zero
<1>14. ASSUME NEW w \in Exporters, Exit(w) PROVE TypeOK' /\ HandOK'
  BY <1>13, <1>14 DEF Exit
<1>15. ASSUME NEW w \in Exporters, Crash(w) PROVE TypeOK' /\ HandOK'
  BY <1>13, <1>15 DEF Crash
<1>16. CASE UNCHANGED vars
  BY <1>16 DEF vars, process, registry
<1> QED
  BY <1>1, <1>2, <1>3, <1>4, <1>5, <1>6, <1>7, <1>8, <1>9, <1>10, <1>11, <1>12, <1>14,
     <1>15, <1>16 DEF Next, Step

\* Every reachable state of the service is well typed.
THEOREM TypeCorrect == Spec => []TypeOK
<1>1. Init => TypeOK /\ HandOK
  BY InitTyped
<1>2. TypeOK /\ HandOK /\ [Next]_vars => TypeOK' /\ HandOK'
  BY StepTyped
<1> QED BY <1>1, <1>2, PTL DEF Spec
-----------------------------------------------------------------------------
(* A gauge is set to a reading that is the newest its satellite has had in  *)
(* this process, so what it showed before is no newer.  The invariant says  *)
(* so of every gauge, and of the reading in hand that the metrics it has    *)
(* been through already show it or a newer one.                             *)

\* No gauge is ahead of _latest_exported.
Behind ==
  \A w \in Exporters : \A s \in Sats :
    /\ Time(stamp[w][s]) <= latest[w][s]
    /\ Time(score[w][s]) <= latest[w][s]
    /\ \A n \in Names : Time(gauge[w][<<s, n>>]) <= latest[w][s]

\* The metrics of the reading in hand that are set.
SetSoFar ==
  \A w \in Exporters : \A n \in Names :
    n \in cur[w].metrics =>
      /\ pc[w] = "metrics" /\ n \notin todo[w] =>
           Time(gauge[w][<<cur[w].sat, n>>]) >= cur[w].time
      /\ pc[w] = "stamp" => Time(gauge[w][<<cur[w].sat, n>>]) >= cur[w].time

\* The metrics of every timestamp are set, from its reading or a newer one.
MetricsFirst ==
  \A w \in Exporters, s \in Sats : stamp[w][s] # None =>
    \A n \in stamp[w][s].metrics : Time(gauge[w][<<s, n>>]) >= stamp[w][s].time

RegistryInv == TypeOK /\ HandOK /\ Behind /\ SetSoFar /\ MetricsFirst

\* What a step may do to the gauges of one process.
NoGaugeBack(w) ==
  \A s \in Sats :
    /\ Time(stamp[w][s]) <= Time(stamp'[w][s])
    /\ Time(score[w][s]) <= Time(score'[w][s])
    /\ \A n \in Names : Time(gauge[w][<<s, n>>]) <= Time(gauge'[w][<<s, n>>])

LEMMA SeriesTyped ==
  ASSUME TypeOK, NEW w \in Exporters, NEW s \in Sats
  PROVE  /\ Time(stamp[w][s]) \in Nat
         /\ Time(score[w][s]) \in Nat
         /\ latest[w][s] \in Nat
         /\ stamp[w][s] \in Reading0
         /\ \A n \in Names : Time(gauge[w][<<s, n>>]) \in Nat
BY ReadingFacts DEF TypeOK, Series

LEMMA InitRegistry == Init => RegistryInv
<1> SUFFICES ASSUME Init PROVE Behind /\ SetSoFar /\ MetricsFirst
  BY InitTyped DEF RegistryInv
<1>1. Behind
  BY ReadingFacts DEF Init, Behind, Blank, Zero, Series
<1>2. SetSoFar /\ MetricsFirst
  BY DEF Init, SetSoFar, MetricsFirst, Blank
<1> QED BY <1>1, <1>2

\* Steps that leave the registry of every process alone.
LEMMA QuietRegistry ==
  ASSUME RegistryInv, UNCHANGED <<gauge, stamp, score, latest>>,
         \A w \in Exporters :
           \/ UNCHANGED <<pc[w], cur[w], todo[w]>>
           \/ pc'[w] \notin {"metrics", "stamp"}
           \/ pc[w] = "metrics" /\ todo[w] = {} /\ pc'[w] = "stamp" /\ UNCHANGED cur[w]
  PROVE  (Behind /\ SetSoFar /\ MetricsFirst)' /\ \A w \in Exporters : NoGaugeBack(w)
<1>1. Behind' /\ MetricsFirst'
  BY DEF RegistryInv, Behind, MetricsFirst
<1>2. SetSoFar'
  BY DEF RegistryInv, SetSoFar
<1>3. ASSUME NEW w \in Exporters PROVE NoGaugeBack(w)
  BY SeriesTyped DEF RegistryInv, NoGaugeBack
<1> QED BY <1>1, <1>2, <1>3

\* The head of export sets the clock of the satellite forward.
LEMMA BeginRegistry ==
  ASSUME RegistryInv, NEW w \in Exporters, NEW r \in Readings, Begin(w, r)
  PROVE  (Behind /\ SetSoFar /\ MetricsFirst)' /\ \A v \in Exporters : NoGaugeBack(v)
<1> USE DEF RegistryInv
<1>1. r.sat \in Sats /\ r.time \in Nat \ {0} /\ r.metrics \subseteq Names
  BY ReadingFacts
<1>2. UNCHANGED <<gauge, stamp, score>> /\ cur' = [cur EXCEPT ![w] = r]
  BY DEF Begin
<1>3. MetricsFirst' /\ \A v \in Exporters : NoGaugeBack(v)
  BY <1>2, SeriesTyped DEF MetricsFirst, NoGaugeBack
<1>4. CASE Older(w, r)
  <2>1. UNCHANGED latest /\ pc' = [pc EXCEPT ![w] = AfterExport(w)] /\ UNCHANGED todo
    BY <1>4 DEF Begin
  <2>2. AfterExport(w) \notin {"metrics", "stamp"}
    BY DEF AfterExport
  <2>3. Behind'
    BY <1>2, <2>1 DEF Behind
  <2>4. SetSoFar'
    BY <1>2, <2>1, <2>2 DEF SetSoFar, TypeOK
  <2> QED BY <1>3, <2>3, <2>4
<1>5. CASE ~Older(w, r)
  <2>1. /\ latest' = [latest EXCEPT ![w][r.sat] = r.time]
        /\ pc' = [pc EXCEPT ![w] = "metrics"]
        /\ todo' = [todo EXCEPT ![w] = r.metrics]
    BY <1>5 DEF Begin
  <2>2. \A v \in Exporters : \A s \in Sats : latest[v][s] <= latest'[v][s] /\ latest'[v][s] \in Nat
    BY <1>1, <1>5, <2>1, SeriesTyped DEF Older, TypeOK
  <2>3. Behind'
    BY <1>2, <2>2, SeriesTyped DEF Behind
  <2>4. SetSoFar'
    BY <1>2, <2>1 DEF SetSoFar, TypeOK
  <2> QED BY <1>3, <2>3, <2>4
<1> QED BY <1>4, <1>5

\* One metric.
LEMMA MetricRegistry ==
  ASSUME RegistryInv, NEW w \in Exporters, SetMetric(w)
  PROVE  (Behind /\ SetSoFar /\ MetricsFirst)' /\ \A v \in Exporters : NoGaugeBack(v)
<1> USE DEF RegistryInv
<1>1. PICK n \in todo[w] :
        /\ gauge' = [gauge EXCEPT ![w][<<cur[w].sat, n>>] = cur[w]]
        /\ todo' = [todo EXCEPT ![w] = @ \ {n}]
  BY DEF SetMetric
<1>2. pc[w] = "metrics" /\ UNCHANGED <<pc, cur, latest, stamp, score>>
  BY DEF SetMetric
<1>3. /\ cur[w] \in Readings /\ cur[w].sat \in Sats /\ n \in Names
      /\ Time(cur[w]) = cur[w].time /\ cur[w].time \in Nat
      /\ latest[w][cur[w].sat] = cur[w].time
  BY <1>1, <1>2, ReadingFacts DEF HandOK, TypeOK
<1>4. /\ \A v \in Exporters : v # w => gauge'[v] = gauge[v]
      /\ \A s \in Sats, m \in Names :
           /\ s = cur[w].sat /\ m = n => gauge'[w][<<s, m>>] = cur[w]
           /\ ~(s = cur[w].sat /\ m = n) => gauge'[w][<<s, m>>] = gauge[w][<<s, m>>]
  BY <1>1, <1>3 DEF TypeOK, Series
<1>5. \A v \in Exporters : \A s \in Sats, m \in Names :
        /\ Time(gauge[v][<<s, m>>]) <= Time(gauge'[v][<<s, m>>])
        /\ Time(gauge'[v][<<s, m>>]) <= latest[v][s]
        /\ Time(gauge'[v][<<s, m>>]) \in Nat
  <2> TAKE v \in Exporters
  <2> TAKE s \in Sats, m \in Names
  <2>1. CASE v # w
    BY <1>4, <2>1, SeriesTyped DEF Behind
  <2>2. CASE v = w /\ s = cur[w].sat /\ m = n
    BY <1>3, <1>4, <2>2, SeriesTyped DEF Behind
  <2>3. CASE v = w /\ ~(s = cur[w].sat /\ m = n)
    BY <1>4, <2>3, SeriesTyped DEF Behind
  <2> QED BY <2>1, <2>2, <2>3
<1>6. \A v \in Exporters : NoGaugeBack(v)
  BY <1>2, <1>5, SeriesTyped DEF NoGaugeBack
<1>7. Behind'
  BY <1>2, <1>5 DEF Behind
<1>8. MetricsFirst'
  <2> SUFFICES ASSUME NEW v \in Exporters, NEW s \in Sats, stamp[v][s] # None,
                      NEW m \in stamp[v][s].metrics
               PROVE  Time(gauge'[v][<<s, m>>]) >= stamp[v][s].time
    BY <1>2 DEF MetricsFirst
  <2>1. stamp[v][s] \in Readings /\ m \in Names /\ stamp[v][s].time \in Nat
    BY SeriesTyped, ReadingFacts DEF Reading0
  <2>2. Time(gauge[v][<<s, m>>]) >= stamp[v][s].time
    BY DEF MetricsFirst
  <2> QED BY <1>5, <2>1, <2>2, SeriesTyped
<1>9. SetSoFar'
  <2> SUFFICES ASSUME NEW v \in Exporters, NEW m \in Names, m \in cur[v].metrics
               PROVE  /\ pc[v] = "metrics" /\ m \notin todo'[v] =>
                           Time(gauge'[v][<<cur[v].sat, m>>]) >= cur[v].time
                      /\ pc[v] = "stamp" => Time(gauge'[v][<<cur[v].sat, m>>]) >= cur[v].time
    BY <1>2 DEF SetSoFar
  <2>1. CASE v # w
    BY <1>1, <1>4, <2>1 DEF SetSoFar, TypeOK
  <2>2. CASE v = w
    <3>1. todo'[w] = todo[w] \ {n}
      BY <1>1 DEF TypeOK
    <3>2. CASE m = n
      BY <1>2, <1>3, <1>4, <2>2, <3>2
    <3>3. CASE m # n
      BY <1>2, <1>3, <1>4, <2>2, <3>1, <3>3 DEF SetSoFar
    <3> QED BY <3>2, <3>3
  <2> QED BY <2>1, <2>2
<1> QED BY <1>6, <1>7, <1>8, <1>9

\* The timestamp.
LEMMA StampRegistry ==
  ASSUME RegistryInv, NEW w \in Exporters, SetStamp(w)
  PROVE  (Behind /\ SetSoFar /\ MetricsFirst)' /\ \A v \in Exporters : NoGaugeBack(v)
<1> USE DEF RegistryInv
<1>1. /\ pc[w] = "stamp" /\ pc' = [pc EXCEPT ![w] = "score"]
      /\ stamp' = [stamp EXCEPT ![w][cur[w].sat] = cur[w]]
      /\ UNCHANGED <<cur, todo, latest, gauge, score>>
  BY DEF SetStamp
<1>2. /\ cur[w] \in Readings /\ cur[w].sat \in Sats /\ cur[w].metrics \subseteq Names
      /\ Time(cur[w]) = cur[w].time /\ cur[w].time \in Nat
      /\ latest[w][cur[w].sat] = cur[w].time
  BY <1>1, ReadingFacts DEF HandOK
<1>3. \A v \in Exporters : \A s \in Sats :
        /\ v = w /\ s = cur[w].sat => stamp'[v][s] = cur[w]
        /\ ~(v = w /\ s = cur[w].sat) => stamp'[v][s] = stamp[v][s]
  BY <1>1, <1>2 DEF TypeOK
<1>4. \A v \in Exporters : \A s \in Sats :
        Time(stamp[v][s]) <= Time(stamp'[v][s]) /\ Time(stamp'[v][s]) <= latest[v][s]
  BY <1>2, <1>3, SeriesTyped DEF Behind
<1>5. Behind' /\ \A v \in Exporters : NoGaugeBack(v)
  BY <1>1, <1>4, SeriesTyped DEF Behind, NoGaugeBack
<1>6. SetSoFar'
  BY <1>1 DEF SetSoFar, TypeOK
<1>7. MetricsFirst'
  <2> SUFFICES ASSUME NEW v \in Exporters, NEW s \in Sats, stamp'[v][s] # None,
                      NEW m \in stamp'[v][s].metrics
               PROVE  Time(gauge[v][<<s, m>>]) >= stamp'[v][s].time
    BY <1>1 DEF MetricsFirst
  <2>1. CASE v = w /\ s = cur[w].sat
    BY <1>1, <1>2, <1>3, <2>1 DEF SetSoFar
  <2>2. CASE ~(v = w /\ s = cur[w].sat)
    BY <1>3, <2>2 DEF MetricsFirst
  <2> QED BY <2>1, <2>2
<1> QED BY <1>5, <1>6, <1>7

\* The score.
LEMMA ScoreRegistry ==
  ASSUME RegistryInv, NEW w \in Exporters, SetScore(w)
  PROVE  (Behind /\ SetSoFar /\ MetricsFirst)' /\ \A v \in Exporters : NoGaugeBack(v)
<1> USE DEF RegistryInv
<1>1. /\ pc[w] = "score" /\ pc' = [pc EXCEPT ![w] = AfterExport(w)]
      /\ score' = [score EXCEPT ![w][cur[w].sat] = cur[w]]
      /\ UNCHANGED <<cur, todo, latest, gauge, stamp>>
  BY DEF SetScore
<1>2. /\ cur[w] \in Readings /\ cur[w].sat \in Sats
      /\ Time(cur[w]) = cur[w].time /\ cur[w].time \in Nat
      /\ latest[w][cur[w].sat] = cur[w].time
  BY <1>1, ReadingFacts DEF HandOK
<1>3. \A v \in Exporters : \A s \in Sats :
        Time(score[v][s]) <= Time(score'[v][s]) /\ Time(score'[v][s]) <= latest[v][s]
  <2>1. \A v \in Exporters : \A s \in Sats :
          score'[v][s] = IF v = w /\ s = cur[w].sat THEN cur[w] ELSE score[v][s]
    BY <1>1, <1>2 DEF TypeOK
  <2>2. \A v \in Exporters : \A s \in Sats :
          Time(score[v][s]) \in Nat /\ latest[v][s] \in Nat /\ Time(score[v][s]) <= latest[v][s]
    BY SeriesTyped DEF Behind
  <2>3. Time(score[w][cur[w].sat]) <= Time(cur[w])
    BY <1>2, <2>2
  <2> TAKE v \in Exporters
  <2> TAKE s \in Sats
  <2>4. CASE v = w /\ s = cur[w].sat
    BY <1>2, <2>1, <2>3, <2>4
  <2>5. CASE ~ (v = w /\ s = cur[w].sat)
    BY <2>1, <2>2, <2>5
  <2> QED BY <2>4, <2>5
<1>4. Behind' /\ MetricsFirst' /\ \A v \in Exporters : NoGaugeBack(v)
  BY <1>1, <1>3, SeriesTyped DEF Behind, MetricsFirst, NoGaugeBack
<1>5. SetSoFar'
  BY <1>1 DEF SetSoFar, TypeOK, AfterExport
<1> QED BY <1>4, <1>5

\* A process that ends shows nothing.
LEMMA EndRegistry ==
  ASSUME RegistryInv, NEW w \in Exporters, Ends(w)
  PROVE  /\ (Behind /\ SetSoFar /\ MetricsFirst)'
         /\ \A v \in Exporters : pc'[v] # "down" => NoGaugeBack(v)
<1> USE DEF RegistryInv
<1>1. /\ pc' = [pc EXCEPT ![w] = "down"] /\ cur' = [cur EXCEPT ![w] = None]
      /\ todo' = [todo EXCEPT ![w] = {}] /\ latest' = [latest EXCEPT ![w] = Zero]
      /\ gauge' = [gauge EXCEPT ![w] = [k \in Series |-> None]]
      /\ stamp' = [stamp EXCEPT ![w] = Blank] /\ score' = [score EXCEPT ![w] = Blank]
  BY DEF Ends
<1>2. \A v \in Exporters : v # w =>
        UNCHANGED <<pc[v], cur[v], todo[v], latest[v], gauge[v], stamp[v], score[v]>>
  BY <1>1 DEF TypeOK
<1>3. /\ pc'[w] = "down" /\ latest'[w] = Zero /\ gauge'[w] = [k \in Series |-> None]
      /\ stamp'[w] = Blank /\ score'[w] = Blank
  BY <1>1 DEF TypeOK
<1>4. Behind'
  BY <1>2, <1>3, ReadingFacts DEF Behind, Blank, Zero, Series
<1>5. SetSoFar'
  BY <1>2, <1>3 DEF SetSoFar
<1>6. MetricsFirst'
  BY <1>2, <1>3 DEF MetricsFirst, Blank
<1>7. ASSUME NEW v \in Exporters, pc'[v] # "down" PROVE NoGaugeBack(v)
  BY <1>2, <1>3, <1>7, SeriesTyped DEF NoGaugeBack
<1> QED BY <1>4, <1>5, <1>6, <1>7

\* What every step does.
RegistryStep ==
  /\ (Behind /\ SetSoFar /\ MetricsFirst)'
  /\ \A w \in Exporters : pc'[w] # "down" => NoGaugeBack(w)

\* Every step keeps the invariant and sets no gauge back.
LEMMA StepRegistry ==
  RegistryInv /\ [Next]_vars =>
    RegistryInv' /\ \A w \in Exporters : pc'[w] # "down" => NoGaugeBack(w)
<1> SUFFICES ASSUME RegistryInv, [Next]_vars PROVE RegistryStep
  BY StepTyped DEF RegistryInv, RegistryStep
<1>1. ASSUME NEW r \in Readings, Arrive(r) PROVE RegistryStep
  BY <1>1, QuietRegistry DEF Arrive, process, registry, RegistryStep
<1>2. ASSUME NEW w \in Exporters, Load(w) PROVE RegistryStep
  BY <1>2, QuietRegistry DEF Load, registry, RegistryInv, TypeOK, RegistryStep
<1>3. ASSUME NEW w \in Exporters, Replay(w) PROVE RegistryStep
  <2>1. PICK r \in Readings : Begin(w, r)
    BY <1>3 DEF Replay, RegistryInv, TypeOK
  <2> QED BY <2>1, BeginRegistry DEF RegistryStep
<1>4. ASSUME NEW w \in Exporters, Serve(w) PROVE RegistryStep
  BY <1>4, QuietRegistry DEF Serve, registry, RegistryInv, TypeOK, RegistryStep
<1>5. ASSUME NEW w \in Exporters, Pop(w) PROVE RegistryStep
  <2>1. Head(queue) \in Readings /\ Begin(w, Head(queue))
    BY <1>5, PoppedFacts DEF Pop, RegistryInv, TypeOK
  <2> QED BY <2>1, BeginRegistry DEF RegistryStep
<1>6. ASSUME NEW w \in Exporters, SetMetric(w) PROVE RegistryStep
  BY <1>6, MetricRegistry DEF RegistryStep
<1>7. ASSUME NEW w \in Exporters, CountReading(w) PROVE RegistryStep
  BY <1>7, QuietRegistry DEF CountReading, RegistryInv, TypeOK, RegistryStep
<1>8. ASSUME NEW w \in Exporters, SetStamp(w) PROVE RegistryStep
  BY <1>8, StampRegistry DEF RegistryStep
<1>9. ASSUME NEW w \in Exporters, SetScore(w) PROVE RegistryStep
  BY <1>9, ScoreRegistry DEF RegistryStep
<1>10. ASSUME NEW w \in Exporters, HGet(w) PROVE RegistryStep
  BY <1>10, QuietRegistry DEF HGet, registry, RegistryInv, TypeOK, RegistryStep
<1>11. ASSUME NEW w \in Exporters, HSet(w) PROVE RegistryStep
  BY <1>11, QuietRegistry DEF HSet, registry, RegistryInv, TypeOK, RegistryStep
<1>12. ASSUME NEW w \in Exporters, Sigterm(w) PROVE RegistryStep
  BY <1>12, QuietRegistry DEF Sigterm, registry, RegistryStep
<1>13. ASSUME NEW w \in Exporters, Exit(w) PROVE RegistryStep
  BY <1>13, EndRegistry DEF Exit, RegistryStep
<1>14. ASSUME NEW w \in Exporters, Crash(w) PROVE RegistryStep
  BY <1>14, EndRegistry DEF Crash, RegistryStep
<1>15. CASE UNCHANGED vars
  BY <1>15, QuietRegistry DEF vars, process, registry, RegistryStep
<1>16. ASSUME NEW w \in Exporters, Step(w) PROVE RegistryStep
  BY <1>16, <1>2, <1>3, <1>4, <1>5, <1>6, <1>7, <1>8, <1>9, <1>10, <1>11, <1>13 DEF Step
<1> QED BY <1>1, <1>12, <1>14, <1>15, <1>16 DEF Next

\* While a process lives, none of its gauges goes back to an older reading.
THEOREM GaugesMonotoneCorrect == Spec => GaugesMonotone
<1>1. Init => RegistryInv
  BY InitRegistry
<1>2. RegistryInv /\ [Next]_vars => RegistryInv'
  BY StepRegistry
<1>3. RegistryInv /\ [Next]_vars =>
        [\A w \in Exporters : pc'[w] # "down" =>
           \A s \in Sats :
             /\ Time(stamp[w][s]) <= Time(stamp'[w][s])
             /\ Time(score[w][s]) <= Time(score'[w][s])
             /\ \A n \in Names : Time(gauge[w][<<s, n>>]) <= Time(gauge'[w][<<s, n>>])]_vars
  BY StepRegistry DEF NoGaugeBack
<1> QED BY <1>1, <1>2, <1>3, PTL DEF Spec, GaugesMonotone

-----------------------------------------------------------------------------
(* Scrapes.  A timestamp is set above metrics that are set already, and no  *)
(* gauge goes back, so that the metrics of what a scrape has told are in    *)
(* the registry, or newer ones, when the next one collects them.            *)

\* The registry shows the metrics of a reading of the satellite, or newer ones.
Registered(w, s, r) ==
  r # None => \A n \in r.metrics : Time(gauge[w][<<s, n>>]) >= r.time

\* What the scrape has collected, or will collect, of a metric told before.
Caught(w, s, n) ==
  /\ family[w] = "metrics" =>
       <<s, n>> \in left[w] \/ Time(values[w][<<s, n>>]) >= told[w][s].time
  /\ family[w] = "stamps" => Time(values[w][<<s, n>>]) >= told[w][s].time

Told ==
  \A w \in Exporters : \A s \in Sats :
    /\ Registered(w, s, told[w][s])
    /\ Registered(w, s, times[w][s])
    /\ told[w][s] # None => \A n \in told[w][s].metrics : Caught(w, s, n)

ScrapeInv == RegistryInv /\ ScrapeTypeOK /\ Told

\* One entry more of a table, copied from another.
LEMMA OneMore ==
  ASSUME NEW S, NEW T, NEW f \in [S -> T], NEW g \in [S -> T], NEW x
  PROVE  [f EXCEPT ![x] = g[x]] \in [S -> T]
OBVIOUS

LEMMA CollectTyped ==
  ASSUME TypeOK, ScrapeTypeOK, NEW w \in Exporters, Collect(w)
  PROVE  ScrapeTypeOK'
<1> USE DEF TypeOK, ScrapeTypeOK
<1>1. CASE Request(w)
  BY <1>1 DEF Request
<1>2. CASE ReadMetric(w)
  <2>1. PICK k \in left[w] : /\ values' = [values EXCEPT ![w][k] = gauge[w][k]]
                             /\ left' = [left EXCEPT ![w] = @ \ {k}]
    BY <1>2 DEF ReadMetric
  <2>2. [values[w] EXCEPT ![k] = gauge[w][k]] \in [Series -> Reading0]
    BY OneMore
  <2>3. values' \in [Exporters -> [Series -> Reading0]]
    BY <2>1, <2>2
  <2> QED BY <1>2, <2>1, <2>3 DEF ReadMetric
<1>3. CASE NextFamily(w)
  BY <1>3 DEF NextFamily
<1>4. CASE ReadStamp(w)
  <2>1. PICK s \in left[w] : /\ times' = [times EXCEPT ![w][s] = stamp[w][s]]
                             /\ left' = [left EXCEPT ![w] = @ \ {s}]
    BY <1>4 DEF ReadStamp
  <2>2. [times[w] EXCEPT ![s] = stamp[w][s]] \in [Sats -> Reading0]
    BY OneMore
  <2>3. times' \in [Exporters -> [Sats -> Reading0]]
    BY <2>1, <2>2
  <2> QED BY <1>4, <2>1, <2>3 DEF ReadStamp
<1>5. CASE Respond(w)
  BY <1>5, ReadingFacts DEF Respond, NoValues, Blank
<1> QED BY <1>1, <1>2, <1>3, <1>4, <1>5 DEF Collect

\* A step of the scrape: it begins with every series that is set, and what it
\* reads of one is what the registry shows.
LEMMA CollectTold ==
  ASSUME ScrapeInv, NEW w \in Exporters, Collect(w), UNCHANGED vars
  PROVE  Told'
<1> USE DEF ScrapeInv, RegistryInv
<1>1. UNCHANGED <<gauge, stamp>>
  BY DEF vars, registry
<1>2. ScrapeTypeOK'
  BY CollectTyped
<1> SUFFICES ASSUME NEW v \in Exporters, NEW s \in Sats
             PROVE  /\ Registered(v, s, told'[v][s])
                    /\ Registered(v, s, times'[v][s])
                    /\ told'[v][s] # None => \A n \in told'[v][s].metrics : Caught(v, s, n)'
  BY <1>1 DEF Told, Registered
<1>3. /\ Registered(v, s, told[v][s])
      /\ Registered(v, s, times[v][s])
      /\ Registered(v, s, stamp[v][s])
      /\ told[v][s] # None => \A n \in told[v][s].metrics : Caught(v, s, n)
  BY DEF Told, MetricsFirst, Registered
<1>4. ASSUME told[v][s] # None, NEW n \in told[v][s].metrics
      PROVE  /\ <<s, n>> \in Series
             /\ told[v][s].time \in Nat \ {0}
             /\ Time(gauge[v][<<s, n>>]) >= told[v][s].time
             /\ Time(gauge[v][<<s, n>>]) \in Nat
             /\ Caught(v, s, n)
  <2>1. told[v][s] \in Readings
    BY <1>4 DEF ScrapeTypeOK, Reading0
  <2>2. n \in Names /\ told[v][s].time \in Nat \ {0}
    BY <1>4, <2>1, ReadingFacts
  <2> QED BY <1>3, <1>4, <2>2, SeriesTyped DEF Registered, Series
<1>5. CASE v # w
  <2>1. UNCHANGED <<family[v], left[v], values[v], times[v], told[v]>>
    BY <1>5 DEF Collect, Request, ReadMetric, NextFamily, ReadStamp, Respond, ScrapeTypeOK
  <2> QED BY <1>3, <2>1 DEF Caught
<1>6. CASE v = w
  <2>1. CASE Request(w)
    <3>1. /\ family'[w] = "metrics" /\ told' = told /\ times' = times
          /\ left'[w] = { k \in Series : gauge[w][k] # None }
      BY <2>1 DEF Request, ScrapeTypeOK
    <3>2. ASSUME told[w][s] # None, NEW n \in told[w][s].metrics PROVE <<s, n>> \in left'[w]
      <4>1. gauge[w][<<s, n>>] # None
        BY <1>4, <1>6, <3>2, ReadingFacts
      <4> QED BY <1>4, <1>6, <3>1, <3>2, <4>1
    <3> QED BY <1>3, <1>6, <3>1, <3>2 DEF Caught
  <2>2. CASE ReadMetric(w)
    <3>1. PICK k \in left[w] : /\ values' = [values EXCEPT ![w][k] = gauge[w][k]]
                               /\ left' = [left EXCEPT ![w] = @ \ {k}]
      BY <2>2 DEF ReadMetric
    <3>2. family[w] = "metrics" /\ UNCHANGED <<family, times, told>>
      BY <2>2 DEF ReadMetric
    <3>3. ASSUME told[w][s] # None, NEW n \in told[w][s].metrics PROVE Caught(w, s, n)'
      <4>1. CASE k = <<s, n>>
        <5>1. values'[w][<<s, n>>] = gauge[w][<<s, n>>]
          BY <1>4, <1>6, <3>1, <3>3, <4>1 DEF ScrapeTypeOK
        <5> QED BY <1>4, <1>6, <3>2, <3>3, <5>1 DEF Caught
      <4>2. CASE k # <<s, n>>
        <5>1. /\ values'[w][<<s, n>>] = values[w][<<s, n>>]
              /\ <<s, n>> \in left[w] => <<s, n>> \in left'[w]
          BY <1>4, <1>6, <3>1, <3>3, <4>2 DEF ScrapeTypeOK
        <5> QED BY <1>4, <1>6, <3>2, <3>3, <5>1 DEF Caught
      <4> QED BY <4>1, <4>2
    <3> QED BY <1>3, <1>6, <3>2, <3>3
  <2>3. CASE NextFamily(w)
    <3>1. /\ family[w] = "metrics" /\ left[w] = {} /\ family'[w] = "stamps"
          /\ UNCHANGED <<values, times, told>>
      BY <2>3 DEF NextFamily, ScrapeTypeOK
    <3> QED BY <1>3, <1>6, <3>1 DEF Caught
  <2>4. CASE ReadStamp(w)
    <3>1. PICK t \in left[w] : times' = [times EXCEPT ![w][t] = stamp[w][t]]
      BY <2>4 DEF ReadStamp
    <3>2. family[w] = "stamps" /\ UNCHANGED <<family, values, told>>
      BY <2>4 DEF ReadStamp
    <3>3. times'[w][s] = times[w][s] \/ times'[w][s] = stamp[w][s]
      BY <3>1 DEF ScrapeTypeOK
    <3>4. told'[w][s] # None => \A n \in told'[w][s].metrics : Caught(w, s, n)'
      BY <1>3, <1>6, <3>2 DEF Caught
    <3> QED BY <1>3, <1>6, <3>2, <3>3, <3>4
  <2>5. CASE Respond(w)
    <3>1. /\ family'[w] = "none" /\ told'[w] = times[w] /\ times'[w] = Blank
      BY <2>5 DEF Respond, ScrapeTypeOK
    <3> QED BY <1>3, <1>6, <3>1 DEF Caught, Registered, Blank
  <2> QED BY <2>1, <2>2, <2>3, <2>4, <2>5 DEF Collect
<1> QED BY <1>5, <1>6

\* A step of the exporter sets no gauge back, or ends the process and its scrape.
LEMMA ExportTold ==
  ASSUME ScrapeInv, Next, CutOff
  PROVE  ScrapeTypeOK' /\ Told'
<1> USE DEF ScrapeInv
<1>1. RegistryInv' /\ \A w \in Exporters : pc'[w] # "down" => NoGaugeBack(w)
  BY StepRegistry
<1>2. \A w \in Exporters : pc'[w] = "down" =>
        /\ family'[w] = "none" /\ left'[w] = {} /\ values'[w] = NoValues
        /\ times'[w] = Blank /\ told'[w] = Blank
  BY DEF CutOff
<1>3. \A w \in Exporters : pc'[w] # "down" =>
        UNCHANGED <<family[w], left[w], values[w], times[w], told[w]>>
  BY DEF CutOff
<1>4. ScrapeTypeOK'
  <2>1. NoValues \in [Series -> Reading0] /\ Blank \in [Sats -> Reading0]
    BY ReadingFacts DEF NoValues, Blank
  <2> QED BY <2>1 DEF CutOff, ScrapeTypeOK
<1>5. Told'
  <2> SUFFICES ASSUME NEW w \in Exporters, NEW s \in Sats
               PROVE  /\ Registered(w, s, told[w][s])'
                      /\ Registered(w, s, times[w][s])'
                      /\ told'[w][s] # None => \A n \in told'[w][s].metrics : Caught(w, s, n)'
    BY DEF Told
  <2>1. CASE pc'[w] = "down"
    <3>1. told'[w][s] = None /\ times'[w][s] = None
      BY <1>2, <2>1 DEF Blank
    <3> QED BY <3>1 DEF Registered
  <2>2. CASE pc'[w] # "down"
    <3>1. UNCHANGED <<family[w], left[w], values[w], times[w], told[w]>>
      BY <1>3, <2>2
    <3>2. /\ Registered(w, s, told[w][s])
          /\ Registered(w, s, times[w][s])
          /\ told[w][s] # None => \A n \in told[w][s].metrics : Caught(w, s, n)
      BY DEF Told
    <3>3. ASSUME NEW r \in Reading0, Registered(w, s, r), r # None, NEW n \in r.metrics
          PROVE  Time(gauge'[w][<<s, n>>]) >= r.time
      <4>1. n \in Names /\ r.time \in Nat
        BY <3>3, ReadingFacts DEF Reading0
      <4>2. Time(gauge[w][<<s, n>>]) \in Nat /\ Time(gauge'[w][<<s, n>>]) \in Nat
        <5>1. /\ gauge \in [Exporters -> [Series -> Reading0]]
              /\ gauge' \in [Exporters -> [Series -> Reading0]]
          BY <1>1 DEF RegistryInv, TypeOK
        <5>2. <<s, n>> \in Series
          BY <4>1 DEF Series
        <5> QED BY <5>1, <5>2, ReadingFacts
      <4>3. Time(gauge[w][<<s, n>>]) <= Time(gauge'[w][<<s, n>>])
        BY <1>1, <2>2, <4>1 DEF NoGaugeBack
      <4>4. Time(gauge[w][<<s, n>>]) >= r.time
        BY <3>3 DEF Registered
      <4> QED BY <4>1, <4>2, <4>3, <4>4
    <3>4. told[w][s] \in Reading0 /\ times[w][s] \in Reading0
      BY DEF ScrapeTypeOK
    <3>5. Registered(w, s, told[w][s])' /\ Registered(w, s, times[w][s])'
      BY <3>1, <3>2, <3>3, <3>4 DEF Registered
    <3> QED BY <3>1, <3>2, <3>5 DEF Caught
  <2> QED BY <2>1, <2>2
<1> QED BY <1>4, <1>5

\* A scrape that an export overlaps may show a new timestamp above old values;
\* the next scrape of the process shows the metrics of every timestamp that one
\* has shown, or newer ones.
THEOREM NextScrapeCatchesUpCorrect == ScrapeSpec => []NextScrapeCatchesUp
<1>1. ScrapeInit => ScrapeInv
  <2> SUFFICES ASSUME ScrapeInit PROVE ScrapeTypeOK /\ Told
    BY InitRegistry DEF ScrapeInit, ScrapeInv
  <2>1. ScrapeTypeOK
    BY ReadingFacts DEF ScrapeInit, ScrapeTypeOK, NoValues, Blank
  <2>2. Told
    BY DEF ScrapeInit, Told, Registered, Blank
  <2> QED BY <2>1, <2>2
<1>2. ScrapeInv /\ [ScrapeNext]_<<vars, scrape>> => ScrapeInv'
  <2> SUFFICES ASSUME ScrapeInv, [ScrapeNext]_<<vars, scrape>> PROVE ScrapeInv'
    OBVIOUS
  <2>1. [Next]_vars
    BY DEF ScrapeNext
  <2>2. RegistryInv'
    BY <2>1, StepRegistry DEF ScrapeInv
  <2>3. ASSUME NEW w \in Exporters, Collect(w), UNCHANGED vars PROVE ScrapeTypeOK' /\ Told'
    BY <2>3, CollectTyped, CollectTold DEF ScrapeInv, RegistryInv
  <2>4. ASSUME Next, CutOff PROVE ScrapeTypeOK' /\ Told'
    BY <2>4, ExportTold
  <2>5. ASSUME UNCHANGED <<vars, scrape>> PROVE ScrapeTypeOK' /\ Told'
    BY <2>5 DEF vars, registry, scrape, ScrapeInv, ScrapeTypeOK, Told, Registered, Caught
  <2> QED BY <2>2, <2>3, <2>4, <2>5 DEF ScrapeNext, ScrapeInv
<1>3. ScrapeInv => NextScrapeCatchesUp
  BY DEF ScrapeInv, Told, Caught, NextScrapeCatchesUp
<1> QED BY <1>1, <1>2, <1>3, PTL DEF ScrapeSpec

-----------------------------------------------------------------------------
(* The counter: what a process has popped, less the reading it is busy       *)
(* setting the metrics of.                                                  *)

\* The endpoint is open from the replay to the end of the process.
Phases ==
  \A w \in Exporters :
    /\ pc[w] \in {"down", "replay"} => ~serving[w]
    /\ pc[w] \in {"top", "hget", "hset"} => serving[w]

\* No reading comes twice.
Fresh ==
  /\ Distinct(queue)
  /\ Items(queue) \subseteq arrived
  /\ \A w \in Exporters : popped[w] \subseteq arrived /\ popped[w] \cap Items(queue) = {}

Of(w, s) == { r \in popped[w] : r.sat = s }
Uncounted(w, s) == pc[w] = "metrics" /\ serving[w] /\ cur[w].sat = s

Tally(w, s) ==
  /\ IsFiniteSet(Of(w, s))
  /\ Cardinality(Of(w, s)) = counter[w][s] + IF Uncounted(w, s) THEN 1 ELSE 0

Tallies == \A w \in Exporters : \A s \in Sats : Tally(w, s)

CountInv == TypeOK /\ HandOK /\ Phases /\ Fresh /\ Tallies

LEMMA StepPhases == TypeOK /\ Phases /\ [Next]_vars => Phases'
<1> SUFFICES ASSUME TypeOK, Phases, [Next]_vars PROVE Phases'
  OBVIOUS
<1> USE DEF Phases, TypeOK
<1>1. ASSUME NEW w \in Exporters, NEW r, Begin(w, r) PROVE Phases'
  <2>1. pc' = [pc EXCEPT ![w] = "metrics"] \/ pc' = [pc EXCEPT ![w] = AfterExport(w)]
    BY <1>1 DEF Begin
  <2> QED BY <1>1, <2>1 DEF Begin, AfterExport
<1>2. ASSUME NEW w \in Exporters, Ends(w) PROVE Phases'
  BY <1>2 DEF Ends
<1>3. ASSUME NEW w \in Exporters, Replay(w) \/ Pop(w) \/ Exit(w) \/ Crash(w) PROVE Phases'
  BY <1>1, <1>2, <1>3 DEF Replay, Pop, Exit, Crash
<1>4. ASSUME NEW w \in Exporters, Load(w) \/ Serve(w) \/ HGet(w) \/ HSet(w) PROVE Phases'
  BY <1>4 DEF Load, Serve, HGet, HSet
<1>5. ASSUME NEW w \in Exporters, SetMetric(w) \/ CountReading(w) \/ SetStamp(w) \/ SetScore(w)
      PROVE  Phases'
  BY <1>5 DEF SetMetric, CountReading, SetStamp, SetScore, AfterExport
<1>6. CASE (\E w \in Exporters : Sigterm(w)) \/ (\E r \in Readings : Arrive(r)) \/ UNCHANGED vars
  BY <1>6 DEF Sigterm, Arrive, vars, process
<1> QED BY <1>3, <1>4, <1>5, <1>6 DEF Next, Step

LEMMA StepFresh == TypeOK /\ Fresh /\ [Next]_vars => Fresh'
<1> SUFFICES ASSUME TypeOK, Fresh, [Next]_vars PROVE Fresh'
  OBVIOUS
<1> USE DEF Fresh, TypeOK
<1>1. ASSUME NEW r \in Readings, Arrive(r) PROVE Fresh'
  <2>1. r \notin arrived /\ arrived' = arrived \cup {r} /\ popped' = popped
    BY <1>1 DEF Arrive
  <2>2. Distinct(queue') /\ \A x : x \in Items(queue') => x \in Items(queue) \/ x = r
    BY <1>1, <2>1, PushedFacts
  <2> QED BY <2>1, <2>2
<1>2. ASSUME NEW w \in Exporters, Pop(w) PROVE Fresh'
  <2>1. /\ queue # << >> /\ queue' = Popped(queue) /\ arrived' = arrived
        /\ popped' = [popped EXCEPT ![w] = @ \cup {Head(queue)}]
    BY <1>2 DEF Pop
  <2>2. /\ Items(queue) = Items(queue') \cup {Head(queue)}
        /\ Distinct(queue') /\ Head(queue) \notin Items(queue')
    BY <2>1, PoppedFacts
  <2> QED BY <2>1, <2>2
<1>3. ASSUME NEW w \in Exporters, Exit(w) \/ Crash(w) PROVE Fresh'
  <2>1. CASE Exit(w)
    BY <2>1 DEF Exit, Ends
  <2>2. CASE Crash(w)
    BY <2>2 DEF Crash, Ends
  <2> QED BY <1>3, <2>1, <2>2
<1>4. ASSUME NEW w \in Exporters,
             Load(w) \/ Replay(w) \/ Serve(w) \/ SetMetric(w) \/ CountReading(w) \/ SetStamp(w)
               \/ SetScore(w) \/ HGet(w) \/ HSet(w) \/ Sigterm(w)
      PROVE  Fresh'
  BY <1>4 DEF Load, Replay, Serve, SetMetric, CountReading, SetStamp, SetScore, HGet, HSet, Sigterm
<1>5. CASE UNCHANGED vars
  BY <1>5 DEF vars
<1> QED BY <1>1, <1>2, <1>3, <1>4, <1>5 DEF Next, Step

\* Neither a reading nor a count more.
LEMMA SameTally ==
  ASSUME Tallies, NEW w \in Exporters, NEW s \in Sats, popped'[w] = popped[w],
         counter'[w] = counter[w], Uncounted(w, s)' <=> Uncounted(w, s)
  PROVE  Tally(w, s)'
BY DEF Tallies, Tally, Of

\* One reading more.
LEMMA PopTally ==
  ASSUME CountInv, NEW w \in Exporters, Pop(w), NEW v \in Exporters, NEW s \in Sats
  PROVE  Tally(v, s)'
<1> DEFINE r == Head(queue)
<1>1. /\ r \in Readings /\ r \in Items(queue) /\ r.sat \in Sats
      /\ pc[w] = "top" /\ serving[w] /\ serving' = serving
      /\ popped' = [popped EXCEPT ![w] = @ \cup {r}]
      /\ Begin(w, r)
  <2>1. queue # << >> /\ pc[w] = "top" /\ Begin(w, r) /\ popped' = [popped EXCEPT ![w] = @ \cup {r}]
    BY DEF Pop
  <2>2. r \in Readings /\ r \in Items(queue)
    BY <2>1, PoppedFacts DEF CountInv, TypeOK
  <2>3. serving[w] /\ serving' = serving
    BY <2>1 DEF CountInv, Phases, Begin
  <2> QED BY <2>1, <2>2, <2>3, ReadingFacts
<1>2. r \notin popped[w]
  BY <1>1 DEF CountInv, Fresh
<1> HIDE DEF r
<1>3. cur' = [cur EXCEPT ![w] = r] /\ ~Uncounted(w, s)
  BY <1>1 DEF Begin, Uncounted
<1>4. CASE v # w
  <2>1. popped'[v] = popped[v] /\ cur'[v] = cur[v] /\ pc'[v] = pc[v] /\ counter'[v] = counter[v]
    <3>1. counter' = counter \/ Count(w, r)
      BY <1>1 DEF Begin
    <3>2. pc' = [pc EXCEPT ![w] = "metrics"] \/ pc' = [pc EXCEPT ![w] = AfterExport(w)]
      BY <1>1 DEF Begin
    <3> QED BY <1>1, <1>3, <1>4, <3>1, <3>2 DEF CountInv, TypeOK, Count, Counted
  <2>2. Uncounted(v, s)' <=> Uncounted(v, s)
    BY <1>1, <2>1 DEF Uncounted
  <2> QED BY <2>1, <2>2, SameTally DEF CountInv
<1>5. CASE v = w
  <2>1. /\ IsFiniteSet(Of(w, s)) /\ Cardinality(Of(w, s)) = counter[w][s]
        /\ counter[w][s] \in Nat
    BY <1>3 DEF CountInv, Tallies, Tally, TypeOK
  <2>2. CASE r.sat # s
    <3>1. Of(w, s)' = Of(w, s)
      BY <1>1, <2>2 DEF Of, CountInv, TypeOK
    <3>2. counter'[w][s] = counter[w][s] /\ ~Uncounted(w, s)'
      <4>1. counter' = counter \/ Count(w, r)
        BY <1>1 DEF Begin
      <4> QED BY <1>1, <1>3, <2>2, <4>1 DEF CountInv, TypeOK, Count, Counted, Uncounted
    <3> QED BY <1>5, <2>1, <3>1, <3>2 DEF Tally
  <2>3. CASE r.sat = s
    <3>1. Of(w, s)' = Of(w, s) \cup {r} /\ r \notin Of(w, s)
      BY <1>1, <1>2, <2>3 DEF Of, CountInv, TypeOK
    <3>2. IsFiniteSet(Of(w, s)') /\ Cardinality(Of(w, s)') = Cardinality(Of(w, s)) + 1
      BY <2>1, <3>1, FS_AddElement
    <3>3. CASE Older(w, r)
      <4>1. counter' = Counted(w, r) /\ pc' = [pc EXCEPT ![w] = AfterExport(w)]
        BY <1>1, <3>3 DEF Begin, Count
      <4>2. counter'[w][s] = counter[w][s] + 1 /\ ~Uncounted(w, s)'
        BY <1>1, <2>3, <4>1 DEF Counted, AfterExport, Uncounted, CountInv, TypeOK
      <4> QED BY <1>5, <2>1, <3>2, <4>2 DEF Tally
    <3>4. CASE ~Older(w, r)
      <4>1. counter' = counter /\ pc' = [pc EXCEPT ![w] = "metrics"]
        BY <1>1, <3>4 DEF Begin
      <4>2. Uncounted(w, s)'
        BY <1>1, <1>3, <2>3, <4>1 DEF Uncounted, CountInv, TypeOK
      <4> QED BY <1>5, <2>1, <3>2, <4>1, <4>2 DEF Tally
    <3> QED BY <3>3, <3>4
  <2> QED BY <2>2, <2>3
<1> QED BY <1>4, <1>5

\* The reading is counted when its metrics are set.
LEMMA CountTally ==
  ASSUME CountInv, NEW w \in Exporters, CountReading(w), NEW v \in Exporters, NEW s \in Sats
  PROVE  Tally(v, s)'
<1>1. /\ pc[w] = "metrics" /\ pc' = [pc EXCEPT ![w] = "stamp"]
      /\ UNCHANGED <<popped, cur, serving>>
      /\ counter' = IF serving[w] THEN Counted(w, cur[w]) ELSE counter
      /\ cur[w].sat \in Sats
  BY ReadingFacts DEF CountReading, Count, CountInv, HandOK
<1>2. \A z \in Exporters : \A u \in Sats :
        counter'[z][u] = IF z = w /\ serving[w] /\ cur[w].sat = u THEN counter[z][u] + 1 ELSE counter[z][u]
  BY <1>1 DEF Counted, CountInv, TypeOK
<1>3. /\ Uncounted(v, s) /\ v = w => serving[w] /\ cur[w].sat = s
      /\ v = w => ~Uncounted(v, s)' /\ (Uncounted(v, s) <=> serving[w] /\ cur[w].sat = s)
      /\ v # w => (Uncounted(v, s)' <=> Uncounted(v, s))
  BY <1>1 DEF Uncounted, CountInv, TypeOK
<1>4. Of(v, s)' = Of(v, s) /\ counter[v][s] \in Nat
  BY <1>1 DEF Of, CountInv, TypeOK
<1>5. IsFiniteSet(Of(v, s)) /\ Cardinality(Of(v, s)) = counter[v][s] + IF Uncounted(v, s) THEN 1 ELSE 0
  BY DEF CountInv, Tallies, Tally
<1>6. CASE v = w /\ serving[w] /\ cur[w].sat = s
  BY <1>2, <1>3, <1>4, <1>5, <1>6 DEF Tally
<1>7. CASE ~(v = w /\ serving[w] /\ cur[w].sat = s)
  <2>1. Uncounted(v, s)' <=> Uncounted(v, s)
    BY <1>3, <1>7
  <2>2. counter'[v][s] = counter[v][s]
    BY <1>2, <1>7
  <2> QED BY <1>4, <1>5, <2>1, <2>2 DEF Tally
<1> QED BY <1>6, <1>7

LEMMA StepTallies == CountInv /\ [Next]_vars => Tallies'
<1> SUFFICES ASSUME CountInv, [Next]_vars, NEW v \in Exporters, NEW s \in Sats PROVE Tally(v, s)'
  BY DEF Tallies
<1>1. ASSUME UNCHANGED <<popped, counter>>,
             (pc'[v] = "metrics" /\ serving'[v]) <=> (pc[v] = "metrics" /\ serving[v]),
             pc[v] = "metrics" => cur'[v] = cur[v]
      PROVE  Tally(v, s)'
  <2>1. Uncounted(v, s)' <=> Uncounted(v, s)
    BY <1>1 DEF Uncounted
  <2> QED BY <1>1, <2>1, SameTally DEF CountInv
<1> USE DEF CountInv, TypeOK
<1>2. ASSUME NEW r \in Readings, Arrive(r) PROVE Tally(v, s)'
  BY <1>1, <1>2 DEF Arrive, process, registry
<1>3. ASSUME NEW w \in Exporters, Load(w) \/ Serve(w) \/ SetStamp(w) \/ SetScore(w) \/ HGet(w) \/ HSet(w)
      PROVE  Tally(v, s)'
  BY <1>1, <1>3 DEF Load, Serve, SetStamp, SetScore, HGet, HSet, registry, AfterExport
<1>4. ASSUME NEW w \in Exporters, SetMetric(w) \/ Sigterm(w) PROVE Tally(v, s)'
  BY <1>1, <1>4 DEF SetMetric, Sigterm, registry
<1>5. ASSUME NEW w \in Exporters, Replay(w) PROVE Tally(v, s)'
  <2>1. PICK r \in loaded[w] : Begin(w, r)
    BY <1>5 DEF Replay
  <2>2. ~serving[w] /\ popped' = popped /\ serving' = serving
    BY <1>5, <2>1 DEF Replay, Begin, Phases
  <2>3. counter' = counter
    BY <2>1, <2>2 DEF Begin, Count
  <2>4. v # w => pc'[v] = pc[v] /\ cur'[v] = cur[v]
    BY <2>1 DEF Begin
  <2>5. pc[v] = "metrics" => v # w
    BY <1>5 DEF Replay
  <2> QED BY <1>1, <2>2, <2>3, <2>4, <2>5
<1>6. ASSUME NEW w \in Exporters, Ends(w) PROVE Tally(v, s)'
  <2>1. CASE v = w
    <3>1. popped'[w] = {} /\ counter'[w] = Zero /\ pc'[w] = "down"
      BY <1>6 DEF Ends
    <3>2. Of(w, s)' = {} /\ ~Uncounted(w, s)' /\ counter'[w][s] = 0
      BY <3>1 DEF Of, Uncounted, Zero
    <3>3. IsFiniteSet({}) /\ Cardinality({}) = 0
      BY FS_EmptySet
    <3> QED BY <2>1, <3>2, <3>3 DEF Tally
  <2>2. CASE v # w
    <3>1. popped'[v] = popped[v] /\ counter'[v] = counter[v] /\ (Uncounted(v, s)' <=> Uncounted(v, s))
      BY <1>6, <2>2 DEF Ends, Uncounted
    <3> QED BY <3>1, SameTally
  <2> QED BY <2>1, <2>2
<1>7. CASE UNCHANGED vars
  BY <1>1, <1>7 DEF vars, process, registry
<1>8. ASSUME NEW w \in Exporters, Exit(w) \/ Crash(w) PROVE Tally(v, s)'
  BY <1>6, <1>8 DEF Exit, Crash
<1>9. ASSUME NEW w \in Exporters, Pop(w) \/ CountReading(w) PROVE Tally(v, s)'
  BY <1>9, PopTally, CountTally
<1> QED BY <1>2, <1>3, <1>4, <1>5, <1>7, <1>8, <1>9 DEF Next, Step

\* Between two readings the counter of a process is the number of readings it
\* popped since its start: neither an older reading nor a replay upsets it.
THEOREM CountsPoppedCorrect == Spec => []CountsPopped
<1>1. Init => CountInv
  <2> SUFFICES ASSUME Init PROVE CountInv
    OBVIOUS
  <2>1. Items(<< >>) = {} /\ Distinct(<< >>)
    BY DEF Items, Distinct
  <2>2. Phases /\ Fresh
    BY <2>1 DEF Init, Phases, Fresh
  <2>3. ASSUME NEW w \in Exporters, NEW s \in Sats PROVE Tally(w, s)
    <3>1. Of(w, s) = {} /\ ~Uncounted(w, s) /\ counter[w][s] = 0
      BY DEF Init, Of, Uncounted, Zero
    <3> QED BY <3>1, FS_EmptySet DEF Tally
  <2> QED BY InitTyped, <2>2, <2>3 DEF CountInv, Tallies
<1>2. CountInv /\ [Next]_vars => CountInv'
  BY StepTyped, StepPhases, StepFresh, StepTallies DEF CountInv
<1>3. CountInv => CountsPopped
  <2> SUFFICES ASSUME CountInv, NEW w \in Exporters, NEW s \in Sats, pc[w] = "top"
               PROVE  counter[w][s] = Cardinality({ r \in popped[w] : r.sat = s })
    BY DEF CountsPopped
  <2>1. ~Uncounted(w, s) /\ Tally(w, s) /\ counter[w][s] \in Nat
    BY DEF Uncounted, CountInv, Tallies, TypeOK
  <2> QED BY <2>1 DEF Tally, Of
<1> QED BY <1>1, <1>2, <1>3, PTL DEF Spec

-----------------------------------------------------------------------------
(* One exporter and the store.                                              *)

Alone == \A v, w \in Exporters : v = w

\* The store holds readings of the satellite they stand under, and a process
\* replays what the store holds.
StoreOK ==
  /\ \A s \in Sats : store[s] # None => store[s] \in Readings /\ store[s].sat = s
  /\ \A w \in Exporters : \A r \in loaded[w] : r \in Readings /\ r = store[r.sat]

\* The registry shows the stored reading of a satellite, or nothing as long as
\* that is still to be replayed.
Shown(w, s) ==
  /\ score[w][s] = stamp[w][s]
  /\ stamp[w][s] = IF store[s] \in loaded[w] THEN None ELSE store[s]
  /\ latest[w][s] = Time(stamp[w][s])

\* The reading in hand is on its way into the registry and the store.
Halfway(w) ==
  LET r == cur[w]
      s == r.sat
      old == IF serving[w] THEN store[s] ELSE None
  IN /\ store[s] \notin loaded[w]
     /\ ~serving[w] => r = store[s]
     /\ Time(store[s]) <= r.time
     /\ latest[w][s] = r.time
     /\ stamp[w][s] = IF pc[w] \in {"metrics", "stamp"} THEN old ELSE r
     /\ score[w][s] = IF pc[w] \in {"metrics", "stamp", "score"} THEN old ELSE r

\* The reading in hand is older than the one shown.
Late(w) ==
  /\ pc[w] = "hget"
  /\ Shown(w, cur[w].sat)
  /\ cur[w].time < Time(store[cur[w].sat])

Busy(w) == pc[w] \in {"metrics", "stamp", "score", "hget", "hset"}

Shows(w) ==
  /\ serving[w] => loaded[w] = {}
  /\ pc[w] = "down" => stamp[w] = Blank /\ score[w] = Blank /\ latest[w] = Zero /\ loaded[w] = {}
  /\ pc[w] # "down" => \A s \in Sats : ~(Busy(w) /\ s = cur[w].sat) => Shown(w, s)
  /\ Busy(w) => Halfway(w) \/ Late(w)

ShowInv == TypeOK /\ HandOK /\ Phases /\ StoreOK /\ \A w \in Exporters : Shows(w)

\* A reading that is not older than the shown one is on its way.
LEMMA BeginShows ==
  ASSUME ShowInv, NEW w \in Exporters, NEW r \in Readings, Begin(w, r), store' = store,
         pc[w] \in {"replay", "top"},
         pc[w] = "replay" => r \in loaded[w] /\ loaded' = [loaded EXCEPT ![w] = @ \ {r}],
         pc[w] = "top" => loaded' = loaded
  PROVE  Shows(w)'
<1> USE DEF ShowInv
<1> DEFINE s == r.sat
<1>1. /\ s \in Sats /\ r.time \in Nat \ {0} /\ Time(r) = r.time /\ r # None
      /\ cur'[w] = r /\ UNCHANGED <<stamp, score, serving>>
      /\ Shown(w, s) /\ Time(store[s]) \in Nat
  BY ReadingFacts DEF Begin, TypeOK, Shows, Busy
<1>2. /\ pc[w] = "replay" => ~serving[w] /\ r = store[s] /\ r \in loaded[w] /\ loaded'[w] = loaded[w] \ {r}
      /\ pc[w] = "top" => serving[w] /\ loaded[w] = {} /\ loaded'[w] = {}
  BY DEF Phases, StoreOK, Shows, TypeOK
<1> HIDE DEF s
<1>3. ASSUME NEW u \in Sats, u # s PROVE Shown(w, u)'
  <2>1. Shown(w, u)
    BY <1>3 DEF Shows, Busy
  <2>2. latest'[w][u] = latest[w][u]
    BY <1>3 DEF Begin, s, TypeOK
  <2>3. store[u] \in loaded'[w] <=> store[u] \in loaded[w]
    <3>1. store[u] # r
      BY <1>1, <1>3 DEF StoreOK, s
    <3> QED BY <1>2, <3>1
  <2> QED BY <1>1, <2>1, <2>2, <2>3 DEF Shown
<1>4. CASE Older(w, r)
  <2>1. /\ latest' = latest /\ pc'[w] = AfterExport(w)
        /\ latest[w][s] # 0 /\ r.time < latest[w][s]
    BY <1>4 DEF Begin, Older, s, TypeOK
  <2>2. pc[w] = "top"
    BY <1>1, <1>2, <2>1, ReadingFacts DEF Shown
  <2>3. serving[w] /\ pc'[w] = "hget" /\ loaded[w] = {} /\ loaded'[w] = {} /\ serving'[w]
    BY <1>1, <1>2, <2>1, <2>2 DEF AfterExport
  <2>4. Shown(w, s)' /\ Time(store[s]) = latest[w][s]
    BY <1>1, <2>1, <2>3 DEF Shown
  <2>5. Late(w)'
    BY <1>1, <2>1, <2>3, <2>4 DEF Late, s
  <2> QED BY <1>1, <1>3, <2>3, <2>5 DEF Shows, Busy, s
<1>5. CASE ~Older(w, r)
  <2>1. latest'[w][s] = r.time /\ pc'[w] = "metrics" /\ (latest[w][s] = 0 \/ ~(r.time < latest[w][s]))
    BY <1>1, <1>5 DEF Begin, Older, s, TypeOK
  <2>2. CASE pc[w] = "replay"
    <3>1. stamp[w][s] = None /\ score[w][s] = None /\ Time(store[s]) <= r.time /\ store[s] \notin loaded'[w]
      BY <1>1, <1>2, <2>2 DEF Shown
    <3>2. Halfway(w)'
      BY <1>1, <1>2, <2>1, <2>2, <3>1 DEF Halfway, s
    <3> QED BY <1>1, <1>2, <1>3, <2>1, <2>2, <3>2 DEF Shows, Busy, s
  <2>3. CASE pc[w] = "top"
    <3>1. stamp[w][s] = store[s] /\ score[w][s] = store[s] /\ Time(store[s]) <= r.time
      BY <1>1, <1>2, <2>1, <2>3 DEF Shown
    <3>2. Halfway(w)'
      BY <1>1, <1>2, <2>1, <2>3, <3>1 DEF Halfway, s
    <3> QED BY <1>1, <1>2, <1>3, <2>1, <2>3, <3>2 DEF Shows, Busy, s
  <2> QED BY <2>2, <2>3
<1> QED BY <1>4, <1>5

\* An assignment to the timestamp or the score of the satellite in hand.
LEMMA SetShows ==
  ASSUME ShowInv, NEW w \in Exporters, SetStamp(w) \/ SetScore(w)
  PROVE  Shows(w)'
<1> USE DEF ShowInv
<1> SUFFICES ASSUME NEW r, r = cur[w], NEW s, s = r.sat PROVE Shows(w)'
  OBVIOUS
<1>1. /\ r \in Readings /\ s \in Sats /\ r # None /\ Time(r) = r.time
      /\ Halfway(w) /\ pc[w] \in {"stamp", "score"} /\ Busy(w)
      /\ UNCHANGED <<store, cur, loaded, serving, latest>>
  BY ReadingFacts DEF SetStamp, SetScore, HandOK, Shows, Busy, Late
<1>2. \A u \in Sats : u # s => stamp'[w][u] = stamp[w][u] /\ score'[w][u] = score[w][u] /\ Shown(w, u)
  <2>1. \A u \in Sats : u # s => Shown(w, u)
    BY <1>1 DEF Shows, Busy
  <2>2. \A u \in Sats : u # s => stamp'[w][u] = stamp[w][u]
    BY <1>1 DEF SetStamp, SetScore, TypeOK
  <2>3. \A u \in Sats : u # s => score'[w][u] = score[w][u]
    BY <1>1 DEF SetStamp, SetScore, TypeOK
  <2> QED BY <2>1, <2>2, <2>3
<1>3. \A u \in Sats : u # s => Shown(w, u)'
  BY <1>1, <1>2 DEF Shown
<1>4. CASE SetStamp(w)
  <2>1. pc[w] = "stamp" /\ pc'[w] = "score" /\ stamp'[w][s] = r /\ score' = score
    BY <1>1, <1>4 DEF SetStamp, TypeOK
  <2>2. Halfway(w)'
    BY <1>1, <2>1 DEF Halfway
  <2> QED BY <1>1, <1>3, <2>1, <2>2 DEF Shows, Busy
<1>5. CASE SetScore(w)
  <2>1. pc[w] = "score" /\ pc'[w] = AfterExport(w) /\ score'[w][s] = r /\ stamp' = stamp
    BY <1>1, <1>5 DEF SetScore, TypeOK
  <2>2. CASE serving[w]
    <3>1. pc'[w] = "hget"
      BY <2>1, <2>2 DEF AfterExport
    <3>2. Halfway(w)'
      BY <1>1, <2>1, <2>2, <3>1 DEF Halfway
    <3> QED BY <1>1, <1>3, <3>1, <3>2 DEF Shows, Busy
  <2>3. CASE ~serving[w]
    <3>1. pc'[w] = "replay"
      BY <2>1, <2>3 DEF AfterExport
    <3>2. Shown(w, s)'
      BY <1>1, <2>1, <2>3 DEF Halfway, Shown
    <3>3. \A u \in Sats : Shown(w, u)'
      BY <1>3, <3>2
    <3> QED BY <1>1, <2>3, <3>1, <3>3 DEF Shows, Busy
  <2> QED BY <2>2, <2>3
<1> QED BY <1>1, <1>4, <1>5

\* The comparison and the save.
LEMMA SaveShows ==
  ASSUME ShowInv, NEW w \in Exporters, HGet(w) \/ HSet(w)
  PROVE  Shows(w)'
<1> USE DEF ShowInv
<1> SUFFICES ASSUME NEW r, r = cur[w], NEW s, s = r.sat PROVE Shows(w)'
  OBVIOUS
<1>1. /\ r \in Readings /\ s \in Sats /\ r # None /\ Time(r) = r.time /\ r.time \in Nat
      /\ pc[w] \in {"hget", "hset"} /\ Busy(w) /\ serving[w] /\ loaded[w] = {}
      /\ UNCHANGED <<loaded, serving, latest, stamp, score>>
      /\ Halfway(w) \/ Late(w)
      /\ Time(store[s]) \in Nat
  BY ReadingFacts DEF HGet, HSet, HandOK, Shows, Busy, Phases, registry, TypeOK
<1>2. \A u \in Sats : u # s => Shown(w, u)
  BY <1>1 DEF Shows
<1>3. CASE HGet(w)
  <2>1. /\ pc[w] = "hget" /\ store' = store
        /\ pc'[w] = IF Keeps(store[s], r) THEN "top" ELSE "hset"
        /\ ~Keeps(store[s], r) => cur'[w] = r
    BY <1>3 DEF HGet, TypeOK
  <2>2. \A u \in Sats : u # s => Shown(w, u)'
    BY <1>1, <1>2, <2>1 DEF Shown
  <2>3. Keeps(store[s], r) <=> Time(store[s]) > r.time
    BY <1>1 DEF Keeps, Time
  <2>4. CASE Late(w)
    <3>1. pc'[w] = "top" /\ Shown(w, s)'
      BY <1>1, <2>1, <2>3, <2>4 DEF Late, Shown
    <3>2. \A u \in Sats : Shown(w, u)'
      BY <2>2, <3>1
    <3> QED BY <1>1, <3>1, <3>2 DEF Shows, Busy
  <2>5. CASE Halfway(w)
    <3>1. pc'[w] = "hset" /\ cur'[w] = r
      BY <1>1, <2>1, <2>3, <2>5 DEF Halfway
    <3>2. Halfway(w)'
      BY <1>1, <2>1, <2>5, <3>1 DEF Halfway
    <3> QED BY <1>1, <2>2, <3>1, <3>2 DEF Shows, Busy
  <2> QED BY <1>1, <2>4, <2>5
<1>4. CASE HSet(w)
  <2>1. /\ pc[w] = "hset" /\ pc'[w] = "top"
        /\ store'[s] = r /\ \A u \in Sats : u # s => store'[u] = store[u]
    BY <1>1, <1>4 DEF HSet, TypeOK
  <2>2. \A u \in Sats : u # s => Shown(w, u)'
    BY <1>1, <1>2, <2>1 DEF Shown
  <2>3. Shown(w, s)'
    BY <1>1, <2>1 DEF Shown, Halfway, Late
  <2>4. \A u \in Sats : Shown(w, u)'
    BY <2>2, <2>3
  <2> QED BY <1>1, <2>1, <2>4 DEF Shows, Busy
<1> QED BY <1>3, <1>4

LEMMA StepStore == ShowInv /\ Alone /\ [Next]_vars => StoreOK'
<1> SUFFICES ASSUME ShowInv, Alone, [Next]_vars PROVE StoreOK'
  OBVIOUS
<1> USE DEF ShowInv, StoreOK, TypeOK
<1>1. ASSUME NEW w \in Exporters, Load(w) PROVE StoreOK'
  <2>1. store' = store /\ \A v \in Exporters : loaded'[v] = IF v = w THEN Stored ELSE loaded[v]
    BY <1>1 DEF Load
  <2>2. \A r \in Stored : r \in Readings /\ r = store[r.sat]
    BY DEF Stored
  <2> QED BY <2>1, <2>2
<1>2. ASSUME NEW w \in Exporters, Replay(w) PROVE StoreOK'
  <2>1. store' = store /\ \A v \in Exporters : loaded'[v] \subseteq loaded[v]
    BY <1>2 DEF Replay
  <2> QED BY <2>1
<1>3. ASSUME NEW w \in Exporters, HSet(w) PROVE StoreOK'
  <2>1. cur[w] \in Readings /\ cur[w].sat \in Sats /\ loaded' = loaded /\ loaded[w] = {}
    BY <1>3, ReadingFacts DEF HSet, HandOK, Phases, Shows
  <2>2. store' = [store EXCEPT ![cur[w].sat] = cur[w]]
    BY <1>3 DEF HSet
  <2>3. \A v \in Exporters : loaded'[v] = {}
    BY <2>1 DEF Alone
  <2> QED BY <2>1, <2>2, <2>3
<1>4. ASSUME NEW w \in Exporters, Exit(w) \/ Crash(w) PROVE StoreOK'
  <2>1. store' = store /\ \A v \in Exporters : loaded'[v] \subseteq loaded[v]
    BY <1>4 DEF Exit, Crash, Ends
  <2> QED BY <2>1
<1>5. CASE UNCHANGED <<store, loaded>>
  BY <1>5
<1>6. ASSUME NEW w \in Exporters,
             Serve(w) \/ Pop(w) \/ SetMetric(w) \/ CountReading(w) \/ SetStamp(w) \/ SetScore(w)
               \/ HGet(w) \/ Sigterm(w)
      PROVE  UNCHANGED <<store, loaded>>
  BY <1>6 DEF Serve, Pop, SetMetric, CountReading, SetStamp, SetScore, HGet, Sigterm
<1>7. ASSUME (\E r \in Readings : Arrive(r)) \/ UNCHANGED vars PROVE UNCHANGED <<store, loaded>>
  BY <1>7 DEF Arrive, vars, process
<1> QED BY <1>1, <1>2, <1>3, <1>4, <1>5, <1>6, <1>7 DEF Next, Step

LEMMA StepShows ==
  ASSUME ShowInv, Alone, [Next]_vars, NEW v \in Exporters
  PROVE  Shows(v)'
<1> USE DEF ShowInv
<1>1. \A w \in Exporters : w = v
  BY DEF Alone
<1>2. ASSUME UNCHANGED <<store, stamp, score, latest>>,
             UNCHANGED <<pc[v], cur[v], loaded[v], serving[v]>>
      PROVE  Shows(v)'
  BY <1>2 DEF Shows, Shown, Halfway, Late, Busy
<1>3. CASE Load(v)
  <2>1. /\ pc[v] = "down" /\ pc'[v] = "replay" /\ loaded'[v] = Stored
        /\ ~serving[v] /\ UNCHANGED <<store, serving, latest, stamp, score>>
    BY <1>3 DEF Load, registry, TypeOK, Phases
  <2>2. stamp[v] = Blank /\ score[v] = Blank /\ latest[v] = Zero
    BY <2>1 DEF Shows
  <2>3. ASSUME NEW s \in Sats PROVE Shown(v, s)'
    <3>1. stamp[v][s] = None /\ score[v][s] = None /\ latest[v][s] = 0
      BY <2>2 DEF Blank, Zero
    <3>2. store[s] \in Stored \/ store[s] = None
      BY DEF Stored
    <3> QED BY <2>1, <3>1, <3>2, ReadingFacts DEF Shown
  <2> QED BY <2>1, <2>3 DEF Shows, Busy
<1>4. CASE Replay(v)
  <2>1. PICK r \in loaded[v] : Begin(v, r) /\ loaded' = [loaded EXCEPT ![v] = @ \ {r}]
    BY <1>4 DEF Replay
  <2>2. pc[v] = "replay" /\ store' = store /\ r \in Readings
    BY <1>4 DEF Replay, StoreOK
  <2> QED BY <2>1, <2>2, BeginShows
<1>5. CASE Pop(v)
  <2>1. queue # << >> /\ pc[v] = "top" /\ Begin(v, Head(queue)) /\ store' = store /\ loaded' = loaded
    BY <1>5 DEF Pop
  <2>2. Head(queue) \in Readings
    BY <2>1, PoppedFacts DEF TypeOK
  <2> QED BY <2>1, <2>2, BeginShows
<1>6. CASE Serve(v)
  <2>1. /\ pc[v] = "replay" /\ pc'[v] = "top" /\ loaded[v] = {} /\ loaded' = loaded
        /\ UNCHANGED <<store, latest, stamp, score>>
    BY <1>6 DEF Serve, registry, TypeOK
  <2>2. \A s \in Sats : Shown(v, s) /\ Shown(v, s)'
    BY <2>1 DEF Shows, Busy, Shown
  <2> QED BY <2>1, <2>2 DEF Shows, Busy
<1>7. CASE SetMetric(v)
  <2>1. UNCHANGED <<store, stamp, score, latest, pc, cur, loaded, serving>>
    BY <1>7 DEF SetMetric
  <2> QED BY <1>2, <2>1
<1>8. CASE CountReading(v)
  <2>1. /\ pc[v] = "metrics" /\ pc'[v] = "stamp"
        /\ UNCHANGED <<store, stamp, score, latest, cur, loaded, serving>>
    BY <1>8 DEF CountReading, TypeOK
  <2>2. Halfway(v) /\ \A s \in Sats : s # cur[v].sat => Shown(v, s)
    BY <2>1 DEF Shows, Busy, Late
  <2>3. Halfway(v)'
    BY <2>1, <2>2 DEF Halfway
  <2>4. \A s \in Sats : s # cur[v].sat => Shown(v, s)'
    BY <2>1, <2>2 DEF Shown
  <2>5. serving[v] => loaded[v] = {}
    BY DEF Shows
  <2> QED BY <2>1, <2>3, <2>4, <2>5 DEF Shows, Busy
<1>9. CASE Ends(v)
  BY <1>9 DEF Ends, TypeOK, Shows, Busy
<1>10. CASE Sigterm(v)
  BY <1>2, <1>10 DEF Sigterm, registry
<1>11. CASE (\E r \in Readings : Arrive(r)) \/ UNCHANGED vars
  BY <1>2, <1>11 DEF Arrive, vars, process, registry
<1>12. CASE Exit(v) \/ Crash(v)
  BY <1>9, <1>12 DEF Exit, Crash
<1> QED
  BY <1>1, <1>3, <1>4, <1>5, <1>6, <1>7, <1>8, <1>10, <1>11, <1>12, SetShows, SaveShows DEF Next, Step

LEMMA ShowInvCorrect ==
  ASSUME Alone
  PROVE  Spec => []ShowInv
<1>1. Init => ShowInv
  <2> SUFFICES ASSUME Init PROVE ShowInv
    OBVIOUS
  <2>1. Phases /\ StoreOK
    BY DEF Init, Phases, StoreOK, Blank
  <2>2. \A w \in Exporters : Shows(w)
    BY DEF Init, Shows, Busy
  <2> QED BY InitTyped, <2>1, <2>2 DEF ShowInv
<1>2. ShowInv /\ [Next]_vars => ShowInv'
  <2> SUFFICES ASSUME ShowInv, [Next]_vars PROVE ShowInv'
    OBVIOUS
  <2>1. TypeOK' /\ HandOK' /\ Phases' /\ StoreOK'
    BY StepTyped, StepPhases, StepStore DEF ShowInv
  <2>2. \A w \in Exporters : Shows(w)'
    BY StepShows
  <2> QED BY <2>1, <2>2 DEF ShowInv
<1> QED BY <1>1, <1>2, PTL DEF Spec

\* With one exporter, the registry shows what the store would replay, but for the
\* reading in hand between its timestamp and its save.
THEOREM ShowsStoredCorrect ==
  ASSUME Alone
  PROVE  Spec => []ShowsStored
<1>1. ShowInv => ShowsStored
  <2> SUFFICES ASSUME ShowInv, NEW w \in Exporters, serving[w], NEW s \in Sats
               PROVE  \/ stamp[w][s] = store[s] /\ score[w][s] = store[s]
                      \/ /\ pc[w] \in {"score", "hget", "hset"}
                         /\ cur[w].sat = s
                         /\ Time(store[s]) <= cur[w].time
                         /\ stamp[w][s] = cur[w]
                         /\ score[w][s] = IF pc[w] = "score" THEN store[s] ELSE cur[w]
    BY DEF ShowsStored
  <2>1. loaded[w] = {} /\ pc[w] # "down"
    BY DEF ShowInv, Phases, Shows
  <2>2. ASSUME Shown(w, s) PROVE stamp[w][s] = store[s] /\ score[w][s] = store[s]
    BY <2>1, <2>2 DEF Shown
  <2>3. CASE ~(Busy(w) /\ s = cur[w].sat)
    BY <2>1, <2>2, <2>3 DEF ShowInv, Shows
  <2>4. CASE Busy(w) /\ s = cur[w].sat
    <3>1. CASE Late(w)
      BY <2>2, <2>4, <3>1 DEF Late
    <3>2. CASE Halfway(w)
      BY <2>4, <3>2 DEF Halfway, Busy
    <3> QED BY <2>4, <3>1, <3>2 DEF ShowInv, Shows
  <2> QED BY <2>3, <2>4
<1> QED BY <1>1, ShowInvCorrect, PTL

\* With one exporter the stored reading of a satellite is never replaced by an
\* older one.
THEOREM StoreMonotoneCorrect ==
  ASSUME Alone
  PROVE  Spec => StoreMonotone
<1>1. ShowInv /\ [Next]_vars => [\A s \in Sats : Time(store[s]) <= Time(store'[s])]_vars
  <2> SUFFICES ASSUME ShowInv, [Next]_vars, NEW s \in Sats PROVE Time(store[s]) <= Time(store'[s])
    OBVIOUS
  <2>1. Time(store[s]) \in Nat
    BY ReadingFacts DEF ShowInv, TypeOK
  <2>2. ASSUME NEW w \in Exporters, HSet(w) PROVE Time(store[s]) <= Time(store'[s])
    <3>1. /\ cur[w] \in Readings /\ cur[w].sat \in Sats /\ Time(cur[w]) = cur[w].time
          /\ Time(store[cur[w].sat]) <= cur[w].time
          /\ store' = [store EXCEPT ![cur[w].sat] = cur[w]]
      BY <2>2, ReadingFacts DEF HSet, ShowInv, HandOK, Shows, Busy, Halfway, Late
    <3> QED BY <2>1, <3>1 DEF ShowInv, TypeOK
  <2>3. ASSUME store' = store PROVE Time(store[s]) <= Time(store'[s])
    BY <2>1, <2>3
  <2>4. ASSUME NEW w \in Exporters,
               Load(w) \/ Replay(w) \/ Serve(w) \/ Pop(w) \/ SetMetric(w) \/ CountReading(w) \/ SetStamp(w)
                 \/ SetScore(w) \/ HGet(w) \/ Exit(w) \/ Sigterm(w) \/ Crash(w)
        PROVE  store' = store
    BY <2>4 DEF Load, Replay, Serve, Pop, SetMetric, CountReading, SetStamp, SetScore, HGet, Exit, Sigterm, Crash
  <2>5. ASSUME (\E r \in Readings : Arrive(r)) \/ UNCHANGED vars PROVE store' = store
    BY <2>5 DEF Arrive, vars
  <2> QED BY <2>2, <2>3, <2>4, <2>5 DEF Next, Step
<1> QED BY <1>1, ShowInvCorrect, PTL DEF Spec, StoreMonotone
=============================================================================
