--------------------------- MODULE IngestProofs ---------------------------
(* The theorems about Ingest, for any number of processes, any captures,    *)
(* any queue maxima and any number of crashes and expiries.                 *)
EXTENDS Ingest, RedisListProofs, FiniteSetTheorems

\* What a process has in hand fits the channel it is polling.
HandOK ==
  \A w \in Workers :
    /\ page[w] \subseteq Captures(chan[w])
    /\ pc[w] \in {"expire", "rpush", "ltrim", "insert"} =>
         cur[w] \in Ticket /\ cur[w].chan = chan[w]

\* A capture that can come back has a key.
LEMMA KeyOfCapture ==
  ASSUME NEW c \in Channels, NEW f \in Captures(c)
  PROVE  DedupKey(c, f) \in Keys
BY DEF Keys

LEMMA CapturesTyped == \A c \in Channels : Captures(c) \subseteq RawFrames \cup AudioObs
BY DEF Captures, Channels

LEMMA MaxQueueTyped == \A c \in Channels : MaxQueue(c) \in Nat \ {0}
BY QueueAssumption DEF MaxQueue, Channels

\* What SADD does: nothing but pass to the next capture, or one new admission.
LEMMA SAddCases ==
  ASSUME TypeOK, HandOK, NEW w \in Workers, SAdd(w)
  PROVE  /\ UNCHANGED <<armed, queue, archive, chan, hasStore, stopping, history>>
         /\ page' \in [Workers -> SUBSET (RawFrames \cup AudioObs)]
         /\ \A v \in Workers : page'[v] \subseteq page[v]
         /\ \/ UNCHANGED <<seen, pc, cur>>
            \/ \E k \in Keys : \E t \in Ticket :
                 /\ t = [chan |-> chan[w], key |-> k, window |-> window[chan[w]]]
                 /\ k \notin seen[chan[w]]
                 /\ seen' = [seen EXCEPT ![chan[w]] = @ \cup {k}]
                 /\ cur' = [cur EXCEPT ![w] = t]
                 /\ pc' = [pc EXCEPT ![w] = "expire"]
<1> DEFINE c == chan[w]
<1>1. PICK f \in page[w] :
        LET k == DedupKey(c, f)
        IN /\ page' = [page EXCEPT ![w] = @ \ {f}]
           /\ \/ UNCHANGED <<seen, pc, cur>>
              \/ /\ k \notin seen[c]
                 /\ seen' = [seen EXCEPT ![c] = @ \cup {k}]
                 /\ cur' = [cur EXCEPT ![w] = [chan |-> c, key |-> k, window |-> window[c]]]
                 /\ pc' = [pc EXCEPT ![w] = "expire"]
  BY DEF SAdd, Unseen
<1>2. c \in Channels /\ f \in Captures(c)
  BY DEF TypeOK, HandOK
<1>3. DedupKey(c, f) \in Keys
  BY <1>2, KeyOfCapture
<1>4. [chan |-> c, key |-> DedupKey(c, f), window |-> window[c]] \in Ticket
  BY <1>2, <1>3 DEF Ticket, TypeOK
<1>5. UNCHANGED <<armed, queue, archive, chan, hasStore, stopping, history>>
  BY DEF SAdd
<1>6. /\ page' \in [Workers -> SUBSET (RawFrames \cup AudioObs)]
      /\ \A v \in Workers : page'[v] \subseteq page[v]
  BY <1>1 DEF TypeOK
<1> QED BY <1>1, <1>3, <1>4, <1>5, <1>6

LEMMA InitTyped == Init => TypeOK /\ HandOK
<1> SUFFICES ASSUME Init PROVE TypeOK /\ HandOK
  OBVIOUS
<1>1. << >> \in Seq(Ticket)
  OBVIOUS
<1>2. 0 \in Nat
  OBVIOUS
<1>3. TypeOK
  BY <1>1, <1>2 DEF Init, TypeOK, PC, Channels
<1>4. HandOK
  BY DEF Init, HandOK
<1> QED BY <1>3, <1>4

\* Every step keeps the state well typed and the hands in their channel.
LEMMA StepTyped == TypeOK /\ HandOK /\ [Next]_vars => TypeOK' /\ HandOK'
<1> SUFFICES ASSUME TypeOK, HandOK, [Next]_vars PROVE TypeOK' /\ HandOK'
  OBVIOUS
<1> USE DEF TypeOK, HandOK, PC
<1>1. ASSUME NEW w \in Workers, Start(w) PROVE TypeOK' /\ HandOK'
  BY <1>1 DEF Start, redis, history
<1>2. ASSUME NEW w \in Workers, PollRaw(w) PROVE TypeOK' /\ HandOK'
  BY <1>2 DEF PollRaw, redis, history, Channels, Captures
<1>3. ASSUME NEW w \in Workers, PollAudio(w) PROVE TypeOK' /\ HandOK'
  BY <1>3 DEF PollAudio, redis, history, Channels, Captures
<1>4. ASSUME NEW w \in Workers, EndCycle(w) PROVE TypeOK' /\ HandOK'
  BY <1>4 DEF EndCycle, redis, history, Channels
<1>5. ASSUME NEW w \in Workers, SAdd(w) PROVE TypeOK' /\ HandOK'
  <2>1. /\ UNCHANGED <<armed, queue, archive, chan, hasStore, stopping, window, taken, evicted, lost, crashes>>
        /\ page' \in [Workers -> SUBSET (RawFrames \cup AudioObs)]
        /\ \A v \in Workers : page'[v] \subseteq page[v]
    BY <1>5, SAddCases DEF history
  <2>2. CASE UNCHANGED <<seen, pc, cur>>
    BY <2>1, <2>2
  <2>3. ASSUME NEW k \in Keys, NEW t \in Ticket,
               t = [chan |-> chan[w], key |-> k, window |-> window[chan[w]]],
               seen' = [seen EXCEPT ![chan[w]] = @ \cup {k}],
               cur' = [cur EXCEPT ![w] = t],
               pc' = [pc EXCEPT ![w] = "expire"]
        PROVE  TypeOK' /\ HandOK'
    BY <2>1, <2>3
  <2> QED BY <1>5, <2>2, <2>3, SAddCases
<1>6. ASSUME NEW w \in Workers, Expire(w) PROVE TypeOK' /\ HandOK'
  <2>1. Arms(chan[w]) \in BOOLEAN
    BY DEF Arms
  <2> QED BY <1>6, <2>1 DEF Expire, history
<1>7. ASSUME NEW w \in Workers, RPush(w) PROVE TypeOK' /\ HandOK'
  <2>1. chan[w] \in Channels /\ cur[w] \in Ticket
    BY <1>7 DEF RPush
  <2>2. RPushed(queue[chan[w]], cur[w]) \in Seq(Ticket)
    BY <2>1, RPushedFacts
  <2> QED BY <1>7, <2>1, <2>2 DEF RPush, history
<1>8. ASSUME NEW w \in Workers, LTrim(w) PROVE TypeOK' /\ HandOK'
  <2>1. chan[w] \in Channels /\ cur[w] \in Ticket /\ MaxQueue(chan[w]) \in Nat \ {0}
    BY <1>8, MaxQueueTyped DEF LTrim
  <2>2. Trimmed(queue[chan[w]], MaxQueue(chan[w])) \in Seq(Ticket)
    BY <2>1, TrimmedFacts
  <2>3. Items(queue[chan[w]]) \subseteq Ticket
    BY <2>1, ElementOfSeq DEF Items
  <2> QED BY <1>8, <2>1, <2>2, <2>3 DEF LTrim
<1>9. ASSUME NEW w \in Workers, Insert(w) PROVE TypeOK' /\ HandOK'
  <2>1. cur[w].key \in Keys
    BY <1>9 DEF Insert, Ticket
  <2> QED BY <1>9, <2>1 DEF Insert, redis, history
<1>10. ASSUME NEW w \in Workers, Sigterm(w) PROVE TypeOK' /\ HandOK'
  BY <1>10 DEF Sigterm, redis, history
<1>11. ASSUME NEW w \in Workers, Exit(w) PROVE TypeOK' /\ HandOK'
  BY <1>11 DEF Exit, redis, history
<1>12. ASSUME NEW w \in Workers, Crash(w) PROVE TypeOK' /\ HandOK'
  BY <1>12 DEF Crash, redis, Channels
<1>13. ASSUME NEW c \in Channels, SeenExpires(c) PROVE TypeOK' /\ HandOK'
  BY <1>13 DEF SeenExpires, local
<1>14. ASSUME NEW c \in Channels, Pop(c) PROVE TypeOK' /\ HandOK'
  <2>1. Head(queue[c]) \in Ticket /\ Popped(queue[c]) \in Seq(Ticket)
    BY <1>14, PoppedFacts DEF Pop
  <2> QED BY <1>14, <2>1 DEF Pop, local
<1>15. CASE UNCHANGED vars
  BY <1>15 DEF vars, redis, local, history
<1> QED
  BY <1>1, <1>2, <1>3, <1>4, <1>5, <1>6, <1>7, <1>8, <1>9, <1>10, <1>11, <1>12, <1>13,
     <1>14, <1>15 DEF Next, WorkerNext

\* Every reachable state of the service is well typed.
THEOREM TypeCorrect == Spec => []TypeOK
<1>1. Init => TypeOK /\ HandOK
  BY InitTyped
<1>2. TypeOK /\ HandOK /\ [Next]_vars => TypeOK' /\ HandOK'
  BY StepTyped
<1> QED BY <1>1, <1>2, PTL DEF Spec
-----------------------------------------------------------------------------
(* QueuedOnce is not inductive alone: a new admission is new because every  *)
(* admission made so far is spent, its key being in the seen set of its     *)
(* window or its window being over.                                         *)

\* No push can make this admission again.
Spent(t) ==
  \/ t.window < window[t.chan]
  \/ t.window = window[t.chan] /\ t.key \in seen[t.chan]

AllSpent ==
  /\ \A c \in Channels : \A t \in Items(queue[c]) : t.chan = c /\ Spent(t)
  /\ \A t \in taken \cup evicted \cup lost : Spent(t)
  /\ \A w \in Workers : InHand(w) => Spent(cur[w])

OnceInv == TypeOK /\ HandOK /\ AllSpent /\ QueuedOnce

LEMMA InitOnce == Init => AllSpent /\ QueuedOnce
<1> SUFFICES ASSUME Init PROVE AllSpent /\ QueuedOnce
  OBVIOUS
<1>1. \A c \in Channels : Items(queue[c]) = {} /\ Distinct(queue[c])
  BY DEF Init, Items, Distinct
<1> QED BY <1>1 DEF Init, AllSpent, QueuedOnce, InHand

\* A spent admission stays spent: keys leave a seen set only when its window
\* ends.
LEMMA SpentStays ==
  ASSUME TypeOK, HandOK, [Next]_vars, NEW t \in Ticket, Spent(t)
  PROVE  Spent(t)'
<1>1. t.chan \in Channels /\ t.window \in Nat
  BY DEF Ticket
<1>2. window[t.chan] \in Nat
  BY <1>1 DEF TypeOK
<1>3. CASE UNCHANGED window /\ \A c \in Channels : seen[c] \subseteq seen'[c]
  BY <1>1, <1>3 DEF Spent
<1>4. ASSUME NEW c \in Channels, SeenExpires(c) PROVE Spent(t)'
  BY <1>1, <1>2, <1>4 DEF SeenExpires, Spent, TypeOK
<1>5. ASSUME NEW w \in Workers, SAdd(w) PROVE Spent(t)'
  <2>1. UNCHANGED window
    BY <1>5, SAddCases DEF history
  <2>2. \/ seen' = seen
        \/ \E k \in Keys : seen' = [seen EXCEPT ![chan[w]] = @ \cup {k}]
    BY <1>5, SAddCases
  <2>3. \A c \in Channels : seen[c] \subseteq seen'[c]
    <3>1. ASSUME NEW k \in Keys, seen' = [seen EXCEPT ![chan[w]] = @ \cup {k}],
                 NEW c \in Channels
          PROVE  seen[c] \subseteq seen'[c]
      BY <3>1 DEF TypeOK
    <3> QED BY <2>2, <3>1
  <2> QED BY <2>1, <2>3, <1>3
<1>6. ASSUME UNCHANGED <<window, seen>> PROVE Spent(t)'
  BY <1>3, <1>6
<1> QED
  BY <1>4, <1>5, <1>6
  DEF Next, WorkerNext, Start, PollRaw, PollAudio, EndCycle, Expire, RPush, LTrim, Insert,
      Sigterm, Exit, Crash, Pop, vars, redis, history

LEMMA ItemsTyped ==
  ASSUME NEW S, NEW list \in Seq(S)
  PROVE  Items(list) \subseteq S
BY ElementOfSeq DEF Items

\* The steps that touch no list, no admission in hand and no history.
LEMMA QuietStep ==
  ASSUME OnceInv, [Next]_vars,
         UNCHANGED <<queue, taken, evicted, lost>>,
         \A w \in Workers : InHand(w)' => InHand(w) /\ cur'[w] = cur[w] /\ chan'[w] = chan[w]
  PROVE  (AllSpent /\ QueuedOnce)'
<1>1. \A c \in Channels : queue[c] \in Seq(Ticket)
  BY DEF OnceInv, TypeOK
<1>2. \A c \in Channels : Items(queue[c]) \subseteq Ticket
  BY <1>1, ItemsTyped
<1>3. \A w \in Workers : InHand(w) => cur[w] \in Ticket
  BY DEF OnceInv, HandOK, InHand
<1>4. \A t \in Ticket : Spent(t) => Spent(t)'
  BY SpentStays DEF OnceInv
<1>5. AllSpent'
  BY <1>2, <1>3, <1>4 DEF OnceInv, AllSpent, TypeOK
<1>6. QueuedOnce'
  BY DEF OnceInv, QueuedOnce
<1> QED BY <1>5, <1>6

\* Every step keeps OnceInv; only SADD, RPUSH, LTRIM, LPOP and a crash have
\* something to show.
LEMMA StepOnce == OnceInv /\ [Next]_vars => OnceInv'
<1> SUFFICES ASSUME OnceInv, [Next]_vars PROVE AllSpent' /\ QueuedOnce'
  BY StepTyped DEF OnceInv
<1> USE DEF OnceInv
<1>1. \A c \in Channels : queue[c] \in Seq(Ticket) /\ Items(queue[c]) \subseteq Ticket
  BY ItemsTyped DEF TypeOK
<1>2. \A w \in Workers : InHand(w) => cur[w] \in Ticket /\ cur[w].chan = chan[w]
  BY DEF HandOK, InHand
<1>3. \A t \in Ticket : Spent(t) => Spent(t)'
  BY SpentStays
<1>4. \A w \in Workers : chan[w] \in Channels /\ pc[w] \in PC
  BY DEF TypeOK
<1>5. taken \subseteq Ticket /\ evicted \subseteq Ticket /\ lost \subseteq Ticket
  BY DEF TypeOK
<1>6. ASSUME NEW w \in Workers, SAdd(w) PROVE AllSpent' /\ QueuedOnce'
  <2>1. UNCHANGED <<queue, taken, evicted, lost, window, chan>>
    BY <1>6, SAddCases DEF history
  <2>2. CASE UNCHANGED <<seen, pc, cur>>
    BY <2>1, <2>2, QuietStep DEF InHand
  <2>3. ASSUME NEW k \in Keys, NEW t \in Ticket,
               t = [chan |-> chan[w], key |-> k, window |-> window[chan[w]]],
               k \notin seen[chan[w]],
               seen' = [seen EXCEPT ![chan[w]] = @ \cup {k}],
               cur' = [cur EXCEPT ![w] = t],
               pc' = [pc EXCEPT ![w] = "expire"]
        PROVE  AllSpent' /\ QueuedOnce'
    <3>1. ~Spent(t)
      BY <1>4, <2>3 DEF Spent, TypeOK
    <3>2. Spent(t)'
      BY <1>4, <2>1, <2>3 DEF Spent, TypeOK
    <3>3. /\ cur'[w] = t /\ InHand(w)'
          /\ \A v \in Workers \ {w} : cur'[v] = cur[v] /\ (InHand(v)' <=> InHand(v))
      BY <2>3 DEF TypeOK, InHand
    <3>4. AllSpent'
      BY <1>1, <1>2, <1>3, <1>5, <2>1, <3>2, <3>3 DEF AllSpent
    <3>5. QueuedOnce'
      BY <1>4, <2>1, <3>1, <3>3 DEF AllSpent, QueuedOnce
    <3> QED BY <3>4, <3>5
  <2> QED BY <1>6, <2>2, <2>3, SAddCases
<1>7. ASSUME NEW w \in Workers, RPush(w) PROVE AllSpent' /\ QueuedOnce'
  <2> DEFINE c == chan[w]
  <2>1. InHand(w) /\ c \in Channels /\ cur[w] \in Ticket /\ cur[w].chan = c
    BY <1>2, <1>4, <1>7 DEF RPush, InHand
  <2>2. /\ queue'[c] = RPushed(queue[c], cur[w])
        /\ \A d \in Channels \ {c} : queue'[d] = queue[d]
        /\ UNCHANGED <<cur, chan, taken, evicted, lost>>
    BY <1>7, <2>1 DEF RPush, history, TypeOK
  <2>3. cur[w] \notin Items(queue[c]) \cup taken \cup evicted
    BY <2>1 DEF QueuedOnce
  <2>4. /\ Items(queue'[c]) = Items(queue[c]) \cup {cur[w]}
        /\ Distinct(queue'[c])
    <3>1. queue[c] \in Seq(Ticket) /\ Distinct(queue[c]) /\ cur[w] \notin Items(queue[c])
      BY <1>1, <2>1, <2>3 DEF QueuedOnce
    <3> HIDE DEF c
    <3>2. \A x : x \in Items(RPushed(queue[c], cur[w])) <=> x \in Items(queue[c]) \/ x = cur[w]
      BY <2>1, <3>1, RPushedFacts
    <3>3. Distinct(RPushed(queue[c], cur[w]))
      BY <2>1, <3>1, RPushedFacts, Zenon
    <3> QED BY <2>2, <3>2, <3>3
  <2>5. ~InHand(w)' /\ \A v \in Workers \ {w} : InHand(v)' <=> InHand(v)
    BY <1>7 DEF RPush, InHand, TypeOK
  <2>6. AllSpent'
    BY <1>1, <1>2, <1>3, <1>5, <2>1, <2>2, <2>4, <2>5 DEF AllSpent
  <2>7. QueuedOnce'
    BY <1>2, <1>4, <2>1, <2>2, <2>3, <2>4, <2>5 DEF QueuedOnce, AllSpent
  <2> QED BY <2>6, <2>7
<1>8. ASSUME NEW w \in Workers, LTrim(w) PROVE AllSpent' /\ QueuedOnce'
  <2> DEFINE c == chan[w]
             kept == Trimmed(queue[c], MaxQueue(c))
  <2>1. c \in Channels /\ MaxQueue(c) \in Nat \ {0}
    BY <1>4, MaxQueueTyped
  <2>2. /\ queue'[c] = kept
        /\ \A d \in Channels \ {c} : queue'[d] = queue[d]
        /\ evicted' = evicted \cup (Items(queue[c]) \ Items(kept))
        /\ UNCHANGED <<chan, taken, lost>>
    BY <1>8, <2>1 DEF LTrim, TypeOK
  <2>3. Items(kept) \subseteq Items(queue[c]) /\ Distinct(kept)
    BY <1>1, <2>1, TrimmedFacts DEF QueuedOnce
  <2>4. \A v \in Workers : (InHand(v)' <=> InHand(v)) /\ (InHand(v) => cur'[v] = cur[v])
    BY <1>8 DEF LTrim, InHand, TypeOK
  <2> HIDE DEF kept
  <2>5. AllSpent'
    BY <1>1, <1>2, <1>3, <1>5, <2>1, <2>2, <2>3, <2>4 DEF AllSpent
  <2>6. \A d \in Channels \ {c} : Items(queue[d]) \cap Items(queue[c]) = {}
    BY <2>1 DEF AllSpent
  <2>7. QueuedOnce'
    <3>1. \A d \in Channels : Distinct(queue'[d])
      BY <2>2, <2>3 DEF QueuedOnce
    <3>2. \A d \in Channels : Items(queue'[d]) \cap (taken' \cup evicted') = {}
      BY <2>1, <2>2, <2>3, <2>6 DEF QueuedOnce
    <3>3. \A v \in Workers : InHand(v) => cur[v] \notin Items(queue[c])
      BY <1>2, <1>4, <2>1 DEF QueuedOnce, AllSpent
    <3>4. \A v \in Workers : InHand(v)' =>
            cur'[v] \notin Items(queue'[chan'[v]]) \cup taken' \cup evicted' \cup lost'
      BY <1>4, <2>1, <2>2, <2>3, <2>4, <3>3 DEF QueuedOnce
    <3>5. \A u, v \in Workers : InHand(u)' /\ InHand(v)' /\ cur'[u] = cur'[v] => u = v
      BY <2>4 DEF QueuedOnce
    <3> QED BY <3>1, <3>2, <3>4, <3>5 DEF QueuedOnce
  <2> QED BY <2>5, <2>7
<1>9. ASSUME NEW w \in Workers, Crash(w) PROVE AllSpent' /\ QueuedOnce'
  <2>1. /\ UNCHANGED <<queue, taken, evicted>>
        /\ lost' = IF InHand(w) THEN lost \cup {cur[w]} ELSE lost
        /\ ~InHand(w)'
        /\ \A v \in Workers \ {w} : cur'[v] = cur[v] /\ chan'[v] = chan[v] /\ (InHand(v)' <=> InHand(v))
    BY <1>9 DEF Crash, InHand, redis, TypeOK
  <2>2. AllSpent'
    BY <1>1, <1>2, <1>3, <1>5, <2>1 DEF AllSpent
  <2>3. QueuedOnce'
    BY <2>1 DEF QueuedOnce
  <2> QED BY <2>2, <2>3
<1>10. ASSUME NEW c \in Channels, Pop(c) PROVE AllSpent' /\ QueuedOnce'
  <2>1. /\ queue'[c] = Popped(queue[c])
        /\ \A d \in Channels \ {c} : queue'[d] = queue[d]
        /\ taken' = taken \cup {Head(queue[c])}
        /\ UNCHANGED <<cur, chan, pc, evicted, lost>>
    BY <1>10 DEF Pop, local, TypeOK
  <2>2. /\ Items(queue[c]) = Items(queue'[c]) \cup {Head(queue[c])}
        /\ Distinct(queue'[c])
        /\ Head(queue[c]) \notin Items(queue'[c])
    BY <1>1, <1>10, <2>1, PoppedFacts DEF Pop, QueuedOnce
  <2>3. \A v \in Workers : InHand(v)' <=> InHand(v)
    BY <2>1 DEF InHand
  <2>4. AllSpent'
    BY <1>1, <1>2, <1>3, <1>5, <2>1, <2>2, <2>3 DEF AllSpent
  <2>5. QueuedOnce'
    BY <1>2, <1>4, <2>1, <2>2, <2>3 DEF QueuedOnce, AllSpent
  <2> QED BY <2>4, <2>5
<1>11. ASSUME UNCHANGED <<queue, taken, evicted, lost>>,
              \A w \in Workers : InHand(w)' => InHand(w) /\ cur'[w] = cur[w] /\ chan'[w] = chan[w]
       PROVE  AllSpent' /\ QueuedOnce'
  BY <1>11, QuietStep
<1>12. ASSUME NEW w \in Workers,
              Start(w) \/ PollRaw(w) \/ PollAudio(w) \/ EndCycle(w) \/ Expire(w) \/ Insert(w)
                \/ Sigterm(w) \/ Exit(w)
       PROVE  AllSpent' /\ QueuedOnce'
  <2>1. UNCHANGED <<queue, taken, evicted, lost>>
    BY <1>12
    DEF Start, PollRaw, PollAudio, EndCycle, Expire, Insert, Sigterm, Exit, redis, history
  <2>2. \A v \in Workers : InHand(v)' => InHand(v) /\ cur'[v] = cur[v] /\ chan'[v] = chan[v]
    BY <1>12
    DEF Start, PollRaw, PollAudio, EndCycle, Expire, Insert, Sigterm, Exit, InHand, TypeOK
  <2> QED BY <1>11, <2>1, <2>2
<1>13. ASSUME NEW c \in Channels, SeenExpires(c) PROVE AllSpent' /\ QueuedOnce'
  BY <1>11, <1>13 DEF SeenExpires, local, InHand
<1>14. CASE UNCHANGED vars
  BY <1>11, <1>14 DEF vars, redis, local, history, InHand
<1> QED
  BY <1>6, <1>7, <1>8, <1>9, <1>10, <1>12, <1>13, <1>14 DEF Next, WorkerNext

\* However many processes push, crash and restart while the seen sets expire,
\* each admission is queued at most once.
THEOREM QueuedOnceCorrect == Spec => []QueuedOnce
<1>1. Init => OnceInv
  BY InitTyped, InitOnce DEF OnceInv
<1>2. OnceInv /\ [Next]_vars => OnceInv'
  BY StepOnce
<1>3. OnceInv => QueuedOnce
  BY DEF OnceInv
<1> QED BY <1>1, <1>2, <1>3, PTL DEF Spec
-----------------------------------------------------------------------------
(* No admission gets lost but by a crash.                                   *)

\* Where the admission of a seen key can be.
Somewhere(t) ==
  \/ t \in Items(queue[t.chan]) \cup taken \cup evicted \cup lost
  \/ \E w \in Workers : InHand(w) /\ cur[w] = t

Admission(c, k) == [chan |-> c, key |-> k, window |-> window[c]]

LEMMA AccountedByAdmission ==
  SeenIsAccountedFor <=> \A c \in Channels : \A k \in seen[c] : Somewhere(Admission(c, k))
BY DEF SeenIsAccountedFor, Somewhere, Admission

\* Whatever step is taken, an admission that is somewhere stays somewhere.
LEMMA SomewhereStays ==
  ASSUME TypeOK, HandOK, [Next]_vars, NEW t, t.chan \in Channels, Somewhere(t)
  PROVE  Somewhere(t)'
<1>1. \A c \in Channels : queue[c] \in Seq(Ticket)
  BY DEF TypeOK
<1>2. \A w \in Workers : InHand(w) => cur[w].chan = chan[w] /\ cur[w] \in Ticket /\ chan[w] \in Channels
  BY DEF HandOK, InHand, TypeOK
<1>3. ASSUME UNCHANGED <<queue, taken, evicted, lost>>,
             \A w \in Workers : InHand(w) => InHand(w)' /\ cur'[w] = cur[w]
      PROVE  Somewhere(t)'
  BY <1>3 DEF Somewhere
<1>4. ASSUME NEW w \in Workers, SAdd(w) PROVE Somewhere(t)'
  <2>1. UNCHANGED <<queue, taken, evicted, lost>>
    BY <1>4 DEF SAdd, history
  <2>2. ~InHand(w) /\ \A v \in Workers \ {w} : InHand(v) => InHand(v)' /\ cur'[v] = cur[v]
    BY <1>4 DEF SAdd, InHand, TypeOK
  <2> QED BY <1>3, <2>1, <2>2
<1>5. ASSUME NEW w \in Workers, RPush(w) PROVE Somewhere(t)'
  <2>1. InHand(w) /\ UNCHANGED <<cur, taken, evicted, lost>>
    BY <1>5 DEF RPush, InHand, history
  <2>2. /\ queue'[chan[w]] = RPushed(queue[chan[w]], cur[w])
        /\ \A d \in Channels \ {chan[w]} : queue'[d] = queue[d]
    BY <1>2, <1>5, <2>1 DEF RPush, TypeOK
  <2>3. \A x : x \in Items(queue'[chan[w]]) <=> x \in Items(queue[chan[w]]) \/ x = cur[w]
    BY <1>1, <1>2, <2>1, <2>2, RPushedFacts
  <2>4. \A v \in Workers \ {w} : InHand(v) => InHand(v)'
    BY <1>5 DEF RPush, InHand, TypeOK
  <2> QED BY <1>2, <2>1, <2>2, <2>3, <2>4 DEF Somewhere
<1>6. ASSUME NEW w \in Workers, LTrim(w) PROVE Somewhere(t)'
  <2> DEFINE kept == Trimmed(queue[chan[w]], MaxQueue(chan[w]))
  <2>1. /\ queue'[chan[w]] = kept
        /\ \A d \in Channels \ {chan[w]} : queue'[d] = queue[d]
        /\ evicted' = evicted \cup (Items(queue[chan[w]]) \ Items(kept))
        /\ UNCHANGED <<taken, lost>>
    BY <1>6 DEF LTrim, TypeOK
  <2>2. \A v \in Workers : InHand(v) => InHand(v)' /\ cur'[v] = cur[v]
    BY <1>6 DEF LTrim, InHand, TypeOK
  <2> HIDE DEF kept
  <2> QED BY <2>1, <2>2 DEF Somewhere
<1>7. ASSUME NEW w \in Workers, Crash(w) PROVE Somewhere(t)'
  <2>1. /\ UNCHANGED <<queue, taken, evicted>>
        /\ lost' = IF InHand(w) THEN lost \cup {cur[w]} ELSE lost
        /\ \A v \in Workers \ {w} : cur'[v] = cur[v] /\ (InHand(v) => InHand(v)')
    BY <1>7 DEF Crash, InHand, redis, TypeOK
  <2> QED BY <2>1 DEF Somewhere
<1>8. ASSUME NEW c \in Channels, Pop(c) PROVE Somewhere(t)'
  <2>1. /\ queue'[c] = Popped(queue[c])
        /\ \A d \in Channels \ {c} : queue'[d] = queue[d]
        /\ taken' = taken \cup {Head(queue[c])}
        /\ UNCHANGED <<cur, pc, evicted, lost>>
    BY <1>8 DEF Pop, local, TypeOK
  <2>2. Items(queue[c]) = Items(queue'[c]) \cup {Head(queue[c])}
    BY <1>1, <1>8, <2>1, PoppedFacts DEF Pop
  <2> QED BY <2>1, <2>2 DEF Somewhere, InHand
<1>9. ASSUME NEW w \in Workers,
             Start(w) \/ PollRaw(w) \/ PollAudio(w) \/ EndCycle(w) \/ Expire(w) \/ Insert(w)
               \/ Sigterm(w) \/ Exit(w)
      PROVE  Somewhere(t)'
  <2>1. UNCHANGED <<queue, taken, evicted, lost>>
    BY <1>9
    DEF Start, PollRaw, PollAudio, EndCycle, Expire, Insert, Sigterm, Exit, redis, history
  <2>2. \A v \in Workers : InHand(v) => InHand(v)' /\ cur'[v] = cur[v]
    BY <1>9
    DEF Start, PollRaw, PollAudio, EndCycle, Expire, Insert, Sigterm, Exit, InHand, TypeOK
  <2> QED BY <1>3, <2>1, <2>2
<1>10. ASSUME NEW c \in Channels, SeenExpires(c) PROVE Somewhere(t)'
  BY <1>3, <1>10 DEF SeenExpires, local, InHand
<1>11. CASE UNCHANGED vars
  BY <1>3, <1>11 DEF vars, redis, local, history, InHand
<1> QED
  BY <1>4, <1>5, <1>6, <1>7, <1>8, <1>9, <1>10, <1>11 DEF Next, WorkerNext

\* The keys of a seen set after a step were there before it, or SADD has just
\* put the key there and holds its admission, or the window is a new one.
LEMMA StepAccounted ==
  TypeOK /\ HandOK /\ SeenIsAccountedFor /\ [Next]_vars => SeenIsAccountedFor'
<1> SUFFICES ASSUME TypeOK, HandOK, SeenIsAccountedFor, [Next]_vars,
                    NEW c \in Channels, NEW k \in seen'[c]
             PROVE  Somewhere(Admission(c, k))'
  BY DEF SeenIsAccountedFor, Somewhere, Admission
<1>1. ASSUME k \in seen[c], window'[c] = window[c] PROVE Somewhere(Admission(c, k))'
  <2>1. PICK t : t = Admission(c, k)
    OBVIOUS
  <2>2. t.chan = c /\ Somewhere(t) /\ t = Admission(c, k)'
    BY <1>1, <2>1, AccountedByAdmission DEF Admission
  <2>3. Somewhere(t)'
    BY <2>2, SomewhereStays
  <2> QED BY <2>2, <2>3 DEF Somewhere
<1>2. ASSUME NEW w \in Workers, SAdd(w) PROVE Somewhere(Admission(c, k))'
  <2>1. UNCHANGED window
    BY <1>2 DEF SAdd, history
  <2>2. CASE UNCHANGED <<seen, pc, cur>>
    BY <1>1, <2>1, <2>2
  <2>3. ASSUME NEW j \in Keys, NEW t \in Ticket,
               t = [chan |-> chan[w], key |-> j, window |-> window[chan[w]]],
               seen' = [seen EXCEPT ![chan[w]] = @ \cup {j}],
               cur' = [cur EXCEPT ![w] = t],
               pc' = [pc EXCEPT ![w] = "expire"]
        PROVE  Somewhere(Admission(c, k))'
    <3>1. CASE k \in seen[c]
      BY <1>1, <2>1, <3>1
    <3>2. CASE k \notin seen[c]
      <4>1. c = chan[w] /\ k = j
        BY <2>3, <3>2 DEF TypeOK
      <4>2. Admission(c, k)' = t
        BY <2>1, <2>3, <4>1 DEF Admission
      <4>3. InHand(w)' /\ cur'[w] = t
        BY <2>3 DEF InHand, TypeOK
      <4> QED BY <4>2, <4>3 DEF Somewhere
    <3> QED BY <3>1, <3>2
  <2> QED BY <1>2, <2>2, <2>3, SAddCases
<1>3. ASSUME NEW d \in Channels, SeenExpires(d) PROVE Somewhere(Admission(c, k))'
  <2>1. c # d
    BY <1>3 DEF SeenExpires, TypeOK
  <2> QED BY <1>1, <1>3, <2>1 DEF SeenExpires, TypeOK
<1>4. CASE UNCHANGED <<seen, window>>
  BY <1>1, <1>4
<1> QED
  BY <1>2, <1>3, <1>4
  DEF Next, WorkerNext, Start, PollRaw, PollAudio, EndCycle, Expire, RPush, LTrim, Insert,
      Sigterm, Exit, Crash, Pop, vars, redis, history

\* A capture whose key is in the seen set was queued, is being queued, or was
\* dropped by a crash: nothing else makes ingest forget a capture it admitted.
THEOREM SeenIsAccountedForCorrect == Spec => []SeenIsAccountedFor
<1>1. Init => TypeOK /\ HandOK /\ SeenIsAccountedFor
  <2>1. Init => SeenIsAccountedFor
    BY DEF Init, SeenIsAccountedFor
  <2> QED BY <2>1, InitTyped
<1>2. TypeOK /\ HandOK /\ SeenIsAccountedFor /\ [Next]_vars
        => TypeOK' /\ HandOK' /\ SeenIsAccountedFor'
  BY StepTyped, StepAccounted
<1> QED BY <1>1, <1>2, PTL DEF Spec
-----------------------------------------------------------------------------
(* The service implements OnceDelivery.                                     *)

Queued == Items(queue["raw"]) \cup Items(queue["audio"])
GoneFor == taken \cup evicted \cup lost
Admitted == Held \cup Queued \cup GoneFor
Admissible == [chan : Channels, key : Keys, window : 0 .. MaxWindow]

WindowsBounded == \A c \in Channels : window[c] <= MaxWindow

LEMMA WindowsStayBounded ==
  TypeOK /\ WindowsBounded /\ [Next]_vars => WindowsBounded'
<1> SUFFICES ASSUME TypeOK, WindowsBounded, [Next]_vars PROVE WindowsBounded'
  OBVIOUS
<1>1. ASSUME NEW c \in Channels, SeenExpires(c) PROVE WindowsBounded'
  BY <1>1, BoundAssumption DEF SeenExpires, WindowsBounded, TypeOK
<1>2. CASE UNCHANGED window
  BY <1>2 DEF WindowsBounded
<1> QED
  BY <1>1, <1>2
  DEF Next, WorkerNext, Start, PollRaw, PollAudio, EndCycle, SAdd, Expire, RPush, LTrim, Insert,
      Sigterm, Exit, Crash, Pop, vars, history

\* Everything admitted so far is spent.
LEMMA AdmittedIsSpent == OnceInv => \A t \in Admitted : t \in Ticket /\ Spent(t)
<1> SUFFICES ASSUME OnceInv, NEW t \in Admitted PROVE t \in Ticket /\ Spent(t)
  OBVIOUS
<1>1. \A c \in Channels : queue[c] \in Seq(Ticket) /\ Items(queue[c]) \subseteq Ticket
  BY ItemsTyped DEF OnceInv, TypeOK
<1>2. \A w \in Workers : InHand(w) => cur[w] \in Ticket
  BY DEF OnceInv, HandOK, InHand
<1> QED
  BY <1>1, <1>2 DEF OnceInv, AllSpent, TypeOK, Admitted, Queued, GoneFor, Held, Channels

\* An admission SADD makes is none of those made so far, and the bound on
\* expiries makes it one of the admissions OnceDelivery knows.
LEMMA NewAdmission ==
  ASSUME OnceInv, WindowsBounded, NEW w \in Workers, NEW t \in Ticket, t.chan = chan[w],
         t.window = window[chan[w]], t.key \notin seen[chan[w]]
  PROVE  t \in Admissible /\ t \notin Admitted
<1>1. chan[w] \in Channels /\ window[chan[w]] \in 0 .. MaxWindow
  BY BoundAssumption DEF OnceInv, TypeOK, WindowsBounded
<1>2. ~Spent(t)
  BY <1>1 DEF Spent
<1>3. t \in Admissible
  BY <1>1 DEF Ticket, Admissible
<1> QED BY <1>2, <1>3, AdmittedIsSpent

\* The admissions in hand after a step of one process.
LEMMA HeldMinus ==
  ASSUME OnceInv, NEW w \in Workers, InHand(w), ~InHand(w)',
         \A v \in Workers \ {w} : cur'[v] = cur[v] /\ (InHand(v)' <=> InHand(v))
  PROVE  cur[w] \in Held /\ Held' = Held \ {cur[w]}
BY DEF OnceInv, QueuedOnce, Held

LEMMA HeldSame ==
  ASSUME \A w \in Workers : (InHand(w)' <=> InHand(w)) /\ (InHand(w) => cur'[w] = cur[w])
  PROVE  Held' = Held
BY DEF Held

LEMMA QueuedByChannel ==
  ASSUME NEW c \in Channels
  PROVE  \E d \in Channels \ {c} : Channels = {c, d} /\ Queued = Items(queue[c]) \cup Items(queue[d])
                                   /\ Queued' = Items(queue'[c]) \cup Items(queue'[d])
<1>1. CASE c = "raw"
  BY <1>1 DEF Channels, Queued
<1>2. CASE c = "audio"
  BY <1>2 DEF Channels, Queued
<1> QED BY <1>1, <1>2 DEF Channels

\* A step of the service as OnceDelivery sees it.
AdmitStep(t) == t \in Admissible /\ t \notin Admitted /\ Held' = Held \cup {t}
                /\ Queued' = Queued /\ GoneFor' = GoneFor
EnqueueStep(t) == t \in Held /\ Held' = Held \ {t} /\ Queued' = Queued \cup {t} /\ GoneFor' = GoneFor
LeaveStep(A) == A # {} /\ A \subseteq Queued /\ Queued' = Queued \ A /\ GoneFor' = GoneFor \cup A /\ Held' = Held
LoseStep(t) == t \in Held /\ Held' = Held \ {t} /\ GoneFor' = GoneFor \cup {t} /\ Queued' = Queued
NoStep == Held' = Held /\ Queued' = Queued /\ GoneFor' = GoneFor

AbstractStep ==
  \/ \E t \in Admissible : AdmitStep(t) \/ EnqueueStep(t) \/ LoseStep(t)
  \/ \E A \in SUBSET Queued : LeaveStep(A)
  \/ NoStep

LEMMA HeldAdmissible == OnceInv /\ WindowsBounded => Held \subseteq Admissible
<1> SUFFICES ASSUME OnceInv, WindowsBounded, NEW t \in Held PROVE t \in Admissible
  OBVIOUS
<1>1. t \in Ticket /\ Spent(t)
  BY AdmittedIsSpent DEF Admitted
<1>2. t.chan \in Channels /\ t.window \in Nat /\ window[t.chan] \in Nat /\ window[t.chan] <= MaxWindow
  BY <1>1 DEF Ticket, OnceInv, TypeOK, WindowsBounded
<1>3. t.window \in 0 .. MaxWindow
  BY <1>1, <1>2, BoundAssumption DEF Spent
<1> QED BY <1>1, <1>3 DEF Ticket, Admissible

LEMMA StepIsAbstract == OnceInv /\ WindowsBounded /\ [Next]_vars => AbstractStep
<1> SUFFICES ASSUME OnceInv, WindowsBounded, [Next]_vars PROVE AbstractStep
  OBVIOUS
<1>1. \A c \in Channels : queue[c] \in Seq(Ticket) /\ Items(queue[c]) \subseteq Ticket
  BY ItemsTyped DEF OnceInv, TypeOK
<1>2. \A w \in Workers : chan[w] \in Channels /\ (InHand(w) => cur[w] \in Ticket)
  BY DEF OnceInv, TypeOK, HandOK, InHand
<1>3. ASSUME UNCHANGED <<queue, taken, evicted, lost>>,
             \A w \in Workers : (InHand(w)' <=> InHand(w)) /\ (InHand(w) => cur'[w] = cur[w])
      PROVE  AbstractStep
  BY <1>3, HeldSame DEF AbstractStep, NoStep, Queued, GoneFor
<1>4. ASSUME NEW w \in Workers, SAdd(w) PROVE AbstractStep
  <2>1. UNCHANGED <<queue, taken, evicted, lost, window, chan>>
    BY <1>4 DEF SAdd, history
  <2>2. CASE UNCHANGED <<seen, pc, cur>>
    BY <1>3, <2>1, <2>2 DEF InHand
  <2>3. ASSUME NEW k \in Keys, NEW t \in Ticket,
               t = [chan |-> chan[w], key |-> k, window |-> window[chan[w]]],
               k \notin seen[chan[w]],
               cur' = [cur EXCEPT ![w] = t],
               pc' = [pc EXCEPT ![w] = "expire"]
        PROVE  AbstractStep
    <3>1. t \in Admissible /\ t \notin Admitted
      BY <2>3, NewAdmission
    <3>2. ~InHand(w) /\ InHand(w)' /\ cur'[w] = t
      BY <1>4, <2>3 DEF SAdd, InHand, OnceInv, TypeOK
    <3>3. \A v \in Workers \ {w} : cur'[v] = cur[v] /\ (InHand(v)' <=> InHand(v))
      BY <2>3 DEF InHand, OnceInv, TypeOK
    <3>4. Held' = Held \cup {t}
      BY <3>2, <3>3 DEF Held
    <3>5. AdmitStep(t)
      BY <2>1, <3>1, <3>4 DEF AdmitStep, Queued, GoneFor
    <3> QED BY <3>1, <3>5 DEF AbstractStep
  <2> QED BY <1>4, <2>2, <2>3, SAddCases DEF OnceInv
<1>5. ASSUME NEW w \in Workers, RPush(w) PROVE AbstractStep
  <2> DEFINE c == chan[w]
  <2>1. InHand(w) /\ c \in Channels /\ cur[w] \in Ticket
    BY <1>2, <1>5 DEF RPush, InHand
  <2>2. /\ queue'[c] = RPushed(queue[c], cur[w])
        /\ \A d \in Channels \ {c} : queue'[d] = queue[d]
        /\ UNCHANGED <<cur, taken, evicted, lost>>
    BY <1>5, <2>1 DEF RPush, history, OnceInv, TypeOK
  <2>3. ~InHand(w)' /\ \A v \in Workers \ {w} : InHand(v)' <=> InHand(v)
    BY <1>5 DEF RPush, InHand, OnceInv, TypeOK
  <2>4. cur[w] \in Held /\ Held' = Held \ {cur[w]}
    BY <2>1, <2>2, <2>3, HeldMinus
  <2>5. \A x : x \in Items(queue'[c]) <=> x \in Items(queue[c]) \/ x = cur[w]
    <3>1. queue[c] \in Seq(Ticket)
      BY <1>1, <2>1
    <3> HIDE DEF c
    <3> QED BY <2>1, <2>2, <3>1, RPushedFacts
  <2> HIDE DEF c
  <2>6. Queued' = Queued \cup {cur[w]}
    <3>1. PICK d \in Channels \ {c} : /\ Queued = Items(queue[c]) \cup Items(queue[d])
                                      /\ Queued' = Items(queue'[c]) \cup Items(queue'[d])
      BY <2>1, QueuedByChannel
    <3> QED BY <3>1, <2>2, <2>5
  <2>7. EnqueueStep(cur[w])
    BY <2>2, <2>4, <2>6 DEF EnqueueStep, GoneFor
  <2> QED BY <2>4, <2>7, HeldAdmissible DEF AbstractStep
<1>6. ASSUME NEW w \in Workers, LTrim(w) PROVE AbstractStep
  <2> DEFINE c == chan[w]
             kept == Trimmed(queue[c], MaxQueue(c))
             A == Items(queue[c]) \ Items(kept)
  <2>1. c \in Channels /\ MaxQueue(c) \in Nat \ {0}
    BY <1>2, MaxQueueTyped
  <2>2. /\ queue'[c] = kept
        /\ \A d \in Channels \ {c} : queue'[d] = queue[d]
        /\ evicted' = evicted \cup A
        /\ UNCHANGED <<taken, lost>>
    BY <1>6, <2>1 DEF LTrim, OnceInv, TypeOK
  <2>3. Items(kept) \subseteq Items(queue[c])
    BY <1>1, <2>1, TrimmedFacts
  <2>4. \A v \in Workers : (InHand(v)' <=> InHand(v)) /\ (InHand(v) => cur'[v] = cur[v])
    BY <1>6 DEF LTrim, InHand, OnceInv, TypeOK
  <2>5. Held' = Held
    BY <2>4, HeldSame
  <2> HIDE DEF kept
  <2>6. A \subseteq Queued /\ Queued' = Queued \ A
    <3>1. PICK d \in Channels \ {c} : /\ Queued = Items(queue[c]) \cup Items(queue[d])
                                      /\ Queued' = Items(queue'[c]) \cup Items(queue'[d])
      BY <2>1, QueuedByChannel
    <3>2. Items(queue[c]) \cap Items(queue[d]) = {}
      BY <2>1 DEF OnceInv, AllSpent
    <3> QED BY <3>1, <3>2, <2>2, <2>3
  <2>7. GoneFor' = GoneFor \cup A
    BY <2>2 DEF GoneFor
  <2> HIDE DEF A
  <2>8. CASE A = {}
    BY <2>5, <2>6, <2>7, <2>8 DEF AbstractStep, NoStep
  <2>9. CASE A # {}
    BY <2>5, <2>6, <2>7, <2>9 DEF AbstractStep, LeaveStep
  <2> QED BY <2>8, <2>9
<1>7. ASSUME NEW w \in Workers, Crash(w) PROVE AbstractStep
  <2>1. /\ UNCHANGED <<queue, taken, evicted>>
        /\ lost' = IF InHand(w) THEN lost \cup {cur[w]} ELSE lost
        /\ ~InHand(w)'
        /\ \A v \in Workers \ {w} : cur'[v] = cur[v] /\ (InHand(v)' <=> InHand(v))
    BY <1>7 DEF Crash, InHand, redis, OnceInv, TypeOK
  <2>2. CASE InHand(w)
    <3>1. cur[w] \in Held /\ Held' = Held \ {cur[w]}
      BY <2>1, <2>2, HeldMinus
    <3>2. LoseStep(cur[w])
      BY <2>1, <2>2, <3>1 DEF LoseStep, Queued, GoneFor
    <3> QED BY <3>1, <3>2, HeldAdmissible DEF AbstractStep
  <2>3. CASE ~InHand(w)
    BY <1>3, <2>1, <2>3
  <2> QED BY <2>2, <2>3
<1>8. ASSUME NEW c \in Channels, Pop(c) PROVE AbstractStep
  <2>1. /\ queue'[c] = Popped(queue[c])
        /\ \A d \in Channels \ {c} : queue'[d] = queue[d]
        /\ taken' = taken \cup {Head(queue[c])}
        /\ UNCHANGED <<cur, pc, evicted, lost>>
    BY <1>8 DEF Pop, local, OnceInv, TypeOK
  <2>2. /\ Items(queue[c]) = Items(queue'[c]) \cup {Head(queue[c])}
        /\ Head(queue[c]) \notin Items(queue'[c])
    BY <1>1, <1>8, <2>1, PoppedFacts DEF Pop, OnceInv, QueuedOnce
  <2>3. Held' = Held
    BY <2>1, HeldSame DEF InHand
  <2>4. PICK d \in Channels \ {c} : /\ Queued = Items(queue[c]) \cup Items(queue[d])
                                    /\ Queued' = Items(queue'[c]) \cup Items(queue'[d])
    BY QueuedByChannel
  <2>5. Items(queue[c]) \cap Items(queue[d]) = {}
    BY DEF OnceInv, AllSpent
  <2>6. LeaveStep({Head(queue[c])})
    BY <2>1, <2>2, <2>3, <2>4, <2>5 DEF LeaveStep, GoneFor
  <2>7. {Head(queue[c])} \in SUBSET Queued
    BY <2>2, <2>4
  <2> QED BY <2>6, <2>7 DEF AbstractStep
<1>9. ASSUME NEW w \in Workers,
             Start(w) \/ PollRaw(w) \/ PollAudio(w) \/ EndCycle(w) \/ Expire(w) \/ Insert(w)
               \/ Sigterm(w) \/ Exit(w)
      PROVE  AbstractStep
  <2>1. UNCHANGED <<queue, taken, evicted, lost>>
    BY <1>9
    DEF Start, PollRaw, PollAudio, EndCycle, Expire, Insert, Sigterm, Exit, redis, history
  <2>2. \A v \in Workers : (InHand(v)' <=> InHand(v)) /\ (InHand(v) => cur'[v] = cur[v])
    BY <1>9
    DEF Start, PollRaw, PollAudio, EndCycle, Expire, Insert, Sigterm, Exit, InHand, OnceInv, TypeOK
  <2> QED BY <1>3, <2>1, <2>2
<1>10. ASSUME NEW c \in Channels, SeenExpires(c) PROVE AbstractStep
  BY <1>3, <1>10 DEF SeenExpires, local, InHand
<1>11. CASE UNCHANGED vars
  BY <1>3, <1>11 DEF vars, redis, local, history, InHand
<1> QED
  BY <1>4, <1>5, <1>6, <1>7, <1>8, <1>9, <1>10, <1>11 DEF Next, WorkerNext

\* Every behaviour of the service is one of OnceDelivery: whatever processes,
\* expiries and crashes do, consumers see a queue that delivers each admission
\* at most once.
THEOREM ImplementsOnceDelivery == Spec => DeliversOnce
<1>1. Init => OnceInv /\ WindowsBounded
  BY InitTyped, InitOnce, BoundAssumption DEF OnceInv, WindowsBounded, Init
<1>2. OnceInv /\ WindowsBounded /\ [Next]_vars => OnceInv' /\ WindowsBounded'
  BY StepOnce, WindowsStayBounded DEF OnceInv
<1>3. Init => Once!Init
  <2> SUFFICES ASSUME Init PROVE Once!Init
    OBVIOUS
  <2>1. \A c \in Channels : Items(queue[c]) = {}
    BY DEF Init, Items
  <2> QED BY <2>1 DEF Init, Once!Init, Held, InHand, Channels
<1>4. AbstractStep => [Once!Next]_Once!vars
  <2>1. ASSUME NEW t \in Admissible, AdmitStep(t) \/ EnqueueStep(t) \/ LoseStep(t)
        PROVE  Once!Next
    BY <2>1
    DEF Once!Next, Once!Admit, Once!Enqueue, Once!Lose, AdmitStep, EnqueueStep, LoseStep,
        Queued, GoneFor, Admitted, Admissible
  <2>2. ASSUME NEW A \in SUBSET Queued, LeaveStep(A)
        PROVE  Once!Next
    BY <2>2 DEF Once!Next, Once!Leave, LeaveStep, Queued, GoneFor
  <2>3. CASE NoStep
    BY <2>3 DEF NoStep, Once!vars, Queued, GoneFor
  <2> QED BY <2>1, <2>2, <2>3 DEF AbstractStep
<1> QED
  BY <1>1, <1>2, <1>3, <1>4, StepIsAbstract, PTL DEF Spec, DeliversOnce, Once!Spec
-----------------------------------------------------------------------------
(* The archive only has what was queued before.                             *)

WasQueued(t) == t \in Items(queue[t.chan]) \cup taken \cup evicted

\* What a process pushed and has not finished with was queued.
PushedWasQueued ==
  \A w \in Workers :
    /\ pc[w] \in {"ltrim", "insert"} => WasQueued(cur[w])
    /\ pc[w] = "insert" => chan[w] = "raw"

ArchInv == OnceInv /\ PushedWasQueued /\ ArchivedWasQueued

\* The admissions a list ever had.
LEMMA WasQueuedStays ==
  ASSUME OnceInv, [Next]_vars, NEW t \in Ticket, WasQueued(t)
  PROVE  WasQueued(t)'
<1>1. \A c \in Channels : queue[c] \in Seq(Ticket)
  BY DEF OnceInv, TypeOK
<1>2. t.chan \in Channels
  BY DEF Ticket
<1>3. ASSUME NEW w \in Workers, RPush(w) PROVE WasQueued(t)'
  <2>1. UNCHANGED <<taken, evicted>> /\ cur[w] \in Ticket /\ chan[w] \in Channels
    BY <1>3 DEF RPush, history, OnceInv, HandOK, TypeOK
  <2>2. /\ queue'[chan[w]] = RPushed(queue[chan[w]], cur[w])
        /\ \A d \in Channels \ {chan[w]} : queue'[d] = queue[d]
    BY <1>3, <2>1 DEF RPush, OnceInv, TypeOK
  <2>3. \A x : x \in Items(queue'[chan[w]]) <=> x \in Items(queue[chan[w]]) \/ x = cur[w]
    BY <1>1, <2>1, <2>2, RPushedFacts
  <2> QED BY <1>2, <2>1, <2>2, <2>3 DEF WasQueued
<1>4. ASSUME NEW w \in Workers, LTrim(w) PROVE WasQueued(t)'
  <2> DEFINE kept == Trimmed(queue[chan[w]], MaxQueue(chan[w]))
  <2>1. /\ queue'[chan[w]] = kept
        /\ \A d \in Channels \ {chan[w]} : queue'[d] = queue[d]
        /\ evicted' = evicted \cup (Items(queue[chan[w]]) \ Items(kept))
        /\ UNCHANGED taken
    BY <1>4 DEF LTrim, OnceInv, TypeOK
  <2> HIDE DEF kept
  <2> QED BY <1>2, <2>1 DEF WasQueued
<1>5. ASSUME NEW c \in Channels, Pop(c) PROVE WasQueued(t)'
  <2>1. /\ queue'[c] = Popped(queue[c])
        /\ \A d \in Channels \ {c} : queue'[d] = queue[d]
        /\ taken' = taken \cup {Head(queue[c])}
        /\ UNCHANGED evicted
    BY <1>5 DEF Pop, OnceInv, TypeOK
  <2>2. Items(queue[c]) = Items(queue'[c]) \cup {Head(queue[c])}
    BY <1>1, <1>5, <2>1, PoppedFacts DEF Pop
  <2> QED BY <1>2, <2>1, <2>2 DEF WasQueued
<1>6. CASE UNCHANGED <<queue, taken, evicted>>
  BY <1>6 DEF WasQueued
<1> QED
  BY <1>3, <1>4, <1>5, <1>6
  DEF Next, WorkerNext, Start, PollRaw, PollAudio, EndCycle, SAdd, Expire, Insert,
      Sigterm, Exit, Crash, SeenExpires, vars, redis, history

\* A row whose frame was queued.
QueuedRow(k) ==
  \E n \in 0 .. window["raw"] :
    [chan |-> "raw", key |-> k, window |-> n] \in Items(queue["raw"]) \cup taken \cup evicted

LEMMA QueuedRowStays ==
  ASSUME OnceInv, [Next]_vars, NEW k \in Keys, QueuedRow(k)
  PROVE  QueuedRow(k)'
<1>1. PICK n \in 0 .. window["raw"] :
        [chan |-> "raw", key |-> k, window |-> n] \in Items(queue["raw"]) \cup taken \cup evicted
  BY DEF QueuedRow
<1>2. PICK t \in Ticket : t = [chan |-> "raw", key |-> k, window |-> n]
  <2>1. n \in Nat
    BY DEF OnceInv, TypeOK, Channels
  <2> QED BY <2>1 DEF Ticket, Channels
<1>3. WasQueued(t)'
  BY <1>1, <1>2, WasQueuedStays DEF WasQueued
<1>4. window["raw"] \in Nat /\ window'["raw"] \in Nat
  BY StepTyped DEF OnceInv, TypeOK, Channels
<1>5. window["raw"] <= window'["raw"]
  <2>1. ASSUME NEW c \in Channels, SeenExpires(c) PROVE window["raw"] <= window'["raw"]
    BY <1>4, <2>1 DEF SeenExpires, OnceInv, TypeOK, Channels
  <2>2. CASE UNCHANGED window
    BY <1>4, <2>2
  <2> QED
    BY <2>1, <2>2
    DEF Next, WorkerNext, Start, PollRaw, PollAudio, EndCycle, SAdd, Expire, RPush, LTrim, Insert,
        Sigterm, Exit, Crash, Pop, vars, history
<1>6. n \in 0 .. window'["raw"]
  BY <1>4, <1>5
<1> QED BY <1>2, <1>3, <1>6 DEF WasQueued, QueuedRow

LEMMA StepPushedWasQueued ==
  ASSUME OnceInv, PushedWasQueued, [Next]_vars
  PROVE  PushedWasQueued'
<1>0. \A t \in Ticket : WasQueued(t) => WasQueued(t)'
  BY WasQueuedStays
<1>1. \A w \in Workers : \A t : pc[w] \in {"ltrim", "insert"} /\ t = cur[w] => WasQueued(t)'
  BY <1>0 DEF PushedWasQueued, OnceInv, HandOK
<1>2. ASSUME NEW w \in Workers, RPush(w) PROVE PushedWasQueued'
  <2>1. cur[w] \in Ticket /\ cur[w].chan = chan[w] /\ chan[w] \in Channels /\ queue[chan[w]] \in Seq(Ticket)
    BY <1>2 DEF RPush, OnceInv, HandOK, TypeOK
  <2>2. queue'[chan[w]] = RPushed(queue[chan[w]], cur[w]) /\ cur' = cur /\ chan' = chan
    BY <1>2, <2>1 DEF RPush, OnceInv, TypeOK
  <2>3. cur[w] \in Items(queue'[chan[w]])
    BY <2>1, <2>2, RPushedFacts
  <2>4. WasQueued(cur[w])'
    BY <2>1, <2>2, <2>3 DEF WasQueued
  <2>5. pc'[w] = "ltrim" /\ \A v \in Workers \ {w} : pc'[v] = pc[v]
    BY <1>2 DEF RPush, OnceInv, TypeOK
  <2> QED BY <1>1, <2>2, <2>4, <2>5 DEF PushedWasQueued, WasQueued
<1>3. ASSUME NEW w \in Workers, LTrim(w) PROVE PushedWasQueued'
  <2>1. pc[w] = "ltrim" /\ chan' = chan /\ \A v \in Workers \ {w} : pc'[v] = pc[v] /\ cur'[v] = cur[v]
    BY <1>3 DEF LTrim, OnceInv, TypeOK
  <2>2. (pc'[w] = "insert" /\ cur'[w] = cur[w] /\ chan[w] = "raw") \/ pc'[w] = "each"
    BY <1>3 DEF LTrim, OnceInv, TypeOK
  <2> QED BY <1>1, <2>1, <2>2 DEF PushedWasQueued, WasQueued
<1>4. ASSUME \A w \in Workers : pc'[w] \in {"ltrim", "insert"} =>
               pc[w] = pc'[w] /\ cur'[w] = cur[w] /\ chan'[w] = chan[w]
      PROVE  PushedWasQueued'
  BY <1>1, <1>4 DEF PushedWasQueued, WasQueued
<1>5. ASSUME NEW w \in Workers,
             Start(w) \/ PollRaw(w) \/ PollAudio(w) \/ EndCycle(w) \/ SAdd(w) \/ Expire(w) \/ Insert(w)
               \/ Sigterm(w) \/ Exit(w) \/ Crash(w)
      PROVE  PushedWasQueued'
  <2>1. \A v \in Workers : pc'[v] \in {"ltrim", "insert"} =>
               pc[v] = pc'[v] /\ cur'[v] = cur[v] /\ chan'[v] = chan[v]
    BY <1>5
    DEF Start, PollRaw, PollAudio, EndCycle, SAdd, Expire, Insert, Sigterm, Exit, Crash, OnceInv, TypeOK
  <2> QED BY <1>4, <2>1
<1>6. ASSUME UNCHANGED local PROVE PushedWasQueued'
  BY <1>4, <1>6 DEF local
<1> QED
  BY <1>2, <1>3, <1>5, <1>6 DEF Next, WorkerNext, SeenExpires, Pop, vars

\* A frame is queued before it is archived, in every interleaving: a row never
\* stands for a frame decode had no chance to get.
THEOREM ArchivedWasQueuedCorrect == Spec => []ArchivedWasQueued
<1>1. Init => ArchInv
  BY InitTyped, InitOnce DEF ArchInv, OnceInv, Init, PushedWasQueued, ArchivedWasQueued
<1>2. ArchInv /\ [Next]_vars => ArchInv'
  <2> SUFFICES ASSUME ArchInv, [Next]_vars PROVE ArchInv'
    OBVIOUS
  <2>1. OnceInv' /\ PushedWasQueued'
    BY StepOnce, StepPushedWasQueued DEF ArchInv
  <2>2. \A k \in archive : k \in Keys /\ QueuedRow(k)'
    BY QueuedRowStays DEF ArchInv, ArchivedWasQueued, QueuedRow, OnceInv, TypeOK
  <2>3. ASSUME NEW w \in Workers, Insert(w), archive' = archive \cup {cur[w].key}
        PROVE  \A k \in Keys : k = cur[w].key => QueuedRow(k)'
    <3> DEFINE t == cur[w]
    <3>1. t \in Ticket /\ t.chan = "raw" /\ WasQueued(t)
      BY <2>3 DEF Insert, ArchInv, OnceInv, HandOK, PushedWasQueued
    <3>2. t.window \in 0 .. window["raw"]
      <4>1. t \in Admitted
        BY <3>1 DEF WasQueued, Admitted, Queued, GoneFor
      <4>2. Spent(t)
        BY <4>1, AdmittedIsSpent DEF ArchInv
      <4> QED BY <3>1, <4>2 DEF Spent, Ticket, ArchInv, OnceInv, TypeOK
    <3>3. t = [chan |-> "raw", key |-> t.key, window |-> t.window] /\ t.key \in Keys
      BY <3>1 DEF Ticket
    <3>4. QueuedRow(t.key)
      BY <3>1, <3>2, <3>3 DEF QueuedRow, WasQueued
    <3> QED BY <3>3, <3>4, QueuedRowStays DEF ArchInv
  <2>4. archive' = archive \/ \E w \in Workers : Insert(w) /\ archive' = archive \cup {cur[w].key}
    BY DEF Next, WorkerNext, Start, PollRaw, PollAudio, EndCycle, SAdd, Expire, RPush, LTrim, Insert,
           Sigterm, Exit, Crash, SeenExpires, Pop, vars
  <2>5. \A k \in archive' : QueuedRow(k)'
    <3>1. ASSUME NEW w \in Workers, Insert(w), archive' = archive \cup {cur[w].key}
          PROVE  \A k \in archive' : QueuedRow(k)'
      <4>1. cur[w].key \in Keys
        BY <3>1 DEF Insert, ArchInv, OnceInv, HandOK, Ticket
      <4>2. \A k \in Keys : k = cur[w].key => QueuedRow(k)'
        BY <2>3, <3>1
      <4> QED BY <2>2, <3>1, <4>1, <4>2
    <3> QED BY <2>2, <2>4, <3>1
  <2>6. ArchivedWasQueued'
    BY <2>5 DEF ArchivedWasQueued, QueuedRow
  <2> QED BY <2>1, <2>6 DEF ArchInv
<1>3. ArchInv => ArchivedWasQueued
  BY DEF ArchInv
<1> QED BY <1>1, <1>2, <1>3, PTL DEF Spec
-----------------------------------------------------------------------------
(* A seen set without a time to live.                                       *)

\* The push that made the set holds an admission of this very life of it.
Owned(c) ==
  \/ \E w \in Workers : pc[w] = "expire" /\ chan[w] = c /\ cur[w].window = window[c]
  \/ \E t \in lost : t.chan = c /\ t.window = window[c]

Unarmed(c) == seen[c] # {} /\ ~armed[c]
EachUnarmedOwned == \A c \in Channels : Unarmed(c) => Owned(c)

LEMMA StepOwned == TypeOK /\ HandOK /\ EachUnarmedOwned /\ [Next]_vars => EachUnarmedOwned'
<1> SUFFICES ASSUME TypeOK, HandOK, EachUnarmedOwned, [Next]_vars, NEW c \in Channels, Unarmed(c)'
             PROVE  Owned(c)'
  BY DEF EachUnarmedOwned
<1>1. ASSUME NEW w \in Workers, SAdd(w) PROVE Owned(c)'
  <2>1. UNCHANGED <<armed, lost, window, chan>>
    BY <1>1 DEF SAdd, history
  <2>2. CASE UNCHANGED <<seen, pc, cur>>
    BY <2>1, <2>2 DEF EachUnarmedOwned, Unarmed, Owned
  <2>3. ASSUME NEW k \in Keys, NEW t \in Ticket,
               t = [chan |-> chan[w], key |-> k, window |-> window[chan[w]]],
               seen' = [seen EXCEPT ![chan[w]] = @ \cup {k}],
               cur' = [cur EXCEPT ![w] = t],
               pc' = [pc EXCEPT ![w] = "expire"]
        PROVE  Owned(c)'
    <3>1. pc'[w] = "expire" /\ cur'[w] = t
      BY <2>3 DEF TypeOK
    <3>2. CASE c = chan[w]
      BY <2>1, <2>3, <3>1, <3>2 DEF Owned
    <3>3. CASE c # chan[w]
      <4>1. Unarmed(c)
        BY <2>1, <2>3, <3>3 DEF Unarmed, TypeOK
      <4>2. pc[w] = "each" /\ \A v \in Workers \ {w} : pc'[v] = pc[v] /\ cur'[v] = cur[v]
        BY <1>1, <2>3 DEF SAdd, TypeOK
      <4> QED BY <2>1, <4>1, <4>2 DEF EachUnarmedOwned, Owned
    <3> QED BY <3>2, <3>3
  <2> QED BY <1>1, <2>2, <2>3, SAddCases
<1>2. ASSUME NEW w \in Workers, Expire(w) PROVE Owned(c)'
  <2>1. UNCHANGED <<seen, lost, window, chan, cur>>
    BY <1>2 DEF Expire, history
  <2>2. CASE c = chan[w]
    BY <1>2, <2>1, <2>2 DEF Expire, Arms, Unarmed, TypeOK
  <2>3. CASE c # chan[w]
    <3>1. Unarmed(c)
      BY <1>2, <2>1, <2>3 DEF Expire, Unarmed, TypeOK
    <3>2. \A v \in Workers \ {w} : pc'[v] = pc[v]
      BY <1>2 DEF Expire, TypeOK
    <3> QED BY <2>1, <2>3, <3>1, <3>2 DEF EachUnarmedOwned, Owned
  <2> QED BY <2>2, <2>3
<1>3. ASSUME NEW w \in Workers, Crash(w) PROVE Owned(c)'
  <2>1. UNCHANGED <<seen, armed, window>> /\ lost \subseteq lost'
    BY <1>3 DEF Crash, redis
  <2>2. pc[w] = "expire" => cur[w] \in lost' /\ cur[w].chan = chan[w]
    BY <1>3 DEF Crash, HandOK
  <2>3. \A v \in Workers \ {w} : pc'[v] = pc[v] /\ chan'[v] = chan[v] /\ cur'[v] = cur[v]
    BY <1>3 DEF Crash, TypeOK
  <2>4. Owned(c)
    BY <2>1 DEF EachUnarmedOwned, Unarmed
  <2> QED BY <2>1, <2>2, <2>3, <2>4 DEF Owned
<1>4. ASSUME NEW d \in Channels, SeenExpires(d) PROVE Owned(c)'
  <2>1. c # d
    BY <1>4 DEF SeenExpires, Unarmed, TypeOK
  <2>2. Unarmed(c) /\ window'[c] = window[c] /\ UNCHANGED <<pc, chan, cur, lost>>
    BY <1>4, <2>1 DEF SeenExpires, Unarmed, TypeOK, local
  <2> QED BY <2>2 DEF EachUnarmedOwned, Owned
<1>5. ASSUME UNCHANGED <<seen, armed, window, lost>>,
             \A w \in Workers : pc[w] = "expire" => pc'[w] = "expire" /\ chan'[w] = chan[w] /\ cur'[w] = cur[w]
      PROVE  Owned(c)'
  BY <1>5 DEF EachUnarmedOwned, Unarmed, Owned
<1>6. ASSUME NEW w \in Workers,
             Start(w) \/ PollRaw(w) \/ PollAudio(w) \/ EndCycle(w) \/ RPush(w) \/ LTrim(w) \/ Insert(w)
               \/ Sigterm(w) \/ Exit(w)
      PROVE  Owned(c)'
  <2>1. UNCHANGED <<seen, armed, window, lost>>
    BY <1>6
    DEF Start, PollRaw, PollAudio, EndCycle, RPush, LTrim, Insert, Sigterm, Exit, redis, history
  <2>2. \A v \in Workers : pc[v] = "expire" => pc'[v] = "expire" /\ chan'[v] = chan[v] /\ cur'[v] = cur[v]
    BY <1>6
    DEF Start, PollRaw, PollAudio, EndCycle, RPush, LTrim, Insert, Sigterm, Exit, TypeOK
  <2> QED BY <1>5, <2>1, <2>2
<1>7. ASSUME NEW d \in Channels, Pop(d) PROVE Owned(c)'
  BY <1>5, <1>7 DEF Pop, local
<1>8. CASE UNCHANGED vars
  BY <1>5, <1>8 DEF vars, redis, local, history
<1> QED BY <1>1, <1>2, <1>3, <1>4, <1>6, <1>7, <1>8 DEF Next, WorkerNext

\* Only a crash between SADD and EXPIRE leaves a seen set that nobody is about
\* to give a time to live.
THEOREM UnarmedHasOwnerCorrect == Spec => []UnarmedHasOwner
<1>1. Init => TypeOK /\ HandOK /\ EachUnarmedOwned
  <2>1. Init => EachUnarmedOwned
    BY DEF Init, EachUnarmedOwned, Unarmed
  <2> QED BY <2>1, InitTyped
<1>2. TypeOK /\ HandOK /\ EachUnarmedOwned /\ [Next]_vars => TypeOK' /\ HandOK' /\ EachUnarmedOwned'
  BY StepTyped, StepOwned
<1>3. EachUnarmedOwned => UnarmedHasOwner
  BY DEF EachUnarmedOwned, Unarmed, Owned, UnarmedHasOwner
<1> QED BY <1>1, <1>2, <1>3, PTL DEF Spec
-----------------------------------------------------------------------------
(* How far a list stands above its maximum.                                 *)

Trimming(c) == { w \in Workers : pc[w] = "ltrim" /\ chan[w] = c }

Overshoots(c) == Len(queue[c]) <= MaxQueue(c) + crashes + Cardinality(Trimming(c))

LEMMA TrimmingFinite == \A c \in Channels : IsFiniteSet(Trimming(c)) /\ Cardinality(Trimming(c)) \in Nat
BY WorkersAssumption, FS_Subset, FS_CardinalityType DEF Trimming

LEMMA StepOvershoots ==
  ASSUME TypeOK, HandOK, [Next]_vars, NEW c \in Channels, Overshoots(c)
  PROVE  Overshoots(c)'
<1>1. /\ Cardinality(Trimming(c)) \in Nat /\ IsFiniteSet(Trimming(c))
      /\ MaxQueue(c) \in Nat /\ crashes \in Nat /\ queue[c] \in Seq(Ticket) /\ Len(queue[c]) \in Nat
  BY TrimmingFinite, MaxQueueTyped DEF TypeOK
<1>2. TypeOK' /\ crashes' \in Nat /\ Len(queue'[c]) \in Nat
  BY StepTyped DEF TypeOK
<1>3. IsFiniteSet(Trimming(c)') /\ Cardinality(Trimming(c)') \in Nat
  BY WorkersAssumption, FS_Subset, FS_CardinalityType DEF Trimming
<1>4. MaxQueue(c)' = MaxQueue(c)
  BY DEF MaxQueue
<1>5. ASSUME Len(queue'[c]) <= Len(queue[c]), Trimming(c)' = Trimming(c), crashes' = crashes
      PROVE  Overshoots(c)'
  BY <1>1, <1>2, <1>4, <1>5 DEF Overshoots
<1>6. ASSUME NEW w \in Workers, RPush(w) PROVE Overshoots(c)'
  <2>1. chan[w] \in Channels /\ cur[w] \in Ticket /\ UNCHANGED <<chan, crashes>>
    BY <1>6 DEF RPush, HandOK, TypeOK, history
  <2>2. CASE c = chan[w]
    <3>1. queue'[c] = RPushed(queue[c], cur[w])
      BY <1>6, <2>2 DEF RPush, TypeOK
    <3>2. Len(queue'[c]) = Len(queue[c]) + 1
      BY <1>1, <2>1, <3>1, RPushedFacts
    <3>3. w \notin Trimming(c) /\ Trimming(c)' = Trimming(c) \cup {w}
      BY <1>6, <2>1, <2>2 DEF RPush, Trimming, TypeOK
    <3>4. Cardinality(Trimming(c)') = Cardinality(Trimming(c)) + 1
      BY <1>1, <3>3, FS_AddElement
    <3> QED BY <1>1, <1>4, <2>1, <3>2, <3>4 DEF Overshoots
  <2>3. CASE c # chan[w]
    <3>1. queue'[c] = queue[c] /\ Trimming(c)' = Trimming(c)
      BY <1>6, <2>1, <2>3 DEF RPush, TypeOK, Trimming
    <3> QED BY <1>1, <1>5, <2>1, <3>1
  <2> QED BY <2>2, <2>3
<1>7. ASSUME NEW w \in Workers, LTrim(w) PROVE Overshoots(c)'
  <2>1. chan[w] \in Channels /\ UNCHANGED <<chan, crashes>>
    BY <1>7 DEF LTrim, TypeOK
  <2>2. CASE c = chan[w]
    <3>1. queue'[c] = Trimmed(queue[c], MaxQueue(c)) /\ MaxQueue(c) \in Nat \ {0}
      BY <1>7, <2>2, MaxQueueTyped DEF LTrim, TypeOK
    <3>2. Len(queue'[c]) <= MaxQueue(c)
      BY <1>1, <3>1, TrimmedFacts
    <3> QED BY <1>1, <1>2, <1>3, <1>4, <3>2 DEF Overshoots
  <2>3. CASE c # chan[w]
    <3>1. queue'[c] = queue[c] /\ Trimming(c)' = Trimming(c)
      BY <1>7, <2>1, <2>3 DEF LTrim, TypeOK, Trimming
    <3> QED BY <1>1, <1>5, <2>1, <3>1
  <2> QED BY <2>2, <2>3
<1>8. ASSUME NEW w \in Workers, Crash(w) PROVE Overshoots(c)'
  <2>1. crashes' = crashes + 1 /\ queue' = queue
    BY <1>8 DEF Crash, redis
  <2>2. Trimming(c)' = Trimming(c) \ {w}
    BY <1>8 DEF Crash, Trimming, TypeOK
  <2>3. Cardinality(Trimming(c)) <= Cardinality(Trimming(c)') + 1
    <3>1. CASE w \in Trimming(c)
      BY <1>1, <1>3, <2>2, <3>1, FS_RemoveElement
    <3>2. CASE w \notin Trimming(c)
      <4>1. Trimming(c)' = Trimming(c)
        BY <2>2, <3>2
      <4> QED BY <1>1, <4>1
    <3> QED BY <3>1, <3>2
  <2> QED BY <1>1, <1>3, <1>4, <2>1, <2>3 DEF Overshoots
<1>9. ASSUME NEW d \in Channels, Pop(d) PROVE Overshoots(c)'
  <2>1. Trimming(c)' = Trimming(c) /\ crashes' = crashes
    BY <1>9 DEF Pop, local, Trimming
  <2>2. queue'[c] = queue[c] \/ (c = d /\ queue[c] # << >> /\ queue'[c] = Popped(queue[c]))
    BY <1>9 DEF Pop, TypeOK
  <2>3. Len(queue'[c]) <= Len(queue[c])
    BY <1>1, <2>2, PoppedFacts
  <2> QED BY <1>5, <2>1, <2>3
<1>10. ASSUME NEW w \in Workers,
             Start(w) \/ PollRaw(w) \/ PollAudio(w) \/ EndCycle(w) \/ SAdd(w) \/ Expire(w) \/ Insert(w)
               \/ Sigterm(w) \/ Exit(w)
      PROVE  Overshoots(c)'
  <2>1. UNCHANGED <<queue, crashes>>
    BY <1>10
    DEF Start, PollRaw, PollAudio, EndCycle, SAdd, Expire, Insert, Sigterm, Exit, redis, history
  <2>2. \A v \in Workers : (pc[v] = "ltrim" <=> pc'[v] = "ltrim") /\ (pc[v] = "ltrim" => chan'[v] = chan[v])
    BY <1>10
    DEF Start, PollRaw, PollAudio, EndCycle, SAdd, Expire, Insert, Sigterm, Exit, TypeOK
  <2>3. Trimming(c)' = Trimming(c)
    BY <2>2 DEF Trimming
  <2> QED BY <1>1, <1>5, <2>1, <2>3
<1>11. CASE UNCHANGED <<queue, local, crashes>>
  BY <1>1, <1>5, <1>11 DEF local, Trimming
<1> QED
  BY <1>6, <1>7, <1>8, <1>9, <1>10, <1>11
  DEF Next, WorkerNext, SeenExpires, vars, redis, history

\* A list of any maximum stands above it by the pushes in flight and the
\* crashed ones, and by no more.
THEOREM BoundedOvershootCorrect == Spec => []BoundedOvershoot
<1> DEFINE Bounded == \A c \in Channels : Overshoots(c)
<1>1. Init => TypeOK /\ HandOK /\ Bounded
  <2> SUFFICES ASSUME Init, NEW c \in Channels PROVE Overshoots(c)
    BY InitTyped
  <2>1. Len(queue[c]) = 0 /\ crashes = 0
    BY DEF Init
  <2> QED BY <2>1, TrimmingFinite, MaxQueueTyped DEF Overshoots
<1>2. TypeOK /\ HandOK /\ Bounded /\ [Next]_vars => TypeOK' /\ HandOK' /\ Bounded'
  BY StepTyped, StepOvershoots
<1>3. Bounded => BoundedOvershoot
  BY DEF Overshoots, Trimming, BoundedOvershoot
<1> HIDE DEF Bounded
<1> QED BY <1>1, <1>2, <1>3, PTL DEF Spec

-----------------------------------------------------------------------------
(* What an eviction takes.                                                  *)

\* What EvictsOldestOverflow says of one list.
OnlyOldest(c) ==
  /\ Len(queue'[c]) = MaxQueue(c)
  /\ \A i \in DOMAIN queue'[c] : queue'[c][i] = queue[c][i + Len(queue[c]) - Len(queue'[c])]

LEMMA StepEvicts ==
  ASSUME TypeOK, HandOK, Next, evicted' # evicted, NEW c \in Channels, queue'[c] # queue[c]
  PROVE  OnlyOldest(c)
<1>1. PICK w \in Workers : LTrim(w)
  BY DEF Next, WorkerNext, Start, PollRaw, PollAudio, EndCycle, SAdd, Expire, RPush, Insert,
         Sigterm, Exit, Crash, SeenExpires, Pop, redis, history
<1>2. /\ queue' = [queue EXCEPT ![chan[w]] = Trimmed(queue[chan[w]], MaxQueue(chan[w]))]
      /\ chan[w] \in Channels
  BY <1>1 DEF LTrim, TypeOK
<1>3. c = chan[w] /\ queue'[c] = Trimmed(queue[c], MaxQueue(c))
  BY <1>2 DEF TypeOK
<1>4. queue[c] \in Seq(Ticket) /\ MaxQueue(c) \in Nat \ {0}
  BY MaxQueueTyped DEF TypeOK
<1> DEFINE kept == Trimmed(queue[c], MaxQueue(c))
<1>5. /\ Len(kept) = IF Len(queue[c]) <= MaxQueue(c) THEN Len(queue[c]) ELSE MaxQueue(c)
      /\ \A i \in DOMAIN kept : kept[i] = queue[c][i + Len(queue[c]) - Len(kept)]
  BY <1>4, TrimmedFacts
<1>6. ~(Len(queue[c]) <= MaxQueue(c))
  BY <1>3 DEF Trimmed
<1>7. queue'[c] = kept
  BY <1>3
<1> HIDE DEF kept
<1> QED BY <1>5, <1>6, <1>7 DEF OnlyOldest

\* An eviction leaves a full list of the newest admissions, in their order.
THEOREM EvictsOldestOverflowCorrect == Spec => EvictsOldestOverflow
<1>1. Init => TypeOK /\ HandOK
  BY InitTyped
<1>2. TypeOK /\ HandOK /\ [Next]_vars => TypeOK' /\ HandOK'
  BY StepTyped
<1>3. TypeOK /\ HandOK /\ [Next]_vars =>
        [ \A c \in Channels : evicted' # evicted /\ queue'[c] # queue[c] =>
            /\ Len(queue'[c]) = MaxQueue(c)
            /\ \A i \in DOMAIN queue'[c] :
                 queue'[c][i] = queue[c][i + Len(queue[c]) - Len(queue'[c])] ]_vars
  <2> SUFFICES ASSUME TypeOK, HandOK, Next, NEW c \in Channels, evicted' # evicted, queue'[c] # queue[c]
               PROVE  OnlyOldest(c)
    BY DEF OnlyOldest
  <2> QED BY StepEvicts
<1> QED BY <1>1, <1>2, <1>3, PTL DEF Spec, EvictsOldestOverflow
=============================================================================
