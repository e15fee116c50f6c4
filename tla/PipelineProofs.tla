--------------------------- MODULE PipelineProofs ---------------------------
(* The theorems about Pipeline and Depths, for any processes in any roles,  *)
(* any frames and recordings, any list maxima and any number of signals and *)
(* crashes.                                                                 *)
EXTENDS Depths, RedisListProofs, FiniteSetTheorems

Thing == Item \cup {Nothing}
Recordings == AudioSources \X {0}

LEMMA ConstantFacts ==
  /\ \A l \in Lists : Max[l] \in Nat \ {0}
  /\ \A w \in Workers : Role[w] \in Roles
  /\ Nothing \notin Item
  /\ Recordings \subseteq Item
  /\ \A s \in RawSources : <<s, 0>> \in Item
BY SizeAssumption, RoleAssumption, NothingAssumption DEF Item, Recordings

\* A process between two items holds nothing, and one that fetches the recording
\* it took; the pickled None is held alone and goes to the telemetry list; no
\* worker pushes to the lists of ingest.
HandOK ==
  \A w \in Workers :
    /\ pc[w] \in {"down", "top"} => hand[w] = {}
    /\ pc[w] = "fetch" =>
         Role[w] = "audio" /\ target[w] = "decoded" /\ \E x \in Recordings : hand[w] = {x}
    /\ Nothing \in hand[w] => hand[w] = {Nothing} /\ target[w] = "telemetry"
    /\ target[w] \in {"decoded", "telemetry", "dlq"}

\* The pickled None is in the telemetry list only, and the audio list holds
\* whole recordings.
ListOK ==
  /\ \A l \in Lists : l # "telemetry" => Nothing \notin Items(queue[l])
  /\ Items(queue["audio"]) \subseteq Recordings

Typed == TypeOK /\ HandOK /\ ListOK

LEMMA ItemsTyped == TypeOK => \A l \in Lists : Items(queue[l]) \subseteq Thing
BY ElementOfSeq DEF TypeOK, Items, Thing

LEMMA InitTyped == Init => Typed
<1> SUFFICES ASSUME Init PROVE Typed
  OBVIOUS
<1>1. << >> \in Seq(Thing) /\ << >> \in Seq(Item) /\ Items(<< >>) = {}
  BY DEF Items
<1>2. TypeOK
  BY <1>1 DEF Init, TypeOK, PC, Lists, Thing
<1>3. HandOK
  BY DEF Init, HandOK
<1>4. ListOK
  BY <1>1 DEF Init, ListOK, Lists
<1> QED BY <1>2, <1>3, <1>4 DEF Typed

\* What a worker takes, and what is left.
LEMMA TakeFacts ==
  ASSUME Typed, NEW w \in Workers, MayTake(w)
  PROVE  /\ Source(w) \in {"raw", "audio", "decoded"}
         /\ Head(queue[Source(w)]) \in Item
         /\ Popped(queue[Source(w)]) \in Seq(Thing)
         /\ \A x : x \in Items(queue[Source(w)]) <=>
                     x \in Items(Popped(queue[Source(w)])) \/ x = Head(queue[Source(w)])
         /\ Source(w) = "audio" => Head(queue[Source(w)]) \in Recordings
         /\ hand[w] = {}
<1> DEFINE l == Source(w)
<1>1. l \in {"raw", "audio", "decoded"}
  BY DEF Source
<1>2. queue[l] \in Seq(Thing) /\ queue[l] # << >>
  BY <1>1 DEF Typed, TypeOK, Thing, MayTake, Lists
<1>3. /\ Popped(queue[l]) \in Seq(Thing) /\ Head(queue[l]) \in Thing
      /\ Items(queue[l]) = Items(Popped(queue[l])) \cup {Head(queue[l])}
  BY <1>2, PoppedFacts
<1>4. Head(queue[l]) # Nothing
  BY <1>1, <1>3 DEF Typed, ListOK, Lists
<1>5. l = "audio" => Head(queue[l]) \in Recordings
  BY <1>3 DEF Typed, ListOK
<1>6. hand[w] = {}
  BY DEF MayTake, Typed, HandOK
<1> QED BY <1>1, <1>3, <1>4, <1>5, <1>6 DEF Thing

\* Taking an item keeps the types, whatever there is to push.
LEMMA TookTyped ==
  ASSUME Typed, NEW w \in Workers, MayTake(w),
         NEW things \in SUBSET Thing, NEW l \in {"decoded", "telemetry", "dlq"},
         Nothing \in things => things = {Nothing} /\ l = "telemetry",
         Role[w] = "audio" /\ things # {} =>
           l = "decoded" /\ \E x \in Recordings : things = {x},
         Took(w, things, l), born' \in SUBSET Item, settled' \in SUBSET Item,
         dropped' \in SUBSET Item
  PROVE  Typed'
<1>1. /\ Source(w) \in Lists
      /\ Popped(queue[Source(w)]) \in Seq(Thing)
      /\ \A x : x \in Items(Popped(queue[Source(w)])) => x \in Items(queue[Source(w)])
  BY TakeFacts DEF Lists
<1>2. /\ queue' = [queue EXCEPT ![Source(w)] = Popped(@)]
      /\ hand' = [hand EXCEPT ![w] = things]
      /\ target' = [target EXCEPT ![w] = l]
      /\ pc' = [pc EXCEPT ![w] =
           IF things = {} THEN "top" ELSE IF Role[w] = "audio" THEN "fetch" ELSE "rpush"]
      /\ UNCHANGED <<stopping, arrived, consumed, evicted, untrimmed, upsets>>
  BY DEF Took
<1>3. TypeOK'
  BY <1>1, <1>2 DEF Typed, TypeOK, PC, Lists, Thing
<1>4. HandOK'
  <2> SUFFICES ASSUME NEW v \in Workers
               PROVE  /\ pc'[v] \in {"down", "top"} => hand'[v] = {}
                      /\ pc'[v] = "fetch" => Role[v] = "audio" /\ target'[v] = "decoded"
                                              /\ \E x \in Recordings : hand'[v] = {x}
                      /\ Nothing \in hand'[v] => hand'[v] = {Nothing} /\ target'[v] = "telemetry"
                      /\ target'[v] \in {"decoded", "telemetry", "dlq"}
    BY DEF HandOK
  <2>1. CASE v = w
    BY <1>2, <2>1 DEF Typed, TypeOK
  <2>2. CASE v # w
    <3>1. hand'[v] = hand[v] /\ pc'[v] = pc[v] /\ target'[v] = target[v]
      BY <1>2, <2>2 DEF Typed, TypeOK
    <3> QED BY <3>1 DEF Typed, HandOK
  <2> QED BY <2>1, <2>2
<1>5. ListOK'
  BY <1>1, <1>2 DEF Typed, TypeOK, ListOK, Lists
<1> QED BY <1>3, <1>4, <1>5 DEF Typed

\* RPUSH on a list of the pipeline.
LEMMA PushThing ==
  \A list \in Seq(Thing) : \A x \in Thing :
    /\ RPushed(list, x) \in Seq(Thing)
    /\ \A y : y \in Items(RPushed(list, x)) <=> y \in Items(list) \/ y = x
<1> SUFFICES ASSUME NEW list \in Seq(Thing), NEW x \in Thing
             PROVE  /\ RPushed(list, x) \in Seq(Thing)
                    /\ \A y : y \in Items(RPushed(list, x)) <=> y \in Items(list) \/ y = x
  OBVIOUS
<1> HIDE DEF Thing
<1> QED BY RPushedFacts

\* What comes out of a recording.
LEMMA AudioFacts ==
  ASSUME Typed, NEW w \in Workers, DecodeAudio(w)
  PROVE  \E x \in Recordings : \E frames \in SUBSET ({x[1]} \X (1 .. MaxFrames)) :
           /\ hand[w] = {x} /\ hand' = [hand EXCEPT ![w] = frames]
           /\ pc' = [pc EXCEPT ![w] = IF frames = {} THEN "top" ELSE "rpush"]
           /\ born' = born \cup frames /\ settled' = settled \cup {x}
           /\ frames \subseteq Item /\ x \notin frames
           /\ \A y \in frames : y[2] # 0 /\ <<y[1], 0>> = x
<1>1. PICK x \in hand[w] : \E frames \in SUBSET ({x[1]} \X (1 .. MaxFrames)) :
        /\ hand' = [hand EXCEPT ![w] = frames]
        /\ pc' = [pc EXCEPT ![w] = IF frames = {} THEN "top" ELSE "rpush"]
        /\ born' = born \cup frames
        /\ settled' = settled \cup {x}
  BY DEF DecodeAudio
<1>2. x \in Recordings /\ hand[w] = {x}
  BY DEF DecodeAudio, Typed, HandOK
<1>3. PICK frames \in SUBSET ({x[1]} \X (1 .. MaxFrames)) :
        /\ hand' = [hand EXCEPT ![w] = frames]
        /\ pc' = [pc EXCEPT ![w] = IF frames = {} THEN "top" ELSE "rpush"]
        /\ born' = born \cup frames
        /\ settled' = settled \cup {x}
  BY <1>1
<1>4. /\ frames \subseteq Item /\ x \notin frames
      /\ \A y \in frames : y[2] # 0 /\ <<y[1], 0>> = x
  BY <1>2, SizeAssumption DEF Recordings, Item
<1> QED BY <1>2, <1>3, <1>4

\* Arrivals are typed.
LEMMA ArriveTyped ==
  ASSUME Typed, NEW l \in {"raw", "audio"}, NEW x \in Item, l = "audio" => x \in Recordings,
         Arrive(l, x)
  PROVE  Typed'
<1> DEFINE longer == RPushed(queue[l], x)
<1>1. l \in Lists /\ queue[l] \in Seq(Thing) /\ x \in Thing /\ Max[l] \in Nat \ {0}
  BY ConstantFacts DEF Typed, TypeOK, Lists, Thing
<1>2. longer \in Seq(Thing) /\ \A y : y \in Items(longer) <=> y \in Items(queue[l]) \/ y = x
  BY <1>1, PushThing
<1>3. Trimmed(longer, Max[l]) \in Seq(Thing) /\ Items(Trimmed(longer, Max[l])) \subseteq Items(longer)
  BY <1>1, <1>2, TrimmedFacts
<1>4. queue' = [queue EXCEPT ![l] = Trimmed(longer, Max[l])]
  BY DEF Arrive
<1> HIDE DEF longer
<1>5. Nothing \notin Items(queue[l])
  BY DEF Typed, ListOK, Lists
<1>6. evicted' \subseteq evicted \cup ((Items(queue[l]) \cup {x}) \ {Nothing})
  BY <1>5, ConstantFacts DEF Arrive
<1>7. arrived' \in Seq(Item)
  <2>1. arrived \in Seq(Item) /\ Append(arrived, x) \in Seq(Item)
    BY AppendProperties DEF Typed, TypeOK
  <2> QED BY <2>1 DEF Arrive
<1>8. TypeOK'
  BY <1>1, <1>3, <1>4, <1>6, <1>7, ItemsTyped DEF Arrive, process, Typed, TypeOK, Thing
<1>9. HandOK' /\ ListOK'
  BY <1>1, <1>2, <1>3, <1>4, ConstantFacts DEF Arrive, process, Typed, TypeOK, HandOK, ListOK, Lists
<1> QED BY <1>8, <1>9 DEF Typed

\* Every step keeps the types.
LEMMA StepTyped == Typed /\ [Next]_vars => Typed'
<1> SUFFICES ASSUME Typed, [Next]_vars PROVE Typed'
  OBVIOUS
<1> USE DEF Typed, TypeOK, HandOK, ListOK, PC
<1>1. ASSUME NEW s \in RawSources, Arrive("raw", <<s, 0>>) PROVE Typed'
  BY <1>1, ArriveTyped, ConstantFacts
<1>2. ASSUME NEW s \in AudioSources, Arrive("audio", <<s, 0>>) PROVE Typed'
  BY <1>2, ArriveTyped, ConstantFacts DEF Recordings
<1>3. CASE Consume
  <2>1. /\ Popped(queue["telemetry"]) \in Seq(Thing)
        /\ Head(queue["telemetry"]) \in Thing
    BY <1>3, PoppedFacts DEF Consume, Lists, Thing
  <2>2. consumed' \in Seq(Item)
    BY <1>3, <2>1, AppendProperties DEF Consume, Thing
  <2> QED BY <1>3, <2>1, <2>2 DEF Consume, process, fate, Thing, Lists
<1>4. ASSUME NEW w \in Workers, Start(w) PROVE Typed'
  BY <1>4 DEF Start, fate
<1>5. ASSUME NEW w \in Workers, Decode(w) PROVE Typed'
  <2>1. MayTake(w) /\ Source(w) = "raw" /\ Head(queue["raw"]) \in Item /\ Role[w] # "audio"
    BY <1>5, TakeFacts DEF Decode, Source
  <2>2. \/ Took(w, {Head(queue["raw"])}, "decoded") /\ UNCHANGED <<born, settled, dropped>>
        \/ Took(w, {}, "decoded") /\ settled' = settled \cup {Head(queue["raw"])} /\ UNCHANGED <<born, dropped>>
    BY <1>5 DEF Decode
  <2> QED BY <2>1, <2>2, TookTyped, ConstantFacts DEF Thing
<1>6. ASSUME NEW w \in Workers, TakeAudio(w) PROVE Typed'
  <2> DEFINE x == Head(queue["audio"])
  <2>1. MayTake(w) /\ Source(w) = "audio" /\ x \in Recordings /\ x \in Item
    BY <1>6, TakeFacts, ConstantFacts DEF TakeAudio, Source
  <2>2. Took(w, {x}, "decoded") /\ UNCHANGED <<born, settled, dropped>>
    BY <1>6 DEF TakeAudio
  <2> QED BY <2>1, <2>2, TookTyped, ConstantFacts DEF Thing
<1>16. ASSUME NEW w \in Workers, DecodeAudio(w) PROVE Typed'
  <2>1. PICK x \in Recordings, frames \in SUBSET Item :
          /\ hand' = [hand EXCEPT ![w] = frames]
          /\ pc' = [pc EXCEPT ![w] = IF frames = {} THEN "top" ELSE "rpush"]
          /\ born' = born \cup frames /\ settled' = settled \cup {x}
    BY <1>16, AudioFacts
  <2>2. UNCHANGED <<queue, target, stopping, arrived, consumed, dropped, evicted, untrimmed, upsets>>
    BY <1>16 DEF DecodeAudio
  <2>3. TypeOK'
    BY <2>1, <2>2, ConstantFacts
  <2>4. HandOK'
    BY <2>1, <2>2, ConstantFacts
  <2> QED BY <2>2, <2>3, <2>4
<1>7. ASSUME NEW w \in Workers, Demux(w) PROVE Typed'
  <2> DEFINE x == Head(queue["decoded"])
  <2>1. MayTake(w) /\ Source(w) = "decoded" /\ x \in Item /\ hand[w] = {} /\ Role[w] # "audio"
        /\ Popped(queue["decoded"]) \in Seq(Thing)
        /\ \A y : y \in Items(Popped(queue["decoded"])) => y \in Items(queue["decoded"])
    BY <1>7, TakeFacts DEF Demux, Source
  <2>2. CASE \/ Took(w, {x}, "telemetry") /\ UNCHANGED <<born, settled, dropped>>
             \/ Took(w, {}, "decoded") /\ settled' = settled \cup {x} /\ UNCHANGED <<born, dropped>>
             \/ Took(w, {x}, "dlq") /\ UNCHANGED <<born, settled, dropped>>
    BY <2>1, <2>2, TookTyped, ConstantFacts DEF Thing
  <2>3. CASE /\ queue' = [queue EXCEPT !["decoded"] = Popped(@)]
             /\ pc' = [pc EXCEPT ![w] = "down"]
             /\ stopping' = [stopping EXCEPT ![w] = FALSE]
             /\ dropped' = dropped \cup {x}
             /\ UNCHANGED <<hand, target, arrived, born, consumed, settled, evicted, untrimmed,
                            upsets>>
    BY <2>1, <2>3 DEF Thing, Lists
  <2> QED BY <1>7, <2>2, <2>3 DEF Demux
<1>8. ASSUME NEW w \in Workers, DemuxDecoupled(w) PROVE Typed'
  <2> DEFINE x == Head(queue["decoded"])
  <2>1. MayTake(w) /\ Source(w) = "decoded" /\ x \in Item /\ Role[w] # "audio"
    BY <1>8, TakeFacts DEF DemuxDecoupled, Source
  <2>2. \/ Took(w, {x}, "telemetry") /\ UNCHANGED <<born, settled, dropped>>
        \/ Took(w, {}, "decoded") /\ settled' = settled \cup {x} /\ UNCHANGED <<born, dropped>>
        \/ Took(w, {Nothing}, "telemetry") /\ settled' = settled \cup {x} /\ UNCHANGED <<born, dropped>>
    BY <1>8 DEF DemuxDecoupled
  <2> QED BY <2>1, <2>2, TookTyped, ConstantFacts DEF Thing
<1>9. ASSUME NEW w \in Workers, RPush(w) PROVE Typed'
  <2>1. PICK x \in hand[w] :
          /\ queue' = [queue EXCEPT ![target[w]] = RPushed(@, x)]
          /\ hand' = [hand EXCEPT ![w] = IF x = Nothing THEN @ ELSE @ \ {x}]
    BY <1>9 DEF RPush
  <2>2. /\ x \in Thing /\ target[w] \in Lists /\ target[w] # "audio" /\ target[w] # "raw"
        /\ x = Nothing => target[w] = "telemetry"
    BY <2>1 DEF Thing, Lists
  <2>3. /\ RPushed(queue[target[w]], x) \in Seq(Thing)
        /\ \A y : y \in Items(RPushed(queue[target[w]], x)) <=> y \in Items(queue[target[w]]) \/ y = x
    <3>1. queue[target[w]] \in Seq(Thing)
      BY <2>2 DEF Thing
    <3> QED BY <2>2, <3>1, PushThing
  <2>4. TypeOK'
    BY <1>9, <2>1, <2>2, <2>3 DEF RPush, fate, Thing
  <2>5. HandOK'
    BY <1>9, <2>1 DEF RPush
  <2>6. ListOK'
    BY <1>9, <2>1, <2>2, <2>3 DEF Lists
  <2> QED BY <2>4, <2>5, <2>6
<1>10. ASSUME NEW w \in Workers, DeadLetterFails(w) PROVE Typed'
  BY <1>10 DEF DeadLetterFails, CutShort, Lists
<1>11. ASSUME NEW w \in Workers, LTrim(w) PROVE Typed'
  <2> DEFINE l == target[w]
  <2>1. l \in Lists /\ l # "audio" /\ l # "raw" /\ Max[l] \in Nat \ {0} /\ queue[l] \in Seq(Thing)
    BY ConstantFacts DEF Thing, Lists
  <2>2. Trimmed(queue[l], Max[l]) \in Seq(Thing) /\ Items(Trimmed(queue[l], Max[l])) \subseteq Items(queue[l])
    BY <2>1, TrimmedFacts
  <2>3. Overflow(l) \subseteq Item
    BY <2>1, ItemsTyped DEF Overflow, Thing
  <2>4. TypeOK'
    BY <1>11, <2>1, <2>2, <2>3 DEF LTrim, Thing, Lists
  <2>5. HandOK'
    BY <1>11 DEF LTrim
  <2>6. ListOK'
    BY <1>11, <2>1, <2>2 DEF LTrim, Lists
  <2> QED BY <2>4, <2>5, <2>6
<1>12. ASSUME NEW w \in Workers, Sigterm(w) PROVE Typed'
  BY <1>12 DEF Sigterm, fate
<1>13. ASSUME NEW w \in Workers, Exit(w) PROVE Typed'
  BY <1>13 DEF Exit, fate
<1>14. ASSUME NEW w \in Workers, Crash(w) PROVE Typed'
  BY <1>14 DEF Crash, CutShort, Lists
<1>15. CASE UNCHANGED vars
  BY <1>15 DEF vars, process, fate
<1> QED
  BY <1>1, <1>2, <1>3, <1>4, <1>5, <1>6, <1>16, <1>7, <1>8, <1>9, <1>10, <1>11, <1>12, <1>13,
     <1>14, <1>15 DEF Next, Step

\* Every reachable state of the pipeline is well typed.
THEOREM TypeCorrect == Spec => []TypeOK
<1>1. Init => Typed
  BY InitTyped
<1>2. Typed /\ [Next]_vars => Typed'
  BY StepTyped
<1>3. Typed => TypeOK
  BY DEF Typed
<1> QED BY <1>1, <1>2, <1>3, PTL DEF Spec

-----------------------------------------------------------------------------
(* Where the items are.  A step creates some items in one place and moves   *)
(* some others to one place, and every other item stays where it is.        *)

\* Nothing is anywhere that was never born.
Known == \A p \in Places : Contents(p) \subseteq born

\* Frames of a recording exist only when the recording has been used up.
PartsAfter == \A x \in born : x[2] # 0 => <<x[1], 0>> \in settled

Placed == Apart /\ Known /\ EveryItemIsSomewhere

Whereabouts == Typed /\ Placed /\ PartsAfter /\ OnePlace

InList(l) == <<"list", l>>
InHand(w) == <<"hand", w>>
IsGone == <<"gone", "gone">>

\* The place of an item is a list, a hand or its end.
LEMMA PlaceFacts ==
  ASSUME Typed
  PROVE  /\ \A l \in Lists : InList(l) \in Places /\ Contents(InList(l)) = Items(queue[l]) \ {Nothing}
         /\ \A w \in Workers : InHand(w) \in Places /\ Contents(InHand(w)) = hand[w] \ {Nothing}
         /\ IsGone \in Places /\ Contents(IsGone) = Gone \ {Nothing}
         /\ \A p \in Places : \/ \E l \in Lists : p = InList(l)
                              \/ \E w \in Workers : p = InHand(w)
                              \/ p = IsGone
BY DEF Places, Contents, InList, InHand, IsGone

LEMMA GoneTyped == TypeOK => Gone \subseteq Item
BY ElementOfSeq DEF TypeOK, Gone, Items

\* What it means for lists, hands and ends to be apart and known.
LEMMA PlacedFacts ==
  ASSUME Typed, Apart, Known
  PROVE  /\ \A x \in Item : \A l, m \in Lists :
              x \in Items(queue[l]) /\ x \in Items(queue[m]) => l = m
         /\ \A x \in Item : \A v, w \in Workers : x \in hand[v] /\ x \in hand[w] => v = w
         /\ \A x \in Item : \A l \in Lists : \A w \in Workers :
              ~ (x \in Items(queue[l]) /\ x \in hand[w])
         /\ \A x \in Item : \A l \in Lists : ~ (x \in Items(queue[l]) /\ x \in Gone)
         /\ \A x \in Item : \A w \in Workers : ~ (x \in hand[w] /\ x \in Gone)
         /\ \A x \in Item : \A l \in Lists : x \in Items(queue[l]) => x \in born
         /\ \A x \in Item : \A w \in Workers : x \in hand[w] => x \in born
         /\ \A x \in Item : x \in Gone => x \in born
<1>1. \A p, q \in Places : \A x : x \in Contents(p) /\ x \in Contents(q) => p = q
  BY DEF Apart
<1>2. \A p \in Places : \A x : x \in Contents(p) => x \in born
  BY DEF Known
<1>3. \A x \in Item : x # Nothing
  BY NothingAssumption
<1>4. /\ \A l \in Lists : InList(l) \in Places
      /\ \A w \in Workers : InHand(w) \in Places
      /\ IsGone \in Places
  BY PlaceFacts
<1>5. /\ \A x \in Item : \A l \in Lists : x \in Items(queue[l]) <=> x \in Contents(InList(l))
      /\ \A x \in Item : \A w \in Workers : x \in hand[w] <=> x \in Contents(InHand(w))
      /\ \A x \in Item : x \in Gone <=> x \in Contents(IsGone)
  BY <1>3, PlaceFacts
<1>6. /\ \A l, m \in Lists : InList(l) = InList(m) => l = m
      /\ \A v, w \in Workers : InHand(v) = InHand(w) => v = w
      /\ \A l \in Lists : \A w \in Workers : InList(l) # InHand(w)
      /\ \A l \in Lists : InList(l) # IsGone
      /\ \A w \in Workers : InHand(w) # IsGone
  BY DEF InList, InHand, IsGone
<1> QED BY <1>1, <1>2, <1>4, <1>5, <1>6

\* The items of N are new and stand at n, those of M have moved to q, and the
\* others stay.
Shift(N, M, n, q) ==
  /\ n \in Places /\ q \in Places
  /\ M \subseteq born /\ born' = born \cup N
  /\ \A l \in Lists : \A x \in Item : x \in Items(queue'[l]) <=>
       IF x \in N THEN n = InList(l) ELSE IF x \in M THEN q = InList(l) ELSE x \in Items(queue[l])
  /\ \A w \in Workers : \A x \in Item : x \in hand'[w] <=>
       IF x \in N THEN n = InHand(w) ELSE IF x \in M THEN q = InHand(w) ELSE x \in hand[w]
  /\ \A x \in Item : x \in Gone' <=>
       IF x \in N THEN n = IsGone ELSE IF x \in M THEN q = IsGone ELSE x \in Gone

LEMMA Moved ==
  ASSUME Placed, Typed, Typed', NEW N, NEW M, NEW n, NEW q, Shift(N, M, n, q)
  PROVE  Placed'
<1> USE DEF Shift
<1>1. \A p \in Places : \A x : x \in Contents(p)' <=>
        x \in Item /\ IF x \in N THEN n = p ELSE IF x \in M THEN q = p ELSE x \in Contents(p)
  <2> TAKE p \in Places
  <2>1. /\ \A l \in Lists : Items(queue[l]) \subseteq Thing /\ Items(queue'[l]) \subseteq Thing
        /\ \A w \in Workers : hand[w] \subseteq Thing /\ hand'[w] \subseteq Thing
        /\ Gone \subseteq Item /\ Gone' \subseteq Item
    <3>1. \A l \in Lists : Items(queue'[l]) \subseteq Thing
      BY ElementOfSeq DEF Typed, TypeOK, Items, Thing
    <3>2. Gone' \subseteq Item
      BY ElementOfSeq DEF Typed, TypeOK, Gone, Items
    <3> QED BY <3>1, <3>2, ItemsTyped, GoneTyped DEF Typed, TypeOK, Thing
  <2>2. CASE p = IsGone
    BY <2>1, <2>2, NothingAssumption DEF IsGone, Contents
  <2>3. ASSUME NEW l \in Lists, p = InList(l)
        PROVE  \A x : x \in Contents(p)' <=>
                 x \in Item /\ IF x \in N THEN n = p ELSE IF x \in M THEN q = p ELSE x \in Contents(p)
    <3>1. Contents(p) = Items(queue[l]) \ {Nothing} /\ Contents(p)' = Items(queue'[l]) \ {Nothing}
      BY <2>3 DEF InList, Contents
    <3> QED BY <2>1, <2>3, <3>1, NothingAssumption DEF Thing
  <2>4. ASSUME NEW w \in Workers, p = InHand(w)
        PROVE  \A x : x \in Contents(p)' <=>
                 x \in Item /\ IF x \in N THEN n = p ELSE IF x \in M THEN q = p ELSE x \in Contents(p)
    <3>1. Contents(p) = hand[w] \ {Nothing} /\ Contents(p)' = hand'[w] \ {Nothing}
      BY <2>4 DEF InHand, Contents
    <3> QED BY <2>1, <2>4, <3>1, NothingAssumption DEF Thing
  <2> QED BY <2>2, <2>3, <2>4, PlaceFacts
<1>2. born \cup N \subseteq Item
  BY DEF Typed, TypeOK
<1>3. Apart'
  <2> SUFFICES ASSUME NEW p \in Places, NEW r \in Places, p # r, NEW x,
                      x \in Contents(p)', x \in Contents(r)'
               PROVE  FALSE
    BY DEF Apart, Places
  <2>1. x \notin N /\ x \notin M /\ x \in Contents(p) /\ x \in Contents(r)
    BY <1>1
  <2> QED BY <2>1 DEF Placed, Apart
<1>4. Known'
  <2>1. \A p \in Places : \A x : x \in Contents(p)' => x \in born'
    BY <1>1 DEF Placed, Known
  <2> QED BY <2>1 DEF Known, Places
<1>5. EveryItemIsSomewhere'
  <2> SUFFICES ASSUME NEW x \in born \cup N PROVE \E p \in Places : x \in Contents(p)'
    BY DEF EveryItemIsSomewhere, Places
  <2>1. CASE x \in N
    BY <1>1, <1>2, <2>1
  <2>2. CASE x \notin N /\ x \in M
    BY <1>1, <1>2, <2>2
  <2>3. CASE x \notin N /\ x \notin M
    BY <1>1, <1>2, <2>3 DEF Placed, EveryItemIsSomewhere
  <2> QED BY <2>1, <2>2, <2>3
<1> QED BY <1>3, <1>4, <1>5 DEF Placed

-----------------------------------------------------------------------------
(* A list holds nothing twice, whichever command it gets.                   *)

LEMMA OnceRPushed ==
  ASSUME NEW list \in Seq(Thing), NEW x \in Thing, ListOnce(list),
         x = Nothing \/ x \notin Items(list)
  PROVE  ListOnce(RPushed(list, x))
<1> DEFINE longer == RPushed(list, x)
<1>1. /\ DOMAIN list = 1 .. Len(list) /\ Len(list) \in Nat
      /\ DOMAIN longer = 1 .. (Len(list) + 1)
      /\ \A i \in DOMAIN longer : longer[i] = IF i <= Len(list) THEN list[i] ELSE x
  BY RPushedPlaces, LenProperties
<1> HIDE DEF longer
<1>2. \A i \in DOMAIN list : list[i] # x \/ x = Nothing
  BY DEF Items
<1> SUFFICES ASSUME NEW i \in DOMAIN longer, NEW j \in DOMAIN longer, longer[i] = longer[j]
             PROVE  i = j \/ longer[i] = Nothing
  BY DEF ListOnce, longer
<1>3. CASE i <= Len(list) /\ j <= Len(list)
  BY <1>1, <1>3 DEF ListOnce
<1>4. CASE i > Len(list) /\ j <= Len(list)
  BY <1>1, <1>2, <1>4
<1>5. CASE i <= Len(list) /\ j > Len(list)
  BY <1>1, <1>2, <1>5
<1>6. CASE i > Len(list) /\ j > Len(list)
  BY <1>1, <1>6
<1> QED BY <1>1, <1>3, <1>4, <1>5, <1>6

LEMMA OncePopped ==
  ASSUME NEW list \in Seq(Thing), list # << >>, ListOnce(list)
  PROVE  /\ ListOnce(Popped(list))
         /\ Head(list) # Nothing => Head(list) \notin Items(Popped(list))
<1> DEFINE rest == Popped(list)
<1>1. /\ \A i \in DOMAIN rest : rest[i] = list[i + 1] /\ i + 1 \in DOMAIN list
      /\ Head(list) = list[1] /\ 1 \in DOMAIN list
      /\ rest \in Seq(Thing)
  BY PoppedPlaces
<1>2. DOMAIN rest = 1 .. Len(rest) /\ Len(rest) \in Nat
  BY <1>1, LenProperties
<1> HIDE DEF rest
<1>3. ListOnce(rest)
  <2> SUFFICES ASSUME NEW i \in DOMAIN rest, NEW j \in DOMAIN rest, rest[i] = rest[j]
               PROVE  i = j \/ rest[i] = Nothing
    BY DEF ListOnce
  <2>1. i + 1 = j + 1 \/ list[i + 1] = Nothing
    BY <1>1 DEF ListOnce
  <2> QED BY <1>1, <1>2, <2>1
<1>4. ASSUME Head(list) # Nothing, NEW i \in DOMAIN rest PROVE rest[i] # Head(list)
  <2>1. i + 1 # 1
    BY <1>2
  <2> QED BY <1>1, <1>4, <2>1 DEF ListOnce
<1> QED BY <1>3, <1>4 DEF rest, Items

LEMMA OnceTrimmed ==
  ASSUME NEW list \in Seq(Thing), NEW max \in Nat \ {0}, ListOnce(list)
  PROVE  ListOnce(Trimmed(list, max))
<1> DEFINE kept == Trimmed(list, max)
<1>1. /\ kept \in Seq(Thing)
      /\ Len(kept) = IF Len(list) <= max THEN Len(list) ELSE max
      /\ \A i \in DOMAIN kept : kept[i] = list[i + Len(list) - Len(kept)]
  BY TrimmedFacts
<1>2. /\ DOMAIN kept = 1 .. Len(kept) /\ Len(kept) \in Nat
      /\ DOMAIN list = 1 .. Len(list) /\ Len(list) \in Nat
  BY <1>1, LenProperties
<1> HIDE DEF kept
<1> SUFFICES ASSUME NEW i \in DOMAIN kept, NEW j \in DOMAIN kept, kept[i] = kept[j]
             PROVE  i = j \/ kept[i] = Nothing
  BY DEF ListOnce, kept
<1> DEFINE d == Len(list) - Len(kept)
<1>3. /\ d \in Nat /\ i + d \in DOMAIN list /\ j + d \in DOMAIN list
      /\ kept[i] = list[i + d] /\ kept[j] = list[j + d]
  BY <1>1, <1>2
<1>4. i + d = j + d \/ list[i + d] = Nothing
  BY <1>3 DEF ListOnce
<1> QED BY <1>2, <1>3, <1>4

-----------------------------------------------------------------------------
(* The steps.                                                               *)

\* A worker takes an item, and keeps it, to push it, or is done with it.
Taken(w, things, l, done) ==
  /\ MayTake(w) /\ Took(w, things, l)
  /\ things \subseteq Thing /\ done \subseteq {Head(queue[Source(w)])}
  /\ \A x \in Item : x \in things <=> x = Head(queue[Source(w)]) /\ x \notin done
  /\ born' = born /\ settled' = settled \cup done /\ UNCHANGED dropped

LEMMA TookMoved ==
  ASSUME Whereabouts, Typed', NEW w \in Workers, NEW things, NEW l, NEW done,
         Taken(w, things, l, done)
  PROVE  Placed' /\ PartsAfter' /\ OnePlace'
<1> USE DEF Taken
<1> DEFINE a == Source(w)
           it == Head(queue[a])
           q == IF done = {} THEN InHand(w) ELSE IsGone
           M == {it}
<1>1. /\ a \in Lists /\ it \in Item /\ hand[w] = {}
      /\ \A x : x \in Items(queue[a]) <=> x \in Items(Popped(queue[a])) \/ x = it
      /\ queue[a] \in Seq(Thing) /\ queue[a] # << >>
  BY TakeFacts DEF Whereabouts, Typed, TypeOK, Lists, Thing, MayTake
<1>2. /\ queue' = [queue EXCEPT ![a] = Popped(@)]
      /\ hand' = [hand EXCEPT ![w] = things]
      /\ UNCHANGED <<consumed, evicted>>
  BY DEF Took
<1>3. ListOnce(Popped(queue[a])) /\ it \notin Items(Popped(queue[a]))
  BY <1>1, OncePopped, NothingAssumption DEF Whereabouts, OnePlace
<1>4. it \in born /\ it \in Items(queue[a])
  BY <1>1, PlacedFacts DEF Whereabouts, Placed
<1>5. q \in Places
  BY PlaceFacts DEF Whereabouts
<1> HIDE DEF a, it
<1>6. \A m \in Lists : \A x \in Item : x \in Items(queue'[m]) <=>
        IF x \in M THEN q = InList(m) ELSE x \in Items(queue[m])
  <2> TAKE m \in Lists
  <2> TAKE x \in Item
  <2>1. q # InList(m)
    BY DEF InHand, InList, IsGone
  <2>2. x = it => (m # a => x \notin Items(queue[m]))
    BY <1>1, <1>4, PlacedFacts DEF Whereabouts, Placed
  <2>3. queue'[m] = IF m = a THEN Popped(queue[a]) ELSE queue[m]
    BY <1>2 DEF Whereabouts, Typed, TypeOK
  <2>4. CASE m = a
    BY <1>1, <1>3, <2>1, <2>3, <2>4
  <2>5. CASE m # a
    BY <2>1, <2>2, <2>3, <2>5
  <2> QED BY <2>4, <2>5
<1>7. \A v \in Workers : \A x \in Item : x \in hand'[v] <=>
        IF x \in M THEN q = InHand(v) ELSE x \in hand[v]
  <2> TAKE v \in Workers
  <2> TAKE x \in Item
  <2>1. /\ InHand(w) = InHand(v) <=> v = w
        /\ IsGone # InHand(v)
    BY DEF InHand, IsGone
  <2>2. x = it => x \notin hand[v]
    BY <1>1, <1>4, PlacedFacts DEF Whereabouts, Placed
  <2>3. hand'[v] = IF v = w THEN things ELSE hand[v]
    BY <1>2 DEF Whereabouts, Typed, TypeOK
  <2>4. x \in things <=> x = it /\ x \notin done
    BY DEF it, a
  <2>5. done = {} \/ done = {it}
    BY DEF it, a
  <2> QED BY <1>1, <1>4, <2>1, <2>2, <2>3, <2>4, <2>5
<1>8. \A x \in Item : x \in Gone' <=>
        IF x \in M THEN q = IsGone ELSE x \in Gone
  <2> TAKE x \in Item
  <2>1. InHand(w) # IsGone
    BY DEF InHand, IsGone
  <2>2. x = it => x \notin Gone
    BY <1>1, <1>4, PlacedFacts DEF Whereabouts, Placed
  <2>3. x \in Gone' <=> x \in Gone \/ x \in done
    BY <1>2 DEF Gone, fate
  <2>4. done = {} \/ done = {it}
    BY DEF it, a
  <2> QED BY <1>4, <2>1, <2>2, <2>3, <2>4
<1>9. Placed'
  <2>1. Shift({}, M, q, q)
    BY <1>4, <1>5, <1>6, <1>7, <1>8 DEF Shift
  <2> QED BY <2>1, Moved DEF Whereabouts
<1>10. PartsAfter'
  BY DEF Whereabouts, PartsAfter
<1>11. OnePlace'
  <2>1. \A m \in Lists : ListOnce(queue'[m])
    BY <1>1, <1>2, <1>3 DEF Whereabouts, OnePlace, Typed, TypeOK
  <2> QED BY <1>2, <1>9, <2>1 DEF Whereabouts, OnePlace, Placed, Lists
<1> QED BY <1>9, <1>10, <1>11

\* A worker takes an item to push it on.
LEMMA KeptMoved ==
  ASSUME Whereabouts, Typed', NEW w \in Workers, MayTake(w), NEW l,
         Took(w, {Head(queue[Source(w)])}, l), UNCHANGED <<born, settled, dropped>>
  PROVE  Placed' /\ PartsAfter' /\ OnePlace'
<1> DEFINE things == {Head(queue[Source(w)])}
           done == {}
<1>1. things \in SUBSET Thing
  BY TakeFacts DEF Thing, Whereabouts
<1>2. \A x \in Item : x \in things <=> x = Head(queue[Source(w)]) /\ x \notin done
  OBVIOUS
<1>3. born' = born /\ settled' = settled \cup done
  OBVIOUS
<1>4. UNCHANGED dropped /\ Took(w, things, l)
  OBVIOUS
<1>5. Taken(w, things, l, done)
  BY <1>1, <1>2, <1>3, <1>4 DEF Taken
<1> QED BY <1>5, TookMoved

\* A worker takes an item and is done with it; it may push the pickled None.
LEMMA RejectedMoved ==
  ASSUME Whereabouts, Typed', NEW w \in Workers, MayTake(w), NEW l,
         NEW things \in SUBSET {Nothing}, Took(w, things, l), UNCHANGED <<born, dropped>>,
         settled' = settled \cup {Head(queue[Source(w)])}
  PROVE  Placed' /\ PartsAfter' /\ OnePlace'
<1> DEFINE done == {Head(queue[Source(w)])}
<1>1. things \in SUBSET Thing /\ done \in SUBSET {Head(queue[Source(w)])}
  BY DEF Thing
<1>2. \A x \in Item : x \in things <=> x = Head(queue[Source(w)]) /\ x \notin done
  BY NothingAssumption
<1>3. born' = born /\ settled' = settled \cup done
  OBVIOUS
<1>4. UNCHANGED dropped
  OBVIOUS
<1>5. Taken(w, things, l, done)
  BY <1>1, <1>2, <1>3, <1>4 DEF Taken
<1> QED BY <1>5, TookMoved

\* The items of M come to their end, and every other item stays.
LEMMA EndedMoved ==
  ASSUME Whereabouts, Typed', NEW M \in SUBSET Item, M \subseteq born,
         born' = born, settled \subseteq settled', Gone' = Gone \cup M,
         \A l \in Lists : \A x \in Item :
           x \in Items(queue'[l]) <=> x \in Items(queue[l]) /\ x \notin M,
         \A w \in Workers : \A x \in Item : x \in hand'[w] <=> x \in hand[w] /\ x \notin M,
         \A l \in Lists : ListOnce(queue'[l]),
         Distinct(consumed')
  PROVE  Placed' /\ PartsAfter' /\ OnePlace'
<1>1. /\ \A l \in Lists : IsGone # InList(l)
      /\ \A w \in Workers : IsGone # InHand(w)
  BY DEF IsGone, InList, InHand
<1>2. Shift({}, M, IsGone, IsGone)
  BY <1>1, PlaceFacts DEF Shift, Whereabouts
<1>3. Placed'
  BY <1>2, Moved DEF Whereabouts
<1>4. PartsAfter'
  BY DEF Whereabouts, PartsAfter
<1>5. OnePlace'
  BY <1>3 DEF OnePlace, Placed, Lists
<1> QED BY <1>3, <1>4, <1>5

\* What ingest queues.
Whole == (RawSources \cup AudioSources) \X {0}

LEMMA WholeFacts == \A x \in Whole : x \in Item /\ x[2] = 0
BY DEF Whole, Item

\* A capture arrives; it, or the items it pushes out, may be evicted.
LEMMA ArriveMoved ==
  ASSUME Whereabouts, Typed', NEW l \in {"raw", "audio"}, NEW x \in Whole, Arrive(l, x)
  PROVE  Placed' /\ PartsAfter' /\ OnePlace'
<1> DEFINE longer == RPushed(queue[l], x)
           kept == Trimmed(longer, Max[l])
           n == IF x \in Items(kept) THEN InList(l) ELSE IsGone
           M == Items(queue[l]) \ Items(kept)
<1>1. l \in Lists /\ queue[l] \in Seq(Thing) /\ x \in Thing /\ Max[l] \in Nat \ {0} /\ x \in Item /\ x # Nothing
  BY ConstantFacts, WholeFacts DEF Whereabouts, Typed, TypeOK, Lists, Thing
<1>2. longer \in Seq(Thing) /\ \A y : y \in Items(longer) <=> y \in Items(queue[l]) \/ y = x
  <2>1. queue[l] \in Seq(Thing) /\ x \in Thing
    BY <1>1
  <2> QED BY <2>1, PushThing
<1>3. x \notin born /\ x \notin Items(queue[l])
  <2>1. x \notin born
    BY DEF Arrive
  <2> QED BY <1>1, <2>1, PlacedFacts DEF Whereabouts, Placed
<1>4. ListOnce(longer)
  BY <1>1, <1>3, OnceRPushed DEF Whereabouts, OnePlace
<1> HIDE DEF longer
<1>5. Items(kept) \subseteq Items(longer) /\ ListOnce(kept)
  <2>1. Items(kept) \subseteq Items(longer)
    BY <1>1, <1>2, TrimmedFacts
  <2>2. ListOnce(kept)
    BY <1>1, <1>2, <1>4, OnceTrimmed
  <2> QED BY <2>1, <2>2
<1>6. queue' = [queue EXCEPT ![l] = kept]
  BY DEF Arrive, longer
<1> HIDE DEF kept
<1>7. \A m \in Lists : queue'[m] = IF m = l THEN kept ELSE queue[m]
  BY <1>6 DEF Whereabouts, Typed, TypeOK
<1>8. /\ evicted' = evicted \cup ((Items(queue[l]) \cup {x}) \ Items(kept))
      /\ born' = born \cup {x}
      /\ UNCHANGED <<hand, consumed, settled, dropped>>
  BY <1>1, <1>7 DEF Arrive, process
<1>9. M \subseteq born
  BY <1>1, ItemsTyped, PlacedFacts DEF Whereabouts, Placed, Typed, ListOK, Thing, Lists
<1> DEFINE fresh == {x}
<1>10. /\ n \in Places /\ IsGone \in Places
       /\ n = IsGone <=> x \notin Items(kept)
       /\ \A m \in Lists : n = InList(m) <=> x \in Items(kept) /\ m = l
       /\ \A m \in Lists : IsGone # InList(m)
       /\ \A w \in Workers : IsGone # InHand(w) /\ n # InHand(w)
  <2>1. InList(l) \in Places /\ IsGone \in Places
    BY <1>1, PlaceFacts DEF Whereabouts
  <2> QED BY <2>1 DEF IsGone, InList, InHand
<1>11. \A y \in Item : y \in fresh \/ y \in M => y \notin Gone /\ (\A w \in Workers : y \notin hand[w])
                                    /\ (\A m \in Lists : m # l => y \notin Items(queue[m]))
  BY <1>1, <1>3, PlacedFacts DEF Whereabouts, Placed
<1>12. \A y : y \in M <=> y \in Items(queue[l]) /\ y \notin Items(kept)
  OBVIOUS
<1> HIDE DEF n, M
<1>13. \A m \in Lists : \A y \in Item : y \in Items(queue'[m]) <=>
         IF y \in fresh THEN n = InList(m) ELSE IF y \in M THEN IsGone = InList(m) ELSE y \in Items(queue[m])
  BY <1>2, <1>5, <1>7, <1>10, <1>11, <1>12
<1>14. \A w \in Workers : \A y \in Item : y \in hand'[w] <=>
         IF y \in fresh THEN n = InHand(w) ELSE IF y \in M THEN IsGone = InHand(w) ELSE y \in hand[w]
  BY <1>8, <1>10, <1>11
<1>15. \A y \in Item : y \in Gone' <=>
         IF y \in fresh THEN n = IsGone ELSE IF y \in M THEN IsGone = IsGone ELSE y \in Gone
  <2>1. \A y : y \in Gone' <=> y \in Gone \/ (y \in Items(queue[l]) \cup {x} /\ y \notin Items(kept))
    BY <1>8 DEF Gone
  <2> QED BY <2>1, <1>10, <1>11, <1>12
<1>16. Placed'
  <2>1. Shift(fresh, M, n, IsGone)
    BY <1>8, <1>9, <1>10, <1>13, <1>14, <1>15 DEF Shift
  <2> QED BY <2>1, Moved DEF Whereabouts
<1>17. PartsAfter'
  BY <1>8, WholeFacts DEF Whereabouts, PartsAfter
<1>18. OnePlace'
  <2>1. \A m \in Lists : ListOnce(queue'[m])
    BY <1>5, <1>7 DEF Whereabouts, OnePlace
  <2> QED BY <1>8, <1>16, <2>1 DEF Whereabouts, OnePlace, Placed, Lists
<1> QED BY <1>16, <1>17, <1>18

\* A worker pushes an item.
LEMMA RPushMoved ==
  ASSUME Whereabouts, Typed', NEW w \in Workers, RPush(w)
  PROVE  Placed' /\ PartsAfter' /\ OnePlace'
<1> DEFINE l == target[w]
<1>1. PICK x \in hand[w] :
        /\ queue' = [queue EXCEPT ![l] = RPushed(@, x)]
        /\ hand' = [hand EXCEPT ![w] = IF x = Nothing THEN @ ELSE @ \ {x}]
  BY DEF RPush
<1>2. /\ UNCHANGED <<born, consumed, settled, dropped, evicted>>
      /\ Gone' = Gone
  BY DEF RPush, fate, Gone
<1>3. l \in Lists /\ x \in Thing /\ queue[l] \in Seq(Thing)
  BY <1>1 DEF Whereabouts, Typed, TypeOK, Thing
<1> HIDE DEF l
<1>4. \A y : y \in Items(RPushed(queue[l], x)) <=> y \in Items(queue[l]) \/ y = x
  BY <1>3, PushThing
<1>5. x # Nothing => x \in Item /\ x \notin Items(queue[l]) /\ x \in born
  BY <1>1, <1>3, PlacedFacts DEF Whereabouts, Placed, Thing
<1>6. ListOnce(RPushed(queue[l], x))
  <2>1. ListOnce(queue[l])
    BY <1>3 DEF Whereabouts, OnePlace
  <2> QED BY <1>3, <1>5, <2>1, OnceRPushed
<1>7. \A m \in Lists : queue'[m] = IF m = l THEN RPushed(queue[l], x) ELSE queue[m]
  BY <1>1 DEF Whereabouts, Typed, TypeOK
<1>8. \A m \in Lists : ListOnce(queue'[m])
  BY <1>6, <1>7 DEF Whereabouts, OnePlace
<1>9. Distinct(consumed')
  BY <1>2 DEF Whereabouts, OnePlace
<1>10. CASE x = Nothing
  <2> DEFINE M == {}
  <2>1. M \in SUBSET Item /\ M \subseteq born /\ Gone' = Gone \cup M
    BY <1>2
  <2>2. \A m \in Lists : \A y \in Item : y \in Items(queue'[m]) <=> y \in Items(queue[m]) /\ y \notin M
    BY <1>4, <1>7, <1>10, NothingAssumption
  <2>3. \A v \in Workers : \A y \in Item : y \in hand'[v] <=> y \in hand[v] /\ y \notin M
    BY <1>1, <1>10 DEF Whereabouts, Typed, TypeOK
  <2> QED BY <1>2, <1>8, <1>9, <2>1, <2>2, <2>3, EndedMoved
<1>11. CASE x # Nothing
  <2> DEFINE M == {x}
             q == InList(l)
  <2>1. /\ q \in Places /\ q # IsGone
        /\ \A m \in Lists : q = InList(m) <=> m = l
        /\ \A v \in Workers : q # InHand(v)
    BY <1>3, PlaceFacts DEF IsGone, InList, InHand, Whereabouts
  <2>2. /\ \A v \in Workers : x \in hand[v] => v = w
        /\ \A m \in Lists : x \notin Items(queue[m])
        /\ x \notin Gone
    BY <1>1, <1>5, <1>11, PlacedFacts DEF Whereabouts, Placed
  <2> HIDE DEF q
  <2>3. \A m \in Lists : \A y \in Item : y \in Items(queue'[m]) <=>
          IF y \in M THEN q = InList(m) ELSE y \in Items(queue[m])
    BY <1>4, <1>7, <2>1, <2>2
  <2>4. \A v \in Workers : \A y \in Item : y \in hand'[v] <=>
          IF y \in M THEN q = InHand(v) ELSE y \in hand[v]
    <3> TAKE v \in Workers
    <3>1. hand'[v] = IF v = w THEN hand[w] \ {x} ELSE hand[v]
      BY <1>1, <1>11 DEF Whereabouts, Typed, TypeOK
    <3> QED BY <2>1, <2>2, <3>1
  <2>5. \A y \in Item : y \in Gone' <=> IF y \in M THEN q = IsGone ELSE y \in Gone
    BY <1>2, <2>1, <2>2
  <2>6. Placed'
    <3>1. Shift({}, M, q, q)
      BY <1>2, <1>5, <1>11, <2>1, <2>3, <2>4, <2>5 DEF Shift
    <3> QED BY <3>1, Moved DEF Whereabouts
  <2> QED BY <1>2, <1>8, <1>9, <2>6 DEF Whereabouts, PartsAfter, OnePlace, Placed, Lists
<1> QED BY <1>10, <1>11

\* LTRIM ends the items it removes.
LEMMA LTrimMoved ==
  ASSUME Whereabouts, Typed', NEW w \in Workers, LTrim(w)
  PROVE  Placed' /\ PartsAfter' /\ OnePlace'
<1> DEFINE l == target[w]
           kept == Trimmed(queue[l], Max[l])
           M == Overflow(l)
<1>1. l \in Lists /\ queue[l] \in Seq(Thing) /\ Max[l] \in Nat \ {0} /\ ListOnce(queue[l])
  BY ConstantFacts DEF Whereabouts, Typed, TypeOK, Thing, OnePlace
<1>2. Items(kept) \subseteq Items(queue[l]) /\ ListOnce(kept)
  <2>1. Items(kept) \subseteq Items(queue[l])
    BY <1>1, TrimmedFacts
  <2>2. ListOnce(kept)
    BY <1>1, OnceTrimmed
  <2> QED BY <2>1, <2>2
<1>3. /\ queue' = [queue EXCEPT ![l] = kept]
      /\ hand' = [hand EXCEPT ![w] = @ \ {Nothing}]
      /\ evicted' = evicted \cup M
      /\ UNCHANGED <<born, consumed, settled, dropped>>
  BY DEF LTrim
<1>4. \A x : x \in M <=> x \in Items(queue[l]) /\ x \notin Items(kept) /\ x # Nothing
  BY DEF Overflow
<1>5. Items(queue[l]) \subseteq Thing
  BY <1>1, ItemsTyped DEF Whereabouts, Typed
<1>6. M \in SUBSET Item
  BY <1>4, <1>5 DEF Thing
<1> HIDE DEF l, kept, M
<1>7. \A m \in Lists : queue'[m] = IF m = l THEN kept ELSE queue[m]
  BY <1>3 DEF Whereabouts, Typed, TypeOK
<1>8. \A x \in M : x \in born /\ (\A v \in Workers : x \notin hand[v])
                   /\ (\A m \in Lists : m # l => x \notin Items(queue[m]))
  BY <1>1, <1>4, <1>6, PlacedFacts DEF Whereabouts, Placed
<1>9. \A m \in Lists : \A x \in Item : x \in Items(queue'[m]) <=> x \in Items(queue[m]) /\ x \notin M
  BY <1>2, <1>4, <1>7, <1>8, NothingAssumption
<1>10. \A v \in Workers : \A x \in Item : x \in hand'[v] <=> x \in hand[v] /\ x \notin M
  BY <1>3, <1>8, NothingAssumption DEF Whereabouts, Typed, TypeOK
<1>11. \A m \in Lists : ListOnce(queue'[m])
  BY <1>2, <1>7 DEF Whereabouts, OnePlace
<1>12. Gone' = Gone \cup M /\ Distinct(consumed') /\ M \subseteq born
  BY <1>3, <1>8 DEF Gone, Whereabouts, OnePlace
<1> QED BY <1>3, <1>6, <1>9, <1>10, <1>11, <1>12, EndedMoved

\* The exporter ends an item.
LEMMA ConsumeMoved ==
  ASSUME Whereabouts, Typed', Consume
  PROVE  Placed' /\ PartsAfter' /\ OnePlace'
<1> DEFINE l == "telemetry"
           x == Head(queue[l])
           M == {x} \ {Nothing}
<1>1. l \in Lists /\ queue[l] \in Seq(Thing) /\ queue[l] # << >> /\ ListOnce(queue[l])
  BY DEF Consume, Whereabouts, Typed, TypeOK, Thing, OnePlace, Lists
<1>2. /\ x \in Thing
      /\ \A y : y \in Items(queue[l]) <=> y \in Items(Popped(queue[l])) \/ y = x
  BY <1>1, PoppedFacts
<1>3. ListOnce(Popped(queue[l])) /\ (x # Nothing => x \notin Items(Popped(queue[l])))
  BY <1>1, OncePopped
<1>4. /\ queue' = [queue EXCEPT ![l] = Popped(@)]
      /\ consumed' = IF x = Nothing THEN consumed ELSE Append(consumed, x)
      /\ UNCHANGED <<hand, born, settled, dropped, evicted>>
  BY DEF Consume, process, fate
<1> HIDE DEF x, l
<1>5. M \in SUBSET Item
  BY <1>2 DEF Thing
<1>6. \A y \in M : y \in Item /\ y \in born /\ y \in Items(queue[l]) /\ y \notin Gone
                   /\ (\A v \in Workers : y \notin hand[v])
                   /\ (\A m \in Lists : m # l => y \notin Items(queue[m]))
  <2>1. \A y \in M : y \in Item /\ y \in Items(queue[l])
    BY <1>2, <1>5
  <2> QED BY <1>1, <2>1, PlacedFacts DEF Whereabouts, Placed
<1>7. \A m \in Lists : queue'[m] = IF m = l THEN Popped(queue[l]) ELSE queue[m]
  BY <1>4 DEF Whereabouts, Typed, TypeOK
<1>8. \A m \in Lists : \A y \in Item : y \in Items(queue'[m]) <=> y \in Items(queue[m]) /\ y \notin M
  <2> TAKE m \in Lists
  <2> TAKE y \in Item
  <2>1. y # Nothing
    BY NothingAssumption
  <2>2. CASE m = l
    BY <1>2, <1>3, <1>7, <2>1, <2>2
  <2>3. CASE m # l
    BY <1>6, <1>7, <2>3
  <2> QED BY <2>2, <2>3
<1>9. \A v \in Workers : \A y \in Item : y \in hand'[v] <=> y \in hand[v] /\ y \notin M
  BY <1>4, <1>6
<1>10. \A m \in Lists : ListOnce(queue'[m])
  BY <1>3, <1>7 DEF Whereabouts, OnePlace
<1>11. Gone' = Gone \cup M /\ Distinct(consumed')
  <2>1. consumed \in Seq(Item) /\ Distinct(consumed)
    BY DEF Whereabouts, Typed, TypeOK, OnePlace
  <2>2. CASE x = Nothing
    BY <1>4, <2>1, <2>2 DEF Gone
  <2>3. CASE x # Nothing
    <3>1. x \in Item /\ x \notin Items(consumed) /\ consumed' = RPushed(consumed, x)
      BY <1>4, <1>6, <2>3 DEF Gone, RPushed
    <3>2. Distinct(RPushed(consumed, x)) /\ \A y : y \in Items(RPushed(consumed, x)) <=> y \in Items(consumed) \/ y = x
      BY <2>1, <3>1, RPushedFacts
    <3>3. Items(consumed') = Items(consumed) \cup M
      BY <2>3, <3>1, <3>2
    <3> QED BY <1>4, <3>1, <3>2, <3>3 DEF Gone
  <2> QED BY <2>2, <2>3
<1>12. M \subseteq born /\ born' = born /\ settled \subseteq settled'
  BY <1>4, <1>6
<1> HIDE DEF M
<1> QED BY <1>5, <1>8, <1>9, <1>10, <1>11, <1>12, EndedMoved

\* A process takes an item from the middle lists, or dies of it.
LEMMA DemuxMoved ==
  ASSUME Whereabouts, Typed', NEW w \in Workers, Demux(w)
  PROVE  Placed' /\ PartsAfter' /\ OnePlace'
<1> DEFINE l == "decoded"
           x == Head(queue[l])
<1>1. /\ MayTake(w) /\ Source(w) = l /\ x \in Item /\ x # Nothing
      /\ \A y : y \in Items(queue[l]) <=> y \in Items(Popped(queue[l])) \/ y = x
      /\ l \in Lists /\ queue[l] \in Seq(Thing) /\ queue[l] # << >>
  BY TakeFacts, NothingAssumption DEF Demux, Source, Whereabouts, Typed, TypeOK, Lists, Thing, MayTake
<1> HIDE DEF l, x
<1>2. CASE Took(w, {x}, "telemetry") /\ UNCHANGED <<born, settled, dropped>>
  BY <1>1, <1>2, KeptMoved DEF x
<1>3. CASE Took(w, {}, "decoded") /\ settled' = settled \cup {x} /\ UNCHANGED <<born, dropped>>
  BY <1>1, <1>3, RejectedMoved DEF x
<1>4. CASE Took(w, {x}, "dlq") /\ UNCHANGED <<born, settled, dropped>>
  BY <1>1, <1>4, KeptMoved DEF x
<1>5. CASE /\ queue' = [queue EXCEPT ![l] = Popped(@)]
           /\ dropped' = dropped \cup {x}
           /\ UNCHANGED <<hand, born, consumed, settled, evicted>>
  <2> DEFINE M == {x}
  <2>1. ListOnce(Popped(queue[l])) /\ x \notin Items(Popped(queue[l]))
    BY <1>1, OncePopped DEF Whereabouts, OnePlace, x
  <2>2. /\ x \in born /\ (\A v \in Workers : x \notin hand[v])
        /\ (\A m \in Lists : m # l => x \notin Items(queue[m]))
    BY <1>1, PlacedFacts DEF Whereabouts, Placed
  <2>3. \A m \in Lists : queue'[m] = IF m = l THEN Popped(queue[l]) ELSE queue[m]
    BY <1>5 DEF Whereabouts, Typed, TypeOK
  <2>4. \A m \in Lists : \A y \in Item : y \in Items(queue'[m]) <=> y \in Items(queue[m]) /\ y \notin M
    BY <1>1, <2>1, <2>2, <2>3
  <2>5. \A v \in Workers : \A y \in Item : y \in hand'[v] <=> y \in hand[v] /\ y \notin M
    BY <1>5, <2>2
  <2>6. \A m \in Lists : ListOnce(queue'[m])
    BY <2>1, <2>3 DEF Whereabouts, OnePlace
  <2>7. /\ Gone' = Gone \cup M /\ Distinct(consumed') /\ M \subseteq born /\ M \in SUBSET Item
        /\ born' = born /\ settled \subseteq settled'
    BY <1>1, <1>5, <2>2 DEF Gone, Whereabouts, OnePlace
  <2> HIDE DEF M
  <2> QED BY <2>4, <2>5, <2>6, <2>7, EndedMoved
<1> QED BY <1>2, <1>3, <1>4, <1>5 DEF Demux, x, l

\* The decode workers take raw frames and recordings.
LEMMA DecodeMoved ==
  ASSUME Whereabouts, Typed', NEW w \in Workers, Decode(w)
  PROVE  Placed' /\ PartsAfter' /\ OnePlace'
<1>1. MayTake(w) /\ Source(w) = "raw"
  BY DEF Decode, Source
<1>2. CASE Took(w, {Head(queue["raw"])}, "decoded") /\ UNCHANGED <<born, settled, dropped>>
  BY <1>1, <1>2, KeptMoved
<1>3. CASE Took(w, {}, "decoded") /\ settled' = settled \cup {Head(queue["raw"])} /\ UNCHANGED <<born, dropped>>
  BY <1>1, <1>3, RejectedMoved
<1> QED BY <1>2, <1>3 DEF Decode

LEMMA TakeAudioMoved ==
  ASSUME Whereabouts, Typed', NEW w \in Workers, TakeAudio(w)
  PROVE  Placed' /\ PartsAfter' /\ OnePlace'
<1>1. MayTake(w) /\ Source(w) = "audio"
  BY DEF TakeAudio, Source
<1> QED BY <1>1, KeptMoved DEF TakeAudio

\* The frames found in a recording are new, because a recording in a hand has
\* not been used up.
LEMMA DecodeAudioMoved ==
  ASSUME Whereabouts, Typed', NEW w \in Workers, DecodeAudio(w)
  PROVE  Placed' /\ PartsAfter' /\ OnePlace'
<1>1. PICK x \in Recordings : \E frames \in SUBSET ({x[1]} \X (1 .. MaxFrames)) :
        /\ hand[w] = {x} /\ hand' = [hand EXCEPT ![w] = frames]
        /\ born' = born \cup frames /\ settled' = settled \cup {x}
        /\ frames \subseteq Item /\ x \notin frames
        /\ \A y \in frames : y[2] # 0 /\ <<y[1], 0>> = x
  BY AudioFacts DEF Whereabouts
<1>2. PICK frames \in SUBSET Item :
        /\ hand' = [hand EXCEPT ![w] = frames]
        /\ born' = born \cup frames /\ settled' = settled \cup {x}
        /\ x \notin frames
        /\ \A y \in frames : y[2] # 0 /\ <<y[1], 0>> = x
  BY <1>1
<1>3. UNCHANGED <<queue, consumed, dropped, evicted>>
  BY DEF DecodeAudio
<1>4. x \in Item /\ x \in born /\ x \notin Gone /\ x \notin settled
  BY <1>1, ConstantFacts, PlacedFacts DEF Whereabouts, Placed, Gone
<1>5. frames \cap born = {}
  BY <1>2, <1>4 DEF Whereabouts, PartsAfter
<1>6. \A y \in frames :
        y \notin Gone /\ (\A m \in Lists : y \notin Items(queue[m]))
                      /\ (\A v \in Workers : y \notin hand[v])
  BY <1>5, PlacedFacts DEF Whereabouts, Placed
<1>14. hand[w] = {x}
  BY <1>1
<1> DEFINE n == InHand(w)
           q == IsGone
           M == {x}
<1>7. \A m \in Lists : \A y \in Item : y \in Items(queue'[m]) <=>
        IF y \in frames THEN n = InList(m) ELSE IF y \in M THEN q = InList(m) ELSE y \in Items(queue[m])
  <2>1. \A m \in Lists : n # InList(m) /\ q # InList(m) /\ x \notin Items(queue[m])
    BY <1>1, <1>4, PlacedFacts DEF InHand, InList, IsGone, Whereabouts, Placed
  <2> QED BY <1>3, <1>6, <2>1
<1>8. \A v \in Workers : \A y \in Item : y \in hand'[v] <=>
        IF y \in frames THEN n = InHand(v) ELSE IF y \in M THEN q = InHand(v) ELSE y \in hand[v]
  <2> TAKE v \in Workers
  <2>1. (n = InHand(v) <=> v = w) /\ q # InHand(v)
    BY DEF InHand, IsGone
  <2>2. v # w => x \notin hand[v]
    BY <1>1, <1>4, PlacedFacts DEF Whereabouts, Placed
  <2>3. hand'[v] = IF v = w THEN frames ELSE hand[v]
    BY <1>2 DEF Whereabouts, Typed, TypeOK
  <2>4. x \notin frames /\ \A y \in frames : y \notin hand[v]
    BY <1>2, <1>6
  <2> HIDE DEF n, q
  <2> QED BY <1>14, <2>1, <2>2, <2>3, <2>4
<1>9. \A y \in Item : y \in Gone' <=>
        IF y \in frames THEN n = IsGone ELSE IF y \in M THEN q = IsGone ELSE y \in Gone
  <2>1. n # IsGone
    BY DEF InHand, IsGone
  <2>2. \A y : y \in Gone' <=> y \in Gone \/ y = x
    BY <1>2, <1>3 DEF Gone
  <2>3. x \notin frames /\ \A y \in frames : y \notin Gone
    BY <1>2, <1>6
  <2> HIDE DEF n
  <2> QED BY <2>1, <2>2, <2>3
<1>10. n \in Places /\ q \in Places
  BY PlaceFacts DEF Whereabouts
<1>11. Placed'
  <2> HIDE DEF n, q
  <2>1. M \subseteq born /\ born' = born \cup frames
    BY <1>2, <1>4
  <2> HIDE DEF M
  <2>2. Shift(frames, M, n, q)
    BY <1>7, <1>8, <1>9, <1>10, <2>1 DEF Shift
  <2> QED BY <2>2, Moved DEF Whereabouts
<1>12. PartsAfter'
  BY <1>2 DEF Whereabouts, PartsAfter
<1>13. OnePlace'
  BY <1>3, <1>11 DEF Whereabouts, OnePlace, Placed
<1> QED BY <1>11, <1>12, <1>13

\* Any step moves items from place to place.
LEMMA StepMoved == Whereabouts /\ Typed' /\ [Next]_vars => Placed' /\ PartsAfter' /\ OnePlace'
<1> SUFFICES ASSUME Whereabouts, Typed', [Next]_vars PROVE Placed' /\ PartsAfter' /\ OnePlace'
  OBVIOUS
<1> DEFINE Goal == Placed' /\ PartsAfter' /\ OnePlace'
<1>1. ASSUME UNCHANGED <<queue, hand, born, consumed, fate>> PROVE Goal
  <2> DEFINE M == {}
  <2>1. M \in SUBSET Item /\ M \subseteq born /\ born' = born /\ settled \subseteq settled' /\ Gone' = Gone \cup M
    BY <1>1 DEF fate, Gone
  <2>2. \A l \in Lists : \A x \in Item : x \in Items(queue'[l]) <=> x \in Items(queue[l]) /\ x \notin M
    BY <1>1
  <2>3. \A w \in Workers : \A x \in Item : x \in hand'[w] <=> x \in hand[w] /\ x \notin M
    BY <1>1
  <2>4. (\A l \in Lists : ListOnce(queue'[l])) /\ Distinct(consumed')
    BY <1>1 DEF Whereabouts, OnePlace
  <2> HIDE DEF M
  <2> QED BY <2>1, <2>2, <2>3, <2>4, EndedMoved
<1>2. ASSUME NEW w \in Workers, NEW M \in SUBSET hand[w], Nothing \notin M,
             \A x \in Item : x \in hand[w] => x \in M,
             hand' = [hand EXCEPT ![w] = {}], dropped' = dropped \cup M,
             UNCHANGED <<queue, born, consumed, settled, evicted>>
      PROVE  Goal
  <2>1. M \in SUBSET Item /\ Gone' = Gone \cup M
    BY <1>2 DEF Whereabouts, Typed, TypeOK, Gone
  <2>2. \A x \in M : x \in born /\ (\A l \in Lists : x \notin Items(queue[l]))
                     /\ (\A v \in Workers : x \in hand[v] => v = w)
    BY <1>2, <2>1, PlacedFacts DEF Whereabouts, Placed
  <2>3. \A l \in Lists : \A x \in Item : x \in Items(queue'[l]) <=> x \in Items(queue[l]) /\ x \notin M
    BY <1>2, <2>2
  <2>4. \A v \in Workers : \A x \in Item : x \in hand'[v] <=> x \in hand[v] /\ x \notin M
    BY <1>2, <2>2 DEF Whereabouts, Typed, TypeOK
  <2>5. (\A l \in Lists : ListOnce(queue'[l])) /\ Distinct(consumed')
    BY <1>2 DEF Whereabouts, OnePlace
  <2>6. M \subseteq born /\ born' = born /\ settled \subseteq settled'
    BY <1>2, <2>2
  <2> QED BY <2>1, <2>3, <2>4, <2>5, <2>6, EndedMoved
<1>3. ASSUME NEW s \in RawSources, Arrive("raw", <<s, 0>>) PROVE Goal
  <2>1. <<s, 0>> \in Whole
    BY DEF Whole
  <2> QED BY <1>3, <2>1, ArriveMoved
<1>4. ASSUME NEW s \in AudioSources, Arrive("audio", <<s, 0>>) PROVE Goal
  <2>1. <<s, 0>> \in Whole
    BY DEF Whole
  <2> QED BY <1>4, <2>1, ArriveMoved
<1>5. ASSUME NEW w \in Workers, Start(w) \/ Exit(w) \/ Sigterm(w) PROVE Goal
  BY <1>1, <1>5 DEF Start, Exit, Sigterm
<1>6. ASSUME NEW w \in Workers, DemuxDecoupled(w) PROVE Goal
  <2>1. MayTake(w) /\ Source(w) = "decoded"
    BY <1>6 DEF DemuxDecoupled, Source
  <2>2. CASE Took(w, {Head(queue["decoded"])}, "telemetry") /\ UNCHANGED <<born, settled, dropped>>
    BY <2>1, <2>2, KeptMoved
  <2>3. ASSUME NEW l, NEW things \in SUBSET {Nothing}, Took(w, things, l), UNCHANGED <<born, dropped>>,
               settled' = settled \cup {Head(queue["decoded"])}
        PROVE  Goal
    BY <2>1, <2>3, RejectedMoved
  <2> QED BY <1>6, <2>2, <2>3 DEF DemuxDecoupled
<1>7. ASSUME NEW w \in Workers, DeadLetterFails(w) PROVE Goal
  <2>1. Nothing \notin hand[w]
    BY <1>7 DEF DeadLetterFails, Whereabouts, Typed, HandOK
  <2> QED BY <1>2, <1>7, <2>1 DEF DeadLetterFails
<1>8. ASSUME NEW w \in Workers, Crash(w) PROVE Goal
  <2> DEFINE M == hand[w] \ {Nothing}
  <2>1. M \in SUBSET hand[w] /\ Nothing \notin M /\ \A x \in Item : x \in hand[w] => x \in M
    BY NothingAssumption
  <2>2. dropped' = dropped \cup M
    BY <1>8 DEF Crash
  <2> HIDE DEF M
  <2> QED BY <1>2, <1>8, <2>1, <2>2 DEF Crash
<1>9. ASSUME NEW w \in Workers, Step(w) PROVE Goal
  BY <1>5, <1>6, <1>7, <1>9, DecodeMoved, TakeAudioMoved, DecodeAudioMoved, DemuxMoved, RPushMoved, LTrimMoved DEF Step
<1>10. CASE UNCHANGED vars
  BY <1>1, <1>10 DEF vars, process
<1> QED BY <1>3, <1>4, <1>5, <1>8, <1>9, <1>10, ConsumeMoved DEF Next

LEMMA InitMoved == Init => Placed /\ PartsAfter /\ OnePlace
<1> SUFFICES ASSUME Init PROVE Placed /\ PartsAfter /\ OnePlace
  OBVIOUS
<1>1. Typed /\ Items(<< >>) = {}
  BY InitTyped DEF Items
<1>2. \A p \in Places : Contents(p) = {}
  BY <1>1, PlaceFacts DEF Init, Gone
<1>3. Placed
  BY <1>2 DEF Placed, Apart, Known, EveryItemIsSomewhere, Init
<1>4. ListOnce(<< >>) /\ Distinct(<< >>)
  BY DEF ListOnce, Distinct
<1> QED BY <1>3, <1>4 DEF Init, PartsAfter, OnePlace, Placed

LEMMA WhereaboutsCorrect == Spec => []Whereabouts
<1>1. Init => Whereabouts
  BY InitTyped, InitMoved DEF Whereabouts
<1>2. Whereabouts /\ [Next]_vars => Whereabouts'
  BY StepTyped, StepMoved DEF Whereabouts
<1> QED BY <1>1, <1>2, PTL DEF Spec

\* No item is ever in two places of the pipeline: two workers of one role never
\* get the same frame, and no frame is consumed twice.
THEOREM OnePlaceCorrect == Spec => []OnePlace
<1>1. Whereabouts => OnePlace
  BY DEF Whereabouts
<1> QED BY <1>1, WhereaboutsCorrect, PTL

\* No item ever vanishes: what is in no list and in no hand was consumed,
\* rejected, evicted, or dropped by a crash or a refused dead letter.
THEOREM EveryItemIsSomewhereCorrect == Spec => []EveryItemIsSomewhere
<1>1. Whereabouts => EveryItemIsSomewhere
  BY DEF Whereabouts, Placed
<1> QED BY <1>1, WhereaboutsCorrect, PTL

-----------------------------------------------------------------------------
(* How long a list may be.                                                  *)

Trimming(l) == { w \in Workers : pc[w] = "ltrim" /\ target[w] = l }

Overshoots(l) == Len(queue[l]) <= Max[l] + untrimmed[l] + Cardinality(Trimming(l))

LEMMA TrimmingFinite ==
  \A l \in Lists : IsFiniteSet(Trimming(l)) /\ Cardinality(Trimming(l)) \in Nat
BY WorkersAssumption, FS_Subset, FS_CardinalityType DEF Trimming

LEMMA OneMore ==
  ASSUME NEW S, IsFiniteSet(S), NEW x
  PROVE  /\ IsFiniteSet(S \cup {x})
         /\ Cardinality(S \cup {x}) \in Nat
         /\ Cardinality(S \cup {x}) <= Cardinality(S) + 1
<1>1. Cardinality(S) \in Nat /\ IsFiniteSet(S \cup {x})
  BY FS_CardinalityType, FS_AddElement
<1>2. Cardinality(S \cup {x}) = IF x \in S THEN Cardinality(S) ELSE Cardinality(S) + 1
  BY FS_AddElement
<1> QED BY <1>1, <1>2, FS_CardinalityType

\* A step that makes no list longer and leaves the trimming processes alone.
LEMMA NoLonger ==
  ASSUME Typed, Typed', NEW l \in Lists, Overshoots(l),
         Len(queue'[l]) <= Len(queue[l]), Trimming(l)' = Trimming(l), untrimmed'[l] = untrimmed[l]
  PROVE  Overshoots(l)'
<1>1. /\ Max[l] \in Nat /\ untrimmed[l] \in Nat /\ Len(queue[l]) \in Nat /\ Len(queue'[l]) \in Nat
      /\ Cardinality(Trimming(l)) \in Nat
  BY ConstantFacts, TrimmingFinite, LenProperties DEF Typed, TypeOK
<1> QED BY <1>1 DEF Overshoots

\* A process that leaves off between its RPUSH and its LTRIM is counted among
\* the pushes cut off instead.
LEMMA LeavesOff ==
  ASSUME Typed, Typed', NEW l \in Lists, Overshoots(l), NEW w \in Workers,
         CutShort(w), queue' = queue, pc'[w] # "ltrim",
         \A v \in Workers \ {w} : pc'[v] = pc[v] /\ target'[v] = target[v]
  PROVE  Overshoots(l)'
<1>1. /\ Max[l] \in Nat /\ untrimmed[l] \in Nat /\ Len(queue[l]) \in Nat
      /\ IsFiniteSet(Trimming(l)) /\ Cardinality(Trimming(l)) \in Nat
  BY ConstantFacts, TrimmingFinite, LenProperties DEF Typed, TypeOK
<1>2. Trimming(l)' = Trimming(l) \ {w}
  BY DEF Trimming
<1>3. CASE w \in Trimming(l)
  <2>1. untrimmed'[l] = untrimmed[l] + 1
    BY <1>3 DEF CutShort, Trimming, Typed, TypeOK
  <2>2. Cardinality(Trimming(l) \ {w}) = Cardinality(Trimming(l)) - 1
    BY <1>1, <1>3, FS_RemoveElement
  <2> QED BY <1>1, <1>2, <2>1, <2>2 DEF Overshoots
<1>4. CASE w \notin Trimming(l)
  <2>1. untrimmed'[l] = untrimmed[l]
    BY <1>4 DEF CutShort, Trimming, Typed, TypeOK
  <2> QED BY <1>1, <1>2, <1>4, <2>1, NoLonger
<1> QED BY <1>3, <1>4

\* Taking an item from a list makes it shorter.
LEMMA TookOvershoots ==
  ASSUME Typed, Typed', NEW l \in Lists, Overshoots(l), NEW w \in Workers, MayTake(w),
         queue' = [queue EXCEPT ![Source(w)] = Popped(@)], untrimmed' = untrimmed,
         pc'[w] # "ltrim", \A v \in Workers \ {w} : pc'[v] = pc[v] /\ target'[v] = target[v]
  PROVE  Overshoots(l)'
<1>1. pc[w] = "top" /\ queue[Source(w)] # << >>
  BY DEF MayTake
<1>2. Trimming(l)' = Trimming(l)
  BY <1>1 DEF Trimming
<1>3. queue[l] \in Seq(Thing)
  BY DEF Typed, TypeOK, Thing
<1>4. queue'[l] = queue[l] \/ (queue[l] # << >> /\ queue'[l] = Popped(queue[l]))
  BY <1>1 DEF Typed, TypeOK
<1>5. Len(queue'[l]) <= Len(queue[l])
  <2>1. Len(queue[l]) \in Nat
    BY <1>3, LenProperties
  <2>2. CASE queue'[l] = queue[l]
    BY <2>1, <2>2
  <2>3. CASE queue[l] # << >> /\ queue'[l] = Popped(queue[l])
    <3>1. Len(Popped(queue[l])) = Len(queue[l]) - 1
      BY <1>3, <2>3, PoppedFacts
    <3> QED BY <2>1, <2>3, <3>1
  <2> QED BY <1>4, <2>2, <2>3
<1> QED BY <1>2, <1>5, NoLonger

\* What arrives is trimmed at once.
LEMMA ArriveOvershoots ==
  ASSUME Typed, Typed', NEW l \in Lists, Overshoots(l), NEW m \in {"raw", "audio"},
         NEW x \in Item, Arrive(m, x)
  PROVE  Overshoots(l)'
<1>1. Trimming(l)' = Trimming(l) /\ untrimmed' = untrimmed
  BY DEF Arrive, process, Trimming
<1>2. queue' = [queue EXCEPT ![m] = Trimmed(RPushed(@, x), Max[m])]
  BY DEF Arrive
<1>3. CASE l = m
  <2>1. queue[m] \in Seq(Thing) /\ x \in Thing /\ Max[m] \in Nat \ {0}
    BY <1>3, ConstantFacts DEF Typed, TypeOK, Thing
  <2>2. RPushed(queue[m], x) \in Seq(Thing)
    BY <2>1, PushThing
  <2>3. queue'[l] = Trimmed(RPushed(queue[m], x), Max[m])
    BY <1>2, <1>3 DEF Typed, TypeOK
  <2>4. Len(queue'[l]) <= Max[l]
    <3>1. Len(RPushed(queue[m], x)) \in Nat
      BY <2>2, LenProperties
    <3> QED BY <1>3, <2>1, <2>2, <2>3, <3>1, TrimmedFacts
  <2>5. Len(queue'[l]) \in Nat /\ untrimmed[l] \in Nat /\ Cardinality(Trimming(l)) \in Nat
    BY TrimmingFinite, LenProperties DEF Typed, TypeOK
  <2> QED BY <1>1, <1>3, <2>1, <2>4, <2>5 DEF Overshoots
<1>4. CASE l # m
  <2>1. queue'[l] = queue[l] /\ Len(queue[l]) \in Nat
    BY <1>2, <1>4, LenProperties DEF Typed, TypeOK
  <2> QED BY <1>1, <2>1, NoLonger
<1> QED BY <1>3, <1>4

LEMMA RPushOvershoots ==
  ASSUME Typed, Typed', NEW l \in Lists, Overshoots(l), NEW w \in Workers, RPush(w)
  PROVE  Overshoots(l)'
<1>1. PICK x \in hand[w] : queue' = [queue EXCEPT ![target[w]] = RPushed(@, x)]
  BY DEF RPush
<1>2. /\ pc[w] = "rpush" /\ pc'[w] = "ltrim" /\ target' = target /\ untrimmed' = untrimmed
      /\ \A v \in Workers \ {w} : pc'[v] = pc[v]
  BY DEF RPush, Typed, TypeOK
<1>3. CASE l = target[w]
  <2>1. queue[l] \in Seq(Thing) /\ x \in Thing
    BY DEF Typed, TypeOK, Thing
  <2>2. queue'[l] = RPushed(queue[l], x)
    BY <1>1, <1>3 DEF Typed, TypeOK
  <2>3. Len(queue'[l]) = Len(queue[l]) + 1 /\ Len(queue[l]) \in Nat
    <3>1. Len(RPushed(queue[l], x)) = Len(queue[l]) + 1
      BY <2>1, RPushedFacts
    <3> QED BY <2>1, <2>2, <3>1, LenProperties
  <2>4. w \notin Trimming(l) /\ Trimming(l)' = Trimming(l) \cup {w}
    BY <1>2, <1>3 DEF Trimming
  <2>5. Cardinality(Trimming(l)') = Cardinality(Trimming(l)) + 1
    BY <2>4, TrimmingFinite, FS_AddElement
  <2>6. Max[l] \in Nat /\ untrimmed[l] \in Nat /\ Cardinality(Trimming(l)) \in Nat
    BY ConstantFacts, TrimmingFinite DEF Typed, TypeOK
  <2> QED BY <1>2, <2>3, <2>5, <2>6 DEF Overshoots
<1>4. CASE l # target[w]
  <2>1. queue'[l] = queue[l] /\ Len(queue[l]) \in Nat
    BY <1>1, <1>4, LenProperties DEF Typed, TypeOK
  <2>2. Trimming(l)' = Trimming(l)
    BY <1>2, <1>4 DEF Trimming
  <2> QED BY <1>2, <2>1, <2>2, NoLonger
<1> QED BY <1>3, <1>4

LEMMA LTrimOvershoots ==
  ASSUME Typed, Typed', NEW l \in Lists, Overshoots(l), NEW w \in Workers, LTrim(w)
  PROVE  Overshoots(l)'
<1>1. /\ pc[w] = "ltrim" /\ pc'[w] # "ltrim" /\ untrimmed' = [untrimmed EXCEPT ![target[w]] = 0]
      /\ \A v \in Workers \ {w} : pc'[v] = pc[v] /\ target'[v] = target[v]
      /\ queue' = [queue EXCEPT ![target[w]] = Trimmed(@, Max[target[w]])]
  BY DEF LTrim, Typed, TypeOK
<1>2. CASE l = target[w]
  <2>1. queue[l] \in Seq(Thing) /\ Max[l] \in Nat \ {0} /\ queue'[l] = Trimmed(queue[l], Max[l])
    BY <1>1, <1>2, ConstantFacts DEF Typed, TypeOK, Thing
  <2>2. Len(queue'[l]) <= Max[l]
    <3>1. Len(queue[l]) \in Nat
      BY <2>1, LenProperties
    <3> QED BY <2>1, <3>1, TrimmedFacts
  <2>3. Len(queue'[l]) \in Nat /\ untrimmed'[l] \in Nat
    BY LenProperties DEF Typed, TypeOK
  <2>4. Cardinality(Trimming(l)') \in Nat
    BY WorkersAssumption, FS_Subset, FS_CardinalityType DEF Trimming
  <2> QED BY <1>1, <2>1, <2>2, <2>3, <2>4 DEF Overshoots
<1>3. CASE l # target[w]
  <2>1. queue'[l] = queue[l] /\ Len(queue[l]) \in Nat /\ untrimmed'[l] = untrimmed[l]
    BY <1>1, <1>3, LenProperties DEF Typed, TypeOK
  <2>2. Trimming(l)' = Trimming(l)
    BY <1>1, <1>3 DEF Trimming
  <2> QED BY <1>1, <2>1, <2>2, NoLonger
<1> QED BY <1>2, <1>3

LEMMA StepOvershoots ==
  ASSUME Typed, [Next]_vars, NEW l \in Lists, Overshoots(l)
  PROVE  Overshoots(l)'
<1>1. Typed' /\ Len(queue[l]) \in Nat
  BY StepTyped, LenProperties DEF Typed, TypeOK
<1>2. ASSUME NEW s \in RawSources, Arrive("raw", <<s, 0>>) PROVE Overshoots(l)'
  BY <1>1, <1>2, ConstantFacts, ArriveOvershoots
<1>3. ASSUME NEW s \in AudioSources, Arrive("audio", <<s, 0>>) PROVE Overshoots(l)'
  BY <1>1, <1>3, ConstantFacts, ArriveOvershoots DEF Recordings
<1>4. CASE Consume
  <2>1. Trimming(l)' = Trimming(l) /\ untrimmed' = untrimmed
    BY <1>4 DEF Consume, process, Trimming
  <2>2. queue[l] \in Seq(Thing)
    BY DEF Typed, TypeOK, Thing
  <2>3. queue'[l] = queue[l] \/ (queue[l] # << >> /\ queue'[l] = Popped(queue[l]))
    BY <1>4 DEF Consume, Typed, TypeOK
  <2>4. CASE queue'[l] = queue[l]
    BY <1>1, <2>1, <2>4, NoLonger
  <2>5. CASE queue[l] # << >> /\ queue'[l] = Popped(queue[l])
    <3>1. Len(queue'[l]) = Len(queue[l]) - 1
      BY <2>2, <2>5, PoppedFacts
    <3> QED BY <1>1, <2>1, <3>1, NoLonger
  <2> QED BY <2>3, <2>4, <2>5
<1>5. ASSUME NEW w \in Workers, Decode(w) \/ TakeAudio(w) \/ Demux(w) \/ DemuxDecoupled(w)
      PROVE  Overshoots(l)'
  <2>1. /\ MayTake(w) /\ untrimmed' = untrimmed
        /\ pc'[w] # "ltrim" /\ \A v \in Workers \ {w} : pc'[v] = pc[v] /\ target'[v] = target[v]
    BY <1>5 DEF Decode, TakeAudio, Demux, DemuxDecoupled, Took, Typed, TypeOK
  <2>2. queue' = [queue EXCEPT ![Source(w)] = Popped(@)]
    BY <1>5 DEF Decode, TakeAudio, Demux, DemuxDecoupled, Took, Source
  <2> QED BY <1>1, <2>1, <2>2, TookOvershoots
<1>6. ASSUME NEW w \in Workers, DeadLetterFails(w) \/ Crash(w) PROVE Overshoots(l)'
  <2>1. /\ CutShort(w) /\ queue' = queue /\ pc'[w] # "ltrim"
        /\ \A v \in Workers \ {w} : pc'[v] = pc[v] /\ target'[v] = target[v]
    BY <1>6 DEF DeadLetterFails, Crash, Typed, TypeOK
  <2> QED BY <1>1, <2>1, LeavesOff
<1>7. ASSUME NEW w \in Workers, Sigterm(w) PROVE Overshoots(l)'
  <2>1. Trimming(l)' = Trimming(l) /\ UNCHANGED <<queue, untrimmed>>
    BY <1>7 DEF Sigterm, Trimming
  <2> QED BY <1>1, <2>1, NoLonger
<1>8. ASSUME NEW w \in Workers, Start(w) \/ Exit(w) \/ DecodeAudio(w) PROVE Overshoots(l)'
  <2>1. /\ UNCHANGED <<queue, untrimmed, target>>
        /\ pc[w] # "ltrim" /\ pc'[w] # "ltrim" /\ \A v \in Workers \ {w} : pc'[v] = pc[v]
    BY <1>8 DEF Start, Exit, DecodeAudio, Typed, TypeOK
  <2>2. Trimming(l)' = Trimming(l)
    BY <2>1 DEF Trimming
  <2> QED BY <1>1, <2>1, <2>2, NoLonger
<1>9. CASE UNCHANGED vars
  <2>1. Trimming(l)' = Trimming(l) /\ UNCHANGED <<queue, untrimmed>>
    BY <1>9 DEF vars, process, Trimming
  <2> QED BY <1>1, <2>1, NoLonger
<1>10. ASSUME NEW w \in Workers, Step(w) PROVE Overshoots(l)'
  BY <1>1, <1>5, <1>6, <1>8, <1>10, RPushOvershoots, LTrimOvershoots DEF Step
<1> QED BY <1>2, <1>3, <1>4, <1>6, <1>7, <1>9, <1>10 DEF Next

\* Any list of the pipeline stands above its maximum by the pushes in flight
\* and those that were cut off, and by no more, however many workers push to it.
THEOREM BoundedOvershootCorrect == Spec => []BoundedOvershoot
<1> DEFINE Bounded == \A l \in Lists : Overshoots(l)
<1>1. Init => Typed /\ Bounded
  <2> SUFFICES ASSUME Init, NEW l \in Lists PROVE Overshoots(l)
    BY InitTyped
  <2>1. queue[l] = << >> /\ untrimmed[l] = 0
    BY DEF Init
  <2>2. Len(queue[l]) = 0 /\ Max[l] \in Nat /\ Cardinality(Trimming(l)) \in Nat
    BY <2>1, ConstantFacts, TrimmingFinite
  <2> QED BY <2>1, <2>2 DEF Overshoots
<1>2. Typed /\ Bounded /\ [Next]_vars => Typed' /\ Bounded'
  <2> SUFFICES ASSUME Typed, Bounded, [Next]_vars, NEW l \in Lists PROVE Overshoots(l)'
    BY StepTyped
  <2> QED BY StepOvershoots
<1>3. Bounded => BoundedOvershoot
  BY DEF Overshoots, Trimming, BoundedOvershoot
<1> HIDE DEF Bounded
<1> QED BY <1>1, <1>2, <1>3, PTL DEF Spec

-----------------------------------------------------------------------------
(* The scan of the depths.                                                  *)

\* A frame that has left the lists of ingest does not come back to them.
LEMMA NeverBack ==
  ASSUME Typed, [Next]_vars, NEW x \in born, NEW l \in {"raw", "audio"}, x \notin Items(queue[l])
  PROVE  x \notin Items(queue'[l])
<1>1. /\ l \in Lists /\ queue[l] \in Seq(Thing)
      /\ queue[l] # << >> => Items(Popped(queue[l])) \subseteq Items(queue[l])
  BY PoppedFacts DEF Typed, TypeOK, Thing, Lists
<1>2. ASSUME NEW m \in {"raw", "audio"}, NEW y \in Item, Arrive(m, y) PROVE x \notin Items(queue'[l])
  <2>1. y \notin born /\ queue' = [queue EXCEPT ![m] = Trimmed(RPushed(@, y), Max[m])]
    BY <1>2 DEF Arrive
  <2>2. CASE l = m
    <3>1. y \in Thing /\ Max[l] \in Nat \ {0}
      BY <1>1, ConstantFacts DEF Thing
    <3>2. RPushed(queue[l], y) \in Seq(Thing) /\ x \notin Items(RPushed(queue[l], y))
      BY <1>1, <2>1, <3>1, PushThing
    <3>3. Items(Trimmed(RPushed(queue[l], y), Max[l])) \subseteq Items(RPushed(queue[l], y))
      BY <3>1, <3>2, TrimmedFacts
    <3> QED BY <1>1, <2>1, <2>2, <3>2, <3>3 DEF Typed, TypeOK
  <2>3. CASE l # m
    BY <1>1, <2>1, <2>3 DEF Typed, TypeOK
  <2> QED BY <2>2, <2>3
<1>3. ASSUME NEW s \in RawSources, Arrive("raw", <<s, 0>>) PROVE x \notin Items(queue'[l])
  BY <1>2, <1>3, ConstantFacts
<1>4. ASSUME NEW s \in AudioSources, Arrive("audio", <<s, 0>>) PROVE x \notin Items(queue'[l])
  BY <1>2, <1>4, ConstantFacts DEF Recordings
<1>5. ASSUME NEW w \in Workers, Decode(w) \/ TakeAudio(w) \/ Demux(w) \/ DemuxDecoupled(w)
      PROVE  x \notin Items(queue'[l])
  <2>1. queue[Source(w)] # << >> /\ queue' = [queue EXCEPT ![Source(w)] = Popped(@)]
    BY <1>5 DEF Decode, TakeAudio, Demux, DemuxDecoupled, MayTake, Took, Source
  <2> QED BY <1>1, <2>1 DEF Typed, TypeOK
<1>6. ASSUME NEW w \in Workers, RPush(w) \/ LTrim(w) PROVE x \notin Items(queue'[l])
  <2>1. l # target[w]
    BY DEF Typed, HandOK
  <2>2. queue'[l] = queue[l]
    <3>1. CASE RPush(w)
      <4>1. PICK y \in hand[w] : queue' = [queue EXCEPT ![target[w]] = RPushed(@, y)]
        BY <3>1 DEF RPush
      <4> QED BY <2>1, <4>1 DEF Typed, TypeOK
    <3>2. CASE LTrim(w)
      <4>1. queue' = [queue EXCEPT ![target[w]] = Trimmed(@, Max[target[w]])]
        BY <3>2 DEF LTrim
      <4> QED BY <1>1, <2>1, <4>1 DEF Typed, TypeOK
    <3> QED BY <1>6, <3>1, <3>2
  <2> QED BY <2>2
<1>7. ASSUME NEW w \in Workers,
             DecodeAudio(w) \/ DeadLetterFails(w) \/ Exit(w) \/ Start(w) \/ Sigterm(w) \/ Crash(w)
      PROVE  x \notin Items(queue'[l])
  BY <1>7 DEF DecodeAudio, DeadLetterFails, Exit, Start, Sigterm, Crash
<1>8. CASE Consume \/ UNCHANGED vars
  <2>1. queue'[l] = queue[l]
    BY <1>1, <1>8 DEF Consume, vars, Typed, TypeOK
  <2> QED BY <2>1
<1>9. ASSUME NEW w \in Workers, Step(w) PROVE x \notin Items(queue'[l])
  BY <1>5, <1>6, <1>7, <1>9 DEF Step
<1> QED BY <1>3, <1>4, <1>7, <1>8, <1>9 DEF Next

\* History only grows, and readings are read by Consume alone.
LEMMA HistoryGrows ==
  ASSUME [Next]_vars
  PROVE  /\ born \subseteq born' /\ settled \subseteq settled'
         /\ dropped \subseteq dropped' /\ evicted \subseteq evicted'
         /\ ~Consume => UNCHANGED consumed
<1> DEFINE Grows == /\ born \subseteq born' /\ settled \subseteq settled'
                    /\ dropped \subseteq dropped' /\ evicted \subseteq evicted'
                    /\ ~Consume => UNCHANGED consumed
<1>1. ASSUME NEW l, NEW x, Arrive(l, x) PROVE Grows
  BY <1>1 DEF Arrive
<1>2. ASSUME Consume \/ UNCHANGED vars PROVE Grows
  BY <1>2 DEF Consume, vars, fate
<1>3. ASSUME NEW w \in Workers, Start(w) \/ Exit(w) \/ Sigterm(w) PROVE Grows
  BY <1>3 DEF Start, Exit, Sigterm, fate
<1>4. ASSUME NEW w \in Workers, Decode(w) \/ TakeAudio(w) \/ DecodeAudio(w) PROVE Grows
  BY <1>4 DEF Decode, TakeAudio, DecodeAudio, Took
<1>5. ASSUME NEW w \in Workers, Demux(w) \/ DemuxDecoupled(w) PROVE Grows
  BY <1>5 DEF Demux, DemuxDecoupled, Took
<1>6. ASSUME NEW w \in Workers, RPush(w) \/ LTrim(w) PROVE Grows
  BY <1>6 DEF RPush, LTrim, fate
<1>7. ASSUME NEW w \in Workers, DeadLetterFails(w) \/ Crash(w) PROVE Grows
  BY <1>7 DEF DeadLetterFails, Crash
<1> HIDE DEF Grows
<1>8. ASSUME NEW w \in Workers, Step(w) \/ Sigterm(w) \/ Crash(w) PROVE Grows
  BY <1>3, <1>4, <1>5, <1>6, <1>7, <1>8 DEF Step
<1>9. Grows
  BY <1>1, <1>2, <1>8 DEF Next
<1> QED BY <1>9 DEF Grows

\* From the telemetry list a reading goes to its end only.
Last(x) == x \in Items(queue["telemetry"]) \cup Gone

LEMMA LastStays ==
  ASSUME Typed, [Next]_vars, NEW x \in Item, Last(x)
  PROVE  Last(x)'
<1> DEFINE t == queue["telemetry"]
<1>1. t \in Seq(Thing) /\ x # Nothing
  BY NothingAssumption DEF Typed, TypeOK, Thing, Lists
<1>2. /\ settled \subseteq settled' /\ dropped \subseteq dropped' /\ evicted \subseteq evicted'
      /\ ~Consume => UNCHANGED consumed
  BY HistoryGrows
<1>3. CASE Consume
  <2>1. /\ t # << >> /\ queue'["telemetry"] = Popped(t)
        /\ consumed' = IF Head(t) = Nothing THEN consumed ELSE Append(consumed, Head(t))
    BY <1>3 DEF Consume, Typed, TypeOK, Lists
  <2>2. Items(t) = Items(Popped(t)) \cup {Head(t)} /\ Head(t) \in Thing
    BY <1>1, <2>1, PoppedFacts
  <2>3. CASE Head(t) = Nothing
    BY <1>1, <1>2, <2>1, <2>2, <2>3 DEF Last, Gone
  <2>4. CASE Head(t) # Nothing
    <3>1. consumed \in Seq(Item) /\ Head(t) \in Item
      BY <2>2, <2>4 DEF Typed, TypeOK, Thing
    <3>2. \A y : y \in Items(consumed') <=> y \in Items(consumed) \/ y = Head(t)
      BY <2>1, <2>4, <3>1, RPushedFacts DEF RPushed
    <3> QED BY <1>2, <2>1, <2>2, <3>2 DEF Last, Gone
  <2> QED BY <2>3, <2>4
<1>4. ASSUME ~Consume, Items(t) \subseteq Items(queue'["telemetry"]) \cup evicted' PROVE Last(x)'
  BY <1>2, <1>4 DEF Last, Gone
<1>5. ASSUME queue'["telemetry"] = t PROVE Last(x)'
  BY <1>3, <1>4, <1>5
<1>6. ASSUME NEW w \in Workers, RPush(w), ~Consume PROVE Last(x)'
  <2>1. PICK y \in hand[w] : queue' = [queue EXCEPT ![target[w]] = RPushed(@, y)]
    BY <1>6 DEF RPush
  <2>2. y \in Thing
    BY DEF Typed, TypeOK, Thing
  <2>3. queue'["telemetry"] = t \/ queue'["telemetry"] = RPushed(t, y)
    BY <2>1 DEF Typed, TypeOK, Lists
  <2>4. Items(t) \subseteq Items(RPushed(t, y))
    BY <1>1, <2>2, PushThing
  <2> QED BY <1>4, <1>5, <1>6, <2>3, <2>4
<1>7. ASSUME NEW w \in Workers, LTrim(w), ~Consume PROVE Last(x)'
  <2>1. /\ queue' = [queue EXCEPT ![target[w]] = Trimmed(@, Max[target[w]])]
        /\ evicted' = evicted \cup Overflow(target[w])
    BY <1>7 DEF LTrim
  <2>2. CASE target[w] = "telemetry"
    <3>1. queue'["telemetry"] = Trimmed(t, Max["telemetry"])
      BY <2>1, <2>2 DEF Typed, TypeOK, Lists
    <3> QED BY <1>1, <1>2, <1>7, <2>1, <2>2, <3>1 DEF Overflow, Last, Gone
  <2>3. CASE target[w] # "telemetry"
    BY <1>5, <2>1, <2>3 DEF Typed, TypeOK, Lists
  <2> QED BY <2>2, <2>3
<1>8. ASSUME NEW w \in Workers, Decode(w) \/ TakeAudio(w) \/ Demux(w) \/ DemuxDecoupled(w)
      PROVE  Last(x)'
  <2>1. Source(w) # "telemetry" /\ queue' = [queue EXCEPT ![Source(w)] = Popped(@)]
    BY <1>8 DEF Decode, TakeAudio, Demux, DemuxDecoupled, Took, Source
  <2> QED BY <1>5, <2>1 DEF Typed, TypeOK, Lists
<1>9. ASSUME NEW w \in Workers,
             DecodeAudio(w) \/ DeadLetterFails(w) \/ Exit(w) \/ Start(w) \/ Sigterm(w) \/ Crash(w)
      PROVE  Last(x)'
  BY <1>5, <1>9 DEF DecodeAudio, DeadLetterFails, Exit, Start, Sigterm, Crash
<1>10. ASSUME NEW m \in {"raw", "audio"}, NEW y, Arrive(m, y) PROVE Last(x)'
  BY <1>5, <1>10 DEF Arrive, Typed, TypeOK, Lists
<1>11. CASE UNCHANGED vars
  BY <1>5, <1>11 DEF vars
<1>12. ASSUME NEW w \in Workers, Step(w), ~Consume PROVE Last(x)'
  BY <1>6, <1>7, <1>8, <1>9, <1>12 DEF Step
<1> QED BY <1>3, <1>9, <1>10, <1>11, <1>12 DEF Next

\* What a scan knows of a frame it has not counted: it is in front of the
\* queues that were read.
ScanOK ==
  /\ reads \in 0 .. 4
  /\ unheld /\ ~seen =>
       /\ reads > 0 => Frame \in born /\ Frame \notin Items(queue["raw"])
       /\ reads > 1 => Frame \notin Items(queue["audio"])
       /\ reads > 2 => Last(Frame)
       /\ reads < 4

DepthInv == Whereabouts /\ ScanOK

LEMMA StepScan == DepthInv /\ [DepthNext]_<<vars, scan>> => ScanOK'
<1> SUFFICES ASSUME DepthInv, [DepthNext]_<<vars, scan>> PROVE ScanOK'
  OBVIOUS
<1> USE DEF DepthInv
<1>1. CASE ReadDepth
  <2> SUFFICES ASSUME unheld', ~seen'
               PROVE  /\ Frame \in born /\ Frame \notin Items(queue["raw"])
                      /\ reads + 1 > 1 => Frame \notin Items(queue["audio"])
                      /\ reads + 1 > 2 => Last(Frame)
                      /\ reads + 1 < 4
    BY <1>1 DEF ReadDepth, ScanOK, vars, process, fate, Last, Gone
  <2>1. /\ unheld /\ ~seen /\ reads \in 0 .. 3
        /\ \E i \in 1 .. 4 : Frame \in Items(queue[QueueKeys[i]])
        /\ Frame \notin Items(queue[QueueKeys[reads + 1]])
    <3>1. unheld /\ \E i \in 1 .. 4 : Frame \in Items(queue[QueueKeys[i]])
      BY <1>1, Zenon DEF ReadDepth
    <3>2. ~seen /\ Frame \notin Items(queue[QueueKeys[reads + 1]])
      BY <1>1, Zenon DEF ReadDepth
    <3>3. reads \in 0 .. 3
      BY <1>1 DEF ReadDepth, ScanOK
    <3> QED BY <3>1, <3>2, <3>3
  <2>2. /\ QueueKeys[1] = "raw" /\ QueueKeys[2] = "audio"
        /\ QueueKeys[3] = "decoded" /\ QueueKeys[4] = "telemetry"
    BY DEF QueueKeys
  <2>3. PICK l \in {"raw", "audio", "decoded", "telemetry"} : Frame \in Items(queue[l])
    <3>1. PICK i \in 1 .. 4 : Frame \in Items(queue[QueueKeys[i]])
      BY <2>1
    <3>2. i = 1 \/ i = 2 \/ i = 3 \/ i = 4
      OBVIOUS
    <3> QED BY <2>2, <3>1, <3>2
  <2>4. Frame \in born /\ \A m \in Lists : Frame \in Items(queue[m]) => m = l
    BY <2>3, PlacedFacts, FrameAssumption DEF Whereabouts, Placed, Lists
  <2>5. Frame \notin Gone
    BY <2>3, PlacedFacts, FrameAssumption DEF Whereabouts, Placed, Lists
  <2>6. CASE reads = 0
    BY <2>1, <2>2, <2>4, <2>6
  <2>7. CASE reads = 1
    BY <2>1, <2>2, <2>4, <2>7 DEF ScanOK
  <2>8. CASE reads = 2
    <3>1. Frame \notin Items(queue["raw"]) /\ Frame \notin Items(queue["audio"])
      BY <2>1, <2>8 DEF ScanOK
    <3>2. Frame \notin Items(queue["decoded"])
      BY <2>1, <2>2, <2>8
    <3> QED BY <2>3, <2>4, <2>8, <3>1, <3>2 DEF Last
  <2>9. CASE reads = 3
    <3>1. Last(Frame) /\ Frame \notin Items(queue["telemetry"])
      BY <2>1, <2>2, <2>9 DEF ScanOK
    <3> QED BY <2>5, <3>1 DEF Last
  <2> QED BY <2>1, <2>6, <2>7, <2>8, <2>9
<1>2. CASE [Next]_vars /\ UNCHANGED scan
  <2>1. born \subseteq born' /\ Typed
    BY <1>2, HistoryGrows DEF Whereabouts
  <2>2. Frame \in born /\ Frame \notin Items(queue["raw"]) => Frame \notin Items(queue'["raw"])
    BY <1>2, <2>1, NeverBack
  <2>3. Frame \in born /\ Frame \notin Items(queue["audio"]) => Frame \notin Items(queue'["audio"])
    BY <1>2, <2>1, NeverBack
  <2>4. Last(Frame) => Last(Frame)'
    BY <1>2, <2>1, LastStays, FrameAssumption
  <2>5. UNCHANGED <<reads, seen, unheld>>
    BY <1>2 DEF scan
  <2> QED BY <2>1, <2>2, <2>3, <2>4, <2>5 DEF ScanOK
<1> QED BY <1>1, <1>2 DEF DepthNext

\* A scan of the depths counts every frame that is in one of the queues at each
\* of its reads, whatever the workers do between them.
THEOREM DepthsMissNothingCorrect == DepthSpec => []DepthsMissNothing
<1>1. DepthInit => DepthInv
  BY InitTyped, InitMoved DEF DepthInit, DepthInv, Whereabouts, ScanOK
<1>2. DepthInv /\ [DepthNext]_<<vars, scan>> => DepthInv'
  <2> SUFFICES ASSUME DepthInv, [DepthNext]_<<vars, scan>> PROVE DepthInv'
    OBVIOUS
  <2>1. [Next]_vars
    BY DEF DepthNext, ReadDepth
  <2>2. Whereabouts'
    BY <2>1, StepTyped, StepMoved DEF DepthInv, Whereabouts
  <2> QED BY <2>2, StepScan DEF DepthInv
<1>3. DepthInv => DepthsMissNothing
  BY DEF DepthInv, ScanOK, DepthsMissNothing
<1> QED BY <1>1, <1>2, <1>3, PTL DEF DepthSpec

-----------------------------------------------------------------------------
(* Raw frames keep their order.  The line of raw frames has six stages, the *)
(* most advanced first; a step of the pipeline moves at most one frame one  *)
(* stage forward, the first of its stage, and takes others out of the line. *)

\* One worker of each kind, as deployed; other pods may do audio.
OneOfEach ==
  /\ \A v, w \in Workers : Role[v] = Role[w] /\ Role[v] \in {"decode", "demux"} => v = w
  /\ \A w \in Workers : Role[w] # "decoupled"

\* If arr has both, x came before y.
InLine(arr, x, y) ==
  x \in Items(arr) /\ y \in Items(arr) =>
    \E i, j \in DOMAIN arr : i < j /\ arr[i] = x /\ arr[j] = y

Sorted(arr, list) == \A i, j \in DOMAIN list : i < j => InLine(arr, list[i], list[j])

HandAt(role) == UNION { hand[w] : w \in { v \in Workers : Role[v] = role /\ target[v] # "dlq" } }

Stages == 1 .. 6

Stage(k) ==
  IF k = 1 THEN Items(consumed)
  ELSE IF k = 2 THEN Items(queue["telemetry"])
  ELSE IF k = 3 THEN HandAt("demux")
  ELSE IF k = 4 THEN Items(queue["decoded"])
  ELSE IF k = 5 THEN HandAt("decode")
  ELSE Items(queue["raw"])

Crossed ==
  \A j, k \in Stages : j < k => \A x \in Stage(j), y \in Stage(k) : InLine(arrived, x, y)

ListsSorted ==
  /\ Sorted(arrived, consumed)
  /\ \A l \in {"telemetry", "decoded", "raw"} : Sorted(arrived, queue[l])

\* What each worker may have in hand and where it goes.
Kinds ==
  /\ Items(arrived) \subseteq RawSources \X {0}
  /\ \A w \in Workers :
       /\ Role[w] = "audio" => hand[w] \cap (RawSources \X {0}) = {}
       /\ Role[w] \in {"decode", "audio"} => target[w] = "decoded"
       /\ Role[w] = "demux" /\ hand[w] # {} => target[w] \in {"telemetry", "dlq"}
       /\ Role[w] \in {"decode", "demux"} => \A x, y \in hand[w] : x = y

LineInv == Whereabouts /\ Kinds /\ Crossed /\ ListsSorted

LEMMA HandAtFacts ==
  \A role, x : x \in HandAt(role) <=>
    \E w \in Workers : Role[w] = role /\ target[w] # "dlq" /\ x \in hand[w]
BY DEF HandAt

LEMMA StageFacts ==
  /\ Stage(1) = Items(consumed) /\ Stage(2) = Items(queue["telemetry"])
  /\ Stage(3) = HandAt("demux") /\ Stage(4) = Items(queue["decoded"])
  /\ Stage(5) = HandAt("decode") /\ Stage(6) = Items(queue["raw"])
BY DEF Stage

\* The list commands keep a list sorted.
LEMMA SortedPopped ==
  ASSUME NEW S, NEW list \in Seq(S), list # << >>, NEW arr, Sorted(arr, list)
  PROVE  /\ Sorted(arr, Popped(list))
         /\ \A y \in Items(Popped(list)) : InLine(arr, Head(list), y)
<1>1. /\ \A i \in DOMAIN Popped(list) : Popped(list)[i] = list[i + 1] /\ i + 1 \in DOMAIN list
      /\ Head(list) = list[1] /\ 1 \in DOMAIN list
      /\ Popped(list) \in Seq(S)
  BY PoppedPlaces
<1>2. \A i \in DOMAIN Popped(list) : i \in Nat \ {0}
  BY <1>1, LenProperties
<1>3. Sorted(arr, Popped(list))
  <2> SUFFICES ASSUME NEW i \in DOMAIN Popped(list), NEW j \in DOMAIN Popped(list), i < j
               PROVE  InLine(arr, Popped(list)[i], Popped(list)[j])
    BY DEF Sorted
  <2>1. i + 1 < j + 1 /\ i + 1 \in DOMAIN list /\ j + 1 \in DOMAIN list
    BY <1>1, <1>2
  <2> QED BY <1>1, <2>1 DEF Sorted
<1>4. ASSUME NEW y \in Items(Popped(list)) PROVE InLine(arr, Head(list), y)
  <2>1. PICK i \in DOMAIN Popped(list) : y = Popped(list)[i]
    BY DEF Items
  <2>2. 1 < i + 1 /\ i + 1 \in DOMAIN list /\ 1 \in DOMAIN list /\ y = list[i + 1]
    BY <1>1, <1>2, <2>1
  <2> QED BY <1>1, <2>2 DEF Sorted
<1> QED BY <1>3, <1>4

LEMMA SortedPushed ==
  ASSUME NEW S, NEW list \in Seq(S), NEW x \in S, NEW arr, Sorted(arr, list),
         \A y \in Items(list) : InLine(arr, y, x)
  PROVE  Sorted(arr, RPushed(list, x))
<1> DEFINE longer == RPushed(list, x)
<1>1. /\ DOMAIN longer = 1 .. (Len(list) + 1) /\ DOMAIN list = 1 .. Len(list) /\ Len(list) \in Nat
      /\ \A i \in DOMAIN longer : longer[i] = IF i <= Len(list) THEN list[i] ELSE x
  BY RPushedPlaces, LenProperties
<1> SUFFICES ASSUME NEW i \in DOMAIN longer, NEW j \in DOMAIN longer, i < j
             PROVE  InLine(arr, longer[i], longer[j])
  BY DEF Sorted
<1> HIDE DEF longer
<1>2. i \in DOMAIN list /\ longer[i] = list[i] /\ list[i] \in Items(list)
  BY <1>1 DEF Items
<1>3. CASE j <= Len(list)
  BY <1>1, <1>2, <1>3 DEF Sorted
<1>4. CASE j > Len(list)
  <2>1. longer[j] = x
    BY <1>1, <1>4
  <2> QED BY <1>2, <2>1
<1> QED BY <1>1, <1>3, <1>4

LEMMA SortedTrimmed ==
  ASSUME NEW S, NEW list \in Seq(S), NEW max \in Nat \ {0}, NEW arr, Sorted(arr, list)
  PROVE  Sorted(arr, Trimmed(list, max))
<1> DEFINE kept == Trimmed(list, max)
           d == Len(list) - Len(kept)
<1>1. /\ kept \in Seq(S)
      /\ Len(kept) = IF Len(list) <= max THEN Len(list) ELSE max
      /\ \A i \in DOMAIN kept : kept[i] = list[i + Len(list) - Len(kept)]
  BY TrimmedFacts
<1>2. /\ Len(list) \in Nat /\ DOMAIN list = 1 .. Len(list)
      /\ Len(kept) \in Nat /\ DOMAIN kept = 1 .. Len(kept)
  BY <1>1, LenProperties
<1> HIDE DEF kept
<1>3. d \in Nat /\ \A i \in DOMAIN kept : i \in Nat /\ i + d \in DOMAIN list /\ kept[i] = list[i + d]
  BY <1>1, <1>2
<1> HIDE DEF d
<1> SUFFICES ASSUME NEW i \in DOMAIN kept, NEW j \in DOMAIN kept, i < j
             PROVE  InLine(arr, kept[i], kept[j])
  BY DEF Sorted, kept
<1>4. i + d < j + d
  BY <1>3
<1> QED BY <1>3, <1>4 DEF Sorted

\* Two sorted lists one behind the other.
LEMMA SortedConcat ==
  ASSUME NEW S, NEW p \in Seq(S), NEW q \in Seq(S), NEW arr, Sorted(arr, p), Sorted(arr, q),
         \A x \in Items(p), y \in Items(q) : InLine(arr, x, y)
  PROVE  p \o q \in Seq(S) /\ Sorted(arr, p \o q) /\ Items(p \o q) = Items(p) \cup Items(q)
<1> DEFINE r == p \o q
<1>1. /\ r \in Seq(S)
      /\ Len(r) = Len(p) + Len(q)
      /\ \A i \in 1 .. Len(p) + Len(q) : r[i] = IF i <= Len(p) THEN p[i] ELSE q[i - Len(p)]
  BY ConcatProperties
<1>2. /\ Len(p) \in Nat /\ DOMAIN p = 1 .. Len(p)
      /\ Len(q) \in Nat /\ DOMAIN q = 1 .. Len(q)
      /\ DOMAIN r = 1 .. Len(p) + Len(q)
  BY <1>1, LenProperties
<1> HIDE DEF r
<1>3. \A i \in DOMAIN r : \/ i \in DOMAIN p /\ r[i] = p[i]
                          \/ i > Len(p) /\ i - Len(p) \in DOMAIN q /\ r[i] = q[i - Len(p)]
  BY <1>1, <1>2
<1>4. Sorted(arr, r)
  <2> SUFFICES ASSUME NEW i \in DOMAIN r, NEW j \in DOMAIN r, i < j
               PROVE  InLine(arr, r[i], r[j])
    BY DEF Sorted
  <2>1. CASE i \in DOMAIN p /\ j \in DOMAIN p
    BY <1>1, <1>2, <2>1 DEF Sorted
  <2>2. CASE i \in DOMAIN p /\ j > Len(p)
    <3>1. r[i] = p[i] /\ r[i] \in Items(p) /\ r[j] \in Items(q)
      BY <1>1, <1>2, <1>3, <2>2 DEF Items
    <3> QED BY <3>1
  <2>3. CASE i > Len(p)
    <3>1. /\ i - Len(p) \in DOMAIN q /\ j - Len(p) \in DOMAIN q /\ i - Len(p) < j - Len(p)
          /\ r[i] = q[i - Len(p)] /\ r[j] = q[j - Len(p)]
      BY <1>1, <1>2, <2>3
    <3> QED BY <3>1 DEF Sorted
  <2> QED BY <1>2, <2>1, <2>2, <2>3
<1>5. Items(r) = Items(p) \cup Items(q)
  <2>1. ASSUME NEW x \in Items(r) PROVE x \in Items(p) \cup Items(q)
    BY <1>3 DEF Items
  <2>2. ASSUME NEW x \in Items(p) PROVE x \in Items(r)
    <3>1. PICK i \in DOMAIN p : x = p[i]
      BY DEF Items
    <3>2. i \in DOMAIN r /\ r[i] = x
      BY <1>1, <1>2, <3>1
    <3> QED BY <3>2 DEF Items
  <2>3. ASSUME NEW x \in Items(q) PROVE x \in Items(r)
    <3>1. PICK i \in DOMAIN q : x = q[i]
      BY DEF Items
    <3>2. i + Len(p) \in DOMAIN r /\ r[i + Len(p)] = q[i + Len(p) - Len(p)] /\ i + Len(p) - Len(p) = i
      BY <1>1, <1>2
    <3> QED BY <3>1, <3>2 DEF Items
  <2> QED BY <2>1, <2>2, <2>3
<1> QED BY <1>1, <1>4, <1>5 DEF r

\* The line in six stages is the line of InOrder.
LEMMA LineInOrder == LineInv => InOrder
<1> SUFFICES ASSUME LineInv PROVE InOrder
  OBVIOUS
<1>1. /\ queue["telemetry"] \in Seq(Thing) /\ queue["decoded"] \in Seq(Thing)
      /\ queue["raw"] \in Seq(Thing) /\ consumed \in Seq(Thing)
  BY SeqMonotonic DEF LineInv, Whereabouts, Typed, TypeOK, Thing, Lists
<1>2. ASSUME NEW role \in {"demux", "decode"}
      PROVE  /\ HandOf(role) \in Seq(Thing) /\ Items(HandOf(role)) \subseteq HandAt(role)
             /\ Sorted(arrived, HandOf(role))
  <2>1. HandOf(role) = IF HandAt(role) = {} THEN << >> ELSE << CHOOSE x \in HandAt(role) : TRUE >>
    BY DEF HandOf, HandAt
  <2>2. CASE HandAt(role) = {}
    BY <2>1, <2>2 DEF Items, Sorted
  <2>3. CASE HandAt(role) # {}
    <3> DEFINE x == CHOOSE y \in HandAt(role) : TRUE
    <3>1. x \in HandAt(role)
      BY <2>3
    <3>2. x \in Thing
      BY <3>1 DEF HandAt, LineInv, Whereabouts, Typed, TypeOK, Thing
    <3>3. HandOf(role) = << x >>
      BY <2>1, <2>3
    <3> HIDE DEF x
    <3> QED BY <3>1, <3>2, <3>3 DEF Items, Sorted
  <2> QED BY <2>2, <2>3
<1> DEFINE H3 == HandOf("demux")
           H5 == HandOf("decode")
           C == consumed
           T == queue["telemetry"]
           D == queue["decoded"]
           R == queue["raw"]
           A == arrived
<1>3. /\ H3 \in Seq(Thing) /\ Sorted(A, H3) /\ Items(H3) \subseteq HandAt("demux")
      /\ H5 \in Seq(Thing) /\ Sorted(A, H5) /\ Items(H5) \subseteq HandAt("decode")
  BY <1>2
<1>4. Sorted(A, C) /\ Sorted(A, T) /\ Sorted(A, D) /\ Sorted(A, R)
  BY DEF LineInv, ListsSorted
<1>5. \A j, k \in Stages : j < k => \A x \in Stage(j), y \in Stage(k) : InLine(A, x, y)
  BY DEF LineInv, Crossed
<1>6. /\ Items(C) \subseteq Stage(1) /\ Items(T) \subseteq Stage(2) /\ Items(H3) \subseteq Stage(3)
      /\ Items(D) \subseteq Stage(4) /\ Items(H5) \subseteq Stage(5) /\ Items(R) \subseteq Stage(6)
  BY <1>3, StageFacts
<1>7. C \in Seq(Thing) /\ T \in Seq(Thing) /\ D \in Seq(Thing) /\ R \in Seq(Thing)
  BY <1>1
<1>8. Flow = C \o T \o H3 \o D \o H5 \o R
  BY DEF Flow
<1> HIDE DEF H3, H5, C, T, D, R, A
<1> USE DEF Stages
<1>9. C \o T \in Seq(Thing) /\ Sorted(A, C \o T) /\ Items(C \o T) \subseteq Stage(1) \cup Stage(2)
  <2>1. \A x \in Items(C), y \in Items(T) : InLine(A, x, y)
    BY <1>5, <1>6
  <2>2. C \o T \in Seq(Thing) /\ Sorted(A, C \o T) /\ Items(C \o T) = Items(C) \cup Items(T)
    BY <1>4, <1>7, <2>1, SortedConcat
  <2> QED BY <1>6, <2>2
<1> DEFINE F2 == C \o T
           F3 == F2 \o H3
           F4 == F3 \o D
           F5 == F4 \o H5
<1>9a. F2 \in Seq(Thing) /\ Sorted(A, F2) /\ Items(F2) \subseteq Stage(1) \cup Stage(2)
  BY <1>9
<1>9b. H3 \in Seq(Thing) /\ Sorted(A, H3) /\ Items(H3) \subseteq Stage(3)
  BY <1>3, <1>6 DEF H3, A
<1>9c. H5 \in Seq(Thing) /\ Sorted(A, H5) /\ Items(H5) \subseteq Stage(5)
  BY <1>3, <1>6 DEF H5, A
<1> HIDE DEF F2
<1>10. F3 \in Seq(Thing) /\ Sorted(A, F3) /\ Items(F3) \subseteq Stage(1) \cup Stage(2) \cup Stage(3)
  <2>1. \A x \in Items(F2), y \in Items(H3) : InLine(A, x, y)
    BY <1>5, <1>9a, <1>9b
  <2>2. F3 \in Seq(Thing) /\ Sorted(A, F3) /\ Items(F3) = Items(F2) \cup Items(H3)
    BY <1>9a, <1>9b, <2>1, SortedConcat
  <2> QED BY <1>9a, <1>9b, <2>2
<1> HIDE DEF F3
<1>11. F4 \in Seq(Thing) /\ Sorted(A, F4)
       /\ Items(F4) \subseteq Stage(1) \cup Stage(2) \cup Stage(3) \cup Stage(4)
  <2>1. \A x \in Items(F3), y \in Items(D) : InLine(A, x, y)
    BY <1>5, <1>6, <1>10
  <2>2. F4 \in Seq(Thing) /\ Sorted(A, F4) /\ Items(F4) = Items(F3) \cup Items(D)
    BY <1>4, <1>7, <1>10, <2>1, SortedConcat
  <2> QED BY <1>6, <1>10, <2>2
<1> HIDE DEF F4
<1>12. F5 \in Seq(Thing) /\ Sorted(A, F5)
       /\ Items(F5) \subseteq Stage(1) \cup Stage(2) \cup Stage(3) \cup Stage(4) \cup Stage(5)
  <2>1. \A x \in Items(F4), y \in Items(H5) : InLine(A, x, y)
    BY <1>5, <1>11, <1>9c
  <2>2. F5 \in Seq(Thing) /\ Sorted(A, F5) /\ Items(F5) = Items(F4) \cup Items(H5)
    BY <1>11, <1>9c, <2>1, SortedConcat
  <2> QED BY <1>11, <1>9c, <2>2
<1> HIDE DEF F5
<1>13. Sorted(A, F5 \o R)
  <2>1. \A x \in Items(F5), y \in Items(R) : InLine(A, x, y)
    BY <1>5, <1>6, <1>12
  <2> QED BY <1>4, <1>7, <1>12, <2>1, SortedConcat
<1>14. Sorted(arrived, Flow)
  BY <1>8, <1>13 DEF F2, F3, F4, F5, A
<1> QED BY <1>14 DEF InOrder, Sorted, InLine, Before
-----------------------------------------------------------------------------
(* The steps keep the line.                                                 *)

\* Frames leave the line only; or g, the first of stage k, goes to the next.
Shrinks ==
  /\ arrived' = arrived
  /\ \A j \in Stages : \A x \in Items(arrived) : x \in Stage(j)' => x \in Stage(j)

Advances(k, g) ==
  /\ arrived' = arrived
  /\ g \in Stage(k)
  /\ \A j \in Stages : \A x \in Items(arrived) :
       x \in Stage(j)' => x \in Stage(j) \/ (x = g /\ j = k - 1)
  /\ \A y \in Stage(k)' : InLine(arrived, g, y)

LEMMA ShrinksCrossed == Crossed /\ Shrinks => Crossed'
<1> SUFFICES ASSUME Crossed, Shrinks, NEW j \in Stages, NEW k \in Stages, j < k,
                    NEW x \in Stage(j)', NEW y \in Stage(k)'
             PROVE  InLine(arrived, x, y)
  BY DEF Crossed, Shrinks
<1> SUFFICES ASSUME x \in Items(arrived), y \in Items(arrived) PROVE InLine(arrived, x, y)
  BY DEF InLine
<1> QED BY DEF Crossed, Shrinks

LEMMA AdvancesCrossed ==
  ASSUME Crossed, NEW k \in 2 .. 6, NEW g, Advances(k, g)
  PROVE  Crossed'
<1> SUFFICES ASSUME NEW j \in Stages, NEW l \in Stages, j < l,
                    NEW x \in Stage(j)', NEW y \in Stage(l)',
                    x \in Items(arrived), y \in Items(arrived)
             PROVE  InLine(arrived, x, y)
  BY DEF Crossed, Advances, InLine
<1>1. /\ x \in Stage(j) \/ (x = g /\ j = k - 1)
      /\ y \in Stage(l) \/ (y = g /\ l = k - 1)
      /\ g \in Stage(k) /\ k \in Stages
  BY DEF Advances, Stages
<1>2. CASE x \in Stage(j) /\ y \in Stage(l)
  BY <1>2 DEF Crossed
<1>3. CASE x = g /\ j = k - 1 /\ y \in Stage(l)
  <2>1. CASE l = k
    BY <1>3, <2>1 DEF Advances
  <2>2. CASE l # k
    <3>1. k < l
      BY <1>3, <2>2 DEF Stages
    <3> QED BY <1>1, <1>3, <3>1 DEF Crossed
  <2> QED BY <2>1, <2>2
<1>4. CASE x \in Stage(j) /\ y = g /\ l = k - 1
  <2>1. j < k
    BY <1>4 DEF Stages
  <2> QED BY <1>1, <1>4, <2>1 DEF Crossed
<1>5. CASE x = g /\ j = k - 1 /\ y = g /\ l = k - 1
  BY <1>5
<1> QED BY <1>1, <1>2, <1>3, <1>4, <1>5

\* What Kinds and the types say of one worker that decodes or demultiplexes.
LEMMA SoleHand ==
  ASSUME OneOfEach, NEW w \in Workers, Role[w] \in {"decode", "demux"}
  PROVE  \A x : x \in HandAt(Role[w]) <=> x \in hand[w] /\ target[w] # "dlq"
BY HandAtFacts DEF OneOfEach

LEMMA SoleHandNext ==
  ASSUME OneOfEach, NEW w \in Workers, Role[w] \in {"decode", "demux"}
  PROVE  \A x : x \in HandAt(Role[w])' <=> x \in hand'[w] /\ target'[w] # "dlq"
<1>1. \A role, x : x \in HandAt(role)' <=>
        \E v \in Workers : Role[v] = role /\ target'[v] # "dlq" /\ x \in hand'[v]
  BY DEF HandAt
<1> QED BY <1>1 DEF OneOfEach

\* A step that changes one hand leaves the hands of the other roles.
LEMMA OtherHands ==
  ASSUME NEW w \in Workers, \A v \in Workers \ {w} : hand'[v] = hand[v] /\ target'[v] = target[v]
  PROVE  \A role : role # Role[w] => HandAt(role)' = HandAt(role)
<1> SUFFICES ASSUME NEW role, role # Role[w] PROVE HandAt(role)' = HandAt(role)
  OBVIOUS
<1>1. \A x : x \in HandAt(role)' <=>
        \E v \in Workers : Role[v] = role /\ target'[v] # "dlq" /\ x \in hand'[v]
  BY DEF HandAt
<1>2. \A x : x \in HandAt(role)' <=> x \in HandAt(role)
  BY <1>1, HandAtFacts
<1> QED BY <1>2

\* Taking an item, whatever becomes of it.
LEMMA TakeLine ==
  ASSUME OneOfEach, LineInv, NEW w \in Workers, Role[w] \in {"decode", "demux"}, MayTake(w),
         queue' = [queue EXCEPT ![Source(w)] = Popped(@)],
         \A v \in Workers \ {w} : hand'[v] = hand[v] /\ target'[v] = target[v],
         hand'[w] \subseteq {Head(queue[Source(w)])},
         consumed' = consumed, arrived' = arrived
  PROVE  Crossed' /\ ListsSorted'
<1> DEFINE l == Source(w)
           g == Head(queue[l])
           k == IF Role[w] = "decode" THEN 6 ELSE 4
<1>1. /\ l = (IF Role[w] = "decode" THEN "raw" ELSE "decoded")
      /\ l \in Lists /\ queue[l] \in Seq(Thing) /\ queue[l] # << >>
  BY DEF Source, MayTake, LineInv, Whereabouts, Typed, TypeOK, Lists, Thing
<1>2. /\ g \in Items(queue[l])
      /\ \A x : x \in Items(Popped(queue[l])) => x \in Items(queue[l])
  BY <1>1, PoppedFacts
<1>3. /\ Sorted(arrived, Popped(queue[l]))
      /\ \A y \in Items(Popped(queue[l])) : InLine(arrived, g, y)
  BY <1>1, SortedPopped DEF LineInv, ListsSorted
<1>4. queue'[l] = Popped(queue[l]) /\ \A m \in Lists : m # l => queue'[m] = queue[m]
  BY <1>1 DEF LineInv, Whereabouts, Typed, TypeOK
<1>5. ListsSorted'
  BY <1>1, <1>3, <1>4 DEF LineInv, ListsSorted, Lists
<1>6. \A role : role # Role[w] => HandAt(role)' = HandAt(role)
  BY OtherHands
<1>7. \A x : x \in HandAt(Role[w])' => x = g
  BY SoleHandNext
<1>8. /\ Stage(1)' = Items(consumed') /\ Stage(2)' = Items(queue'["telemetry"])
      /\ Stage(3)' = HandAt("demux")' /\ Stage(4)' = Items(queue'["decoded"])
      /\ Stage(5)' = HandAt("decode")' /\ Stage(6)' = Items(queue'["raw"])
  BY DEF Stage
<1> HIDE DEF g, l
<1>9. CASE Role[w] = "decode"
  <2>1. l = "raw" /\ k = 6
    BY <1>1, <1>9
  <2>2. Advances(6, g)
    <3>1. \A j \in Stages : \A x : x \in Stage(j)' => x \in Stage(j) \/ (x = g /\ j = 6 - 1)
      BY <1>2, <1>4, <1>6, <1>7, <1>8, <1>9, <2>1, StageFacts DEF Stages, Lists
    <3>2. g \in Stage(6) /\ \A y \in Stage(6)' : InLine(arrived, g, y)
      BY <1>2, <1>3, <1>4, <1>8, <2>1, StageFacts
    <3> QED BY <3>1, <3>2 DEF Advances
  <2> QED BY <1>5, <2>2, AdvancesCrossed DEF LineInv
<1>10. CASE Role[w] = "demux"
  <2>1. l = "decoded" /\ k = 4
    BY <1>1, <1>10
  <2>2. Advances(4, g)
    <3>1. \A j \in Stages : \A x : x \in Stage(j)' => x \in Stage(j) \/ (x = g /\ j = 4 - 1)
      BY <1>2, <1>4, <1>6, <1>7, <1>8, <1>10, <2>1, StageFacts DEF Stages, Lists
    <3>2. g \in Stage(4) /\ \A y \in Stage(4)' : InLine(arrived, g, y)
      BY <1>2, <1>3, <1>4, <1>8, <2>1, StageFacts
    <3> QED BY <3>1, <3>2 DEF Advances
  <2> QED BY <1>5, <2>2, AdvancesCrossed DEF LineInv
<1> QED BY <1>9, <1>10

\* A step that takes things from hands only.
LEMMA HandsShrink ==
  ASSUME LineInv, NEW w \in Workers,
         \A v \in Workers \ {w} : hand'[v] = hand[v] /\ target'[v] = target[v],
         hand'[w] \subseteq hand[w], hand'[w] # {} => target'[w] = target[w]
  PROVE  \A role, x : x \in HandAt(role)' => x \in HandAt(role)
<1>1. \A role, x : x \in HandAt(role)' <=>
        \E v \in Workers : Role[v] = role /\ target'[v] # "dlq" /\ x \in hand'[v]
  BY DEF HandAt
<1> QED BY <1>1, HandAtFacts

\* A step in which every list of the line stays or is trimmed.
LEMMA ShrinkLine ==
  ASSUME LineInv, arrived' = arrived, consumed' = consumed,
         \A role \in {"decode", "demux"} : \A x : x \in HandAt(role)' => x \in HandAt(role),
         \A l \in {"telemetry", "decoded", "raw"} :
           queue'[l] = queue[l] \/ queue'[l] = Trimmed(queue[l], Max[l])
  PROVE  Crossed' /\ ListsSorted'
<1>1. ASSUME NEW l \in {"telemetry", "decoded", "raw"}
      PROVE  /\ Sorted(arrived, queue'[l])
             /\ \A x : x \in Items(queue'[l]) => x \in Items(queue[l])
  <2>1. queue[l] \in Seq(Thing) /\ Max[l] \in Nat \ {0} /\ Sorted(arrived, queue[l])
    BY ConstantFacts DEF LineInv, ListsSorted, Whereabouts, Typed, TypeOK, Lists, Thing
  <2>2. /\ Sorted(arrived, Trimmed(queue[l], Max[l]))
        /\ Items(Trimmed(queue[l], Max[l])) \subseteq Items(queue[l])
    BY <2>1, SortedTrimmed, TrimmedFacts
  <2> QED BY <2>1, <2>2
<1>2. ListsSorted'
  BY <1>1 DEF LineInv, ListsSorted
<1>3. /\ Stage(1)' = Items(consumed') /\ Stage(2)' = Items(queue'["telemetry"])
      /\ Stage(3)' = HandAt("demux")' /\ Stage(4)' = Items(queue'["decoded"])
      /\ Stage(5)' = HandAt("decode")' /\ Stage(6)' = Items(queue'["raw"])
  BY DEF Stage
<1>4. Shrinks
  BY <1>1, <1>3, StageFacts DEF Shrinks, Stages
<1> QED BY <1>2, <1>4, ShrinksCrossed DEF LineInv

\* A new frame comes behind every other one.
LEMMA InLineAppended ==
  ASSUME NEW S, NEW arr \in Seq(S), NEW x \in S
  PROVE  /\ \A y, z : y # x /\ z # x /\ InLine(arr, y, z) => InLine(Append(arr, x), y, z)
         /\ \A y : y # x => InLine(Append(arr, x), y, x)
<1> DEFINE longer == RPushed(arr, x)
<1>1. /\ DOMAIN longer = 1 .. (Len(arr) + 1) /\ DOMAIN arr = 1 .. Len(arr) /\ Len(arr) \in Nat
      /\ \A i \in DOMAIN longer : longer[i] = IF i <= Len(arr) THEN arr[i] ELSE x
  BY RPushedPlaces, LenProperties
<1>2. \A y : y \in Items(longer) <=> y \in Items(arr) \/ y = x
  BY RPushedFacts
<1>3. longer = Append(arr, x)
  BY DEF RPushed
<1> HIDE DEF longer
<1>4. ASSUME NEW y, NEW z, y # x, z # x, InLine(arr, y, z) PROVE InLine(longer, y, z)
  <2> SUFFICES ASSUME y \in Items(arr), z \in Items(arr)
               PROVE  \E i, j \in DOMAIN longer : i < j /\ longer[i] = y /\ longer[j] = z
    BY <1>2, <1>4 DEF InLine
  <2>1. PICK i, j \in DOMAIN arr : i < j /\ arr[i] = y /\ arr[j] = z
    BY <1>4 DEF InLine
  <2>2. i \in DOMAIN longer /\ j \in DOMAIN longer /\ longer[i] = y /\ longer[j] = z
    BY <1>1, <2>1
  <2> QED BY <2>1, <2>2
<1>5. ASSUME NEW y, y # x PROVE InLine(longer, y, x)
  <2> SUFFICES ASSUME y \in Items(arr)
               PROVE  \E i, j \in DOMAIN longer : i < j /\ longer[i] = y /\ longer[j] = x
    BY <1>2, <1>5 DEF InLine
  <2>1. PICK i \in DOMAIN arr : arr[i] = y
    BY DEF Items
  <2>2. /\ i \in DOMAIN longer /\ Len(arr) + 1 \in DOMAIN longer /\ i < Len(arr) + 1
        /\ longer[i] = y /\ longer[Len(arr) + 1] = x
    BY <1>1, <2>1
  <2> QED BY <2>2
<1> QED BY <1>3, <1>4, <1>5

LEMMA ArriveLine ==
  ASSUME LineInv, NEW s \in RawSources, Arrive("raw", <<s, 0>>)
  PROVE  Crossed' /\ ListsSorted'
<1> DEFINE x == <<s, 0>>
           longer == RPushed(queue["raw"], x)
<1>1. /\ x \in Item /\ x \in Thing /\ x \notin born
      /\ arrived \in Seq(Item) /\ arrived' = Append(arrived, x)
      /\ queue["raw"] \in Seq(Thing) /\ Max["raw"] \in Nat \ {0}
      /\ consumed' = consumed /\ hand' = hand /\ target' = target
      /\ queue'["raw"] = Trimmed(longer, Max["raw"])
      /\ queue'["telemetry"] = queue["telemetry"] /\ queue'["decoded"] = queue["decoded"]
  BY ConstantFacts DEF Arrive, process, LineInv, Whereabouts, Typed, TypeOK, Thing, Lists
<1> HIDE DEF x
<1>2. /\ \A l \in Lists : x \notin Items(queue[l])
      /\ \A w \in Workers : x \notin hand[w]
      /\ x \notin Items(consumed)
  BY <1>1, PlacedFacts DEF LineInv, Whereabouts, Placed, Gone
<1>3. /\ \A y, z : y # x /\ z # x /\ InLine(arrived, y, z) => InLine(arrived', y, z)
      /\ \A y : y # x => InLine(arrived', y, x)
  BY <1>1, InLineAppended
<1>4. \A j \in Stages : x \notin Stage(j)
  BY <1>2, HandAtFacts, StageFacts DEF Stages, Lists
<1>5. \A role : HandAt(role)' = HandAt(role)
  BY <1>1 DEF HandAt
<1>6. longer \in Seq(Thing) /\ \A y : y \in Items(longer) <=> y \in Items(queue["raw"]) \/ y = x
  BY <1>1, PushThing
<1>7. \A list : Sorted(arrived, list) /\ x \notin Items(list) => Sorted(arrived', list)
  BY <1>3 DEF Sorted, Items
<1>8. Sorted(arrived', longer)
  <2>1. Sorted(arrived', queue["raw"])
    BY <1>2, <1>7 DEF LineInv, ListsSorted, Lists
  <2>2. \A y \in Items(queue["raw"]) : InLine(arrived', y, x)
    BY <1>2, <1>3 DEF Lists
  <2> QED BY <1>1, <2>1, <2>2, SortedPushed
<1> HIDE DEF longer
<1>9. Sorted(arrived', queue'["raw"]) /\ Items(queue'["raw"]) \subseteq Items(longer)
  BY <1>1, <1>6, <1>8, SortedTrimmed, TrimmedFacts
<1>10. ListsSorted'
  BY <1>1, <1>2, <1>7, <1>9 DEF LineInv, ListsSorted, Lists
<1>11. /\ Stage(1)' = Items(consumed') /\ Stage(2)' = Items(queue'["telemetry"])
       /\ Stage(3)' = HandAt("demux")' /\ Stage(4)' = Items(queue'["decoded"])
       /\ Stage(5)' = HandAt("decode")' /\ Stage(6)' = Items(queue'["raw"])
  BY DEF Stage
<1>12. \A j \in Stages : \A y : y \in Stage(j)' => y \in Stage(j) \/ (y = x /\ j = 6)
  BY <1>1, <1>5, <1>6, <1>9, <1>11, StageFacts DEF Stages
<1>13. ASSUME NEW j \in Stages, NEW k \in Stages, j < k, NEW y \in Stage(j)', NEW z \in Stage(k)'
       PROVE  InLine(arrived', y, z)
  <2>1. y \in Stage(j) /\ y # x
    BY <1>4, <1>12, <1>13 DEF Stages
  <2>2. CASE z = x
    BY <1>3, <2>1, <2>2
  <2>3. CASE z # x
    BY <1>3, <1>12, <1>13, <2>1, <2>3 DEF LineInv, Crossed
  <2> QED BY <2>2, <2>3
<1> QED BY <1>10, <1>13 DEF Crossed

LEMMA ConsumeLine ==
  ASSUME LineInv, Consume
  PROVE  Crossed' /\ ListsSorted'
<1> DEFINE t == queue["telemetry"]
           g == Head(t)
<1>1. /\ t \in Seq(Thing) /\ t # << >> /\ consumed \in Seq(Item)
      /\ consumed' = (IF g = Nothing THEN consumed ELSE RPushed(consumed, g))
      /\ queue'["telemetry"] = Popped(t) /\ queue'["decoded"] = queue["decoded"]
      /\ queue'["raw"] = queue["raw"]
      /\ arrived' = arrived /\ hand' = hand /\ target' = target
  BY DEF Consume, process, LineInv, Whereabouts, Typed, TypeOK, Thing, Lists, RPushed
<1>2. /\ g \in Thing /\ g \in Items(t)
      /\ \A x : x \in Items(Popped(t)) => x \in Items(t)
      /\ Sorted(arrived, Popped(t)) /\ \A y \in Items(Popped(t)) : InLine(arrived, g, y)
  BY <1>1, PoppedFacts, SortedPopped DEF LineInv, ListsSorted
<1> HIDE DEF t, g
<1>3. /\ Sorted(arrived, consumed')
      /\ \A x : x \in Items(consumed') => x \in Items(consumed) \/ x = g
  <2>1. CASE g = Nothing
    BY <1>1, <2>1 DEF LineInv, ListsSorted
  <2>2. CASE g # Nothing
    <3>1. g \in Item
      BY <1>2, <2>2 DEF Thing
    <3>2. \A y \in Items(consumed) : InLine(arrived, y, g)
      BY <1>2, StageFacts DEF LineInv, Crossed, Stages, t
    <3>3. /\ Sorted(arrived, RPushed(consumed, g))
          /\ \A x : x \in Items(RPushed(consumed, g)) <=> x \in Items(consumed) \/ x = g
      BY <1>1, <3>1, <3>2, SortedPushed, RPushedFacts DEF LineInv, ListsSorted
    <3> QED BY <1>1, <2>2, <3>3
  <2> QED BY <2>1, <2>2
<1>4. ListsSorted'
  BY <1>1, <1>2, <1>3 DEF LineInv, ListsSorted
<1>5. \A role : HandAt(role)' = HandAt(role)
  BY <1>1 DEF HandAt
<1>6. /\ Stage(1)' = Items(consumed') /\ Stage(2)' = Items(queue'["telemetry"])
      /\ Stage(3)' = HandAt("demux")' /\ Stage(4)' = Items(queue'["decoded"])
      /\ Stage(5)' = HandAt("decode")' /\ Stage(6)' = Items(queue'["raw"])
  BY DEF Stage
<1>7. Advances(2, g)
  <2>1. \A j \in Stages : \A x : x \in Stage(j)' => x \in Stage(j) \/ (x = g /\ j = 2 - 1)
    BY <1>1, <1>2, <1>3, <1>5, <1>6, StageFacts DEF Stages, t
  <2>2. g \in Stage(2) /\ \A y \in Stage(2)' : InLine(arrived, g, y)
    BY <1>1, <1>2, <1>6, StageFacts DEF t
  <2> QED BY <1>1, <2>1, <2>2 DEF Advances
<1> QED BY <1>4, <1>7, AdvancesCrossed DEF LineInv

\* RPUSH of a frame that goes on down the line.
LEMMA PushLine ==
  ASSUME OneOfEach, LineInv, NEW w \in Workers,
         NEW l \in {"telemetry", "decoded"},
         Role[w] = (IF l = "telemetry" THEN "demux" ELSE "decode"),
         target[w] = l, target' = target, NEW x \in hand[w],
         queue' = [queue EXCEPT ![l] = RPushed(@, x)],
         hand' = [hand EXCEPT ![w] = IF x = Nothing THEN @ ELSE @ \ {x}],
         consumed' = consumed, arrived' = arrived
  PROVE  Crossed' /\ ListsSorted'
<1> DEFINE k == IF l = "telemetry" THEN 3 ELSE 5
<1>1. /\ x \in Thing /\ queue[l] \in Seq(Thing) /\ hand \in [Workers -> SUBSET Thing]
      /\ queue'[l] = RPushed(queue[l], x) /\ \A m \in Lists : m # l => queue'[m] = queue[m]
      /\ \A y \in hand[w] : y = x
  BY DEF LineInv, Whereabouts, Typed, TypeOK, Lists, Thing, Kinds
<1>2. \A role : role # Role[w] => HandAt(role)' = HandAt(role)
  <2>1. \A v \in Workers \ {w} : hand'[v] = hand[v] /\ target'[v] = target[v]
    BY <1>1
  <2> QED BY <2>1, OtherHands
<1>3. /\ x \in HandAt(Role[w]) /\ Role[w] \in {"decode", "demux"}
      /\ \A y : y \in HandAt(Role[w])' => y \in HandAt(Role[w]) /\ y = x /\ x = Nothing
  <2>1. Role[w] \in {"decode", "demux"}
    OBVIOUS
  <2>2. \A y : y \in hand'[w] => y \in hand[w] /\ (x = Nothing \/ y # x)
    BY <1>1
  <2>3. \A y : y \in HandAt(Role[w]) <=> y \in hand[w] /\ target[w] # "dlq"
    BY <2>1, SoleHand
  <2>4. \A y : y \in HandAt(Role[w])' <=> y \in hand'[w] /\ target'[w] # "dlq"
    BY <2>1, SoleHandNext
  <2> QED BY <1>1, <2>1, <2>2, <2>3, <2>4
<1>4. Nothing \notin Items(arrived)
  BY NothingAssumption, ElementOfSeq DEF LineInv, Whereabouts, Typed, TypeOK, Items
<1>5. \A y : y \in Items(queue'[l]) <=> y \in Items(queue[l]) \/ y = x
  BY <1>1, PushThing
<1>6. Sorted(arrived, queue[l]) /\ \A y \in Items(queue[l]) : InLine(arrived, y, x)
  <2>1. CASE l = "telemetry"
    BY <1>3, <2>1, StageFacts DEF LineInv, ListsSorted, Crossed, Stages
  <2>2. CASE l = "decoded"
    BY <1>3, <2>2, StageFacts DEF LineInv, ListsSorted, Crossed, Stages
  <2> QED BY <2>1, <2>2
<1>7. Sorted(arrived, queue'[l])
  BY <1>1, <1>6, SortedPushed
<1>8. ListsSorted'
  BY <1>1, <1>7 DEF LineInv, ListsSorted, Lists
<1>9. /\ Stage(1)' = Items(consumed') /\ Stage(2)' = Items(queue'["telemetry"])
      /\ Stage(3)' = HandAt("demux")' /\ Stage(4)' = Items(queue'["decoded"])
      /\ Stage(5)' = HandAt("decode")' /\ Stage(6)' = Items(queue'["raw"])
  BY DEF Stage
<1>10. \A y : InLine(arrived, x, y) \/ x # Nothing
  BY <1>4 DEF InLine
<1>11. CASE l = "telemetry"
  <2>1. \A j \in Stages : \A y : y \in Stage(j)' => y \in Stage(j) \/ (y = x /\ j = 3 - 1)
    BY <1>1, <1>2, <1>3, <1>5, <1>9, <1>11, StageFacts DEF Stages, Lists
  <2>2. x \in Stage(3) /\ \A y \in Stage(3)' : InLine(arrived, x, y)
    BY <1>3, <1>9, <1>10, <1>11, StageFacts
  <2>3. Advances(3, x)
    BY <2>1, <2>2 DEF Advances
  <2> QED BY <1>8, <2>3, AdvancesCrossed DEF LineInv
<1>12. CASE l = "decoded"
  <2>1. \A j \in Stages : \A y : y \in Stage(j)' => y \in Stage(j) \/ (y = x /\ j = 5 - 1)
    BY <1>1, <1>2, <1>3, <1>5, <1>9, <1>12, StageFacts DEF Stages, Lists
  <2>2. x \in Stage(5) /\ \A y \in Stage(5)' : InLine(arrived, x, y)
    BY <1>3, <1>9, <1>10, <1>12, StageFacts
  <2>3. Advances(5, x)
    BY <2>1, <2>2 DEF Advances
  <2> QED BY <1>8, <2>3, AdvancesCrossed DEF LineInv
<1> QED BY <1>11, <1>12

\* RPUSH of a frame of a recording, which no raw frame minds.
LEMMA PushPartLine ==
  ASSUME LineInv, NEW w \in Workers, Role[w] = "audio", NEW x \in hand[w],
         target' = target,
         queue' = [queue EXCEPT !["decoded"] = RPushed(@, x)],
         hand' = [hand EXCEPT ![w] = IF x = Nothing THEN @ ELSE @ \ {x}],
         consumed' = consumed, arrived' = arrived
  PROVE  Crossed' /\ ListsSorted'
<1> DEFINE d == queue["decoded"]
<1>1. /\ x \in Thing /\ d \in Seq(Thing) /\ hand \in [Workers -> SUBSET Thing]
      /\ queue'["decoded"] = RPushed(d, x)
      /\ queue'["telemetry"] = queue["telemetry"] /\ queue'["raw"] = queue["raw"]
      /\ x \notin Items(arrived)
  BY DEF LineInv, Whereabouts, Typed, TypeOK, Lists, Thing, Kinds
<1>2. \A v \in Workers \ {w} : hand'[v] = hand[v] /\ target'[v] = target[v]
  BY <1>1
<1>3. HandAt("decode")' = HandAt("decode") /\ HandAt("demux")' = HandAt("demux")
  BY <1>2, OtherHands
<1>4. \A y : y \in Items(queue'["decoded"]) <=> y \in Items(d) \/ y = x
  BY <1>1, PushThing
<1>5. Sorted(arrived, queue'["decoded"])
  <2>1. \A y \in Items(d) : InLine(arrived, y, x)
    BY <1>1 DEF InLine
  <2> QED BY <1>1, <2>1, SortedPushed DEF LineInv, ListsSorted
<1>6. ListsSorted'
  BY <1>1, <1>5 DEF LineInv, ListsSorted
<1>7. /\ Stage(1)' = Items(consumed') /\ Stage(2)' = Items(queue'["telemetry"])
      /\ Stage(3)' = HandAt("demux")' /\ Stage(4)' = Items(queue'["decoded"])
      /\ Stage(5)' = HandAt("decode")' /\ Stage(6)' = Items(queue'["raw"])
  BY DEF Stage
<1>8. Shrinks
  BY <1>1, <1>3, <1>4, <1>7, StageFacts DEF Shrinks, Stages
<1> QED BY <1>6, <1>8, ShrinksCrossed DEF LineInv

\* What a worker has in hand fits its role.
LEMMA StepKinds == OneOfEach /\ Whereabouts /\ Kinds /\ [Next]_vars => Kinds'
<1> SUFFICES ASSUME OneOfEach, Whereabouts, Kinds, [Next]_vars PROVE Kinds'
  OBVIOUS
<1> USE DEF Kinds
<1>0. /\ hand \in [Workers -> SUBSET Thing] /\ target \in [Workers -> Lists]
      /\ arrived \in Seq(Item)
  BY DEF Whereabouts, Typed, TypeOK, Thing
<1>1. ASSUME NEW s \in RawSources, Arrive("raw", <<s, 0>>) PROVE Kinds'
  <2>1. <<s, 0>> \in Item /\ arrived' = RPushed(arrived, <<s, 0>>)
        /\ hand' = hand /\ target' = target
    BY <1>1, ConstantFacts DEF Arrive, process, RPushed
  <2>2. \A x : x \in Items(arrived') => x \in Items(arrived) \/ x = <<s, 0>>
    BY <1>0, <2>1, RPushedFacts
  <2> QED BY <2>1, <2>2
<1>2. ASSUME NEW s \in AudioSources, Arrive("audio", <<s, 0>>) PROVE Kinds'
  BY <1>2 DEF Arrive, process
<1>3. CASE Consume
  BY <1>3 DEF Consume, process
<1>4. ASSUME NEW w \in Workers, NEW things, NEW l, Took(w, things, l), MayTake(w),
             Role[w] = "audio" => things \cap (RawSources \X {0}) = {},
             Role[w] \in {"decode", "audio"} => l = "decoded",
             Role[w] = "demux" /\ things # {} => l \in {"telemetry", "dlq"},
             Role[w] \in {"decode", "demux"} => \A x, y \in things : x = y
      PROVE  Kinds'
  <2>1. /\ hand' = [hand EXCEPT ![w] = things] /\ target' = [target EXCEPT ![w] = l]
        /\ arrived' = arrived
    BY <1>4 DEF Took
  <2> QED BY <1>0, <1>4, <2>1
<1>5. ASSUME NEW w \in Workers, Decode(w) PROVE Kinds'
  <2>1. PICK things \in {{Head(queue["raw"])}, {}} : Took(w, things, "decoded")
    BY <1>5 DEF Decode
  <2>2. \A x, y \in things : x = y
    BY <2>1
  <2> QED BY <1>4, <1>5, <2>1, <2>2 DEF Decode
<1>6. ASSUME NEW w \in Workers, TakeAudio(w) PROVE Kinds'
  <2> DEFINE x == Head(queue["audio"])
  <2>1. MayTake(w) /\ Role[w] = "audio" /\ Took(w, {x}, "decoded") /\ Source(w) = "audio"
    BY <1>6 DEF TakeAudio, Source
  <2>2. x \in Recordings
    BY <2>1, TakeFacts DEF Whereabouts
  <2>3. {x} \cap (RawSources \X {0}) = {}
    BY <2>2, SourceAssumption DEF Recordings
  <2> QED BY <1>4, <2>1, <2>3
<1>12. ASSUME NEW w \in Workers, DecodeAudio(w) PROVE Kinds'
  <2>1. PICK x \in Recordings, frames \in SUBSET Item :
          /\ hand' = [hand EXCEPT ![w] = frames]
          /\ \A y \in frames : y[2] # 0
    BY <1>12, AudioFacts DEF Whereabouts
  <2>2. target' = target /\ arrived' = arrived /\ Role[w] = "audio"
    BY <1>12 DEF DecodeAudio, Whereabouts, Typed, HandOK
  <2>3. frames \cap (RawSources \X {0}) = {}
    BY <2>1
  <2> QED BY <1>0, <2>1, <2>2, <2>3
<1>7. ASSUME NEW w \in Workers, Demux(w) PROVE Kinds'
  <2> DEFINE x == Head(queue["decoded"])
  <2>1. CASE UNCHANGED <<hand, target, arrived>>
    BY <2>1
  <2>2. CASE Took(w, {x}, "telemetry") \/ Took(w, {}, "decoded") \/ Took(w, {x}, "dlq")
    BY <1>4, <1>7, <2>2 DEF Demux
  <2> QED BY <1>7, <2>1, <2>2 DEF Demux
<1>8. ASSUME NEW w \in Workers, DemuxDecoupled(w) PROVE Kinds'
  BY <1>8 DEF DemuxDecoupled, OneOfEach
<1>9. ASSUME NEW w \in Workers, hand' = [hand EXCEPT ![w] = hand'[w]], hand'[w] \subseteq hand[w],
             target' = [target EXCEPT ![w] = target'[w]], arrived' = arrived,
             target'[w] = target[w] \/ (target'[w] = "decoded" /\ hand'[w] = {})
      PROVE  Kinds'
  BY <1>0, <1>9
<1>10. ASSUME NEW w \in Workers,
              RPush(w) \/ DeadLetterFails(w) \/ LTrim(w) \/ Crash(w) \/ Exit(w) \/ Start(w) \/ Sigterm(w)
       PROVE  Kinds'
  <2>1. CASE RPush(w)
    BY <1>0, <1>9, <2>1 DEF RPush
  <2>2. CASE DeadLetterFails(w)
    BY <1>0, <1>9, <2>2 DEF DeadLetterFails
  <2>3. CASE LTrim(w)
    BY <1>0, <1>9, <2>3 DEF LTrim
  <2>4. CASE Crash(w)
    BY <1>0, <1>9, <2>4 DEF Crash
  <2>5. CASE Exit(w) \/ Start(w) \/ Sigterm(w)
    BY <2>5 DEF Exit, Start, Sigterm
  <2> QED BY <1>10, <2>1, <2>2, <2>3, <2>4, <2>5
<1>11. CASE UNCHANGED vars
  BY <1>11 DEF vars, process
<1> QED BY <1>1, <1>2, <1>3, <1>5, <1>6, <1>7, <1>8, <1>10, <1>11, <1>12 DEF Next, Step

\* Every step keeps the line.
LEMMA StepLine == OneOfEach /\ LineInv /\ [Next]_vars => Crossed' /\ ListsSorted'
<1> SUFFICES ASSUME OneOfEach, LineInv, [Next]_vars PROVE Crossed' /\ ListsSorted'
  OBVIOUS
<1>0. /\ hand \in [Workers -> SUBSET Thing] /\ target \in [Workers -> Lists]
      /\ queue \in [Lists -> Seq(Thing)]
      /\ \A w \in Workers : pc[w] = "top" => hand[w] = {}
  BY DEF LineInv, Whereabouts, Typed, TypeOK, HandOK, Thing
<1>1. ASSUME NEW s \in RawSources, Arrive("raw", <<s, 0>>) PROVE Crossed' /\ ListsSorted'
  BY <1>1, ArriveLine
<1>2. CASE Consume
  BY <1>2, ConsumeLine
<1>3. ASSUME arrived' = arrived, consumed' = consumed, UNCHANGED <<hand, target>>,
             \A l \in {"telemetry", "decoded", "raw"} : queue'[l] = queue[l]
      PROVE  Crossed' /\ ListsSorted'
  <2>1. \A role : HandAt(role)' = HandAt(role)
    BY <1>3 DEF HandAt
  <2> QED BY <1>3, <2>1, ShrinkLine
<1>4. ASSUME NEW s \in AudioSources, Arrive("audio", <<s, 0>>) PROVE Crossed' /\ ListsSorted'
  BY <1>0, <1>3, <1>4 DEF Arrive, process, Lists
<1>5. ASSUME NEW w \in Workers, Start(w) \/ Exit(w) \/ Sigterm(w) PROVE Crossed' /\ ListsSorted'
  BY <1>3, <1>5 DEF Start, Exit, Sigterm
<1>6. ASSUME NEW w \in Workers, Decode(w) PROVE Crossed' /\ ListsSorted'
  <2>1. PICK things \in {{Head(queue["raw"])}, {}} : Took(w, things, "decoded")
    BY <1>6 DEF Decode
  <2>2. /\ queue' = [queue EXCEPT ![Source(w)] = Popped(@)]
        /\ hand' = [hand EXCEPT ![w] = things] /\ target' = [target EXCEPT ![w] = "decoded"]
        /\ consumed' = consumed /\ arrived' = arrived
    BY <2>1 DEF Took
  <2>3. Role[w] = "decode" /\ MayTake(w) /\ Source(w) = "raw"
    BY <1>6 DEF Decode, Source
  <2>4. /\ \A v \in Workers \ {w} : hand'[v] = hand[v] /\ target'[v] = target[v]
        /\ hand'[w] \subseteq {Head(queue[Source(w)])}
    BY <1>0, <2>1, <2>2, <2>3
  <2> QED BY <2>2, <2>3, <2>4, TakeLine
<1>7. ASSUME NEW w \in Workers, Demux(w) PROVE Crossed' /\ ListsSorted'
  <2> DEFINE x == Head(queue["decoded"])
  <2>1. Role[w] = "demux" /\ MayTake(w) /\ Source(w) = "decoded" /\ hand[w] = {}
    BY <1>0, <1>7 DEF Demux, Source, MayTake
  <2>2. ASSUME NEW things \in {{x}, {}}, NEW l, Took(w, things, l) PROVE Crossed' /\ ListsSorted'
    <3>1. /\ queue' = [queue EXCEPT ![Source(w)] = Popped(@)]
          /\ hand' = [hand EXCEPT ![w] = things] /\ target' = [target EXCEPT ![w] = l]
          /\ consumed' = consumed /\ arrived' = arrived
      BY <2>2 DEF Took
    <3>2. /\ \A v \in Workers \ {w} : hand'[v] = hand[v] /\ target'[v] = target[v]
          /\ hand'[w] \subseteq {Head(queue[Source(w)])}
      BY <1>0, <2>1, <2>2, <3>1
    <3> QED BY <2>1, <3>1, <3>2, TakeLine
  <2>3. CASE /\ queue' = [queue EXCEPT !["decoded"] = Popped(@)]
             /\ UNCHANGED <<hand, target, arrived, consumed>>
    BY <2>1, <2>3, TakeLine
  <2>4. \/ Took(w, {x}, "telemetry") \/ Took(w, {}, "decoded") \/ Took(w, {x}, "dlq")
        \/ /\ queue' = [queue EXCEPT !["decoded"] = Popped(@)]
           /\ UNCHANGED <<hand, target, arrived, consumed>>
    BY <1>7 DEF Demux
  <2> QED BY <2>2, <2>3, <2>4
<1>8. ASSUME NEW w \in Workers, NEW S,
             hand' = [hand EXCEPT ![w] = S], S \subseteq hand[w],
             target' = [target EXCEPT ![w] = target'[w]], S # {} => target'[w] = target[w],
             consumed' = consumed, arrived' = arrived,
             \A l \in {"telemetry", "decoded", "raw"} :
               queue'[l] = queue[l] \/ queue'[l] = Trimmed(queue[l], Max[l])
      PROVE  Crossed' /\ ListsSorted'
  <2>1. /\ \A v \in Workers \ {w} : hand'[v] = hand[v] /\ target'[v] = target[v]
        /\ hand'[w] = S
    BY <1>0, <1>8
  <2>2. \A role, x : x \in HandAt(role)' => x \in HandAt(role)
    BY <1>8, <2>1, HandsShrink
  <2> QED BY <1>8, <2>2, ShrinkLine
<1>9. ASSUME NEW w \in Workers, TakeAudio(w) \/ DecodeAudio(w) PROVE Crossed' /\ ListsSorted'
  <2>1. /\ Role[w] = "audio" /\ consumed' = consumed /\ arrived' = arrived
        /\ \A v \in Workers \ {w} : hand'[v] = hand[v] /\ target'[v] = target[v]
        /\ \A l \in {"telemetry", "decoded", "raw"} : queue'[l] = queue[l]
    <3>1. CASE TakeAudio(w)
      BY <1>0, <3>1 DEF TakeAudio, Took, Source, Lists
    <3>2. CASE DecodeAudio(w)
      BY <1>0, <3>2 DEF DecodeAudio, LineInv, Whereabouts, Typed, HandOK
    <3> QED BY <1>9, <3>1, <3>2
  <2>2. \A role \in {"decode", "demux"} : HandAt(role)' = HandAt(role)
    BY <2>1, OtherHands
  <2> QED BY <2>1, <2>2, ShrinkLine
<1>10. ASSUME NEW w \in Workers, DemuxDecoupled(w) PROVE Crossed' /\ ListsSorted'
  BY <1>10 DEF DemuxDecoupled, OneOfEach
<1>11. ASSUME NEW w \in Workers, RPush(w) PROVE Crossed' /\ ListsSorted'
  <2>1. PICK x \in hand[w] :
          /\ queue' = [queue EXCEPT ![target[w]] = RPushed(@, x)]
          /\ hand' = [hand EXCEPT ![w] = IF x = Nothing THEN @ ELSE @ \ {x}]
    BY <1>11 DEF RPush
  <2>2. target' = target /\ arrived' = arrived /\ consumed' = consumed
    BY <1>11 DEF RPush
  <2>3. CASE Role[w] = "decode"
    <3>1. target[w] = "decoded"
      BY <2>3 DEF LineInv, Kinds
    <3> QED BY <2>1, <2>2, <2>3, <3>1, PushLine
  <2>4. CASE Role[w] = "audio"
    <3>1. target[w] = "decoded"
      BY <2>4 DEF LineInv, Kinds
    <3> QED BY <2>1, <2>2, <2>4, <3>1, PushPartLine
  <2>5. CASE Role[w] = "demux" /\ target[w] = "telemetry"
    BY <2>1, <2>2, <2>5, PushLine
  <2>6. CASE Role[w] = "demux" /\ target[w] = "dlq"
    <3>1. \A l \in {"telemetry", "decoded", "raw"} : queue'[l] = queue[l]
      BY <1>0, <2>1, <2>6 DEF Lists
    <3>2. target' = [target EXCEPT ![w] = target'[w]] /\ target'[w] = target[w]
      BY <1>0, <2>2
    <3>3. PICK S : hand' = [hand EXCEPT ![w] = S] /\ S \subseteq hand[w]
      BY <2>1
    <3> QED BY <1>8, <2>2, <3>1, <3>2, <3>3
  <2>7. Role[w] \in Roles /\ Role[w] # "decoupled"
    BY ConstantFacts DEF OneOfEach
  <2>8. Role[w] = "demux" => target[w] \in {"telemetry", "dlq"}
    BY <2>1 DEF LineInv, Kinds
  <2> QED BY <2>3, <2>4, <2>5, <2>6, <2>7, <2>8 DEF Roles
<1>12. ASSUME NEW w \in Workers, DeadLetterFails(w) PROVE Crossed' /\ ListsSorted'
  <2>1. PICK S : /\ S = {} /\ hand' = [hand EXCEPT ![w] = S]
                 /\ target' = [target EXCEPT ![w] = "decoded"]
                 /\ consumed' = consumed /\ arrived' = arrived /\ queue' = queue
    BY <1>12 DEF DeadLetterFails
  <2>2. target' = [target EXCEPT ![w] = target'[w]] /\ S \subseteq hand[w] /\ ~(S # {})
    BY <1>0, <2>1
  <2> QED BY <1>8, <2>1, <2>2
<1>13. ASSUME NEW w \in Workers, Crash(w) PROVE Crossed' /\ ListsSorted'
  <2>1. PICK S : /\ S = {} /\ hand' = [hand EXCEPT ![w] = S]
                 /\ target' = [target EXCEPT ![w] = "decoded"]
                 /\ consumed' = consumed /\ arrived' = arrived /\ queue' = queue
    BY <1>13 DEF Crash
  <2>2. target' = [target EXCEPT ![w] = target'[w]] /\ S \subseteq hand[w] /\ ~(S # {})
    BY <1>0, <2>1
  <2> QED BY <1>8, <2>1, <2>2
<1>14. ASSUME NEW w \in Workers, LTrim(w) PROVE Crossed' /\ ListsSorted'
  <2>1. PICK S : /\ S = hand[w] \ {Nothing} /\ hand' = [hand EXCEPT ![w] = S]
                 /\ target' = [target EXCEPT ![w] = IF S = {} THEN "decoded" ELSE @]
                 /\ queue' = [queue EXCEPT ![target[w]] = Trimmed(@, Max[target[w]])]
                 /\ consumed' = consumed /\ arrived' = arrived
    BY <1>14 DEF LTrim
  <2>2. target' = [target EXCEPT ![w] = target'[w]] /\ (S # {} => target'[w] = target[w])
    BY <1>0, <2>1
  <2>3. \A l \in {"telemetry", "decoded", "raw"} :
          queue'[l] = queue[l] \/ queue'[l] = Trimmed(queue[l], Max[l])
    BY <1>0, <2>1 DEF Lists
  <2>4. S \subseteq hand[w] /\ hand' = [hand EXCEPT ![w] = S] /\ consumed' = consumed /\ arrived' = arrived
    BY <2>1
  <2> QED BY <1>8, <2>2, <2>3, <2>4
<1>15. CASE UNCHANGED vars
  BY <1>3, <1>15 DEF vars, process
<1> QED
  BY <1>1, <1>2, <1>4, <1>5, <1>6, <1>7, <1>9, <1>10, <1>11, <1>12, <1>13, <1>14, <1>15
  DEF Next, Step

LEMMA InitLine == Init => Kinds /\ Crossed /\ ListsSorted
<1> SUFFICES ASSUME Init PROVE Kinds /\ Crossed /\ ListsSorted
  OBVIOUS
<1>1. Items(<< >>) = {}
  BY DEF Items
<1>2. /\ \A w \in Workers : hand[w] = {} /\ target[w] = "decoded"
      /\ \A l \in Lists : queue[l] = << >>
      /\ arrived = << >> /\ consumed = << >>
  BY DEF Init
<1>3. Kinds
  BY <1>1, <1>2 DEF Kinds
<1>4. \A x, y : InLine(arrived, x, y)
  BY <1>1, <1>2 DEF InLine
<1> QED BY <1>3, <1>4 DEF Crossed, ListsSorted, Sorted

\* Behind one decode worker and one demux worker raw frames keep their order
\* from ingest to the counter, through every crash, restart, eviction and
\* recording in between.
THEOREM InOrderCorrect ==
  ASSUME OneOfEach
  PROVE  Spec => []InOrder
<1>1. Init => LineInv
  BY InitTyped, InitMoved, InitLine DEF LineInv, Whereabouts
<1>2. LineInv /\ [Next]_vars => LineInv'
  <2> SUFFICES ASSUME LineInv, [Next]_vars PROVE LineInv'
    OBVIOUS
  <2>1. Whereabouts'
    BY StepTyped, StepMoved DEF LineInv, Whereabouts
  <2>2. Kinds'
    BY StepKinds DEF LineInv
  <2>3. Crossed' /\ ListsSorted'
    BY StepLine
  <2> QED BY <2>1, <2>2, <2>3 DEF LineInv
<1> QED BY <1>1, <1>2, LineInOrder, PTL DEF Spec

-----------------------------------------------------------------------------
(* The pipeline is a line on which nothing goes back: how the stages change  *)
(* when lists and hands do.                                                  *)

\* What stands at each stage, in this state and in the next.
LEMMA StandingFacts ==
  /\ DOMAIN Standing = Line!Stages
  /\ Standing["input"] = Items(queue["raw"]) \cup Items(queue["audio"])
  /\ Standing["decoder"] = Hands({"decode", "audio"})
  /\ Standing["decoded"] = Items(queue["decoded"])
  /\ Standing["demux"] = Hands({"demux", "decoupled"})
  /\ Standing["telemetry"] = Items(queue["telemetry"]) \ {Nothing}
  /\ Standing["letters"] = Items(queue["dlq"])
  /\ Standing["read"] = Items(consumed)
  /\ Standing["out"] = settled \cup dropped \cup evicted
BY DEF Standing, Line!Stages

\* A step moves things to where the stages say they are.
LEMMA StandingNext ==
  ASSUME NEW f, DOMAIN f = Line!Stages, f = [s \in Line!Stages |-> f[s]],
         \A s \in Line!Stages : Standing'[s] = f[s]
  PROVE  Standing' = f
<1>1. Standing' = [s \in Line!Stages |-> Standing'[s]]
  BY DEF Standing, Line!Stages
<1> QED BY <1>1

\* The stages after a step.
StandingNextFacts ==
  /\ Standing'["input"] = Items(queue'["raw"]) \cup Items(queue'["audio"])
  /\ Standing'["decoder"] = Hands({"decode", "audio"})'
  /\ Standing'["decoded"] = Items(queue'["decoded"])
  /\ Standing'["demux"] = Hands({"demux", "decoupled"})'
  /\ Standing'["telemetry"] = Items(queue'["telemetry"]) \ {Nothing}
  /\ Standing'["letters"] = Items(queue'["dlq"])
  /\ Standing'["read"] = Items(consumed')
  /\ Standing'["out"] = settled' \cup dropped' \cup evicted'

LEMMA NextStanding == StandingNextFacts
BY DEF Standing, StandingNextFacts

\* The stage of a list, and of the hand of a process.
ListStage(l) ==
  CASE l \in {"raw", "audio"} -> "input"
    [] l = "decoded"          -> "decoded"
    [] l = "telemetry"        -> "telemetry"
    [] l = "dlq"              -> "letters"

HandStage(w) == IF Role[w] \in {"decode", "audio"} THEN "decoder" ELSE "demux"

LEMMA HandsAre ==
  \A roles, x : x \in Hands(roles) <=> x # Nothing /\ \E v \in Workers : Role[v] \in roles /\ x \in hand[v]
<1> TAKE roles, x
<1> DEFINE all == UNION { hand[w] : w \in { v \in Workers : Role[v] \in roles } }
<1>1. x \in all <=> \E v \in Workers : Role[v] \in roles /\ x \in hand[v]
  OBVIOUS
<1>2. Hands(roles) = all \ {Nothing}
  BY DEF Hands
<1> HIDE DEF all
<1> QED BY <1>1, <1>2

\* One hand, one list changes.
HandBecomes(w, S) == \A v \in Workers : hand'[v] = IF v = w THEN S ELSE hand[v]
ListBecomes(l, L) == \A m \in Lists : queue'[m] = IF m = l THEN L ELSE queue[m]

LEMMA HandsNext ==
  ASSUME Typed, NEW w \in Workers, NEW S, HandBecomes(w, S)
  PROVE  \A roles, x : x \in Hands(roles)' <=>
           /\ x # Nothing
           /\ (Role[w] \in roles /\ x \in S) \/ \E v \in Workers : v # w /\ Role[v] \in roles /\ x \in hand[v]
<1> TAKE roles, x
<1> DEFINE all == UNION { hand'[v] : v \in { u \in Workers : Role[u] \in roles } }
<1>1. x \in all <=> \E v \in Workers : Role[v] \in roles /\ x \in hand'[v]
  OBVIOUS
<1>2. \A v \in Workers : hand'[v] = IF v = w THEN S ELSE hand[v]
  BY DEF HandBecomes
<1>3. Hands(roles)' = all \ {Nothing}
  BY DEF Hands
<1> HIDE DEF all
<1> QED BY <1>1, <1>2, <1>3

LEMMA HandsFilled ==
  ASSUME Typed, NEW w \in Workers, hand[w] = {}, NEW S, HandBecomes(w, S), NEW roles
  PROVE  Hands(roles)' = IF Role[w] \in roles THEN Hands(roles) \cup (S \ {Nothing}) ELSE Hands(roles)
<1>1. \A x : x \in Hands(roles)' <=> x \in Hands(roles) \/ (Role[w] \in roles /\ x \in S \ {Nothing})
  <2>1. \A r, x : x \in Hands(r)' <=>
           /\ x # Nothing
           /\ (Role[w] \in r /\ x \in S) \/ \E v \in Workers : v # w /\ Role[v] \in r /\ x \in hand[v]
    BY HandsNext
  <2> QED BY <2>1, HandsAre
<1> QED BY <1>1

LEMMA HandsEmptied ==
  ASSUME Whereabouts, NEW w \in Workers, NEW S, S \subseteq hand[w], HandBecomes(w, S), NEW roles
  PROVE  Hands(roles)' = IF Role[w] \in roles THEN Hands(roles) \ (hand[w] \ S) ELSE Hands(roles)
<1>1. Typed
  BY DEF Whereabouts
<1>2. \A x : x \in hand[w] /\ x # Nothing => \A v \in Workers : x \in hand[v] => v = w
  <2>1. \A x : x \in hand[w] /\ x # Nothing => x \in Item
    BY <1>1 DEF Typed, TypeOK
  <2> QED BY <2>1, PlacedFacts DEF Whereabouts, Placed
<1>3. \A r, x : x \in Hands(r)' <=>
         /\ x # Nothing
         /\ (Role[w] \in r /\ x \in S) \/ \E v \in Workers : v # w /\ Role[v] \in r /\ x \in hand[v]
  BY <1>1, HandsNext
<1>4. \A x : x \in Hands(roles)' <=> x \in Hands(roles) /\ ~(Role[w] \in roles /\ x \in hand[w] \ S)
  BY <1>2, <1>3, HandsAre
<1> QED BY <1>4

\* Both kinds of hands.
LEMMA StagesFilled ==
  ASSUME Typed, NEW w \in Workers, hand[w] = {}, NEW S, HandBecomes(w, S)
  PROVE  \A s \in {"decoder", "demux"} :
           Standing'[s] = IF s = HandStage(w) THEN Standing[s] \cup (S \ {Nothing}) ELSE Standing[s]
<1>1. Role[w] \in Roles
  BY ConstantFacts
<1>2. \A roles : Hands(roles)' = IF Role[w] \in roles THEN Hands(roles) \cup (S \ {Nothing}) ELSE Hands(roles)
  BY HandsFilled
<1>3. Role[w] \in {"demux", "decoupled"} <=> Role[w] \notin {"decode", "audio"}
  BY <1>1 DEF Roles
<1> QED BY <1>2, <1>3, StandingFacts, NextStanding DEF StandingNextFacts, HandStage

LEMMA StagesEmptied ==
  ASSUME Whereabouts, NEW w \in Workers, NEW S, S \subseteq hand[w], HandBecomes(w, S)
  PROVE  \A s \in {"decoder", "demux"} :
           Standing'[s] = IF s = HandStage(w) THEN Standing[s] \ (hand[w] \ S) ELSE Standing[s]
<1>1. Role[w] \in Roles
  BY ConstantFacts
<1>2. \A roles : Hands(roles)' = IF Role[w] \in roles THEN Hands(roles) \ (hand[w] \ S) ELSE Hands(roles)
  BY HandsEmptied
<1>3. Role[w] \in {"demux", "decoupled"} <=> Role[w] \notin {"decode", "audio"}
  BY <1>1 DEF Roles
<1> QED BY <1>2, <1>3, StandingFacts, NextStanding DEF StandingNextFacts, HandStage

ListStages == {"input", "decoded", "telemetry", "letters"}

\* The items of A leave a list.
LEMMA ListLeft ==
  ASSUME Whereabouts, Typed', NEW l \in Lists, NEW L, ListBecomes(l, L),
         NEW A \in SUBSET Item, A \subseteq Items(queue[l]),
         \A x \in Item : x \in Items(L) <=> x \in Items(queue[l]) /\ x \notin A
  PROVE  /\ \A s \in ListStages : Standing'[s] = IF s = ListStage(l) THEN Standing[s] \ A ELSE Standing[s]
         /\ A \subseteq Standing[ListStage(l)]
<1>1. Typed /\ queue \in [Lists -> Seq(Thing)]
  BY DEF Whereabouts, Typed, TypeOK, Thing
<1>2. \A m \in Lists : queue'[m] = IF m = l THEN L ELSE queue[m]
  BY DEF ListBecomes
<1>3. \A m \in Lists : Items(queue[m]) \subseteq Thing /\ Items(queue'[m]) \subseteq Thing
  <2>1. \A m \in Lists : Items(queue'[m]) \subseteq Thing
    BY ElementOfSeq DEF Typed, TypeOK, Items, Thing
  <2> QED BY <1>1, <2>1, ItemsTyped DEF Typed
<1>4. \A m \in Lists : m # "telemetry" => Nothing \notin Items(queue[m]) /\ Nothing \notin Items(queue'[m])
  BY <1>1 DEF Typed, ListOK
<1>5. \A x \in A : x # Nothing /\ \A m \in Lists : x \in Items(queue[m]) => m = l
  BY <1>1, PlacedFacts, NothingAssumption DEF Whereabouts, Placed
<1>6. \A m \in Lists : \A x : x # Nothing => (x \in Items(queue'[m]) <=> x \in Items(queue[m]) /\ x \notin A)
  <2> SUFFICES ASSUME NEW m \in Lists, NEW x, x # Nothing
               PROVE  x \in Items(queue'[m]) <=> x \in Items(queue[m]) /\ x \notin A
    OBVIOUS
  <2>1. CASE m = l
    BY <1>2, <1>3, <2>1 DEF Thing
  <2>2. CASE m # l
    BY <1>2, <1>5, <2>2
  <2> QED BY <2>1, <2>2
<1>7. /\ Items(queue'["raw"]) = Items(queue["raw"]) \ A
      /\ Items(queue'["audio"]) = Items(queue["audio"]) \ A
      /\ Items(queue'["decoded"]) = Items(queue["decoded"]) \ A
      /\ Items(queue'["dlq"]) = Items(queue["dlq"]) \ A
      /\ Items(queue'["telemetry"]) \ {Nothing} = (Items(queue["telemetry"]) \ {Nothing}) \ A
  <2>1. \A m \in Lists : m # "telemetry" => Items(queue'[m]) = Items(queue[m]) \ A
    BY <1>4, <1>6
  <2>2. Items(queue'["telemetry"]) \ {Nothing} = (Items(queue["telemetry"]) \ {Nothing}) \ A
    BY <1>6 DEF Lists
  <2> QED BY <2>1, <2>2 DEF Lists
<1>8. \A s \in ListStages : Standing'[s] = Standing[s] \ A
  BY <1>7, StandingFacts, NextStanding DEF StandingNextFacts, ListStages
<1>9. A \subseteq Standing[ListStage(l)]
  BY <1>5, StandingFacts DEF ListStage, Lists
<1>10. \A s \in ListStages : s # ListStage(l) => Standing[s] \ A = Standing[s]
  <2>1. ASSUME NEW m \in Lists, m # l PROVE Items(queue[m]) \ A = Items(queue[m])
    BY <1>5, <2>1
  <2>2. "raw" \in Lists /\ "audio" \in Lists /\ "decoded" \in Lists /\ "telemetry" \in Lists /\ "dlq" \in Lists
    BY DEF Lists
  <2>3. Standing["input"] \ A = Standing["input"] \/ l \in {"raw", "audio"}
    BY <2>1, <2>2, StandingFacts
  <2>4. Standing["decoded"] \ A = Standing["decoded"] \/ l = "decoded"
    BY <2>1, <2>2, StandingFacts
  <2>5. Standing["telemetry"] \ A = Standing["telemetry"] \/ l = "telemetry"
    BY <2>1, <2>2, StandingFacts
  <2>6. Standing["letters"] \ A = Standing["letters"] \/ l = "dlq"
    BY <2>1, <2>2, StandingFacts
  <2> QED BY <2>3, <2>4, <2>5, <2>6 DEF ListStage, ListStages, Lists
<1> QED BY <1>8, <1>9, <1>10

\* x comes to list l, which is L then.
Gets(l, L, x) ==
  /\ ListBecomes(l, L)
  /\ \A y : y \in Items(L) <=> y \in Items(queue[l]) \/ y = x

LEMMA ListGot ==
  ASSUME NEW l \in {"decoded", "telemetry", "dlq"}, NEW L, NEW x, Gets(l, L, x),
         x = Nothing => l = "telemetry"
  PROVE  \A s \in ListStages :
           Standing'[s] = IF s = ListStage(l) THEN Standing[s] \cup ({x} \ {Nothing}) ELSE Standing[s]
<1>1. \A m \in Lists : queue'[m] = IF m = l THEN L ELSE queue[m]
  BY DEF Gets, ListBecomes
<1>2. ASSUME NEW m \in Lists PROVE Items(queue'[m]) = IF m = l THEN Items(queue[m]) \cup {x} ELSE Items(queue[m])
  BY <1>1, <1>2 DEF Gets
<1>3. /\ Items(queue'["raw"]) = Items(queue["raw"]) /\ Items(queue'["audio"]) = Items(queue["audio"])
      /\ Items(queue'["decoded"]) = IF l = "decoded" THEN Items(queue["decoded"]) \cup {x} ELSE Items(queue["decoded"])
      /\ Items(queue'["dlq"]) = IF l = "dlq" THEN Items(queue["dlq"]) \cup {x} ELSE Items(queue["dlq"])
      /\ Items(queue'["telemetry"]) =
           IF l = "telemetry" THEN Items(queue["telemetry"]) \cup {x} ELSE Items(queue["telemetry"])
  BY <1>2 DEF Lists
<1>4. l # "telemetry" => {x} \ {Nothing} = {x}
  OBVIOUS
<1>5. Standing'["input"] = Standing["input"]
  BY <1>3, StandingFacts, NextStanding DEF StandingNextFacts
<1>6. Standing'["decoded"] = IF l = "decoded" THEN Standing["decoded"] \cup ({x} \ {Nothing}) ELSE Standing["decoded"]
  BY <1>3, <1>4, StandingFacts, NextStanding DEF StandingNextFacts
<1>7. Standing'["letters"] = IF l = "dlq" THEN Standing["letters"] \cup ({x} \ {Nothing}) ELSE Standing["letters"]
  BY <1>3, <1>4, StandingFacts, NextStanding DEF StandingNextFacts
<1>8. Standing'["telemetry"] =
        IF l = "telemetry" THEN Standing["telemetry"] \cup ({x} \ {Nothing}) ELSE Standing["telemetry"]
  BY <1>3, StandingFacts, NextStanding DEF StandingNextFacts
<1> QED BY <1>5, <1>6, <1>7, <1>8 DEF ListStage, ListStages

-----------------------------------------------------------------------------
(* The steps of a line.                                                     *)

\* Nothing changes but at the stages of S.
Elsewhere(S) == \A s \in Line!Stages \ S : Standing'[s] = Standing[s]

LEMMA LineStays ==
  ASSUME Elsewhere({})
  PROVE  UNCHANGED Standing
<1>1. \A s \in Line!Stages : Standing'[s] = Standing[s]
  BY DEF Elsewhere
<1>2. Standing' = [s \in Line!Stages |-> Standing'[s]] /\ Standing = [s \in Line!Stages |-> Standing[s]]
  BY DEF Standing, Line!Stages
<1> QED BY <1>1, <1>2

LEMMA LineAdvances ==
  ASSUME NEW x \in Item, NEW s, NEW t, <<s, t>> \in Line!Ways, x \in Standing[s],
         Elsewhere({s, t}), Standing'[s] = Standing[s] \ {x}, Standing'[t] = Standing[t] \cup {x}
  PROVE  Line!Next
<1> DEFINE way == <<s, t>>
           f == [Standing EXCEPT ![way[1]] = @ \ {x}, ![way[2]] = @ \cup {x}]
<1>1. s \in Line!Stages /\ t \in Line!Stages /\ s # t
  BY DEF Line!Ways, Line!Stages
<1>2. way[1] = s /\ way[2] = t /\ way \in Line!Ways
  OBVIOUS
<1>3. DOMAIN Standing = Line!Stages /\ Standing = [u \in Line!Stages |-> Standing[u]]
  BY DEF Standing, Line!Stages
<1>4. DOMAIN f = Line!Stages /\ f = [u \in Line!Stages |-> f[u]]
  BY <1>3
<1>5. \A u \in Line!Stages : Standing'[u] = f[u]
  BY <1>1, <1>2, <1>3 DEF Elsewhere
<1> HIDE DEF f
<1>6. Standing' = f
  BY <1>4, <1>5, StandingNext
<1>7. Line!Advance(x, way)
  BY <1>2, <1>6 DEF Line!Advance, f
<1> QED BY <1>2, <1>7 DEF Line!Next

LEMMA LineDrops ==
  ASSUME NEW s \in Line!Stages \ Line!Ends, NEW A, A \subseteq Standing[s],
         Elsewhere({s, "out"}), Standing'[s] = Standing[s] \ A,
         Standing'["out"] = Standing["out"] \cup A
  PROVE  Line!Next
<1> DEFINE f == [Standing EXCEPT ![s] = @ \ A, !["out"] = @ \cup A]
<1>1. "out" \in Line!Stages /\ s # "out"
  BY DEF Line!Ends, Line!Stages
<1>3. DOMAIN Standing = Line!Stages /\ Standing = [u \in Line!Stages |-> Standing[u]]
  BY DEF Standing, Line!Stages
<1>4. DOMAIN f = Line!Stages /\ f = [u \in Line!Stages |-> f[u]]
  BY <1>3
<1>5. \A u \in Line!Stages : Standing'[u] = f[u]
  BY <1>1, <1>3 DEF Elsewhere
<1> HIDE DEF f
<1>6. Standing' = f
  BY <1>4, <1>5, StandingNext
<1>7. Line!DropOut(A, s)
  BY <1>6 DEF Line!DropOut, f
<1> QED BY <1>7 DEF Line!Next

LEMMA LineEntered ==
  ASSUME NEW x \in Item, Line!New(x), NEW A, A \subseteq Standing["input"],
         Elsewhere({"input", "out"}), Standing'["input"] = (Standing["input"] \ A) \cup {x},
         Standing'["out"] = Standing["out"] \cup A
  PROVE  Line!Next
<1> DEFINE f == [Standing EXCEPT !["input"] = (@ \ A) \cup {x}, !["out"] = @ \cup A]
<1>1. "out" \in Line!Stages /\ "input" \in Line!Stages
  BY DEF Line!Stages
<1>3. DOMAIN Standing = Line!Stages /\ Standing = [u \in Line!Stages |-> Standing[u]]
  BY DEF Standing, Line!Stages
<1>4. DOMAIN f = Line!Stages /\ f = [u \in Line!Stages |-> f[u]]
  BY <1>3
<1>5. \A u \in Line!Stages : Standing'[u] = f[u]
  BY <1>1, <1>3 DEF Elsewhere
<1> HIDE DEF f
<1>6. Standing' = f
  BY <1>4, <1>5, StandingNext
<1>7. Line!Enter(x, A)
  BY <1>6 DEF Line!Enter, f
<1> QED BY <1>7 DEF Line!Next

LEMMA LineUnfolds ==
  ASSUME NEW x \in Item, x \in Standing["decoder"], NEW N \in SUBSET Found[x],
         \A y \in N : Line!New(y), Elsewhere({"decoder", "out"}),
         Standing'["out"] = Standing["out"] \cup {x},
         Standing'["decoder"] = (Standing["decoder"] \ {x}) \cup N
  PROVE  Line!Next
<1> DEFINE f == [Standing EXCEPT !["decoder"] = (@ \ {x}) \cup N, !["out"] = @ \cup {x}]
<1>1. "out" \in Line!Stages /\ "decoder" \in Line!Stages
  BY DEF Line!Stages
<1>3. DOMAIN Standing = Line!Stages /\ Standing = [u \in Line!Stages |-> Standing[u]]
  BY DEF Standing, Line!Stages
<1>4. DOMAIN f = Line!Stages /\ f = [u \in Line!Stages |-> f[u]]
  BY <1>3
<1>5. \A u \in Line!Stages : Standing'[u] = f[u]
  BY <1>1, <1>3 DEF Elsewhere
<1> HIDE DEF f
<1>6. Standing' = f
  BY <1>4, <1>5, StandingNext
<1>7. Line!Unfold(x, N)
  BY <1>6 DEF Line!Unfold, f
<1> QED BY <1>7 DEF Line!Next

\* What was never born has never been on the line.
LEMMA UnbornIsNew ==
  ASSUME Whereabouts, NEW x \in Item, x \notin born
  PROVE  Line!New(x)
<1>1. /\ \A l \in Lists : x \notin Items(queue[l])
      /\ \A w \in Workers : x \notin hand[w]
      /\ x \notin Gone
  BY PlacedFacts DEF Whereabouts, Placed
<1>2. \A roles : x \notin Hands(roles)
  BY <1>1, HandsAre
<1>3. "raw" \in Lists /\ "audio" \in Lists /\ "decoded" \in Lists /\ "telemetry" \in Lists /\ "dlq" \in Lists
  BY DEF Lists
<1> QED BY <1>1, <1>2, <1>3, StandingFacts DEF Line!New, Line!Stages, Gone

\* A decoder pushes to the decoded list, a demux worker to one of the last two.
Aimed ==
  \A w \in Workers : hand[w] # {} =>
    IF Role[w] \in {"decode", "audio"} THEN target[w] = "decoded" ELSE target[w] \in {"telemetry", "dlq"}

LEMMA StepAimed == Typed /\ Aimed /\ [Next]_vars => Aimed'
<1> SUFFICES ASSUME Typed, Aimed, [Next]_vars PROVE Aimed'
  OBVIOUS
<1> USE DEF Aimed
<1>0. hand \in [Workers -> SUBSET Thing] /\ target \in [Workers -> Lists]
  BY DEF Typed, TypeOK, Thing
<1>1. CASE UNCHANGED <<hand, target>>
  BY <1>1
<1>2. ASSUME NEW w \in Workers, NEW things, NEW l, Took(w, things, l),
             things # {} => IF Role[w] \in {"decode", "audio"} THEN l = "decoded" ELSE l \in {"telemetry", "dlq"}
      PROVE  Aimed'
  <2>1. hand' = [hand EXCEPT ![w] = things] /\ target' = [target EXCEPT ![w] = l]
    BY <1>2 DEF Took
  <2> QED BY <1>0, <1>2, <2>1
<1>3. ASSUME NEW w \in Workers, Decode(w) PROVE Aimed'
  BY <1>2, <1>3 DEF Decode
<1>4. ASSUME NEW w \in Workers, TakeAudio(w) PROVE Aimed'
  BY <1>2, <1>4 DEF TakeAudio
<1>15. ASSUME NEW w \in Workers, DecodeAudio(w) PROVE Aimed'
  <2>1. /\ \A v \in Workers \ {w} : hand'[v] = hand[v]
        /\ target' = target /\ Role[w] = "audio" /\ target[w] = "decoded"
    BY <1>0, <1>15 DEF DecodeAudio, Typed, HandOK
  <2> QED BY <2>1
<1>5. ASSUME NEW w \in Workers, Demux(w) PROVE Aimed'
  <2> DEFINE x == Head(queue["decoded"])
  <2>1. \/ Took(w, {x}, "telemetry") \/ Took(w, {}, "decoded") \/ Took(w, {x}, "dlq")
        \/ UNCHANGED <<hand, target>>
    BY <1>5 DEF Demux
  <2>2. Role[w] = "demux"
    BY <1>5 DEF Demux
  <2> QED BY <1>1, <1>2, <2>1, <2>2
<1>6. ASSUME NEW w \in Workers, DemuxDecoupled(w) PROVE Aimed'
  BY <1>2, <1>6 DEF DemuxDecoupled
<1>7. ASSUME NEW w \in Workers, hand' = [hand EXCEPT ![w] = hand'[w]], hand'[w] \subseteq hand[w],
             target' = [target EXCEPT ![w] = target'[w]], target'[w] = target[w] \/ hand'[w] = {}
      PROVE  Aimed'
  BY <1>0, <1>7
<1>8. ASSUME NEW w \in Workers, RPush(w) PROVE Aimed'
  BY <1>0, <1>7, <1>8 DEF RPush
<1>9. ASSUME NEW w \in Workers, DeadLetterFails(w) PROVE Aimed'
  BY <1>0, <1>7, <1>9 DEF DeadLetterFails
<1>10. ASSUME NEW w \in Workers, LTrim(w) PROVE Aimed'
  BY <1>0, <1>7, <1>10 DEF LTrim
<1>11. ASSUME NEW w \in Workers, Crash(w) PROVE Aimed'
  BY <1>0, <1>7, <1>11 DEF Crash
<1>12. ASSUME NEW w \in Workers, Exit(w) \/ Start(w) \/ Sigterm(w) PROVE Aimed'
  BY <1>1, <1>12 DEF Exit, Start, Sigterm
<1>13. ASSUME NEW l, NEW x, Arrive(l, x) PROVE Aimed'
  BY <1>1, <1>13 DEF Arrive, process
<1>14. CASE Consume \/ UNCHANGED vars
  BY <1>1, <1>14 DEF Consume, vars, process
<1> QED
  BY <1>3, <1>4, <1>5, <1>6, <1>8, <1>9, <1>10, <1>11, <1>12, <1>13, <1>14, <1>15 DEF Next, Step

\* Where the things go that a worker takes and holds.
LEMMA TookStands ==
  ASSUME Whereabouts, Typed', NEW w \in Workers, MayTake(w), NEW things,
         queue' = [queue EXCEPT ![Source(w)] = Popped(@)], hand' = [hand EXCEPT ![w] = things],
         consumed' = consumed, NEW it, it = Head(queue[Source(w)])
  PROVE  /\ it \in Item /\ it \in Standing[ListStage(Source(w))]
         /\ Standing'[ListStage(Source(w))] = Standing[ListStage(Source(w))] \ {it}
         /\ Standing'[HandStage(w)] = Standing[HandStage(w)] \cup (things \ {Nothing})
         /\ Elsewhere({ListStage(Source(w)), HandStage(w), "out"})
         /\ ListStage(Source(w)) = IF Role[w] \in {"decode", "audio"} THEN "input" ELSE "decoded"
<1> DEFINE l == Source(w)
           L == Popped(queue[l])
           A == {it}
<1>1. /\ l \in Lists /\ it \in Item /\ hand[w] = {} /\ it \in Items(queue[l])
      /\ \A x : x \in Items(queue[l]) <=> x \in Items(L) \/ x = it
      /\ queue[l] \in Seq(Thing) /\ queue[l] # << >>
  BY TakeFacts DEF Whereabouts, Typed, TypeOK, Lists, Thing, MayTake
<1>2. it \notin Items(L)
  BY <1>1, OncePopped, NothingAssumption DEF Whereabouts, OnePlace
<1>3. ListBecomes(l, L)
  BY <1>1 DEF ListBecomes, Whereabouts, Typed, TypeOK
<1>4. HandBecomes(w, things)
  BY DEF HandBecomes, Whereabouts, Typed, TypeOK
<1>5. ListStage(l) = IF Role[w] \in {"decode", "audio"} THEN "input" ELSE "decoded"
  BY ConstantFacts DEF Source, ListStage
<1> HIDE DEF l, L
<1>6. /\ \A s \in ListStages : Standing'[s] = IF s = ListStage(l) THEN Standing[s] \ A ELSE Standing[s]
      /\ A \subseteq Standing[ListStage(l)]
  <2>1. A \in SUBSET Item /\ A \subseteq Items(queue[l])
    BY <1>1
  <2>2. \A x \in Item : x \in Items(L) <=> x \in Items(queue[l]) /\ x \notin A
    BY <1>1, <1>2
  <2> QED BY <1>1, <1>3, <2>1, <2>2, ListLeft
<1>7. \A s \in {"decoder", "demux"} :
        Standing'[s] = IF s = HandStage(w) THEN Standing[s] \cup (things \ {Nothing}) ELSE Standing[s]
  <2>1. Typed
    BY DEF Whereabouts
  <2> QED BY <1>1, <1>4, <2>1, StagesFilled
<1>8. Standing'["read"] = Standing["read"]
  BY StandingFacts, NextStanding DEF StandingNextFacts
<1>9. ListStage(l) \in ListStages /\ HandStage(w) \in {"decoder", "demux"}
  BY <1>5 DEF ListStages, HandStage
<1>10. Elsewhere({ListStage(l), HandStage(w), "out"})
  BY <1>6, <1>7, <1>8 DEF Elsewhere, ListStages, Line!Stages
<1> QED BY <1>1, <1>5, <1>6, <1>7, <1>9, <1>10 DEF l

\* The ends of the line.
LEMMA OutStands ==
  /\ UNCHANGED <<settled, dropped, evicted>> => Standing'["out"] = Standing["out"]
  /\ \A A : \/ settled' = settled \cup A /\ UNCHANGED <<dropped, evicted>>
            \/ dropped' = dropped \cup A /\ UNCHANGED <<settled, evicted>>
            \/ evicted' = evicted \cup A /\ UNCHANGED <<settled, dropped>>
            => Standing'["out"] = Standing["out"] \cup A
BY StandingFacts, NextStanding DEF StandingNextFacts

\* A worker takes an item to push it on.
LEMMA TookOn ==
  ASSUME Whereabouts, Typed', NEW w \in Workers, MayTake(w), NEW l,
         Took(w, {Head(queue[Source(w)])}, l), UNCHANGED <<settled, dropped>>
  PROVE  Line!Next
<1> DEFINE it == Head(queue[Source(w)])
           things == {it}
           s == ListStage(Source(w))
<1>1. /\ queue' = [queue EXCEPT ![Source(w)] = Popped(@)] /\ hand' = [hand EXCEPT ![w] = things]
      /\ consumed' = consumed /\ UNCHANGED <<settled, dropped, evicted>>
  BY DEF Took
<1> HIDE DEF it
<1>2. it = Head(queue[Source(w)])
  BY DEF it
<1>3. /\ it \in Item /\ it \in Standing[s]
      /\ Standing'[s] = Standing[s] \ {it}
      /\ Standing'[HandStage(w)] = Standing[HandStage(w)] \cup (things \ {Nothing})
      /\ Elsewhere({s, HandStage(w), "out"})
      /\ s = IF Role[w] \in {"decode", "audio"} THEN "input" ELSE "decoded"
  <2> HIDE DEF things
  <2> QED BY <1>1, <1>2, TookStands
<1>4. Standing'["out"] = Standing["out"]
  BY <1>1, OutStands
<1> HIDE DEF s
<1>5. <<s, HandStage(w)>> \in Line!Ways
  BY <1>3 DEF HandStage, Line!Ways
<1>6. things \ {Nothing} = {it}
  BY <1>3, NothingAssumption
<1>7. Elsewhere({s, HandStage(w)})
  BY <1>3, <1>4 DEF Elsewhere
<1> QED BY <1>3, <1>5, <1>6, <1>7, LineAdvances

\* A worker takes an item and is done with it, or dies of it.
LEMMA TookOut ==
  ASSUME Whereabouts, Typed', NEW w \in Workers, MayTake(w), NEW things \in SUBSET {Nothing},
         queue' = [queue EXCEPT ![Source(w)] = Popped(@)], hand' = [hand EXCEPT ![w] = things],
         UNCHANGED <<consumed, evicted>>, NEW it, it = Head(queue[Source(w)]),
         \/ settled' = settled \cup {it} /\ UNCHANGED dropped
         \/ dropped' = dropped \cup {it} /\ UNCHANGED settled
  PROVE  Line!Next
<1> DEFINE s == ListStage(Source(w))
           A == {it}
<1>1. /\ it \in Item /\ it \in Standing[s]
      /\ Standing'[s] = Standing[s] \ {it}
      /\ Standing'[HandStage(w)] = Standing[HandStage(w)] \cup (things \ {Nothing})
      /\ Elsewhere({s, HandStage(w), "out"})
      /\ s = IF Role[w] \in {"decode", "audio"} THEN "input" ELSE "decoded"
  BY TookStands
<1>2. Standing'["out"] = Standing["out"] \cup {it}
  BY OutStands
<1> HIDE DEF s
<1>3. s \in Line!Stages \ Line!Ends
  BY <1>1 DEF Line!Stages, Line!Ends
<1>4. Elsewhere({s, "out"})
  <2>1. things \ {Nothing} = {}
    OBVIOUS
  <2>2. Standing'[HandStage(w)] = Standing[HandStage(w)]
    BY <1>1, <2>1
  <2>3. \A u \in Line!Stages \ {s, HandStage(w), "out"} : Standing'[u] = Standing[u]
    BY <1>1 DEF Elsewhere
  <2> QED BY <2>2, <2>3 DEF Elsewhere
<1>5. A \subseteq Standing[s] /\ Standing'[s] = Standing[s] \ A /\ Standing'["out"] = Standing["out"] \cup A
  BY <1>1, <1>2
<1> HIDE DEF A
<1> QED BY <1>3, <1>4, <1>5, LineDrops

\* A recording is taken apart.
LEMMA TakenApart ==
  ASSUME Whereabouts, Typed', NEW w \in Workers, DecodeAudio(w)
  PROVE  Line!Next
<1>1. PICK x \in Recordings : \E frames \in SUBSET ({x[1]} \X (1 .. MaxFrames)) :
        /\ hand[w] = {x} /\ hand' = [hand EXCEPT ![w] = frames]
        /\ settled' = settled \cup {x}
        /\ frames \subseteq Item /\ x \notin frames
        /\ \A y \in frames : y[2] # 0 /\ <<y[1], 0>> = x
  BY AudioFacts DEF Whereabouts
<1>2. PICK frames \in SUBSET ({x[1]} \X (1 .. MaxFrames)) :
        /\ hand' = [hand EXCEPT ![w] = frames]
        /\ settled' = settled \cup {x}
        /\ frames \subseteq Item /\ x \notin frames
        /\ \A y \in frames : y[2] # 0 /\ <<y[1], 0>> = x
  BY <1>1
<1>3. UNCHANGED <<queue, consumed, dropped, evicted>> /\ Role[w] = "audio"
  BY DEF DecodeAudio, Whereabouts, Typed, HandOK
<1>4. /\ x \in Item /\ x # Nothing /\ hand[w] = {x} /\ x \notin settled
      /\ \A v \in Workers : x \in hand[v] => v = w
  BY <1>1, ConstantFacts, PlacedFacts DEF Whereabouts, Placed, Gone
<1>5. frames \subseteq Found[x]
  BY <1>2, <1>4, <1>1 DEF Found, Recordings
<1>6. \A y \in frames : Line!New(y)
  <2>1. \A y \in frames : y \notin born
    BY <1>2, <1>4 DEF Whereabouts, PartsAfter
  <2> QED BY <1>2, <2>1, UnbornIsNew
<1>7. \A roles, y : y \in Hands(roles)' <=>
        /\ y # Nothing
        /\ (Role[w] \in roles /\ y \in frames) \/ \E v \in Workers : v # w /\ Role[v] \in roles /\ y \in hand[v]
  <2>1. HandBecomes(w, frames)
    BY <1>2 DEF HandBecomes, Whereabouts, Typed, TypeOK
  <2> QED BY <2>1, HandsNext DEF Whereabouts
<1>8. Standing'["decoder"] = (Standing["decoder"] \ {x}) \cup frames
  <2>1. \A y \in frames : y # Nothing
    BY <1>2, NothingAssumption
  <2>2. \A y : y \in Hands({"decode", "audio"})' <=>
          (y \in Hands({"decode", "audio"}) /\ y # x) \/ y \in frames
    BY <1>3, <1>4, <1>7, <2>1, HandsAre
  <2>3. Hands({"decode", "audio"})' = (Hands({"decode", "audio"}) \ {x}) \cup frames
    BY <2>2
  <2> QED BY <2>3, StandingFacts, NextStanding DEF StandingNextFacts
<1>9. Standing'["demux"] = Standing["demux"]
  <2>1. \A y : y \in Hands({"demux", "decoupled"})' <=> y \in Hands({"demux", "decoupled"})
    BY <1>3, <1>7, HandsAre
  <2>2. Hands({"demux", "decoupled"})' = Hands({"demux", "decoupled"})
    BY <2>1
  <2> QED BY <2>2, StandingFacts, NextStanding DEF StandingNextFacts
<1>10. x \in Standing["decoder"]
  BY <1>3, <1>4, HandsAre, StandingFacts
<1>11. Elsewhere({"decoder", "out"})
  <2>1. \A s \in {"input", "decoded", "telemetry", "letters", "read"} : Standing'[s] = Standing[s]
    BY <1>3, StandingFacts, NextStanding DEF StandingNextFacts
  <2> QED BY <1>9, <2>1 DEF Elsewhere, Line!Stages
<1>12. Standing'["out"] = Standing["out"] \cup {x}
  BY <1>2, <1>3, OutStands
<1> QED BY <1>4, <1>5, <1>6, <1>8, <1>10, <1>11, <1>12, LineUnfolds

\* A frame or a recording comes in.
LEMMA ArriveOn ==
  ASSUME Whereabouts, Typed', NEW l \in {"raw", "audio"}, NEW x \in Whole, Arrive(l, x)
  PROVE  Line!Next
<1> DEFINE longer == RPushed(queue[l], x)
           kept == Trimmed(longer, Max[l])
           A == Items(queue[l]) \ Items(kept)
<1>1. l \in Lists /\ queue[l] \in Seq(Thing) /\ x \in Thing /\ Max[l] \in Nat \ {0} /\ x \in Item
  BY ConstantFacts, WholeFacts DEF Whereabouts, Typed, TypeOK, Lists, Thing
<1>2. longer \in Seq(Thing) /\ \A y : y \in Items(longer) <=> y \in Items(queue[l]) \/ y = x
  <2>1. queue[l] \in Seq(Thing) /\ x \in Thing
    BY <1>1
  <2> QED BY <2>1, PushThing
<1>3. /\ DOMAIN longer = 1 .. Len(longer) /\ Len(longer) \in Nat \ {0}
      /\ longer[Len(longer)] = x
  <2>1. /\ DOMAIN longer = 1 .. (Len(queue[l]) + 1)
        /\ \A i \in DOMAIN longer : longer[i] = IF i <= Len(queue[l]) THEN queue[l][i] ELSE x
    BY <1>1, RPushedPlaces
  <2>2. Len(queue[l]) \in Nat /\ Len(longer) \in Nat /\ DOMAIN longer = 1 .. Len(longer)
    BY <1>1, <1>2, LenProperties
  <2> HIDE DEF longer
  <2>3. Len(longer) = Len(queue[l]) + 1
    BY <2>1, <2>2
  <2> QED BY <2>1, <2>2, <2>3
<1> HIDE DEF longer
<1>4. Items(kept) \subseteq Items(longer) /\ x \in Items(kept)
  <2>1. /\ kept \in Seq(Thing) /\ Items(kept) \subseteq Items(longer)
        /\ Len(kept) = IF Len(longer) <= Max[l] THEN Len(longer) ELSE Max[l]
        /\ \A i \in DOMAIN kept : kept[i] = longer[i + Len(longer) - Len(kept)]
    BY <1>1, <1>2, TrimmedFacts
  <2>2. DOMAIN kept = 1 .. Len(kept)
    BY <2>1, LenProperties
  <2> HIDE DEF kept
  <2>3. Len(kept) \in DOMAIN kept /\ Len(kept) + Len(longer) - Len(kept) = Len(longer)
    BY <1>1, <1>3, <2>1, <2>2
  <2>4. kept[Len(kept)] = x
    BY <1>3, <2>1, <2>3
  <2> QED BY <2>1, <2>3, <2>4 DEF Items
<1>5. queue' = [queue EXCEPT ![l] = kept]
  BY DEF Arrive, longer
<1> HIDE DEF kept
<1>6. \A m \in Lists : queue'[m] = IF m = l THEN kept ELSE queue[m]
  BY <1>5 DEF Whereabouts, Typed, TypeOK
<1>7. /\ evicted' = evicted \cup A
      /\ UNCHANGED <<hand, consumed, settled, dropped>>
  BY <1>1, <1>4, <1>6 DEF Arrive, process
<1>8. Line!New(x) /\ x \notin Items(queue[l])
  <2>1. x \notin born
    BY DEF Arrive
  <2> QED BY <1>1, <2>1, UnbornIsNew, PlacedFacts DEF Whereabouts, Placed
<1>9. \A m \in Lists : m # l => \A y \in A : y \notin Items(queue[m])
  <2>1. "telemetry" # l
    OBVIOUS
  <2>2. A \subseteq Item
    BY <1>1, ItemsTyped DEF Whereabouts, Typed, ListOK, Thing
  <2> QED BY <1>1, <2>2, PlacedFacts DEF Whereabouts, Placed
<1>10. \A y : y \in A <=> y \in Items(queue[l]) /\ y \notin Items(kept)
  OBVIOUS
<1> HIDE DEF A
<1>11. Items(kept) = (Items(queue[l]) \ A) \cup {x}
  BY <1>2, <1>4, <1>8, <1>10
<1>12. \A m \in Lists : Items(queue'[m]) = IF m = l THEN (Items(queue[l]) \ A) \cup {x} ELSE Items(queue[m])
  BY <1>6, <1>11
<1>13. /\ Items(queue'["raw"]) \cup Items(queue'["audio"])
            = ((Items(queue["raw"]) \cup Items(queue["audio"])) \ A) \cup {x}
       /\ A \subseteq Items(queue["raw"]) \cup Items(queue["audio"])
  <2>1. "raw" \in Lists /\ "audio" \in Lists
    BY DEF Lists
  <2>2. CASE l = "raw"
    <3>1. Items(queue["audio"]) \ A = Items(queue["audio"])
      BY <1>9, <2>1, <2>2
    <3> QED BY <1>10, <1>12, <2>1, <2>2, <3>1
  <2>3. CASE l = "audio"
    <3>1. Items(queue["raw"]) \ A = Items(queue["raw"])
      BY <1>9, <2>1, <2>3
    <3> QED BY <1>10, <1>12, <2>1, <2>3, <3>1
  <2> QED BY <2>2, <2>3
<1>14. Standing'["input"] = (Standing["input"] \ A) \cup {x} /\ A \subseteq Standing["input"]
  BY <1>13, StandingFacts, NextStanding DEF StandingNextFacts
<1>15. Standing'["out"] = Standing["out"] \cup A
  BY <1>7, OutStands
<1>16. \A roles : Hands(roles)' = Hands(roles)
  BY <1>7 DEF Hands
<1>17. Elsewhere({"input", "out"})
  <2>1. \A m \in {"decoded", "telemetry", "dlq"} : Items(queue'[m]) = Items(queue[m])
    BY <1>12 DEF Lists
  <2> QED BY <1>7, <1>16, <2>1, StandingFacts, NextStanding DEF StandingNextFacts, Elsewhere, Line!Stages
<1> QED BY <1>1, <1>8, <1>14, <1>15, <1>17, LineEntered

\* The exporter reads a reading, or the pickled None.
LEMMA ConsumeOn ==
  ASSUME Whereabouts, Typed', Consume
  PROVE  Line!Next \/ UNCHANGED Standing
<1> DEFINE l == "telemetry"
           L == Popped(queue[l])
           it == Head(queue[l])
           A == {it} \ {Nothing}
<1>1. /\ l \in Lists /\ queue[l] \in Seq(Thing) /\ queue[l] # << >>
  BY DEF Consume, Whereabouts, Typed, TypeOK, Lists, Thing
<1>2. it \in Thing /\ \A x : x \in Items(queue[l]) <=> x \in Items(L) \/ x = it
  BY <1>1, PoppedFacts
<1>3. it # Nothing => it \notin Items(L)
  BY <1>1, OncePopped DEF Whereabouts, OnePlace
<1>4. ListBecomes(l, L)
  BY <1>1 DEF Consume, ListBecomes, Whereabouts, Typed, TypeOK
<1>5. UNCHANGED <<hand, settled, dropped, evicted>>
  BY DEF Consume, process, fate
<1>6. Items(consumed') = Items(consumed) \cup A
  <2>1. CASE it = Nothing
    <3>1. consumed' = consumed /\ A = {}
      BY <2>1 DEF Consume
    <3> QED BY <3>1
  <2>2. CASE it # Nothing
    <3>1. consumed' = RPushed(consumed, it) /\ consumed \in Seq(Item) /\ it \in Item
      BY <1>2, <2>2 DEF Consume, RPushed, Whereabouts, Typed, TypeOK, Thing
    <3> HIDE DEF it
    <3>2. \A x : x \in Items(consumed') <=> x \in Items(consumed) \/ x = it
      BY <3>1, RPushedFacts
    <3> QED BY <2>2, <3>2
  <2> QED BY <2>1, <2>2
<1> HIDE DEF L, it
<1>7. /\ \A s \in ListStages : Standing'[s] = IF s = ListStage(l) THEN Standing[s] \ A ELSE Standing[s]
      /\ A \subseteq Standing[ListStage(l)]
  <2>1. A \in SUBSET Item /\ A \subseteq Items(queue[l])
    BY <1>2 DEF Thing
  <2>2. \A x \in Item : x \in Items(L) <=> x \in Items(queue[l]) /\ x \notin A
    BY <1>2, <1>3, NothingAssumption
  <2> QED BY <1>1, <1>4, <2>1, <2>2, ListLeft
<1>8. ListStage(l) = "telemetry"
  BY DEF ListStage
<1>9. \A roles : Hands(roles)' = Hands(roles)
  BY <1>5 DEF Hands
<1>10. Standing'["read"] = Standing["read"] \cup A
  BY <1>6, StandingFacts, NextStanding DEF StandingNextFacts
<1>11. Elsewhere({"telemetry", "read"})
  <2>1. Standing'["decoder"] = Standing["decoder"] /\ Standing'["demux"] = Standing["demux"]
    BY <1>9, StandingFacts, NextStanding DEF StandingNextFacts
  <2>2. Standing'["out"] = Standing["out"]
    BY <1>5, OutStands
  <2> QED BY <1>7, <1>8, <2>1, <2>2 DEF Elsewhere, ListStages, Line!Stages
<1>12. /\ Standing'["telemetry"] = Standing["telemetry"] \ A /\ A \subseteq Standing["telemetry"]
  BY <1>7, <1>8 DEF ListStages
<1>13. CASE it = Nothing
  <2>1. A = {}
    BY <1>13
  <2>2. Standing'["telemetry"] = Standing["telemetry"] /\ Standing'["read"] = Standing["read"]
    BY <1>10, <1>12, <2>1
  <2>3. Elsewhere({})
    BY <1>11, <2>2 DEF Elsewhere
  <2> QED BY <2>3, LineStays
<1>14. CASE it # Nothing
  <2>1. A = {it} /\ it \in Item
    BY <1>2, <1>14 DEF Thing
  <2>2. <<"telemetry", "read">> \in Line!Ways
    BY DEF Line!Ways
  <2>3. /\ it \in Standing["telemetry"] /\ Standing'["telemetry"] = Standing["telemetry"] \ {it}
        /\ Standing'["read"] = Standing["read"] \cup {it}
    BY <1>10, <1>12, <2>1
  <2> QED BY <1>11, <2>1, <2>2, <2>3, LineAdvances
<1> QED BY <1>13, <1>14

\* A worker pushes an item, or the pickled None, which it still holds.
LEMMA RPushOn ==
  ASSUME Whereabouts, Aimed, NEW w \in Workers, RPush(w)
  PROVE  Line!Next \/ UNCHANGED Standing
<1> DEFINE l == target[w]
<1>1. PICK x \in hand[w] :
        /\ queue' = [queue EXCEPT ![l] = RPushed(@, x)]
        /\ hand' = [hand EXCEPT ![w] = IF x = Nothing THEN @ ELSE @ \ {x}]
  BY DEF RPush
<1>2. UNCHANGED <<consumed, settled, dropped, evicted>>
  BY DEF RPush, fate
<1>3. /\ l \in {"decoded", "telemetry", "dlq"} /\ l \in Lists /\ queue[l] \in Seq(Thing)
      /\ x \in Thing /\ (x = Nothing => l = "telemetry") /\ Typed
  BY <1>1 DEF Whereabouts, Typed, TypeOK, HandOK, Thing
<1>4. IF Role[w] \in {"decode", "audio"} THEN l = "decoded" ELSE l \in {"telemetry", "dlq"}
  BY <1>1 DEF Aimed
<1> DEFINE L == RPushed(queue[l], x)
           S == hand[w] \ ({x} \ {Nothing})
<1>5. ListBecomes(l, L)
  BY <1>1, <1>3 DEF ListBecomes, Whereabouts, Typed, TypeOK
<1>6. HandBecomes(w, S) /\ S \subseteq hand[w] /\ hand[w] \ S = {x} \ {Nothing}
  <2>1. S = IF x = Nothing THEN hand[w] ELSE hand[w] \ {x}
    BY <1>1
  <2>2. hand' = [hand EXCEPT ![w] = S]
    BY <1>1, <2>1
  <2> HIDE DEF S
  <2>3. HandBecomes(w, S)
    BY <2>2 DEF HandBecomes, Whereabouts, Typed, TypeOK
  <2> QED BY <1>1, <2>3 DEF S
<1> HIDE DEF l, S
<1>7. \A y : y \in Items(L) <=> y \in Items(queue[l]) \/ y = x
  BY <1>3, PushThing
<1> HIDE DEF L
<1>8. \A s \in ListStages :
        Standing'[s] = IF s = ListStage(l) THEN Standing[s] \cup ({x} \ {Nothing}) ELSE Standing[s]
  <2>1. Gets(l, L, x)
    BY <1>5, <1>7 DEF Gets
  <2> QED BY <1>3, <2>1, ListGot
<1>9. \A s \in {"decoder", "demux"} :
        Standing'[s] = IF s = HandStage(w) THEN Standing[s] \ ({x} \ {Nothing}) ELSE Standing[s]
  <2>1. \A s \in {"decoder", "demux"} :
          Standing'[s] = IF s = HandStage(w) THEN Standing[s] \ (hand[w] \ S) ELSE Standing[s]
    BY <1>6, StagesEmptied
  <2> QED BY <1>6, <2>1
<1>10. Standing'["read"] = Standing["read"] /\ Standing'["out"] = Standing["out"]
  BY <1>2, OutStands, StandingFacts, NextStanding DEF StandingNextFacts
<1>11. CASE x = Nothing
  <2>1. {x} \ {Nothing} = {}
    BY <1>11
  <2>2. Elsewhere({})
    BY <1>8, <1>9, <1>10, <2>1 DEF Elsewhere, ListStages, Line!Stages
  <2> QED BY <2>2, LineStays
<1>12. CASE x # Nothing
  <2>1. {x} \ {Nothing} = {x} /\ x \in Item
    BY <1>3, <1>12 DEF Thing
  <2>2. <<HandStage(w), ListStage(l)>> \in Line!Ways /\ HandStage(w) \in {"decoder", "demux"}
        /\ ListStage(l) \in ListStages
    BY <1>4 DEF HandStage, ListStage, Line!Ways, ListStages
  <2>3. x \in Standing[HandStage(w)]
    BY <1>1, <1>12, HandsAre, StandingFacts, ConstantFacts DEF HandStage, Roles
  <2>4. Elsewhere({HandStage(w), ListStage(l)})
    BY <1>8, <1>9, <1>10 DEF Elsewhere, ListStages, Line!Stages
  <2>5. /\ Standing'[HandStage(w)] = Standing[HandStage(w)] \ {x}
        /\ Standing'[ListStage(l)] = Standing[ListStage(l)] \cup {x}
    BY <1>8, <1>9, <2>1, <2>2
  <2> QED BY <2>1, <2>2, <2>3, <2>4, <2>5, LineAdvances
<1> QED BY <1>11, <1>12

\* LTRIM evicts.
LEMMA LTrimOut ==
  ASSUME Whereabouts, Typed', NEW w \in Workers, LTrim(w)
  PROVE  Line!Next
<1> DEFINE l == target[w]
           L == Trimmed(queue[l], Max[l])
           S == hand[w] \ {Nothing}
           A == Overflow(l)
<1>1. /\ queue' = [queue EXCEPT ![l] = L] /\ hand' = [hand EXCEPT ![w] = S]
      /\ evicted' = evicted \cup A /\ UNCHANGED <<consumed, settled, dropped>>
  BY DEF LTrim
<1>2. l \in {"decoded", "telemetry", "dlq"} /\ l \in Lists /\ Max[l] \in Nat \ {0} /\ queue[l] \in Seq(Thing)
  BY ConstantFacts DEF Whereabouts, Typed, TypeOK, HandOK, Thing
<1>3. Items(L) \subseteq Items(queue[l])
  BY <1>2, TrimmedFacts
<1>4. ListBecomes(l, L)
  BY <1>1, <1>2 DEF ListBecomes, Whereabouts, Typed, TypeOK
<1>5. HandBecomes(w, S)
  BY <1>1 DEF HandBecomes, Whereabouts, Typed, TypeOK
<1>6. A \subseteq Item /\ A \subseteq Items(queue[l]) /\ \A x \in Item : x \in A <=> x \in Items(queue[l]) /\ x \notin Items(L)
  BY <1>2, ItemsTyped, NothingAssumption DEF Overflow, Whereabouts, Typed, Thing
<1> HIDE DEF l, L, A
<1>7. /\ \A s \in ListStages : Standing'[s] = IF s = ListStage(l) THEN Standing[s] \ A ELSE Standing[s]
      /\ A \subseteq Standing[ListStage(l)]
  <2>1. \A x \in Item : x \in Items(L) <=> x \in Items(queue[l]) /\ x \notin A
    BY <1>3, <1>6
  <2>2. A \in SUBSET Item
    BY <1>6
  <2> QED BY <1>2, <1>4, <1>6, <2>1, <2>2, ListLeft
<1>8. \A s \in {"decoder", "demux"} : Standing'[s] = Standing[s]
  <2>1. S \subseteq hand[w] /\ hand[w] \ S \subseteq {Nothing}
    OBVIOUS
  <2> HIDE DEF S
  <2>2. \A s \in {"decoder", "demux"} :
          Standing'[s] = IF s = HandStage(w) THEN Standing[s] \ (hand[w] \ S) ELSE Standing[s]
    BY <1>5, <2>1, StagesEmptied
  <2>3. \A s \in {"decoder", "demux"} : Nothing \notin Standing[s]
    BY HandsAre, StandingFacts
  <2> QED BY <2>1, <2>2, <2>3
<1>9. Standing'["read"] = Standing["read"]
  BY <1>1, StandingFacts, NextStanding DEF StandingNextFacts
<1>10. Standing'["out"] = Standing["out"] \cup A
  BY <1>1, OutStands
<1>11. ListStage(l) \in Line!Stages \ Line!Ends /\ ListStage(l) \in ListStages
  BY <1>2 DEF ListStage, Line!Stages, Line!Ends, ListStages
<1>12. Elsewhere({ListStage(l), "out"})
  BY <1>7, <1>8, <1>9 DEF Elsewhere, ListStages, Line!Stages
<1>13. Standing'[ListStage(l)] = Standing[ListStage(l)] \ A
  BY <1>7, <1>11
<1> QED BY <1>7, <1>10, <1>11, <1>12, <1>13, LineDrops

\* What a process had in hand goes with it, or with a refused dead letter.
LEMMA DroppedOut ==
  ASSUME Whereabouts, NEW w \in Workers, hand' = [hand EXCEPT ![w] = {}],
         queue' = queue, UNCHANGED <<consumed, settled, evicted>>,
         dropped' = dropped \cup (hand[w] \ {Nothing})
  PROVE  Line!Next
<1> DEFINE A == hand[w] \ {Nothing}
           S == {}
<1>1. HandBecomes(w, S) /\ S \subseteq hand[w]
  BY DEF HandBecomes, Whereabouts, Typed, TypeOK
<1>2. \A s \in {"decoder", "demux"} :
        Standing'[s] = IF s = HandStage(w) THEN Standing[s] \ (hand[w] \ S) ELSE Standing[s]
  <2> HIDE DEF S
  <2> QED BY <1>1, StagesEmptied
<1>3. \A s \in {"decoder", "demux"} : Nothing \notin Standing[s]
  BY HandsAre, StandingFacts
<1>4. HandStage(w) \in {"decoder", "demux"} /\ HandStage(w) \in Line!Stages \ Line!Ends
  BY DEF HandStage, Line!Stages, Line!Ends
<1>5. Standing'[HandStage(w)] = Standing[HandStage(w)] \ A
  BY <1>2, <1>3, <1>4
<1>6. A \subseteq Standing[HandStage(w)]
  BY HandsAre, StandingFacts, ConstantFacts DEF HandStage, Roles
<1>7. \A s \in ListStages \cup {"read"} : Standing'[s] = Standing[s]
  BY StandingFacts, NextStanding DEF StandingNextFacts, ListStages
<1>8. Standing'["out"] = Standing["out"] \cup A
  BY OutStands
<1>9. Elsewhere({HandStage(w), "out"})
  BY <1>2, <1>7 DEF Elsewhere, ListStages, Line!Stages
<1> HIDE DEF A
<1> QED BY <1>4, <1>5, <1>6, <1>8, <1>9, LineDrops

\* Every step of the pipeline is a step of the line, or none.
LEMMA StepOnLine == Whereabouts /\ Aimed /\ Typed' /\ [Next]_vars => [Line!Next]_Standing
<1> SUFFICES ASSUME Whereabouts, Aimed, Typed', [Next]_vars PROVE Line!Next \/ UNCHANGED Standing
  OBVIOUS
<1>0. hand \in [Workers -> SUBSET Thing] /\ \A w \in Workers : MayTake(w) => hand[w] = {}
  BY TakeFacts DEF Whereabouts, Typed, TypeOK, Thing
<1>1. ASSUME NEW s \in RawSources, Arrive("raw", <<s, 0>>) PROVE Line!Next
  BY <1>1, ArriveOn DEF Whole
<1>2. ASSUME NEW s \in AudioSources, Arrive("audio", <<s, 0>>) PROVE Line!Next
  BY <1>2, ArriveOn DEF Whole
<1>3. CASE Consume
  BY <1>3, ConsumeOn
<1>4. ASSUME NEW w \in Workers, NEW things \in SUBSET {Nothing}, NEW l, MayTake(w), Took(w, things, l),
             settled' = settled \cup {Head(queue[Source(w)])}, UNCHANGED dropped
      PROVE  Line!Next
  BY <1>4, TookOut DEF Took
<1>5. ASSUME NEW w \in Workers, Decode(w) PROVE Line!Next
  <2>1. MayTake(w) /\ Source(w) = "raw"
    BY <1>5 DEF Decode, Source
  <2>2. \/ Took(w, {Head(queue["raw"])}, "decoded") /\ UNCHANGED <<settled, dropped>>
        \/ Took(w, {}, "decoded") /\ settled' = settled \cup {Head(queue["raw"])} /\ UNCHANGED dropped
    BY <1>5 DEF Decode
  <2> QED BY <1>4, <2>1, <2>2, TookOn
<1>6. ASSUME NEW w \in Workers, TakeAudio(w) PROVE Line!Next
  <2>1. MayTake(w) /\ Source(w) = "audio"
    BY <1>6 DEF TakeAudio, Source
  <2> QED BY <1>6, <2>1, TookOn DEF TakeAudio
<1>16. ASSUME NEW w \in Workers, DecodeAudio(w) PROVE Line!Next
  BY <1>16, TakenApart
<1>7. ASSUME NEW w \in Workers, Demux(w) PROVE Line!Next
  <2> DEFINE x == Head(queue["decoded"])
  <2>1. MayTake(w) /\ Source(w) = "decoded" /\ hand[w] = {}
    BY <1>0, <1>7 DEF Demux, Source
  <2>2. CASE \/ Took(w, {x}, "telemetry") /\ UNCHANGED <<settled, dropped>>
             \/ Took(w, {x}, "dlq") /\ UNCHANGED <<settled, dropped>>
    BY <2>1, <2>2, TookOn
  <2>3. CASE Took(w, {}, "decoded") /\ settled' = settled \cup {x} /\ UNCHANGED dropped
    BY <1>4, <2>1, <2>3
  <2>4. CASE /\ queue' = [queue EXCEPT !["decoded"] = Popped(@)]
             /\ dropped' = dropped \cup {x}
             /\ UNCHANGED <<hand, consumed, settled, evicted>>
    <3>1. hand' = [hand EXCEPT ![w] = {}]
      BY <1>0, <2>1, <2>4
    <3>2. queue' = [queue EXCEPT ![Source(w)] = Popped(@)] /\ x = Head(queue[Source(w)])
      BY <2>1, <2>4
    <3> QED BY <2>1, <2>4, <3>1, <3>2, TookOut
  <2> QED BY <1>7, <2>2, <2>3, <2>4 DEF Demux
<1>8. ASSUME NEW w \in Workers, DemuxDecoupled(w) PROVE Line!Next
  <2> DEFINE x == Head(queue["decoded"])
  <2>1. MayTake(w) /\ Source(w) = "decoded"
    BY <1>8 DEF DemuxDecoupled, Source
  <2>2. \/ Took(w, {x}, "telemetry") /\ UNCHANGED <<settled, dropped>>
        \/ Took(w, {}, "decoded") /\ settled' = settled \cup {x} /\ UNCHANGED dropped
        \/ Took(w, {Nothing}, "telemetry") /\ settled' = settled \cup {x} /\ UNCHANGED dropped
    BY <1>8 DEF DemuxDecoupled
  <2> QED BY <1>4, <2>1, <2>2, TookOn
<1>9. ASSUME NEW w \in Workers, RPush(w) PROVE Line!Next \/ UNCHANGED Standing
  BY <1>9, RPushOn
<1>10. ASSUME NEW w \in Workers, LTrim(w) PROVE Line!Next
  BY <1>10, LTrimOut
<1>11. ASSUME NEW w \in Workers, DeadLetterFails(w) PROVE Line!Next
  <2>1. hand[w] \ {Nothing} = hand[w]
    BY <1>11 DEF DeadLetterFails, Whereabouts, Typed, HandOK
  <2> QED BY <1>11, <2>1, DroppedOut DEF DeadLetterFails
<1>12. ASSUME NEW w \in Workers, Crash(w) PROVE Line!Next
  BY <1>12, DroppedOut DEF Crash
<1>13. ASSUME UNCHANGED <<queue, hand, consumed, settled, dropped, evicted>> PROVE UNCHANGED Standing
  BY <1>13 DEF Standing, Hands
<1>14. ASSUME NEW w \in Workers, Start(w) \/ Exit(w) \/ Sigterm(w) PROVE UNCHANGED Standing
  BY <1>13, <1>14 DEF Start, Exit, Sigterm, fate
<1>15. CASE UNCHANGED vars
  BY <1>13, <1>15 DEF vars, process, fate
<1> QED
  BY <1>1, <1>2, <1>3, <1>5, <1>6, <1>7, <1>8, <1>9, <1>10, <1>11, <1>12, <1>14, <1>15, <1>16
     DEF Next, Step

LEMMA InitOnLine == Init => Line!Init /\ Aimed
<1> SUFFICES ASSUME Init PROVE Line!Init /\ Aimed
  OBVIOUS
<1>1. /\ \A w \in Workers : hand[w] = {}
      /\ \A l \in Lists : queue[l] = << >>
      /\ consumed = << >> /\ settled = {} /\ dropped = {} /\ evicted = {}
  BY DEF Init
<1>2. Items(<< >>) = {}
  BY DEF Items
<1>3. \A roles : Hands(roles) = {}
  BY <1>1, HandsAre
<1>4. \A s \in Line!Stages : Standing[s] = {}
  BY <1>1, <1>2, <1>3, StandingFacts DEF Line!Stages, Lists
<1>5. Standing = [s \in Line!Stages |-> Standing[s]]
  BY DEF Standing, Line!Stages
<1>6. Standing = [s \in Line!Stages |-> {}]
  BY <1>4, <1>5
<1> QED BY <1>1, <1>6 DEF Line!Init, Aimed

\* The workers, with everything that happens to them, implement the abstract
\* line: every step of any of them is one step of the line or none, so that no
\* frame goes back to a stage it has left, leaves one out or is read twice.
THEOREM PipelineIsALine == Spec => GoesOneWay
<1> DEFINE Inv == Whereabouts /\ Aimed
<1>1. Init => Inv /\ Line!Init
  BY InitTyped, InitMoved, InitOnLine DEF Whereabouts
<1>2. Inv /\ [Next]_vars => Inv' /\ [Line!Next]_Standing
  <2>1. Whereabouts /\ [Next]_vars => Typed' /\ Whereabouts'
    BY StepTyped, StepMoved DEF Whereabouts
  <2>2. Whereabouts /\ Aimed /\ [Next]_vars => Aimed'
    BY StepAimed DEF Whereabouts
  <2> QED BY <2>1, <2>2, StepOnLine
<1> QED BY <1>1, <1>2, PTL DEF Spec, GoesOneWay, Line!Spec
=============================================================================
