-------------------------- MODULE RedisListProofs --------------------------
(* What the list commands return, for every list and every maximum.        *)
EXTENDS RedisList, SequenceTheorems, TLAPS

\* RPUSH adds its item and nothing else, and keeps a list without repetition
\* so when the item is new: what the push of every queue class relies on.
LEMMA RPushedFacts ==
  ASSUME NEW S, NEW list \in Seq(S), NEW item \in S
  PROVE  /\ RPushed(list, item) \in Seq(S)
         /\ Len(RPushed(list, item)) = Len(list) + 1
         /\ \A x : x \in Items(RPushed(list, item)) <=> x \in Items(list) \/ x = item
         /\ Distinct(list) /\ item \notin Items(list) => Distinct(RPushed(list, item))
<1> DEFINE longer == Append(list, item)
<1>1. /\ longer \in Seq(S)
      /\ Len(longer) = Len(list) + 1
      /\ \A i \in 1 .. Len(list) : longer[i] = list[i]
      /\ longer[Len(list) + 1] = item
  BY AppendProperties
<1>2. Len(list) \in Nat /\ DOMAIN list = 1 .. Len(list) /\ DOMAIN longer = 1 .. (Len(list) + 1)
  BY <1>1, LenProperties
<1> HIDE DEF longer
<1>3. Items(longer) = Items(list) \cup {item}
  <2>1. ASSUME NEW x \in Items(longer) PROVE x \in Items(list) \cup {item}
    <3>1. PICK i \in DOMAIN longer : x = longer[i]
      BY <2>1 DEF Items
    <3>2. CASE i \in 1 .. Len(list)
      BY <1>1, <1>2, <3>1, <3>2 DEF Items
    <3>3. CASE i = Len(list) + 1
      BY <1>1, <3>1, <3>3
    <3> QED BY <1>2, <3>2, <3>3
  <2>2. ASSUME NEW x \in Items(list) PROVE x \in Items(longer)
    <3>1. PICK i \in 1 .. Len(list) : x = list[i]
      BY <1>2, <2>2 DEF Items
    <3>2. i \in DOMAIN longer /\ x = longer[i]
      BY <1>1, <1>2, <3>1
    <3> QED BY <3>2 DEF Items
  <2>3. item \in Items(longer)
    <3>1. Len(list) + 1 \in DOMAIN longer
      BY <1>2
    <3> QED BY <1>1, <3>1 DEF Items
  <2> QED BY <2>1, <2>2, <2>3
<1>4. ASSUME Distinct(list), item \notin Items(list) PROVE Distinct(longer)
  <2> SUFFICES ASSUME NEW i \in DOMAIN longer, NEW j \in DOMAIN longer, longer[i] = longer[j]
               PROVE  i = j
    BY DEF Distinct
  <2>1. ASSUME NEW k \in 1 .. Len(list) PROVE longer[k] # item
    BY <1>1, <1>2, <1>4, <2>1 DEF Items
  <2>2. CASE i \in 1 .. Len(list) /\ j \in 1 .. Len(list)
    BY <1>1, <1>2, <1>4, <2>2 DEF Distinct
  <2>3. CASE i = Len(list) + 1 \/ j = Len(list) + 1
    BY <1>1, <1>2, <2>1, <2>3
  <2> QED BY <1>2, <2>2, <2>3
<1> QED BY <1>1, <1>3, <1>4 DEF longer, RPushed

\* RPUSH puts its item behind the others, which keep their places.
LEMMA RPushedPlaces ==
  ASSUME NEW S, NEW list \in Seq(S), NEW item \in S
  PROVE  /\ DOMAIN RPushed(list, item) = 1 .. (Len(list) + 1)
         /\ \A i \in DOMAIN RPushed(list, item) :
              RPushed(list, item)[i] = IF i <= Len(list) THEN list[i] ELSE item
<1>1. /\ Append(list, item) \in Seq(S)
      /\ Len(Append(list, item)) = Len(list) + 1
      /\ \A i \in 1 .. Len(list) : Append(list, item)[i] = list[i]
      /\ Append(list, item)[Len(list) + 1] = item
  BY AppendProperties
<1>2. Len(list) \in Nat /\ DOMAIN Append(list, item) = 1 .. (Len(list) + 1)
  BY <1>1, LenProperties
<1> QED BY <1>1, <1>2 DEF RPushed

\* LPOP splits the oldest item from the others: nothing is lost or repeated.
LEMMA PoppedFacts ==
  ASSUME NEW S, NEW list \in Seq(S), list # << >>
  PROVE  /\ Popped(list) \in Seq(S)
         /\ Head(list) \in S
         /\ Len(Popped(list)) = Len(list) - 1
         /\ Items(list) = Items(Popped(list)) \cup {Head(list)}
         /\ Distinct(list) => Distinct(Popped(list)) /\ Head(list) \notin Items(Popped(list))
<1> DEFINE rest == Tail(list)
<1>1. /\ rest \in Seq(S)
      /\ Head(list) \in S
      /\ Len(rest) = Len(list) - 1
      /\ \A i \in 1 .. Len(rest) : rest[i] = list[i + 1]
  BY HeadTailProperties
<1>2. /\ Len(list) \in Nat \ {0}
      /\ DOMAIN list = 1 .. Len(list)
      /\ DOMAIN rest = 1 .. (Len(list) - 1)
      /\ Head(list) = list[1]
  BY <1>1, LenProperties, EmptySeq
<1> HIDE DEF rest
<1>3. Items(list) = Items(rest) \cup {Head(list)}
  <2>1. ASSUME NEW x \in Items(list) PROVE x \in Items(rest) \cup {Head(list)}
    <3>1. PICK i \in 1 .. Len(list) : x = list[i]
      BY <1>2, <2>1 DEF Items
    <3>2. CASE i = 1
      BY <1>2, <3>1, <3>2
    <3>3. CASE i # 1
      <4>1. i - 1 \in DOMAIN rest /\ x = rest[i - 1]
        BY <1>1, <1>2, <3>1, <3>3
      <4> QED BY <4>1 DEF Items
    <3> QED BY <3>2, <3>3
  <2>2. ASSUME NEW x \in Items(rest) PROVE x \in Items(list)
    <3>1. PICK i \in DOMAIN rest : x = rest[i]
      BY <2>2 DEF Items
    <3>2. i + 1 \in DOMAIN list /\ x = list[i + 1]
      BY <1>1, <1>2, <3>1
    <3> QED BY <3>2 DEF Items
  <2>3. Head(list) \in Items(list)
    BY <1>2 DEF Items
  <2> QED BY <2>1, <2>2, <2>3
<1>4. ASSUME Distinct(list) PROVE Distinct(rest) /\ Head(list) \notin Items(rest)
  <2>1. ASSUME NEW i \in DOMAIN rest, NEW j \in DOMAIN rest, rest[i] = rest[j] PROVE i = j
    <3>1. list[i + 1] = list[j + 1] /\ i + 1 \in DOMAIN list /\ j + 1 \in DOMAIN list
      BY <1>1, <1>2, <2>1
    <3>2. i + 1 = j + 1
      BY <1>4, <3>1 DEF Distinct
    <3> QED BY <1>2, <3>2
  <2>2. ASSUME NEW i \in DOMAIN rest PROVE rest[i] # Head(list)
    <3>1. rest[i] = list[i + 1] /\ i + 1 \in DOMAIN list /\ i + 1 # 1 /\ 1 \in DOMAIN list
      BY <1>1, <1>2
    <3> QED BY <1>2, <1>4, <3>1 DEF Distinct
  <2> QED BY <2>1, <2>2 DEF Distinct, Items
<1> QED BY <1>1, <1>3, <1>4 DEF rest, Popped

\* LPOP takes the first item, and the others move up by one place.
LEMMA PoppedPlaces ==
  ASSUME NEW S, NEW list \in Seq(S), list # << >>
  PROVE  /\ Popped(list) \in Seq(S)
         /\ \A i \in DOMAIN Popped(list) : Popped(list)[i] = list[i + 1] /\ i + 1 \in DOMAIN list
         /\ Head(list) = list[1] /\ 1 \in DOMAIN list
<1>1. /\ Tail(list) \in Seq(S)
      /\ Len(Tail(list)) = Len(list) - 1
      /\ \A i \in 1 .. Len(Tail(list)) : Tail(list)[i] = list[i + 1]
  BY HeadTailProperties
<1>2. /\ Len(list) \in Nat \ {0}
      /\ DOMAIN list = 1 .. Len(list)
      /\ DOMAIN Tail(list) = 1 .. (Len(list) - 1)
      /\ Head(list) = list[1]
  BY <1>1, LenProperties, EmptySeq
<1> QED BY <1>1, <1>2 DEF Popped

\* LTRIM -max -1 keeps the newest items in their order, at most max of them.
LEMMA TrimmedFacts ==
  ASSUME NEW S, NEW list \in Seq(S), NEW max \in Nat \ {0}
  PROVE  /\ Trimmed(list, max) \in Seq(S)
         /\ Len(Trimmed(list, max)) = IF Len(list) <= max THEN Len(list) ELSE max
         /\ \A i \in DOMAIN Trimmed(list, max) :
              Trimmed(list, max)[i] = list[i + Len(list) - Len(Trimmed(list, max))]
         /\ Items(Trimmed(list, max)) \subseteq Items(list)
         /\ Distinct(list) => Distinct(Trimmed(list, max))
<1> DEFINE kept == Trimmed(list, max)
<1>1. Len(list) \in Nat /\ DOMAIN list = 1 .. Len(list) /\ \A i \in DOMAIN list : list[i] \in S
  BY LenProperties
<1>2. CASE Len(list) <= max
  <2>1. kept = list
    BY <1>2 DEF Trimmed
  <2> QED BY <1>1, <1>2, <2>1 DEF Items
<1>3. CASE ~(Len(list) <= max)
  <2> DEFINE d == Len(list) - max
  <2>1. kept = SubSeq(list, d + 1, Len(list))
    BY <1>3 DEF Trimmed
  <2>2. d \in Nat /\ d + 1 \in 1 .. Len(list) + 1 /\ Len(list) \in d .. Len(list)
    BY <1>1, <1>3
  <2>3. /\ kept \in Seq(S)
        /\ Len(kept) = max
        /\ \A i \in 1 .. max : kept[i] = list[i + d]
    <3>1. /\ d + 1 \in Int /\ Len(list) \in Int /\ d + 1 <= Len(list)
          /\ \A i \in d + 1 .. Len(list) : list[i] \in S
      BY <1>1, <1>3, <2>2
    <3>2. /\ kept \in Seq(S)
          /\ Len(kept) = Len(list) - (d + 1) + 1
          /\ \A i \in 1 .. Len(list) - (d + 1) + 1 : kept[i] = list[d + 1 + i - 1]
      BY <2>1, <3>1, SubSeqProperties
    <3>3. Len(list) - (d + 1) + 1 = max /\ \A i \in 1 .. max : d + 1 + i - 1 = i + d
      BY <1>1, <2>2
    <3> QED BY <3>2, <3>3
  <2>4. DOMAIN kept = 1 .. max /\ \A i \in 1 .. max : i + d \in DOMAIN list
    BY <1>1, <2>2, <2>3, LenProperties
  <2> HIDE DEF kept, d
  <2>5. Items(kept) \subseteq Items(list)
    BY <2>3, <2>4 DEF Items
  <2>6. ASSUME Distinct(list) PROVE Distinct(kept)
    <3> SUFFICES ASSUME NEW i \in DOMAIN kept, NEW j \in DOMAIN kept, kept[i] = kept[j]
                 PROVE  i = j
      BY DEF Distinct
    <3>1. i + d = j + d
      BY <2>3, <2>4, <2>6 DEF Distinct
    <3> QED BY <2>2, <2>4, <3>1
  <2>7. \A i \in DOMAIN kept : kept[i] = list[i + Len(list) - Len(kept)]
    BY <1>1, <2>3, <2>4 DEF d
  <2> QED BY <1>3, <2>3, <2>5, <2>6, <2>7 DEF kept
<1> QED BY <1>2, <1>3
=============================================================================
