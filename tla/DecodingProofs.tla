--------------------------- MODULE DecodingProofs ---------------------------
(***************************************************************************)
(* For every recording, frame and size: what the decoders hand on, that no *)
(* byte specification fails where the worker would, that the score is      *)
(* sound, and that the dead letters are the newest.                        *)
(***************************************************************************)
EXTENDS Decoding, RedisListProofs, WellFoundedInduction, FiniteSetTheorems

-----------------------------------------------------------------------------
(* The dead-letter queue, for every maximum and any number of letters.     *)

\* The last n of the letters up to m, oldest first.
Letters(m, n) == [ i \in 1 .. n |-> m - n + i ]

\* How many of m letters a queue holds.
Held(m) == IF max = 0 THEN m ELSE Least(m, max)

\* The invariant is that of the whole queue: RecentAreNewest says what is read
\* of it.
QueueHoldsNewest ==
  /\ max \in Nat
  /\ pushed \in Nat
  /\ dlq = Letters(pushed, Held(pushed))

LEMMA LettersFacts ==
  ASSUME NEW m \in Nat, NEW n \in 0 .. m
  PROVE  /\ Letters(m, n) \in Seq(Nat)
         /\ Len(Letters(m, n)) = n
<1>1. Letters(m, n) \in [1 .. n -> Nat]
  BY DEF Letters
<1>2. Letters(m, n) \in Seq(Nat)
  BY <1>1
<1> QED BY <1>1, <1>2, LenProperties

\* What is cut from the newest end of a run of letters is such a run.
LEMMA LettersTail ==
  ASSUME NEW m \in Nat, NEW n \in 0 .. m, NEW k \in 1 .. n
  PROVE  SubSeq(Letters(m, n), n - k + 1, n) = Letters(m, k)
<1> DEFINE l == Letters(m, n)
           cut == SubSeq(l, n - k + 1, n)
<1>1. l \in Seq(Nat) /\ Len(l) = n
  BY LettersFacts
<1>2. n - k + 1 \in 1 .. n + 1 /\ n \in 0 .. n
  OBVIOUS
<1>3. /\ cut \in Seq(Nat)
      /\ Len(cut) = k
      /\ \A i \in 1 .. k : cut[i] = l[n - k + 1 + i - 1]
  <2> DEFINE d == n - k + 1
  <2>1. /\ d \in Int /\ n \in Int /\ d <= n /\ n - d + 1 = k
        /\ \A i \in d .. n : l[i] \in Nat
    BY DEF Letters
  <2> HIDE DEF l, d
  <2>2. /\ SubSeq(l, d, n) \in Seq(Nat)
        /\ Len(SubSeq(l, d, n)) = n - d + 1
        /\ \A i \in 1 .. n - d + 1 : SubSeq(l, d, n)[i] = l[d + i - 1]
    BY <2>1, SubSeqProperties
  <2> QED BY <2>1, <2>2 DEF d
<1>4. k \in 0 .. m
  OBVIOUS
<1>5. /\ Letters(m, k) \in Seq(Nat)
      /\ Len(Letters(m, k)) = k
  BY <1>4, LettersFacts
<1>6. \A i \in 1 .. k : cut[i] = Letters(m, k)[i]
  <2> SUFFICES ASSUME NEW i \in 1 .. k PROVE cut[i] = Letters(m, k)[i]
    OBVIOUS
  <2>1. cut[i] = l[n - k + i] /\ n - k + i \in 1 .. n
    BY <1>3
  <2>2. l[n - k + i] = m - n + (n - k + i)
    BY <2>1 DEF Letters
  <2>3. Letters(m, k)[i] = m - k + i
    BY DEF Letters
  <2> HIDE DEF cut, l
  <2> QED BY <2>1, <2>2, <2>3
<1> HIDE DEF cut, l
<1>7. cut = Letters(m, k)
  BY <1>3, <1>5, <1>6, SeqEqual
<1> QED BY <1>7 DEF cut, l

\* A letter is put behind the others.
LEMMA LettersPushed ==
  ASSUME NEW m \in Nat, NEW n \in 0 .. m
  PROVE  RPushed(Letters(m, n), m + 1) = Letters(m + 1, n + 1)
<1> DEFINE longer == Append(Letters(m, n), m + 1)
<1>1. /\ Letters(m, n) \in Seq(Nat) /\ Len(Letters(m, n)) = n
      /\ Letters(m + 1, n + 1) \in Seq(Nat) /\ Len(Letters(m + 1, n + 1)) = n + 1
  BY LettersFacts
<1>2. /\ longer \in Seq(Nat) /\ Len(longer) = n + 1
      /\ \A i \in 1 .. n : longer[i] = Letters(m, n)[i]
      /\ longer[n + 1] = m + 1
  BY <1>1, AppendProperties
<1>3. \A i \in 1 .. n + 1 : longer[i] = Letters(m + 1, n + 1)[i]
  <2> SUFFICES ASSUME NEW i \in 1 .. n + 1 PROVE longer[i] = Letters(m + 1, n + 1)[i]
    OBVIOUS
  <2>1. Letters(m + 1, n + 1)[i] = m - n + i
    BY DEF Letters
  <2>2. CASE i = n + 1
    <3> HIDE DEF longer
    <3> QED BY <1>2, <2>1, <2>2
  <2>3. CASE i \in 1 .. n
    <3>1. Letters(m, n)[i] = m - n + i
      BY <2>3 DEF Letters
    <3>2. m + 1 - (n + 1) + i = m - n + i
      OBVIOUS
    <3>3. Letters(m + 1, n + 1)[i] = m - n + i
      BY <2>1, <3>2
    <3> HIDE DEF longer
    <3> QED BY <1>2, <2>3, <3>1, <3>3
  <2>4. i = n + 1 \/ i \in 1 .. n
    OBVIOUS
  <2> HIDE DEF longer
  <2> QED BY <2>2, <2>3, <2>4
<1> HIDE DEF longer
<1>4. longer = Letters(m + 1, n + 1)
  BY <1>1, <1>2, <1>3, SeqEqual
<1> QED BY <1>4 DEF longer, RPushed

\* push appends a letter and trims the queue to the newest.
LEMMA DeadLetterHolds == ASSUME QueueHoldsNewest, DeadLetter PROVE QueueHoldsNewest'
<1> DEFINE n == Held(pushed)
<1>1. pushed \in Nat /\ max \in Nat /\ dlq = Letters(pushed, n)
  BY DEF QueueHoldsNewest
<1>2. n \in 0 .. pushed
  BY <1>1 DEF Held, Least
<1>3. max' = max /\ pushed' = pushed + 1 /\ dlq' = Trimmed(RPushed(dlq, pushed + 1), max)
  BY DEF DeadLetter, Kept
<1>4. RPushed(dlq, pushed + 1) = Letters(pushed + 1, n + 1)
  BY <1>1, <1>2, LettersPushed
<1>5. Len(Letters(pushed + 1, n + 1)) = n + 1
  <2>1. pushed + 1 \in Nat /\ n + 1 \in 0 .. pushed + 1
    BY <1>1, <1>2
  <2> HIDE DEF n
  <2> QED BY <2>1, LettersFacts
<1>6. Held(pushed)' = IF max = 0 THEN pushed + 1 ELSE Least(pushed + 1, max)
  BY <1>3 DEF Held
<1>7. CASE max = 0 \/ n + 1 <= max
  <2>1. dlq' = Letters(pushed + 1, n + 1)
    BY <1>3, <1>4, <1>5, <1>7 DEF Trimmed
  <2>2. n + 1 = Held(pushed)'
    BY <1>1, <1>6, <1>7 DEF Held, Least
  <2> QED BY <1>1, <1>3, <2>1, <2>2 DEF QueueHoldsNewest
<1>8. CASE max # 0 /\ n + 1 > max
  <2> DEFINE b == n + 1
  <2>1. n = max /\ b \in Nat /\ max \in 1 .. b /\ b \in 0 .. pushed + 1
    BY <1>1, <1>2, <1>8 DEF Held, Least
  <2>2. RPushed(dlq, pushed + 1) = Letters(pushed + 1, b) /\ Len(Letters(pushed + 1, b)) = b /\ b > max
    BY <1>4, <1>5, <1>8
  <2>3. Held(pushed)' = max
    BY <1>1, <1>2, <1>6, <1>8, <2>1 DEF Least
  <2> HIDE DEF b, n
  <2>4. dlq' = SubSeq(Letters(pushed + 1, b), b - max + 1, b)
    BY <1>1, <1>3, <1>8, <2>1, <2>2 DEF Trimmed
  <2>5. pushed + 1 \in Nat
    BY <1>1
  <2>6. SubSeq(Letters(pushed + 1, b), b - max + 1, b) = Letters(pushed + 1, max)
    BY <2>1, <2>5, LettersTail
  <2>7. dlq' = Letters(pushed', Held(pushed)')
    BY <1>3, <2>3, <2>4, <2>6
  <2>8. max' \in Nat /\ pushed' \in Nat
    BY <1>1, <1>3
  <2> QED BY <2>7, <2>8 DEF QueueHoldsNewest
<1>9. n \in Nat
  BY <1>1, <1>2
<1> HIDE DEF n
<1> QED BY <1>1, <1>7, <1>8, <1>9

\* No other action touches the letters.
LEMMA StepHolds == QueueHoldsNewest /\ [Next]_vars => QueueHoldsNewest'
<1> SUFFICES ASSUME QueueHoldsNewest, [Next]_vars PROVE QueueHoldsNewest'
  OBVIOUS
<1>1. ASSUME UNCHANGED letters PROVE QueueHoldsNewest'
  BY <1>1 DEF QueueHoldsNewest, letters, Held, Letters
<1>2. CASE DeadLetter
  BY <1>2, DeadLetterHolds
<1>3. CASE TryPhase
  BY <1>1, <1>3 DEF TryPhase
<1>4. CASE Extract
  BY <1>1, <1>4 DEF Extract
<1>5. CASE Decode
  BY <1>1, <1>5 DEF Decode
<1>6. CASE Decoded
  BY <1>1, <1>6 DEF Decoded
<1>7. CASE Demultiplex
  BY <1>1, <1>7 DEF Demultiplex
<1>8. CASE Scored
  BY <1>1, <1>8 DEF Scored
<1>9. CASE Dropped
  BY <1>1, <1>9 DEF Dropped
<1>10. CASE NextFrame
  BY <1>1, <1>10 DEF NextFrame
<1>11. CASE UNCHANGED vars
  BY <1>1, <1>11 DEF vars
<1> QED BY <1>2, <1>3, <1>4, <1>5, <1>6, <1>7, <1>8, <1>9, <1>10, <1>11 DEF Next

LEMMA InitHolds == Init => QueueHoldsNewest
<1> SUFFICES ASSUME Init PROVE QueueHoldsNewest
  OBVIOUS
<1>1. max \in Nat /\ pushed = 0 /\ dlq = << >>
  BY SizesAssumption DEF Init
<1>2. Held(pushed) = 0
  BY <1>1 DEF Held, Least
<1>3. Letters(0, 0) \in Seq(Nat) /\ Len(Letters(0, 0)) = 0
  BY LettersFacts
<1>4. Letters(0, 0) = << >>
  BY <1>3, EmptySeq
<1> QED BY <1>1, <1>2, <1>4 DEF QueueHoldsNewest

\* dlq.py: whatever max_size is, the queue keeps the newest failures and
\* get_recent gives the newest of those, oldest first.
THEOREM RecentAreNewestCorrect == Spec => []RecentAreNewest
<1>1. QueueHoldsNewest => RecentAreNewest
  <2> SUFFICES ASSUME QueueHoldsNewest PROVE RecentAreNewest
    OBVIOUS
  <2> DEFINE h == Held(pushed)
  <2>1. max \in Nat /\ pushed \in Nat /\ dlq = Letters(pushed, h)
    BY DEF QueueHoldsNewest
  <2>2. h \in 0 .. pushed
    BY <2>1 DEF Held, Least
  <2>3. Len(dlq) = h
    BY <2>1, <2>2, LettersFacts
  <2>4. ASSUME NEW count \in 1 .. MaxLetters
        PROVE  Recent(count) = Letters(pushed, Least(count, Len(dlq)))
    <3>0. count \in Nat \ {0}
      BY <2>4, SizesAssumption
    <3>1. CASE h <= count
      <4>1. Recent(count) = dlq /\ Least(count, Len(dlq)) = h
        BY <2>2, <2>3, <3>0, <3>1 DEF Recent, Least
      <4> QED BY <2>1, <4>1
    <3>2. CASE count < h
      <4>1. Recent(count) = SubSeq(dlq, h - count + 1, h) /\ Least(count, Len(dlq)) = count
        BY <2>2, <2>3, <3>0, <3>2 DEF Recent, Least
      <4>2. count \in 1 .. h
        BY <2>2, <3>0, <3>2
      <4> HIDE DEF h
      <4> QED BY <2>1, <2>2, <4>1, <4>2, LettersTail
    <3> QED BY <2>1, <2>2, <3>0, <3>1, <3>2
  <2>5. Len(dlq) = IF max = 0 THEN pushed ELSE Least(pushed, max)
    BY <2>3 DEF Held
  <2> QED BY <2>4, <2>5 DEF RecentAreNewest, Letters
<1> QED BY <1>1, InitHolds, StepHolds, PTL DEF Spec

-----------------------------------------------------------------------------
(* Induction over the natural numbers, with sets in the place of           *)
(* predicates, and functions defined by recursion.                         *)

\* A set of numbers that has 0, and the successor of each of its members.
LEMMA Induction ==
  ASSUME NEW P, 0 \in P, \A n \in Nat : n \in P => n + 1 \in P
  PROVE  Nat \subseteq P
<1> DEFINE less == { ss \in Nat \X Nat : ss[1] < ss[2] }
           out == Nat \ P
<1>1. IsWellFoundedOn(less, Nat)
  BY NatLessThanWellFounded DEF OpToRel
<1>2. SUFFICES ASSUME out # {} PROVE FALSE
  OBVIOUS
<1>3. PICK x \in out : \A y \in out : ~(<<y, x>> \in less)
  <2>1. out \subseteq Nat
    OBVIOUS
  <2> HIDE DEF out, less
  <2> QED BY <1>1, <1>2, <2>1, WFMin
<1>4. x # 0 /\ x - 1 \in Nat
  OBVIOUS
<1>5. x - 1 \notin out
  <2>1. << x - 1, x >> \in less
    BY <1>4
  <2> HIDE DEF less, out
  <2> QED BY <1>3, <2>1
<1>6. x - 1 \in P /\ x - 1 + 1 = x
  BY <1>4, <1>5
<1> QED BY <1>4, <1>6

\* f begins with v and goes from each of its values to the next by the step.
Follows(f, V, v, step) ==
  f \in [Nat -> V] /\ f[0] = v /\ \A n \in Nat : f[n + 1] = step[n][f[n]]

FollowsTo(N, f, V, v, step) ==
  f \in [0 .. N -> V] /\ f[0] = v /\ \A i \in 1 .. N : f[i] = step[i][f[i - 1]]

Steps(I, V) == [I -> [V -> V]]

\* A start and a step make a function on the natural numbers.
LEMMA Recursion ==
  ASSUME NEW V, NEW v \in V, NEW step \in Steps(Nat, V)
  PROVE  \E f : Follows(f, V, v, step)
<1>0. step \in [Nat -> [V -> V]]
  BY DEF Steps
<1> DEFINE Part(n, g) == /\ g \in [0 .. n -> V]
                         /\ g[0] = v
                         /\ \A i \in 0 .. n - 1 : g[i + 1] = step[i][g[i]]
           P == { n \in Nat : \E g : Part(n, g) }
<1>1. Nat \subseteq P
  <2>1. 0 \in P
    <3>1. Part(0, [i \in 0 .. 0 |-> v])
      OBVIOUS
    <3> QED BY <3>1
  <2>2. ASSUME NEW n \in Nat, n \in P PROVE n + 1 \in P
    <3>1. PICK g : Part(n, g)
      BY <2>2
    <3> DEFINE h == [i \in 0 .. n + 1 |-> IF i <= n THEN g[i] ELSE step[n][g[n]]]
    <3>2. g[n] \in V /\ step[n][g[n]] \in V
      BY <1>0, <3>1
    <3>3. h \in [0 .. n + 1 -> V]
      BY <3>1, <3>2
    <3>4. h[0] = v
      BY <3>1
    <3>5. ASSUME NEW i \in 0 .. n + 1 - 1 PROVE h[i + 1] = step[i][h[i]]
      <4>1. CASE i < n
        BY <3>1, <4>1
      <4>2. CASE i = n
        BY <3>1, <4>2
      <4> QED BY <4>1, <4>2
    <3>6. Part(n + 1, h)
      <4> HIDE DEF h
      <4> QED BY <3>3, <3>4, <3>5
    <3> HIDE DEF h, Part
    <3> QED BY <3>6
  <2> HIDE DEF P
  <2> QED BY <2>1, <2>2, Induction
\* Two of them agree on what both define.
<1>2. ASSUME NEW m \in Nat, NEW n \in Nat, m <= n, NEW g, NEW h, Part(m, g), Part(n, h)
      PROVE  \A i \in 0 .. m : g[i] = h[i]
  <2> DEFINE Q == { i \in Nat : i <= m => g[i] = h[i] }
  <2>1. 0 \in Q
    BY <1>2
  <2>2. ASSUME NEW i \in Nat, i \in Q PROVE i + 1 \in Q
    <3>1. CASE i + 1 <= m
      <4>1. g[i] = h[i] /\ i \in 0 .. m - 1 /\ i \in 0 .. n - 1
        BY <1>2, <2>2, <3>1
      <4> QED BY <1>2, <4>1
    <3>2. CASE ~(i + 1 <= m)
      BY <3>2
    <3> QED BY <3>1, <3>2
  <2>3. Nat \subseteq Q
    <3> HIDE DEF Q
    <3> QED BY <2>1, <2>2, Induction
  <2> QED BY <2>3
<1> DEFINE F(n) == CHOOSE g : Part(n, g)
           f == [n \in Nat |-> F(n)[n]]
<1>3. ASSUME NEW n \in Nat PROVE Part(n, F(n))
  <2>1. \E g : Part(n, g)
    BY <1>1
  <2> HIDE DEF Part
  <2> QED BY <2>1
<1>4. f \in [Nat -> V]
  <2>1. \A n \in Nat : F(n)[n] \in V
    <3> SUFFICES ASSUME NEW n \in Nat PROVE F(n)[n] \in V
      OBVIOUS
    <3>1. Part(n, F(n))
      BY <1>3
    <3> HIDE DEF F
    <3> QED BY <3>1
  <2> HIDE DEF F
  <2> QED BY <2>1
<1>5. f[0] = v
  <2>1. Part(0, F(0))
    BY <1>3
  <2> HIDE DEF F
  <2> QED BY <2>1
<1>6. ASSUME NEW n \in Nat PROVE f[n + 1] = step[n][f[n]]
  <2>1. Part(n, F(n)) /\ Part(n + 1, F(n + 1))
    <3>1. n + 1 \in Nat
      OBVIOUS
    <3> HIDE DEF F, Part
    <3> QED BY <1>3, <3>1
  <2>2. F(n + 1)[n + 1] = step[n][F(n + 1)[n]]
    <3>1. n \in 0 .. n + 1 - 1
      OBVIOUS
    <3> HIDE DEF F
    <3> QED BY <2>1, <3>1
  <2>3. F(n)[n] = F(n + 1)[n]
    <3>1. n \in 0 .. n /\ n <= n + 1 /\ n + 1 \in Nat
      OBVIOUS
    <3> HIDE DEF F, Part
    <3> QED BY <1>2, <2>1, <3>1
  <2> HIDE DEF F, Part
  <2> QED BY <2>2, <2>3
<1> HIDE DEF f
<1>7. Follows(f, V, v, step)
  BY <1>4, <1>5, <1>6 DEF Follows
<1> QED BY <1>7

\* The same for a recursion that ends at N.
LEMMA BoundedRecursion ==
  ASSUME NEW N \in Nat, NEW V, NEW v \in V, NEW step \in Steps(1 .. N, V)
  PROVE  \E f : FollowsTo(N, f, V, v, step)
<1> DEFINE all == [n \in Nat |-> [x \in V |-> IF n < N THEN step[n + 1][x] ELSE v]]
<1>0. step \in [1 .. N -> [V -> V]]
  BY DEF Steps
<1>1. all \in Steps(Nat, V)
  <2>1. ASSUME NEW n \in Nat, NEW x \in V PROVE (IF n < N THEN step[n + 1][x] ELSE v) \in V
    <3>1. CASE n < N
      <4>1. n + 1 \in 1 .. N
        BY <3>1
      <4>2. step[n + 1] \in [V -> V]
        BY <1>0, <4>1
      <4> QED BY <3>1, <4>2
    <3>2. CASE ~(n < N)
      BY <3>2
    <3> QED BY <3>1, <3>2
  <2> QED BY <2>1 DEF Steps
<1>2. PICK g : Follows(g, V, v, all)
  <2> HIDE DEF all
  <2> QED BY <1>1, Recursion
<1>3. g \in [Nat -> V] /\ g[0] = v /\ \A n \in Nat : g[n + 1] = all[n][g[n]]
  <2> HIDE DEF all
  <2> QED BY <1>2 DEF Follows
<1> DEFINE f == [i \in 0 .. N |-> g[i]]
<1>4. f \in [0 .. N -> V] /\ f[0] = v
  <2> HIDE DEF all
  <2> QED BY <1>3
<1>5. ASSUME NEW i \in 1 .. N PROVE f[i] = step[i][f[i - 1]]
  <2>1. i - 1 \in Nat /\ i - 1 < N /\ i - 1 + 1 = i
    OBVIOUS
  <2>2. g[i - 1 + 1] = all[i - 1][g[i - 1]]
    <3> HIDE DEF all
    <3> QED BY <1>3, <2>1
  <2>3. all[i - 1][g[i - 1]] = step[i][g[i - 1]]
    <3>1. g[i - 1] \in V
      <4> HIDE DEF all
      <4> QED BY <1>3, <2>1
    <3> QED BY <2>1, <3>1
  <2>4. f[i] = g[i] /\ f[i - 1] = g[i - 1]
    OBVIOUS
  <2> HIDE DEF f, all
  <2> QED BY <2>1, <2>2, <2>3, <2>4
<1> HIDE DEF f
<1>6. FollowsTo(N, f, V, v, step)
  BY <1>4, <1>5 DEF FollowsTo
<1> QED BY <1>6

\* What holds at 0 and passes from each i to the next holds up to N.
LEMMA BoundedInduction ==
  ASSUME NEW N \in Nat, NEW P, 0 \in P, \A i \in 1 .. N : i - 1 \in P => i \in P
  PROVE  \A i \in 0 .. N : i \in P
<1> DEFINE Q == { n \in Nat : n <= N => n \in P }
<1>1. 0 \in Q
  OBVIOUS
<1>2. ASSUME NEW n \in Nat, n \in Q PROVE n + 1 \in Q
  <2>1. CASE n + 1 <= N
    <3>1. n \in P /\ n + 1 \in 1 .. N /\ n + 1 - 1 = n
      BY <1>2, <2>1
    <3>2. n + 1 \in P
      BY <3>1
    <3> QED BY <3>2
  <2>2. CASE ~(n + 1 <= N)
    BY <2>2
  <2> QED BY <2>1, <2>2
<1>3. Nat \subseteq Q
  <2> HIDE DEF Q
  <2> QED BY <1>1, <1>2, Induction
<1> QED BY <1>3

\* The number whose bits are given: below 2 to the power of their number, here
\* for the eight bits of an octet.
LEMMA NumberRecursion ==
  ASSUME NEW bs \in Seq(BitValue)
  PROVE  \E n \in [0 .. Len(bs) -> Nat] :
           /\ n[0] = 0
           /\ \A i \in 1 .. Len(bs) : n[i] = bs[Len(bs) - i + 1] + 2 * n[i - 1]
           /\ Number(bs) = n[Len(bs)]
<1> DEFINE N == Len(bs)
           body(f) == [i \in 0 .. N |-> IF i = 0 THEN 0 ELSE bs[N - i + 1] + 2 * f[i - 1]]
           step == [i \in 1 .. N |-> [x \in Nat |-> bs[N - i + 1] + 2 * x]]
           n == CHOOSE f : f = body(f)
<1>1. N \in Nat /\ \A i \in 1 .. N : bs[N - i + 1] \in Nat
  BY DEF BitValue
<1>2. step \in Steps(1 .. N, Nat)
  <2> HIDE DEF N
  <2> QED BY <1>1 DEF Steps
<1>3. PICK g : FollowsTo(N, g, Nat, 0, step)
  <2> HIDE DEF N, step
  <2> QED BY <1>1, <1>2, BoundedRecursion
<1>4. g \in [0 .. N -> Nat] /\ g[0] = 0 /\ \A i \in 1 .. N : g[i] = step[i][g[i - 1]]
  <2> HIDE DEF N, step
  <2> QED BY <1>3 DEF FollowsTo
<1>5. g = body(g)
  <2>1. ASSUME NEW i \in 0 .. N PROVE g[i] = IF i = 0 THEN 0 ELSE bs[N - i + 1] + 2 * g[i - 1]
    <3>1. CASE i # 0
      <4>0. i \in 1 .. N /\ i - 1 \in 0 .. N
        <5> HIDE DEF step, N
        <5> QED BY <1>1, <3>1
      <4>1. g[i - 1] \in Nat /\ i \in 1 .. N
        <5> HIDE DEF step, N
        <5> QED BY <1>4, <4>0
      <4>2. step[i][g[i - 1]] = bs[N - i + 1] + 2 * g[i - 1]
        BY <4>1
      <4> QED BY <1>4, <3>1, <4>1, <4>2
    <3> QED BY <1>4, <3>1
  <2> HIDE DEF step, N
  <2> QED BY <1>4, <2>1
<1>6. n = body(n)
  <2> HIDE DEF body
  <2> QED BY <1>5
<1>7. n = [i \in 0 .. N |-> n[i]] /\ \A i \in 0 .. N : n[i] = IF i = 0 THEN 0 ELSE bs[N - i + 1] + 2 * n[i - 1]
  <2> HIDE DEF n, N
  <2> QED BY <1>6
<1> HIDE DEF n
<1>8. n[0] = 0 /\ \A i \in 1 .. N : n[i] = bs[N - i + 1] + 2 * n[i - 1]
  BY <1>1, <1>7
<1> DEFINE P == { i \in 0 .. N : n[i] \in Nat }
<1>9. 0 \in P /\ \A i \in 1 .. N : i - 1 \in P => i \in P
  <2>1. ASSUME NEW i \in 1 .. N, i - 1 \in P PROVE i \in P
    <3>1. n[i - 1] \in Nat /\ n[i] = bs[N - i + 1] + 2 * n[i - 1]
      BY <1>8, <2>1
    <3>2. bs[N - i + 1] \in Nat /\ i \in 0 .. N
      <4>1. N - i + 1 \in 1 .. N
        <5> HIDE DEF N
        <5> QED BY <1>1
      <4> HIDE DEF N
      <4> QED BY <1>1, <4>1
    <3>3. bs[N - i + 1] + 2 * n[i - 1] \in Nat
      BY <3>1, <3>2
    <3> HIDE DEF N
    <3> QED BY <3>1, <3>2, <3>3
  <2> QED BY <1>1, <1>8, <2>1
<1>10. \A i \in 0 .. N : i \in P
  <2> HIDE DEF P, N
  <2> QED BY <1>1, <1>9, BoundedInduction
<1>11. n \in [0 .. N -> Nat]
  <2> HIDE DEF N
  <2> QED BY <1>7, <1>10
<1>12. Number(bs) = n[N]
  BY DEF Number, n
<1> QED BY <1>8, <1>11, <1>12

-----------------------------------------------------------------------------
(* Slices and selections.                                                  *)

\* Of n positions, how many of a set are not behind m.
UpTo(at, m) == { j \in at : j <= m }

LEMMA UpToFacts ==
  ASSUME NEW n \in Nat, NEW at \in SUBSET (1 .. n)
  PROVE  /\ IsFiniteSet(at)
         /\ Cardinality(at) \in Nat
         /\ \A m \in 0 .. n : Cardinality(UpTo(at, m)) \in Nat
         /\ Cardinality(UpTo(at, 0)) = 0
         /\ \A m \in 1 .. n : Cardinality(UpTo(at, m))
                              = IF m \in at THEN Cardinality(UpTo(at, m - 1)) + 1 ELSE Cardinality(UpTo(at, m - 1))
         /\ UpTo(at, n) = at
<1>0. \A j \in at : j \in Int /\ 1 <= j /\ j <= n
  OBVIOUS
<1>1. IsFiniteSet(1 .. n)
  BY FS_Interval
<1>2. IsFiniteSet(at) /\ Cardinality(at) \in Nat
  <2>1. IsFiniteSet(at)
    BY <1>1, FS_Subset
  <2> QED BY <2>1, FS_CardinalityType
<1>3. ASSUME NEW m PROVE IsFiniteSet(UpTo(at, m)) /\ Cardinality(UpTo(at, m)) \in Nat
  <2>1. UpTo(at, m) \in SUBSET at
    BY DEF UpTo
  <2>2. IsFiniteSet(UpTo(at, m))
    BY <1>2, <2>1, FS_Subset
  <2> QED BY <2>2, FS_CardinalityType
<1>4. Cardinality(UpTo(at, 0)) = 0
  <2>0. ASSUME NEW j \in UpTo(at, 0) PROVE FALSE
    <3>1. j \in at /\ j <= 0
      BY DEF UpTo
    <3> QED BY <1>0, <3>1
  <2>1. UpTo(at, 0) = {}
    BY <2>0
  <2> QED BY <2>1, FS_EmptySet
<1>5. ASSUME NEW m \in 1 .. n
      PROVE  Cardinality(UpTo(at, m))
             = IF m \in at THEN Cardinality(UpTo(at, m - 1)) + 1 ELSE Cardinality(UpTo(at, m - 1))
  <2>1. CASE m \in at
    <3>0. \A j \in at : j <= m <=> j <= m - 1 \/ j = m
      BY <1>0
    <3>1. UpTo(at, m) = UpTo(at, m - 1) \cup {m}
      <4>1. \A j : j \in UpTo(at, m) <=> j \in UpTo(at, m - 1) \/ j = m
        BY <2>1, <3>0 DEF UpTo
      <4> QED BY <4>1
    <3>3. m \notin UpTo(at, m - 1)
      BY DEF UpTo
    <3>2. IsFiniteSet(UpTo(at, m - 1))
      BY <1>3
    <3> QED BY <2>1, <3>1, <3>2, <3>3, FS_AddElement
  <2>2. CASE m \notin at
    <3>0. \A j \in at : j <= m <=> j <= m - 1
      BY <1>0, <2>2
    <3>1. UpTo(at, m) = UpTo(at, m - 1)
      BY <3>0 DEF UpTo
    <3> QED BY <2>2, <3>1
  <2> QED BY <2>1, <2>2
<1>6. UpTo(at, n) = at
  BY <1>0 DEF UpTo
<1> QED BY <1>2, <1>3, <1>4, <1>5, <1>6

\* Ranks are the numbers from 1 on, in the order of the positions.
LEMMA RankFacts ==
  ASSUME NEW n \in Nat, NEW at \in SUBSET (1 .. n)
  PROVE  /\ Cardinality(at) \in Nat
         /\ \A i \in at : Rank(at)[i] \in 1 .. Cardinality(at)
         /\ \A i, j \in at : i < j => Rank(at)[i] < Rank(at)[j]
         /\ \A k \in 1 .. Cardinality(at) : \E i \in at : Rank(at)[i] = k
<1> DEFINE c(m) == Cardinality(UpTo(at, m))
<1>1. /\ IsFiniteSet(at) /\ Cardinality(at) \in Nat
      /\ \A m \in 0 .. n : c(m) \in Nat
      /\ c(0) = 0
      /\ \A m \in 1 .. n : c(m) = IF m \in at THEN c(m - 1) + 1 ELSE c(m - 1)
      /\ c(n) = Cardinality(at)
  BY UpToFacts
<1>2. \A i \in at : Rank(at)[i] = c(i)
  BY DEF Rank, UpTo
<1> HIDE DEF c
<1>3. ASSUME NEW i \in 0 .. n, NEW j \in 0 .. n, i <= j PROVE c(i) <= c(j)
  <2> DEFINE P == { m \in 0 .. n : i <= m => c(i) <= c(m) }
  <2>1. 0 \in P
    BY <1>1
  <2>2. ASSUME NEW m \in 1 .. n, m - 1 \in P PROVE m \in P
    <3>0. m \in 0 .. n
      OBVIOUS
    <3>1. CASE i <= m - 1
      BY <1>1, <2>2, <3>0, <3>1
    <3>2. CASE i = m
      BY <1>1, <3>0, <3>2
    <3>3. CASE i > m
      BY <3>0, <3>3
    <3> QED BY <3>1, <3>2, <3>3
  <2>3. \A m \in 0 .. n : m \in P
    <3> HIDE DEF P
    <3> QED BY <2>1, <2>2, BoundedInduction
  <2> QED BY <1>3, <2>3
<1>4. \A i \in at : c(i) \in 1 .. Cardinality(at)
  <2> SUFFICES ASSUME NEW i \in at PROVE c(i) \in 1 .. Cardinality(at)
    OBVIOUS
  <2>1. i \in 1 .. n /\ i \in 0 .. n /\ i - 1 \in 0 .. n /\ n \in 0 .. n /\ i <= n
    OBVIOUS
  <2>2. c(i) = c(i - 1) + 1 /\ c(i - 1) \in Nat /\ c(i) <= c(n)
    BY <1>1, <1>3, <2>1
  <2> QED BY <1>1, <2>2
<1>5. \A i, j \in at : i < j => c(i) < c(j)
  <2> SUFFICES ASSUME NEW i \in at, NEW j \in at, i < j PROVE c(i) < c(j)
    OBVIOUS
  <2>1. i \in 0 .. n /\ j \in 1 .. n /\ j - 1 \in 0 .. n /\ i <= j - 1
    OBVIOUS
  <2>2. c(j) = c(j - 1) + 1 /\ c(i) <= c(j - 1) /\ c(j - 1) \in Nat /\ c(i) \in Nat
    BY <1>1, <1>3, <2>1
  <2> QED BY <2>2
<1>6. ASSUME NEW k \in 1 .. Cardinality(at) PROVE \E i \in at : c(i) = k
  <2> DEFINE P == { m \in 0 .. n : k <= c(m) => \E i \in at : c(i) = k }
  <2>1. 0 \in P
    BY <1>1
  <2>2. ASSUME NEW m \in 1 .. n, m - 1 \in P PROVE m \in P
    <3>1. m \in 0 .. n /\ m - 1 \in 0 .. n
      OBVIOUS
    <3>2. c(m) = (IF m \in at THEN c(m - 1) + 1 ELSE c(m - 1)) /\ c(m - 1) \in Nat
      BY <1>1, <3>1
    <3>3. CASE k <= c(m - 1)
      BY <2>2, <3>1, <3>3
    <3>4. CASE ~(k <= c(m - 1)) /\ m \in at
      <4>1. k <= c(m) => c(m) = k
        BY <3>2, <3>4
      <4> QED BY <3>1, <3>4, <4>1
    <3>5. CASE ~(k <= c(m - 1)) /\ m \notin at
      BY <3>1, <3>2, <3>5
    <3> QED BY <3>3, <3>4, <3>5
  <2>3. \A m \in 0 .. n : m \in P
    <3> HIDE DEF P
    <3> QED BY <2>1, <2>2, BoundedInduction
  <2>4. n \in P
    <3> HIDE DEF P
    <3> QED BY <2>3
  <2> QED BY <1>1, <2>4
<1> QED BY <1>1, <1>2, <1>4, <1>5, <1>6

Positions(s, keep) == keep \cap DOMAIN s

\* What a selection holds, and in which order.
LEMMA SelectedFacts ==
  ASSUME NEW V, NEW s \in Seq(V), NEW keep
  PROVE  LET at == Positions(s, keep)
         IN /\ Selected(s, keep) \in Seq(V)
            /\ Len(Selected(s, keep)) = Cardinality(at)
            /\ Cardinality(at) \in Nat
            /\ \A i \in at : /\ Rank(at)[i] \in 1 .. Cardinality(at)
                             /\ Selected(s, keep)[Rank(at)[i]] = s[i]
            /\ \A i, j \in at : i < j => Rank(at)[i] < Rank(at)[j]
            /\ \A k \in 1 .. Cardinality(at) : \E i \in at : Rank(at)[i] = k
<1> DEFINE at == Positions(s, keep)
           n == Len(s)
           t == Selected(s, keep)
           r == Rank(at)
           pick(k) == CHOOSE i \in at : r[i] = k
<1>1. n \in Nat /\ at \in SUBSET (1 .. n) /\ \A i \in at : s[i] \in V /\ i \in Int
  BY DEF Positions
<1>2. /\ Cardinality(at) \in Nat
      /\ \A i \in at : r[i] \in 1 .. Cardinality(at)
      /\ \A i, j \in at : i < j => r[i] < r[j]
      /\ \A k \in 1 .. Cardinality(at) : \E i \in at : r[i] = k
  <2> HIDE DEF at, n
  <2> QED BY <1>1, RankFacts
<1>3. t = [k \in 1 .. Cardinality(at) |-> s[pick(k)]]
  BY DEF Selected, Positions
<1>4. \A k \in 1 .. Cardinality(at) : pick(k) \in at /\ r[pick(k)] = k
  <2> SUFFICES ASSUME NEW k \in 1 .. Cardinality(at) PROVE pick(k) \in at /\ r[pick(k)] = k
    OBVIOUS
  <2>1. \E i \in at : r[i] = k
    <3> HIDE DEF at, r
    <3> QED BY <1>2
  <2> HIDE DEF at, r
  <2> QED BY <2>1
<1> HIDE DEF at, n, t, r, pick
<1>5. t \in Seq(V) /\ Len(t) = Cardinality(at)
  <2>1. \A k \in 1 .. Cardinality(at) : s[pick(k)] \in V
    BY <1>1, <1>4
  <2>2. t \in [1 .. Cardinality(at) -> V]
    BY <1>3, <2>1
  <2>3. t \in Seq(V)
    BY <1>2, <2>2
  <2> QED BY <1>2, <2>2, <2>3, LenProperties
<1>6. ASSUME NEW i \in at PROVE t[r[i]] = s[i]
  <2>1. r[i] \in 1 .. Cardinality(at) /\ pick(r[i]) \in at /\ r[pick(r[i])] = r[i]
    BY <1>2, <1>4
  <2>2. pick(r[i]) = i
    <3> DEFINE p == pick(r[i])
    <3>1. p \in at /\ r[p] = r[i] /\ p \in Int /\ i \in Int /\ r[i] \in Int
      <4>1. r[i] \in Int
        BY <2>1
      <4> QED BY <1>1, <2>1, <4>1
    <3> HIDE DEF p
    <3>2. ~(p < i) /\ ~(i < p)
      BY <1>2, <3>1
    <3>3. p = i
      BY <3>1, <3>2
    <3> QED BY <3>3 DEF p
  <2> QED BY <1>3, <2>1, <2>2
<1>7. \A i \in at : r[i] \in 1 .. Cardinality(at) /\ t[r[i]] = s[i]
  BY <1>2, <1>6
<1> QED BY <1>2, <1>5, <1>7 DEF t, at, r

\* The elements of a selection are those that are kept.
LEMMA SelectedElements ==
  ASSUME NEW V, NEW s \in Seq(V), NEW keep
  PROVE  /\ Selected(s, keep) \in Seq(V)
         /\ \A k \in DOMAIN Selected(s, keep) : \E i \in Positions(s, keep) : Selected(s, keep)[k] = s[i]
         /\ \A i \in Positions(s, keep) : \E k \in DOMAIN Selected(s, keep) : Selected(s, keep)[k] = s[i]
<1> DEFINE at == Positions(s, keep)
           t == Selected(s, keep)
           r == Rank(at)
<1>1. /\ t \in Seq(V) /\ Len(t) = Cardinality(at)
      /\ \A i \in at : r[i] \in 1 .. Cardinality(at) /\ t[r[i]] = s[i]
      /\ \A k \in 1 .. Cardinality(at) : \E i \in at : r[i] = k
  BY SelectedFacts
<1> HIDE DEF at, t, r
<1>2. DOMAIN t = 1 .. Cardinality(at)
  BY <1>1
<1>3. ASSUME NEW k \in DOMAIN t PROVE \E i \in at : t[k] = s[i]
  <2>1. PICK i \in at : r[i] = k
    BY <1>1, <1>2
  <2> QED BY <1>1, <2>1
<1>4. ASSUME NEW i \in at PROVE \E k \in DOMAIN t : t[k] = s[i]
  BY <1>1, <1>2
<1> QED BY <1>1, <1>3, <1>4 DEF at, t

-----------------------------------------------------------------------------
(* frame_sync: what it gives are sequences of octets.                      *)

\* A bit more makes twice as many numbers.
LEMMA OneBitMore ==
  ASSUME NEW m \in Nat, NEW x \in 0 .. m, NEW b \in 0 .. 1
  PROVE  b + 2 * x \in 0 .. 2 * m + 1
OBVIOUS

LEMMA NumberRange ==
  ASSUME NEW bs \in Seq(BitValue), Len(bs) = 8
  PROVE  Number(bs) \in Octet
<1>1. PICK n :
        /\ n[0] = 0
        /\ \A i \in 1 .. 8 : n[i] = bs[8 - i + 1] + 2 * n[i - 1]
        /\ Number(bs) = n[8]
  BY NumberRecursion
<1>2. \A i \in 1 .. 8 : bs[i] \in 0 .. 1
  <2>1. ASSUME NEW i \in 1 .. 8 PROVE bs[i] \in 0 .. 1
    <3>1. i \in 1 .. Len(bs)
      OBVIOUS
    <3>2. bs[i] \in BitValue
      BY <3>1, ElementOfSeq
    <3> QED BY <3>2 DEF BitValue
  <2> QED BY <2>1
<1>3. n[1] \in 0 .. 1
  <2>1. 1 \in 1 .. 8 /\ 8 - 1 + 1 = 8 /\ 1 - 1 = 0 /\ 8 \in 1 .. 8
    OBVIOUS
  <2>2. n[1] = bs[8] + 2 * n[0]
    BY <1>1, <2>1
  <2>3. bs[8] \in 0 .. 1
    BY <1>2, <2>1
  <2> QED BY <1>1, <2>2, <2>3
<1>4. n[2] \in 0 .. 3
  <2>1. 2 \in 1 .. 8 /\ 8 - 2 + 1 = 7 /\ 2 - 1 = 1 /\ 7 \in 1 .. 8
    OBVIOUS
  <2>2. n[2] = bs[7] + 2 * n[1]
    BY <1>1, <2>1
  <2>3. bs[7] \in 0 .. 1
    BY <1>2, <2>1
  <2>4. bs[7] + 2 * n[1] \in 0 .. 2 * 1 + 1
    BY <1>3, <2>3, OneBitMore
  <2>5. 2 * 1 + 1 = 3
    OBVIOUS
  <2> QED BY <2>2, <2>4, <2>5
<1>5. n[3] \in 0 .. 7
  <2>1. 3 \in 1 .. 8 /\ 8 - 3 + 1 = 6 /\ 3 - 1 = 2 /\ 6 \in 1 .. 8
    OBVIOUS
  <2>2. n[3] = bs[6] + 2 * n[2]
    BY <1>1, <2>1
  <2>3. bs[6] \in 0 .. 1
    BY <1>2, <2>1
  <2>4. bs[6] + 2 * n[2] \in 0 .. 2 * 3 + 1
    BY <1>4, <2>3, OneBitMore
  <2>5. 2 * 3 + 1 = 7
    OBVIOUS
  <2> QED BY <2>2, <2>4, <2>5
<1>6. n[4] \in 0 .. 15
  <2>1. 4 \in 1 .. 8 /\ 8 - 4 + 1 = 5 /\ 4 - 1 = 3 /\ 5 \in 1 .. 8
    OBVIOUS
  <2>2. n[4] = bs[5] + 2 * n[3]
    BY <1>1, <2>1
  <2>3. bs[5] \in 0 .. 1
    BY <1>2, <2>1
  <2>4. bs[5] + 2 * n[3] \in 0 .. 2 * 7 + 1
    BY <1>5, <2>3, OneBitMore
  <2>5. 2 * 7 + 1 = 15
    OBVIOUS
  <2> QED BY <2>2, <2>4, <2>5
<1>7. n[5] \in 0 .. 31
  <2>1. 5 \in 1 .. 8 /\ 8 - 5 + 1 = 4 /\ 5 - 1 = 4 /\ 4 \in 1 .. 8
    OBVIOUS
  <2>2. n[5] = bs[4] + 2 * n[4]
    BY <1>1, <2>1
  <2>3. bs[4] \in 0 .. 1
    BY <1>2, <2>1
  <2>4. bs[4] + 2 * n[4] \in 0 .. 2 * 15 + 1
    BY <1>6, <2>3, OneBitMore
  <2>5. 2 * 15 + 1 = 31
    OBVIOUS
  <2> QED BY <2>2, <2>4, <2>5
<1>8. n[6] \in 0 .. 63
  <2>1. 6 \in 1 .. 8 /\ 8 - 6 + 1 = 3 /\ 6 - 1 = 5 /\ 3 \in 1 .. 8
    OBVIOUS
  <2>2. n[6] = bs[3] + 2 * n[5]
    BY <1>1, <2>1
  <2>3. bs[3] \in 0 .. 1
    BY <1>2, <2>1
  <2>4. bs[3] + 2 * n[5] \in 0 .. 2 * 31 + 1
    BY <1>7, <2>3, OneBitMore
  <2>5. 2 * 31 + 1 = 63
    OBVIOUS
  <2> QED BY <2>2, <2>4, <2>5
<1>9. n[7] \in 0 .. 127
  <2>1. 7 \in 1 .. 8 /\ 8 - 7 + 1 = 2 /\ 7 - 1 = 6 /\ 2 \in 1 .. 8
    OBVIOUS
  <2>2. n[7] = bs[2] + 2 * n[6]
    BY <1>1, <2>1
  <2>3. bs[2] \in 0 .. 1
    BY <1>2, <2>1
  <2>4. bs[2] + 2 * n[6] \in 0 .. 2 * 63 + 1
    BY <1>8, <2>3, OneBitMore
  <2>5. 2 * 63 + 1 = 127
    OBVIOUS
  <2> QED BY <2>2, <2>4, <2>5
<1>10. n[8] \in 0 .. 255
  <2>1. 8 \in 1 .. 8 /\ 8 - 8 + 1 = 1 /\ 8 - 1 = 7 /\ 1 \in 1 .. 8
    OBVIOUS
  <2>2. n[8] = bs[1] + 2 * n[7]
    BY <1>1, <2>1
  <2>3. bs[1] \in 0 .. 1
    BY <1>2, <2>1
  <2>4. bs[1] + 2 * n[7] \in 0 .. 2 * 127 + 1
    <3>1. PICK k, u, v : k = 127 /\ u = bs[1] /\ v = n[7]
      OBVIOUS
    <3>2. k \in Nat /\ u \in 0 .. 1 /\ v \in 0 .. k
      BY <1>9, <2>3, <3>1
    <3>3. u + 2 * v \in 0 .. 2 * k + 1
      BY <3>2, OneBitMore
    <3> QED BY <3>1, <3>3
  <2>5. 2 * 127 + 1 = 255
    OBVIOUS
  <2> QED BY <2>2, <2>4, <2>5
<1> QED BY <1>1, <1>10 DEF Octet

\* A slice of a sequence.
LEMMA SubSeqType ==
  ASSUME NEW V, NEW s \in Seq(V), NEW m \in Int, NEW n \in Int, 1 <= m, n <= Len(s)
  PROVE  /\ SubSeq(s, m, n) \in Seq(V)
         /\ Len(SubSeq(s, m, n)) = IF m <= n THEN n - m + 1 ELSE 0
         /\ \A i \in 1 .. n - m + 1 : SubSeq(s, m, n)[i] = s[m + i - 1]
<1>1. \A i \in m .. n : s[i] \in V
  OBVIOUS
<1> QED BY <1>1, SubSeqProperties

LEMMA OctetsType ==
  ASSUME NEW bs \in Seq(BitValue)
  PROVE  /\ Octets(bs) \in Seq(Octet)
         /\ Len(Octets(bs)) = Len(bs) \div 8
<1>1. Len(bs) \div 8 \in Nat /\ Len(bs) \in Nat
  OBVIOUS
<1>2. ASSUME NEW k \in 1 .. Len(bs) \div 8 PROVE Number(SubSeq(bs, 8 * k - 7, 8 * k)) \in Octet
  <2> DEFINE a == 8 * k - 7
             b == 8 * k
  <2>1. a \in Int /\ b \in Int /\ 1 <= a /\ b <= Len(bs) /\ b - a + 1 = 8 /\ a <= b
    BY <1>1
  <2> HIDE DEF a, b
  <2>2. SubSeq(bs, a, b) \in Seq(BitValue) /\ Len(SubSeq(bs, a, b)) = 8
    BY <2>1, SubSeqType
  <2>3. Number(SubSeq(bs, a, b)) \in Octet
    BY <2>2, NumberRange
  <2> QED BY <2>3 DEF a, b
<1>3. Octets(bs) \in [1 .. Len(bs) \div 8 -> Octet]
  BY <1>2 DEF Octets
<1>4. Octets(bs) \in Seq(Octet)
  BY <1>1, <1>3
<1> QED BY <1>1, <1>3, <1>4, LenProperties

LEMMA DestuffType ==
  ASSUME NEW bs \in Seq(BitValue)
  PROVE  Destuff(bs) \in Seq(BitValue)
<1>1. CASE \E i \in DOMAIN bs : Ones(bs, i, 6)
  BY <1>1 DEF Destuff, Malformed
<1>2. CASE ~\E i \in DOMAIN bs : Ones(bs, i, 6)
  <2> DEFINE keep == { i \in DOMAIN bs : bs[i] = 1 \/ ~Ones(bs, i - 5, 5) }
  <2>1. Destuff(bs) = Selected(bs, keep)
    BY <1>2 DEF Destuff
  <2> HIDE DEF keep
  <2> QED BY <2>1, SelectedElements
<1> QED BY <1>1, <1>2

FlagAt(bs) == { i \in 1 .. Len(bs) - 7 : \A k \in 1 .. 8 : bs[i + k - 1] = Flag[k] }

LEMMA FlagsOfType ==
  ASSUME NEW bs
  PROVE  FlagsOf(bs) \subseteq FlagAt(bs)
BY DEF FlagsOf, FlagAt

\* The positions of the flags, in their order.
FlagList(bs) == Selected([ i \in DOMAIN bs |-> i ], FlagsOf(bs))

LEMMA FlagListFacts ==
  ASSUME NEW bs \in Seq(BitValue)
  PROVE  /\ FlagList(bs) \in Seq(FlagsOf(bs))
         /\ Len(FlagList(bs)) = Cardinality(FlagsOf(bs))
         /\ Cardinality(FlagsOf(bs)) \in Nat
         /\ \A i \in FlagsOf(bs) : /\ Rank(FlagsOf(bs))[i] \in 1 .. Cardinality(FlagsOf(bs))
                                     /\ FlagList(bs)[Rank(FlagsOf(bs))[i]] = i
         /\ \A i, j \in FlagsOf(bs) : i < j => Rank(FlagsOf(bs))[i] < Rank(FlagsOf(bs))[j]
         /\ \A k \in 1 .. Cardinality(FlagsOf(bs)) :
              FlagList(bs)[k] \in FlagsOf(bs) /\ Rank(FlagsOf(bs))[FlagList(bs)[k]] = k
<1> DEFINE n == Len(bs)
           idx == [ i \in DOMAIN bs |-> i ]
           fl == FlagsOf(bs)
           t == FlagList(bs)
<1>1. idx \in Seq(Int) /\ DOMAIN idx = 1 .. n /\ \A i \in 1 .. n : idx[i] = i
  <2>1. n \in Nat /\ idx \in [1 .. n -> Int]
    OBVIOUS
  <2> QED BY <2>1
<1>2. fl \subseteq 1 .. n
  BY FlagsOfType DEF FlagAt
<1>3. Positions(idx, fl) = fl
  BY <1>1, <1>2 DEF Positions
<1>4. t = Selected(idx, fl)
  BY DEF FlagList
<1> HIDE DEF idx, fl, t
<1>5. /\ t \in Seq(Int)
      /\ Len(t) = Cardinality(fl)
      /\ Cardinality(fl) \in Nat
      /\ \A i \in fl : Rank(fl)[i] \in 1 .. Cardinality(fl) /\ t[Rank(fl)[i]] = idx[i]
      /\ \A i, j \in fl : i < j => Rank(fl)[i] < Rank(fl)[j]
      /\ \A k \in 1 .. Cardinality(fl) : \E i \in fl : Rank(fl)[i] = k
  <2>1. /\ Selected(idx, fl) \in Seq(Int)
        /\ Len(Selected(idx, fl)) = Cardinality(Positions(idx, fl))
        /\ Cardinality(Positions(idx, fl)) \in Nat
        /\ \A i \in Positions(idx, fl) : /\ Rank(Positions(idx, fl))[i] \in 1 .. Cardinality(Positions(idx, fl))
                                         /\ Selected(idx, fl)[Rank(Positions(idx, fl))[i]] = idx[i]
        /\ \A i, j \in Positions(idx, fl) : i < j => Rank(Positions(idx, fl))[i] < Rank(Positions(idx, fl))[j]
        /\ \A k \in 1 .. Cardinality(Positions(idx, fl)) :
             \E i \in Positions(idx, fl) : Rank(Positions(idx, fl))[i] = k
    BY <1>1, SelectedFacts
  <2> QED BY <1>3, <1>4, <2>1
<1>6. \A i \in fl : t[Rank(fl)[i]] = i
  BY <1>1, <1>2, <1>5
<1>7. ASSUME NEW k \in 1 .. Cardinality(fl) PROVE t[k] \in fl /\ Rank(fl)[t[k]] = k
  <2>1. PICK i \in fl : Rank(fl)[i] = k
    BY <1>5
  <2> QED BY <1>6, <2>1
<1>8. t \in Seq(fl)
  <2>1. t \in [1 .. Cardinality(fl) -> fl]
    BY <1>5, <1>7
  <2> QED BY <1>5, <2>1
<1> QED BY <1>5, <1>6, <1>7, <1>8 DEF fl, t

\* What is between the k-th flag and the next.
Inner(bs) ==
  [ k \in 1 .. Len(FlagList(bs)) - 1 |-> SubSeq(bs, FlagList(bs)[k] + 8, FlagList(bs)[k + 1] - 1) ]

LEMMA InnerType ==
  ASSUME NEW bs \in Seq(BitValue), FlagList(bs) # << >>
  PROVE  Inner(bs) \in Seq(Seq(BitValue))
<1> DEFINE f == FlagList(bs)
           m == Len(f) - 1
<1>1. f \in Seq(FlagsOf(bs)) /\ m \in Nat /\ Len(f) = m + 1
  BY FlagListFacts
<1>2. FlagsOf(bs) \subseteq 1 .. Len(bs) - 7
  BY FlagsOfType DEF FlagAt
<1>3. ASSUME NEW k \in 1 .. m PROVE SubSeq(bs, f[k] + 8, f[k + 1] - 1) \in Seq(BitValue)
  <2>1. k \in 1 .. Len(f) /\ k + 1 \in 1 .. Len(f)
    BY <1>1
  <2> HIDE DEF f
  <2>2. f[k] \in 1 .. Len(bs) - 7 /\ f[k + 1] \in 1 .. Len(bs) - 7
    BY <1>1, <1>2, <2>1
  <2> DEFINE a == f[k] + 8
             b == f[k + 1] - 1
  <2>3. a \in Int /\ b \in Int /\ 1 <= a /\ b <= Len(bs)
    BY <2>2
  <2> HIDE DEF a, b
  <2>4. SubSeq(bs, a, b) \in Seq(BitValue)
    BY <2>3, SubSeqType
  <2> QED BY <2>4 DEF a, b
<1>4. Inner(bs) = [ k \in 1 .. m |-> SubSeq(bs, f[k] + 8, f[k + 1] - 1) ]
  BY DEF Inner
<1> HIDE DEF f, m
<1>5. Inner(bs) \in [1 .. m -> Seq(BitValue)]
  BY <1>3, <1>4
<1> QED BY <1>1, <1>5

LEMMA BetweenType ==
  ASSUME NEW bs \in Seq(BitValue)
  PROVE  /\ Between(bs) \in Seq(Seq(BitValue))
         /\ \A k \in DOMAIN Inner(bs) :
              Inner(bs)[k] # << >> => \E j \in DOMAIN Between(bs) : Between(bs)[j] = Inner(bs)[k]
<1> DEFINE inner == Inner(bs)
           keep == { k \in DOMAIN inner : inner[k] # << >> }
<1>1. Between(bs) = Selected(inner, keep)
  BY DEF Between, Inner, FlagList
<1>2. inner \in Seq(Seq(BitValue))
  <2>1. CASE FlagList(bs) # << >>
    BY <2>1, InnerType
  <2>2. CASE FlagList(bs) = << >>
    <3>1. inner = << >>
      BY <2>2 DEF Inner
    <3> QED BY <3>1
  <2> QED BY <2>1, <2>2
<1>3. /\ Selected(inner, keep) \in Seq(Seq(BitValue))
      /\ \A k \in Positions(inner, keep) : \E j \in DOMAIN Selected(inner, keep) : Selected(inner, keep)[j] = inner[k]
  <2> HIDE DEF inner, keep
  <2> QED BY <1>2, SelectedElements
<1>4. \A k \in DOMAIN inner : inner[k] # << >> => k \in Positions(inner, keep)
  BY DEF Positions
<1> HIDE DEF keep, inner
<1> QED BY <1>1, <1>3, <1>4 DEF inner

\* extract_frames: what it gives are octets, and a part between flags that is
\* stuffed octets is there.
LEMMA FramesFacts ==
  ASSUME NEW bs \in Seq(BitValue)
  PROVE  /\ Frames(bs) \in Seq(Seq(Octet))
         /\ \A k \in DOMAIN Inner(bs) :
              Inner(bs)[k] # << >> /\ Destuff(Inner(bs)[k]) # Malformed /\ Len(Destuff(Inner(bs)[k])) % 8 = 0
                => \E j \in DOMAIN Frames(bs) : Frames(bs)[j] = Octets(Destuff(Inner(bs)[k]))
<1> DEFINE parts == Between(bs)
           destuffed == [ k \in DOMAIN parts |-> Destuff(parts[k]) ]
           good == { k \in DOMAIN destuffed : destuffed[k] # Malformed /\ Len(destuffed[k]) % 8 = 0 }
           whole == Selected(destuffed, good)
<1>1. parts \in Seq(Seq(BitValue))
  BY BetweenType
<1>2. Frames(bs) = [ k \in DOMAIN whole |-> Octets(whole[k]) ]
  BY DEF Frames
<1>3. destuffed \in Seq(Seq(BitValue)) /\ DOMAIN destuffed = DOMAIN parts
  <2> HIDE DEF parts
  <2>1. \A k \in DOMAIN parts : Destuff(parts[k]) \in Seq(BitValue)
    <3>1. \A k \in DOMAIN parts : parts[k] \in Seq(BitValue)
      BY <1>1
    <3> QED BY <3>1, DestuffType
  <2>2. DOMAIN parts = 1 .. Len(parts) /\ Len(parts) \in Nat
    BY <1>1
  <2>3. destuffed \in [1 .. Len(parts) -> Seq(BitValue)]
    BY <2>1, <2>2
  <2> QED BY <2>2, <2>3
<1>4. /\ whole \in Seq(Seq(BitValue))
      /\ \A k \in Positions(destuffed, good) : \E j \in DOMAIN whole : whole[j] = destuffed[k]
  <2> HIDE DEF destuffed, good
  <2> QED BY <1>3, SelectedElements
<1>5. Frames(bs) \in Seq(Seq(Octet))
  <2> HIDE DEF whole
  <2>1. DOMAIN whole = 1 .. Len(whole) /\ Len(whole) \in Nat /\ \A k \in DOMAIN whole : whole[k] \in Seq(BitValue)
    BY <1>4
  <2>2. \A k \in DOMAIN whole : Octets(whole[k]) \in Seq(Octet)
    BY <2>1, OctetsType
  <2>3. Frames(bs) \in [1 .. Len(whole) -> Seq(Octet)]
    BY <1>2, <2>1, <2>2
  <2> QED BY <2>1, <2>3
<1>6. ASSUME NEW k \in DOMAIN Inner(bs), Inner(bs)[k] # << >>,
             Destuff(Inner(bs)[k]) # Malformed, Len(Destuff(Inner(bs)[k])) % 8 = 0
      PROVE  \E j \in DOMAIN Frames(bs) : Frames(bs)[j] = Octets(Destuff(Inner(bs)[k]))
  <2>1. PICK i \in DOMAIN parts : parts[i] = Inner(bs)[k]
    <3>1. \E i \in DOMAIN Between(bs) : Between(bs)[i] = Inner(bs)[k]
      BY <1>6, BetweenType
    <3> QED BY <3>1
  <2>2. destuffed[i] = Destuff(Inner(bs)[k])
    BY <2>1
  <2>3. i \in Positions(destuffed, good)
    BY <1>6, <2>1, <2>2 DEF Positions
  <2>4. PICK j \in DOMAIN whole : whole[j] = destuffed[i]
    <3> HIDE DEF destuffed, good, whole
    <3> QED BY <1>4, <2>3
  <2>5. j \in DOMAIN Frames(bs) /\ Frames(bs)[j] = Octets(whole[j])
    <3> HIDE DEF whole
    <3> QED BY <1>2
  <2> HIDE DEF whole, destuffed
  <2> QED BY <2>2, <2>4, <2>5
<1> QED BY <1>5, <1>6

-----------------------------------------------------------------------------
(* Bits of octets.                                                         *)

LEMMA Pow2Recursion ==
  Pow2[0] = 1 /\ \A n \in Nat : Pow2[n + 1] = 2 * Pow2[n]
<1> DEFINE body(f) == [n \in Nat |-> IF n = 0 THEN 1 ELSE 2 * f[n - 1]]
           step == [n \in Nat |-> [x \in Nat |-> 2 * x]]
           p == CHOOSE f : f = body(f)
<1>1. step \in Steps(Nat, Nat)
  BY DEF Steps
<1>2. PICK g : Follows(g, Nat, 1, step)
  <2> HIDE DEF step
  <2> QED BY <1>1, Recursion
<1>3. g \in [Nat -> Nat] /\ g[0] = 1 /\ \A n \in Nat : g[n + 1] = step[n][g[n]]
  <2> HIDE DEF step
  <2> QED BY <1>2 DEF Follows
<1>4. g = body(g)
  <2>1. ASSUME NEW n \in Nat PROVE g[n] = IF n = 0 THEN 1 ELSE 2 * g[n - 1]
    <3>1. CASE n # 0
      <4>1. n - 1 \in Nat /\ n - 1 + 1 = n
        BY <3>1
      <4>2. g[n] = step[n - 1][g[n - 1]] /\ g[n - 1] \in Nat
        <5> HIDE DEF step
        <5> QED BY <1>3, <4>1
      <4> QED BY <3>1, <4>1, <4>2
    <3> QED BY <1>3, <3>1
  <2> HIDE DEF step
  <2> QED BY <1>3, <2>1
<1>5. p = body(p)
  <2> HIDE DEF body
  <2> QED BY <1>4
<1>6. Pow2 = p
  BY DEF Pow2
<1>7. \A n \in Nat : Pow2[n] = IF n = 0 THEN 1 ELSE 2 * Pow2[n - 1]
  <2> HIDE DEF p
  <2> QED BY <1>5, <1>6
<1>8. ASSUME NEW n \in Nat PROVE Pow2[n + 1] = 2 * Pow2[n]
  <2>1. n + 1 \in Nat /\ n + 1 # 0 /\ n + 1 - 1 = n
    OBVIOUS
  <2> QED BY <1>7, <2>1
<1> QED BY <1>7, <1>8

LEMMA Pow2Type == \A n \in Nat : Pow2[n] \in Nat \ {0}
<1> DEFINE P == { n \in Nat : Pow2[n] \in Nat \ {0} }
<1>1. 0 \in P
  BY Pow2Recursion
<1>2. ASSUME NEW n \in Nat, n \in P PROVE n + 1 \in P
  <2>1. Pow2[n + 1] = 2 * Pow2[n] /\ Pow2[n] \in Nat \ {0}
    BY <1>2, Pow2Recursion
  <2> QED BY <2>1
<1>3. Nat \subseteq P
  <2> HIDE DEF P
  <2> QED BY <1>1, <1>2, Induction
<1> QED BY <1>3

LEMMA Pow2Values ==
  /\ Pow2[0] = 1 /\ Pow2[1] = 2 /\ Pow2[2] = 4 /\ Pow2[3] = 8
  /\ Pow2[4] = 16 /\ Pow2[5] = 32 /\ Pow2[6] = 64 /\ Pow2[7] = 128
<1>1. Pow2[0] = 1
  BY Pow2Recursion
<1>2. Pow2[0 + 1] = 2 * Pow2[0] /\ Pow2[1 + 1] = 2 * Pow2[1] /\ Pow2[2 + 1] = 2 * Pow2[2] /\ Pow2[3 + 1] = 2 * Pow2[3]
  BY Pow2Recursion
<1>3. Pow2[4 + 1] = 2 * Pow2[4] /\ Pow2[5 + 1] = 2 * Pow2[5] /\ Pow2[6 + 1] = 2 * Pow2[6]
  BY Pow2Recursion
<1>4. Pow2[1] = 2
  BY <1>1, <1>2
<1>5. Pow2[2] = 4
  BY <1>2, <1>4
<1>6. Pow2[3] = 8
  BY <1>2, <1>5
<1>7. Pow2[4] = 16
  BY <1>2, <1>6
<1>8. Pow2[5] = 32
  BY <1>3, <1>7
<1>9. Pow2[6] = 64
  BY <1>3, <1>8
<1>10. Pow2[7] = 128
  BY <1>3, <1>9
<1> QED BY <1>1, <1>4, <1>5, <1>6, <1>7, <1>8, <1>9, <1>10

LEMMA BitType == ASSUME NEW o \in Octet, NEW i \in Nat PROVE Bit(o, i) \in BitValue
<1>1. Pow2[i] \in Nat \ {0} /\ o \in Nat
  BY Pow2Type DEF Octet
<1>2. ASSUME NEW a \in Nat, NEW b \in Nat \ {0} PROVE (a \div b) % 2 \in {0, 1}
  OBVIOUS
<1>3. (o \div Pow2[i]) % 2 \in {0, 1}
  BY <1>1, <1>2
<1> QED BY <1>3 DEF Bit, BitValue

LEMMA BitValues ==
  ASSUME NEW o
  PROVE  /\ Bit(o, 0) = (o \div 1) % 2  /\ Bit(o, 1) = (o \div 2) % 2
         /\ Bit(o, 2) = (o \div 4) % 2  /\ Bit(o, 3) = (o \div 8) % 2
         /\ Bit(o, 4) = (o \div 16) % 2 /\ Bit(o, 5) = (o \div 32) % 2
         /\ Bit(o, 6) = (o \div 64) % 2 /\ Bit(o, 7) = (o \div 128) % 2
BY Pow2Values DEF Bit

\* An octet is the number of its bits.
LEMMA OctetOfBits ==
  ASSUME NEW bs \in Seq(BitValue), Len(bs) = 8, NEW o \in Octet,
         \A i \in 1 .. 8 : bs[i] = Bit(o, i - 1)
  PROVE  Number(bs) = o
<1>1. PICK n :
        /\ n[0] = 0
        /\ \A i \in 1 .. 8 : n[i] = bs[8 - i + 1] + 2 * n[i - 1]
        /\ Number(bs) = n[8]
  BY NumberRecursion
<1> DEFINE b(i) == Bit(o, i)
<1>2. /\ bs[1] = b(0) /\ bs[2] = b(1) /\ bs[3] = b(2) /\ bs[4] = b(3)
      /\ bs[5] = b(4) /\ bs[6] = b(5) /\ bs[7] = b(6) /\ bs[8] = b(7)
  <2>1. bs[1] = Bit(o, 1 - 1) /\ bs[2] = Bit(o, 2 - 1) /\ bs[3] = Bit(o, 3 - 1) /\ bs[4] = Bit(o, 4 - 1)
    OBVIOUS
  <2>2. bs[5] = Bit(o, 5 - 1) /\ bs[6] = Bit(o, 6 - 1) /\ bs[7] = Bit(o, 7 - 1) /\ bs[8] = Bit(o, 8 - 1)
    OBVIOUS
  <2> QED BY <2>1, <2>2
<1>3. /\ n[0] = 0
      /\ n[0 + 1] = bs[8] + 2 * n[0] /\ n[1 + 1] = bs[7] + 2 * n[1]
      /\ n[2 + 1] = bs[6] + 2 * n[2] /\ n[3 + 1] = bs[5] + 2 * n[3]
      /\ n[4 + 1] = bs[4] + 2 * n[4] /\ n[5 + 1] = bs[3] + 2 * n[5]
      /\ n[6 + 1] = bs[2] + 2 * n[6] /\ n[7 + 1] = bs[1] + 2 * n[7]
  <2>1. ASSUME NEW i \in 0 .. 7 PROVE n[i + 1] = bs[8 - i] + 2 * n[i]
    <3>1. i + 1 \in 1 .. 8 /\ 8 - (i + 1) + 1 = 8 - i /\ i + 1 - 1 = i
      OBVIOUS
    <3> QED BY <1>1, <3>1, SMTT(40)
  <2>2. n[0 + 1] = bs[8 - 0] + 2 * n[0] /\ n[1 + 1] = bs[8 - 1] + 2 * n[1]
    BY <2>1
  <2>3. n[2 + 1] = bs[8 - 2] + 2 * n[2] /\ n[3 + 1] = bs[8 - 3] + 2 * n[3]
    BY <2>1
  <2>4. n[4 + 1] = bs[8 - 4] + 2 * n[4] /\ n[5 + 1] = bs[8 - 5] + 2 * n[5]
    BY <2>1
  <2>5. n[6 + 1] = bs[8 - 6] + 2 * n[6] /\ n[7 + 1] = bs[8 - 7] + 2 * n[7]
    BY <2>1
  <2> QED BY <1>1, <2>2, <2>3, <2>4, <2>5
<1>4. /\ n[1] = b(7) /\ n[2] = b(6) + 2 * n[1] /\ n[3] = b(5) + 2 * n[2] /\ n[4] = b(4) + 2 * n[3]
      /\ n[5] = b(3) + 2 * n[4] /\ n[6] = b(2) + 2 * n[5] /\ n[7] = b(1) + 2 * n[6] /\ n[8] = b(0) + 2 * n[7]
  <2> HIDE DEF b
  <2>1. b(7) \in Int
    BY BitType DEF b, BitValue
  <2> QED BY <1>2, <1>3, <2>1
<1>5. o \in 0 .. 255
  BY DEF Octet
<1> DEFINE q(k) == o \div k
<1>6. b(7) = q(128)
  <2>1. b(7) = (o \div 128) % 2
    BY BitValues
  <2>2. (o \div 128) % 2 = o \div 128
    BY <1>5
  <2> QED BY <2>1, <2>2
<1>7. q(64) = (q(64) % 2) + 2 * q(128)
  BY <1>5
<1>8. q(32) = (q(32) % 2) + 2 * q(64)
  BY <1>5
<1>9. q(16) = (q(16) % 2) + 2 * q(32)
  BY <1>5
<1>10. q(8) = (q(8) % 2) + 2 * q(16)
  BY <1>5
<1>11. q(4) = (q(4) % 2) + 2 * q(8)
  BY <1>5
<1>12. q(2) = (q(2) % 2) + 2 * q(4)
  BY <1>5
<1>13. o = (o % 2) + 2 * q(2) /\ q(1) = o
  BY <1>5
<1>14. /\ b(6) = q(64) % 2 /\ b(5) = q(32) % 2 /\ b(4) = q(16) % 2 /\ b(3) = q(8) % 2
       /\ b(2) = q(4) % 2 /\ b(1) = q(2) % 2 /\ b(0) = q(1) % 2
  BY BitValues
<1> HIDE DEF b, q
<1>15. n[1] = q(128) /\ n[2] = q(64)
  BY <1>4, <1>6, <1>7, <1>14
<1>16. n[3] = q(32) /\ n[4] = q(16)
  BY <1>4, <1>8, <1>9, <1>14, <1>15
<1>17. n[5] = q(8) /\ n[6] = q(4)
  BY <1>4, <1>10, <1>11, <1>14, <1>16
<1>18. n[7] = q(2) /\ n[8] = o
  BY <1>4, <1>12, <1>13, <1>14, <1>17
<1> QED BY <1>1, <1>18

-----------------------------------------------------------------------------
(* The byte specifications: whatever the payload, an outcome that the      *)
(* worker handles, with every value in its field.                          *)

InField(m) ==
  m.min \in Int /\ m.value \in Int /\ m.max \in Int /\ m.min <= m.value /\ m.value <= m.max

\* A ValueError, or nothing, or a reading of such metrics.
Total(result) ==
  /\ result.kind \in {"reading", "none", "ValueError"}
  /\ \E n \in Nat : /\ result.metrics = [ k \in 1 .. n |-> result.metrics[k] ]
                   /\ \A k \in 1 .. n : InField(result.metrics[k])

LEMMA MetricType ==
  ASSUME NEW unit, NEW low \in Int, NEW high \in Int, NEW value \in Int, low <= value, value <= high
  PROVE  InField(Metric(unit, value, low, high))
BY DEF InField, Metric

LEMMA RaisesTotal == Total(Raises("ValueError")) /\ Total(Rejected)
<1>1. << >> = [ k \in 1 .. 0 |-> << >>[k] ] /\ 0 \in Nat /\ 1 .. 0 = {}
  OBVIOUS
<1>2. ASSUME NEW kind \in {"reading", "none", "ValueError"} PROVE Total([kind |-> kind, metrics |-> << >>])
  BY <1>1 DEF Total
<1> QED BY <1>2 DEF Raises, Rejected

LEMMA ReadingTotal ==
  ASSUME NEW metrics, NEW n \in Nat, metrics = [ k \in 1 .. n |-> metrics[k] ],
         \A k \in 1 .. n : InField(metrics[k])
  PROVE  Total(Reading(metrics))
BY DEF Total, Reading

LEMMA FieldOctets ==
  ASSUME NEW view \in Seq(Octet), NEW start \in Nat, start + 2 <= Len(view)
  PROVE  /\ Field(view, start, 2)[1] = view[start + 1] /\ view[start + 1] \in Octet
         /\ Field(view, start, 2)[2] = view[start + 2] /\ view[start + 2] \in Octet
<1> DEFINE a == start + 1
           b == start + 2
<1>1. a \in Int /\ b \in Int /\ 1 <= a /\ b <= Len(view) /\ b - a + 1 = 2 /\ a \in 1 .. Len(view) /\ b \in 1 .. Len(view)
  OBVIOUS
<1>2. Field(view, start, 2) = SubSeq(view, a, b)
  BY DEF Field, Slice
<1> HIDE DEF a, b
<1>3. PICK f : f = SubSeq(view, a, b)
  OBVIOUS
<1>4. \A i \in 1 .. 2 : f[i] = view[a + i - 1]
  BY <1>1, <1>3, SubSeqType
<1>5. f[1] = view[a + 1 - 1] /\ f[2] = view[a + 2 - 1]
  BY <1>4
<1>6. a + 1 - 1 = a /\ a + 2 - 1 = b
  BY <1>1
<1>7. view[a] \in Octet /\ view[b] \in Octet
  BY <1>1, ElementOfSeq
<1>8. f[1] = view[a] /\ f[2] = view[b]
  BY <1>5, <1>6
<1> QED BY <1>2, <1>3, <1>7, <1>8 DEF a, b

\* A number below 2 to the power of 16; intervals that long are kept from the
\* prover, which has no end of them.
Word(x) == x \in Int /\ 0 <= x /\ x <= 65535

LEMMA TwoOctets ==
  ASSUME NEW x \in Octet, NEW y \in Octet
  PROVE  Word(x + 256 * y) /\ Word(256 * x + y)
BY DEF Octet, Word

LEMMA Number16 ==
  ASSUME NEW view \in Seq(Octet), NEW start \in Nat, start + 2 <= Len(view)
  PROVE  Word(Little16(view, start)) /\ Word(Big16(view, start))
<1>1. PICK x : x = Field(view, start, 2)[1]
  OBVIOUS
<1>2. PICK y : y = Field(view, start, 2)[2]
  OBVIOUS
<1>3. x \in Octet /\ y \in Octet
  BY <1>1, <1>2, FieldOctets
<1>4. Little16(view, start) = x + 256 * y /\ Big16(view, start) = 256 * x + y
  BY <1>1, <1>2 DEF Little16, Big16
<1> QED BY <1>3, <1>4, TwoOctets

LEMMA WordMetric ==
  ASSUME NEW unit, NEW x, Word(x)
  PROVE  InField(Metric(unit, x, 0, 65535))
BY SMT DEF InField, Metric, Word

LEMMA OctetMetric ==
  ASSUME NEW unit, NEW x \in Octet
  PROVE  InField(Metric(unit, x, 0, 255))
BY SMT DEF InField, Metric, Octet

LEMMA OreSatReading ==
  ASSUME NEW d \in Seq(Octet), Len(d) >= 53
  PROVE  Total(Reading(OreSatMetrics(d)))
<1>1. \A i \in {9, 13, 15, 49, 51} : Word(Little16(d, i))
  <2> SUFFICES ASSUME NEW i \in {9, 13, 15, 49, 51} PROVE Word(Little16(d, i))
    OBVIOUS
  <2>1. i \in Nat /\ i + 2 <= Len(d)
    OBVIOUS
  <2> QED BY <2>1, Number16
<1>2. Word(Little32(d, 7)) /\ Word(Little32(d, 11))
  <2>1. Little32(d, 7) = Little16(d, 9) /\ Little32(d, 11) = Little16(d, 13)
    BY DEF Little32
  <2>2. Word(Little16(d, 9)) /\ Word(Little16(d, 13))
    BY <1>1
  <2> QED BY <2>1, <2>2
<1>3. 1000 * d[18] \in Int /\ 0 <= 1000 * d[18] /\ 1000 * d[18] <= 255000
  <2>1. 18 \in 1 .. Len(d)
    OBVIOUS
  <2>2. d[18] \in Octet
    BY <2>1, ElementOfSeq
  <2>3. ASSUME NEW x \in Octet PROVE 1000 * x \in Int /\ 0 <= 1000 * x /\ 1000 * x <= 255000
    BY SMT DEF Octet
  <2> QED BY <2>2, <2>3, SMT
<1>4. InField(Metric("s", Little32(d, 7), 0, 65535))
  BY <1>2, SMT DEF InField, Metric, Word
<1>5. InField(Metric("s", Little32(d, 11), 0, 65535))
  BY <1>2, SMT DEF InField, Metric, Word
<1>6. InField(Metric("count", Little16(d, 15), 0, 65535))
  BY <1>1, SMT DEF InField, Metric, Word
<1>7. InField(Metric("%", 1000 * d[18], 0, 255000))
  BY <1>3, SMT DEF InField, Metric
<1>8. InField(Metric("mV", Little16(d, 49), 0, 65535))
  BY <1>1, SMT DEF InField, Metric, Word
<1>9. InField(Metric("mV", Little16(d, 51), 0, 65535))
  BY <1>1, SMT DEF InField, Metric, Word
<1>10. \A k \in 1 .. 6 : InField(OreSatMetrics(d)[k])
  BY <1>4, <1>5, <1>6, <1>7, <1>8, <1>9 DEF OreSatMetrics
<1>11. OreSatMetrics(d) = [ k \in 1 .. 6 |-> OreSatMetrics(d)[k] ]
  BY DEF OreSatMetrics
<1> QED BY <1>10, <1>11, ReadingTotal

LEMMA OreSatTotal ==
  ASSUME NEW view \in Seq(Octet) PROVE Total(OreSatSpec(view))
<1>1. PICK d : d = IF Len(view) = 217 THEN Tail(view) ELSE view
  OBVIOUS
<1>2. d \in Seq(Octet)
  <2>1. view # << >> => Tail(view) \in Seq(Octet)
    BY HeadTailProperties
  <2>2. view = << >> => Len(view) # 217
    OBVIOUS
  <2> QED BY <1>1, <2>1, <2>2
<1>3. OreSatSpec(view) = IF Len(d) < 53 \/ ~Fits(d, 7, 11) \/ ~Fits(d, 49, 4)
                         THEN Raises("ValueError") ELSE Reading(OreSatMetrics(d))
  BY <1>1, SMT DEF OreSatSpec
<1>4. Len(d) < 53 \/ Len(d) >= 53
  BY <1>2
<1> QED BY <1>2, <1>3, <1>4, RaisesTotal, OreSatReading

-----------------------------------------------------------------------------

LEMMA Cp16Reading ==
  ASSUME NEW d \in Seq(Octet), Len(d) >= 52
  PROVE  Total(Reading(Cp16Metrics(d)))
<1>1. \A i \in {10, 34, 50} : Word(Big16(d, i))
  <2> SUFFICES ASSUME NEW i \in {10, 34, 50} PROVE Word(Big16(d, i))
    OBVIOUS
  <2>1. i \in Nat /\ i + 2 <= Len(d)
    OBVIOUS
  <2> QED BY <2>1, Number16
<1>2. Big32(d, 10) = Big16(d, 10) /\ Big32(d, 34) = Big16(d, 34)
  BY DEF Big32
<1>3. d[1] \in Octet /\ d[2] \in Octet /\ d[7] \in Octet
  <2>1. 1 \in 1 .. Len(d) /\ 2 \in 1 .. Len(d) /\ 7 \in 1 .. Len(d)
    OBVIOUS
  <2> QED BY <2>1, ElementOfSeq
<1>4. ASSUME NEW unit PROVE InField(Metric(unit, Big32(d, 34) % 32768, 0, 32767))
  <2>1. PICK x : x = Big32(d, 34)
    OBVIOUS
  <2>2. Word(x)
    BY <1>1, <1>2, <2>1
  <2>3. x % 32768 \in Int /\ 0 <= x % 32768 /\ x % 32768 <= 32767
    BY <2>2, SMT DEF Word
  <2> QED BY <2>1, <2>3, SMT DEF InField, Metric
<1>5. /\ InField(Metric("raw", d[1], 0, 255))
      /\ InField(Metric("raw", d[2], 0, 255))
      /\ InField(Metric("raw", d[7], 0, 255))
  BY <1>3, OctetMetric
<1>6. InField(Metric("s", Big32(d, 10), 0, 65535))
  BY <1>1, <1>2, SMT DEF InField, Metric, Word
<1>7. InField(Metric("count", Big16(d, 50), 0, 65535))
  BY <1>1, SMT DEF InField, Metric, Word
<1>8. PICK unit : unit = IF Big32(d, 34) >= 32768 THEN "KB" ELSE "bytes"
  OBVIOUS
<1>9. Cp16Metrics(d) =
        << Metric("raw", d[1], 0, 255), Metric("raw", d[2], 0, 255), Metric("raw", d[7], 0, 255),
           Metric("s", Big32(d, 10), 0, 65535), Metric(unit, Big32(d, 34) % 32768, 0, 32767),
           Metric("count", Big16(d, 50), 0, 65535) >>
  BY <1>8, SMT DEF Cp16Metrics
<1>10. \A k \in 1 .. 6 : InField(Cp16Metrics(d)[k])
  BY <1>4, <1>5, <1>6, <1>7, <1>9, SMT
<1>11. Cp16Metrics(d) = [ k \in 1 .. 6 |-> Cp16Metrics(d)[k] ]
  BY <1>9, SMT
<1> QED BY <1>10, <1>11, ReadingTotal

LEMMA Cp16Total ==
  ASSUME NEW view \in Seq(Octet) PROVE Total(Cp16Spec(view))
<1>1. CASE Len(view) < 81
  <2>1. Cp16Spec(view) = Raises("ValueError")
    BY <1>1, SMT DEF Cp16Spec
  <2> QED BY <2>1, RaisesTotal
<1>2. CASE ~(Len(view) < 81)
  <2>1. PICK d : d = SubSeq(view, 30, Len(view))
    OBVIOUS
  <2>2. d \in Seq(Octet) /\ Len(d) >= 52
    <3> DEFINE n == Len(view)
    <3>1. n \in Int /\ n >= 81 /\ 30 \in Int /\ 1 <= 30 /\ n <= Len(view) /\ 30 <= n
      BY <1>2
    <3> HIDE DEF n
    <3>2. SubSeq(view, 30, n) \in Seq(Octet) /\ Len(SubSeq(view, 30, n)) = n - 30 + 1
      BY <3>1, SubSeqType
    <3>3. d = SubSeq(view, 30, n)
      BY <2>1 DEF n
    <3> QED BY <3>1, <3>2, <3>3
  <2>3. Cp16Spec(view) \in { Raises("ValueError"), Reading(Cp16Metrics(d)) }
    BY <2>1, SMT DEF Cp16Spec
  <2> QED BY <2>2, <2>3, RaisesTotal, Cp16Reading
<1> QED BY <1>1, <1>2

LEMMA AprsTotal ==
  ASSUME NEW view \in Seq(Octet), view # << >>
  PROVE  Total(AprsSpec(view))
<1>1. PICK codes : codes = { c \in DOMAIN AprsTypes : view[1] \in AprsTypes[c] }
  OBVIOUS
<1>2. AprsSpec(view) = IF codes = {} THEN Raises("ValueError")
                       ELSE Reading(<< Metric("type", CHOOSE c \in codes : TRUE, 1, 7),
                                       Metric("bytes", Len(view), 1, Len(view)) >>)
  BY <1>1, SMT DEF AprsSpec
<1>3. CASE codes # {}
  <2>1. PICK code : code = CHOOSE c \in codes : TRUE
    OBVIOUS
  <2>2. code \in codes
    BY <1>3, <2>1
  <2>3. DOMAIN AprsTypes = 1 .. 7
    BY SMT DEF AprsTypes
  <2>4. code \in 1 .. 7
    BY <1>1, <2>2, <2>3
  <2>5. Len(view) \in Nat /\ Len(view) >= 1
    BY EmptySeq
  <2>6. InField(Metric("type", code, 1, 7)) /\ InField(Metric("bytes", Len(view), 1, Len(view)))
    BY <2>4, <2>5, SMT DEF InField, Metric
  <2> DEFINE metrics == << Metric("type", code, 1, 7), Metric("bytes", Len(view), 1, Len(view)) >>
  <2>7. \A k \in 1 .. 2 : InField(metrics[k])
    BY <2>6, SMT
  <2>8. metrics = [ k \in 1 .. 2 |-> metrics[k] ]
    BY SMT
  <2>9. AprsSpec(view) = Reading(metrics)
    BY <1>2, <1>3, <2>1, SMT
  <2> HIDE DEF metrics
  <2>10. Total(Reading(metrics))
    BY <2>7, <2>8, ReadingTotal
  <2> QED BY <2>9, <2>10
<1> QED BY <1>2, <1>3, RaisesTotal

-----------------------------------------------------------------------------
\* A beacon that the CW decoder let through: hexadecimal digits behind its type.
BeaconPayload(view) == \A i \in 7 .. Len(view) : view[i] \in HexDigits

LEMMA HexOfDigits ==
  ASSUME NEW a \in HexDigits, NEW b \in HexDigits
  PROVE  HexValue(a, b).value \in 0 .. 255
<1>1. IsDigit(a) /\ IsDigit(b)
  BY DEF IsDigit
<1>2. Digit(a) \in 0 .. 15 /\ Digit(b) \in 0 .. 15
  BY SMT DEF Digit, HexDigits
<1>3. HexValue(a, b).value = 16 * Digit(a) + Digit(b)
  BY <1>1, SMT DEF HexValue
<1>4. ASSUME NEW x \in 0 .. 15, NEW y \in 0 .. 15 PROVE 16 * x + y \in 0 .. 255
  BY SMT
<1> QED BY <1>2, <1>3, <1>4

HexRange(v, signed) ==
  /\ v \in Int
  /\ signed => -128 <= v /\ v <= 127
  /\ ~signed => 0 <= v /\ v <= 255

LEMMA ParseRange ==
  ASSUME NEW view \in Seq(Octet), BeaconPayload(view), NEW start \in Nat, start >= 6, NEW signed \in BOOLEAN
  PROVE  HexRange(ParseAsciiHex(view, start, signed).value, signed)
<1>1. CASE Len(view) < start + 2
  <2>1. ParseAsciiHex(view, start, signed) = NotHex
    BY <1>1, SMT DEF ParseAsciiHex
  <2> QED BY <2>1, SMT DEF NotHex, HexRange
<1>2. CASE ~(Len(view) < start + 2)
  <2>1. start + 1 \in 7 .. Len(view) /\ start + 2 \in 7 .. Len(view)
    BY <1>2
  <2>2. PICK hex : hex = HexValue(view[start + 1], view[start + 2])
    OBVIOUS
  <2>3. hex.value \in 0 .. 255
    <3>1. view[start + 1] \in HexDigits /\ view[start + 2] \in HexDigits
      BY <2>1 DEF BeaconPayload
    <3> QED BY <2>2, <3>1, HexOfDigits
  <2>4. ParseAsciiHex(view, start, signed) = IF signed /\ hex.ok THEN [hex EXCEPT !.value = Signed(@)] ELSE hex
    BY <1>2, <2>2, SMT DEF ParseAsciiHex
  <2>5. ~hex.ok => hex.value = 0
    BY <2>2, SMT DEF HexValue, NotHex
  <2>6. hex.ok => [hex EXCEPT !.value = Signed(@)].value = Signed(hex.value)
    BY <2>2, SMT DEF HexValue, NotHex
  <2>7. ASSUME NEW v \in 0 .. 255 PROVE HexRange(v, FALSE) /\ HexRange(Signed(v), TRUE)
    BY SMT DEF Signed, HexRange
  <2>8. HexRange(hex.value, FALSE) /\ HexRange(Signed(hex.value), TRUE)
    BY <2>3, <2>7
  <2>9. HexRange(0, TRUE)
    BY SMT DEF HexRange
  <2>10. CASE signed /\ hex.ok
    <3>1. ParseAsciiHex(view, start, signed).value = Signed(hex.value) /\ signed = TRUE
      BY <2>4, <2>6, <2>10
    <3> QED BY <2>8, <3>1
  <2>11. CASE ~(signed /\ hex.ok)
    <3>1. ParseAsciiHex(view, start, signed).value = hex.value
      BY <2>4, <2>11
    <3>2. CASE signed
      <4>1. hex.value = 0 /\ signed = TRUE
        BY <2>5, <2>11, <3>2
      <4> QED BY <2>9, <3>1, <4>1
    <3>3. CASE ~signed
      <4>1. signed = FALSE
        BY <3>3
      <4> QED BY <2>8, <3>1, <4>1
    <3> QED BY <3>2, <3>3
  <2> QED BY <2>10, <2>11
<1> QED BY <1>1, <1>2

LEMMA SignsOfFields ==
  /\ CapeFields[1][1][3] = FALSE /\ CapeFields[1][2][3] = FALSE /\ CapeFields[1][3][3] = FALSE /\ CapeFields[1][4][3] = FALSE
  /\ CapeFields[2][1][3] = TRUE /\ CapeFields[2][2][3] = TRUE /\ CapeFields[2][3][3] = TRUE
  /\ CapeFields[3][1][3] = FALSE /\ CapeFields[3][2][3] = FALSE
BY SMT DEF CapeFields
LEMMA FourBooleans ==
  ASSUME NEW fields, NEW n \in 1 .. 4,
         fields[1][3] \in BOOLEAN, fields[2][3] \in BOOLEAN, n >= 3 => fields[3][3] \in BOOLEAN, n >= 4 => fields[4][3] \in BOOLEAN
  PROVE  \A k \in 1 .. n : fields[k][3] \in BOOLEAN
<1> SUFFICES ASSUME NEW k \in 1 .. n PROVE fields[k][3] \in BOOLEAN
  OBVIOUS
<1>1. k = 1 \/ k = 2 \/ (k = 3 /\ n >= 3) \/ (k = 4 /\ n >= 4)
  OBVIOUS
<1> QED BY <1>1, Zenon
LEMMA CapeSigns ==
  /\ \A k \in 1 .. 4 : CapeFields[1][k][3] \in BOOLEAN
  /\ \A k \in 1 .. 3 : CapeFields[2][k][3] \in BOOLEAN
  /\ \A k \in 1 .. 2 : CapeFields[3][k][3] \in BOOLEAN
<1>1. 4 \in 1 .. 4 /\ 3 \in 1 .. 4 /\ 2 \in 1 .. 4 /\ ~(2 >= 3) /\ ~(2 >= 4) /\ ~(3 >= 4)
  OBVIOUS
<1>2. \A k \in 1 .. 4 : CapeFields[1][k][3] \in BOOLEAN
  BY <1>1, SignsOfFields, FourBooleans, Zenon
<1>3. \A k \in 1 .. 3 : CapeFields[2][k][3] \in BOOLEAN
  BY <1>1, SignsOfFields, FourBooleans, Zenon
<1>4. \A k \in 1 .. 2 : CapeFields[3][k][3] \in BOOLEAN
  BY <1>1, SignsOfFields, FourBooleans, Zenon
<1> QED BY <1>2, <1>3, <1>4

LEMMA CapeFieldsFacts ==
  ASSUME NEW t \in DOMAIN CapeFields
  PROVE  /\ t \in 1 .. 3
         /\ \E n \in Nat : DOMAIN CapeFields[t] = 1 .. n
         /\ \A k \in DOMAIN CapeFields[t] :
              /\ CapeFields[t][k][2] \in Nat /\ CapeFields[t][k][2] >= 6
              /\ CapeFields[t][k][3] \in BOOLEAN
              /\ CapeFields[t][k][4] \in Nat
<1>1. t \in 1 .. 3
  BY SMT DEF CapeFields
<1>2. CASE t = 1
  <2>1. DOMAIN CapeFields[t] = 1 .. 4
    BY <1>2, SMT DEF CapeFields
  <2>2. \A k \in 1 .. 4 : /\ CapeFields[1][k][2] \in Nat /\ CapeFields[1][k][2] >= 6
                         /\ CapeFields[1][k][4] \in Nat
    BY SMT DEF CapeFields
  <2>3. 4 \in Nat
    OBVIOUS
  <2> QED BY <1>1, <1>2, <2>1, <2>2, <2>3, CapeSigns
<1>3. CASE t = 2
  <2>1. DOMAIN CapeFields[t] = 1 .. 3
    BY <1>3, SMT DEF CapeFields
  <2>2. \A k \in 1 .. 3 : /\ CapeFields[2][k][2] \in Nat /\ CapeFields[2][k][2] >= 6
                         /\ CapeFields[2][k][4] \in Nat
    BY SMT DEF CapeFields
  <2>3. 3 \in Nat
    OBVIOUS
  <2> QED BY <1>1, <1>3, <2>1, <2>2, <2>3, CapeSigns
<1>4. CASE t = 3
  <2>1. DOMAIN CapeFields[t] = 1 .. 2
    BY <1>4, SMT DEF CapeFields
  <2>2. \A k \in 1 .. 2 : /\ CapeFields[3][k][2] \in Nat /\ CapeFields[3][k][2] >= 6
                         /\ CapeFields[3][k][4] \in Nat
    BY SMT DEF CapeFields
  <2>3. 2 \in Nat
    OBVIOUS
  <2> QED BY <1>1, <1>4, <2>1, <2>2, <2>3, CapeSigns
<1> QED BY <1>1, <1>2, <1>3, <1>4

LEMMA Scaled ==
  ASSUME NEW low \in Int, NEW high \in Int, NEW x \in Int, low <= x, x <= high, NEW s \in Nat
  PROVE  low * s <= x * s /\ x * s <= high * s /\ low * s \in Int /\ x * s \in Int /\ high * s \in Int
OBVIOUS

LEMMA CapeMetricInField ==
  ASSUME NEW view \in Seq(Octet), BeaconPayload(view), NEW field,
         field[2] \in Nat, field[2] >= 6, field[3] \in BOOLEAN, field[4] \in Nat
  PROVE  InField(CapeMetric(view, field))
<1>1. PICK x : x = CapeHex(view, field).value
  OBVIOUS
<1>2. PICK s : s = field[4]
  OBVIOUS
<1>3. HexRange(x, field[3])
  BY <1>1, ParseRange DEF CapeHex
<1>4. CASE field[3]
  <2>1. x \in Int /\ s \in Nat /\ -128 \in Int /\ 127 \in Int /\ -128 <= x /\ x <= 127
    BY <1>2, <1>3, <1>4 DEF HexRange
  <2>2. (-128) * s <= x * s /\ x * s <= 127 * s /\ (-128) * s \in Int /\ x * s \in Int /\ 127 * s \in Int
    BY <2>1, Scaled
  <2>3. CapeMetric(view, field) = Metric(field[1], x * s, (-128) * s, 127 * s)
    BY <1>1, <1>2, <1>4, SMT DEF CapeMetric
  <2> QED BY <2>2, <2>3, SMT DEF InField, Metric
<1>5. CASE ~field[3]
  <2>1. x \in Int /\ s \in Nat /\ 0 \in Int /\ 255 \in Int /\ 0 <= x /\ x <= 255
    BY <1>2, <1>3, <1>5 DEF HexRange
  <2>2. 0 * s <= x * s /\ x * s <= 255 * s /\ 0 * s \in Int /\ x * s \in Int /\ 255 * s \in Int
    BY <2>1, Scaled
  <2>3. CapeMetric(view, field) = Metric(field[1], x * s, 0, 255 * s)
    BY <1>1, <1>2, <1>5, SMT DEF CapeMetric
  <2>4. 0 * s = 0
    BY <2>1
  <2> QED BY <2>2, <2>3, <2>4, SMT DEF InField, Metric
<1> QED BY <1>4, <1>5

LEMMA CapeTotal ==
  ASSUME NEW view \in Seq(Octet), BeaconPayload(view)
  PROVE  Total(CapeSpec(view))
<1>1. PICK t : t = view[6] - 48
  OBVIOUS
<1>2. PICK fields : fields = CapeFields[t]
  OBVIOUS
<1>3. CapeSpec(view) =
        IF \/ Len(view) < 8
           \/ SubSeq(view, 1, 5) # Callsign
           \/ t \notin DOMAIN CapeFields
           \/ \E k \in DOMAIN fields : ~CapeHex(view, fields[k]).ok
        THEN Raises("ValueError")
        ELSE Reading(<< Metric("type", t, 1, 3) >> \o [ k \in DOMAIN fields |-> CapeMetric(view, fields[k]) ])
  BY <1>1, <1>2, SMT DEF CapeSpec
<1>4. CASE t \in DOMAIN CapeFields
  <2>1. PICK n \in Nat : DOMAIN fields = 1 .. n
    BY <1>2, <1>4, CapeFieldsFacts
  <2>2. \A k \in 1 .. n : InField(CapeMetric(view, fields[k]))
    <3> SUFFICES ASSUME NEW k \in 1 .. n PROVE InField(CapeMetric(view, fields[k]))
      OBVIOUS
    <3>1. PICK field : field = fields[k]
      OBVIOUS
    <3>2. field[2] \in Nat /\ field[2] >= 6 /\ field[3] \in BOOLEAN /\ field[4] \in Nat
      BY <1>2, <1>4, <2>1, <3>1, CapeFieldsFacts
    <3>3. InField(CapeMetric(view, field))
      BY <3>2, CapeMetricInField
    <3> QED BY <3>1, <3>3
  <2>3. PICK first : first = Metric("type", t, 1, 3)
    OBVIOUS
  <2>4. InField(first)
    <3>1. t \in 1 .. 3
      BY <1>4, CapeFieldsFacts
    <3> QED BY <2>3, <3>1, SMT DEF InField, Metric
  <2>5. PICK rest : rest = [ k \in 1 .. n |-> CapeMetric(view, fields[k]) ]
    OBVIOUS
  <2> DEFINE V == { first } \cup { rest[k] : k \in 1 .. n }
             metrics == << first >> \o rest
  <2>6. << first >> \in Seq(V) /\ Len(<< first >>) = 1 /\ << first >>[1] = first
    OBVIOUS
  <2>7. rest \in Seq(V) /\ Len(rest) = n
    <3>1. rest \in [1 .. n -> V]
      BY <2>5
    <3> QED BY <3>1, <2>1
  <2>8. \A v \in V : InField(v)
    BY <2>2, <2>4, <2>5
  <2> HIDE DEF V
  <2>9. metrics \in Seq(V) /\ Len(metrics) = n + 1
    BY <2>6, <2>7, ConcatProperties
  <2> HIDE DEF metrics
  <2>10. metrics = [ k \in 1 .. n + 1 |-> metrics[k] ] /\ \A k \in 1 .. n + 1 : InField(metrics[k])
    BY <2>8, <2>9
  <2>11. Total(Reading(metrics))
    <3>1. n + 1 \in Nat
      BY <2>1
    <3> QED BY <2>10, <3>1, ReadingTotal
  <2>12. metrics = << Metric("type", t, 1, 3) >> \o [ k \in DOMAIN fields |-> CapeMetric(view, fields[k]) ]
    BY <2>1, <2>3, <2>5 DEF metrics
  <2> QED BY <1>3, <2>11, <2>12, RaisesTotal
<1>5. CASE t \notin DOMAIN CapeFields
  <2>1. CapeSpec(view) = Raises("ValueError")
    BY <1>3, <1>5
  <2> QED BY <2>1, RaisesTotal
<1> QED BY <1>4, <1>5

-----------------------------------------------------------------------------
\* The bits of a field that lies in the data are a number below 2 to the power
\* of their count.
LEMMA ExtractedRange ==
  ASSUME NEW data \in Seq(Octet), NEW pos \in Nat, NEW len \in Nat, (pos + len + 7) \div 8 <= Len(data)
  PROVE  ExtractBits(data, pos, len) \in Nat /\ ExtractBits(data, pos, len) <= Pow2[len] - 1
<1> DEFINE bit(b) == (data[b \div 8 + 1] \div Pow2[7 - (b % 8)]) % 2
           body(f) == [i \in 0 .. len |-> IF i = 0 THEN 0 ELSE 2 * f[i - 1] + bit(pos + i - 1)]
           step == [i \in 1 .. len |-> [x \in Nat |-> 2 * x + bit(pos + i - 1)]]
           n == CHOOSE f : f = body(f)
<1>1. ASSUME NEW i \in 1 .. len PROVE bit(pos + i - 1) \in {0, 1}
  <2>1. PICK b \in Nat : b = pos + i - 1
    OBVIOUS
  <2>2. b + 1 <= pos + len
    BY <2>1
  <2>3. b \div 8 + 1 \in 1 .. Len(data)
    <3>1. ASSUME NEW x \in Nat, NEW y \in Nat, x + 1 <= y PROVE x \div 8 + 1 <= (y + 7) \div 8 /\ x \div 8 \in Nat
      <4>1. (y + 7) \div 8 = (y - 1) \div 8 + 1
        OBVIOUS
      <4>2. x \div 8 <= (y - 1) \div 8 /\ x \div 8 \in Nat /\ (y - 1) \div 8 \in Int
        <5>1. ASSUME NEW z \in Int PROVE 8 * (z \div 8) <= z /\ z < 8 * (z \div 8) + 8 /\ z \div 8 \in Int
          OBVIOUS
        <5>2. PICK z : z = y - 1
          OBVIOUS
        <5>3. x \in Int /\ z \in Int /\ x <= z
          BY <3>1, <5>2
        <5>4. PICK a, c : a = x \div 8 /\ c = z \div 8
          OBVIOUS
        <5>5. 8 * a <= x /\ x < 8 * a + 8 /\ a \in Int /\ 8 * c <= z /\ z < 8 * c + 8 /\ c \in Int
          BY <5>1, <5>3, <5>4
        <5>6. a <= c /\ a >= 0
          BY <5>3, <5>5
        <5> QED BY <5>2, <5>4, <5>5, <5>6
      <4> QED BY <4>1, <4>2
    <3>2. pos + len \in Nat /\ (pos + len + 7) \div 8 \in Int /\ Len(data) \in Int
      OBVIOUS
    <3>3. b \div 8 + 1 <= (pos + len + 7) \div 8 /\ b \div 8 \in Nat
      BY <2>1, <2>2, <3>1, <3>2
    <3> QED BY <3>2, <3>3
  <2>4. data[b \div 8 + 1] \in Octet
    BY <2>3, ElementOfSeq
  <2>5. 7 - (b % 8) \in Nat
    BY <2>1
  <2>6. bit(b) = Bit(data[b \div 8 + 1], 7 - (b % 8))
    BY DEF Bit
  <2> HIDE DEF bit
  <2>7. bit(b) \in {0, 1}
    BY <2>4, <2>5, <2>6, BitType DEF BitValue
  <2> QED BY <2>1, <2>7
<1> HIDE DEF bit
<1>2. step \in Steps(1 .. len, Nat)
  <2>1. ASSUME NEW i \in 1 .. len, NEW x \in Nat PROVE 2 * x + bit(pos + i - 1) \in Nat
    <3>1. bit(pos + i - 1) \in {0, 1}
      BY <1>1
    <3>2. PICK b : b = bit(pos + i - 1)
      OBVIOUS
    <3>3. b = 0 \/ b = 1
      BY <3>1, <3>2
    <3>4. 2 * x + b \in Nat
      BY <3>3
    <3> QED BY <3>2, <3>4
  <2> QED BY <2>1 DEF Steps
<1>3. PICK g : FollowsTo(len, g, Nat, 0, step)
  <2> HIDE DEF step
  <2> QED BY <1>2, BoundedRecursion
<1>4. g \in [0 .. len -> Nat] /\ g[0] = 0 /\ \A i \in 1 .. len : g[i] = step[i][g[i - 1]]
  <2> HIDE DEF step
  <2> QED BY <1>3 DEF FollowsTo
<1>5. g = body(g)
  <2>1. ASSUME NEW i \in 0 .. len PROVE g[i] = IF i = 0 THEN 0 ELSE 2 * g[i - 1] + bit(pos + i - 1)
    <3>1. CASE i # 0
      <4>1. g[i - 1] \in Nat /\ i \in 1 .. len
        <5>1. i \in 1 .. len /\ i - 1 \in 0 .. len
          BY <3>1
        <5> HIDE DEF step
        <5> QED BY <1>4, <5>1
      <4>2. step[i][g[i - 1]] = 2 * g[i - 1] + bit(pos + i - 1)
        BY <4>1
      <4> QED BY <1>4, <3>1, <4>1, <4>2
    <3> QED BY <1>4, <3>1
  <2> HIDE DEF step
  <2> QED BY <1>4, <2>1
<1>6. n = body(n)
  <2> HIDE DEF body
  <2> QED BY <1>5
<1>7. \A i \in 0 .. len : n[i] = IF i = 0 THEN 0 ELSE 2 * n[i - 1] + bit(pos + i - 1)
  <2> HIDE DEF n
  <2> QED BY <1>6
<1> HIDE DEF n
<1> DEFINE P == { i \in 0 .. len : n[i] \in Nat /\ n[i] <= Pow2[i] - 1 }
<1>8. 0 \in P
  <2>1. n[0] = 0 /\ Pow2[0] = 1 /\ 0 \in 0 .. len
    BY <1>7, Pow2Recursion, SMTT(40)
  <2> QED BY <2>1
<1>9. ASSUME NEW i \in 1 .. len, i - 1 \in P PROVE i \in P
  <2>1. n[i] = 2 * n[i - 1] + bit(pos + i - 1) /\ n[i - 1] \in Nat /\ n[i - 1] <= Pow2[i - 1] - 1
    BY <1>7, <1>9
  <2>2. Pow2[i] = 2 * Pow2[i - 1] /\ Pow2[i - 1] \in Nat
    <3>1. i - 1 \in Nat /\ i - 1 + 1 = i
      OBVIOUS
    <3>2. Pow2[i - 1 + 1] = 2 * Pow2[i - 1]
      BY <3>1, Pow2Recursion
    <3>3. Pow2[i - 1] \in Nat
      BY <3>1, Pow2Type
    <3> QED BY <3>1, <3>2, <3>3
  <2>3. ASSUME NEW x \in Nat, NEW b \in {0, 1}, NEW p \in Nat, x <= p - 1
        PROVE  2 * x + b \in Nat /\ 2 * x + b <= 2 * p - 1
    <3>1. b = 0 \/ b = 1
      OBVIOUS
    <3>2. 2 * x + 1 <= 2 * p - 1 /\ 2 * x + 0 <= 2 * p - 1
      BY <2>3
    <3> QED BY <3>1, <3>2
  <2>4. n[i] \in Nat /\ n[i] <= Pow2[i] - 1
    BY <1>1, <2>1, <2>2, <2>3
  <2> QED BY <2>4
<1>10. \A i \in 0 .. len : i \in P
  <2> HIDE DEF P
  <2> QED BY <1>8, <1>9, BoundedInduction
<1>11. ExtractBits(data, pos, len) = n[len]
  BY DEF ExtractBits, n, bit
<1> QED BY <1>10, <1>11

\* A field of SONATE-2 that is raw, or calibrated by a polynomial that grows.
SonateField(field) ==
  /\ field[2] \in Nat /\ field[3] \in Nat
  /\ Len(field) # 3 => field[4] \in Int /\ field[5] \in Nat /\ field[6] \in Nat

LEMMA StdHkFacts ==
  DOMAIN StdHkFields = 1 .. 12 /\ \A k \in 1 .. 12 : SonateField(StdHkFields[k])
<1>1. DOMAIN StdHkFields = 1 .. 12
  BY SMT DEF StdHkFields
<1>2. \A k \in 1 .. 12 : StdHkFields[k][2] \in Nat /\ StdHkFields[k][3] \in Nat
  BY SMT DEF StdHkFields
<1>3. Len(StdHkFields[1]) = 3 /\ Len(StdHkFields[12]) = 3
  BY SMT DEF StdHkFields
<1>4. \A k \in 2 .. 11 : StdHkFields[k][4] \in Int
  BY SMT DEF StdHkFields
<1>5. \A k \in 2 .. 11 : StdHkFields[k][5] \in Nat
  BY SMT DEF StdHkFields
<1>6. \A k \in 2 .. 11 : StdHkFields[k][6] \in Nat
  BY SMT DEF StdHkFields
<1>7. ASSUME NEW k \in 1 .. 12 PROVE SonateField(StdHkFields[k])
  <2>1. k = 1 \/ k = 12 \/ k \in 2 .. 11
    OBVIOUS
  <2> QED BY <1>2, <1>3, <1>4, <1>5, <1>6, <2>1 DEF SonateField
<1> QED BY <1>1, <1>7

LEMMA MemOpsFacts ==
  DOMAIN MemOpsFields = 1 .. 20 /\ \A k \in 1 .. 20 : SonateField(MemOpsFields[k])
<1>1. DOMAIN MemOpsFields = 1 .. 20
  BY DEF MemOpsFields
<1>2. ASSUME NEW c \in 1 .. 4, NEW k \in 1 .. 5 PROVE SonateField(MemOpsChannel(c)[k])
  <2>1. MemOpsChannel(c)[k][2] \in Nat /\ MemOpsChannel(c)[k][3] \in Nat
    BY SMT DEF MemOpsChannel
  <2>2. /\ Len(MemOpsChannel(c)[1]) = 3 /\ Len(MemOpsChannel(c)[2]) = 3
        /\ Len(MemOpsChannel(c)[4]) = 3 /\ Len(MemOpsChannel(c)[5]) = 3
    BY SMT DEF MemOpsChannel
  <2>3. MemOpsChannel(c)[3][4] \in Int /\ MemOpsChannel(c)[3][5] \in Nat /\ MemOpsChannel(c)[3][6] \in Nat
    BY SMT DEF MemOpsChannel
  <2>4. k = 1 \/ k = 2 \/ k = 3 \/ k = 4 \/ k = 5
    OBVIOUS
  <2> QED BY <2>1, <2>2, <2>3, <2>4 DEF SonateField
<1>3. ASSUME NEW k \in 1 .. 20 PROVE SonateField(MemOpsFields[k])
  <2>1. (k - 1) \div 5 + 1 \in 1 .. 4 /\ ((k - 1) % 5) + 1 \in 1 .. 5
    OBVIOUS
  <2>2. MemOpsFields[k] = MemOpsChannel((k - 1) \div 5 + 1)[((k - 1) % 5) + 1]
    BY DEF MemOpsFields
  <2> QED BY <1>2, <2>1, <2>2
<1> QED BY <1>1, <1>3

LEMMA Thousandths ==
  ASSUME NEW x \in Int, NEW y \in Int, x <= y
  PROVE  x \div 1000 \in Int /\ y \div 1000 \in Int /\ x \div 1000 <= y \div 1000
<1>1. ASSUME NEW z \in Int PROVE 1000 * (z \div 1000) <= z /\ z < 1000 * (z \div 1000) + 1000 /\ z \div 1000 \in Int
  BY SMT
<1>2. PICK a, b : a = x \div 1000 /\ b = y \div 1000
  OBVIOUS
<1>3. 1000 * a <= x /\ x < 1000 * a + 1000 /\ a \in Int /\ 1000 * b <= y /\ y < 1000 * b + 1000 /\ b \in Int
  BY <1>1, <1>2
<1>4. a <= b
  BY <1>3, SMT
<1> QED BY <1>2, <1>3, <1>4

LEMMA SonateMetricInField ==
  ASSUME NEW data \in Seq(Octet), NEW field, SonateField(field),
         (field[2] + field[3] + 7) \div 8 <= Len(data)
  PROVE  InField(SonateMetric(data, field))
<1>1. PICK x, m : x = ExtractBits(data, field[2], field[3]) /\ m = Pow2[field[3]] - 1
  OBVIOUS
<1>2. x \in Nat /\ x <= m /\ m \in Nat
  <2>1. field[2] \in Nat /\ field[3] \in Nat
    BY DEF SonateField
  <2>2. Pow2[field[3]] \in Nat \ {0}
    BY <2>1, Pow2Type
  <2>3. x \in Nat /\ x <= m
    BY <1>1, <2>1, ExtractedRange
  <2> QED BY <1>1, <2>2, <2>3
<1>3. SonateMetric(data, field) =
        Metric(field[1], Calibrated(field, x), Calibrated(field, 0), Calibrated(field, m))
  BY <1>1, SMT DEF SonateMetric
<1>4. CASE Len(field) = 3
  <2>1. Calibrated(field, x) = x /\ Calibrated(field, 0) = 0 /\ Calibrated(field, m) = m
    BY <1>4, SMT DEF Calibrated
  <2> QED BY <1>2, <1>3, <2>1, SMT DEF InField, Metric
<1>5. CASE Len(field) # 3
  <2>1. PICK a, b, c : a = field[4] /\ b = field[5] /\ c = field[6]
    OBVIOUS
  <2>2. a \in Int /\ b \in Nat /\ c \in Nat
    BY <1>5, <2>1 DEF SonateField
  <2> DEFINE P(y) == a + b * y + c * y * y
  <2>3. \A y : Calibrated(field, y) = P(y) \div 1000
    BY <1>5, <2>1, SMT DEF Calibrated
  <2>4. ASSUME NEW y \in Nat, NEW z \in Nat, y <= z PROVE P(y) \in Int /\ P(z) \in Int /\ P(y) <= P(z)
    <3>1. b * y \in Int /\ b * z \in Int /\ b * y <= b * z
      BY <2>2, <2>4
    <3>2. c * y \in Nat /\ c * z \in Nat /\ c * y <= c * z
      BY <2>2, <2>4
    <3>3. PICK u, v : u = c * y /\ v = c * z
      OBVIOUS
    <3>4. u * y \in Int /\ v * y \in Int /\ v * z \in Int /\ u * y <= v * y /\ v * y <= v * z
      BY <2>4, <3>2, <3>3
    <3> QED BY <2>2, <3>1, <3>3, <3>4
  <2>5. 0 \in Nat /\ 0 <= x
    BY <1>2
  <2>6. P(0) \in Int /\ P(x) \in Int /\ P(m) \in Int /\ P(0) <= P(x) /\ P(x) <= P(m)
    <3> HIDE DEF P
    <3> QED BY <1>2, <2>4, <2>5
  <2> HIDE DEF P
  <2>7. /\ P(0) \div 1000 \in Int /\ P(x) \div 1000 \in Int /\ P(m) \div 1000 \in Int
        /\ P(0) \div 1000 <= P(x) \div 1000 /\ P(x) \div 1000 <= P(m) \div 1000
    BY <2>6, Thousandths
  <2> QED BY <1>3, <2>3, <2>7, SMT DEF InField, Metric
<1> QED BY <1>4, <1>5

LEMMA OctetFacts == ASSUME NEW x \in Octet PROVE x % 8 \in Nat /\ x \in Nat /\ x # -1
BY DEF Octet

LEMMA SonateTotal ==
  ASSUME NEW view \in Seq(Octet) PROVE Total(SonateSpec(view))
<1> DEFINE vcid == (At(view, 1) \div 2) % 8
           start == 6 + (At(view, 4) % 8) * 256 + At(view, 5)
           apid == (At(view, start) % 8) * 256 + At(view, start + 1)
           data == SubSeq(view, start + 12, Len(view))
           fields == ApidFields(apid)
           short == Len(view) < 19 \/ ~PacketFits(start, view)
           outside == -1 \in {At(view, start), At(view, start + 1)}
           invalid == \/ apid \notin {100, 105} \/ vcid \notin ApidVcids(apid)
                      \/ \E k \in DOMAIN fields : (fields[k][2] + fields[k][3] + 7) \div 8 > Len(data)
           metrics == [ k \in DOMAIN fields |-> SonateMetric(data, fields[k]) ]
<1>2. start = 6 + (At(view, 4) % 8) * 256 + At(view, 5)
  OBVIOUS
<1>4. data = SubSeq(view, start + 12, Len(view))
  OBVIOUS
<1>5. fields = ApidFields(apid)
  OBVIOUS
<1>6. SonateSpec(view) =
        IF short THEN Raises("ValueError") ELSE IF outside THEN Raises("IndexError")
        ELSE IF invalid THEN Raises("ValueError") ELSE Reading(metrics)
  BY DEF SonateSpec
<1> HIDE DEF vcid, start, apid, data, fields
<1>7. CASE short
  <2> HIDE DEF short, outside, invalid, metrics
  <2> QED BY <1>6, <1>7, RaisesTotal
<1>8. CASE ~short
  <2>1. Len(view) \in Nat /\ Len(view) >= 19
    BY <1>8
  <2>2. \A i \in 0 .. Len(view) - 1 : At(view, i) \in Octet
    <3> SUFFICES ASSUME NEW i \in 0 .. Len(view) - 1 PROVE At(view, i) \in Octet
      OBVIOUS
    <3>1. i + 1 \in 1 .. Len(view) /\ i < Len(view)
      BY <2>1
    <3>2. view[i + 1] \in Octet
      BY <3>1, ElementOfSeq
    <3> QED BY <3>1, <3>2 DEF At
  <2>3. start \in Nat /\ start >= 6
    <3>1. At(view, 4) \in Octet /\ At(view, 5) \in Octet
      BY <2>1, <2>2
    <3>2. PICK p, q : p = At(view, 4) % 8 /\ q = At(view, 5)
      OBVIOUS
    <3>3. p \in Nat /\ q \in Nat
      BY <3>1, <3>2, OctetFacts
    <3>4. start = 6 + p * 256 + q
      BY <1>2, <3>2
    <3> QED BY <3>3, <3>4
  <2>4. start + 6 <= Len(view)
    BY <1>8 DEF PacketFits
  <2>5. ~outside
    <3>1. start \in 0 .. Len(view) - 1 /\ start + 1 \in 0 .. Len(view) - 1
      BY <2>1, <2>3, <2>4
    <3>2. At(view, start) \in Octet /\ At(view, start + 1) \in Octet
      BY <2>2, <3>1
    <3> QED BY <3>2, OctetFacts
  <2>6. CASE invalid
    <3> HIDE DEF short, outside, invalid, metrics
    <3> QED BY <1>6, <1>8, <2>5, <2>6, RaisesTotal
  <2>7. CASE ~invalid
    <3>1. data \in Seq(Octet)
      <4> DEFINE a == start + 12
      <4>1. a \in Int /\ 1 <= a /\ Len(view) \in Int /\ Len(view) <= Len(view)
        BY <2>1, <2>3
      <4> HIDE DEF a
      <4>2. SubSeq(view, a, Len(view)) \in Seq(Octet)
        BY <4>1, SubSeqType
      <4> QED BY <1>4, <4>2 DEF a
    <3>2. Len(data) \in Nat
      BY <3>1
    <3>3. PICK n \in Nat : DOMAIN fields = 1 .. n /\ \A k \in 1 .. n : SonateField(fields[k])
      <4>1. fields = StdHkFields \/ fields = MemOpsFields
        BY <1>5 DEF ApidFields
      <4>2. 12 \in Nat /\ 20 \in Nat
        OBVIOUS
      <4> QED BY <4>1, <4>2, StdHkFacts, MemOpsFacts
    <3>4. \A k \in DOMAIN fields : ~((fields[k][2] + fields[k][3] + 7) \div 8 > Len(data))
      BY <2>7
    <3>5. \A k \in 1 .. n : InField(SonateMetric(data, fields[k]))
      <4> SUFFICES ASSUME NEW k \in 1 .. n PROVE InField(SonateMetric(data, fields[k]))
        OBVIOUS
      <4>1. PICK field : field = fields[k]
        OBVIOUS
      <4>2. SonateField(field)
        BY <3>3, <4>1
      <4>3. ~((field[2] + field[3] + 7) \div 8 > Len(data))
        BY <3>3, <3>4, <4>1
      <4>4. (field[2] + field[3] + 7) \div 8 \in Int
        <5>1. field[2] \in Nat /\ field[3] \in Nat
          BY <4>2 DEF SonateField
        <5> QED BY <5>1
      <4>5. (field[2] + field[3] + 7) \div 8 <= Len(data)
        BY <3>2, <4>3, <4>4
      <4>6. InField(SonateMetric(data, field))
        BY <3>1, <4>2, <4>5, SonateMetricInField
      <4> QED BY <4>1, <4>6
    <3>6. metrics = [ k \in 1 .. n |-> metrics[k] ] /\ \A k \in 1 .. n : InField(metrics[k])
      BY <3>3, <3>5
    <3> HIDE DEF short, outside, invalid, metrics
    <3>7. Total(Reading(metrics))
      BY <3>6, ReadingTotal
    <3> QED BY <1>6, <1>8, <2>5, <2>7, <3>7
  <2> HIDE DEF short, outside, invalid, metrics
  <2> QED BY <2>6, <2>7
<1> HIDE DEF short, outside, invalid, metrics
<1> QED BY <1>7, <1>8

-----------------------------------------------------------------------------
(* What the decoders let through.                                          *)

LEMMA LeastNumber ==
  ASSUME NEW S \in SUBSET Nat, S # {}
  PROVE  \E x \in S : \A y \in S : x <= y
<1> DEFINE less == { ss \in Nat \X Nat : ss[1] < ss[2] }
<1>1. IsWellFoundedOn(less, Nat)
  BY NatLessThanWellFounded DEF OpToRel
<1>2. PICK x \in S : \A y \in S : ~(<< y, x >> \in less)
  <2> HIDE DEF less
  <2> QED BY <1>1, WFMin
<1>3. \A y \in S : x <= y
  <2> SUFFICES ASSUME NEW y \in S PROVE x <= y
    OBVIOUS
  <2>1. x \in Nat /\ y \in Nat
    OBVIOUS
  <2>2. ~(y < x)
    BY <1>2, <2>1
  <2> QED BY <2>1, <2>2
<1> QED BY <1>3

\* A payload of that satellite: octets, and of CAPE-1 a beacon.
PayloadOf(norad, payload) == payload \in Seq(Octet) /\ (norad = Cape => BeaconPayload(payload))

LEMMA Ax25PayloadType ==
  ASSUME NEW frame \in Seq(Octet), NEW hasFcs \in BOOLEAN, Ax25Payload(frame, hasFcs) # NoPayload
  PROVE  Ax25Payload(frame, hasFcs) \in Seq(Octet)
<1> DEFINE last == CHOOSE k \in AddressFields(frame) : \A j \in AddressFields(frame) : k <= j
           end == Len(frame) - IF hasFcs THEN 2 ELSE 0
<1>1. Ax25Payload(frame, hasFcs) = SubSeq(frame, 7 * last + 3, end) /\ AddressFields(frame) # {}
  BY DEF Ax25Payload
<1>2. AddressFields(frame) \in SUBSET Nat
  BY DEF AddressFields
<1>3. last \in Nat
  <2>1. \E k \in AddressFields(frame) : \A j \in AddressFields(frame) : k <= j
    BY <1>1, <1>2, LeastNumber
  <2>2. last \in AddressFields(frame)
    BY <2>1
  <2> QED BY <1>2, <2>2
<1>4. end \in Int /\ end <= Len(frame)
  <2>1. Len(frame) \in Nat
    OBVIOUS
  <2> QED BY <2>1
<1> HIDE DEF last, end
<1>5. PICK from : from = 7 * last + 3
  OBVIOUS
<1>6. from \in Int /\ 1 <= from
  BY <1>3, <1>5
<1>7. SubSeq(frame, from, end) \in Seq(Octet)
  BY <1>4, <1>6, SubSeqType
<1> QED BY <1>1, <1>5, <1>7

LEMMA HexRunFacts ==
  ASSUME NEW fields \in Seq(Octet)
  PROVE  /\ HexRun(fields) \in 0 .. Len(fields)
         /\ \A i \in 1 .. HexRun(fields) : fields[i] \in HexDigits
<1> DEFINE N == Len(fields)
           bad == { i \in 1 .. N : fields[i] \notin HexDigits }
<1>1. N \in Nat /\ bad \in SUBSET Nat
  OBVIOUS
<1>2. \E n \in 0 .. N : /\ \A i \in 1 .. n : fields[i] \in HexDigits
                        /\ n = N \/ fields[n + 1] \notin HexDigits
  <2>1. CASE bad = {}
    <3>1. N \in 0 .. N /\ \A i \in 1 .. N : fields[i] \in HexDigits
      BY <1>1, <2>1
    <3> QED BY <3>1
  <2>2. CASE bad # {}
    <3>1. PICK x \in bad : \A y \in bad : x <= y
      <4> HIDE DEF bad
      <4> QED BY <1>1, <2>2, LeastNumber
    <3>2. x - 1 \in 0 .. N /\ x - 1 + 1 = x /\ fields[x] \notin HexDigits
      <4> HIDE DEF N
      <4> QED BY <1>1
    <3>3. ASSUME NEW i \in 1 .. x - 1 PROVE fields[i] \in HexDigits
      <4>1. i \in 1 .. N /\ ~(x <= i)
        <5> HIDE DEF N
        <5> QED BY <1>1
      <4> QED BY <3>1, <4>1
    <3> WITNESS x - 1 \in 0 .. N
    <3> QED BY <3>2, <3>3
  <2> HIDE DEF bad
  <2> QED BY <2>1, <2>2
<1>3. HexRun(fields) = CHOOSE n \in 0 .. N : /\ \A i \in 1 .. n : fields[i] \in HexDigits
                                             /\ n = N \/ fields[n + 1] \notin HexDigits
  BY DEF HexRun
<1> HIDE DEF N
<1>4. HexRun(fields) \in 0 .. N /\ \A i \in 1 .. HexRun(fields) : fields[i] \in HexDigits
  BY <1>2, <1>3
<1> QED BY <1>4 DEF N

LEMMA UpperType == ASSUME NEW c \in Octet PROVE Upper(c) \in Octet
BY SMT DEF Octet, Upper

LEMMA CwPayloadType ==
  ASSUME NEW text \in Seq(Octet), CwPayload(text) # NoPayload
  PROVE  CwPayload(text) \in Seq(Octet) /\ BeaconPayload(CwPayload(text))
<1> DEFINE upper == [ i \in DOMAIN text |-> Upper(text[i]) ]
           chars == Selected(upper, { i \in DOMAIN text : text[i] \notin Spaces })
           marks == { i \in DOMAIN chars : Slice(chars, i, i + 4) = Callsign }
           first == CHOOSE i \in marks : \A j \in marks : i <= j
           beacon == SubSeq(chars, first, Len(chars))
           fields == SubSeq(beacon, 7, Len(beacon))
           run == HexRun(fields)
<1>1. /\ CwPayload(text) = SubSeq(beacon, 1, 6) \o SubSeq(fields, 1, run)
      /\ marks # {} /\ ~(Len(beacon) < 8)
  BY DEF CwPayload
<1>2. upper \in Seq(Octet)
  <2>1. \A i \in DOMAIN text : text[i] \in Octet
    BY ElementOfSeq
  <2>2. \A i \in DOMAIN text : Upper(text[i]) \in Octet
    BY <2>1, UpperType
  <2>3. DOMAIN text = 1 .. Len(text) /\ Len(text) \in Nat
    OBVIOUS
  <2>4. upper \in [1 .. Len(text) -> Octet]
    BY <2>2, <2>3
  <2> HIDE DEF upper
  <2> QED BY <2>3, <2>4
<1> HIDE DEF upper
<1>3. chars \in Seq(Octet)
  BY <1>2, SelectedElements
<1> HIDE DEF chars
<1>4. first \in 1 .. Len(chars) /\ Len(chars) \in Nat
  <2>1. marks \in SUBSET Nat /\ marks \subseteq 1 .. Len(chars)
    BY <1>3
  <2> HIDE DEF marks
  <2>2. \E i \in marks : \A j \in marks : i <= j
    BY <1>1, <2>1, LeastNumber
  <2>3. first \in marks
    BY <2>2
  <2> HIDE DEF first
  <2>4. first \in 1 .. Len(chars)
    BY <2>1, <2>3
  <2> QED BY <1>3, <2>4
<1> HIDE DEF first
<1>5. beacon \in Seq(Octet) /\ Len(beacon) \in Nat /\ Len(beacon) >= 8
  <2>1. first \in Int /\ Len(chars) \in Int /\ 1 <= first /\ Len(chars) <= Len(chars)
    BY <1>4
  <2>2. beacon \in Seq(Octet)
    BY <1>3, <2>1, SubSeqType
  <2> HIDE DEF beacon
  <2> QED BY <1>1, <2>2
<1> HIDE DEF beacon
<1>6. fields \in Seq(Octet)
  <2>1. 7 \in Int /\ Len(beacon) \in Int /\ 1 <= 7 /\ Len(beacon) <= Len(beacon)
    BY <1>5
  <2> QED BY <1>5, <2>1, SubSeqType
<1> HIDE DEF fields
<1>7. run \in 0 .. Len(fields) /\ (\A i \in 1 .. run : fields[i] \in HexDigits) /\ Len(fields) \in Nat
  BY <1>6, HexRunFacts
<1> HIDE DEF run
<1>8. PICK p : p = SubSeq(beacon, 1, 6)
  OBVIOUS
<1>9. PICK q : q = SubSeq(fields, 1, run)
  OBVIOUS
<1>10. p \in Seq(Octet) /\ Len(p) = 6
  <2>1. 1 \in Int /\ 6 \in Int /\ 1 <= 1 /\ 6 <= Len(beacon) /\ 1 <= 6 /\ 6 - 1 + 1 = 6
    BY <1>5
  <2> QED BY <1>5, <1>8, <2>1, SubSeqType
<1>11. q \in Seq(Octet) /\ Len(q) = run /\ \A i \in 1 .. run : q[i] = fields[i]
  <2>1. 1 \in Int /\ run \in Int /\ 1 <= 1 /\ run <= Len(fields) /\ run - 1 + 1 = run /\ run >= 0
    BY <1>7
  <2>2. /\ SubSeq(fields, 1, run) \in Seq(Octet)
        /\ Len(SubSeq(fields, 1, run)) = IF 1 <= run THEN run - 1 + 1 ELSE 0
        /\ \A i \in 1 .. run - 1 + 1 : SubSeq(fields, 1, run)[i] = fields[1 + i - 1]
    BY <1>6, <2>1, SubSeqType
  <2>3. \A i \in 1 .. run : 1 + i - 1 = i
    OBVIOUS
  <2>4. (IF 1 <= run THEN run - 1 + 1 ELSE 0) = run
    BY <2>1
  <2> QED BY <1>9, <2>1, <2>2, <2>3, <2>4
<1>12. /\ p \o q \in Seq(Octet) /\ Len(p \o q) = 6 + run
       /\ \A i \in 1 .. 6 + run : (p \o q)[i] = IF i <= 6 THEN p[i] ELSE q[i - 6]
  <2>1. /\ p \o q \in Seq(Octet) /\ Len(p \o q) = Len(p) + Len(q)
        /\ \A i \in 1 .. Len(p) + Len(q) : (p \o q)[i] = IF i <= Len(p) THEN p[i] ELSE q[i - Len(p)]
    BY <1>10, <1>11, ConcatProperties
  <2> QED BY <1>10, <1>11, <2>1
<1>13. BeaconPayload(p \o q)
  <2> SUFFICES ASSUME NEW i \in 7 .. 6 + run PROVE (p \o q)[i] \in HexDigits
    BY <1>12 DEF BeaconPayload
  <2>1. i \in 1 .. 6 + run /\ ~(i <= 6) /\ i - 6 \in 1 .. run
    BY <1>7
  <2>2. (p \o q)[i] = q[i - 6] /\ q[i - 6] = fields[i - 6] /\ fields[i - 6] \in HexDigits
    BY <1>7, <1>11, <1>12, <2>1
  <2> QED BY <2>2
<1> QED BY <1>1, <1>8, <1>9, <1>12, <1>13

LEMMA DecodedPayloadType ==
  ASSUME NEW norad, NEW frame \in Seq(Octet), NEW hasFcs \in BOOLEAN,
         DecodedPayload(norad, frame, hasFcs) # NoPayload
  PROVE  PayloadOf(norad, DecodedPayload(norad, frame, hasFcs))
<1>1. CASE norad = Cape
  BY <1>1, CwPayloadType DEF DecodedPayload, PayloadOf
<1>2. CASE norad # Cape
  BY <1>2, Ax25PayloadType DEF DecodedPayload, PayloadOf
<1> QED BY <1>1, <1>2

LEMMA DemultiplexedTotal ==
  ASSUME NEW norad, NEW payload, PayloadOf(norad, payload)
  PROVE  Total(Demultiplexed(norad, payload))
<1>1. payload \in Seq(Octet) /\ (norad = Cape => BeaconPayload(payload))
  BY DEF PayloadOf
<1>2. CASE payload = << >> \/ norad \notin {OreSat, Cp16, Cape, Sonate, Iss}
  <2>1. Demultiplexed(norad, payload) = Rejected
    BY <1>2 DEF Demultiplexed
  <2> QED BY <2>1, RaisesTotal
<1>3. CASE ~(payload = << >> \/ norad \notin {OreSat, Cp16, Cape, Sonate, Iss})
  <2>1. /\ OreSat # Cp16 /\ OreSat # Cape /\ OreSat # Sonate /\ OreSat # Iss
        /\ Cp16 # Cape /\ Cp16 # Sonate /\ Cp16 # Iss
        /\ Cape # Sonate /\ Cape # Iss /\ Sonate # Iss
    BY SMT DEF OreSat, Cp16, Cape, Sonate, Iss
  <2>2. Demultiplexed(norad, payload) =
          CASE norad = OreSat -> OreSatSpec(payload)
            [] norad = Cp16   -> Cp16Spec(payload)
            [] norad = Cape   -> CapeSpec(payload)
            [] norad = Sonate -> SonateSpec(payload)
            [] norad = Iss    -> AprsSpec(payload)
    BY <1>3, Zenon DEF Demultiplexed
  <2>3. CASE norad = OreSat
    <3>1. Demultiplexed(norad, payload) = OreSatSpec(payload)
      BY <2>1, <2>2, <2>3, Zenon
    <3> QED BY <1>1, <3>1, OreSatTotal
  <2>4. CASE norad = Cp16
    <3>1. Demultiplexed(norad, payload) = Cp16Spec(payload)
      BY <2>1, <2>2, <2>4, Zenon
    <3> QED BY <1>1, <3>1, Cp16Total
  <2>5. CASE norad = Cape
    <3>1. Demultiplexed(norad, payload) = CapeSpec(payload)
      BY <2>1, <2>2, <2>5, Zenon
    <3> QED BY <1>1, <2>5, <3>1, CapeTotal
  <2>6. CASE norad = Sonate
    <3>1. Demultiplexed(norad, payload) = SonateSpec(payload)
      BY <2>1, <2>2, <2>6, Zenon
    <3> QED BY <1>1, <3>1, SonateTotal
  <2>7. CASE norad = Iss
    <3>1. Demultiplexed(norad, payload) = AprsSpec(payload)
      BY <2>1, <2>2, <2>7, Zenon
    <3> QED BY <1>1, <1>3, <3>1, AprsTotal
  <2> QED BY <1>3, <2>3, <2>4, <2>5, <2>6, <2>7
<1> QED BY <1>2, <1>3

-----------------------------------------------------------------------------
(* What the transmitter stuffs, the receiver takes out.                    *)

LEMMA AppendFacts ==
  ASSUME NEW V, NEW s \in Seq(V), NEW e \in V
  PROVE  /\ Append(s, e) \in Seq(V) /\ Len(s) \in Nat /\ Len(Append(s, e)) = Len(s) + 1
         /\ DOMAIN s = 1 .. Len(s) /\ DOMAIN Append(s, e) = 1 .. Len(s) + 1
         /\ \A i \in 1 .. Len(s) : Append(s, e)[i] = s[i]
         /\ Append(s, e)[Len(s) + 1] = e
OBVIOUS

\* A selection from a longer sequence.
LEMMA SelectedAppend ==
  ASSUME NEW V, NEW s \in Seq(V), NEW e \in V, NEW keep, NEW more,
         \A i \in 1 .. Len(s) : i \in keep <=> i \in more
  PROVE  /\ Len(s) + 1 \in more => Selected(Append(s, e), more) = Append(Selected(s, keep), e)
         /\ Len(s) + 1 \notin more => Selected(Append(s, e), more) = Selected(s, keep)
<1> DEFINE L == Len(s)
           long == Append(s, e)
           at == Positions(s, keep)
           all == Positions(long, more)
           t == Selected(s, keep)
           u == Selected(long, more)
           m == Cardinality(at)
<1>1. /\ long \in Seq(V) /\ L \in Nat /\ Len(long) = L + 1
      /\ DOMAIN s = 1 .. L /\ DOMAIN long = 1 .. L + 1
      /\ \A i \in 1 .. L : long[i] = s[i]
      /\ long[L + 1] = e
  BY AppendFacts
<1> HIDE DEF long
<1>2. /\ t \in Seq(V) /\ Len(t) = m /\ m \in Nat
      /\ \A i \in at : Rank(at)[i] \in 1 .. m /\ t[Rank(at)[i]] = s[i]
      /\ \A k \in 1 .. m : \E i \in at : Rank(at)[i] = k
  BY SelectedFacts
<1>3. /\ u \in Seq(V) /\ Len(u) = Cardinality(all)
      /\ \A i \in all : u[Rank(all)[i]] = long[i]
  BY <1>1, SelectedFacts
<1>4. at \subseteq 1 .. L /\ \A i \in 1 .. L : i \in at <=> i \in all
  BY <1>1 DEF Positions
<1>5. all \subseteq 1 .. L + 1 /\ (L + 1 \in all <=> L + 1 \in more)
  BY <1>1 DEF Positions
<1> HIDE DEF L, at, all, t, u, m
<1>6. CASE L + 1 \notin more
  <2>1. all = at
    <3>1. L + 1 \notin all
      BY <1>5, <1>6
    <3>2. \A i \in all : i \in 1 .. L
      BY <1>1, <1>5, <3>1
    <3> QED BY <1>4, <3>2
  <2>2. \A k \in 1 .. m : u[k] = t[k]
    <3> SUFFICES ASSUME NEW k \in 1 .. m PROVE u[k] = t[k]
      OBVIOUS
    <3>1. PICK i \in at : Rank(at)[i] = k
      BY <1>2
    <3>2. u[k] = long[i] /\ t[k] = s[i]
      BY <1>2, <1>3, <2>1, <3>1
    <3>3. long[i] = s[i]
      BY <1>1, <1>4
    <3> QED BY <3>2, <3>3
  <2>3. u = t
    <3>1. Len(u) = Len(t)
      BY <1>2, <1>3, <2>1 DEF m
    <3> QED BY <1>2, <1>3, <2>2, <3>1, SeqEqual
  <2> QED BY <1>6, <2>3 DEF L, long, u, t
<1>7. CASE L + 1 \in more
  <2>1. all = at \cup {L + 1} /\ L + 1 \notin at /\ L + 1 \in all
    <3>1. L + 1 \in all
      BY <1>5, <1>7
    <3>2. \A i \in all : i \in 1 .. L \/ i = L + 1
      BY <1>1, <1>5
    <3>3. L + 1 \notin 1 .. L
      BY <1>1
    <3> QED BY <1>4, <3>1, <3>2, <3>3
  <2>2. IsFiniteSet(at)
    <3>1. IsFiniteSet(1 .. L)
      BY <1>1, FS_Interval
    <3> QED BY <1>4, <3>1, FS_Subset
  <2>3. Cardinality(all) = m + 1
    BY <2>1, <2>2, FS_AddElement DEF m
  <2>4. \A i \in at : Rank(all)[i] = Rank(at)[i]
    <3> SUFFICES ASSUME NEW i \in at PROVE Rank(all)[i] = Rank(at)[i]
      OBVIOUS
    <3>1. i \in 1 .. L
      BY <1>4
    <3>2. { j \in all : j <= i } = { j \in at : j <= i }
      BY <1>1, <1>4, <2>1, <3>1
    <3> QED BY <2>1, <3>2 DEF Rank
  <2>5. Rank(all)[L + 1] = m + 1
    <3>1. \A j \in all : j <= L + 1
      BY <1>1, <1>5
    <3>2. { j \in all : j <= L + 1 } = all
      BY <3>1
    <3> QED BY <2>1, <2>3, <3>2 DEF Rank
  <2>6. u[m + 1] = e
    <3>1. PICK last : last = L + 1
      OBVIOUS
    <3>2. last \in all
      BY <2>1, <3>1
    <3>3. u[Rank(all)[last]] = long[last]
      BY <1>3, <3>2
    <3> QED BY <1>1, <2>5, <3>1, <3>3
  <2>7. \A k \in 1 .. m : u[k] = t[k]
    <3> SUFFICES ASSUME NEW k \in 1 .. m PROVE u[k] = t[k]
      OBVIOUS
    <3>1. PICK i \in at : Rank(at)[i] = k
      BY <1>2
    <3>2. u[k] = long[i] /\ t[k] = s[i]
      BY <1>2, <1>3, <2>1, <2>4, <3>1
    <3>3. long[i] = s[i]
      BY <1>1, <1>4
    <3> QED BY <3>2, <3>3
  <2>8. u = Append(t, e)
    <3>1. /\ Append(t, e) \in Seq(V) /\ Len(Append(t, e)) = m + 1
          /\ \A k \in 1 .. m : Append(t, e)[k] = t[k]
          /\ Append(t, e)[m + 1] = e
      BY <1>2, AppendFacts
    <3>2. Len(u) = m + 1
      BY <1>3, <2>3
    <3>3. \A k \in 1 .. m + 1 : u[k] = Append(t, e)[k]
      <4> SUFFICES ASSUME NEW k \in 1 .. m + 1 PROVE u[k] = Append(t, e)[k]
        OBVIOUS
      <4>1. k \in 1 .. m \/ k = m + 1
        BY <1>2
      <4> QED BY <2>6, <2>7, <3>1, <4>1
    <3> QED BY <1>3, <3>1, <3>2, <3>3, SeqEqual
  <2> QED BY <1>7, <2>8 DEF L, long, u, t
<1> QED BY <1>6, <1>7 DEF L, long, u, t

\* The bits that are no stuffing, and the transmission without them.
Kept5(out) == { i \in DOMAIN out : out[i] = 1 \/ ~Ones(out, i - 5, 5) }
Unstuffed(out) == Selected(out, Kept5(out))

LEMMA OnesAppend ==
  ASSUME NEW out \in Seq(BitValue), NEW e \in BitValue, NEW i \in Int, i <= Len(out) - 4
  PROVE  Ones(Append(out, e), i, 5) <=> Ones(out, i, 5)
<1>1. /\ Len(out) \in Nat /\ Len(Append(out, e)) = Len(out) + 1
      /\ \A k \in 1 .. Len(out) : Append(out, e)[k] = out[k]
  BY AppendFacts
<1>2. PICK long : long = Append(out, e)
  OBVIOUS
<1>3. CASE i < 1
  BY <1>1, <1>3 DEF Ones
<1>4. CASE ~(i < 1)
  <2>1. i \in 1 .. Len(out) - 5 + 1 /\ i \in 1 .. Len(long) - 5 + 1
    BY <1>1, <1>2, <1>4
  <2>2. \A k \in i .. i + 5 - 1 : long[k] = out[k]
    BY <1>1, <1>2, <2>1
  <2> QED BY <1>2, <2>1, <2>2 DEF Ones
<1> QED BY <1>3, <1>4

LEMMA KeptAppend ==
  ASSUME NEW out \in Seq(BitValue), NEW e \in BitValue
  PROVE  /\ \A i \in 1 .. Len(out) : i \in Kept5(out) <=> i \in Kept5(Append(out, e))
         /\ Len(out) + 1 \in Kept5(Append(out, e)) <=> (e = 1 \/ ~Ones(out, Len(out) - 4, 5))
<1>1. PICK long : long = Append(out, e)
  OBVIOUS
<1>2. /\ Len(out) \in Nat /\ DOMAIN out = 1 .. Len(out) /\ DOMAIN long = 1 .. Len(out) + 1
      /\ \A k \in 1 .. Len(out) : long[k] = out[k]
      /\ long[Len(out) + 1] = e
  BY <1>1, AppendFacts
<1>3. ASSUME NEW i \in 1 .. Len(out) PROVE i \in Kept5(out) <=> i \in Kept5(long)
  <2>1. i - 5 \in Int /\ i - 5 <= Len(out) - 4
    BY <1>2
  <2>2. Ones(long, i - 5, 5) <=> Ones(out, i - 5, 5)
    BY <1>1, <2>1, OnesAppend
  <2>3. i \in DOMAIN out /\ i \in DOMAIN long
    BY <1>2
  <2> QED BY <1>2, <2>2, <2>3 DEF Kept5
<1>4. Len(out) + 1 \in Kept5(long) <=> (e = 1 \/ ~Ones(out, Len(out) - 4, 5))
  <2>1. PICK i : i = Len(out) + 1
    OBVIOUS
  <2>2. i - 5 = Len(out) - 4 /\ Len(out) - 4 \in Int /\ Len(out) - 4 <= Len(out) - 4 /\ i \in DOMAIN long
    BY <1>2, <2>1
  <2>3. Ones(long, Len(out) - 4, 5) <=> Ones(out, Len(out) - 4, 5)
    BY <1>1, <2>2, OnesAppend
  <2>4. long[i] = e
    BY <1>2, <2>1
  <2>5. i \in Kept5(long) <=> (long[i] = 1 \/ ~Ones(long, i - 5, 5))
    BY <2>2 DEF Kept5
  <2> QED BY <2>1, <2>2, <2>3, <2>4, <2>5
<1> QED BY <1>1, <1>3, <1>4

LEMMA UnstuffedAppend ==
  ASSUME NEW out \in Seq(BitValue), NEW e \in BitValue
  PROVE  Unstuffed(Append(out, e)) = IF e = 1 \/ ~Ones(out, Len(out) - 4, 5)
                                     THEN Append(Unstuffed(out), e) ELSE Unstuffed(out)
<1>1. PICK long : long = Append(out, e)
  OBVIOUS
<1>2. PICK keep, more : keep = Kept5(out) /\ more = Kept5(long)
  OBVIOUS
<1>3. \A i \in 1 .. Len(out) : i \in keep <=> i \in more
  BY <1>1, <1>2, KeptAppend
<1>4. /\ Len(out) + 1 \in more => Selected(long, more) = Append(Selected(out, keep), e)
      /\ Len(out) + 1 \notin more => Selected(long, more) = Selected(out, keep)
  BY <1>1, <1>3, SelectedAppend
<1>5. Len(out) + 1 \in more <=> (e = 1 \/ ~Ones(out, Len(out) - 4, 5))
  BY <1>1, <1>2, KeptAppend
<1>6. CASE e = 1 \/ ~Ones(out, Len(out) - 4, 5)
  BY <1>1, <1>2, <1>4, <1>5, <1>6 DEF Unstuffed
<1>7. CASE ~(e = 1 \/ ~Ones(out, Len(out) - 4, 5))
  BY <1>1, <1>2, <1>4, <1>5, <1>7 DEF Unstuffed
<1> QED BY <1>6, <1>7

\* What has been transmitted of the bits src, with ones at its end: fewer than
\* five, and behind every five a zero.
Transmitted(out, ones, src) ==
  /\ out \in Seq(BitValue) /\ ones \in 0 .. 4 /\ ones <= Len(out)
  /\ \A i \in Len(out) - ones + 1 .. Len(out) : out[i] = 1
  /\ ones < Len(out) => out[Len(out) - ones] = 0
  /\ \A i \in 1 .. Len(out) - 4 : Ones(out, i, 5) => i + 5 <= Len(out) /\ out[i + 5] = 0
  /\ Unstuffed(out) = src

LEMMA TransmittedNothing == Transmitted(<< >>, 0, << >>)
<1>1. << >> \in Seq(BitValue) /\ Len(<< >>) = 0 /\ DOMAIN << >> = {}
  OBVIOUS
<1>2. Unstuffed(<< >>) = << >>
  <2>1. Positions(<< >>, Kept5(<< >>)) = {}
    BY <1>1 DEF Positions
  <2>2. /\ Selected(<< >>, Kept5(<< >>)) \in Seq(BitValue)
        /\ Len(Selected(<< >>, Kept5(<< >>))) = Cardinality(Positions(<< >>, Kept5(<< >>)))
    BY <1>1, SelectedFacts
  <2>3. Len(Selected(<< >>, Kept5(<< >>))) = 0
    BY <2>1, <2>2, FS_EmptySet
  <2> QED BY <2>2, <2>3, EmptySeq DEF Unstuffed
<1> QED BY <1>1, <1>2 DEF Transmitted

\* A bit that is sent without stuffing.
LEMMA TransmittedBit ==
  ASSUME NEW out, NEW ones, NEW src, Transmitted(out, ones, src),
         NEW bit \in BitValue, bit = 0 \/ ones < 4
  PROVE  Transmitted(Append(out, bit), IF bit = 0 THEN 0 ELSE ones + 1, Append(src, bit))
<1>1. PICK long : long = Append(out, bit)
  OBVIOUS
<1>2. PICK run : run = IF bit = 0 THEN 0 ELSE ones + 1
  OBVIOUS
<1>3. out \in Seq(BitValue) /\ ones \in 0 .. 4 /\ ones <= Len(out)
  BY DEF Transmitted
<1>4. /\ long \in Seq(BitValue) /\ Len(out) \in Nat /\ Len(long) = Len(out) + 1
      /\ \A i \in 1 .. Len(out) : long[i] = out[i]
      /\ long[Len(out) + 1] = bit
  BY <1>1, <1>3, AppendFacts
<1>5. bit = 0 \/ bit = 1
  BY DEF BitValue
<1>6. run \in 0 .. 4 /\ run <= Len(long)
  BY <1>2, <1>3, <1>4
<1>7. \A i \in Len(long) - run + 1 .. Len(long) : long[i] = 1
  <2> SUFFICES ASSUME NEW i \in Len(long) - run + 1 .. Len(long) PROVE long[i] = 1
    OBVIOUS
  <2>1. CASE bit = 0
    <3>1. run = 0
      BY <1>2, <2>1
    <3> QED BY <1>4, <3>1
  <2>2. CASE bit = 1
    <3>1. run = ones + 1
      BY <1>2, <2>2
    <3>2. i = Len(out) + 1 \/ i \in Len(out) - ones + 1 .. Len(out)
      BY <1>3, <1>4, <3>1
    <3>3. i \in Len(out) - ones + 1 .. Len(out) => out[i] = 1 /\ i \in 1 .. Len(out)
      BY <1>3, <1>4 DEF Transmitted
    <3> QED BY <1>4, <2>2, <3>2, <3>3
  <2> QED BY <1>5, <2>1, <2>2
<1>8. run < Len(long) => long[Len(long) - run] = 0
  <2> SUFFICES ASSUME run < Len(long) PROVE long[Len(long) - run] = 0
    OBVIOUS
  <2>1. CASE bit = 0
    <3>1. run = 0 /\ Len(long) - run = Len(out) + 1
      BY <1>2, <1>4, <2>1
    <3> QED BY <1>4, <2>1, <3>1
  <2>2. CASE bit = 1
    <3>1. run = ones + 1 /\ Len(long) - run = Len(out) - ones
      BY <1>2, <1>3, <1>4, <2>2
    <3>2. ones < Len(out) /\ Len(out) - ones \in 1 .. Len(out)
      BY <1>3, <1>4, <3>1
    <3>3. out[Len(out) - ones] = 0
      BY <3>2 DEF Transmitted
    <3> QED BY <1>4, <3>1, <3>2, <3>3
  <2> QED BY <1>5, <2>1, <2>2
<1>9. ~Ones(out, Len(out) - 4, 5)
  <2>1. Ones(out, Len(out) - 4, 5) => Len(out) - 4 \in 1 .. Len(out) - 4
    BY <1>4 DEF Ones
  <2>2. ~(Len(out) - 4 + 5 <= Len(out))
    BY <1>4
  <2>3. ASSUME NEW i \in 1 .. Len(out) - 4, Ones(out, i, 5) PROVE i + 5 <= Len(out)
    BY <2>3 DEF Transmitted
  <2> QED BY <2>1, <2>2, <2>3
<1>10. Unstuffed(long) = Append(src, bit)
  <2>1. Unstuffed(long) = Append(Unstuffed(out), bit)
    BY <1>1, <1>3, <1>9, UnstuffedAppend
  <2>2. Unstuffed(out) = src
    BY DEF Transmitted
  <2> QED BY <2>1, <2>2
<1>11. \A i \in 1 .. Len(long) - 4 : Ones(long, i, 5) => i + 5 <= Len(long) /\ long[i + 5] = 0
  <2> SUFFICES ASSUME NEW i \in 1 .. Len(long) - 4, Ones(long, i, 5) PROVE i + 5 <= Len(long) /\ long[i + 5] = 0
    OBVIOUS
  <2>1. CASE i <= Len(out) - 4
    <3>1. Ones(out, i, 5)
      BY <1>1, <1>3, <2>1, OnesAppend
    <3>2. i \in 1 .. Len(out) - 4
      BY <1>4, <2>1
    <3>3. i + 5 <= Len(out) /\ out[i + 5] = 0
      BY <3>1, <3>2 DEF Transmitted
    <3>4. i + 5 \in 1 .. Len(out)
      BY <1>4, <3>3
    <3> QED BY <1>4, <3>3, <3>4, SMTT(40)
  <2>2. CASE ~(i <= Len(out) - 4)
    <3>1. i = Len(out) - 3
      BY <1>4, <2>2
    <3>2. \A k \in i .. i + 5 - 1 : long[k] = 1
      BY DEF Ones
    <3>3. Len(out) + 1 \in i .. i + 5 - 1
      BY <1>4, <3>1
    <3>4. bit = 1 /\ ones < 4
      BY <1>4, <3>2, <3>3
    <3>5. Len(out) - ones \in i .. i + 5 - 1 /\ Len(out) - ones \in 1 .. Len(out) /\ ones < Len(out)
      BY <1>3, <1>4, <3>1, <3>4
    <3>6. out[Len(out) - ones] = 0
      BY <3>5 DEF Transmitted
    <3> QED BY <1>4, <3>2, <3>5, <3>6
  <2> QED BY <2>1, <2>2
<1>12. Transmitted(long, run, Append(src, bit))
  BY <1>4, <1>6, <1>7, <1>8, <1>10, <1>11 DEF Transmitted
<1> QED BY <1>1, <1>2, <1>12

\* A fifth one, with the zero behind it.
LEMMA TransmittedFifth ==
  ASSUME NEW out, NEW src, Transmitted(out, 4, src)
  PROVE  Transmitted(Append(Append(out, 1), 0), 0, Append(src, 1))
<1>1. PICK mid : mid = Append(out, 1)
  OBVIOUS
<1>2. PICK long : long = Append(mid, 0)
  OBVIOUS
<1>3. out \in Seq(BitValue) /\ 4 <= Len(out) /\ 1 \in BitValue /\ 0 \in BitValue
  BY DEF Transmitted, BitValue
<1>4. /\ mid \in Seq(BitValue) /\ Len(out) \in Nat /\ Len(mid) = Len(out) + 1
      /\ \A i \in 1 .. Len(out) : mid[i] = out[i]
      /\ mid[Len(out) + 1] = 1
  BY <1>1, <1>3, AppendFacts
<1>5. /\ long \in Seq(BitValue) /\ Len(long) = Len(out) + 2
      /\ \A i \in 1 .. Len(out) + 1 : long[i] = mid[i]
      /\ long[Len(out) + 2] = 0
  <2>1. /\ long \in Seq(BitValue) /\ Len(long) = Len(mid) + 1
        /\ \A i \in 1 .. Len(mid) : long[i] = mid[i]
        /\ long[Len(mid) + 1] = 0
    BY <1>2, <1>3, <1>4, AppendFacts
  <2>2. Len(mid) + 1 = Len(out) + 2
    BY <1>4
  <2> QED BY <1>4, <2>1, <2>2
<1>6. Unstuffed(mid) = Append(src, 1)
  <2>1. Unstuffed(mid) = Append(Unstuffed(out), 1)
    BY <1>1, <1>3, UnstuffedAppend
  <2>2. Unstuffed(out) = src
    BY DEF Transmitted
  <2> QED BY <2>1, <2>2
<1>7. Ones(mid, Len(mid) - 4, 5)
  <2>1. PICK i : i = Len(mid) - 4
    OBVIOUS
  <2>2. i \in 1 .. Len(mid) - 5 + 1 /\ i + 5 - 1 = Len(out) + 1 /\ i = Len(out) - 3
    BY <1>3, <1>4, <2>1
  <2>3. \A k \in Len(out) - 4 + 1 .. Len(out) : out[k] = 1
    BY DEF Transmitted
  <2>4. \A k \in i .. i + 5 - 1 : mid[k] = 1
    <3> SUFFICES ASSUME NEW k \in i .. Len(out) + 1 PROVE mid[k] = 1
      BY <2>2
    <3>1. k = Len(out) + 1 \/ (k \in Len(out) - 4 + 1 .. Len(out) /\ k \in 1 .. Len(out))
      BY <1>3, <1>4, <2>2
    <3> QED BY <1>4, <2>3, <3>1
  <2>5. Ones(mid, i, 5)
    BY <2>2, <2>4 DEF Ones
  <2> QED BY <2>1, <2>5
<1>8. Unstuffed(long) = Append(src, 1)
  <2>1. ~(0 = 1)
    OBVIOUS
  <2>2. Unstuffed(long) = Unstuffed(mid)
    BY <1>2, <1>3, <1>4, <1>7, <2>1, UnstuffedAppend
  <2> QED BY <1>6, <2>2
<1>9. \A i \in 1 .. Len(long) - 4 : Ones(long, i, 5) => i + 5 <= Len(long) /\ long[i + 5] = 0
  <2> SUFFICES ASSUME NEW i \in 1 .. Len(long) - 4, Ones(long, i, 5) PROVE i + 5 <= Len(long) /\ long[i + 5] = 0
    OBVIOUS
  <2>1. \A k \in i .. i + 5 - 1 : long[k] = 1
    BY DEF Ones
  <2>2. i # Len(out) - 2
    <3>1. i = Len(out) - 2 => Len(out) + 2 \in i .. i + 5 - 1
      BY <1>4
    <3> QED BY <1>5, <2>1, <3>1
  <2>3. CASE i = Len(out) - 3
    <3>1. i + 5 = Len(out) + 2
      BY <1>4, <2>3
    <3> QED BY <1>4, <1>5, <3>1
  <2>4. CASE i \in 1 .. Len(out) - 4
    <3>1. i \in Int /\ i <= Len(mid) - 4 /\ i <= Len(out) - 4
      BY <1>4, <2>4
    <3>2. Ones(mid, i, 5)
      BY <1>2, <1>3, <1>4, <3>1, OnesAppend
    <3>3. Ones(out, i, 5)
      BY <1>1, <1>3, <3>1, <3>2, OnesAppend
    <3>4. i + 5 <= Len(out) /\ out[i + 5] = 0
      BY <2>4, <3>3 DEF Transmitted
    <3>5. i + 5 \in 1 .. Len(out) /\ i + 5 \in 1 .. Len(out) + 1
      BY <1>4, <2>4, <3>4
    <3> QED BY <1>4, <1>5, <3>4, <3>5
  <2>5. i = Len(out) - 2 \/ i = Len(out) - 3 \/ i \in 1 .. Len(out) - 4
    BY <1>4, <1>5
  <2> QED BY <2>2, <2>3, <2>4, <2>5
<1>10. Transmitted(long, 0, Append(src, 1))
  <2>1. Len(long) - 0 = Len(out) + 2 /\ 0 <= Len(long) /\ Len(long) - 0 + 1 .. Len(long) = {}
    BY <1>4, <1>5
  <2> QED BY <1>5, <1>8, <1>9, <2>1 DEF Transmitted
<1> QED BY <1>1, <1>2, <1>10

Stuffing == [out : Seq(BitValue), ones : 0 .. 4]

LEMMA StuffedBitType ==
  ASSUME NEW s \in Stuffing, NEW bit \in BitValue
  PROVE  StuffedBit(s, bit) \in Stuffing
<1>1. s.out \in Seq(BitValue) /\ s.ones \in 0 .. 4 /\ 0 \in BitValue /\ 1 \in BitValue
  BY DEF Stuffing, BitValue
<1>2. /\ Append(s.out, 0) \in Seq(BitValue) /\ Append(s.out, 1) \in Seq(BitValue)
      /\ Append(Append(s.out, 1), 0) \in Seq(BitValue)
  BY <1>1, AppendFacts
<1>3. s.ones # 4 => s.ones + 1 \in 0 .. 4
  BY <1>1
<1> QED BY <1>2, <1>3 DEF StuffedBit, Stuffing

LEMMA StuffedOctetRecursion ==
  ASSUME NEW ones \in 0 .. 4, NEW octet \in Octet
  PROVE  \E s : /\ s[0] = [out |-> << >>, ones |-> ones]
                /\ \A i \in 0 .. 8 : s[i] \in Stuffing
                /\ \A i \in 1 .. 8 : s[i] = StuffedBit(s[i - 1], Bit(octet, i - 1))
                /\ StuffedOctet(ones, octet) = s[8]
<1> DEFINE none == [out |-> << >>, ones |-> ones]
           b(i) == Bit(octet, i - 1)
           body(f) == [i \in 0 .. 8 |-> IF i = 0 THEN none ELSE StuffedBit(f[i - 1], b(i))]
           step == [i \in 1 .. 8 |-> [x \in Stuffing |-> StuffedBit(x, b(i))]]
           s == CHOOSE f : f = body(f)
<1>1. \A i \in 1 .. 8 : b(i) \in BitValue
  <2> SUFFICES ASSUME NEW i \in 1 .. 8 PROVE b(i) \in BitValue
    OBVIOUS
  <2>1. i - 1 \in Nat
    OBVIOUS
  <2> QED BY <2>1, BitType
<1>2. none \in Stuffing
  BY DEF Stuffing
<1>3. StuffedOctet(ones, octet) = s[8]
  BY DEF StuffedOctet
<1> HIDE DEF none, b
<1>4. step \in Steps(1 .. 8, Stuffing)
  <2>1. ASSUME NEW i \in 1 .. 8, NEW x \in Stuffing PROVE StuffedBit(x, b(i)) \in Stuffing
    BY <1>1, StuffedBitType
  <2> QED BY <2>1 DEF Steps
<1>5. PICK g : FollowsTo(8, g, Stuffing, none, step)
  <2>1. 8 \in Nat
    OBVIOUS
  <2> HIDE DEF step
  <2> QED BY <1>2, <1>4, <2>1, BoundedRecursion
<1>6. g \in [0 .. 8 -> Stuffing] /\ g[0] = none /\ \A i \in 1 .. 8 : g[i] = step[i][g[i - 1]]
  <2> HIDE DEF step
  <2> QED BY <1>5 DEF FollowsTo
<1>7. g = body(g)
  <2>1. ASSUME NEW i \in 0 .. 8 PROVE g[i] = IF i = 0 THEN none ELSE StuffedBit(g[i - 1], b(i))
    <3>1. CASE i # 0
      <4>1. g[i - 1] \in Stuffing /\ i \in 1 .. 8
        <5>1. i \in 1 .. 8 /\ i - 1 \in 0 .. 8
          BY <3>1
        <5> HIDE DEF step
        <5> QED BY <1>6, <5>1
      <4>2. step[i][g[i - 1]] = StuffedBit(g[i - 1], b(i))
        BY <4>1
      <4> QED BY <1>6, <3>1, <4>1, <4>2
    <3> QED BY <1>6, <3>1
  <2> HIDE DEF step
  <2> QED BY <1>6, <2>1
<1>8. s = body(s)
  <2> HIDE DEF body
  <2> QED BY <1>7
<1>9. \A i \in 0 .. 8 : s[i] = IF i = 0 THEN none ELSE StuffedBit(s[i - 1], b(i))
  <2> HIDE DEF s
  <2> QED BY <1>8
<1> HIDE DEF s, body, step
<1> DEFINE P == { i \in 0 .. 8 : s[i] \in Stuffing }
<1>10. 0 \in P
  BY <1>2, <1>9
<1>11. ASSUME NEW i \in 1 .. 8, i - 1 \in P PROVE i \in P
  <2>1. s[i] = StuffedBit(s[i - 1], b(i)) /\ s[i - 1] \in Stuffing
    BY <1>9, <1>11
  <2>2. s[i] \in Stuffing
    BY <1>1, <2>1, StuffedBitType
  <2> QED BY <2>2
<1>12. \A i \in 0 .. 8 : i \in P
  <2>1. 8 \in Nat
    OBVIOUS
  <2> HIDE DEF P
  <2> QED BY <1>10, <1>11, <2>1, BoundedInduction
<1>13. \A i \in 1 .. 8 : s[i] = StuffedBit(s[i - 1], b(i))
  BY <1>9
<1>14. s[0] = none
  BY <1>9
<1> QED BY <1>3, <1>12, <1>13, <1>14 DEF none, b

LEMMA ConcatAppend ==
  ASSUME NEW V, NEW s \in Seq(V), NEW t \in Seq(V), NEW e \in V
  PROVE  s \o Append(t, e) = Append(s \o t, e)
OBVIOUS

LEMMA TransmittedStep ==
  ASSUME NEW out \in Seq(BitValue), NEW s \in Stuffing, NEW src, NEW bit \in BitValue,
         Transmitted(out \o s.out, s.ones, src)
  PROVE  Transmitted(out \o StuffedBit(s, bit).out, StuffedBit(s, bit).ones, Append(src, bit))
<1>1. s.out \in Seq(BitValue) /\ s.ones \in 0 .. 4 /\ 0 \in BitValue /\ 1 \in BitValue
  BY DEF Stuffing, BitValue
<1>2. PICK all : all = out \o s.out
  OBVIOUS
<1>3. PICK t : t = StuffedBit(s, bit)
  OBVIOUS
<1>4. bit = 0 \/ bit = 1
  BY DEF BitValue
<1>5. CASE bit = 0
  <2>1. t.out = Append(s.out, 0) /\ t.ones = 0
    BY <1>3, <1>5 DEF StuffedBit
  <2>2. out \o t.out = Append(all, 0)
    <3>1. out \o Append(s.out, 0) = Append(out \o s.out, 0)
      BY <1>1, ConcatAppend
    <3> QED BY <1>2, <2>1, <3>1
  <2>3. Transmitted(Append(all, bit), IF bit = 0 THEN 0 ELSE s.ones + 1, Append(src, bit))
    BY <1>2, <1>5, TransmittedBit
  <2> QED BY <1>3, <1>5, <2>1, <2>2, <2>3
<1>6. CASE bit = 1 /\ s.ones # 4
  <2>1. t.out = Append(s.out, 1) /\ t.ones = s.ones + 1 /\ s.ones < 4
    BY <1>1, <1>3, <1>6 DEF StuffedBit
  <2>2. out \o t.out = Append(all, 1)
    BY <1>1, <1>2, <2>1, ConcatAppend, SMTT(40)
  <2>3. Transmitted(Append(all, bit), IF bit = 0 THEN 0 ELSE s.ones + 1, Append(src, bit))
    BY <1>2, <2>1, TransmittedBit
  <2>4. (IF bit = 0 THEN 0 ELSE s.ones + 1) = t.ones /\ Append(all, bit) = out \o t.out
    <3>1. (IF bit = 0 THEN 0 ELSE s.ones + 1) = s.ones + 1
      BY <1>6
    <3> QED BY <1>6, <2>1, <2>2, <3>1
  <2> QED BY <1>3, <2>3, <2>4
<1>7. CASE bit = 1 /\ s.ones = 4
  <2>1. t.out = Append(Append(s.out, 1), 0) /\ t.ones = 0
    BY <1>3, <1>7 DEF StuffedBit
  <2>2. out \o t.out = Append(Append(all, 1), 0)
    <3>1. Append(s.out, 1) \in Seq(BitValue)
      BY <1>1
    <3>2. out \o t.out = Append(out \o Append(s.out, 1), 0)
      <4>1. PICK x : x = Append(s.out, 1)
        OBVIOUS
      <4>2. x \in Seq(BitValue) /\ 0 \in BitValue
        BY <1>1, <3>1, <4>1
      <4>3. out \o Append(x, 0) = Append(out \o x, 0)
        BY <4>2, ConcatAppend
      <4> QED BY <2>1, <4>1, <4>3
    <3>3. out \o Append(s.out, 1) = Append(all, 1)
      BY <1>1, <1>2, ConcatAppend, SMTT(40)
    <3> QED BY <3>2, <3>3
  <2>3. Transmitted(Append(Append(all, 1), 0), 0, Append(src, 1))
    BY <1>2, <1>7, TransmittedFifth
  <2> QED BY <1>3, <1>7, <2>1, <2>2, <2>3
<1> QED BY <1>4, <1>5, <1>6, <1>7

LEMMA TransmittedOctet ==
  ASSUME NEW out, NEW ones, NEW octet \in Octet, NEW src,
         Transmitted(out, ones, src[0]),
         \A i \in 1 .. 8 : src[i] = Append(src[i - 1], Bit(octet, i - 1))
  PROVE  /\ StuffedOctet(ones, octet) \in Stuffing
         /\ Transmitted(out \o StuffedOctet(ones, octet).out, StuffedOctet(ones, octet).ones, src[8])
<1>1. out \in Seq(BitValue) /\ ones \in 0 .. 4
  BY DEF Transmitted
<1>2. PICK s : /\ s[0] = [out |-> << >>, ones |-> ones]
               /\ \A i \in 0 .. 8 : s[i] \in Stuffing
               /\ \A i \in 1 .. 8 : s[i] = StuffedBit(s[i - 1], Bit(octet, i - 1))
               /\ StuffedOctet(ones, octet) = s[8]
  BY <1>1, StuffedOctetRecursion
<1> DEFINE P == { i \in 0 .. 8 : Transmitted(out \o s[i].out, s[i].ones, src[i]) }
<1>3. 0 \in P
  <2>1. s[0].out = << >> /\ s[0].ones = ones
    BY <1>2
  <2>2. out \o << >> = out
    BY <1>1
  <2>3. Transmitted(out \o s[0].out, s[0].ones, src[0])
    BY <2>1, <2>2
  <2> QED BY <2>3
<1>4. ASSUME NEW i \in 1 .. 8, i - 1 \in P PROVE i \in P
  <2>1. s[i - 1] \in Stuffing /\ s[i] = StuffedBit(s[i - 1], Bit(octet, i - 1)) /\ src[i] = Append(src[i - 1], Bit(octet, i - 1))
    <3>1. i - 1 \in 0 .. 8
      OBVIOUS
    <3> QED BY <1>2, <3>1
  <2>2. Bit(octet, i - 1) \in BitValue
    <3>1. i - 1 \in Nat
      OBVIOUS
    <3> QED BY <3>1, BitType
  <2>3. Transmitted(out \o s[i - 1].out, s[i - 1].ones, src[i - 1])
    BY <1>4
  <2>4. Transmitted(out \o s[i].out, s[i].ones, src[i])
    BY <1>1, <2>1, <2>2, <2>3, TransmittedStep
  <2> QED BY <2>4
<1>5. \A i \in 0 .. 8 : i \in P
  <2>1. 8 \in Nat
    OBVIOUS
  <2> HIDE DEF P
  <2> QED BY <1>3, <1>4, <2>1, BoundedInduction
<1>6. 8 \in 0 .. 8
  OBVIOUS
<1> QED BY <1>2, <1>5, <1>6

\* The first m bits of the octets.
Source(octets, m) == [ j \in 1 .. m |-> Bit(octets[(j - 1) \div 8 + 1], (j - 1) % 8) ]

LEMMA ModDiv ==
  ASSUME NEW k \in Int, NEW i \in 0 .. 7
  PROVE  (8 * k + i) \div 8 = k /\ (8 * k + i) % 8 = i
OBVIOUS

LEMMA SourceType ==
  ASSUME NEW octets \in Seq(Octet), NEW m \in 0 .. 8 * Len(octets)
  PROVE  /\ Source(octets, m) \in Seq(BitValue) /\ Len(Source(octets, m)) = m
         /\ \A j \in 1 .. m : Source(octets, m)[j] = Bit(octets[(j - 1) \div 8 + 1], (j - 1) % 8)
<1>1. ASSUME NEW j \in 1 .. m PROVE Bit(octets[(j - 1) \div 8 + 1], (j - 1) % 8) \in BitValue
  <2>1. PICK x : x = j - 1
    OBVIOUS
  <2>2. Len(octets) \in Nat /\ x \in Nat /\ x < 8 * Len(octets)
    BY <2>1
  <2>3. x \div 8 + 1 \in 1 .. Len(octets) /\ x % 8 \in Nat
    BY <2>2
  <2>4. octets[x \div 8 + 1] \in Octet
    BY <2>3, ElementOfSeq
  <2>5. Bit(octets[x \div 8 + 1], x % 8) \in BitValue
    BY <2>3, <2>4, BitType
  <2> QED BY <2>1, <2>5
<1>2. m \in Nat
  OBVIOUS
<1>3. Source(octets, m) \in [1 .. m -> BitValue]
  BY <1>1 DEF Source
<1>4. \A j \in 1 .. m : Source(octets, m)[j] = Bit(octets[(j - 1) \div 8 + 1], (j - 1) % 8)
  BY DEF Source
<1> QED BY <1>2, <1>3, <1>4

LEMMA SourceAppend ==
  ASSUME NEW octets \in Seq(Octet), NEW k \in 1 .. Len(octets), NEW i \in 1 .. 8
  PROVE  Source(octets, 8 * (k - 1) + i) = Append(Source(octets, 8 * (k - 1) + i - 1), Bit(octets[k], i - 1))
<1>1. PICK m : m = 8 * (k - 1) + i - 1
  OBVIOUS
<1>2. m + 1 = 8 * (k - 1) + i /\ m \in 0 .. 8 * Len(octets) /\ m + 1 \in 0 .. 8 * Len(octets)
  BY <1>1
<1>3. m \div 8 + 1 = k /\ m % 8 = i - 1
  <2>1. k - 1 \in Int /\ i - 1 \in 0 .. 7 /\ m = 8 * (k - 1) + (i - 1)
    BY <1>1
  <2>2. m \div 8 = k - 1 /\ m % 8 = i - 1
    BY <2>1, ModDiv
  <2> QED BY <2>2
<1>4. PICK s, t, e : s = Source(octets, m) /\ t = Source(octets, m + 1) /\ e = Bit(octets[k], i - 1)
  OBVIOUS
<1>5. /\ s \in Seq(BitValue) /\ Len(s) = m
      /\ \A j \in 1 .. m : s[j] = Bit(octets[(j - 1) \div 8 + 1], (j - 1) % 8)
  BY <1>2, <1>4, SourceType
<1>6. /\ t \in Seq(BitValue) /\ Len(t) = m + 1
      /\ \A j \in 1 .. m + 1 : t[j] = Bit(octets[(j - 1) \div 8 + 1], (j - 1) % 8)
  BY <1>2, <1>4, SourceType
<1>7. t[m + 1] = e
  <2>1. m + 1 \in 1 .. m + 1 /\ m + 1 - 1 = m
    BY <1>2
  <2>2. t[m + 1] = Bit(octets[m \div 8 + 1], m % 8)
    <3>1. PICK j : j = m + 1
      OBVIOUS
    <3>2. j \in 1 .. m + 1 /\ j - 1 = m
      BY <1>2, <3>1
    <3>3. t[j] = Bit(octets[(j - 1) \div 8 + 1], (j - 1) % 8)
      BY <1>6, <3>2
    <3> QED BY <3>1, <3>2, <3>3
  <2> QED BY <1>3, <1>4, <2>2
<1>8. e \in BitValue
  <2>1. m + 1 \in 1 .. Len(t)
    BY <1>2, <1>6
  <2> QED BY <1>6, <1>7, <2>1, ElementOfSeq
<1>9. /\ Append(s, e) \in Seq(BitValue) /\ Len(Append(s, e)) = m + 1
      /\ \A j \in 1 .. m : Append(s, e)[j] = s[j]
      /\ Append(s, e)[m + 1] = e
  BY <1>5, <1>8, AppendFacts
<1>10. \A j \in 1 .. m + 1 : t[j] = Append(s, e)[j]
  <2> SUFFICES ASSUME NEW j \in 1 .. m + 1 PROVE t[j] = Append(s, e)[j]
    OBVIOUS
  <2>1. j \in 1 .. m \/ j = m + 1
    BY <1>2
  <2>2. j \in 1 .. m => t[j] = s[j]
    BY <1>5, <1>6
  <2> QED BY <1>7, <1>9, <2>1, <2>2
<1>11. t = Append(s, e)
  BY <1>6, <1>9, <1>10, SeqEqual
<1> QED BY <1>1, <1>2, <1>4, <1>11

Joined(before, octet) ==
  [out |-> before.out \o StuffedOctet(before.ones, octet).out,
   ones |-> StuffedOctet(before.ones, octet).ones]

LEMMA StuffedOctetType ==
  ASSUME NEW ones \in 0 .. 4, NEW octet \in Octet PROVE StuffedOctet(ones, octet) \in Stuffing
<1>1. PICK s : (\A i \in 0 .. 8 : s[i] \in Stuffing) /\ StuffedOctet(ones, octet) = s[8]
  BY StuffedOctetRecursion
<1>2. 8 \in 0 .. 8
  OBVIOUS
<1> QED BY <1>1, <1>2

LEMMA JoinedType ==
  ASSUME NEW before \in Stuffing, NEW octet \in Octet PROVE Joined(before, octet) \in Stuffing
<1>1. before.out \in Seq(BitValue) /\ before.ones \in 0 .. 4
  BY DEF Stuffing
<1>2. PICK t : t = StuffedOctet(before.ones, octet)
  OBVIOUS
<1>3. t \in Stuffing
  BY <1>1, <1>2, StuffedOctetType
<1>4. t.out \in Seq(BitValue) /\ t.ones \in 0 .. 4
  BY <1>3 DEF Stuffing
<1>5. before.out \o t.out \in Seq(BitValue)
  BY <1>1, <1>4, ConcatProperties
<1> QED BY <1>2, <1>4, <1>5 DEF Joined, Stuffing

LEMMA StuffedRecursion ==
  ASSUME NEW octets \in Seq(Octet)
  PROVE  \E s : /\ s[0] = [out |-> << >>, ones |-> 0]
                /\ \A k \in 1 .. Len(octets) : s[k] = Joined(s[k - 1], octets[k])
                /\ Stuffed(octets) = s[Len(octets)].out
<1> DEFINE N == Len(octets)
           none == [out |-> << >>, ones |-> 0]
           body(f) == [k \in 0 .. N |-> IF k = 0 THEN none ELSE Joined(f[k - 1], octets[k])]
           step == [k \in 1 .. N |-> [x \in Stuffing |-> Joined(x, octets[k])]]
           s == CHOOSE f : f = body(f)
<1>1. N \in Nat /\ \A k \in 1 .. N : octets[k] \in Octet
  OBVIOUS
<1>2. none \in Stuffing
  BY DEF Stuffing
<1>3. Stuffed(octets) = s[N].out
  BY DEF Stuffed, Joined
<1> HIDE DEF none, N
<1>4. step \in Steps(1 .. N, Stuffing)
  <2>1. ASSUME NEW k \in 1 .. N, NEW x \in Stuffing PROVE Joined(x, octets[k]) \in Stuffing
    BY <1>1, JoinedType
  <2> QED BY <2>1 DEF Steps
<1>5. PICK g : FollowsTo(N, g, Stuffing, none, step)
  <2> HIDE DEF step
  <2> QED BY <1>1, <1>2, <1>4, BoundedRecursion
<1>6. g \in [0 .. N -> Stuffing] /\ g[0] = none /\ \A k \in 1 .. N : g[k] = step[k][g[k - 1]]
  <2> HIDE DEF step
  <2> QED BY <1>5 DEF FollowsTo
<1>7. g = body(g)
  <2>1. ASSUME NEW k \in 0 .. N PROVE g[k] = IF k = 0 THEN none ELSE Joined(g[k - 1], octets[k])
    <3>1. CASE k # 0
      <4>1. g[k - 1] \in Stuffing /\ k \in 1 .. N
        <5>1. k \in 1 .. N /\ k - 1 \in 0 .. N
          BY <1>1, <3>1
        <5> HIDE DEF step
        <5> QED BY <1>6, <5>1
      <4>2. step[k][g[k - 1]] = Joined(g[k - 1], octets[k])
        BY <4>1
      <4> QED BY <1>6, <3>1, <4>1, <4>2
    <3> QED BY <1>6, <3>1
  <2> HIDE DEF step
  <2> QED BY <1>6, <2>1
<1>8. s = body(s)
  <2> HIDE DEF body
  <2> QED BY <1>7
<1>9. \A k \in 0 .. N : s[k] = IF k = 0 THEN none ELSE Joined(s[k - 1], octets[k])
  <2> HIDE DEF s
  <2> QED BY <1>8
<1> HIDE DEF s, body, step
<1>10. s[0] = none
  BY <1>1, <1>9
<1>11. \A k \in 1 .. N : s[k] = Joined(s[k - 1], octets[k])
  BY <1>1, <1>9
<1> QED BY <1>3, <1>10, <1>11 DEF none, N

LEMMA StuffedTransmitted ==
  ASSUME NEW octets \in Seq(Octet)
  PROVE  \E ones : Transmitted(Stuffed(octets), ones, Source(octets, 8 * Len(octets)))
<1> DEFINE N == Len(octets)
<1>1. N \in Nat /\ \A k \in 1 .. N : octets[k] \in Octet
  OBVIOUS
<1>2. PICK s : /\ s[0] = [out |-> << >>, ones |-> 0]
               /\ \A k \in 1 .. N : s[k] = Joined(s[k - 1], octets[k])
               /\ Stuffed(octets) = s[N].out
  BY StuffedRecursion
<1> DEFINE P == { k \in 0 .. N : Transmitted(s[k].out, s[k].ones, Source(octets, 8 * k)) }
<1>3. 0 \in P
  <2>1. s[0].out = << >> /\ s[0].ones = 0
    BY <1>2
  <2>2. Source(octets, 8 * 0) = << >>
    <3>1. 8 * 0 \in 0 .. 8 * Len(octets) /\ 8 * 0 = 0
      BY <1>1
    <3>2. Source(octets, 8 * 0) \in Seq(BitValue) /\ Len(Source(octets, 8 * 0)) = 0
      BY <3>1, SourceType
    <3> QED BY <3>2, EmptySeq
  <2>3. Transmitted(s[0].out, s[0].ones, Source(octets, 8 * 0))
    BY <2>1, <2>2, TransmittedNothing
  <2> QED BY <1>1, <2>3
<1>4. ASSUME NEW k \in 1 .. N, k - 1 \in P PROVE k \in P
  <2>1. PICK before : before = s[k - 1]
    OBVIOUS
  <2>2. Transmitted(before.out, before.ones, Source(octets, 8 * (k - 1)))
    BY <1>4, <2>1
  <2>3. PICK src : src = [ i \in 0 .. 8 |-> Source(octets, 8 * (k - 1) + i) ]
    OBVIOUS
  <2>4. src[0] = Source(octets, 8 * (k - 1)) /\ src[8] = Source(octets, 8 * k)
    <3>1. 8 * (k - 1) + 0 = 8 * (k - 1) /\ 8 * (k - 1) + 8 = 8 * k /\ 0 \in 0 .. 8 /\ 8 \in 0 .. 8
      OBVIOUS
    <3>2. src[0] = Source(octets, 8 * (k - 1) + 0) /\ src[8] = Source(octets, 8 * (k - 1) + 8)
      BY <2>3, <3>1
    <3> QED BY <3>1, <3>2
  <2>5. \A i \in 1 .. 8 : src[i] = Append(src[i - 1], Bit(octets[k], i - 1))
    <3> SUFFICES ASSUME NEW i \in 1 .. 8 PROVE src[i] = Append(src[i - 1], Bit(octets[k], i - 1))
      OBVIOUS
    <3>1. i \in 0 .. 8 /\ i - 1 \in 0 .. 8 /\ 8 * (k - 1) + (i - 1) = 8 * (k - 1) + i - 1
      OBVIOUS
    <3>2. src[i] = Source(octets, 8 * (k - 1) + i) /\ src[i - 1] = Source(octets, 8 * (k - 1) + (i - 1))
      BY <2>3, <3>1
    <3>3. k \in 1 .. Len(octets)
      OBVIOUS
    <3>4. Source(octets, 8 * (k - 1) + i) = Append(Source(octets, 8 * (k - 1) + i - 1), Bit(octets[k], i - 1))
      BY <3>3, SourceAppend
    <3> QED BY <3>1, <3>2, <3>4
  <2>6. octets[k] \in Octet
    BY <1>1
  <2>7. Transmitted(before.out \o StuffedOctet(before.ones, octets[k]).out,
                    StuffedOctet(before.ones, octets[k]).ones, src[8])
    BY <2>2, <2>4, <2>5, <2>6, TransmittedOctet
  <2>8. s[k] = Joined(before, octets[k])
    BY <1>2, <2>1
  <2>9. Transmitted(s[k].out, s[k].ones, Source(octets, 8 * k))
    BY <2>4, <2>7, <2>8 DEF Joined
  <2> HIDE DEF N
  <2> QED BY <1>1, <2>9
<1>5. \A k \in 0 .. N : k \in P
  <2> HIDE DEF P, N
  <2> QED BY <1>1, <1>3, <1>4, BoundedInduction
<1>6. N \in P
  <2> HIDE DEF P
  <2> QED BY <1>1, <1>5
<1>7. Transmitted(s[N].out, s[N].ones, Source(octets, 8 * N))
  BY <1>6
<1> QED BY <1>2, <1>7

LEMMA OctetsOfSource ==
  ASSUME NEW octets \in Seq(Octet)
  PROVE  Octets(Source(octets, 8 * Len(octets))) = octets
<1> DEFINE N == Len(octets)
<1>1. PICK src : src = Source(octets, 8 * N)
  OBVIOUS
<1>2. /\ src \in Seq(BitValue) /\ Len(src) = 8 * N
      /\ \A j \in 1 .. 8 * N : src[j] = Bit(octets[(j - 1) \div 8 + 1], (j - 1) % 8)
  <2>1. 8 * N \in 0 .. 8 * Len(octets)
    OBVIOUS
  <2> QED BY <1>1, <2>1, SourceType
<1>3. N \in Nat /\ \A k \in 1 .. N : octets[k] \in Octet
  OBVIOUS
<1> HIDE DEF N
<1>4. Len(src) \div 8 = N
  BY <1>2, <1>3
<1>5. Octets(src) \in Seq(Octet) /\ Len(Octets(src)) = N
  BY <1>2, <1>4, OctetsType
<1>6. ASSUME NEW k \in 1 .. N PROVE Octets(src)[k] = octets[k]
  <2>1. PICK a, b : a = 8 * k - 7 /\ b = 8 * k
    OBVIOUS
  <2>2. a \in Int /\ b \in Int /\ 1 <= a /\ b <= Len(src) /\ a <= b /\ b - a + 1 = 8
    BY <1>2, <1>3, <2>1
  <2>3. PICK bs : bs = SubSeq(src, a, b)
    OBVIOUS
  <2>4. bs \in Seq(BitValue) /\ Len(bs) = 8 /\ \A i \in 1 .. 8 : bs[i] = src[a + i - 1]
    BY <1>2, <2>2, <2>3, SubSeqType
  <2>5. \A i \in 1 .. 8 : bs[i] = Bit(octets[k], i - 1)
    <3> SUFFICES ASSUME NEW i \in 1 .. 8 PROVE bs[i] = Bit(octets[k], i - 1)
      OBVIOUS
    <3>1. PICK j : j = a + i - 1
      OBVIOUS
    <3>2. j \in 1 .. 8 * N /\ j - 1 = 8 * (k - 1) + (i - 1)
      BY <1>3, <2>1, <3>1
    <3>3. k - 1 \in Int /\ i - 1 \in 0 .. 7
      OBVIOUS
    <3>4. (j - 1) \div 8 = k - 1 /\ (j - 1) % 8 = i - 1
      BY <3>2, <3>3, ModDiv
    <3>5. src[j] = Bit(octets[(j - 1) \div 8 + 1], (j - 1) % 8)
      BY <1>2, <3>2
    <3>6. k - 1 + 1 = k
      OBVIOUS
    <3> QED BY <2>4, <3>1, <3>4, <3>5, <3>6
  <2>6. Number(bs) = octets[k]
    BY <1>3, <2>4, <2>5, OctetOfBits
  <2>7. Octets(src)[k] = Number(SubSeq(src, 8 * k - 7, 8 * k))
    BY <1>4 DEF Octets
  <2> QED BY <2>1, <2>3, <2>6, <2>7
<1>7. Octets(src) = octets
  <2>1. Len(octets) = N
    BY DEF N
  <2> QED BY <1>5, <1>6, <2>1, SeqEqual
<1> QED BY <1>1, <1>7 DEF N

\* A transmission is bits with fewer than six ones in a row, and the octets
\* come out of it.
LEMMA StuffedFacts ==
  ASSUME NEW octets \in Seq(Octet)
  PROVE  /\ Stuffed(octets) \in Seq(BitValue)
         /\ \A i : ~Ones(Stuffed(octets), i, 6)
         /\ Destuff(Stuffed(octets)) \in Seq(BitValue)
         /\ Len(Destuff(Stuffed(octets))) = 8 * Len(octets)
         /\ Octets(Destuff(Stuffed(octets))) = octets
         /\ octets # << >> => Stuffed(octets) # << >>
<1>1. PICK out, src : out = Stuffed(octets) /\ src = Source(octets, 8 * Len(octets))
  OBVIOUS
<1>2. PICK ones : Transmitted(out, ones, src)
  BY <1>1, StuffedTransmitted
<1>3. out \in Seq(BitValue) /\ Len(out) \in Nat /\ Unstuffed(out) = src
  BY <1>2 DEF Transmitted
<1>4. ASSUME NEW i, Ones(out, i, 6) PROVE FALSE
  <2>1. i \in 1 .. Len(out) - 6 + 1 /\ \A k \in i .. i + 6 - 1 : out[k] = 1
    BY <1>4 DEF Ones
  <2>2. i \in 1 .. Len(out) - 4 /\ i \in 1 .. Len(out) - 5 + 1
    BY <1>3, <2>1
  <2>3. \A k \in i .. i + 5 - 1 : k \in i .. i + 6 - 1
    BY <1>3, <2>1
  <2>4. Ones(out, i, 5)
    BY <2>1, <2>2, <2>3 DEF Ones
  <2>5. out[i + 5] = 0
    BY <1>2, <2>2, <2>4 DEF Transmitted
  <2>6. i + 5 \in i .. i + 6 - 1
    BY <1>3, <2>1
  <2> QED BY <2>1, <2>5, <2>6
<1>5. Destuff(out) = src
  BY <1>3, <1>4 DEF Destuff, Unstuffed, Kept5
<1>6. src \in Seq(BitValue) /\ Len(src) = 8 * Len(octets)
  <2>1. 8 * Len(octets) \in 0 .. 8 * Len(octets)
    OBVIOUS
  <2> QED BY <1>1, <2>1, SourceType
<1>7. Octets(src) = octets
  BY <1>1, OctetsOfSource
<1>8. ASSUME octets # << >> PROVE out # << >>
  <2>1. Len(octets) # 0 /\ Len(octets) \in Nat
    BY <1>8, EmptySeq
  <2>2. ASSUME out = << >> PROVE FALSE
    <3>1. Unstuffed(<< >>) = << >>
      BY TransmittedNothing DEF Transmitted
    <3>2. Len(src) = 0
      BY <1>3, <2>2, <3>1
    <3> QED BY <1>6, <2>1, <3>2, SMTT(40)
  <2> QED BY <2>2
<1> QED BY <1>1, <1>3, <1>4, <1>5, <1>6, <1>7, <1>8

-----------------------------------------------------------------------------
(* What is in the air, and what is heard of it.                            *)

Tones == {"mark", "space"}

\* Where the last opening flag begins, and the closing one.
Opening(r) == Len(r.noise) + 8 * r.flags - 7
Closing(r) == Opening(r) + 8 + Len(Stuffed(r.sent))

LEMMA RecordingType ==
  ASSUME NEW r \in Recordings
  PROVE  /\ r.sent \in Seq(Octet) /\ r.sent # << >> /\ r.noise \in Seq(BitValue) /\ r.flags \in Nat /\ r.flags > 0
         /\ r.tail \in Seq(BitValue) /\ r.wrong \in Nat /\ r.offset \in 0 .. SamplesPerSymbol - 1
         /\ "sent" \in DOMAIN r
BY RecordingsAssumption

LEMMA FlagFacts ==
  /\ Flag \in Seq(BitValue) /\ Len(Flag) = 8
  /\ Flag[1] = 0 /\ Flag[2] = 1 /\ Flag[3] = 1 /\ Flag[4] = 1
  /\ Flag[5] = 1 /\ Flag[6] = 1 /\ Flag[7] = 1 /\ Flag[8] = 0
  /\ \A k \in 2 .. 7 : Flag[k] = 1
BY DEF Flag, BitValue

LEMMA ConcatFacts ==
  ASSUME NEW V, NEW s \in Seq(V), NEW t \in Seq(V)
  PROVE  /\ s \o t \in Seq(V) /\ Len(s) \in Nat /\ Len(t) \in Nat /\ Len(s \o t) = Len(s) + Len(t)
         /\ \A i \in 1 .. Len(s) : (s \o t)[i] = s[i]
         /\ \A i \in 1 .. Len(t) : (s \o t)[Len(s) + i] = t[i]
<1>1. s \o t \in Seq(V) /\ Len(s) \in Nat /\ Len(t) \in Nat /\ Len(s \o t) = Len(s) + Len(t)
  OBVIOUS
<1>2. \A i \in 1 .. Len(s) : (s \o t)[i] = s[i]
  BY SMTT(40)
<1>3. ASSUME NEW i \in 1 .. Len(t) PROVE (s \o t)[Len(s) + i] = t[i]
  <2>1. PICK j : j = Len(s) + i
    OBVIOUS
  <2>2. j \in 1 .. Len(s) + Len(t) /\ ~(j <= Len(s)) /\ j - Len(s) = i
    BY <1>1, <2>1
  <2>3. (s \o t)[j] = t[j - Len(s)]
    BY <1>1, <2>2
  <2> QED BY <2>1, <2>2, <2>3
<1> QED BY <1>1, <1>2, <1>3

LEMMA AirFacts ==
  ASSUME NEW r \in Recordings
  PROVE  LET air == Air(r)
             a == Opening(r)
             c == Closing(r)
             stuffed == Stuffed(r.sent)
         IN /\ air \in Seq(BitValue) /\ stuffed \in Seq(BitValue)
            /\ a \in Int /\ c \in Int /\ a >= 1 /\ c = a + 8 + Len(stuffed)
            /\ Len(stuffed) \in Nat /\ Len(stuffed) > 0
            /\ Len(air) = c + 7 + Len(r.tail)
            /\ \A i \in 1 .. Len(r.noise) : air[i] = r.noise[i]
            /\ \A k \in 1 .. 8 : air[a + k - 1] = Flag[k]
            /\ \A j \in 1 .. Len(stuffed) : air[a + 7 + j] = stuffed[j]
            /\ \A k \in 1 .. 8 : air[c + k - 1] = Flag[k]
            /\ r.flags > 1 => air[a - 1] = 0
<1> DEFINE p == [ i \in 1 .. 8 * r.flags |-> Flag[((i - 1) % 8) + 1] ]
           b == Stuffed(r.sent)
           n == r.noise
           t == r.tail
<1>0. r.flags \in Nat /\ r.flags > 0 /\ r.sent \in Seq(Octet) /\ r.sent # << >>
  BY RecordingType
<1>1. n \in Seq(BitValue) /\ t \in Seq(BitValue) /\ Len(n) \in Nat /\ Len(t) \in Nat
  BY RecordingType
<1>2. b \in Seq(BitValue) /\ Len(b) \in Nat /\ Len(b) > 0
  <2>1. b \in Seq(BitValue) /\ b # << >>
    BY <1>0, StuffedFacts
  <2> HIDE DEF b
  <2> QED BY <2>1, EmptySeq
<1>3. p \in Seq(BitValue) /\ Len(p) = 8 * r.flags /\ \A i \in 1 .. 8 * r.flags : p[i] = Flag[((i - 1) % 8) + 1]
  <2>1. ASSUME NEW i \in 1 .. 8 * r.flags PROVE Flag[((i - 1) % 8) + 1] \in BitValue
    <3>1. ((i - 1) % 8) + 1 \in 1 .. Len(Flag)
      BY FlagFacts
    <3> QED BY <3>1, FlagFacts, ElementOfSeq
  <2>2. 8 * r.flags \in Nat
    BY <1>0
  <2>3. p \in [1 .. 8 * r.flags -> BitValue]
    BY <2>1
  <2>4. \A i \in 1 .. 8 * r.flags : p[i] = Flag[((i - 1) % 8) + 1]
    OBVIOUS
  <2> HIDE DEF p
  <2> QED BY <2>2, <2>3, <2>4
<1>4. Air(r) = (((n \o p) \o b) \o Flag) \o t
  BY DEF Air
<1>5. PICK L, F, B : L = Len(n) /\ F = 8 * r.flags /\ B = Len(b)
  OBVIOUS
<1>6. L \in Nat /\ F \in Nat /\ F >= 8 /\ B \in Nat /\ B > 0
  BY <1>0, <1>1, <1>2, <1>5
<1>7. PICK s1 : s1 = n \o p
  OBVIOUS
<1>8. PICK s2 : s2 = s1 \o b
  OBVIOUS
<1>9. PICK s3 : s3 = s2 \o Flag
  OBVIOUS
<1>10. PICK s4 : s4 = s3 \o t
  OBVIOUS
<1>11. PICK a, c : a = Opening(r) /\ c = Closing(r)
  OBVIOUS
<1>12. a = L + F - 7 /\ c = a + 8 + B
  BY <1>5, <1>11 DEF Opening, Closing
<1> HIDE DEF p, n, t, b
<1>13. /\ s1 \in Seq(BitValue) /\ Len(s1) = L + F
       /\ \A i \in 1 .. L : s1[i] = n[i]
       /\ \A i \in 1 .. F : s1[L + i] = p[i]
  <2>1. /\ s1 \in Seq(BitValue) /\ Len(s1) = Len(n) + Len(p)
        /\ \A i \in 1 .. Len(n) : s1[i] = n[i]
        /\ \A i \in 1 .. Len(p) : s1[Len(n) + i] = p[i]
    <3>1. n \in Seq(BitValue) /\ p \in Seq(BitValue)
      BY <1>1, <1>3
    <3> QED BY <1>7, <3>1, ConcatFacts
  <2> QED BY <1>3, <1>5, <2>1
<1>14. /\ s2 \in Seq(BitValue) /\ Len(s2) = L + F + B
       /\ \A i \in 1 .. L + F : s2[i] = s1[i]
       /\ \A i \in 1 .. B : s2[L + F + i] = b[i]
  <2>1. /\ s2 \in Seq(BitValue) /\ Len(s2) = Len(s1) + Len(b)
        /\ \A i \in 1 .. Len(s1) : s2[i] = s1[i]
        /\ \A i \in 1 .. Len(b) : s2[Len(s1) + i] = b[i]
    <3>1. s1 \in Seq(BitValue) /\ b \in Seq(BitValue)
      BY <1>2, <1>13
    <3> QED BY <1>8, <3>1, ConcatFacts
  <2> QED BY <1>5, <1>13, <2>1
<1>15. /\ s3 \in Seq(BitValue) /\ Len(s3) = L + F + B + 8
       /\ \A i \in 1 .. L + F + B : s3[i] = s2[i]
       /\ \A i \in 1 .. 8 : s3[L + F + B + i] = Flag[i]
  <2>1. /\ s3 \in Seq(BitValue) /\ Len(s3) = Len(s2) + Len(Flag)
        /\ \A i \in 1 .. Len(s2) : s3[i] = s2[i]
        /\ \A i \in 1 .. Len(Flag) : s3[Len(s2) + i] = Flag[i]
    <3>1. PICK f : f = Flag
      OBVIOUS
    <3>2. f \in Seq(BitValue) /\ s2 \in Seq(BitValue)
      BY <1>14, <3>1, FlagFacts
    <3>3. /\ s2 \o f \in Seq(BitValue) /\ Len(s2 \o f) = Len(s2) + Len(f)
          /\ \A i \in 1 .. Len(s2) : (s2 \o f)[i] = s2[i]
          /\ \A i \in 1 .. Len(f) : (s2 \o f)[Len(s2) + i] = f[i]
      BY <3>2, ConcatFacts
    <3> QED BY <1>9, <3>1, <3>3
  <2> QED BY <1>14, <2>1, FlagFacts
<1>16. /\ s4 \in Seq(BitValue) /\ Len(s4) = L + F + B + 8 + Len(t)
       /\ \A i \in 1 .. L + F + B + 8 : s4[i] = s3[i]
  <2>1. /\ s4 \in Seq(BitValue) /\ Len(s4) = Len(s3) + Len(t)
        /\ \A i \in 1 .. Len(s3) : s4[i] = s3[i]
    <3>1. s3 \in Seq(BitValue) /\ t \in Seq(BitValue)
      BY <1>1, <1>15
    <3>2. /\ s3 \o t \in Seq(BitValue) /\ Len(s3 \o t) = Len(s3) + Len(t)
          /\ \A i \in 1 .. Len(s3) : (s3 \o t)[i] = s3[i]
      BY <3>1, ConcatFacts
    <3> QED BY <1>10, <3>2
  <2> QED BY <1>15, <2>1
<1>17. Air(r) = s4
  BY <1>4, <1>7, <1>8, <1>9, <1>10
<1>18. a \in Int /\ c \in Int /\ a >= 1 /\ Len(s4) = c + 7 + Len(t)
  BY <1>1, <1>6, <1>12, <1>16
<1>19. \A i \in 1 .. L : s4[i] = n[i]
  <2> SUFFICES ASSUME NEW i \in 1 .. L PROVE s4[i] = n[i]
    OBVIOUS
  <2>1. i \in 1 .. L + F /\ i \in 1 .. L + F + B /\ i \in 1 .. L + F + B + 8
    BY <1>6
  <2> QED BY <1>13, <1>14, <1>15, <1>16, <2>1
<1>20. \A i \in 1 .. F : s4[L + i] = Flag[((i - 1) % 8) + 1]
  <2> SUFFICES ASSUME NEW i \in 1 .. F PROVE s4[L + i] = Flag[((i - 1) % 8) + 1]
    OBVIOUS
  <2>1. PICK j : j = L + i
    OBVIOUS
  <2>2. j \in 1 .. L + F /\ j \in 1 .. L + F + B /\ j \in 1 .. L + F + B + 8
    BY <1>6, <2>1
  <2>3. s4[j] = s1[j] /\ s1[j] = p[i]
    BY <1>13, <1>14, <1>15, <1>16, <2>1, <2>2
  <2> QED BY <1>3, <1>5, <2>1, <2>3
<1>21. \A k \in 1 .. 8 : s4[a + k - 1] = Flag[k]
  <2> SUFFICES ASSUME NEW k \in 1 .. 8 PROVE s4[a + k - 1] = Flag[k]
    OBVIOUS
  <2>1. PICK i : i = F - 8 + k
    OBVIOUS
  <2>2. i \in 1 .. F /\ L + i = a + k - 1
    BY <1>6, <1>12, <2>1
  <2>3. (i - 1) % 8 = k - 1
    <3>1. i - 1 = 8 * (r.flags - 1) + (k - 1) /\ r.flags - 1 \in Int /\ k - 1 \in 0 .. 7
      <4>1. i = 8 * r.flags - 8 + k
        BY <1>5, <2>1
      <4>2. PICK f : f = r.flags
        OBVIOUS
      <4>3. i - 1 = 8 * (f - 1) + (k - 1) /\ f - 1 \in Int /\ k - 1 \in 0 .. 7
        BY <1>0, <4>1, <4>2
      <4> QED BY <4>2, <4>3
    <3> QED BY <3>1, ModDiv
  <2>4. s4[L + i] = Flag[k - 1 + 1]
    BY <1>20, <2>2, <2>3
  <2>5. k - 1 + 1 = k
    OBVIOUS
  <2> QED BY <2>2, <2>4, <2>5
<1>22. \A j \in 1 .. B : s4[a + 7 + j] = b[j]
  <2> SUFFICES ASSUME NEW j \in 1 .. B PROVE s4[a + 7 + j] = b[j]
    OBVIOUS
  <2>1. PICK i : i = L + F + j
    OBVIOUS
  <2>2. i = a + 7 + j /\ i \in 1 .. L + F + B /\ i \in 1 .. L + F + B + 8
    BY <1>6, <1>12, <2>1
  <2>3. s4[i] = s2[i]
    BY <1>15, <1>16, <2>2
  <2>4. s2[i] = b[j]
    BY <1>14, <2>1
  <2> QED BY <2>2, <2>3, <2>4
<1>23. \A k \in 1 .. 8 : s4[c + k - 1] = Flag[k]
  <2> SUFFICES ASSUME NEW k \in 1 .. 8 PROVE s4[c + k - 1] = Flag[k]
    OBVIOUS
  <2>1. PICK i : i = L + F + B + k
    OBVIOUS
  <2>2. i = c + k - 1 /\ i \in 1 .. L + F + B + 8
    BY <1>6, <1>12, <2>1
  <2> QED BY <1>15, <1>16, <2>1, <2>2
<1>24. r.flags > 1 => s4[a - 1] = 0
  <2> SUFFICES ASSUME r.flags > 1 PROVE s4[a - 1] = 0
    OBVIOUS
  <2>1. PICK i : i = F - 8
    OBVIOUS
  <2>2. i \in 1 .. F /\ L + i = a - 1
    <3>1. F >= 16
      BY <1>0, <1>5
    <3> QED BY <1>6, <1>12, <2>1, <3>1
  <2>3. (i - 1) % 8 = 7
    <3>1. i - 1 = 8 * (r.flags - 2) + 7 /\ r.flags - 2 \in Int /\ 7 \in 0 .. 7
      BY <1>0, <1>5, <2>1
    <3> QED BY <3>1, ModDiv
  <2>4. s4[L + i] = Flag[7 + 1]
    BY <1>20, <2>2, <2>3
  <2> QED BY <2>2, <2>4, FlagFacts
<1> QED BY <1>2, <1>5, <1>6, <1>11, <1>12, <1>16, <1>17, <1>18, <1>19, <1>21, <1>22, <1>23, <1>24 DEF n, b, t

\* What a symbol is, of the tones sent.
LEMMA NrziFacts ==
  ASSUME NEW b \in Seq(BitValue)
  PROVE  /\ NrziEncode(b) \in Seq(Tones) /\ Len(NrziEncode(b)) = Len(b) + 1
         /\ \A i \in 1 .. Len(b) : NrziEncode(b)[i] = NrziEncode(b)[i + 1] <=> b[i] = 1
<1> DEFINE L == Len(b)
           zeros == { i \in DOMAIN b : b[i] = 0 }
           before(i) == { j \in zeros : j < i }
           tone(i) == IF Cardinality(before(i)) % 2 = 0 THEN "mark" ELSE "space"
<1>1. L \in Nat /\ DOMAIN b = 1 .. L /\ \A i \in 1 .. L : b[i] = 0 \/ b[i] = 1
  <2>1. \A i \in 1 .. L : b[i] \in BitValue
    OBVIOUS
  <2> QED BY <2>1 DEF BitValue
<1>2. NrziEncode(b) = [ i \in 1 .. L + 1 |-> tone(i) ]
  BY DEF NrziEncode
<1>3. \A i : tone(i) \in Tones
  BY DEF Tones
<1>4. \A i : IsFiniteSet(before(i)) /\ Cardinality(before(i)) \in Nat
  <2>1. IsFiniteSet(1 .. L)
    BY <1>1, FS_Interval
  <2> SUFFICES ASSUME NEW i PROVE IsFiniteSet(before(i)) /\ Cardinality(before(i)) \in Nat
    OBVIOUS
  <2>2. before(i) \subseteq 1 .. L
    BY <1>1
  <2>3. IsFiniteSet(before(i))
    BY <2>1, <2>2, FS_Subset
  <2> QED BY <2>3, FS_CardinalityType
<1> HIDE DEF L
<1>5. ASSUME NEW i \in 1 .. L PROVE tone(i) = tone(i + 1) <=> b[i] = 1
  <2>1. CASE b[i] = 1
    <3>1. before(i + 1) = before(i)
      <4>1. \A j \in zeros : j < i + 1 <=> j < i
        <5> SUFFICES ASSUME NEW j \in zeros PROVE j < i + 1 <=> j < i
          OBVIOUS
        <5>1. j # i /\ j \in Int
          BY <1>1, <2>1
        <5> QED BY <5>1
      <4> QED BY <4>1
    <3> QED BY <2>1, <3>1
  <2>2. CASE b[i] = 0
    <3>1. before(i + 1) = before(i) \cup {i} /\ i \notin before(i)
      <4>1. \A j \in zeros : j < i + 1 <=> (j < i \/ j = i)
        BY <1>1
      <4>2. i \in zeros /\ ~(i < i)
        BY <1>1, <2>2
      <4> HIDE DEF zeros
      <4> QED BY <4>1, <4>2
    <3>2. Cardinality(before(i + 1)) = Cardinality(before(i)) + 1
      <4> HIDE DEF before
      <4> QED BY <1>4, <3>1, FS_AddElement
    <3>3. PICK n \in Nat : n = Cardinality(before(i))
      BY <1>4
    <3>4. (n + 1) % 2 = 0 <=> ~(n % 2 = 0)
      BY <3>3
    <3>5. tone(i) # tone(i + 1)
      <4> HIDE DEF before
      <4> QED BY <3>2, <3>3, <3>4
    <3> QED BY <2>2, <3>5
  <2> QED BY <1>1, <2>1, <2>2
<1> HIDE DEF tone
<1>6. NrziEncode(b) \in Seq(Tones) /\ Len(NrziEncode(b)) = L + 1
  <2>1. L + 1 \in Nat
    BY <1>1
  <2>2. NrziEncode(b) \in [1 .. L + 1 -> Tones]
    BY <1>2, <1>3
  <2> QED BY <2>1, <2>2
<1>7. \A i \in 1 .. L : NrziEncode(b)[i] = NrziEncode(b)[i + 1] <=> b[i] = 1
  <2> SUFFICES ASSUME NEW i \in 1 .. L PROVE NrziEncode(b)[i] = NrziEncode(b)[i + 1] <=> b[i] = 1
    OBVIOUS
  <2>1. i \in 1 .. L + 1 /\ i + 1 \in 1 .. L + 1
    BY <1>1
  <2>2. NrziEncode(b)[i] = tone(i) /\ NrziEncode(b)[i + 1] = tone(i + 1)
    BY <1>2, <2>1
  <2> QED BY <1>5, <2>2
<1> QED BY <1>6, <1>7 DEF L

LEMMA Division ==
  ASSUME NEW S \in Nat \ {0}, NEW q \in Int, NEW r \in 0 .. S - 1
  PROVE  (S * q + r) \div S = q /\ (S * q + r) % S = r
OBVIOUS

LEMMA DivisionBelow ==
  ASSUME NEW S \in Nat \ {0}, NEW n \in Nat, NEW x \in Nat, x < S * n
  PROVE  x \div S \in 0 .. n - 1
OBVIOUS

\* The samples, with a tone of each; without a wrong symbol, of the tones sent.
LEMMA SamplesFacts ==
  ASSUME NEW r \in Recordings
  PROVE  /\ Samples(r) \in Seq(Tones)
         /\ Len(Samples(r)) = SamplesPerSymbol * (Len(Air(r)) + 1) - r.offset
         /\ r.wrong = 0 => \A i \in 1 .. Len(Samples(r)) :
              Samples(r)[i] = NrziEncode(Air(r))[(i + r.offset - 1) \div SamplesPerSymbol + 1]
<1> DEFINE sent == NrziEncode(Air(r))
           heard == IF r.wrong \in DOMAIN sent THEN [sent EXCEPT ![r.wrong] = Toggled(@)] ELSE sent
           index(i) == (i + r.offset - 1) \div SamplesPerSymbol + 1
           n == Len(Air(r)) + 1
           S == SamplesPerSymbol
           N == S * n - r.offset
<1>1. Air(r) \in Seq(BitValue)
  BY AirFacts
<1>2. sent \in Seq(Tones) /\ Len(sent) = n /\ n \in Nat /\ n >= 1
  BY <1>1, NrziFacts
<1>3. \A t : Toggled(t) \in Tones
  BY DEF Toggled, Tones
<1> HIDE DEF sent
<1>4. heard \in Seq(Tones) /\ Len(heard) = n
  <2>1. DOMAIN sent = 1 .. n /\ sent \in [1 .. n -> Tones]
    BY <1>2
  <2>2. heard \in [1 .. n -> Tones]
    BY <1>3, <2>1
  <2> HIDE DEF heard
  <2> QED BY <1>2, <2>2
<1>5. r.wrong = 0 => heard = sent
  <2>1. DOMAIN sent = 1 .. n
    BY <1>2
  <2>2. 0 \notin 1 .. n
    BY <1>2
  <2> HIDE DEF n
  <2> QED BY <2>1, <2>2
<1>6. Samples(r) = [ i \in 1 .. S * Len(heard) - r.offset |-> heard[index(i)] ]
  BY DEF Samples, sent
<1> HIDE DEF heard, n
<1>7. S \in Nat \ {0} /\ r.offset \in 0 .. S - 1
  BY RecordingType, SamplesAssumption
<1>8. N \in Nat
  <2>1. S * n >= S /\ S * n \in Nat
    BY <1>2, <1>7
  <2>2. PICK x : x = S * n
    OBVIOUS
  <2> HIDE DEF S
  <2> QED BY <1>7, <2>1, <2>2
<1>9. ASSUME NEW i \in 1 .. N PROVE index(i) \in 1 .. n
  <2>1. PICK x : x = i + r.offset - 1
    OBVIOUS
  <2>2. PICK all : all = S * n
    OBVIOUS
  <2>3. all \in Nat
    BY <1>2, <1>7, <2>2
  <2>4. x \in Nat /\ x < all
    <3> HIDE DEF S
    <3> QED BY <1>7, <2>1, <2>2, <2>3
  <2>5. x \div S \in 0 .. n - 1
    <3> HIDE DEF S
    <3> QED BY <1>2, <1>7, <2>2, <2>4, DivisionBelow
  <2>6. index(i) = x \div S + 1
    BY <2>1
  <2> HIDE DEF S, index
  <2> QED BY <1>2, <2>5, <2>6
<1>10. Samples(r) = [ i \in 1 .. N |-> heard[index(i)] ]
  BY <1>4, <1>6
<1> HIDE DEF N, index
<1>11. Samples(r) \in Seq(Tones) /\ Len(Samples(r)) = N
  <2>1. \A i \in 1 .. N : heard[index(i)] \in Tones
    BY <1>4, <1>9, ElementOfSeq
  <2>2. Samples(r) \in [1 .. N -> Tones]
    BY <1>10, <2>1
  <2> QED BY <1>8, <2>2
<1>12. ASSUME r.wrong = 0, NEW i \in 1 .. N PROVE Samples(r)[i] = sent[index(i)]
  BY <1>5, <1>10, <1>12
<1> QED BY <1>11, <1>12 DEF N, n, S, index, sent

-----------------------------------------------------------------------------
(* What the steps of the decoders hand on.                                 *)

PayloadsOf(norad) == { p \in Seq(Octet) : PayloadOf(norad, p) }

Typed ==
  /\ input \in Recordings \cup RawFrames
  /\ stage \in {"recorded", "frames", "payloads", "outcome"}
  /\ stage = "recorded" => IsRecording /\ next = 0
  /\ samples \in Seq(Tones)
  /\ phase \in 0 .. SamplesPerSymbol
  /\ bits \in Seq(BitValue)
  /\ frames \in Seq(Seq(Octet))
  /\ next \in 0 .. Len(frames)
  /\ payloads \in Seq(PayloadsOf(Norad))
  /\ Total(outcome)

LEMMA InputType ==
  ASSUME NEW i \in Recordings \cup RawFrames
  PROVE  \/ "sent" \in DOMAIN i /\ i \in Recordings
         \/ "sent" \notin DOMAIN i /\ i \in RawFrames /\ i.octets \in Seq(Octet)
<1>1. CASE i \in Recordings
  BY <1>1, RecordingType
<1>2. CASE i \in RawFrames
  <2>1. i \in [norad : Int, octets : Seq(Octet)]
    BY <1>2, RawFramesAssumption
  <2>2. DOMAIN i = {"norad", "octets"} /\ i.octets \in Seq(Octet)
    BY <2>1
  <2> QED BY <1>2, <2>2
<1> QED BY <1>1, <1>2

LEMMA SequenceTo ==
  ASSUME NEW V, NEW m \in Int, NEW f, f = [ i \in 1 .. m |-> f[i] ], \A i \in 1 .. m : f[i] \in V
  PROVE  f \in Seq(V) /\ Len(f) = IF m >= 0 THEN m ELSE 0
<1>1. CASE m >= 0
  <2>1. m \in Nat /\ f \in [1 .. m -> V]
    BY <1>1
  <2> QED BY <1>1, <2>1
<1>2. CASE ~(m >= 0)
  <2>1. 1 .. m = {} /\ 1 .. 0 = {}
    BY <1>2
  <2>2. f = [ i \in 1 .. 0 |-> f[i] ]
    BY <2>1
  <2>3. f \in [1 .. 0 -> V]
    BY <2>1, <2>2
  <2>4. f \in Seq(V) /\ Len(f) = 0
    <3>1. PICK n \in Nat : n = 0
      OBVIOUS
    <3>2. f \in [1 .. n -> V]
      BY <2>3, <3>1
    <3>3. \A g \in [1 .. n -> V] : g \in Seq(V) /\ Len(g) = n
      BY n \in Nat
    <3> QED BY <3>1, <3>2, <3>3
  <2> QED BY <1>2, <2>4
<1> QED BY <1>1, <1>2

LEMMA SymbolsType ==
  ASSUME NEW s \in Seq(Tones), NEW p \in Nat
  PROVE  Symbols(s, p) \in Seq(Tones)
<1> DEFINE m == (Len(s) - p) \div SamplesPerSymbol
           window(k) == SubSeq(s, p + (k - 1) * SamplesPerSymbol + 1, p + (k - 1) * SamplesPerSymbol + SamplesPerSymbol)
           t == Symbols(s, p)
<1>1. m \in Int
  BY SamplesAssumption
<1>2. t = [ k \in 1 .. m |-> IF Energy(window(k), "mark") >= Energy(window(k), "space") THEN "mark" ELSE "space" ]
  BY DEF Symbols
<1> HIDE DEF window, t, m
<1>3. \A k \in 1 .. m : t[k] \in Tones
  BY <1>2 DEF Tones
<1>4. t = [ k \in 1 .. m |-> t[k] ]
  BY <1>2
<1>5. t \in Seq(Tones)
  BY <1>1, <1>3, <1>4, SequenceTo
<1> QED BY <1>5 DEF t

LEMMA NrziDecodeType ==
  ASSUME NEW t \in Seq(Tones)
  PROVE  /\ NrziDecode(t) \in Seq(BitValue)
         /\ Len(NrziDecode(t)) = IF Len(t) = 0 THEN 0 ELSE Len(t) - 1
         /\ \A i \in 1 .. Len(t) - 1 : NrziDecode(t)[i] = IF t[i] = t[i + 1] THEN 1 ELSE 0
<1> DEFINE m == Len(t) - 1
           b == NrziDecode(t)
<1>1. m \in Int /\ m >= -1 /\ Len(t) = m + 1
  OBVIOUS
<1>2. b = [ i \in 1 .. m |-> IF t[i] = t[i + 1] THEN 1 ELSE 0 ]
  BY DEF NrziDecode
<1> HIDE DEF m, b
<1>3. \A i \in 1 .. m : b[i] = IF t[i] = t[i + 1] THEN 1 ELSE 0
  BY <1>2
<1>4. \A i \in 1 .. m : b[i] \in BitValue
  BY <1>3 DEF BitValue
<1>5. b = [ i \in 1 .. m |-> b[i] ]
  BY <1>2
<1>6. b \in Seq(BitValue) /\ Len(b) = IF m >= 0 THEN m ELSE 0
  BY <1>1, <1>4, <1>5, SequenceTo
<1>7. (IF m >= 0 THEN m ELSE 0) = IF Len(t) = 0 THEN 0 ELSE m
  BY <1>1
<1> QED BY <1>3, <1>6, <1>7 DEF m, b

LEMMA BitsAtType ==
  ASSUME NEW s \in Seq(Tones), NEW p \in Nat
  PROVE  BitsAt(s, p) \in Seq(BitValue)
BY SymbolsType, NrziDecodeType DEF BitsAt

LEMMA TypedInit == Init => Typed
<1> SUFFICES ASSUME Init PROVE Typed
  OBVIOUS
<1>1. /\ input \in Recordings \cup RawFrames
      /\ stage = IF IsRecording THEN "recorded" ELSE "frames"
      /\ samples = IF IsRecording THEN Samples(input) ELSE << >>
      /\ phase = 0 /\ bits = << >>
      /\ frames = IF IsRecording THEN << >> ELSE << input.octets >>
      /\ next = 0 /\ payloads = << >> /\ outcome = Rejected
  BY DEF Init
<1>2. phase \in 0 .. SamplesPerSymbol
  BY <1>1, SamplesAssumption
<1>3. bits \in Seq(BitValue) /\ payloads \in Seq(PayloadsOf(Norad)) /\ Total(outcome)
  BY <1>1, RaisesTotal
<1>4. CASE IsRecording
  <2>1. input \in Recordings
    BY <1>1, <1>4, InputType DEF IsRecording
  <2>2. samples \in Seq(Tones)
    BY <1>1, <1>4, <2>1, SamplesFacts
  <2>3. frames = << >> /\ stage = "recorded"
    BY <1>1, <1>4
  <2>4. frames \in Seq(Seq(Octet)) /\ next \in 0 .. Len(frames)
    BY <1>1, <2>3
  <2> QED BY <1>1, <1>2, <1>3, <1>4, <2>2, <2>3, <2>4 DEF Typed
<1>5. CASE ~IsRecording
  <2>1. input.octets \in Seq(Octet)
    BY <1>1, <1>5, InputType DEF IsRecording
  <2>2. samples = << >> /\ stage = "frames" /\ frames = << input.octets >>
    BY <1>1, <1>5
  <2>3. samples \in Seq(Tones) /\ frames \in Seq(Seq(Octet)) /\ Len(frames) = 1
    BY <2>1, <2>2
  <2>4. next \in 0 .. Len(frames)
    BY <1>1, <2>3
  <2> QED BY <1>1, <1>2, <1>3, <2>2, <2>3, <2>4 DEF Typed
<1> QED BY <1>4, <1>5

\* decode_frame and the CW decoder give payloads of the satellite.
LEMMA DecodeTyped == ASSUME Typed, Decode PROVE Typed'
<1> USE DEF Typed
<1>1. /\ next < Len(frames) /\ next' = next + 1 /\ frames' = frames
      /\ UNCHANGED <<input, demod, outcome, score, letters>> /\ stage' = stage /\ stage = "frames"
  BY DEF Decode
<1>2. PICK p : p = DecodedPayload(Norad, frames[next + 1], IsRecording)
  OBVIOUS
<1>3. payloads' = IF p = NoPayload THEN payloads ELSE RPushed(payloads, p)
  BY <1>2 DEF Decode
<1>4. frames[next + 1] \in Seq(Octet)
  <2>1. next + 1 \in 1 .. Len(frames)
    BY <1>1
  <2> QED BY <2>1, ElementOfSeq
<1>5. p # NoPayload => p \in PayloadsOf(Norad)
  <2>1. IsRecording \in BOOLEAN
    BY DEF IsRecording
  <2>2. PICK fcs \in BOOLEAN : fcs = IsRecording
    BY <2>1
  <2>3. p = DecodedPayload(Norad, frames[next + 1], fcs)
    BY <1>2, <2>2
  <2>4. p # NoPayload => PayloadOf(Norad, p)
    BY <1>4, <2>3, DecodedPayloadType
  <2> QED BY <2>4 DEF PayloadsOf, PayloadOf
<1>6. payloads' \in Seq(PayloadsOf(Norad))
  <2>1. PICK P : P = PayloadsOf(Norad)
    OBVIOUS
  <2>2. payloads \in Seq(P) /\ (p # NoPayload => p \in P)
    BY <1>5, <2>1
  <2>3. payloads' \in Seq(P)
    BY <1>3, <2>2, RPushedFacts
  <2> QED BY <2>1, <2>3
<1>7. input' = input /\ samples' = samples /\ phase' = phase /\ bits' = bits /\ outcome' = outcome
  BY <1>1 DEF demod
<1>8. Norad' = Norad /\ IsRecording' = IsRecording
  BY <1>7 DEF Norad, IsRecording
<1>9. next' \in 0 .. Len(frames')
  BY <1>1
<1> QED BY <1>1, <1>6, <1>7, <1>8, <1>9

\* demultiplex gives a result that the worker handles.
LEMMA DemultiplexTyped == ASSUME Typed, Demultiplex PROVE Typed'
<1> USE DEF Typed
<1>1. /\ payloads # << >> /\ outcome' = Demultiplexed(Norad, Head(payloads))
      /\ payloads' = Popped(payloads) /\ stage' = "outcome"
      /\ UNCHANGED <<input, demod, frames, next>>
  BY DEF Demultiplex
<1>2. PICK P : P = PayloadsOf(Norad)
  OBVIOUS
<1>3. payloads' \in Seq(P) /\ Head(payloads) \in P
  <2>1. payloads \in Seq(P)
    BY <1>2
  <2> QED BY <1>1, <2>1, PoppedFacts
<1>4. Total(outcome')
  <2>1. PayloadOf(Norad, Head(payloads))
    BY <1>2, <1>3 DEF PayloadsOf
  <2> QED BY <1>1, <2>1, DemultiplexedTotal
<1>5. input' = input /\ samples' = samples /\ phase' = phase /\ bits' = bits /\ frames' = frames /\ next' = next
  BY <1>1 DEF demod
<1>6. Norad' = Norad /\ IsRecording' = IsRecording
  BY <1>5 DEF Norad, IsRecording
<1> QED BY <1>1, <1>2, <1>3, <1>4, <1>5, <1>6

LEMMA TypedStep == ASSUME Typed, [Next]_vars PROVE Typed'
<1>1. CASE TryPhase
  <2> USE DEF Typed
  <2>1. /\ stage = "recorded" /\ phase < SamplesPerSymbol /\ phase' = phase + 1
        /\ UNCHANGED <<stage, input, samples, frames, next, payloads, outcome>>
        /\ bits' = bits \/ bits' = BitsAt(samples, phase)
    BY <1>1 DEF TryPhase
  <2>2. phase' \in 0 .. SamplesPerSymbol
    BY <2>1, SamplesAssumption
  <2>3. bits' \in Seq(BitValue)
    <3>1. phase \in Nat
      BY SamplesAssumption
    <3> QED BY <2>1, <3>1, BitsAtType
  <2>4. Norad' = Norad /\ IsRecording' = IsRecording
    BY <2>1 DEF Norad, IsRecording
  <2> QED BY <2>1, <2>2, <2>3, <2>4
<1>2. CASE Extract
  <2> USE DEF Typed
  <2>1. /\ frames' = Frames(bits) /\ stage' = "frames" /\ stage = "recorded"
        /\ UNCHANGED <<input, demod, next, payloads, outcome>>
    BY <1>2 DEF Extract
  <2>2. frames' \in Seq(Seq(Octet))
    BY <2>1, FramesFacts
  <2>3. input' = input /\ samples' = samples /\ phase' = phase /\ bits' = bits
    BY <2>1 DEF demod
  <2>4. Norad' = Norad /\ IsRecording' = IsRecording
    BY <2>3 DEF Norad, IsRecording
  <2>5. next' \in 0 .. Len(frames')
    BY <2>1, <2>2
  <2> QED BY <2>1, <2>2, <2>3, <2>4, <2>5
<1>3. CASE Decode
  BY <1>3, DecodeTyped
<1>4. CASE Decoded
  <2>1. stage' = "payloads" /\ UNCHANGED <<input, demod, frames, next, payloads, outcome>>
    BY <1>4 DEF Decoded
  <2>2. Norad' = Norad /\ IsRecording' = IsRecording
    BY <2>1 DEF Norad, IsRecording
  <2> QED BY <2>1, <2>2 DEF Typed, demod
<1>5. CASE Demultiplex
  BY <1>5, DemultiplexTyped
<1>6. CASE Scored \/ Dropped \/ DeadLetter
  <2>1. stage' = "payloads" /\ UNCHANGED <<input, demod, frames, next, payloads, outcome>>
    BY <1>6 DEF Scored, Dropped, DeadLetter
  <2>2. Norad' = Norad /\ IsRecording' = IsRecording
    BY <2>1 DEF Norad, IsRecording
  <2> QED BY <2>1, <2>2 DEF Typed, demod
<1>7. CASE NextFrame
  <2> USE DEF Typed
  <2>1. /\ payloads = << >> /\ input' \in RawFrames /\ frames' = << input'.octets >>
        /\ stage' = "frames" /\ next' = 0 /\ UNCHANGED <<demod, payloads, outcome>>
    BY <1>7 DEF NextFrame
  <2>2. input'.octets \in Seq(Octet)
    <3>1. input' \in [norad : Int, octets : Seq(Octet)]
      BY <2>1, RawFramesAssumption
    <3> QED BY <3>1
  <2>3. frames' \in Seq(Seq(Octet)) /\ Len(frames') = 1
    BY <2>1, <2>2
  <2>4. next' \in 0 .. Len(frames')
    BY <2>1, <2>3
  <2>5. payloads' = << >> /\ << >> \in Seq(PayloadsOf(Norad'))
    BY <2>1
  <2>6. samples' = samples /\ phase' = phase /\ bits' = bits /\ outcome' = outcome
    BY <2>1 DEF demod
  <2> QED BY <2>1, <2>3, <2>4, <2>5, <2>6
<1>8. CASE UNCHANGED vars
  <2>1. Norad' = Norad /\ IsRecording' = IsRecording
    BY <1>8 DEF vars, Norad, IsRecording
  <2> QED BY <1>8, <2>1 DEF Typed, vars, demod
<1> QED BY <1>1, <1>2, <1>3, <1>4, <1>5, <1>6, <1>7, <1>8 DEF Next

\* demodulate, extract_frames, decode_frame, demultiplex: whatever was recorded
\* or captured, each hands on what the next expects, and every outcome is one the
\* demux worker handles.
THEOREM DecoderTyped == Spec => []Typed
<1>1. Init => Typed
  BY TypedInit
<1>2. Typed /\ [Next]_vars => Typed'
  BY TypedStep
<1> QED BY <1>1, <1>2, PTL DEF Spec

LEMMA TotalSound == ASSUME Typed PROVE SpecsTotal
<1>1. PICK r : r = outcome
  OBVIOUS
<1>2. r.kind \in {"reading", "none", "ValueError"}
  BY <1>1 DEF Typed, Total
<1>3. PICK n \in Nat : r.metrics = [ k \in 1 .. n |-> r.metrics[k] ] /\ \A k \in 1 .. n : InField(r.metrics[k])
  BY <1>1 DEF Typed, Total
<1>4. DOMAIN r.metrics = 1 .. n
  BY <1>3
<1>5. ASSUME NEW m, InField(m) PROVE m.value \in m.min .. m.max
  BY <1>5 DEF InField
<1>6. \A k \in DOMAIN r.metrics : r.metrics[k].value \in r.metrics[k].min .. r.metrics[k].max
  BY <1>3, <1>4, <1>5
<1> QED BY <1>1, <1>2, <1>6 DEF SpecsTotal

\* demux.run: no payload that the decoders let through makes a specification raise
\* anything but a ValueError, and every value is in its field.
THEOREM SpecificationsTotal == Spec => []SpecsTotal
<1>1. Typed => SpecsTotal
  BY TotalSound
<1> QED BY <1>1, DecoderTyped, PTL

-----------------------------------------------------------------------------
(* The readiness score.                                                    *)

Nominal(m) == m.value \in BandOf(m.unit).nomLow .. BandOf(m.unit).nomHigh

\* _metric_health, of a band whose nominal part lies in the hard one.
BandWell(band) ==
  /\ band.hardLow \in Int /\ band.nomLow \in Int /\ band.nomHigh \in Int /\ band.hardHigh \in Int
  /\ band.hardLow <= band.nomLow /\ band.nomLow <= band.nomHigh /\ band.nomHigh < band.hardHigh

LEMMA BandsWell == ASSUME NEW unit \in HealthUnits PROVE BandWell(BandOf(unit))
<1> DEFINE c == [nomLow |-> -10000, nomHigh |-> 50000, hardLow |-> -40000, hardHigh |-> 85000]
           v == [nomLow |-> 3300, nomHigh |-> 8400, hardLow |-> 0, hardHigh |-> 12000]
           p == [nomLow |-> 0, nomHigh |-> 90000, hardLow |-> 0, hardHigh |-> 100000]
<1>1. BandWell(c) /\ BandWell(v) /\ BandWell(p)
  BY SMT DEF BandWell
<1>2. BandOf(unit) = CASE unit = "C" -> c [] unit = "mV" -> v [] unit = "%" -> p
  BY DEF BandOf
<1> HIDE DEF c, v, p
<1>3. "C" # "mV" /\ "C" # "%" /\ "mV" # "%"
  OBVIOUS
<1>4. CASE unit = "C"
  <2>1. BandOf(unit) = c
    BY <1>2, <1>3, <1>4
  <2> QED BY <1>1, <2>1
<1>5. CASE unit = "mV"
  <2>1. BandOf(unit) = v
    BY <1>2, <1>3, <1>5
  <2> QED BY <1>1, <2>1
<1>6. CASE unit = "%"
  <2>1. BandOf(unit) = p
    BY <1>2, <1>3, <1>6
  <2> QED BY <1>1, <2>1
<1> QED BY <1>4, <1>5, <1>6 DEF HealthUnits

\* A part of a whole, in units of One.
LEMMA PartOfOne ==
  ASSUME NEW x \in Int, NEW w \in Int, 0 <= x, x < w
  PROVE  (x * 1000) \div w \in 0 .. 999
<1>1. w \in Nat \ {0} /\ 1000 \in Nat /\ x * 1000 \in Nat /\ x * 1000 < w * 1000
  OBVIOUS
<1>2. PICK y : y = x * 1000
  OBVIOUS
<1>3. y \div w \in 0 .. 1000 - 1
  BY <1>1, <1>2, DivisionBelow
<1> QED BY <1>2, <1>3

LEMMA HealthFacts ==
  ASSUME NEW v \in Int, NEW band, BandWell(band)
  PROVE  /\ Health(v, band) \in 0 .. One
         /\ Health(v, band) = One <=> v \in band.nomLow .. band.nomHigh
<1>1. PICK a, b, c, d : a = band.hardLow /\ b = band.nomLow /\ c = band.nomHigh /\ d = band.hardHigh
  OBVIOUS
<1>2. a \in Int /\ b \in Int /\ c \in Int /\ d \in Int /\ a <= b /\ b <= c /\ c < d
  BY <1>1 DEF BandWell
<1>3. v # NonFinite
  BY NonFiniteAssumption
<1>4. Health(v, band) = IF v >= b /\ v <= c THEN One
                        ELSE IF v < a \/ v > d THEN 0
                        ELSE IF v < b THEN ((v - a) * One) \div (b - a) ELSE ((d - v) * One) \div (d - c)
  BY <1>1, <1>3 DEF Health, Below, Above
<1>5. CASE v >= b /\ v <= c
  <2>1. Health(v, band) = One
    BY <1>4, <1>5
  <2>2. v \in b .. c
    BY <1>2, <1>5
  <2> QED BY <1>1, <2>1, <2>2 DEF One
<1>6. CASE ~(v >= b /\ v <= c)
  <2>1. v \notin b .. c
    BY <1>2, <1>6
  <2>2. Health(v, band) \in 0 .. 999
    <3>1. CASE v < a \/ v > d
      BY <1>4, <1>6, <3>1, SMTT(40)
    <3>2. CASE ~(v < a \/ v > d) /\ v < b
      <4>1. v - a \in Int /\ b - a \in Int /\ 0 <= v - a /\ v - a < b - a
        BY <1>2, <3>2
      <4>2. PICK x, w : x = v - a /\ w = b - a
        OBVIOUS
      <4>3. x \in Int /\ w \in Int /\ 0 <= x /\ x < w
        BY <4>1, <4>2
      <4>4. (x * 1000) \div w \in 0 .. 999
        BY <4>3, PartOfOne
      <4>5. ((v - a) * 1000) \div (b - a) \in 0 .. 999
        BY <4>2, <4>4, SMTT(40)
      <4> QED BY <1>4, <1>6, <3>2, <4>5, SMTT(40) DEF One
    <3>3. CASE ~(v < a \/ v > d) /\ ~(v < b)
      <4>1. d - v \in Int /\ d - c \in Int /\ 0 <= d - v /\ d - v < d - c
        BY <1>2, <1>6, <3>3
      <4>2. PICK x, w : x = d - v /\ w = d - c
        OBVIOUS
      <4>3. x \in Int /\ w \in Int /\ 0 <= x /\ x < w
        BY <4>1, <4>2
      <4>4. (x * 1000) \div w \in 0 .. 999
        BY <4>3, PartOfOne
      <4>5. ((d - v) * 1000) \div (d - c) \in 0 .. 999
        BY <4>2, <4>4
      <4> QED BY <1>4, <1>6, <3>3, <4>5 DEF One
    <3> QED BY <3>1, <3>2, <3>3
  <2>3. Health(v, band) \in 0 .. 1000 /\ Health(v, band) # 1000
    BY <2>2
  <2> QED BY <1>1, <2>1, <2>3 DEF One
<1> QED BY <1>5, <1>6

\* A sum of numbers up to One is at most One for each of them, and that only
\* when each is One.
LEMMA SumFacts ==
  ASSUME NEW n \in Nat, NEW h, \A i \in 1 .. n : h[i] \in 0 .. One,
         NEW sum, sum[0] = 0, \A i \in 1 .. n : sum[i] = sum[i - 1] + h[i]
  PROVE  /\ sum[n] \in Nat /\ sum[n] <= 1000 * n
         /\ sum[n] = 1000 * n <=> \A i \in 1 .. n : h[i] = One
<1> DEFINE P == { i \in 0 .. n : /\ sum[i] \in Nat /\ sum[i] <= 1000 * i
                                 /\ sum[i] = 1000 * i <=> \A j \in 1 .. i : h[j] = One }
<1>1. 0 \in P
  OBVIOUS
<1>2. ASSUME NEW i \in 1 .. n, i - 1 \in P PROVE i \in P
  <2>1. PICK k : k = i - 1
    OBVIOUS
  <2>2. PICK x, y : x = sum[k] /\ y = h[i]
    OBVIOUS
  <2>3. sum[i] = x + y /\ y \in 0 .. 1000 /\ i = k + 1 /\ k \in Nat
    BY <2>1, <2>2 DEF One
  <2>4. x \in Nat /\ x <= 1000 * k /\ (x = 1000 * k <=> \A j \in 1 .. k : h[j] = One)
    BY <1>2, <2>1, <2>2
  <2>5. x + y \in Nat /\ x + y <= 1000 * (k + 1) /\ (x + y = 1000 * (k + 1) <=> x = 1000 * k /\ y = 1000)
    BY <2>3, <2>4
  <2>6. (\A j \in 1 .. i : h[j] = One) <=> (\A j \in 1 .. k : h[j] = One) /\ h[i] = One
    <3>1. \A j \in 1 .. i : j \in 1 .. k \/ j = i
      BY <2>3
    <3>2. \A j \in 1 .. k : j \in 1 .. i
      BY <2>3
    <3>3. i \in 1 .. i
      OBVIOUS
    <3> QED BY <3>1, <3>2, <3>3
  <2>7. sum[i] = 1000 * i <=> \A j \in 1 .. i : h[j] = One
    BY <2>2, <2>3, <2>4, <2>5, <2>6 DEF One
  <2>8. sum[i] \in Nat /\ sum[i] <= 1000 * i
    BY <2>3, <2>5
  <2> QED BY <2>7, <2>8
<1>3. \A i \in 0 .. n : i \in P
  <2> HIDE DEF P
  <2> QED BY <1>1, <1>2, BoundedInduction
<1>4. n \in 0 .. n
  OBVIOUS
<1> QED BY <1>3, <1>4

LEMMA MeanFacts ==
  ASSUME NEW n \in Nat \ {0}, NEW sum \in Nat, sum <= 1000 * n
  PROVE  sum \div n \in 0 .. 1000 /\ (sum \div n = 1000 <=> sum = 1000 * n)
<1>1. CASE sum = 1000 * n
  <2>1. 1000 \in Int /\ 0 \in 0 .. n - 1 /\ sum = n * 1000 + 0
    BY <1>1
  <2>2. (n * 1000 + 0) \div n = 1000
    BY <2>1, Division
  <2> QED BY <1>1, <2>1, <2>2
<1>2. CASE sum # 1000 * n
  <2>1. 1000 \in Nat /\ sum < n * 1000
    BY <1>2
  <2>2. sum \div n \in 0 .. 1000 - 1
    BY <2>1, DivisionBelow
  <2> QED BY <1>2, <2>2
<1> QED BY <1>1, <1>2

\* n metrics, all in their fields.
Measured(metrics, n) ==
  metrics = [ k \in 1 .. n |-> metrics[k] ] /\ \A k \in 1 .. n : InField(metrics[k])

LEMMA ScoreFacts ==
  ASSUME NEW metrics, NEW n \in Nat, Measured(metrics, n)
  PROVE  /\ Score(metrics) \in 0 .. One
         /\ Score(metrics) = One <=> \A k \in DOMAIN metrics : metrics[k].unit \in HealthUnits => Nominal(metrics[k])
<1> DEFINE V == { metrics[k] : k \in 1 .. n }
           keep == { k \in DOMAIN metrics : metrics[k].unit \in HealthUnits }
           relevant == Selected(metrics, keep)
           h(i) == Health(relevant[i].value, BandOf(relevant[i].unit))
           N == Len(relevant)
           body(f) == [i \in 0 .. N |-> IF i = 0 THEN 0 ELSE f[i - 1] + h(i)]
           step == [i \in 1 .. N |-> [x \in Nat |-> x + h(i)]]
           sum == CHOOSE f : f = body(f)
<1>1. Score(metrics) = IF relevant = << >> THEN One ELSE sum[N] \div N
  BY DEF Score
<1>2. metrics \in Seq(V) /\ DOMAIN metrics = 1 .. n /\ \A v \in V : InField(v)
  <2>1. metrics \in [1 .. n -> V]
    BY DEF Measured
  <2>2. \A v \in V : InField(v)
    BY DEF Measured
  <2> HIDE DEF V
  <2> QED BY <2>1, <2>2
<1> HIDE DEF V
<1>3. /\ relevant \in Seq(V)
      /\ \A k \in DOMAIN relevant : \E i \in Positions(metrics, keep) : relevant[k] = metrics[i]
      /\ \A i \in Positions(metrics, keep) : \E k \in DOMAIN relevant : relevant[k] = metrics[i]
  <2>1. PICK K : K = keep
    OBVIOUS
  <2>2. /\ Selected(metrics, K) \in Seq(V)
        /\ \A k \in DOMAIN Selected(metrics, K) : \E i \in Positions(metrics, K) : Selected(metrics, K)[k] = metrics[i]
        /\ \A i \in Positions(metrics, K) : \E k \in DOMAIN Selected(metrics, K) : Selected(metrics, K)[k] = metrics[i]
    BY <1>2, SelectedElements
  <2> HIDE DEF keep
  <2> QED BY <2>1, <2>2
<1>4. Positions(metrics, keep) = keep
  BY <1>2 DEF Positions
<1> HIDE DEF relevant
<1>5. N \in Nat /\ DOMAIN relevant = 1 .. N
  BY <1>3
<1> HIDE DEF N
<1>6. ASSUME NEW i \in 1 .. N
      PROVE  h(i) \in 0 .. One /\ (h(i) = One <=> Nominal(relevant[i]))
  <2>1. PICK k \in keep : relevant[i] = metrics[k]
    BY <1>3, <1>4, <1>5
  <2>2. PICK m : m = metrics[k]
    OBVIOUS
  <2>3. m.unit \in HealthUnits /\ m.value \in Int
    <3>1. InField(m)
      BY <1>2, <2>1, <2>2
    <3> QED BY <2>1, <2>2, <3>1 DEF InField
  <2>4. BandWell(BandOf(m.unit))
    BY <2>3, BandsWell
  <2>5. PICK band : band = BandOf(m.unit)
    OBVIOUS
  <2>6. Health(m.value, band) \in 0 .. One /\ (Health(m.value, band) = One <=> m.value \in band.nomLow .. band.nomHigh)
    BY <2>3, <2>4, <2>5, HealthFacts
  <2>7. h(i) = Health(m.value, band)
    BY <2>1, <2>2, <2>5
  <2> QED BY <2>1, <2>2, <2>5, <2>6, <2>7 DEF Nominal
<1> HIDE DEF h
<1>7. (\A i \in 1 .. N : h(i) = One) <=>
        \A k \in DOMAIN metrics : metrics[k].unit \in HealthUnits => Nominal(metrics[k])
  <2>1. ASSUME \A i \in 1 .. N : h(i) = One, NEW k \in DOMAIN metrics, metrics[k].unit \in HealthUnits
        PROVE  Nominal(metrics[k])
    <3>1. k \in keep
      BY <2>1
    <3>2. PICK i \in 1 .. N : relevant[i] = metrics[k]
      BY <1>3, <1>4, <1>5, <3>1
    <3>3. Nominal(relevant[i])
      BY <1>6, <2>1
    <3> QED BY <3>2, <3>3
  <2>2. ASSUME \A k \in DOMAIN metrics : metrics[k].unit \in HealthUnits => Nominal(metrics[k]), NEW i \in 1 .. N
        PROVE  h(i) = One
    <3>1. PICK k \in keep : relevant[i] = metrics[k]
      BY <1>3, <1>4, <1>5
    <3>2. Nominal(metrics[k])
      BY <2>2
    <3>3. Nominal(relevant[i])
      BY <3>1, <3>2
    <3> QED BY <1>6, <3>3
  <2> QED BY <2>1, <2>2
<1> HIDE DEF keep
<1>8. ASSUME NEW i \in 1 .. N PROVE h(i) \in Nat
  <2>1. h(i) \in 0 .. One
    BY <1>6, Zenon
  <2> QED BY <2>1 DEF One
<1>9. step \in Steps(1 .. N, Nat)
  <2>1. ASSUME NEW i \in 1 .. N, NEW x \in Nat PROVE x + h(i) \in Nat
    <3>1. h(i) \in Nat
      BY <1>8
    <3> QED BY <3>1
  <2> QED BY <2>1 DEF Steps
<1>10. PICK g : FollowsTo(N, g, Nat, 0, step)
  <2>1. 0 \in Nat
    OBVIOUS
  <2> HIDE DEF step
  <2> QED BY <1>5, <1>9, <2>1, BoundedRecursion
<1>11. g \in [0 .. N -> Nat] /\ g[0] = 0 /\ \A i \in 1 .. N : g[i] = step[i][g[i - 1]]
  <2> HIDE DEF step
  <2> QED BY <1>10 DEF FollowsTo
<1>12. g = body(g)
  <2>1. ASSUME NEW i \in 0 .. N PROVE g[i] = IF i = 0 THEN 0 ELSE g[i - 1] + h(i)
    <3>1. CASE i # 0
      <4>1. g[i - 1] \in Nat /\ i \in 1 .. N
        <5>1. i \in 1 .. N /\ i - 1 \in 0 .. N
          BY <1>5, <3>1
        <5> HIDE DEF step
        <5> QED BY <1>11, <5>1
      <4>2. step[i][g[i - 1]] = g[i - 1] + h(i)
        BY <4>1
      <4> QED BY <1>11, <3>1, <4>1, <4>2
    <3> QED BY <1>11, <3>1
  <2> HIDE DEF step
  <2> QED BY <1>11, <2>1
<1>13. sum = body(sum)
  <2> HIDE DEF body
  <2> QED BY <1>12
<1>14. \A i \in 0 .. N : sum[i] = IF i = 0 THEN 0 ELSE sum[i - 1] + h(i)
  <2> HIDE DEF sum
  <2> QED BY <1>13
<1> HIDE DEF sum, body, step
<1>15. sum[0] = 0 /\ \A i \in 1 .. N : sum[i] = sum[i - 1] + h(i)
  BY <1>5, <1>14
<1> DEFINE parts == [ i \in 1 .. N |-> h(i) ]
<1>16. /\ sum[N] \in Nat /\ sum[N] <= 1000 * N
       /\ sum[N] = 1000 * N <=> \A i \in 1 .. N : h(i) = One
  <2>1. \A i \in 1 .. N : parts[i] = h(i)
    OBVIOUS
  <2> HIDE DEF parts
  <2>2. /\ \A i \in 1 .. N : parts[i] \in 0 .. One
        /\ \A i \in 1 .. N : sum[i] = sum[i - 1] + parts[i]
    BY <1>6, <1>15, <2>1
  <2>3. /\ sum[N] \in Nat /\ sum[N] <= 1000 * N
        /\ sum[N] = 1000 * N <=> \A i \in 1 .. N : parts[i] = One
    <3>1. PICK m, p, s : m = N /\ p = parts /\ s = sum
      OBVIOUS
    <3>2. /\ m \in Nat /\ \A i \in 1 .. m : p[i] \in 0 .. One
          /\ s[0] = 0 /\ \A i \in 1 .. m : s[i] = s[i - 1] + p[i]
      BY <1>5, <1>15, <2>2, <3>1
    <3>3. s[m] \in Nat /\ s[m] <= 1000 * m /\ (s[m] = 1000 * m <=> \A i \in 1 .. m : p[i] = One)
      BY <3>2, SumFacts
    <3> QED BY <3>1, <3>3
  <2> QED BY <2>1, <2>3
<1>17. CASE relevant = << >>
  <2>1. N = 0
    BY <1>17 DEF N
  <2>2. \A i \in 1 .. N : h(i) = One
    BY <2>1
  <2>3. Score(metrics) = One
    BY <1>1, <1>17
  <2> QED BY <1>7, <2>2, <2>3 DEF One
<1>18. CASE relevant # << >>
  <2>1. N \in Nat \ {0}
    BY <1>3, <1>5, <1>18, EmptySeq DEF N
  <2>2. sum[N] \div N \in 0 .. 1000 /\ (sum[N] \div N = 1000 <=> sum[N] = 1000 * N)
    <3>1. PICK x, m : x = sum[N] /\ m = N
      OBVIOUS
    <3>2. m \in Nat \ {0} /\ x \in Nat /\ x <= 1000 * m
      BY <1>16, <2>1, <3>1
    <3>3. x \div m \in 0 .. 1000 /\ (x \div m = 1000 <=> x = 1000 * m)
      BY <3>2, MeanFacts
    <3> QED BY <3>1, <3>3, SMTT(40)
  <2>3. Score(metrics) = sum[N] \div N
    BY <1>1, <1>18
  <2> QED BY <1>7, <1>16, <2>2, <2>3, SMTT(40) DEF One
<1> QED BY <1>17, <1>18

\* The score is that of the reading it follows.
ScoreOfReading == stage # "outcome" /\ outcome.kind = "reading" => score = Score(outcome.metrics)

LEMMA ScoreOfReadingInit == Init => ScoreOfReading
BY DEF Init, ScoreOfReading, Rejected

LEMMA ScoreOfReadingStep == ASSUME ScoreOfReading, [Next]_vars PROVE ScoreOfReading'
<1>1. CASE TryPhase \/ Extract \/ Decode \/ Decoded \/ Dropped \/ DeadLetter \/ NextFrame \/ UNCHANGED vars
  <2>1. outcome' = outcome
    BY <1>1 DEF TryPhase, Extract, Decode, Decoded, Dropped, DeadLetter, NextFrame, vars
  <2>2. score' = score
    BY <1>1 DEF TryPhase, Extract, Decode, Decoded, Dropped, DeadLetter, NextFrame, vars
  <2>3. stage' # "outcome" /\ outcome.kind = "reading" => stage # "outcome"
    BY <1>1 DEF TryPhase, Extract, Decode, Decoded, Dropped, DeadLetter, NextFrame, vars
  <2> QED BY <2>1, <2>2, <2>3 DEF ScoreOfReading
<1>2. CASE Demultiplex
  BY <1>2 DEF Demultiplex, ScoreOfReading
<1>3. CASE Scored
  BY <1>3 DEF Scored, ScoreOfReading
<1> QED BY <1>1, <1>2, <1>3 DEF Next

LEMMA ScoreOfReadingSound == ASSUME Typed, ScoreOfReading PROVE ScoreSound
<1> SUFFICES ASSUME outcome.kind = "reading", stage = "payloads"
             PROVE  /\ score \in 0 .. One
                    /\ score = One <=> \A k \in DOMAIN outcome.metrics :
                         outcome.metrics[k].unit \in HealthUnits => Nominal(outcome.metrics[k])
  BY DEF ScoreSound, Nominal
<1>1. score = Score(outcome.metrics)
  BY DEF ScoreOfReading
<1>2. PICK n \in Nat : /\ outcome.metrics = [ k \in 1 .. n |-> outcome.metrics[k] ]
                       /\ \A k \in 1 .. n : InField(outcome.metrics[k])
  BY DEF Typed, Total
<1>3. PICK m : m = outcome.metrics
  OBVIOUS
<1>4. Measured(m, n)
  BY <1>2, <1>3 DEF Measured
<1>5. /\ Score(m) \in 0 .. One
      /\ Score(m) = One <=> \A k \in DOMAIN m : m[k].unit \in HealthUnits => Nominal(m[k])
  BY <1>4, ScoreFacts
<1> QED BY <1>1, <1>3, <1>5

\* scoring.readiness: the score is in [0, 1], and 1 when every health metric is
\* nominal, or there is none, and only then.
THEOREM ReadinessSound == Spec => []ScoreSound
<1>1. Init => ScoreOfReading
  BY ScoreOfReadingInit
<1>2. ScoreOfReading /\ [Next]_vars => ScoreOfReading'
  BY ScoreOfReadingStep
<1>3. Spec => []ScoreOfReading
  BY <1>1, <1>2, PTL DEF Spec
<1>4. Typed /\ ScoreOfReading => ScoreSound
  BY ScoreOfReadingSound
<1> QED BY <1>3, <1>4, DecoderTyped, PTL

-----------------------------------------------------------------------------
(* Flags of a part of a bitstream.                                         *)

LEMMA CutFlags ==
  ASSUME NEW bs \in Seq(BitValue), NEW x \in Int, NEW y \in Int, 1 <= x, x <= y, y <= Len(bs)
  PROVE  /\ SubSeq(bs, x, y) \in Seq(BitValue) /\ Len(SubSeq(bs, x, y)) = y - x + 1
         /\ \A i \in Int : i \in FlagAt(SubSeq(bs, x, y)) <=> i >= 1 /\ i + x - 1 \in FlagAt(bs) /\ i + x + 6 <= y
<1> DEFINE cut == SubSeq(bs, x, y)
<1>1. /\ cut \in Seq(BitValue) /\ Len(cut) = y - x + 1
      /\ \A i \in 1 .. y - x + 1 : cut[i] = bs[x + i - 1]
  BY SubSeqType
<1> HIDE DEF cut
<1>2. ASSUME NEW i \in Int PROVE i \in FlagAt(cut) <=> i >= 1 /\ i + x - 1 \in FlagAt(bs) /\ i + x + 6 <= y
  <2>1. i \in 1 .. Len(cut) - 7 <=> i >= 1 /\ i + x + 6 <= y
    BY <1>1
  <2>2. i >= 1 /\ i + x + 6 <= y => i + x - 1 \in 1 .. Len(bs) - 7
    OBVIOUS
  <2>3. ASSUME i >= 1, i + x + 6 <= y, NEW k \in 1 .. 8 PROVE cut[i + k - 1] = bs[i + x - 1 + k - 1]
    <3>1. PICK j : j = i + k - 1
      OBVIOUS
    <3>2. j \in 1 .. y - x + 1 /\ x + j - 1 = i + x - 1 + k - 1
      BY <2>3, <3>1
    <3> QED BY <1>1, <3>1, <3>2
  <2> QED BY <2>1, <2>2, <2>3 DEF FlagAt
<1> QED BY <1>1, <1>2 DEF cut

\* Of the flags that share their zeros, one after the other, the first, the third
\* and so on.
Odd(at, i, most_n) == \E n \in 0 .. most_n : (\A m \in 0 .. 2 * n : i - 7 * m \in at) /\ i - 7 * (2 * n + 1) \notin at

LEMMA FlagsAreOdd ==
  ASSUME NEW bs \in Seq(BitValue)
  PROVE  FlagsOf(bs) = { i \in FlagAt(bs) : Odd(FlagAt(bs), i, Len(bs)) }
BY DEF FlagsOf, FlagAt, Odd

LEMMA FirstOfRun ==
  ASSUME NEW bs \in Seq(BitValue), NEW i \in FlagAt(bs), i - 7 \notin FlagAt(bs)
  PROVE  i \in FlagsOf(bs)
<1>1. i \in Int /\ 0 \in 0 .. Len(bs)
  BY DEF FlagAt
<1>2. i - 7 * (2 * 0 + 1) = i - 7 /\ \A m \in 0 .. 2 * 0 : i - 7 * m = i
  BY <1>1
<1>3. Odd(FlagAt(bs), i, Len(bs))
  BY <1>1, <1>2 DEF Odd
<1> QED BY <1>3, FlagsAreOdd

\* Without the first bit, which begins a flag, there is a flag less.
LEMMA WithoutFirst ==
  ASSUME NEW bs \in Seq(BitValue), 1 \in FlagAt(bs), 8 \notin FlagAt(bs)
  PROVE  Cardinality(FlagsOf(SubSeq(bs, 2, Len(bs)))) < Cardinality(FlagsOf(bs))
<1> DEFINE cut == SubSeq(bs, 2, Len(bs))
           at == FlagAt(bs)
           less == FlagAt(cut)
           rest == FlagsOf(bs) \ {1}
<1>1. Len(bs) \in Nat /\ Len(bs) >= 8 /\ at \subseteq 1 .. Len(bs) - 7
  BY DEF FlagAt
<1>2. /\ cut \in Seq(BitValue) /\ Len(cut) = Len(bs) - 1
      /\ \A i \in Int : i \in less <=> i >= 1 /\ i + 1 \in at
  <2>1. 2 \in Int /\ Len(bs) \in Int /\ 1 <= 2 /\ 2 <= Len(bs) /\ Len(bs) <= Len(bs)
    BY <1>1
  <2>2. /\ cut \in Seq(BitValue) /\ Len(cut) = Len(bs) - 2 + 1
        /\ \A i \in Int : i \in less <=> i >= 1 /\ i + 2 - 1 \in at /\ i + 2 + 6 <= Len(bs)
    BY <2>1, CutFlags
  <2>3. ASSUME NEW i \in Int PROVE i \in less <=> i >= 1 /\ i + 1 \in at
    <3>1. i + 1 \in at => i + 2 + 6 <= Len(bs)
      BY <1>1
    <3>2. i + 2 - 1 = i + 1
      OBVIOUS
    <3> QED BY <2>2, <3>1, <3>2
  <2> QED BY <1>1, <2>2, <2>3
<1> HIDE DEF cut, at, less
<1>3. 1 \in FlagsOf(bs)
  <2>1. 1 - 7 \notin at
    BY <1>1
  <2> QED BY <2>1, FirstOfRun DEF at
<1>4. ASSUME NEW i \in FlagsOf(cut) PROVE i + 1 \in rest
  <2>1. i \in less /\ Odd(less, i, Len(cut))
    BY <1>2, FlagsAreOdd DEF less
  <2>2. less \subseteq Int
    BY DEF less, FlagAt
  <2>3. i \in Int /\ i >= 1 /\ i + 1 \in at
    BY <1>2, <2>1, <2>2
  <2>4. PICK n \in 0 .. Len(cut) : (\A m \in 0 .. 2 * n : i - 7 * m \in less) /\ i - 7 * (2 * n + 1) \notin less
    BY <2>1 DEF Odd
  <2>5. n \in Nat /\ n \in 0 .. Len(bs)
    BY <1>1, <1>2
  <2>6. ASSUME NEW m \in 0 .. 2 * n PROVE (i + 1) - 7 * m \in at
    <3>1. PICK j : j = i - 7 * m
      OBVIOUS
    <3>2. j \in Int /\ j + 1 = (i + 1) - 7 * m
      BY <2>3, <3>1
    <3> QED BY <1>2, <2>4, <3>1, <3>2
  <2>7. (i + 1) - 7 * (2 * n + 1) \notin at
    <3>1. PICK j : j = i - 7 * (2 * n + 1)
      OBVIOUS
    <3>2. j \in Int /\ j + 1 = (i + 1) - 7 * (2 * n + 1) /\ j + 8 = (i + 1) - 7 * (2 * n)
      BY <2>3, <2>5, <3>1
    <3>3. j + 8 \in at
      <4>1. 2 * n \in 0 .. 2 * n
        BY <2>5
      <4> QED BY <2>6, <3>2, <4>1
    <3>4. j # 0
      BY <3>3 DEF at
    <3>5. ASSUME j + 1 \in at PROVE FALSE
      <4>1. j + 1 >= 1
        BY <1>1, <3>2, <3>5
      <4>2. j >= 1
        BY <3>2, <3>4, <4>1
      <4> QED BY <1>2, <2>4, <3>1, <3>2, <3>5, <4>2
    <3> QED BY <3>2, <3>5
  <2>8. Odd(at, i + 1, Len(bs))
    <3>1. PICK j : j = i + 1
      OBVIOUS
    <3>2. \A m \in 0 .. 2 * n : j - 7 * m \in at
      BY <2>6, <3>1
    <3>3. j - 7 * (2 * n + 1) \notin at
      BY <2>7, <3>1
    <3>4. Odd(at, j, Len(bs))
      BY <2>5, <3>2, <3>3 DEF Odd
    <3> QED BY <3>1, <3>4
  <2>9. i + 1 \in FlagsOf(bs)
    BY <2>3, <2>8, FlagsAreOdd DEF at
  <2> QED BY <2>3, <2>9
<1>5. IsFiniteSet(FlagsOf(bs)) /\ IsFiniteSet(rest) /\ Cardinality(rest) = Cardinality(FlagsOf(bs)) - 1
      /\ Cardinality(FlagsOf(bs)) \in Nat
  <2>1. FlagsOf(bs) \subseteq 1 .. Len(bs) - 7
    BY FlagsOfType DEF FlagAt
  <2>2. IsFiniteSet(1 .. Len(bs) - 7)
    <3>1. PICK n : n = Len(bs) - 7
      OBVIOUS
    <3>2. 1 \in Int /\ n \in Int
      BY <1>1, <3>1
    <3> QED BY <3>1, <3>2, FS_Interval
  <2>3. IsFiniteSet(FlagsOf(bs))
    BY <2>1, <2>2, FS_Subset
  <2> QED BY <1>3, <2>3, FS_RemoveElement, FS_CardinalityType
<1>6. Cardinality(FlagsOf(cut)) <= Cardinality(rest)
  <2> DEFINE f == [ i \in FlagsOf(cut) |-> i + 1 ]
  <2>1. \A i \in FlagsOf(cut) : i \in Int
    <3>1. FlagsOf(cut) \subseteq FlagAt(cut)
      BY FlagsOfType
    <3> QED BY <3>1 DEF FlagAt
  <2>2. f \in Injection(FlagsOf(cut), rest)
    <3>1. f \in [FlagsOf(cut) -> rest]
      BY <1>4
    <3>2. \A i, j \in FlagsOf(cut) : f[i] = f[j] => i = j
      BY <2>1
    <3> HIDE DEF f, rest
    <3> QED BY <3>1, <3>2 DEF Injection, IsInjective
  <2> HIDE DEF f, rest
  <2> QED BY <1>5, <2>2, FS_Injection
<1>7. Cardinality(FlagsOf(cut)) \in Nat
  BY <1>2, FlagListFacts
<1> QED BY <1>5, <1>6, <1>7 DEF cut

\* Without the last bit, which ends a flag that counts, there is a flag less.
LEMMA WithoutLast ==
  ASSUME NEW bs \in Seq(BitValue), NEW c, c = Len(bs) - 7, c \in FlagsOf(bs)
  PROVE  Cardinality(FlagsOf(SubSeq(bs, 1, Len(bs) - 1))) < Cardinality(FlagsOf(bs))
<1> DEFINE last == Len(bs) - 1
           cut == SubSeq(bs, 1, last)
           at == FlagAt(bs)
           less == FlagAt(cut)
           rest == FlagsOf(bs) \ {c}
<1>1. Len(bs) \in Nat /\ Len(bs) >= 8 /\ at \subseteq 1 .. Len(bs) - 7 /\ last \in Int /\ last = Len(bs) - 1
  <2>1. c \in 1 .. Len(bs) - 7
    BY FlagsOfType DEF FlagAt
  <2> QED BY <2>1 DEF FlagAt
<1> HIDE DEF last
<1>2. /\ cut \in Seq(BitValue) /\ Len(cut) = last
      /\ \A i \in Int : i \in less <=> i \in at /\ i + 7 <= last
  <2>1. 1 \in Int /\ last \in Int /\ 1 <= 1 /\ 1 <= last /\ last <= Len(bs)
    BY <1>1
  <2>2. /\ cut \in Seq(BitValue) /\ Len(cut) = last - 1 + 1
        /\ \A i \in Int : i \in less <=> i >= 1 /\ i + 1 - 1 \in at /\ i + 1 + 6 <= last
    BY <2>1, CutFlags
  <2>3. ASSUME NEW i \in Int PROVE i \in less <=> i \in at /\ i + 7 <= last
    <3>1. i \in at => i >= 1
      BY <1>1
    <3>2. i + 1 - 1 = i /\ i + 1 + 6 = i + 7
      OBVIOUS
    <3> QED BY <2>2, <3>1, <3>2
  <2> QED BY <1>1, <2>2, <2>3
<1> HIDE DEF cut, at, less
<1>3. ASSUME NEW i \in FlagsOf(cut) PROVE i \in rest
  <2>1. i \in less /\ Odd(less, i, Len(cut))
    BY <1>2, FlagsAreOdd DEF less
  <2>2. less \subseteq Int
    BY DEF less, FlagAt
  <2>3. i \in Int /\ i \in at /\ i + 7 <= last
    BY <1>2, <2>1, <2>2
  <2>4. PICK n \in 0 .. Len(cut) : (\A m \in 0 .. 2 * n : i - 7 * m \in less) /\ i - 7 * (2 * n + 1) \notin less
    BY <2>1 DEF Odd
  <2>5. n \in Nat /\ n \in 0 .. Len(bs)
    BY <1>1, <1>2
  <2>6. ASSUME NEW m \in 0 .. 2 * n PROVE i - 7 * m \in at
    <3>1. PICK j : j = i - 7 * m
      OBVIOUS
    <3>2. j \in Int
      BY <2>3, <3>1
    <3> QED BY <1>2, <2>4, <3>1, <3>2
  <2>7. i - 7 * (2 * n + 1) \notin at
    <3>1. PICK j : j = i - 7 * (2 * n + 1)
      OBVIOUS
    <3>2. j \in Int /\ j + 7 <= last
      BY <1>1, <2>3, <2>5, <3>1
    <3> QED BY <1>2, <2>4, <3>1, <3>2
  <2>8. Odd(at, i, Len(bs))
    BY <2>5, <2>6, <2>7 DEF Odd
  <2>9. i \in FlagsOf(bs)
    BY <2>3, <2>8, FlagsAreOdd DEF at
  <2>10. i # c
    BY <1>1, <2>3
  <2> QED BY <2>9, <2>10
<1>4. IsFiniteSet(FlagsOf(bs)) /\ IsFiniteSet(rest) /\ Cardinality(rest) = Cardinality(FlagsOf(bs)) - 1
      /\ Cardinality(FlagsOf(bs)) \in Nat
  <2>1. FlagsOf(bs) \subseteq 1 .. Len(bs) - 7
    BY FlagsOfType DEF FlagAt
  <2>2. IsFiniteSet(1 .. Len(bs) - 7)
    <3>1. PICK n : n = Len(bs) - 7
      OBVIOUS
    <3>2. 1 \in Int /\ n \in Int
      BY <1>1, <3>1
    <3> QED BY <3>1, <3>2, FS_Interval
  <2>3. IsFiniteSet(FlagsOf(bs))
    BY <2>1, <2>2, FS_Subset
  <2> QED BY <2>3, FS_RemoveElement, FS_CardinalityType
<1>5. Cardinality(FlagsOf(cut)) <= Cardinality(rest)
  <2> HIDE DEF rest
  <2>1. FlagsOf(cut) \in SUBSET rest
    BY <1>3
  <2> QED BY <1>4, <2>1, FS_Subset
<1>6. Cardinality(FlagsOf(cut)) \in Nat
  BY <1>2, FlagListFacts
<1> QED BY <1>4, <1>5, <1>6 DEF cut, last

\* extract_frames: between two flags, with none in between, stands a frame.
LEMMA FrameBetween ==
  ASSUME NEW bs \in Seq(BitValue), NEW sent \in Seq(Octet), sent # << >>,
         NEW a \in FlagAt(bs), NEW c \in FlagAt(bs), a + 7 < c,
         \A i \in FlagAt(bs) : ~(a < i /\ i < c),
         a - 7 \notin FlagAt(bs),
         SubSeq(bs, a + 8, c - 1) = Stuffed(sent)
  PROVE  \E k \in DOMAIN Frames(bs) : Frames(bs)[k] = sent
<1> DEFINE fl == FlagsOf(bs)
           t == FlagList(bs)
           rank == Rank(FlagsOf(bs))
           N == Cardinality(FlagsOf(bs))
<1>1. FlagAt(bs) \subseteq Int /\ fl \subseteq FlagAt(bs)
  BY FlagsOfType DEF FlagAt
<1>2. a \in Int /\ c \in Int
  BY <1>1
<1>3. a \in fl
  BY FirstOfRun
<1>4. c \in fl
  <2>1. c - 7 \notin FlagAt(bs)
    <3>1. a < c - 7 /\ c - 7 < c
      BY <1>2
    <3> QED BY <3>1
  <2> QED BY <2>1, FirstOfRun
<1>5. /\ t \in Seq(fl) /\ Len(t) = N /\ N \in Nat
      /\ \A i \in fl : rank[i] \in 1 .. N /\ t[rank[i]] = i
      /\ \A i, j \in fl : i < j => rank[i] < rank[j]
      /\ \A k \in 1 .. N : t[k] \in fl /\ rank[t[k]] = k
  BY FlagListFacts
<1> HIDE DEF fl, t, rank, N
<1>6. PICK k, m : k = rank[a] /\ m = rank[c]
  OBVIOUS
<1>7. k \in 1 .. N /\ m \in 1 .. N /\ k < m /\ t[k] = a /\ t[m] = c
  BY <1>2, <1>3, <1>4, <1>5, <1>6
<1>8. m = k + 1
  <2>1. ASSUME m # k + 1 PROVE FALSE
    <3>1. PICK n : n = k + 1
      OBVIOUS
    <3>2. n \in 1 .. N /\ k < n /\ n < m
      BY <1>5, <1>7, <2>1, <3>1
    <3>3. PICK i : i = t[n]
      OBVIOUS
    <3>4. i \in fl /\ rank[i] = n /\ i \in Int
      BY <1>1, <1>5, <3>2, <3>3
    <3>5. i # a /\ i # c
      BY <1>6, <3>2, <3>4, <1>7
    <3>6. ~(i < a)
      <4>1. ASSUME i < a PROVE FALSE
        <5>1. n < k
          BY <1>3, <1>5, <1>6, <3>4, <4>1
        <5> QED BY <1>7, <3>2, <5>1
      <4> QED BY <4>1
    <3>7. ~(c < i)
      <4>1. ASSUME c < i PROVE FALSE
        <5>1. m < n
          BY <1>4, <1>5, <1>6, <3>4, <4>1
        <5> QED BY <1>7, <3>2, <5>1
      <4> QED BY <4>1
    <3>8. a < i /\ i < c
      BY <1>2, <3>4, <3>5, <3>6, <3>7
    <3> QED BY <1>1, <3>4, <3>8
  <2> QED BY <2>1
<1>9. k \in 1 .. N - 1
  BY <1>5, <1>7, <1>8
<1>10. DOMAIN Inner(bs) = 1 .. N - 1 /\ Inner(bs)[k] = SubSeq(bs, t[k] + 8, t[k + 1] - 1)
  BY <1>5, <1>9 DEF Inner, t
<1>11. k \in DOMAIN Inner(bs) /\ Inner(bs)[k] = Stuffed(sent)
  BY <1>7, <1>8, <1>9, <1>10
<1>12. PICK x : x = Stuffed(sent)
  OBVIOUS
<1>13. /\ x # << >> /\ Destuff(x) \in Seq(BitValue) /\ Len(Destuff(x)) = 8 * Len(sent)
       /\ Octets(Destuff(x)) = sent
  BY <1>12, StuffedFacts
<1>14. Len(sent) \in Nat /\ Len(sent) > 0
  BY EmptySeq
<1>15. Len(Destuff(x)) % 8 = 0 /\ Destuff(x) # Malformed
  <2>1. Len(Destuff(x)) = 8 * Len(sent) + 0 /\ 0 \in 0 .. 7
    BY <1>13, <1>14
  <2>2. (8 * Len(sent) + 0) % 8 = 0
    BY <1>14, <2>1, ModDiv
  <2>3. Destuff(x) # Malformed
    BY <1>13, <1>14 DEF Malformed
  <2> QED BY <2>1, <2>2, <2>3
<1>16. \E j \in DOMAIN Frames(bs) : Frames(bs)[j] = Octets(Destuff(x))
  BY <1>11, <1>12, <1>13, <1>15, FramesFacts
<1> QED BY <1>13, <1>16

-----------------------------------------------------------------------------
(* What a window hears.                                                    *)

\* The opening flag and the closing one are in the air, and none in between.
LEMMA AirFlags ==
  ASSUME NEW r \in Recordings
  PROVE  /\ Opening(r) \in FlagAt(Air(r)) /\ Closing(r) \in FlagAt(Air(r))
         /\ \A i \in FlagAt(Air(r)) : ~(Opening(r) < i /\ i < Closing(r))
<1>1. PICK air, a, c, b : air = Air(r) /\ a = Opening(r) /\ c = Closing(r) /\ b = Stuffed(r.sent)
  OBVIOUS
<1>2. /\ air \in Seq(BitValue) /\ a \in Int /\ c \in Int /\ a >= 1 /\ c = a + 8 + Len(b)
      /\ Len(b) \in Nat /\ Len(b) > 0 /\ Len(air) >= c + 7
      /\ \A k \in 1 .. 8 : air[a + k - 1] = Flag[k]
      /\ \A j \in 1 .. Len(b) : air[a + 7 + j] = b[j]
      /\ \A k \in 1 .. 8 : air[c + k - 1] = Flag[k]
  <2>1. Len(r.tail) \in Nat
    BY RecordingType
  <2>2. /\ Air(r) \in Seq(BitValue) /\ Opening(r) \in Int /\ Closing(r) \in Int /\ Opening(r) >= 1
        /\ Closing(r) = Opening(r) + 8 + Len(Stuffed(r.sent))
        /\ Len(Stuffed(r.sent)) \in Nat /\ Len(Stuffed(r.sent)) > 0
        /\ \A k \in 1 .. 8 : Air(r)[Opening(r) + k - 1] = Flag[k]
        /\ \A j \in 1 .. Len(Stuffed(r.sent)) : Air(r)[Opening(r) + 7 + j] = Stuffed(r.sent)[j]
        /\ \A k \in 1 .. 8 : Air(r)[Closing(r) + k - 1] = Flag[k]
    BY AirFacts
  <2>3. Len(air) >= c + 7
    <3>1. PICK t : t = Len(r.tail)
      OBVIOUS
    <3>2. Len(air) = c + 7 + t /\ c \in Int
      BY <1>1, <3>1, AirFacts
    <3>3. t \in Nat
      BY <2>1, <3>1
    <3> QED BY <3>2, <3>3
  <2> QED BY <1>1, <2>2, <2>3, Zenon
<1>3. a \in FlagAt(air) /\ c \in FlagAt(air)
  <2>1. a \in 1 .. Len(air) - 7 /\ c \in 1 .. Len(air) - 7
    <3>1. a \in Int /\ a >= 1 /\ Len(air) >= c + 7 /\ Len(air) \in Nat /\ c \in Int /\ c > a
      <4>1. c = a + 8 + Len(b) /\ a \in Int /\ Len(b) \in Nat
        BY <1>2
      <4>2. c > a
        BY <4>1
      <4> QED BY <1>2, <4>2
    <3> QED BY <3>1
  <2> QED BY <1>2, <2>1, Zenon DEF FlagAt
<1>4. air[a + 7] = 0 /\ air[c] = 0
  <2>1. 8 \in 1 .. 8 /\ 1 \in 1 .. 8
    OBVIOUS
  <2>2. air[a + 8 - 1] = Flag[8] /\ air[c + 1 - 1] = Flag[1]
    BY <1>2, <2>1
  <2>3. a + 8 - 1 = a + 7 /\ c + 1 - 1 = c
    BY <1>2
  <2> QED BY <2>2, <2>3, FlagFacts
<1>5. ASSUME NEW i \in FlagAt(air), a < i, i < c PROVE FALSE
  <2>1. i \in Int
    BY DEF FlagAt
  <2>2. ASSUME NEW p \in i + 1 .. i + 6 PROVE air[p] = 1
    <3>1. PICK k : k = p - i + 1
      OBVIOUS
    <3>2. k \in 2 .. 7 /\ k \in 1 .. 8 /\ i + k - 1 = p
      BY <2>1, <3>1
    <3>3. air[i + k - 1] = Flag[k]
      BY <3>2 DEF FlagAt
    <3> QED BY <3>2, <3>3, FlagFacts
  <2>3. ~(a + 7 \in i + 1 .. i + 6)
    BY <1>4, <2>2
  <2>4. ~(c \in i + 1 .. i + 6)
    BY <1>4, <2>2
  <2>5. i >= a + 7 /\ i + 6 < c
    <3>1. a \in Int /\ c \in Int /\ c > a + 7
      BY <1>2
    <3>2. i >= a + 7
      BY <1>5, <2>1, <2>3, <3>1
    <3>3. i + 6 < c
      BY <1>5, <2>1, <2>4, <3>1
    <3> QED BY <3>2, <3>3
  <2>6. PICK f : f = i - a - 6
    OBVIOUS
  <2>7. f \in 1 .. Len(b) - 6 + 1
    BY <1>2, <2>1, <2>5, <2>6
  <2>8. ASSUME NEW j \in f .. f + 6 - 1 PROVE b[j] = 1
    <3>1. PICK p : p = a + 7 + j
      OBVIOUS
    <3>2. a \in Int /\ Len(b) \in Nat
      BY <1>2
    <3>3. j \in 1 .. Len(b)
      BY <2>7, <3>2
    <3>4. p \in i + 1 .. i + 6
      BY <2>1, <2>6, <3>1, <3>2
    <3>5. air[p] = 1
      BY <2>2, <3>4
    <3>6. air[a + 7 + j] = b[j]
      BY <1>2, <3>3
    <3> QED BY <3>1, <3>5, <3>6
  <2>9. Ones(b, f, 6)
    BY <2>7, <2>8 DEF Ones
  <2>10. r.sent \in Seq(Octet)
    BY RecordingType
  <2> QED BY <1>1, <2>9, <2>10, StuffedFacts
<1> QED BY <1>1, <1>3, <1>5

\* Nothing before the opening flag of a recording that can be heard takes its zero.
LEMMA OpeningCounts ==
  ASSUME NEW r \in Recordings, Heard(r)
  PROVE  Opening(r) - 7 \notin FlagAt(Air(r))
<1>1. PICK air, a : air = Air(r) /\ a = Opening(r)
  OBVIOUS
<1>2. /\ air \in Seq(BitValue) /\ a \in Int
      /\ \A i \in 1 .. Len(r.noise) : air[i] = r.noise[i]
      /\ r.flags > 1 => air[a - 1] = 0
  BY <1>1, AirFacts
<1>3. r.flags \in Nat /\ r.flags > 0 /\ r.noise \in Seq(BitValue) /\ Len(r.noise) \in Nat
  BY RecordingType
<1>4. ASSUME a - 7 \in FlagAt(air) PROVE FALSE
  <2>1. a - 7 >= 1 /\ \A k \in 1 .. 8 : air[a - 7 + k - 1] = Flag[k]
    BY <1>2, <1>4 DEF FlagAt
  <2>2. CASE r.flags > 1
    <3>1. air[a - 7 + 7 - 1] = Flag[7]
      BY <2>1
    <3>2. a - 7 + 7 - 1 = a - 1
      BY <1>2
    <3> QED BY <1>2, <2>2, <3>1, <3>2, FlagFacts
  <2>3. CASE ~(r.flags > 1)
    <3>1. a = Len(r.noise) + 1
      <4>1. r.flags = 1
        BY <1>3, <2>3
      <4> QED BY <1>1, <1>3, <4>1 DEF Opening
    <3>2. PICK noise, L : noise = r.noise /\ L = Len(noise)
      OBVIOUS
    <3>3. noise \in Seq(BitValue) /\ L \in Nat /\ L = Len(noise) /\ a = L + 1 /\ L >= 7
      BY <1>2, <1>3, <2>1, <3>1, <3>2
    <3>4. SubSeq(noise, L - 6, L) # SubSeq(Flag, 1, 7)
      BY <1>3, <2>3, <3>2, <3>3, SMTT(40) DEF Heard
    <3>5. PICK m : m = L - 6
      OBVIOUS
    <3>6. m \in Int /\ 1 <= m /\ m <= L /\ L <= Len(noise) /\ L - m + 1 = 7
      BY <3>3, <3>5
    <3>7. /\ SubSeq(noise, m, L) \in Seq(BitValue) /\ Len(SubSeq(noise, m, L)) = 7
          /\ \A i \in 1 .. 7 : SubSeq(noise, m, L)[i] = noise[m + i - 1]
      <4>1. /\ SubSeq(noise, m, L) \in Seq(BitValue)
            /\ Len(SubSeq(noise, m, L)) = IF m <= L THEN L - m + 1 ELSE 0
            /\ \A i \in 1 .. L - m + 1 : SubSeq(noise, m, L)[i] = noise[m + i - 1]
        BY <3>3, <3>6, SubSeqType
      <4> QED BY <3>6, <4>1
    <3>8. /\ SubSeq(Flag, 1, 7) \in Seq(BitValue) /\ Len(SubSeq(Flag, 1, 7)) = 7
          /\ \A i \in 1 .. 7 : SubSeq(Flag, 1, 7)[i] = Flag[i]
      <4>1. /\ Flag \in Seq(BitValue) /\ 1 \in Int /\ 7 \in Int /\ 1 <= 1 /\ 7 <= Len(Flag)
            /\ 7 - 1 + 1 = 7 /\ \A i \in 1 .. 7 : 1 + i - 1 = i
        BY FlagFacts
      <4>2. /\ SubSeq(Flag, 1, 7) \in Seq(BitValue)
            /\ Len(SubSeq(Flag, 1, 7)) = IF 1 <= 7 THEN 7 - 1 + 1 ELSE 0
            /\ \A i \in 1 .. 7 - 1 + 1 : SubSeq(Flag, 1, 7)[i] = Flag[1 + i - 1]
        BY <4>1, SubSeqType
      <4> QED BY <4>1, <4>2
    <3>9. ASSUME NEW i \in 1 .. 7 PROVE SubSeq(noise, m, L)[i] = SubSeq(Flag, 1, 7)[i]
      <4>1. PICK p : p = m + i - 1
        OBVIOUS
      <4>2. p \in 1 .. L /\ p = a - 7 + i - 1 /\ i \in 1 .. 8
        BY <3>3, <3>5, <4>1
      <4>3. air[p] = Flag[i]
        BY <2>1, <4>2
      <4>4. air[p] = noise[p]
        BY <1>2, <3>2, <4>2
      <4> QED BY <3>7, <3>8, <4>1, <4>3, <4>4
    <3>10. SubSeq(noise, m, L) = SubSeq(Flag, 1, 7)
      <4>1. PICK u, v : u = SubSeq(noise, m, L) /\ v = SubSeq(Flag, 1, 7)
        OBVIOUS
      <4>2. /\ u \in Seq(BitValue) /\ v \in Seq(BitValue) /\ Len(u) = 7 /\ Len(v) = 7
            /\ \A i \in 1 .. 7 : u[i] = v[i]
        BY <3>7, <3>8, <3>9, <4>1
      <4>3. u = v
        BY <4>2, SeqEqual
      <4> QED BY <4>1, <4>3
    <3> QED BY <3>4, <3>5, <3>10
  <2> QED BY <2>2, <2>3
<1> QED BY <1>1, <1>4

\* The tone of a window which begins with one symbol and ends with d samples of
\* the next is that of the one which has more of it.
LEMMA Majority ==
  ASSUME NEW S \in Nat \ {0}, NEW w \in Seq(Tones), Len(w) = S, NEW d \in 0 .. S - 1, 2 * d # S,
         NEW x \in Tones, NEW y \in Tones,
         \A j \in 1 .. S - d : w[j] = x,
         \A j \in S - d + 1 .. S : w[j] = y
  PROVE  (IF Energy(w, "mark") >= Energy(w, "space") THEN "mark" ELSE "space") = IF 2 * d > S THEN y ELSE x
<1> DEFINE at(t) == { i \in DOMAIN w : w[i] = t }
<1>1. DOMAIN w = 1 .. S /\ "mark" # "space" /\ S - d \in Int /\ S - d >= 1 /\ S - d <= S /\ d \in Nat
  OBVIOUS
<1>2. \A i \in 1 .. S : i \in 1 .. S - d \/ i \in S - d + 1 .. S
  OBVIOUS
<1>3. 1 .. S - d \subseteq 1 .. S /\ S - d + 1 .. S \subseteq 1 .. S
  OBVIOUS
<1>4. \A t : Energy(w, t) = Cardinality(at(t))
  BY DEF Energy
<1>5. PICK e : e = S - d
  OBVIOUS
<1>6. Cardinality(1 .. e) = e /\ Cardinality(e + 1 .. S) = d /\ Cardinality(1 .. S) = S /\ Cardinality({}) = 0
  <2>1. e \in Int /\ e + 1 \in Int /\ 1 \in Int /\ S \in Int /\ e >= 1
    BY <1>1, <1>5
  <2>2. Cardinality(1 .. e) = IF 1 > e THEN 0 ELSE e - 1 + 1
    BY <2>1, FS_Interval
  <2>3. Cardinality(e + 1 .. S) = IF e + 1 > S THEN 0 ELSE S - (e + 1) + 1
    BY <2>1, FS_Interval
  <2>4. Cardinality(1 .. S) = IF 1 > S THEN 0 ELSE S - 1 + 1
    BY <2>1, FS_Interval
  <2>5. Cardinality({}) = 0
    BY FS_EmptySet
  <2>6. (IF 1 > e THEN 0 ELSE e - 1 + 1) = e /\ (IF e + 1 > S THEN 0 ELSE S - (e + 1) + 1) = d
        /\ (IF 1 > S THEN 0 ELSE S - 1 + 1) = S
    BY <1>1, <1>5, <2>1
  <2> QED BY <2>2, <2>3, <2>4, <2>5, <2>6
<1>7. CASE x = y
  <2>1. \A i \in 1 .. S : w[i] = x
    BY <1>2, <1>7
  <2>2. at(x) = 1 .. S
    BY <1>1, <2>1
  <2>3. ASSUME NEW t, t # x PROVE at(t) = {}
    BY <1>1, <2>1, <2>3
  <2> HIDE DEF at
  <2>4. Energy(w, x) = S /\ \A t : t # x => Energy(w, t) = 0
    BY <1>4, <1>6, <2>2, <2>3
  <2>5. CASE x = "mark"
    <3>1. Energy(w, "mark") = S /\ Energy(w, "space") = 0
      BY <2>4, <2>5, <1>1
    <3> QED BY <1>7, <2>5, <3>1
  <2>6. CASE x = "space"
    <3>1. Energy(w, "mark") = 0 /\ Energy(w, "space") = S
      BY <2>4, <2>6, <1>1
    <3> QED BY <1>7, <2>6, <3>1
  <2> QED BY <2>5, <2>6 DEF Tones
<1>8. CASE x # y
  <2>1. at(x) = 1 .. e
    <3>1. \A i \in 1 .. S : w[i] = x <=> i \in 1 .. e
      BY <1>2, <1>5, <1>8
    <3> QED BY <1>1, <1>3, <1>5, <3>1
  <2>2. at(y) = e + 1 .. S
    <3>1. \A i \in 1 .. S : w[i] = y <=> i \in e + 1 .. S
      BY <1>2, <1>5, <1>8
    <3> QED BY <1>1, <1>3, <1>5, <3>1
  <2> HIDE DEF at
  <2>3. Energy(w, x) = e /\ Energy(w, y) = d
    BY <1>4, <1>6, <2>1, <2>2
  <2>4. (x = "mark" /\ y = "space") \/ (x = "space" /\ y = "mark")
    BY <1>8 DEF Tones
  <2>5. (2 * d > S) <=> d > e
    BY <1>1, <1>5
  <2>6. e # d /\ e \in Int /\ d \in Int
    BY <1>1, <1>5
  <2>7. CASE x = "mark" /\ y = "space"
    <3>1. Energy(w, "mark") >= Energy(w, "space") <=> ~(2 * d > S)
      BY <2>3, <2>5, <2>6, <2>7
    <3> QED BY <2>7, <3>1
  <2>8. CASE x = "space" /\ y = "mark"
    <3>1. Energy(w, "mark") >= Energy(w, "space") <=> 2 * d > S
      BY <2>3, <2>5, <2>6, <2>8
    <3> QED BY <2>8, <3>1
  <2> QED BY <2>4, <2>7, <2>8
<1> QED BY <1>7, <1>8

\* Where the window of a phase lies in the symbols: base symbols and d samples on.
Lies(r, p, base, d) ==
  /\ p \in 0 .. SamplesPerSymbol - 1
  /\ base \in {0, 1} /\ d \in 0 .. SamplesPerSymbol - 1
  /\ p + r.offset = SamplesPerSymbol * base + d

LEMMA LiesSomewhere ==
  ASSUME NEW r \in Recordings, NEW p \in 0 .. SamplesPerSymbol - 1
  PROVE  \E base, d : Lies(r, p, base, d) /\ (p + r.offset) % SamplesPerSymbol = d
<1>1. PICK S, o : S = SamplesPerSymbol /\ o = r.offset
  OBVIOUS
<1>2. S \in Nat \ {0} /\ o \in 0 .. S - 1 /\ p \in 0 .. S - 1
  BY <1>1, RecordingType, SamplesAssumption
<1>3. CASE p + o < S
  <2>1. p + o = S * 0 + (p + o) /\ p + o \in 0 .. S - 1
    BY <1>2, <1>3
  <2>2. PICK d : d = p + o
    OBVIOUS
  <2>3. PICK q : q = 0
    OBVIOUS
  <2>4. (p + o) % S = d
    <3>1. S \in Nat \ {0} /\ q \in Int /\ d \in 0 .. S - 1
      BY <1>2, <2>1, <2>2, <2>3
    <3>2. (S * q + d) % S = d
      BY <3>1, Division
    <3>3. S * q + d = p + o
      BY <2>1, <2>2, <2>3
    <3> QED BY <3>2, <3>3
  <2> QED BY <1>1, <1>2, <2>1, <2>2, <2>4 DEF Lies
<1>4. CASE p + o >= S
  <2>1. PICK d : d = p + o - S
    OBVIOUS
  <2>2. d \in 0 .. S - 1 /\ p + o = S * 1 + d
    BY <1>2, <1>4, <2>1
  <2>3. (S * 1 + d) % S = d
    BY <1>2, <2>2, Division
  <2>4. (p + o) % S = d
    BY <2>2, <2>3
  <2> QED BY <1>1, <1>2, <2>2, <2>4 DEF Lies
<1> QED BY <1>2, <1>3, <1>4

\* How many symbols a phase hears, and which.
LEMMA SymbolsHeard ==
  ASSUME NEW r \in Recordings, r.wrong = 0, NEW p, NEW base, NEW d, Lies(r, p, base, d), 2 * d # SamplesPerSymbol
  PROVE  LET t == Symbols(Samples(r), p)
             n == Len(Air(r)) + (IF d = 0 THEN 1 ELSE 0) - base
             late == IF 2 * d > SamplesPerSymbol THEN 1 ELSE 0
         IN /\ t \in Seq(Tones) /\ Len(t) = n
            /\ \A k \in 1 .. n : t[k] = NrziEncode(Air(r))[base + k + late]
<1>1. PICK S, o, N, s, tones : /\ S = SamplesPerSymbol /\ o = r.offset /\ N = Len(Air(r))
                               /\ s = Samples(r) /\ tones = NrziEncode(Air(r))
  OBVIOUS
<1>2. S \in Nat \ {0} /\ o \in 0 .. S - 1 /\ p \in 0 .. S - 1 /\ base \in {0, 1} /\ d \in 0 .. S - 1 /\ p + o = S * base + d
  BY <1>1, RecordingType, SamplesAssumption DEF Lies
<1>3. /\ s \in Seq(Tones) /\ Len(s) = S * (N + 1) - o
      /\ \A i \in 1 .. Len(s) : s[i] = tones[(i + o - 1) \div S + 1]
  BY <1>1, SamplesFacts
<1>4. N \in Nat /\ N >= 2 /\ tones \in Seq(Tones) /\ Len(tones) = N + 1
  <2>1. Air(r) \in Seq(BitValue)
    BY AirFacts
  <2>2. tones \in Seq(Tones) /\ Len(tones) = N + 1 /\ N \in Nat
    BY <1>1, <2>1, NrziFacts
  <2>3. N >= 2
    <3>1. Closing(r) \in FlagAt(Air(r)) /\ Opening(r) \in FlagAt(Air(r))
      BY AirFlags
    <3>2. Opening(r) \in 1 .. N - 7
      BY <1>1, <3>1 DEF FlagAt
    <3> QED BY <2>2, <3>2
  <2> QED BY <2>2, <2>3
<1>5. PICK n : n = N + (IF d = 0 THEN 1 ELSE 0) - base
  OBVIOUS
<1>6. n \in Nat /\ (Len(s) - p) \div S = n /\ Len(s) - p >= S * n
  <2>1. Len(s) - p = S * (N + 1) - S * base - d
    BY <1>2, <1>3, <1>4
  <2>2. CASE d = 0
    <3>1. n = N + 1 - base /\ n \in Nat
      BY <1>2, <1>4, <1>5, <2>2
    <3>2. Len(s) - p = S * n + 0
      BY <1>2, <1>4, <2>1, <2>2, <3>1
    <3>3. (S * n + 0) \div S = n
      <4>1. PICK e : e = 0
        OBVIOUS
      <4>2. S \in Nat \ {0} /\ n \in Int /\ e \in 0 .. S - 1
        BY <1>2, <3>1, <4>1
      <4>3. (S * n + e) \div S = n
        BY <4>2, Division
      <4> QED BY <4>1, <4>3
    <3>4. S * n \in Nat
      BY <1>2, <3>1
    <3> QED BY <3>1, <3>2, <3>3, <3>4
  <2>3. CASE d # 0
    <3>1. n = N - base /\ n \in Nat
      BY <1>2, <1>4, <1>5, <2>3
    <3>2. PICK e : e = S - d
      OBVIOUS
    <3>3. e \in 0 .. S - 1
      BY <1>2, <2>3, <3>2
    <3>4. Len(s) - p = S * n + e
      BY <1>2, <1>4, <2>1, <3>1, <3>2
    <3>5. (S * n + e) \div S = n
      <4>1. S \in Nat \ {0} /\ n \in Int
        BY <1>2, <3>1
      <4> QED BY <3>3, <4>1, Division
    <3>6. S * n \in Nat
      BY <1>2, <3>1
    <3> QED BY <3>1, <3>3, <3>4, <3>5, <3>6
  <2> QED BY <2>2, <2>3
<1>7. PICK late : late = IF 2 * d > S THEN 1 ELSE 0
  OBVIOUS
<1>8. ASSUME NEW k \in 1 .. n PROVE Symbols(s, p)[k] = tones[base + k + late]
  <2>1. PICK start : start = p + (k - 1) * S
    OBVIOUS
  <2>2. PICK w : w = SubSeq(s, start + 1, start + S)
    OBVIOUS
  <2>3. Symbols(s, p)[k] = IF Energy(w, "mark") >= Energy(w, "space") THEN "mark" ELSE "space"
    BY <1>1, <1>6, <2>1, <2>2 DEF Symbols
  <2>4. start \in Nat /\ start + S <= Len(s)
    <3>1. (k - 1) * S \in Nat /\ (k - 1) * S + S <= S * n
      <4>1. PICK x : x = n - k
        OBVIOUS
      <4>2. x \in Nat /\ n = k + x
        BY <1>6, <4>1
      <4>3. S * n = (k - 1) * S + S + S * x /\ S * x \in Nat /\ (k - 1) * S \in Nat
        BY <1>2, <4>2
      <4>4. PICK u, v : u = (k - 1) * S /\ v = S * x
        OBVIOUS
      <4>5. u \in Nat /\ v \in Nat /\ S * n = u + S + v
        BY <4>3, <4>4
      <4>6. u + S <= S * n
        BY <1>2, <4>5
      <4> QED BY <4>4, <4>5, <4>6
    <3>2. PICK y, z : y = (k - 1) * S /\ z = S * n
      OBVIOUS
    <3>3. y \in Nat /\ y + S <= z /\ Len(s) - p >= z /\ start = p + y /\ z \in Int /\ Len(s) \in Nat
      BY <1>2, <1>3, <1>6, <2>1, <3>1, <3>2
    <3> QED BY <1>2, <3>3
  <2>5. w \in Seq(Tones) /\ Len(w) = S /\ \A j \in 1 .. S : w[j] = s[start + j]
    <3>1. PICK a, c : a = start + 1 /\ c = start + S
      OBVIOUS
    <3>2. a \in Int /\ c \in Int /\ 1 <= a /\ a <= c /\ c <= Len(s) /\ c - a + 1 = S
      BY <1>2, <2>4, <3>1
    <3>3. /\ w \in Seq(Tones) /\ Len(w) = IF a <= c THEN c - a + 1 ELSE 0
          /\ \A j \in 1 .. c - a + 1 : w[j] = s[a + j - 1]
      BY <1>3, <2>2, <3>1, <3>2, SubSeqType, SMTT(40)
    <3>4. \A j \in 1 .. S : a + j - 1 = start + j
      BY <2>4, <3>1
    <3> QED BY <3>2, <3>3, <3>4
  <2>6. ASSUME NEW j \in 1 .. S
        PROVE  w[j] = tones[(S * (base + k - 1) + (d + j - 1)) \div S + 1]
    <3>1. PICK i : i = start + j
      OBVIOUS
    <3>2. i \in 1 .. Len(s)
      BY <1>2, <2>4, <3>1
    <3>3. i + o - 1 = S * (base + k - 1) + (d + j - 1)
      <4>1. i + o - 1 = (p + o) + (k - 1) * S + (j - 1)
        BY <1>2, <2>1, <2>4, <3>1
      <4>2. (k - 1) * S = S * (k - 1) /\ S * base + S * (k - 1) = S * (base + k - 1)
        BY <1>2
      <4> QED BY <1>2, <4>1, <4>2
    <3> QED BY <1>3, <2>5, <3>1, <3>2, <3>3
  <2>7. PICK x, y : x = tones[base + k] /\ y = tones[base + k + 1]
    OBVIOUS
  <2>8. ASSUME NEW j \in 1 .. S - d PROVE w[j] = x
    <3>1. PICK q, e : q = base + k - 1 /\ e = d + j - 1
      OBVIOUS
    <3>2. q \in Int /\ e \in 0 .. S - 1 /\ q + 1 = base + k /\ j \in 1 .. S
      BY <1>2, <3>1
    <3>3. (S * q + e) \div S = q
      BY <1>2, <3>2, Division
    <3> QED BY <2>6, <2>7, <3>1, <3>2, <3>3
  <2>9. ASSUME NEW j \in S - d + 1 .. S PROVE w[j] = y
    <3>1. PICK q, e : q = base + k /\ e = d + j - 1 - S
      OBVIOUS
    <3>2. q \in Int /\ e \in 0 .. S - 1 /\ q + 1 = base + k + 1 /\ j \in 1 .. S
      BY <1>2, <3>1
    <3>3. (S * q + e) \div S = q
      BY <1>2, <3>2, Division
    <3>4. S * (base + k - 1) + (d + j - 1) = S * q + e
      BY <1>2, <3>1
    <3> QED BY <2>6, <2>7, <3>2, <3>3, <3>4
  <2>10. base + k \in 1 .. N + 1 /\ base + k + late \in 1 .. N + 1
    <3>1. n <= N + 1 - base /\ (late = 1 => n = N - base)
      BY <1>2, <1>4, <1>5, <1>7
    <3> QED BY <1>2, <1>4, <1>6, <1>7, <3>1
  <2>11. x \in Tones
    BY <1>4, <2>7, <2>10, ElementOfSeq
  <2>12. CASE d = 0
    <3>1. \A j \in S - d + 1 .. S : w[j] = x
      BY <1>2, <2>12
    <3>2. Symbols(s, p)[k] = IF 2 * d > S THEN x ELSE x
      <4>1. S \in Nat \ {0} /\ w \in Seq(Tones) /\ Len(w) = S /\ d \in 0 .. S - 1 /\ 2 * d # S
        BY <1>1, <1>2, <2>5
      <4>2. (IF Energy(w, "mark") >= Energy(w, "space") THEN "mark" ELSE "space") = IF 2 * d > S THEN x ELSE x
        BY <2>8, <2>11, <3>1, <4>1, Majority
      <4> QED BY <2>3, <4>2
    <3>3. late = 0 /\ base + k + 0 = base + k
      BY <1>2, <1>7, <2>12
    <3> QED BY <2>7, <3>2, <3>3
  <2>13. CASE d # 0
    <3>1. base + k + 1 \in 1 .. N + 1
      BY <1>2, <1>4, <1>5, <1>6, <2>13
    <3>2. y \in Tones
      BY <1>4, <2>7, <3>1, ElementOfSeq
    <3>3. Symbols(s, p)[k] = IF 2 * d > S THEN y ELSE x
      <4>1. S \in Nat \ {0} /\ w \in Seq(Tones) /\ Len(w) = S /\ d \in 0 .. S - 1 /\ 2 * d # S
        BY <1>1, <1>2, <2>5
      <4>2. (IF Energy(w, "mark") >= Energy(w, "space") THEN "mark" ELSE "space") = IF 2 * d > S THEN y ELSE x
        BY <2>8, <2>9, <2>11, <3>2, <4>1, Majority
      <4> QED BY <2>3, <4>2
    <3>4. base + k + 0 = base + k
      BY <1>2
    <3> QED BY <1>7, <2>7, <3>3, <3>4
  <2> QED BY <2>12, <2>13
<1>9. Symbols(s, p) \in Seq(Tones) /\ Len(Symbols(s, p)) = n
  <2>1. p \in Nat
    BY <1>2
  <2>2. Symbols(s, p) \in Seq(Tones)
    BY <1>3, <2>1, SymbolsType
  <2>3. DOMAIN Symbols(s, p) = 1 .. n
    BY <1>1, <1>6 DEF Symbols
  <2> QED BY <1>6, <2>2, <2>3
<1> QED BY <1>1, <1>5, <1>7, <1>8, <1>9

SliceOf(V, s, x, y) ==
  /\ SubSeq(s, x, y) \in Seq(V) /\ Len(SubSeq(s, x, y)) = y - x + 1
  /\ \A i \in 1 .. y - x + 1 : SubSeq(s, x, y)[i] = s[x + i - 1]

LEMMA SliceIs ==
  ASSUME NEW V, NEW s \in Seq(V), NEW x \in Int, NEW y \in Int, 1 <= x, x <= y, y <= Len(s)
  PROVE  SliceOf(V, s, x, y)
<1>1. /\ SubSeq(s, x, y) \in Seq(V) /\ Len(SubSeq(s, x, y)) = IF x <= y THEN y - x + 1 ELSE 0
      /\ \A i \in 1 .. y - x + 1 : SubSeq(s, x, y)[i] = s[x + i - 1]
  BY SubSeqType
<1> QED BY <1>1 DEF SliceOf

\* Where the bits of a phase that lies so begin and end in those sent.
FirstHeard(base, d) == base + 1 + (IF 2 * d > SamplesPerSymbol THEN 1 ELSE 0)
LastHeard(r, d) == IF d # 0 /\ 2 * d < SamplesPerSymbol THEN Len(Air(r)) - 1 ELSE Len(Air(r))

\* The bits of a phase whose windows are not askew are those sent, without the
\* first or the last.
LEMMA BitsHeard ==
  ASSUME NEW r \in Recordings, r.wrong = 0, NEW p, NEW base, NEW d, Lies(r, p, base, d), 2 * d # SamplesPerSymbol
  PROVE  /\ BitsAt(Samples(r), p) = SubSeq(Air(r), FirstHeard(base, d), LastHeard(r, d))
         /\ FirstHeard(base, d) \in 1 .. LastHeard(r, d)
         /\ LastHeard(r, d) <= Len(Air(r)) /\ LastHeard(r, d) \in Nat
<1>1. PICK S, N, air, tones, t, n, late, x, y :
        /\ x = FirstHeard(base, d) /\ y = LastHeard(r, d)
        /\ S = SamplesPerSymbol /\ N = Len(Air(r)) /\ air = Air(r) /\ tones = NrziEncode(Air(r))
        /\ t = Symbols(Samples(r), p)
        /\ n = Len(Air(r)) + (IF d = 0 THEN 1 ELSE 0) - base
        /\ late = IF 2 * d > SamplesPerSymbol THEN 1 ELSE 0
  OBVIOUS
<1>2. S \in Nat \ {0} /\ base \in {0, 1} /\ d \in 0 .. S - 1 /\ 2 * d # S
  BY <1>1, SamplesAssumption DEF Lies
<1>3. air \in Seq(BitValue) /\ N = Len(air) /\ N \in Nat /\ N >= 8
  <2>1. air \in Seq(BitValue) /\ N = Len(air) /\ N \in Nat
    BY <1>1, AirFacts
  <2>2. Opening(r) \in FlagAt(air)
    BY <1>1, AirFlags
  <2>3. Opening(r) \in 1 .. N - 7
    BY <2>1, <2>2 DEF FlagAt
  <2> QED BY <2>1, <2>3
<1>4. \A i \in 1 .. N : tones[i] = tones[i + 1] <=> air[i] = 1
  BY <1>1, <1>3, NrziFacts
<1>5. t \in Seq(Tones) /\ Len(t) = n /\ \A k \in 1 .. n : t[k] = tones[base + k + late]
  BY <1>1, SymbolsHeard
<1>6. late \in {0, 1} /\ x = base + 1 + late /\ (d = 0 => late = 0)
  <2>1. x = base + 1 + (IF 2 * d > S THEN 1 ELSE 0) /\ late = (IF 2 * d > S THEN 1 ELSE 0)
    BY <1>1 DEF FirstHeard
  <2> QED BY <1>2, <2>1
<1>7. n \in Nat /\ n - 1 = y - x + 1 /\ x \in 1 .. y /\ y <= N /\ y \in Nat /\ n >= 2 /\ base + late + (n - 1) <= N
  <2>1. y = IF d # 0 /\ 2 * d < S THEN N - 1 ELSE N
    BY <1>1 DEF LastHeard
  <2>2. n = N + (IF d = 0 THEN 1 ELSE 0) - base
    BY <1>1
  <2>3. CASE d = 0
    BY <1>2, <1>3, <1>6, <2>1, <2>2, <2>3
  <2>4. CASE d # 0 /\ 2 * d < S
    <3>1. late = 0 /\ y = N - 1 /\ n = N - base
      BY <1>1, <1>2, <1>3, <2>1, <2>2, <2>4
    <3> QED BY <1>2, <1>3, <1>6, <3>1
  <2>5. CASE d # 0 /\ 2 * d > S
    <3>1. late = 1 /\ y = N /\ n = N - base
      BY <1>1, <1>2, <1>3, <2>1, <2>2, <2>5
    <3> QED BY <1>2, <1>3, <1>6, <3>1
  <2>6. d = 0 \/ (d # 0 /\ 2 * d < S) \/ (d # 0 /\ 2 * d > S)
    <3>1. d \in Int /\ S \in Int /\ 2 * d # S
      BY <1>2
    <3> QED BY <3>1
  <2> QED BY <2>3, <2>4, <2>5, <2>6
<1>8. PICK b, cut : b = NrziDecode(t) /\ cut = SubSeq(air, x, y)
  OBVIOUS
<1>9. b \in Seq(BitValue) /\ Len(b) = n - 1 /\ \A i \in 1 .. n - 1 : b[i] = IF t[i] = t[i + 1] THEN 1 ELSE 0
  <2>1. /\ b \in Seq(BitValue) /\ Len(b) = IF Len(t) = 0 THEN 0 ELSE Len(t) - 1
        /\ \A i \in 1 .. Len(t) - 1 : b[i] = IF t[i] = t[i + 1] THEN 1 ELSE 0
    BY <1>5, <1>8, NrziDecodeType
  <2> QED BY <1>5, <1>7, <2>1
<1>10. cut \in Seq(BitValue) /\ Len(cut) = n - 1 /\ \A i \in 1 .. n - 1 : cut[i] = air[x + i - 1]
  <2>1. x \in Int /\ y \in Int /\ 1 <= x /\ x <= y /\ y <= Len(air)
    BY <1>3, <1>7
  <2>2. SliceOf(BitValue, air, x, y)
    <3>1. air \in Seq(BitValue)
      BY <1>3
    <3> QED BY <2>1, <3>1, SliceIs
  <2>3. /\ cut \in Seq(BitValue) /\ Len(cut) = y - x + 1
        /\ \A i \in 1 .. y - x + 1 : cut[i] = air[x + i - 1]
    BY <1>8, <2>2 DEF SliceOf
  <2>4. y - x + 1 = n - 1
    BY <1>7
  <2> QED BY <2>3, <2>4
<1>11. ASSUME NEW i \in 1 .. n - 1 PROVE b[i] = cut[i]
  <2>1. PICK j : j = base + late + i
    OBVIOUS
  <2>2. j \in 1 .. N /\ i \in 1 .. n /\ i + 1 \in 1 .. n /\ base + i + late = j /\ base + (i + 1) + late = j + 1 /\ x + i - 1 = j
    BY <1>2, <1>3, <1>6, <1>7, <2>1
  <2>3. t[i] = tones[j] /\ t[i + 1] = tones[j + 1]
    BY <1>5, <2>2
  <2>4. b[i] = IF air[j] = 1 THEN 1 ELSE 0
    BY <1>4, <1>9, <2>2, <2>3
  <2>5. air[j] \in BitValue
    BY <1>3, <2>2, ElementOfSeq
  <2>6. air[j] = 0 \/ air[j] = 1
    BY <2>5 DEF BitValue
  <2>7. cut[i] = air[j]
    BY <1>10, <2>2
  <2> QED BY <2>4, <2>6, <2>7
<1>12. b = cut
  BY <1>9, <1>10, <1>11, SeqEqual
<1> QED BY <1>1, <1>7, <1>8, <1>12 DEF BitsAt

LEMMA CutTwice ==
  ASSUME NEW V, NEW s \in Seq(V), NEW x \in Int, NEW y \in Int, NEW m \in Int, NEW n \in Int,
         1 <= x, x <= y, y <= Len(s), 1 <= m, m <= n, n <= y - x + 1
  PROVE  SubSeq(SubSeq(s, x, y), m, n) = SubSeq(s, x + m - 1, x + n - 1)
<1>1. PICK cut, u, v, once, twice : /\ cut = SubSeq(s, x, y) /\ u = x + m - 1 /\ v = x + n - 1
                                    /\ once = SubSeq(s, u, v) /\ twice = SubSeq(cut, m, n)
  OBVIOUS
<1>2. u \in Int /\ v \in Int /\ 1 <= u /\ u <= v /\ v <= Len(s) /\ v - u + 1 = n - m + 1
  BY <1>1
<1>3. cut \in Seq(V) /\ Len(cut) = y - x + 1 /\ \A i \in 1 .. y - x + 1 : cut[i] = s[x + i - 1]
  BY <1>1, SubSeqType
<1>4. once \in Seq(V) /\ Len(once) = n - m + 1 /\ \A i \in 1 .. n - m + 1 : once[i] = s[u + i - 1]
  <2>1. /\ once \in Seq(V) /\ Len(once) = IF u <= v THEN v - u + 1 ELSE 0
        /\ \A i \in 1 .. v - u + 1 : once[i] = s[u + i - 1]
    BY <1>1, <1>2, SubSeqType
  <2> QED BY <1>2, <2>1
<1>5. twice \in Seq(V) /\ Len(twice) = n - m + 1 /\ \A i \in 1 .. n - m + 1 : twice[i] = cut[m + i - 1]
  BY <1>1, <1>3, SubSeqType
<1>6. ASSUME NEW i \in 1 .. n - m + 1 PROVE once[i] = twice[i]
  <2>1. PICK j : j = m + i - 1
    OBVIOUS
  <2>2. j \in 1 .. y - x + 1 /\ x + j - 1 = u + i - 1
    BY <1>1, <2>1
  <2> QED BY <1>3, <1>4, <1>5, <2>1, <2>2
<1>7. once = twice
  BY <1>4, <1>5, <1>6, SeqEqual
<1> QED BY <1>1, <1>7

\* A window that holds both flags gives the frame.
LEMMA WholeFrame ==
  ASSUME NEW r \in Recordings, Heard(r), NEW x \in Int, NEW y \in Int, 1 <= x, x <= y, y <= Len(Air(r)),
         x <= Opening(r), Closing(r) + 7 <= y
  PROVE  LET bs == SubSeq(Air(r), x, y)
         IN \E k \in DOMAIN Frames(bs) : Frames(bs)[k] = r.sent
<1>1. PICK air, a, c, b, bs : /\ air = Air(r) /\ a = Opening(r) /\ c = Closing(r) /\ b = Stuffed(r.sent)
                              /\ bs = SubSeq(air, x, y)
  OBVIOUS
<1>2. /\ air \in Seq(BitValue) /\ b \in Seq(BitValue) /\ a \in Int /\ c \in Int /\ a >= 1 /\ c = a + 8 + Len(b)
      /\ Len(b) \in Nat /\ Len(b) > 0
      /\ \A j \in 1 .. Len(b) : air[a + 7 + j] = b[j]
  BY <1>1, AirFacts
<1>3. a \in FlagAt(air) /\ c \in FlagAt(air) /\ a - 7 \notin FlagAt(air) /\ \A i \in FlagAt(air) : ~(a < i /\ i < c)
  BY <1>1, AirFlags, OpeningCounts
<1>4. /\ bs \in Seq(BitValue) /\ Len(bs) = y - x + 1
      /\ \A i \in Int : i \in FlagAt(bs) <=> i >= 1 /\ i + x - 1 \in FlagAt(air) /\ i + x + 6 <= y
  BY <1>1, <1>2, CutFlags
<1>5. PICK A, C : A = a - x + 1 /\ C = c - x + 1
  OBVIOUS
<1>6. /\ A \in Int /\ C \in Int /\ A >= 1 /\ A + 7 < C /\ A + x - 1 = a /\ C + x - 1 = c
      /\ C + x + 6 <= y /\ A + x + 6 <= y
  <2>1. a \in Int /\ c \in Int /\ a + 8 < c /\ x <= a /\ c + 7 <= y
    BY <1>1, <1>2
  <2> QED BY <1>5, <2>1
<1>7. A \in Int /\ C \in Int /\ A >= 1 /\ A + 8 <= C - 1
  BY <1>6, <1>2, <1>5
<1>8. A \in FlagAt(bs) /\ C \in FlagAt(bs)
  <2>1. C >= 1
    BY <1>6
  <2> QED BY <1>3, <1>4, <1>6, <2>1
<1>9. A - 7 \notin FlagAt(bs)
  <2>1. A - 7 \in Int /\ (A - 7) + x - 1 = a - 7
    BY <1>6
  <2> QED BY <1>3, <1>4, <2>1
<1>10. ASSUME NEW i \in FlagAt(bs), A < i, i < C PROVE FALSE
  <2>1. i \in Int
    BY DEF FlagAt
  <2>2. i + x - 1 \in FlagAt(air)
    BY <1>4, <2>1
  <2>3. a < i + x - 1 /\ i + x - 1 < c
    BY <1>6, <1>10, <2>1
  <2> QED BY <1>3, <2>2, <2>3
<1>11. SubSeq(bs, A + 8, C - 1) = b
  <2>1. PICK m, n, u, v : m = A + 8 /\ n = C - 1 /\ u = a + 8 /\ v = c - 1
    OBVIOUS
  <2>2. m \in Int /\ n \in Int /\ 1 <= m /\ m <= n /\ n <= y - x + 1 /\ x + m - 1 = u /\ x + n - 1 = v
    <3>1. A \in Int /\ C \in Int /\ A >= 1 /\ A + 8 <= C - 1
      BY <1>7
    <3>2. C - 1 <= y - x + 1
      BY <1>6
    <3>3. x + (A + 8) - 1 = a + 8 /\ x + (C - 1) - 1 = c - 1
      BY <1>6
    <3> QED BY <2>1, <3>1, <3>2, <3>3
  <2>3. SubSeq(bs, m, n) = SubSeq(air, u, v)
    <3>1. air \in Seq(BitValue) /\ y <= Len(air)
      BY <1>1, <1>2
    <3>2. SubSeq(SubSeq(air, x, y), m, n) = SubSeq(air, x + m - 1, x + n - 1)
      BY <2>2, <3>1, CutTwice
    <3> QED BY <1>1, <2>2, <3>2
  <2>4. u \in Int /\ v \in Int /\ 1 <= u /\ u <= v /\ v <= Len(air) /\ v - u + 1 = Len(b)
    <3>1. a \in Int /\ c \in Int /\ a >= 1 /\ c = a + 8 + Len(b) /\ Len(b) \in Nat /\ Len(b) > 0
      BY <1>2
    <3>2. Len(air) \in Int /\ c + 7 <= Len(air)
      BY <1>1, <1>2
    <3> QED BY <2>1, <3>1, <3>2
  <2>5. /\ SubSeq(air, u, v) \in Seq(BitValue) /\ Len(SubSeq(air, u, v)) = Len(b)
        /\ \A j \in 1 .. Len(b) : SubSeq(air, u, v)[j] = air[u + j - 1]
    <3>1. SliceOf(BitValue, air, u, v)
      BY <1>2, <2>4, SliceIs
    <3> QED BY <2>4, <3>1 DEF SliceOf
  <2>6. ASSUME NEW j \in 1 .. Len(b) PROVE SubSeq(air, u, v)[j] = b[j]
    <3>1. u + j - 1 = a + 7 + j
      BY <1>2, <2>1
    <3> QED BY <1>2, <2>5, <3>1
  <2>7. SubSeq(air, u, v) = b
    BY <1>2, <2>5, <2>6, SeqEqual
  <2> QED BY <2>1, <2>3, <2>7
<1>12. r.sent \in Seq(Octet) /\ r.sent # << >>
  BY RecordingType
<1>13. \E k \in DOMAIN Frames(bs) : Frames(bs)[k] = r.sent
  <2>1. \A i \in FlagAt(bs) : ~(A < i /\ i < C)
    BY <1>10
  <2>2. PICK sent : sent = r.sent
    OBVIOUS
  <2>3. bs \in Seq(BitValue) /\ sent \in Seq(Octet) /\ sent # << >> /\ A + 7 < C
    BY <1>4, <1>6, <1>12, <2>2
  <2>4. SubSeq(bs, A + 8, C - 1) = Stuffed(sent)
    BY <1>1, <1>11, <2>2
  <2>5. \E k \in DOMAIN Frames(bs) : Frames(bs)[k] = sent
    BY <1>8, <1>9, <2>1, <2>3, <2>4, FrameBetween
  <2> QED BY <2>2, <2>5
<1> QED BY <1>1, <1>13

LEMMA AirSizes ==
  ASSUME NEW r \in Recordings, NEW a, a = Opening(r), NEW c, c = Closing(r), NEW N, N = Len(Air(r))
  PROVE  /\ Air(r) \in Seq(BitValue) /\ N \in Int /\ a \in Int /\ c \in Int /\ 1 <= a /\ a + 8 < c /\ c + 7 <= N
         /\ r.tail # << >> => c + 8 <= N
<1>1. PICK b, t : b = Len(Stuffed(r.sent)) /\ t = Len(r.tail)
  OBVIOUS
<1>2. /\ Air(r) \in Seq(BitValue) /\ a \in Int /\ c \in Int /\ 1 <= a /\ c = a + 8 + b
      /\ b \in Nat /\ b > 0 /\ N = c + 7 + t
  <2>1. /\ Air(r) \in Seq(BitValue) /\ Opening(r) \in Int /\ Closing(r) \in Int /\ Opening(r) >= 1
        /\ Closing(r) = Opening(r) + 8 + Len(Stuffed(r.sent)) /\ Len(Stuffed(r.sent)) \in Nat
        /\ Len(Stuffed(r.sent)) > 0 /\ Len(Air(r)) = Closing(r) + 7 + Len(r.tail)
    BY AirFacts
  <2>2. Opening(r) = a /\ Closing(r) = c /\ Len(Air(r)) = N /\ Len(Stuffed(r.sent)) = b /\ Len(r.tail) = t
    BY <1>1
  <2>3. Opening(r) >= 1 => 1 <= a
    BY <2>1, <2>2
  <2> QED BY <2>1, <2>2, <2>3
<1>3. t \in Nat /\ (r.tail # << >> => t > 0)
  <2>1. r.tail \in Seq(BitValue)
    BY RecordingType
  <2> QED BY <1>1, <2>1
<1>4. N \in Int /\ a + 8 < c /\ c + 7 <= N /\ (t > 0 => c + 8 <= N)
  <2>1. a \in Int /\ c = a + 8 + b /\ b \in Nat /\ b > 0 /\ N = c + 7 + t /\ t \in Nat
    BY <1>2, <1>3
  <2>2. c \in Int /\ a + 8 < c
    BY <2>1
  <2> QED BY <2>1, <2>2
<1> QED BY <1>2, <1>3, <1>4

\* s, cut at x and y, and again at m and n, is s cut at u and v.
Recut(s, x, y, m, n, u, v) == SubSeq(SubSeq(s, x, y), m, n) = SubSeq(s, u, v)

LEMMA Recuts ==
  ASSUME NEW s \in Seq(BitValue), NEW x \in Int, NEW y \in Int, NEW m \in Int, NEW n \in Int, NEW u, NEW v,
         1 <= x, x <= y, y <= Len(s), 1 <= m, m <= n, n <= y - x + 1, u = x + m - 1, v = x + n - 1
  PROVE  Recut(s, x, y, m, n, u, v)
BY CutTwice DEF Recut

\* A phase that begins with a symbol has all of them from there on.
LEMMA WholeSymbols ==
  ASSUME NEW r \in Recordings, r.wrong = 0, NEW q, NEW z \in {0, 1}, Lies(r, q, z, 0)
  PROVE  BitsAt(Samples(r), q) = SubSeq(Air(r), z + 1, Len(Air(r))) /\ q \in 0 .. SamplesPerSymbol - 1
<1>1. PICK e, S : e = 0 /\ S = SamplesPerSymbol
  OBVIOUS
<1>2. S \in Nat \ {0} /\ 2 * e = 0
  BY <1>1, SamplesAssumption
<1>3. 2 * e # S /\ ~(2 * e > S) /\ e = 0
  BY <1>1, <1>2
<1>4. BitsAt(Samples(r), q) = SubSeq(Air(r), FirstHeard(z, e), LastHeard(r, e))
  <2>1. Lies(r, q, z, e) /\ 2 * e # SamplesPerSymbol
    BY <1>1, <1>3
  <2> QED BY <2>1, BitsHeard
<1>5. FirstHeard(z, e) = z + 1 /\ LastHeard(r, e) = Len(Air(r))
  BY <1>1, <1>3 DEF FirstHeard, LastHeard
<1> QED BY <1>4, <1>5 DEF Lies

\* A window that begins with the flag that opens the frame holds a flag more than
\* one that begins a bit later.
LEMMA OpeningLost ==
  ASSUME NEW r \in Recordings, NEW z \in Int, z = Opening(r), NEW N, N = Len(Air(r))
  PROVE  Cardinality(FlagsOf(SubSeq(Air(r), z + 1, N))) < Cardinality(FlagsOf(SubSeq(Air(r), z, N)))
<1>1. PICK air, c, ref : air = Air(r) /\ c = Closing(r) /\ ref = SubSeq(air, z, N)
  OBVIOUS
<1>2. air \in Seq(BitValue) /\ N \in Int /\ c \in Int /\ 1 <= z /\ c > z + 8 /\ c + 7 <= N /\ N <= Len(air)
  <2>1. Air(r) \in Seq(BitValue) /\ N \in Int /\ c \in Int /\ 1 <= z /\ z + 8 < c /\ c + 7 <= N
    BY <1>1, AirSizes
  <2> QED BY <1>1, <2>1
<1>3. z \in FlagAt(air) /\ \A i \in FlagAt(air) : ~(z < i /\ i < c)
  BY <1>1, AirFlags
<1>4. z <= N /\ z + 6 + 1 <= N /\ z < z + 7 /\ z + 7 < c
  BY <1>2
<1>5. /\ ref \in Seq(BitValue) /\ Len(ref) = N - z + 1
      /\ \A i \in Int : i \in FlagAt(ref) <=> i >= 1 /\ i + z - 1 \in FlagAt(air) /\ i + z + 6 <= N
  BY <1>1, <1>2, <1>4, CutFlags
<1>6. 1 \in FlagAt(ref)
  <2>1. 1 \in Int /\ 1 >= 1 /\ 1 + z - 1 = z /\ 1 + z + 6 <= N
    BY <1>4
  <2> QED BY <1>3, <1>5, <2>1
<1>7. 8 \notin FlagAt(ref)
  <2>1. 8 \in Int /\ 8 + z - 1 = z + 7
    OBVIOUS
  <2> QED BY <1>3, <1>4, <1>5, <2>1
<1>8. SubSeq(ref, 2, Len(ref)) = SubSeq(air, z + 1, N)
  <2>1. PICK m, n : m = 2 /\ n = N - z + 1
    OBVIOUS
  <2>2. m \in Int /\ n \in Int /\ 1 <= m /\ m <= n /\ n <= N - z + 1 /\ z + 1 = z + m - 1 /\ N = z + n - 1
    <3>1. N \in Int /\ z + 7 <= N
      BY <1>2
    <3> QED BY <2>1, <3>1
  <2>3. air \in Seq(BitValue) /\ N \in Int /\ 1 <= z /\ z <= N /\ N <= Len(air)
    BY <1>2, <1>4
  <2>4. PICK u : u = z + 1
    OBVIOUS
  <2>5. Recut(air, z, N, m, n, u, N)
    BY <2>2, <2>3, <2>4, Recuts
  <2> QED BY <1>1, <1>5, <2>1, <2>4, <2>5 DEF Recut
<1>9. Cardinality(FlagsOf(SubSeq(ref, 2, Len(ref)))) < Cardinality(FlagsOf(ref))
  BY <1>5, <1>6, <1>7, WithoutFirst
<1> QED BY <1>1, <1>8, <1>9

\* A window that ends with the flag that closes the frame holds a flag more than
\* one that ends a bit earlier.
LEMMA ClosingLost ==
  ASSUME NEW r \in Recordings, NEW N, N = Len(Air(r)), N = Closing(r) + 7
  PROVE  Cardinality(FlagsOf(SubSeq(Air(r), 1, N - 1))) < Cardinality(FlagsOf(SubSeq(Air(r), 1, N)))
<1>1. PICK air, a, c, ref : air = Air(r) /\ a = Opening(r) /\ c = Closing(r) /\ ref = SubSeq(air, 1, N)
  OBVIOUS
<1>2. air \in Seq(BitValue) /\ N \in Int /\ c \in Int /\ a \in Int /\ 1 <= a /\ c > a + 8 /\ c + 7 = N /\ N <= Len(air)
  <2>1. Air(r) \in Seq(BitValue) /\ N \in Int /\ a \in Int /\ c \in Int /\ 1 <= a /\ a + 8 < c
    BY <1>1, AirSizes
  <2>2. c + 7 = N /\ N = Len(air) /\ air \in Seq(BitValue)
    BY <1>1, <2>1
  <2>3. N <= N
    BY <2>1
  <2> QED BY <2>1, <2>2, <2>3
<1>3. c \in FlagAt(air) /\ \A i \in FlagAt(air) : ~(a < i /\ i < c)
  BY <1>1, AirFlags
<1>4. 1 \in Int /\ 1 <= 1 /\ 1 <= N /\ c >= 1 /\ c + 1 - 1 = c /\ c + 1 + 6 <= N /\ a < c - 7 /\ c - 7 < c
  BY <1>2
<1>5. /\ ref \in Seq(BitValue) /\ Len(ref) = N - 1 + 1
      /\ \A i \in Int : i \in FlagAt(ref) <=> i >= 1 /\ i + 1 - 1 \in FlagAt(air) /\ i + 1 + 6 <= N
  BY <1>1, <1>2, <1>4, CutFlags
<1>6. c \in FlagAt(ref)
  BY <1>2, <1>3, <1>4, <1>5
<1>7. c - 7 \notin FlagAt(ref)
  <2>1. c - 7 \in Int /\ c - 7 + 1 - 1 = c - 7
    BY <1>2
  <2> QED BY <1>3, <1>4, <1>5, <2>1
<1>8. c \in FlagsOf(ref)
  BY <1>5, <1>6, <1>7, FirstOfRun
<1>9. Len(ref) = N /\ c = Len(ref) - 7
  BY <1>2, <1>5
<1>10. SubSeq(ref, 1, Len(ref) - 1) = SubSeq(air, 1, N - 1)
  <2>1. PICK m, n : m = 1 /\ n = N - 1
    OBVIOUS
  <2>2. m \in Int /\ n \in Int /\ 1 <= m /\ m <= n /\ n <= N - 1 + 1 /\ 1 + m - 1 = 1 /\ 1 + n - 1 = N - 1
    BY <1>2, <2>1
  <2>3. SubSeq(SubSeq(air, 1, N), m, n) = SubSeq(air, 1 + m - 1, 1 + n - 1)
    BY <1>2, <1>4, <2>2, CutTwice
  <2> QED BY <1>1, <1>9, <2>1, <2>2, <2>3
<1>11. Cardinality(FlagsOf(SubSeq(ref, 1, Len(ref) - 1))) < Cardinality(FlagsOf(ref))
  BY <1>5, <1>8, <1>9, WithoutLast
<1> QED BY <1>1, <1>10, <1>11

\* The most flags, of those of a phase that is not askew, come with the frame.
LEMMA KeptBest ==
  ASSUME NEW r \in Recordings, Heard(r), NEW p, NEW base, NEW d, Lies(r, p, base, d), 2 * d # SamplesPerSymbol,
         NEW bs, bs = BitsAt(Samples(r), p),
         \A q \in 0 .. SamplesPerSymbol - 1 :
           Cardinality(FlagsOf(BitsAt(Samples(r), q))) <= Cardinality(FlagsOf(bs))
  PROVE  \E k \in DOMAIN Frames(bs) : Frames(bs)[k] = r.sent
<1>1. PICK S, o, N, a, c, late, x, y, air :
        /\ S = SamplesPerSymbol /\ o = r.offset /\ N = Len(Air(r)) /\ air = Air(r)
        /\ a = Opening(r) /\ c = Closing(r)
        /\ late = (IF 2 * d > SamplesPerSymbol THEN 1 ELSE 0)
        /\ x = FirstHeard(base, d) /\ y = LastHeard(r, d)
  OBVIOUS
<1>2. /\ S \in Int /\ S >= 1 /\ o \in Int /\ o >= 0 /\ o <= S - 1 /\ p \in Int /\ 0 <= p /\ p <= S - 1
      /\ base \in {0, 1} /\ d \in Int /\ 0 <= d /\ d <= S - 1 /\ 2 * d # S
      /\ (base = 0 => p + o = d) /\ (base = 1 => p + o = S + d)
  <2>1. S \in Nat \ {0} /\ o \in 0 .. S - 1
    BY <1>1, RecordingType, SamplesAssumption
  <2>2. p \in 0 .. S - 1 /\ base \in {0, 1} /\ d \in 0 .. S - 1 /\ p + o = S * base + d
    BY <1>1 DEF Lies
  <2>3. 2 * d # S
    BY <1>1
  <2>4. base = 0 => p + o = d
    <3>1. base = 0 => S * base = 0
      BY <2>1
    <3> QED BY <2>1, <2>2, <3>1
  <2>5. base = 1 => p + o = S + d
    <3>1. base = 1 => S * base = S
      BY <2>1
    <3> QED BY <2>1, <2>2, <3>1
  <2> QED BY <2>1, <2>2, <2>3, <2>4, <2>5
<1>3. /\ N \in Int /\ a \in Int /\ c \in Int /\ 1 <= a /\ c > a + 8 /\ c + 7 <= N
      /\ (r.tail # << >> => c + 8 <= N)
  <2>1. a = Opening(r) /\ c = Closing(r) /\ N = Len(Air(r))
    BY <1>1
  <2> QED BY <2>1, AirSizes
<1>4. bs = SubSeq(air, x, y) /\ x \in Int /\ y \in Int /\ 1 <= x /\ x <= y /\ y <= N
  <2>1. r.wrong = 0
    BY DEF Heard
  <2>2. /\ BitsAt(Samples(r), p) = SubSeq(Air(r), FirstHeard(base, d), LastHeard(r, d))
        /\ FirstHeard(base, d) \in 1 .. LastHeard(r, d)
        /\ LastHeard(r, d) <= Len(Air(r)) /\ LastHeard(r, d) \in Nat
    BY <2>1, BitsHeard
  <2>3. x = FirstHeard(base, d) /\ y = LastHeard(r, d)
    BY <1>1
  <2>4. x \in 1 .. y /\ y <= N /\ y \in Nat
    BY <1>1, <2>2, <2>3
  <2>5. x \in Int /\ y \in Int /\ 1 <= x /\ x <= y
    BY <2>4
  <2> QED BY <1>1, <2>2, <2>3, <2>4, <2>5
<1>5. ASSUME NEW q, NEW z \in {0, 1}, Lies(r, q, z, 0)
      PROVE  Cardinality(FlagsOf(SubSeq(air, z + 1, N))) <= Cardinality(FlagsOf(bs))
  <2>1. r.wrong = 0
    BY DEF Heard
  <2>2. BitsAt(Samples(r), q) = SubSeq(Air(r), z + 1, Len(Air(r))) /\ q \in 0 .. SamplesPerSymbol - 1
    BY <1>5, <2>1, WholeSymbols
  <2> QED BY <1>1, <2>2
<1>6. /\ late \in {0, 1} /\ x = base + 1 + late /\ (late = 1 => y = N)
      /\ (y = N \/ y = N - 1) /\ (d = 0 => late = 0)
  <2>1. /\ late = (IF 2 * d > S THEN 1 ELSE 0) /\ x = base + 1 + (IF 2 * d > S THEN 1 ELSE 0)
        /\ y = IF d # 0 /\ 2 * d < S THEN N - 1 ELSE N
    BY <1>1 DEF FirstHeard, LastHeard
  <2>2. /\ S \in Int /\ S >= 1 /\ d \in Int /\ 0 <= d /\ N \in Int
    BY <1>2, <1>3
  <2> QED BY <2>1, <2>2
<1>7. ASSUME x <= a, c + 7 <= y PROVE \E k \in DOMAIN Frames(bs) : Frames(bs)[k] = r.sent
  <2>1. x \in Int /\ y \in Int /\ 1 <= x /\ x <= y /\ y <= Len(Air(r))
    BY <1>1, <1>4
  <2>2. x <= Opening(r) /\ Closing(r) + 7 <= y
    BY <1>1, <1>7
  <2>3. \E k \in DOMAIN Frames(SubSeq(Air(r), x, y)) : Frames(SubSeq(Air(r), x, y))[k] = r.sent
    BY <2>1, <2>2, WholeFrame
  <2> QED BY <1>1, <1>4, <2>3
<1>8. CASE o = 0
  <2>1. base = 0
    BY <1>2, <1>8
  <2>2. Cardinality(FlagsOf(SubSeq(air, 1, N))) <= Cardinality(FlagsOf(bs))
    <3>1. PICK z : z = 0
      OBVIOUS
    <3>2. z \in {0, 1} /\ z + 1 = 1
      BY <3>1
    <3>3. Lies(r, 0, z, 0)
      <4>1. 0 \in 0 .. S - 1 /\ 0 + o = S * z + 0
        BY <1>2, <1>8, <3>1
      <4> QED BY <1>1, <3>2, <4>1 DEF Lies
    <3> QED BY <1>5, <3>2, <3>3
  <2>3. PICK whole, kept : whole = Cardinality(FlagsOf(SubSeq(air, 1, N))) /\ kept = Cardinality(FlagsOf(bs))
    OBVIOUS
  <2>4. whole \in Int /\ kept \in Int /\ whole <= kept
    <3>1. 1 \in Int /\ 1 <= 1 /\ 1 <= N /\ N <= Len(air)
      BY <1>1, <1>3
    <3>2. air \in Seq(BitValue)
      BY <1>1, AirFacts
    <3>3. SubSeq(air, 1, N) \in Seq(BitValue) /\ bs \in Seq(BitValue)
      <4>1. SubSeq(air, 1, N) \in Seq(BitValue)
        BY <1>3, <3>1, <3>2, CutFlags
      <4>2. y <= Len(air)
        BY <1>1, <1>4
      <4> QED BY <1>4, <3>2, <4>1, <4>2, CutFlags
    <3>4. Cardinality(FlagsOf(SubSeq(air, 1, N))) \in Nat /\ Cardinality(FlagsOf(bs)) \in Nat
      BY <3>3, FlagListFacts
    <3> QED BY <2>2, <2>3, <3>4
  <2>5. x <= a
    <3>1. ASSUME x > a PROVE FALSE
      <4>1. a = 1 /\ late = 1 /\ x = 2 /\ y = N
        BY <1>3, <1>6, <2>1, <3>1
      <4>2. PICK z : z = 1
        OBVIOUS
      <4>3. z \in Int /\ z = Opening(r) /\ z + 1 = x
        BY <1>1, <4>1, <4>2
      <4>4. Cardinality(FlagsOf(SubSeq(air, z + 1, N))) < Cardinality(FlagsOf(SubSeq(air, z, N)))
        BY <1>1, <4>3, OpeningLost
      <4>5. kept < whole
        BY <1>4, <2>3, <4>1, <4>2, <4>3, <4>4
      <4> QED BY <2>4, <4>5
    <3> QED BY <1>3, <1>4, <3>1
  <2>6. c + 7 <= y
    <3>1. ASSUME c + 7 > y PROVE FALSE
      <4>1. y = N - 1 /\ N = c + 7 /\ late = 0 /\ x = 1
        BY <1>3, <1>4, <1>6, <2>1, <3>1
      <4>2. Cardinality(FlagsOf(SubSeq(air, 1, N - 1))) < Cardinality(FlagsOf(SubSeq(air, 1, N)))
        BY <1>1, <4>1, ClosingLost
      <4>3. kept < whole
        BY <1>4, <2>3, <4>1, <4>2
      <4> QED BY <2>4, <4>3
    <3> QED BY <1>3, <1>4, <3>1
  <2> QED BY <1>7, <2>5, <2>6
<1>9. CASE o # 0
  <2>1. r.tail # << >> /\ a >= 2
    <3>1. r.tail # << >> /\ (r.flags > 1 \/ r.noise # << >>)
      BY <1>1, <1>9 DEF Heard
    <3>2. PICK f, n : f = r.flags /\ n = Len(r.noise)
      OBVIOUS
    <3>3. f \in Nat /\ f > 0 /\ n \in Nat /\ (r.noise # << >> => n > 0)
      BY <3>2, RecordingType
    <3>4. a = n + 8 * f - 7
      BY <1>1, <3>2 DEF Opening
    <3> QED BY <3>1, <3>2, <3>3, <3>4
  <2>2. c + 7 <= y
    BY <1>3, <1>6, <2>1
  <2>3. x <= a
    <3>1. ASSUME x > a PROVE FALSE
      <4>1. a = 2 /\ late = 1 /\ base = 1 /\ x = 3 /\ y = N
        BY <1>2, <1>3, <1>6, <2>1, <3>1
      <4>2. PICK z, q : z = 1 /\ q = S - o
        OBVIOUS
      <4>3. Lies(r, q, z, 0)
        <5>1. q \in 0 .. S - 1 /\ q + o = S * z + 0 /\ z \in {0, 1} /\ 0 \in 0 .. S - 1
          BY <1>2, <1>9, <4>2
        <5> QED BY <1>1, <5>1 DEF Lies
      <4>4. Cardinality(FlagsOf(SubSeq(air, 2, N))) <= Cardinality(FlagsOf(bs))
        <5>1. z \in {0, 1} /\ z + 1 = 2
          BY <4>2
        <5> QED BY <1>5, <4>3, <5>1
      <4>5. PICK w : w = 2
        OBVIOUS
      <4>6. w \in Int /\ w = Opening(r) /\ w + 1 = x
        BY <1>1, <4>1, <4>5
      <4>7. Cardinality(FlagsOf(SubSeq(air, w + 1, N))) < Cardinality(FlagsOf(SubSeq(air, w, N)))
        BY <1>1, <4>6, OpeningLost
      <4>8. PICK ref, kept : ref = Cardinality(FlagsOf(SubSeq(air, 2, N))) /\ kept = Cardinality(FlagsOf(bs))
        OBVIOUS
      <4>9. kept < ref /\ ref <= kept
        BY <1>4, <4>1, <4>4, <4>5, <4>6, <4>7, <4>8
      <4>10. ref \in Int /\ kept \in Int
        <5>1. Air(r) \in Seq(BitValue)
          BY AirFacts
        <5>2. air \in Seq(BitValue) /\ 2 \in Int /\ 1 <= 2 /\ 2 <= N /\ N <= Len(air) /\ N \in Int
          BY <1>1, <1>3, <5>1
        <5>3. SubSeq(air, 2, N) \in Seq(BitValue)
          BY <5>2, CutFlags
        <5>4. y <= Len(air)
          BY <1>1, <1>4
        <5>5. bs \in Seq(BitValue)
          BY <1>4, <5>2, <5>4, CutFlags
        <5>6. Cardinality(FlagsOf(SubSeq(air, 2, N))) \in Nat /\ Cardinality(FlagsOf(bs)) \in Nat
          BY <5>3, <5>5, FlagListFacts
        <5> QED BY <4>8, <5>6
      <4> QED BY <4>9, <4>10
    <3> QED BY <1>3, <1>4, <3>1
  <2> QED BY <1>7, <2>2, <2>3
<1> QED BY <1>8, <1>9

-----------------------------------------------------------------------------
(* Frames arrive.                                                          *)

Count(s, p) == Cardinality(FlagsOf(BitsAt(s, p)))

\* What is kept are the bits of p, and none of the first n phases has more flags.
Best(p, n) ==
  /\ p \in 0 .. n - 1
  /\ bits = BitsAt(samples, p) /\ most = Count(samples, p)
  /\ \A j \in 0 .. n - 1 : Count(samples, j) <= most

\* demodulate: of the phases tried, one with the most flags is kept, and the
\* frames are cut from that one of all.
Chosen ==
  /\ IsRecording => samples = Samples(input)
  /\ stage = "recorded" => (phase = 0 /\ most = -1) \/ \E p : Best(p, phase)
  /\ stage = "frames" /\ IsRecording => frames = Frames(bits) /\ \E p : Best(p, SamplesPerSymbol)

LEMMA CountType ==
  ASSUME NEW s \in Seq(Tones), NEW p \in Nat
  PROVE  Count(s, p) \in Nat
BY BitsAtType, FlagListFacts DEF Count

LEMMA ChosenInit == Init => Chosen
<1> SUFFICES ASSUME Init PROVE Chosen
  OBVIOUS
<1>1. stage = (IF IsRecording THEN "recorded" ELSE "frames") /\ phase = 0 /\ most = -1
  BY DEF Init
<1>2. IsRecording => samples = Samples(input)
  BY DEF Init
<1> QED BY <1>1, <1>2 DEF Chosen

\* A turn of demodulate keeps the better of two.
LEMMA TryPhaseChosen == ASSUME Typed, Chosen, TryPhase PROVE Chosen'
<1>1. /\ stage = "recorded" /\ phase' = phase + 1
      /\ stage' = stage /\ input' = input /\ samples' = samples
  BY DEF TryPhase
<1>2. PICK f : f = Count(samples, phase)
  OBVIOUS
<1>3. IF f > most THEN bits' = BitsAt(samples, phase) /\ most' = f ELSE bits' = bits /\ most' = most
  BY <1>2 DEF TryPhase, Better, Count
<1>4. samples \in Seq(Tones) /\ phase \in Nat
  BY SamplesAssumption DEF Typed
<1>5. f \in Nat
  BY <1>2, <1>4, CountType
<1>6. \E p : Best(p, phase)'
  <2>1. CASE phase = 0 /\ most = -1
    <3>1. bits' = BitsAt(samples, phase) /\ most' = f
      BY <1>3, <1>5, <2>1
    <3>2. phase' = 1 /\ 0 .. phase' - 1 = {0}
      BY <1>1, <2>1
    <3>3. Count(samples, phase) <= most'
      BY <1>2, <1>5, <3>1
    <3>4. PICK q : q = 0
      OBVIOUS
    <3>5. q \in 0 .. phase' - 1 /\ bits' = BitsAt(samples, q) /\ most' = Count(samples, q)
      BY <1>2, <2>1, <3>1, <3>2, <3>4
    <3>6. \A j \in 0 .. phase' - 1 : Count(samples, j) <= most'
      BY <2>1, <3>2, <3>3
    <3>7. Best(q, phase)'
      BY <1>1, <3>5, <3>6 DEF Best, Count
    <3> QED BY <3>7
  <2>2. CASE \E p : Best(p, phase)
    <3>1. PICK p : Best(p, phase)
      BY <2>2
    <3>2. /\ p \in 0 .. phase - 1 /\ bits = BitsAt(samples, p) /\ most = Count(samples, p)
          /\ \A j \in 0 .. phase - 1 : Count(samples, j) <= most
      BY <3>1 DEF Best
    <3>3. most \in Nat
      <4>1. p \in Nat
        BY <1>4, <3>2
      <4> QED BY <1>4, <3>2, <4>1, CountType
    <3>4. PICK q : q = IF f > most THEN phase ELSE p
      OBVIOUS
    <3>5. q \in 0 .. phase' - 1 /\ bits' = BitsAt(samples, q) /\ most' = Count(samples, q)
      BY <1>1, <1>2, <1>3, <1>4, <3>2, <3>4
    <3>6. most <= most' /\ f <= most' /\ most' \in Nat
      BY <1>3, <1>5, <3>3
    <3>7. ASSUME NEW j \in 0 .. phase' - 1 PROVE Count(samples, j) <= most'
      <4>1. CASE j = phase
        BY <1>2, <3>6, <4>1
      <4>2. CASE j # phase
        <5>1. j \in 0 .. phase - 1 /\ j \in Nat
          BY <1>1, <1>4, <4>2
        <5>2. Count(samples, j) <= most /\ Count(samples, j) \in Nat
          BY <1>4, <3>2, <5>1, CountType
        <5> QED BY <3>3, <3>6, <5>2
      <4> QED BY <4>1, <4>2
    <3>8. Best(q, phase)'
      BY <1>1, <3>5, <3>7 DEF Best, Count
    <3> QED BY <3>8
  <2> QED BY <1>1, <2>1, <2>2 DEF Chosen
<1>7. IsRecording' = IsRecording
  BY <1>1 DEF IsRecording
<1>8. IsRecording' => samples' = Samples(input)'
  BY <1>1, <1>7 DEF Chosen
<1> QED BY <1>1, <1>6, <1>8 DEF Chosen

LEMMA ChosenStep == ASSUME Typed, Chosen, [Next]_vars PROVE Chosen'
<1>1. CASE TryPhase
  BY <1>1, TryPhaseChosen
<1>2. CASE Extract
  <2>1. /\ stage = "recorded" /\ phase = SamplesPerSymbol /\ frames' = Frames(bits) /\ stage' = "frames"
        /\ input' = input /\ samples' = samples /\ bits' = bits /\ most' = most
    BY <1>2 DEF Extract, demod
  <2>2. phase # 0
    BY <2>1, SamplesAssumption
  <2>3. PICK p : Best(p, SamplesPerSymbol)
    BY <2>1, <2>2 DEF Chosen
  <2>4. Best(p, SamplesPerSymbol)'
    BY <2>1, <2>3 DEF Best, Count
  <2>5. IsRecording' => samples' = Samples(input)'
    BY <2>1 DEF Chosen, IsRecording
  <2>6. frames' = Frames(bits)'
    BY <2>1
  <2> QED BY <2>1, <2>4, <2>5, <2>6 DEF Chosen
<1>3. CASE Decode \/ UNCHANGED vars
  <2>1. /\ stage' = stage /\ input' = input /\ samples' = samples /\ phase' = phase
        /\ bits' = bits /\ most' = most /\ frames' = frames
    BY <1>3 DEF Decode, demod, vars
  <2>2. IsRecording' = IsRecording
    BY <2>1 DEF IsRecording
  <2>3. \A p : Best(p, phase) => Best(p, phase)'
    BY <2>1 DEF Best, Count
  <2>4. \A p : Best(p, SamplesPerSymbol) => Best(p, SamplesPerSymbol)'
    BY <2>1 DEF Best, Count
  <2> QED BY <2>1, <2>2, <2>3, <2>4 DEF Chosen
<1>4. CASE Decoded \/ Demultiplex \/ Scored \/ Dropped \/ DeadLetter
  <2>1. stage' \notin {"recorded", "frames"} /\ input' = input /\ samples' = samples
    BY <1>4 DEF Decoded, Demultiplex, Scored, Dropped, DeadLetter, demod
  <2>2. IsRecording' = IsRecording
    BY <2>1 DEF IsRecording
  <2> QED BY <2>1, <2>2 DEF Chosen
<1>5. CASE NextFrame
  <2>1. stage' = "frames" /\ input' \in RawFrames
    BY <1>5 DEF NextFrame
  <2>2. input' \in [norad : Int, octets : Seq(Octet)]
    BY <2>1, RawFramesAssumption
  <2>3. ~IsRecording'
    BY <2>2 DEF IsRecording
  <2> QED BY <2>1, <2>3 DEF Chosen
<1> QED BY <1>1, <1>2, <1>3, <1>4, <1>5 DEF Next

LEMMA ChosenArrives == ASSUME Typed, Chosen PROVE FramesArrive
<1> SUFFICES ASSUME stage = "frames", IsRecording, Heard(input), Clear
             PROVE  \E k \in DOMAIN frames : frames[k] = input.sent
  BY DEF FramesArrive
<1>1. input \in Recordings
  <2>1. input \in Recordings \cup RawFrames
    BY DEF Typed
  <2> QED BY <2>1, InputType DEF IsRecording
<1>2. samples = Samples(input) /\ frames = Frames(bits)
  BY DEF Chosen
<1>3. PICK p : Best(p, SamplesPerSymbol)
  BY DEF Chosen
<1>4. /\ p \in 0 .. SamplesPerSymbol - 1 /\ bits = BitsAt(samples, p) /\ most = Count(samples, p)
      /\ \A j \in 0 .. SamplesPerSymbol - 1 : Count(samples, j) <= most
  BY <1>3 DEF Best
<1>5. p \notin Askew
  <2>1. ASSUME p \in Askew PROVE FALSE
    <3>1. PICK q \in 0 .. SamplesPerSymbol - 1 : Flags(p) < Flags(q)
      BY <2>1 DEF Clear
    <3>2. PICK f, g : f = Count(samples, p) /\ g = Count(samples, q)
      OBVIOUS
    <3>3. f < g
      BY <3>1, <3>2 DEF Flags, Count
    <3>4. g <= f
      BY <1>4, <3>2
    <3>5. f \in Nat /\ g \in Nat
      <4>1. samples \in Seq(Tones) /\ p \in Nat /\ q \in Nat
        BY <1>4, SamplesAssumption DEF Typed
      <4> QED BY <3>2, <4>1, CountType
    <3> QED BY <3>3, <3>4, <3>5
  <2> QED BY <2>1
<1>6. PICK base, d : Lies(input, p, base, d) /\ (p + input.offset) % SamplesPerSymbol = d
  BY <1>1, <1>4, LiesSomewhere
<1>7. 2 * d # SamplesPerSymbol
  BY <1>4, <1>5, <1>6 DEF Askew
<1>8. \A q \in 0 .. SamplesPerSymbol - 1 :
        Cardinality(FlagsOf(BitsAt(Samples(input), q))) <= Cardinality(FlagsOf(bits))
  BY <1>2, <1>4 DEF Count
<1>9. PICK r : r = input
  OBVIOUS
<1>10. bits = BitsAt(Samples(r), p)
  BY <1>2, <1>4, <1>9
<1>11. \E k \in DOMAIN Frames(bits) : Frames(bits)[k] = r.sent
  BY <1>1, <1>6, <1>7, <1>8, <1>9, <1>10, KeptBest
<1> QED BY <1>2, <1>9, <1>11

\* demodulate, extract_frames: a frame received without an error is among those
\* cut from its recording, whatever its octets, its length, the noise and the
\* flags before it and the sample at which the recording begins, unless a window
\* askew shows as many flags.
THEOREM RecordingsArrive == Spec => []FramesArrive
<1>1. Typed /\ Chosen => FramesArrive
  BY ChosenArrives
<1>2. Init => Chosen
  BY ChosenInit
<1>3. Typed /\ Chosen /\ [Next]_vars => Chosen'
  BY ChosenStep
<1>4. Spec => []Typed
  BY DecoderTyped
<1> QED BY <1>1, <1>2, <1>3, <1>4, PTL DEF Spec

-----------------------------------------------------------------------------
(* What the check sequence detects.                                        *)

Registers == SUBSET (0 .. 15)

\* The polynomial is subtracted as the bit is taken in.
Fed(r, bit) == ~((0 \in r) <=> (bit = 1))

\* The bits of r and s are the same from k on.
Agree(r, s, k) == \A j \in 0 .. 15 : j >= k => (j \in r <=> j \in s)

LEMMA CrcBitFacts ==
  ASSUME NEW r \in Registers, NEW bit
  PROVE  /\ CrcBit(r, bit) \in Registers
         /\ \A j \in 0 .. 15 : j \in CrcBit(r, bit) <=> ~((j + 1 \in r) <=> (Fed(r, bit) /\ j \in {15, 10, 3}))
<1>1. PICK shifted : shifted = { b - 1 : b \in r \ {0} }
  OBVIOUS
<1>2. r \subseteq 0 .. 15
  BY DEF Registers
<1>3. \A j \in 0 .. 15 : j \in shifted <=> j + 1 \in r
  <2>1. ASSUME NEW j \in 0 .. 15, j \in shifted PROVE j + 1 \in r
    <3>1. PICK b \in r \ {0} : j = b - 1
      BY <1>1, <2>1
    <3>2. b \in 0 .. 15 /\ b = j + 1
      BY <1>2, <3>1
    <3> QED BY <3>1, <3>2
  <2>2. ASSUME NEW j \in 0 .. 15, j + 1 \in r PROVE j \in shifted
    <3>1. PICK b : b = j + 1
      OBVIOUS
    <3>2. b \in r \ {0} /\ b - 1 = j
      BY <2>2, <3>1
    <3> QED BY <1>1, <3>2
  <2> QED BY <2>1, <2>2
<1>4. shifted \subseteq 0 .. 15
  <2> SUFFICES ASSUME NEW j \in shifted PROVE j \in 0 .. 15
    OBVIOUS
  <2>1. PICK b \in r \ {0} : j = b - 1
    BY <1>1
  <2>2. b \in 0 .. 15 /\ b # 0
    BY <1>2, <2>1
  <2> QED BY <2>1, <2>2
<1>5. CASE Fed(r, bit)
  <2>1. CrcBit(r, bit) = Xor(shifted, {15, 10, 3})
    BY <1>1, <1>5 DEF CrcBit, Fed
  <2>2. \A j : j \in CrcBit(r, bit) <=> ~(j \in shifted <=> j \in {15, 10, 3})
    BY <2>1 DEF Xor
  <2>3. {15, 10, 3} \subseteq 0 .. 15
    OBVIOUS
  <2>4. CrcBit(r, bit) \subseteq 0 .. 15
    BY <1>4, <2>2, <2>3
  <2> QED BY <1>3, <1>5, <2>2, <2>4 DEF Registers
<1>6. CASE ~Fed(r, bit)
  <2>1. CrcBit(r, bit) = shifted
    BY <1>1, <1>6 DEF CrcBit, Fed
  <2> QED BY <1>3, <1>4, <1>6, <2>1 DEF Registers
<1> QED BY <1>5, <1>6

LEMMA AgreeAll ==
  ASSUME NEW r \in Registers, NEW s \in Registers
  PROVE  Agree(r, s, 0) <=> r = s
<1>1. r \subseteq 0 .. 15 /\ s \subseteq 0 .. 15 /\ \A j \in 0 .. 15 : j >= 0
  BY DEF Registers
<1> QED BY <1>1 DEF Agree

\* Registers that agree from k on fed the polynomial back alike, and agreed from
\* k + 1 on.
LEMMA AgreedBefore ==
  ASSUME NEW r \in Registers, NEW s \in Registers, NEW a, NEW b, NEW k \in 0 .. 15,
         Agree(CrcBit(r, a), CrcBit(s, b), k)
  PROVE  (Fed(r, a) <=> Fed(s, b)) /\ Agree(r, s, k + 1)
<1>1. PICK p, q : p = CrcBit(r, a) /\ q = CrcBit(s, b)
  OBVIOUS
<1>2. /\ \A j \in 0 .. 15 : j \in p <=> ~((j + 1 \in r) <=> (Fed(r, a) /\ j \in {15, 10, 3}))
      /\ \A j \in 0 .. 15 : j \in q <=> ~((j + 1 \in s) <=> (Fed(s, b) /\ j \in {15, 10, 3}))
  BY <1>1, CrcBitFacts
<1>3. \A j \in 0 .. 15 : j >= k => (j \in p <=> j \in q)
  BY <1>1 DEF Agree
<1>4. Fed(r, a) <=> Fed(s, b)
  <2>1. 15 \in 0 .. 15 /\ 15 >= k /\ 15 + 1 \notin r /\ 15 + 1 \notin s
    <3>1. 16 \notin 0 .. 15
      OBVIOUS
    <3> QED BY <3>1 DEF Registers
  <2>2. (15 \in p <=> Fed(r, a)) /\ (15 \in q <=> Fed(s, b))
    BY <1>2, <2>1
  <2> QED BY <1>3, <2>1, <2>2
<1>5. ASSUME NEW j \in 0 .. 15, j >= k + 1 PROVE j \in r <=> j \in s
  <2>1. PICK i : i = j - 1
    OBVIOUS
  <2>2. i \in 0 .. 15 /\ i >= k /\ i + 1 = j
    BY <1>5, <2>1
  <2>3. (i \in p <=> ~((j \in r) <=> (Fed(r, a) /\ i \in {15, 10, 3}))) /\ (i \in q <=> ~((j \in s) <=> (Fed(s, b) /\ i \in {15, 10, 3})))
    BY <1>2, <2>2
  <2>4. i \in p <=> i \in q
    BY <1>3, <2>2
  <2> QED BY <1>4, <2>3, <2>4
<1> QED BY <1>4, <1>5 DEF Agree

\* f is the register as it takes in the n bits of bs.
Takes(f, n, bs, start) ==
  /\ f[0] = start
  /\ \A i \in 0 .. n : f[i] \in Registers
  /\ \A i \in 1 .. n : f[i] = CrcBit(f[i - 1], bs[i])

LEMMA TakesOnce ==
  ASSUME NEW n \in Nat, NEW bs, NEW start, NEW f, NEW g, Takes(f, n, bs, start), Takes(g, n, bs, start)
  PROVE  \A i \in 0 .. n : f[i] = g[i]
<1> DEFINE P == { i \in 0 .. n : f[i] = g[i] }
<1>1. 0 \in P
  BY DEF Takes
<1>2. ASSUME NEW i \in 1 .. n, i - 1 \in P PROVE i \in P
  <2>1. f[i - 1] = g[i - 1]
    BY <1>2
  <2>2. f[i] = CrcBit(f[i - 1], bs[i]) /\ g[i] = CrcBit(g[i - 1], bs[i])
    BY DEF Takes
  <2>3. i \in 0 .. n
    OBVIOUS
  <2> QED BY <2>1, <2>2, <2>3
<1> HIDE DEF P
<1>3. \A i \in 0 .. n : i \in P
  BY <1>1, <1>2, BoundedInduction
<1> QED BY <1>3 DEF P

LEMMA TakesSome ==
  ASSUME NEW n \in Nat, NEW bs, NEW start \in Registers
  PROVE  \E f : f = [i \in 0 .. n |-> f[i]] /\ Takes(f, n, bs, start)
<1> DEFINE step == [i \in 1 .. n |-> [x \in Registers |-> CrcBit(x, bs[i])]]
<1>1. step \in Steps(1 .. n, Registers)
  <2>1. \A i \in 1 .. n : \A x \in Registers : CrcBit(x, bs[i]) \in Registers
    BY CrcBitFacts
  <2> QED BY <2>1 DEF Steps
<1>2. \A i \in 1 .. n : \A x \in Registers : step[i][x] = CrcBit(x, bs[i])
  OBVIOUS
<1> HIDE DEF step
<1>3. PICK f : FollowsTo(n, f, Registers, start, step)
  BY <1>1, BoundedRecursion
<1>4. f \in [0 .. n -> Registers] /\ f[0] = start /\ \A i \in 1 .. n : f[i] = step[i][f[i - 1]]
  BY <1>3 DEF FollowsTo
<1>5. ASSUME NEW i \in 1 .. n PROVE f[i] = CrcBit(f[i - 1], bs[i])
  <2>1. i - 1 \in 0 .. n
    OBVIOUS
  <2>2. f[i - 1] \in Registers
    BY <1>4, <2>1
  <2> QED BY <1>2, <1>4, <2>2
<1>6. Takes(f, n, bs, start)
  BY <1>4, <1>5 DEF Takes
<1> QED BY <1>4, <1>6

OctetBits(o) == [ i \in 1 .. 8 |-> Bit(o, i - 1) ]

LEMMA CrcOctetIs ==
  ASSUME NEW register \in Registers, NEW o, NEW f, Takes(f, 8, OctetBits(o), register)
  PROVE  CrcOctet(o)[register] = f[8]
<1> DEFINE body(h) == [i \in 0 .. 8 |-> IF i = 0 THEN register ELSE CrcBit(h[i - 1], Bit(o, i - 1))]
           r == CHOOSE h : h = body(h)
<1>1. CrcOctet(o)[register] = r[8]
  BY DEF CrcOctet, Registers
<1>2. \A i \in 1 .. 8 : OctetBits(o)[i] = Bit(o, i - 1)
  BY DEF OctetBits
<1>3. PICK g : g = [i \in 0 .. 8 |-> g[i]] /\ Takes(g, 8, OctetBits(o), register)
  <2>1. 8 \in Nat
    OBVIOUS
  <2> QED BY <2>1, TakesSome
<1>4. g = body(g)
  <2>1. ASSUME NEW i \in 0 .. 8 PROVE g[i] = IF i = 0 THEN register ELSE CrcBit(g[i - 1], Bit(o, i - 1))
    <3>1. CASE i = 0
      BY <1>3, <3>1 DEF Takes
    <3>2. CASE i # 0
      <4>1. i \in 1 .. 8
        BY <3>2
      <4>2. g[i] = CrcBit(g[i - 1], OctetBits(o)[i])
        BY <1>3, <4>1 DEF Takes
      <4> QED BY <1>2, <3>2, <4>1, <4>2
    <3> QED BY <3>1, <3>2
  <2> QED BY <1>3, <2>1
<1>5. r = body(r)
  <2> HIDE DEF body
  <2> QED BY <1>4
<1>6. \A i \in 0 .. 8 : r[i] = IF i = 0 THEN register ELSE CrcBit(r[i - 1], Bit(o, i - 1))
  <2> HIDE DEF r
  <2> QED BY <1>5
<1> HIDE DEF r, body
<1> DEFINE P == { i \in 0 .. 8 : r[i] = f[i] }
<1>7. 0 \in P
  BY <1>6 DEF Takes
<1>8. ASSUME NEW i \in 1 .. 8, i - 1 \in P PROVE i \in P
  <2>1. i \in 0 .. 8 /\ i # 0 /\ r[i - 1] = f[i - 1]
    BY <1>8
  <2>2. f[i] = CrcBit(f[i - 1], OctetBits(o)[i])
    BY DEF Takes
  <2>3. r[i] = CrcBit(r[i - 1], Bit(o, i - 1))
    BY <1>6, <2>1
  <2> QED BY <1>2, <2>1, <2>2, <2>3
<1>9. \A i \in 0 .. 8 : i \in P
  <2>1. 8 \in Nat
    OBVIOUS
  <2> HIDE DEF P
  <2> QED BY <1>7, <1>8, <2>1, BoundedInduction
<1>10. 8 \in P
  BY <1>9
<1> QED BY <1>1, <1>10

\* The check sequence is the complement of the register after all bits.
LEMMA Crc16Is ==
  ASSUME NEW octets \in Seq(Octet), NEW n, n = 8 * Len(octets),
         NEW reg, Takes(reg, n, Source(octets, n), 0 .. 15)
  PROVE  Crc16(octets) = (0 .. 15) \ reg[n]
<1> DEFINE N == Len(octets)
           body(h) == [k \in 0 .. N |-> IF k = 0 THEN 0 .. 15 ELSE CrcOctet(octets[k])[h[k - 1]]]
           m == CHOOSE h : h = body(h)
           g == [k \in 0 .. N |-> reg[8 * k]]
<1>1. Crc16(octets) = (0 .. 15) \ m[N]
  BY DEF Crc16
<1>2. N \in Nat /\ n = 8 * N /\ \A k \in 1 .. N : octets[k] \in Octet
  OBVIOUS
<1>3. /\ reg[0] = 0 .. 15 /\ \A i \in 0 .. n : reg[i] \in Registers
      /\ \A i \in 1 .. n : reg[i] = CrcBit(reg[i - 1], Source(octets, n)[i])
  BY DEF Takes
<1>4. \A j \in 1 .. n : Source(octets, n)[j] = Bit(octets[(j - 1) \div 8 + 1], (j - 1) % 8)
  BY DEF Source
<1> HIDE DEF N
<1>5. ASSUME NEW k \in 1 .. N PROVE CrcOctet(octets[k])[reg[8 * (k - 1)]] = reg[8 * k]
  <2>1. PICK base, o : base = 8 * (k - 1) /\ o = octets[k]
    OBVIOUS
  <2>2. base \in Nat /\ base + 8 = 8 * k /\ base + 8 <= n /\ o \in Octet
    BY <1>2, <2>1
  <2> DEFINE f == [j \in 0 .. 8 |-> reg[base + j]]
  <2>3. f[0] = reg[base] /\ f[8] = reg[8 * k]
    BY <2>2
  <2>4. ASSUME NEW i \in 0 .. 8 PROVE f[i] \in Registers
    <3>1. base + i \in 0 .. n
      BY <1>2, <2>2
    <3> QED BY <1>3, <3>1
  <2>5. ASSUME NEW i \in 1 .. 8 PROVE f[i] = CrcBit(f[i - 1], OctetBits(o)[i])
    <3>1. PICK j, e : j = base + i /\ e = i - 1
      OBVIOUS
    <3>2. j \in 1 .. n /\ j - 1 = 8 * (k - 1) + e /\ k - 1 \in Int /\ e \in 0 .. 7 /\ j - 1 = base + e /\ i \in 0 .. 8 /\ e \in 0 .. 8
      BY <1>2, <2>1, <2>2, <3>1
    <3>3. (j - 1) \div 8 = k - 1 /\ (j - 1) % 8 = e
      BY <3>2, ModDiv
    <3>4. Source(octets, n)[j] = Bit(octets[(j - 1) \div 8 + 1], (j - 1) % 8)
      BY <1>4, <3>2
    <3>5. (j - 1) \div 8 + 1 = k
      BY <3>3
    <3>6. Source(octets, n)[j] = OctetBits(o)[i]
      BY <2>1, <3>1, <3>3, <3>4, <3>5 DEF OctetBits
    <3>7. reg[j] = CrcBit(reg[j - 1], Source(octets, n)[j])
      BY <1>3, <3>2
    <3>8. f[i] = reg[j] /\ f[i - 1] = reg[j - 1]
      BY <3>1, <3>2
    <3> QED BY <3>6, <3>7, <3>8
  <2> HIDE DEF f
  <2>6. Takes(f, 8, OctetBits(o), reg[base])
    BY <2>3, <2>4, <2>5 DEF Takes
  <2>7. reg[base] \in Registers
    <3>1. base \in 0 .. n
      BY <1>2, <2>2
    <3> QED BY <1>3, <3>1
  <2>8. CrcOctet(o)[reg[base]] = f[8]
    BY <2>6, <2>7, CrcOctetIs
  <2> QED BY <2>1, <2>3, <2>8
<1>6. g = body(g)
  <2>1. ASSUME NEW k \in 0 .. N PROVE g[k] = IF k = 0 THEN 0 .. 15 ELSE CrcOctet(octets[k])[g[k - 1]]
    <3>1. CASE k = 0
      <4>1. g[0] = reg[0]
        BY <1>2
      <4> QED BY <1>3, <3>1, <4>1
    <3>2. CASE k # 0
      <4>1. k \in 1 .. N /\ k - 1 \in 0 .. N
        BY <1>2, <3>2
      <4>2. g[k] = reg[8 * k] /\ g[k - 1] = reg[8 * (k - 1)]
        BY <4>1
      <4>3. CrcOctet(octets[k])[reg[8 * (k - 1)]] = reg[8 * k]
        BY <1>5, <4>1
      <4> QED BY <3>2, <4>2, <4>3
    <3> QED BY <3>1, <3>2
  <2> QED BY <2>1
<1>7. m = body(m)
  <2> HIDE DEF body, g
  <2> QED BY <1>6
<1>8. \A k \in 0 .. N : m[k] = IF k = 0 THEN 0 .. 15 ELSE CrcOctet(octets[k])[m[k - 1]]
  <2> HIDE DEF m
  <2> QED BY <1>7
<1> HIDE DEF m, body, g
<1> DEFINE P == { k \in 0 .. N : m[k] = reg[8 * k] }
<1>9. 0 \in P
  <2>1. 0 \in 0 .. N /\ 8 * 0 = 0
    BY <1>2
  <2>2. m[0] = 0 .. 15
    BY <1>8, <2>1
  <2> QED BY <1>3, <2>1, <2>2
<1>10. ASSUME NEW k \in 1 .. N, k - 1 \in P PROVE k \in P
  <2>1. k \in 0 .. N /\ k # 0 /\ m[k - 1] = reg[8 * (k - 1)]
    BY <1>2, <1>10
  <2>2. m[k] = CrcOctet(octets[k])[m[k - 1]]
    BY <1>8, <2>1
  <2>3. m[k] = reg[8 * k]
    BY <1>5, <2>1, <2>2
  <2> QED BY <2>1, <2>3
<1>11. \A k \in 0 .. N : k \in P
  <2> HIDE DEF P
  <2> QED BY <1>2, <1>9, <1>10, BoundedInduction
<1>12. m[N] = reg[8 * N]
  <2>1. N \in 0 .. N
    BY <1>2
  <2> QED BY <1>11, <2>1
<1> QED BY <1>1, <1>2, <1>12

LEMMA Halved ==
  ASSUME NEW b \in BitValue, NEW n \in Nat
  PROVE  (b + 2 * n) \div 2 = n /\ (b + 2 * n) % 2 = b /\ b + 2 * n \in Nat
<1>1. b = 0 \/ b = 1
  BY DEF BitValue
<1> QED BY <1>1

\* The bits of the number of eight bits are those.
LEMMA BitsOfNumber ==
  ASSUME NEW bs \in Seq(BitValue), Len(bs) = 8, NEW i \in 1 .. 8
  PROVE  Bit(Number(bs), i - 1) = bs[i]
<1>1. PICK n :
        /\ n[0] = 0
        /\ \A k \in 1 .. 8 : n[k] = bs[8 - k + 1] + 2 * n[k - 1]
        /\ Number(bs) = n[8]
  BY NumberRecursion
<1>2. \A k \in 1 .. 8 : bs[k] \in BitValue
  BY ElementOfSeq
<1>3. ASSUME NEW k \in 0 .. 7, n[k] \in Nat
      PROVE  n[k + 1] \in Nat /\ n[k + 1] \div 2 = n[k] /\ n[k + 1] % 2 = bs[8 - k]
  <2>1. PICK j, b, h : j = k + 1 /\ b = bs[8 - k] /\ h = n[k]
    OBVIOUS
  <2>2. j \in 1 .. 8 /\ 8 - j + 1 = 8 - k /\ j - 1 = k /\ 8 - k \in 1 .. 8
    BY <2>1
  <2>3. n[j] = bs[8 - j + 1] + 2 * n[j - 1]
    BY <1>1, <2>2
  <2>4. n[j] = b + 2 * h /\ b \in BitValue /\ h \in Nat
    BY <1>2, <1>3, <2>1, <2>2, <2>3
  <2>5. n[j] \in Nat /\ n[j] \div 2 = h /\ n[j] % 2 = b
    BY <2>4, Halved
  <2> QED BY <2>1, <2>5
<1>4. n[0] \in Nat /\ n[1] \in Nat /\ n[1] % 2 = bs[8]
  <2>1. 0 \in 0 .. 7 /\ n[0] \in Nat
    BY <1>1
  <2>2. n[0 + 1] \in Nat /\ n[0 + 1] % 2 = bs[8 - 0]
    BY <1>3, <2>1
  <2> QED BY <2>1, <2>2
<1>5. n[2] \in Nat /\ n[2] \div 2 = n[1] /\ n[2] % 2 = bs[7]
  <2>1. n[1 + 1] \in Nat /\ n[1 + 1] \div 2 = n[1] /\ n[1 + 1] % 2 = bs[8 - 1]
    BY <1>3, <1>4
  <2> QED BY <2>1
<1>6. n[3] \in Nat /\ n[3] \div 2 = n[2] /\ n[3] % 2 = bs[6]
  <2>1. n[2 + 1] \in Nat /\ n[2 + 1] \div 2 = n[2] /\ n[2 + 1] % 2 = bs[8 - 2]
    BY <1>3, <1>5
  <2> QED BY <2>1
<1>7. n[4] \in Nat /\ n[4] \div 2 = n[3] /\ n[4] % 2 = bs[5]
  <2>1. n[3 + 1] \in Nat /\ n[3 + 1] \div 2 = n[3] /\ n[3 + 1] % 2 = bs[8 - 3]
    BY <1>3, <1>6
  <2> QED BY <2>1
<1>8. n[5] \in Nat /\ n[5] \div 2 = n[4] /\ n[5] % 2 = bs[4]
  <2>1. n[4 + 1] \in Nat /\ n[4 + 1] \div 2 = n[4] /\ n[4 + 1] % 2 = bs[8 - 4]
    BY <1>3, <1>7
  <2> QED BY <2>1
<1>9. n[6] \in Nat /\ n[6] \div 2 = n[5] /\ n[6] % 2 = bs[3]
  <2>1. n[5 + 1] \in Nat /\ n[5 + 1] \div 2 = n[5] /\ n[5 + 1] % 2 = bs[8 - 5]
    BY <1>3, <1>8
  <2> QED BY <2>1
<1>10. n[7] \in Nat /\ n[7] \div 2 = n[6] /\ n[7] % 2 = bs[2]
  <2>1. n[6 + 1] \in Nat /\ n[6 + 1] \div 2 = n[6] /\ n[6 + 1] % 2 = bs[8 - 6]
    BY <1>3, <1>9
  <2> QED BY <2>1
<1>11. n[8] \in Nat /\ n[8] \div 2 = n[7] /\ n[8] % 2 = bs[1]
  <2>1. n[7 + 1] \in Nat /\ n[7 + 1] \div 2 = n[7] /\ n[7 + 1] % 2 = bs[8 - 7]
    BY <1>3, <1>10
  <2> QED BY <2>1
<1>12. PICK o : o = n[8]
  OBVIOUS
<1>13. o \in Nat /\ o \div 1 = o /\ o \div 2 = n[7]
  BY <1>11, <1>12
<1>14. o \div 4 = n[6] /\ o \div 8 = n[5] /\ o \div 16 = n[4]
  <2>1. o \div 4 = (o \div 2) \div 2 /\ o \div 8 = (o \div 4) \div 2 /\ o \div 16 = (o \div 8) \div 2
    BY <1>13
  <2>2. o \div 4 = n[6]
    BY <1>10, <1>13, <2>1
  <2>3. o \div 8 = n[5]
    BY <1>9, <2>1, <2>2
  <2>4. o \div 16 = n[4]
    BY <1>8, <2>1, <2>3
  <2> QED BY <2>2, <2>3, <2>4
<1>15. o \div 32 = n[3] /\ o \div 64 = n[2] /\ o \div 128 = n[1]
  <2>1. o \div 32 = (o \div 16) \div 2 /\ o \div 64 = (o \div 32) \div 2 /\ o \div 128 = (o \div 64) \div 2
    BY <1>13
  <2>2. o \div 32 = n[3]
    BY <1>7, <1>14, <2>1
  <2>3. o \div 64 = n[2]
    BY <1>6, <2>1, <2>2
  <2>4. o \div 128 = n[1]
    BY <1>5, <2>1, <2>3
  <2> QED BY <2>2, <2>3, <2>4
<1>16. /\ Bit(o, 0) = bs[1] /\ Bit(o, 1) = bs[2] /\ Bit(o, 2) = bs[3] /\ Bit(o, 3) = bs[4]
       /\ Bit(o, 4) = bs[5] /\ Bit(o, 5) = bs[6] /\ Bit(o, 6) = bs[7] /\ Bit(o, 7) = bs[8]
  <2>1. /\ Bit(o, 0) = (o \div 1) % 2 /\ Bit(o, 1) = (o \div 2) % 2
        /\ Bit(o, 2) = (o \div 4) % 2 /\ Bit(o, 3) = (o \div 8) % 2
        /\ Bit(o, 4) = (o \div 16) % 2 /\ Bit(o, 5) = (o \div 32) % 2
        /\ Bit(o, 6) = (o \div 64) % 2 /\ Bit(o, 7) = (o \div 128) % 2
    BY BitValues
  <2>2. Bit(o, 0) = bs[1] /\ Bit(o, 1) = bs[2] /\ Bit(o, 2) = bs[3] /\ Bit(o, 3) = bs[4]
    BY <1>8, <1>9, <1>10, <1>11, <1>12, <1>13, <1>14, <2>1
  <2>3. Bit(o, 4) = bs[5] /\ Bit(o, 5) = bs[6] /\ Bit(o, 6) = bs[7] /\ Bit(o, 7) = bs[8]
    BY <1>4, <1>5, <1>6, <1>7, <1>14, <1>15, <2>1
  <2> QED BY <2>2, <2>3
<1>17. /\ i \in {1, 2, 3, 4, 5, 6, 7, 8}
       /\ 1 - 1 = 0 /\ 2 - 1 = 1 /\ 3 - 1 = 2 /\ 4 - 1 = 3 /\ 5 - 1 = 4 /\ 6 - 1 = 5 /\ 7 - 1 = 6 /\ 8 - 1 = 7
  OBVIOUS
<1>18. Bit(o, i - 1) = bs[i]
  <2>1. CASE i \in {1, 2, 3, 4}
    BY <1>16, <1>17, <2>1
  <2>2. CASE i \in {5, 6, 7, 8}
    BY <1>16, <1>17, <2>2
  <2> QED BY <1>17, <2>1, <2>2
<1> QED BY <1>1, <1>12, <1>18

\* The last sixteen bits of a frame that passes are the complement of the register.
LEMMA LastBits ==
  ASSUME NEW x \in Seq(Octet), VerifyFcs(x), NEW n, n = 8 * Len(x),
         NEW reg, Takes(reg, n, Source(x, n), 0 .. 15)
  PROVE  /\ n >= 24
         /\ \A j \in 0 .. 15 : Source(x, n)[n - 16 + j + 1] = 1 <=> j \notin reg[n - 16]
<1>1. PICK N, m, p, crc, fcs : /\ N = Len(x) /\ m = n - 16 /\ p = SubSeq(x, 1, Len(x) - 2)
                               /\ crc = Crc16(p) /\ fcs = FcsOctets(crc)
  OBVIOUS
<1>2. N \in Nat /\ N >= 3 /\ n = 8 * N /\ m = 8 * (N - 2) /\ n >= 24 /\ m \in Nat
  <2>1. N \in Nat /\ N >= 3
    BY <1>1 DEF VerifyFcs
  <2>2. n = 8 * N
    BY <1>1
  <2> QED BY <1>1, <2>1, <2>2
<1>3. p \in Seq(Octet) /\ Len(p) = N - 2 /\ \A k \in 1 .. N - 2 : p[k] = x[k]
  <2>1. PICK u : u = N - 2
    OBVIOUS
  <2>2. u \in Int /\ 1 <= u /\ u <= Len(x) /\ u - 1 + 1 = u /\ 1 \in Int
    BY <1>1, <1>2, <2>1
  <2>3. SliceOf(Octet, x, 1, u)
    BY <2>2, SliceIs
  <2>4. /\ SubSeq(x, 1, u) \in Seq(Octet) /\ Len(SubSeq(x, 1, u)) = u
        /\ \A k \in 1 .. u : SubSeq(x, 1, u)[k] = x[1 + k - 1]
    BY <2>2, <2>3 DEF SliceOf
  <2>5. \A k \in 1 .. u : 1 + k - 1 = k
    OBVIOUS
  <2> QED BY <1>1, <2>1, <2>4, <2>5
<1>4. SubSeq(x, N - 1, N) = fcs
  BY <1>1 DEF VerifyFcs
<1>5. ASSUME NEW k \in 1 .. 2 PROVE x[N - 2 + k] = fcs[k]
  <2>1. PICK u, v : u = N - 1 /\ v = N
    OBVIOUS
  <2>2. u \in Int /\ v \in Int /\ 1 <= u /\ u <= v /\ v <= Len(x) /\ v - u + 1 = 2 /\ u + k - 1 = N - 2 + k
    BY <1>1, <1>2, <2>1
  <2>3. SliceOf(Octet, x, u, v)
    BY <2>2, SliceIs
  <2>4. SubSeq(x, u, v)[k] = x[u + k - 1]
    BY <2>2, <2>3 DEF SliceOf
  <2> QED BY <1>4, <2>1, <2>2, <2>4
<1>6. \A j \in 1 .. n : Source(x, n)[j] = Bit(x[(j - 1) \div 8 + 1], (j - 1) % 8)
  BY DEF Source
<1>7. \A j \in 1 .. m : Source(p, m)[j] = Bit(p[(j - 1) \div 8 + 1], (j - 1) % 8)
  BY DEF Source
<1>8. ASSUME NEW j \in 1 .. m PROVE Source(p, m)[j] = Source(x, n)[j]
  <2>1. PICK k, e : k = (j - 1) \div 8 + 1 /\ e = j - 1
    OBVIOUS
  <2>2. k \in 1 .. N - 2
    <3>1. e \in Nat /\ e < 8 * (N - 2) /\ N - 2 \in Nat
      BY <1>2, <2>1
    <3>2. e \div 8 \in 0 .. N - 2 - 1
      BY <3>1
    <3> QED BY <1>2, <2>1, <3>2
  <2>3. j \in 1 .. n
    BY <1>1, <1>2
  <2> QED BY <1>3, <1>6, <1>7, <2>1, <2>2, <2>3
<1>9. crc = (0 .. 15) \ reg[m]
  <2>1. /\ reg[0] = 0 .. 15 /\ \A i \in 0 .. n : reg[i] \in Registers
        /\ \A i \in 1 .. n : reg[i] = CrcBit(reg[i - 1], Source(x, n)[i])
    BY DEF Takes
  <2>2. \A i \in 0 .. m : i \in 0 .. n
    BY <1>1, <1>2
  <2>3. \A i \in 1 .. m : i \in 1 .. n
    BY <1>1, <1>2
  <2>4. Takes(reg, m, Source(p, m), 0 .. 15)
    BY <1>8, <2>1, <2>2, <2>3 DEF Takes
  <2>5. m = 8 * Len(p)
    BY <1>2, <1>3
  <2> QED BY <1>1, <1>3, <2>4, <2>5, Crc16Is
<1>10. ASSUME NEW j \in 0 .. 15 PROVE Source(x, n)[m + j + 1] = 1 <=> j \notin reg[m]
  <2>1. PICK J, d, e, k : J = m + j + 1 /\ d = j \div 8 /\ e = j % 8 /\ k = d + 1
    OBVIOUS
  <2>2. d \in 0 .. 1 /\ e \in 0 .. 7 /\ j = 8 * d + e /\ k \in 1 .. 2
    BY <2>1
  <2>3. J \in 1 .. n /\ J - 1 = 8 * (N - 2 + d) + e /\ N - 2 + d \in Int /\ N - 2 + d + 1 = N - 2 + k
    <3>1. N \in Nat /\ N >= 3 /\ n = 8 * N /\ m = 8 * (N - 2)
      BY <1>2
    <3>2. d \in Int /\ e \in Int /\ j = 8 * d + e /\ j \in 0 .. 15 /\ J = m + j + 1 /\ k = d + 1
      BY <2>1, <2>2
    <3>3. J \in 1 .. n
      BY <3>1, <3>2
    <3>4. J - 1 = m + j
      BY <3>1, <3>2
    <3>5. m + j = 8 * (N - 2 + d) + e
      BY <3>1, <3>2
    <3> QED BY <3>1, <3>2, <3>3, <3>4, <3>5
  <2>4. (J - 1) \div 8 = N - 2 + d /\ (J - 1) % 8 = e
    BY <2>2, <2>3, ModDiv
  <2>5. Source(x, n)[J] = Bit(fcs[k], e)
    <3>1. Source(x, n)[J] = Bit(x[(J - 1) \div 8 + 1], (J - 1) % 8)
      BY <1>6, <2>3
    <3>2. (J - 1) \div 8 + 1 = N - 2 + k
      BY <2>3, <2>4
    <3> QED BY <1>5, <2>2, <2>4, <3>1, <3>2
  <2> DEFINE bs == [ i \in 1 .. 8 |-> IF 8 * (k - 1) + i - 1 \in crc THEN 1 ELSE 0 ]
  <2>6. fcs[k] = Number(bs)
    BY <1>1, <2>2 DEF FcsOctets
  <2>7. bs \in Seq(BitValue) /\ Len(bs) = 8 /\ \A i \in 1 .. 8 : bs[i] = IF 8 * (k - 1) + i - 1 \in crc THEN 1 ELSE 0
    <3>1. bs \in [1 .. 8 -> BitValue] /\ 8 \in Nat
      BY DEF BitValue
    <3> QED BY <3>1
  <2> HIDE DEF bs
  <2>8. PICK i : i = e + 1
    OBVIOUS
  <2>9. i \in 1 .. 8 /\ i - 1 = e /\ 8 * (k - 1) + i - 1 = j
    BY <2>1, <2>2, <2>8
  <2>10. Bit(Number(bs), i - 1) = bs[i]
    BY <2>7, <2>9, BitsOfNumber
  <2>11. Source(x, n)[J] = IF j \in crc THEN 1 ELSE 0
    BY <2>5, <2>6, <2>7, <2>9, <2>10
  <2>12. j \in crc <=> j \notin reg[m]
    BY <1>9
  <2> QED BY <2>1, <2>11, <2>12
<1> QED BY <1>1, <1>2, <1>10

\* How far the registers of two passing frames differed before their check
\* sequences is how far the check sequences differ.
LEMMA Settled ==
  ASSUME NEW n \in Nat, NEW m \in Nat, n = m + 16, NEW bx, NEW by, NEW f, NEW g,
         Takes(f, n, bx, 0 .. 15), Takes(g, n, by, 0 .. 15),
         \A j \in 0 .. 15 : bx[m + j + 1] = 1 <=> j \notin f[m],
         \A j \in 0 .. 15 : by[m + j + 1] = 1 <=> j \notin g[m]
  PROVE  f[n] = g[n]
<1> DEFINE Same(j) == \A i \in 0 .. 15 : (i \in f[m + j] <=> i \in g[m + j])
                                           <=> (i + j <= 15 => (i + j \in f[m] <=> i + j \in g[m]))
           P == { j \in 0 .. 16 : Same(j) }
<1>1. \A i \in 0 .. n : f[i] \in Registers /\ g[i] \in Registers
  BY DEF Takes
<1>2. 0 \in P
  <2>1. m + 0 = m /\ \A i \in 0 .. 15 : i + 0 = i /\ i <= 15
    OBVIOUS
  <2> QED BY <2>1
<1>3. ASSUME NEW j \in 1 .. 16, j - 1 \in P PROVE j \in P
  <2>1. PICK d, k : d = j - 1 /\ k = m + d
    OBVIOUS
  <2>2. d \in 0 .. 15 /\ k \in 0 .. n /\ k + 1 \in 1 .. n /\ k + 1 = m + j /\ k + 1 = m + d + 1 /\ k + 1 - 1 = k /\ j = d + 1
    BY <2>1
  <2>3. \A i \in 0 .. 15 : (i \in f[k] <=> i \in g[k]) <=> (i + d <= 15 => (i + d \in f[m] <=> i + d \in g[m]))
    BY <1>3, <2>1
  <2>4. (bx[k + 1] = 1 <=> d \notin f[m]) /\ (by[k + 1] = 1 <=> d \notin g[m])
    BY <2>2
  <2>5. Fed(f[k], bx[k + 1]) <=> Fed(g[k], by[k + 1])
    <3>1. (0 \in f[k] <=> 0 \in g[k]) <=> (0 + d <= 15 => (0 + d \in f[m] <=> 0 + d \in g[m]))
      BY <2>3
    <3>2. 0 + d = d /\ d <= 15
      BY <2>2
    <3>3. (0 \in f[k] <=> 0 \in g[k]) <=> (d \in f[m] <=> d \in g[m])
      BY <3>1, <3>2
    <3> QED BY <2>4, <3>3 DEF Fed
  <2>6. /\ f[k + 1] = CrcBit(f[k], bx[k + 1]) /\ g[k + 1] = CrcBit(g[k], by[k + 1])
        /\ f[k] \in Registers /\ g[k] \in Registers
    BY <1>1, <2>2 DEF Takes
  <2>7. /\ \A i \in 0 .. 15 : i \in f[k + 1] <=> ~((i + 1 \in f[k]) <=> (Fed(f[k], bx[k + 1]) /\ i \in {15, 10, 3}))
        /\ \A i \in 0 .. 15 : i \in g[k + 1] <=> ~((i + 1 \in g[k]) <=> (Fed(g[k], by[k + 1]) /\ i \in {15, 10, 3}))
    BY <2>6, CrcBitFacts
  <2>8. \A i \in 0 .. 15 : (i \in f[k + 1] <=> i \in g[k + 1]) <=> (i + 1 \in f[k] <=> i + 1 \in g[k])
    BY <2>5, <2>7
  <2>9. ASSUME NEW i \in 0 .. 15
        PROVE  (i \in f[m + j] <=> i \in g[m + j]) <=> (i + j <= 15 => (i + j \in f[m] <=> i + j \in g[m]))
    <3>1. CASE i = 15
      <4>1. 16 \notin f[k] /\ 16 \notin g[k] /\ i + 1 = 16 /\ ~(i + j <= 15)
        BY <2>6, <3>1 DEF Registers
      <4> QED BY <2>2, <2>8, <4>1
    <3>2. CASE i < 15
      <4>1. i + 1 \in 0 .. 15 /\ i + 1 + d = i + j
        BY <2>2, <3>2
      <4>2. (i + 1 \in f[k] <=> i + 1 \in g[k]) <=> (i + 1 + d <= 15 => (i + 1 + d \in f[m] <=> i + 1 + d \in g[m]))
        BY <2>3, <4>1
      <4>3. (i \in f[k + 1] <=> i \in g[k + 1]) <=> (i + 1 \in f[k] <=> i + 1 \in g[k])
        BY <2>8
      <4> QED BY <2>2, <4>1, <4>2, <4>3
    <3> QED BY <3>1, <3>2
  <2> QED BY <2>9
<1> HIDE DEF P
<1>4. \A j \in 0 .. 16 : j \in P
  <2>1. 16 \in Nat
    OBVIOUS
  <2> QED BY <1>2, <1>3, <2>1, BoundedInduction
<1>5. Same(16)
  BY <1>4 DEF P
<1>6. \A i \in 0 .. 15 : i \in f[n] <=> i \in g[n]
  <2>1. \A i \in 0 .. 15 : ~(i + 16 <= 15)
    OBVIOUS
  <2> QED BY <1>5, <2>1
<1>7. f[n] \subseteq 0 .. 15 /\ g[n] \subseteq 0 .. 15
  BY <1>1 DEF Registers
<1> QED BY <1>6, <1>7

LEMMA SameOctets ==
  ASSUME NEW x \in Seq(Octet), NEW y \in Seq(Octet), Len(x) = Len(y), NEW n, n = 8 * Len(x),
         \A j \in 1 .. n : Source(x, n)[j] = Source(y, n)[j]
  PROVE  x = y
<1>1. Source(x, n) = Source(y, n)
  BY DEF Source
<1>2. Octets(Source(x, 8 * Len(x))) = x /\ Octets(Source(y, 8 * Len(y))) = y
  BY OctetsOfSource
<1> QED BY <1>1, <1>2

\* Two registers that end alike fed the polynomial back alike, where at most the
\* sixteen bits after bit m differ.
LEMMA FedAlike ==
  ASSUME NEW n \in Nat, NEW m \in Nat, NEW bx, NEW by, NEW f, NEW g,
         Takes(f, n, bx, 0 .. 15), Takes(g, n, by, 0 .. 15), f[n] = g[n],
         \A i \in 1 .. n : i \notin m + 1 .. m + 16 => bx[i] = by[i]
  PROVE  \A i \in m + 1 .. n : Fed(f[i - 1], bx[i]) <=> Fed(g[i - 1], by[i])
<1> DEFINE P == { d \in 0 .. n : m <= n - d =>
                    /\ \A k \in 0 .. 16 : k >= m + 16 - (n - d) => Agree(f[n - d], g[n - d], k)
                    /\ d > 0 => (Fed(f[n - d], bx[n - d + 1]) <=> Fed(g[n - d], by[n - d + 1])) }
<1>1. \A i \in 0 .. n : f[i] \in Registers /\ g[i] \in Registers
  BY DEF Takes
<1>2. 0 \in P
  <2>1. n - 0 = n /\ ~(0 > 0)
    OBVIOUS
  <2>2. \A k \in 0 .. 16 : Agree(f[n], g[n], k)
    BY DEF Agree
  <2> QED BY <2>1, <2>2
<1>3. ASSUME NEW d \in 1 .. n, d - 1 \in P PROVE d \in P
  <2>1. SUFFICES ASSUME m <= n - d PROVE d \in P
    OBVIOUS
  <2>2. PICK i, e : i = n - d /\ e = d - 1
    OBVIOUS
  <2>3. i \in 0 .. n /\ i + 1 \in 1 .. n /\ i + 1 = n - e /\ i + 1 - 1 = i /\ m <= i /\ m <= n - e
    BY <2>1, <2>2
  <2>4. \A k \in 0 .. 16 : k >= m + 16 - (i + 1) => Agree(f[i + 1], g[i + 1], k)
    BY <1>3, <2>2, <2>3
  <2>5. /\ f[i + 1] = CrcBit(f[i], bx[i + 1]) /\ g[i + 1] = CrcBit(g[i], by[i + 1])
        /\ f[i] \in Registers /\ g[i] \in Registers
    BY <1>1, <2>3 DEF Takes
  <2>6. ASSUME NEW k \in 0 .. 15, k >= m + 16 - (i + 1)
        PROVE  (Fed(f[i], bx[i + 1]) <=> Fed(g[i], by[i + 1])) /\ Agree(f[i], g[i], k + 1)
    <3>1. Agree(CrcBit(f[i], bx[i + 1]), CrcBit(g[i], by[i + 1]), k)
      BY <2>4, <2>5, <2>6
    <3> QED BY <2>5, <3>1, AgreedBefore
  <2>7. Fed(f[i], bx[i + 1]) <=> Fed(g[i], by[i + 1])
    <3>1. 15 \in 0 .. 15 /\ 15 >= m + 16 - (i + 1)
      BY <2>3
    <3> QED BY <2>6, <3>1
  <2>8. ASSUME NEW k \in 0 .. 16, k >= m + 16 - i PROVE Agree(f[i], g[i], k)
    <3>1. CASE k > 0
      <4>1. k - 1 \in 0 .. 15 /\ k - 1 >= m + 16 - (i + 1) /\ k - 1 + 1 = k
        BY <2>3, <2>8, <3>1
      <4>2. Agree(f[i], g[i], k - 1 + 1)
        BY <2>6, <4>1
      <4> QED BY <4>1, <4>2
    <3>2. CASE k = 0
      <4>1. i + 1 \notin m + 1 .. m + 16 /\ 0 \in 0 .. 15 /\ 0 >= m + 16 - (i + 1) /\ 0 + 1 = 1
        BY <2>3, <2>8, <3>2
      <4>2. bx[i + 1] = by[i + 1]
        BY <2>3, <4>1
      <4>3. Agree(f[i], g[i], 1)
        BY <2>6, <4>1
      <4>4. 0 \in f[i] <=> 0 \in g[i]
        BY <2>7, <4>2 DEF Fed
      <4>5. \A j \in 0 .. 15 : j = 0 \/ j >= 1
        OBVIOUS
      <4> QED BY <3>2, <4>3, <4>4, <4>5 DEF Agree
    <3> QED BY <3>1, <3>2
  <2> QED BY <2>2, <2>3, <2>7, <2>8
<1> HIDE DEF P
<1>4. \A d \in 0 .. n : d \in P
  BY <1>2, <1>3, BoundedInduction
<1>5. ASSUME NEW i \in m + 1 .. n PROVE Fed(f[i - 1], bx[i]) <=> Fed(g[i - 1], by[i])
  <2>1. PICK d : d = n - i + 1
    OBVIOUS
  <2>2. d \in 0 .. n /\ d > 0 /\ n - d = i - 1 /\ n - d + 1 = i /\ m <= n - d
    BY <2>1
  <2>3. d \in P
    BY <1>4, <2>2
  <2>4. Fed(f[n - d], bx[n - d + 1]) <=> Fed(g[n - d], by[n - d + 1])
    BY <2>2, <2>3 DEF P
  <2> QED BY <2>2, <2>4
<1> QED BY <1>5

\* f is the register as it takes in the n bits of a frame that passes: the last
\* sixteen are the complement of what it held before them.
Passes(f, n, bs) ==
  /\ n - 16 \in Nat
  /\ Takes(f, n, bs, 0 .. 15)
  /\ \A i \in 1 .. n : bs[i] \in BitValue
  /\ \A j \in 0 .. 15 : bs[n - 16 + j + 1] = 1 <=> j \notin f[n - 16]

\* At most the sixteen bits after bit m differ.
OneBurst(n, bs, cs, m) == \A i \in 1 .. n : i \notin m + 1 .. m + 16 => bs[i] = cs[i]

LEMMA SameBits ==
  ASSUME NEW n \in Nat, NEW m \in Nat, NEW bx, NEW by, NEW f, NEW g,
         Passes(f, n, bx), Passes(g, n, by), OneBurst(n, bx, by, m)
  PROVE  \A i \in 1 .. n : bx[i] = by[i]
<1>0. /\ Takes(f, n, bx, 0 .. 15) /\ Takes(g, n, by, 0 .. 15)
      /\ \A i \in 1 .. n : bx[i] \in BitValue /\ by[i] \in BitValue
  BY DEF Passes
<1>1. f[n] = g[n]
  <2>1. PICK q : q = n - 16
    OBVIOUS
  <2>2. q \in Nat /\ n = q + 16
    BY <2>1 DEF Passes
  <2>3. /\ \A j \in 0 .. 15 : bx[q + j + 1] = 1 <=> j \notin f[q]
        /\ \A j \in 0 .. 15 : by[q + j + 1] = 1 <=> j \notin g[q]
    BY <2>1 DEF Passes
  <2> QED BY <1>0, <2>2, <2>3, Settled
<1>2. \A i \in m + 1 .. n : Fed(f[i - 1], bx[i]) <=> Fed(g[i - 1], by[i])
  <2>1. \A i \in 1 .. n : i \notin m + 1 .. m + 16 => bx[i] = by[i]
    BY DEF OneBurst
  <2> QED BY <1>0, <1>1, <2>1, FedAlike
<1>3. ASSUME NEW i \in 1 .. n, f[i - 1] = g[i - 1] PROVE bx[i] = by[i]
  <2>1. CASE i <= m
    <3>1. i \notin m + 1 .. m + 16
      BY <2>1
    <3> QED BY <3>1 DEF OneBurst
  <2>2. CASE i > m
    <3>1. i \in m + 1 .. n
      BY <2>2
    <3>2. bx[i] = 1 <=> by[i] = 1
      BY <1>2, <1>3, <3>1 DEF Fed
    <3> QED BY <1>0, <3>2 DEF BitValue
  <2> QED BY <2>1, <2>2
<1> DEFINE P == { i \in 0 .. n : f[i] = g[i] }
<1>4. 0 \in P
  <2>1. f[0] = g[0]
    BY <1>0 DEF Takes
  <2> QED BY <2>1
<1>5. ASSUME NEW i \in 1 .. n, i - 1 \in P PROVE i \in P
  <2>1. f[i - 1] = g[i - 1] /\ i \in 0 .. n
    BY <1>5
  <2>2. bx[i] = by[i]
    BY <1>3, <2>1
  <2>3. f[i] = CrcBit(f[i - 1], bx[i]) /\ g[i] = CrcBit(g[i - 1], by[i])
    BY <1>0 DEF Takes
  <2> QED BY <2>1, <2>2, <2>3
<1> HIDE DEF P
<1>6. \A i \in 0 .. n : i \in P
  BY <1>4, <1>5, BoundedInduction
<1>7. ASSUME NEW i \in 1 .. n PROVE bx[i] = by[i]
  <2>1. i - 1 \in 0 .. n
    OBVIOUS
  <2>2. f[i - 1] = g[i - 1]
    BY <1>6, <2>1 DEF P
  <2> QED BY <1>3, <2>2
<1> QED BY <1>7

LEMMA OneBurstDetected ==
  ASSUME NEW x \in Seq(Octet), NEW y \in Seq(Octet), Len(x) = Len(y), NEW n, n = 8 * Len(x),
         VerifyFcs(x), VerifyFcs(y), NEW m \in Nat, OneBurst(n, Source(x, n), Source(y, n), m)
  PROVE  x = y
<1>1. n \in Nat /\ n = 8 * Len(y)
  OBVIOUS
<1>2. 0 .. 15 \in Registers
  BY DEF Registers
<1>3. ASSUME NEW z \in Seq(Octet), n = 8 * Len(z), VerifyFcs(z)
      PROVE  \E f : Passes(f, n, Source(z, n))
  <2>1. PICK f : Takes(f, n, Source(z, n), 0 .. 15)
    BY <1>1, <1>2, TakesSome
  <2>2. \A j \in 0 .. 15 : Source(z, n)[n - 16 + j + 1] = 1 <=> j \notin f[n - 16]
    BY <1>3, <2>1, LastBits
  <2>3. n - 16 \in Nat
    BY <1>1, <1>3 DEF VerifyFcs
  <2>4. ASSUME NEW i \in 1 .. n PROVE Source(z, n)[i] \in BitValue
    <3>1. n \in 0 .. 8 * Len(z)
      BY <1>1, <1>3
    <3>2. PICK bz : bz = Source(z, n)
      OBVIOUS
    <3>3. bz \in Seq(BitValue) /\ Len(bz) = n
      BY <3>1, <3>2, SourceType
    <3>4. bz[i] \in BitValue
      BY <3>3, ElementOfSeq
    <3> QED BY <3>2, <3>4
  <2> QED BY <2>1, <2>2, <2>3, <2>4 DEF Passes
<1>4. PICK f : Passes(f, n, Source(x, n))
  BY <1>3
<1>5. PICK g : Passes(g, n, Source(y, n))
  BY <1>1, <1>3
<1>6. \A i \in 1 .. n : Source(x, n)[i] = Source(y, n)[i]
  BY <1>1, <1>4, <1>5, SameBits
<1> QED BY <1>6, SameOctets

\* verify_fcs: of two frames of one length that both pass, neither is the other
\* with wrong bits that lie within sixteen in a row, wherever they lie, in the
\* check sequence too: of what one burst of noise can make of a frame of any
\* length, the decoder hands on nothing.
THEOREM BurstsAreDetected ==
  ASSUME NEW x \in Seq(Octet), NEW y \in Seq(Octet), Len(x) = Len(y), NEW n, n = 8 * Len(x),
         VerifyFcs(x), VerifyFcs(y), NEW m \in Nat,
         \A j \in 1 .. n : j \notin m + 1 .. m + 16 => Source(x, n)[j] = Source(y, n)[j]
  PROVE  x = y
<1>1. OneBurst(n, Source(x, n), Source(y, n), m)
  BY DEF OneBurst
<1> QED BY <1>1, OneBurstDetected

-----------------------------------------------------------------------------
(* What a burst of noise does to the bits between two flags.               *)

\* Everywhere but in the w places after place j.
Outside(i, j, w) == i \notin j + 1 .. j + w

\* Two sequences are of one length and alike but for the w elements after j.
AlikeBut(s, t, j, w) == Len(s) = Len(t) /\ \A i \in 1 .. Len(s) : Outside(i, j, w) => s[i] = t[i]

\* Two sets of the places up to N that differ in the w places after j at most.
SetsAlikeBut(N, A, B, j, w) == \A i \in 1 .. N : Outside(i, j, w) => (i \in A <=> i \in B)

\* Whether a bit is stuffing depends on it and on the five before it.
LEMMA KeptAlike ==
  ASSUME NEW s \in Seq(BitValue), NEW t \in Seq(BitValue), NEW j \in Nat, AlikeBut(s, t, j, 11)
  PROVE  SetsAlikeBut(Len(s), Kept5(s), Kept5(t), j, 16)
<1>1. PICK N : N = Len(s)
  OBVIOUS
<1>2. /\ N \in Nat /\ Len(t) = N /\ DOMAIN s = 1 .. N /\ DOMAIN t = 1 .. N
      /\ \A i \in 1 .. N : Outside(i, j, 11) => s[i] = t[i]
  BY <1>1 DEF AlikeBut
<1>3. ASSUME NEW i \in 1 .. N, Outside(i, j, 16) PROVE i \in Kept5(s) <=> i \in Kept5(t)
  <2>1. i <= j \/ i > j + 16
    BY <1>2, <1>3 DEF Outside
  <2>2. ASSUME NEW k \in 1 .. N, k \in i - 5 .. i PROVE s[k] = t[k]
    <3>1. Outside(k, j, 11)
      BY <1>2, <2>1, <2>2 DEF Outside
    <3> QED BY <1>2, <3>1
  <2>3. s[i] = t[i]
    <3>1. i \in i - 5 .. i
      BY <1>2
    <3> QED BY <2>2, <3>1
  <2>4. Ones(s, i - 5, 5) <=> Ones(t, i - 5, 5)
    <3>1. CASE i - 5 \in 1 .. N - 5 + 1
      <4>1. \A k \in i - 5 .. i - 5 + 5 - 1 : k \in 1 .. N /\ k \in i - 5 .. i
        BY <1>2, <3>1
      <4>2. \A k \in i - 5 .. i - 5 + 5 - 1 : s[k] = t[k]
        BY <2>2, <4>1
      <4> QED BY <1>1, <1>2, <3>1, <4>2 DEF Ones
    <3>2. CASE i - 5 \notin 1 .. N - 5 + 1
      BY <1>1, <1>2, <3>2 DEF Ones
    <3> QED BY <3>1, <3>2
  <2> QED BY <1>2, <2>3, <2>4 DEF Kept5
<1> QED BY <1>1, <1>3 DEF SetsAlikeBut

\* Of the places after a, at most b - a are counted up to b.
LEMMA CountsBetween ==
  ASSUME NEW N \in Nat, NEW at \in SUBSET (1 .. N), NEW a \in 0 .. N, NEW b \in 0 .. N, a <= b
  PROVE  /\ Cardinality(UpTo(at, a)) <= Cardinality(UpTo(at, b))
         /\ Cardinality(UpTo(at, b)) <= Cardinality(UpTo(at, a)) + b - a
<1> DEFINE c(m) == Cardinality(UpTo(at, m))
           P == { i \in 0 .. N : a <= i => c(a) <= c(i) /\ c(i) <= c(a) + i - a }
<1>1. /\ \A m \in 0 .. N : c(m) \in Nat
      /\ \A m \in 1 .. N : c(m) = c(m - 1) + 1 \/ c(m) = c(m - 1)
  <2>1. \A m \in 1 .. N : c(m) = IF m \in at THEN c(m - 1) + 1 ELSE c(m - 1)
    BY UpToFacts
  <2>2. \A m \in 0 .. N : c(m) \in Nat
    BY UpToFacts
  <2> QED BY <2>1, <2>2
<1> HIDE DEF c
<1>2. 0 \in P
  <2>1. c(0) \in Nat
    BY <1>1
  <2>2. a <= 0 => a = 0
    OBVIOUS
  <2> QED BY <2>1, <2>2
<1>3. ASSUME NEW i \in 1 .. N, i - 1 \in P PROVE i \in P
  <2>1. c(i) \in Nat /\ c(a) \in Nat /\ c(i - 1) \in Nat
    BY <1>1
  <2>2. c(i) = c(i - 1) + 1 \/ c(i) = c(i - 1)
    BY <1>1
  <2>3. CASE a <= i - 1
    <3>1. c(a) <= c(i - 1) /\ c(i - 1) <= c(a) + (i - 1) - a
      BY <1>3, <2>3
    <3> QED BY <2>1, <2>2, <3>1
  <2>4. CASE a = i
    <3>1. c(a) <= c(i) /\ c(i) <= c(a) + i - a
      BY <2>1, <2>4
    <3> QED BY <3>1
  <2>5. CASE a > i
    BY <2>5
  <2> QED BY <2>3, <2>4, <2>5
<1> HIDE DEF P
<1>4. b \in P
  BY <1>2, <1>3, BoundedInduction
<1> QED BY <1>4 DEF P, c

\* Sets of one size that differ in a window count alike before and after it.
LEMMA CountedAlike ==
  ASSUME NEW N \in Nat, NEW A \in SUBSET (1 .. N), NEW B \in SUBSET (1 .. N), NEW j \in Nat,
         SetsAlikeBut(N, A, B, j, 16), Cardinality(A) = Cardinality(B)
  PROVE  \A i \in 0 .. N : i <= j \/ i >= j + 16 => Cardinality(UpTo(A, i)) = Cardinality(UpTo(B, i))
<1> DEFINE c(m) == Cardinality(UpTo(A, m))
           d(m) == Cardinality(UpTo(B, m))
           P == { i \in 0 .. N : i <= j => c(i) = d(i) }
           Q == { e \in 0 .. N : N - e >= j + 16 => c(N - e) = d(N - e) }
<1>1. /\ \A m \in 1 .. N : c(m) = IF m \in A THEN c(m - 1) + 1 ELSE c(m - 1)
      /\ \A m \in 0 .. N : c(m) \in Nat
      /\ c(0) = 0
  BY UpToFacts
<1>2. /\ \A m \in 1 .. N : d(m) = IF m \in B THEN d(m - 1) + 1 ELSE d(m - 1)
      /\ \A m \in 0 .. N : d(m) \in Nat
      /\ d(0) = 0
  BY UpToFacts
<1>3. c(N) = d(N)
  <2>1. UpTo(A, N) = A
    BY UpToFacts
  <2>2. UpTo(B, N) = B
    BY UpToFacts
  <2> QED BY <2>1, <2>2
<1>4. ASSUME NEW i \in 1 .. N, i <= j \/ i > j + 16 PROVE i \in A <=> i \in B
  <2>1. Outside(i, j, 16)
    BY <1>4 DEF Outside
  <2> QED BY <2>1 DEF SetsAlikeBut
<1> HIDE DEF c, d
<1>5. 0 \in P
  BY <1>1, <1>2
<1>6. ASSUME NEW i \in 1 .. N, i - 1 \in P PROVE i \in P
  <2>1. SUFFICES ASSUME i <= j PROVE c(i) = d(i)
    OBVIOUS
  <2>2. i \in A <=> i \in B
    BY <1>4, <2>1
  <2>3. c(i - 1) = d(i - 1)
    BY <1>6, <2>1
  <2>4. c(i) = IF i \in A THEN c(i - 1) + 1 ELSE c(i - 1)
    BY <1>1
  <2>5. d(i) = IF i \in B THEN d(i - 1) + 1 ELSE d(i - 1)
    BY <1>2
  <2> QED BY <2>2, <2>3, <2>4, <2>5
<1>7. 0 \in Q
  <2>1. N - 0 = N
    OBVIOUS
  <2> QED BY <1>3, <2>1
<1>8. ASSUME NEW e \in 1 .. N, e - 1 \in Q PROVE e \in Q
  <2>1. SUFFICES ASSUME N - e >= j + 16 PROVE c(N - e) = d(N - e)
    OBVIOUS
  <2>2. PICK i : i = N - (e - 1)
    OBVIOUS
  <2>3. i \in 1 .. N /\ i > j + 16 /\ i - 1 = N - e /\ i - 1 \in 0 .. N /\ N - (e - 1) >= j + 16
    BY <2>1, <2>2
  <2>4. c(i) = d(i)
    BY <1>8, <2>2, <2>3
  <2>5. i \in A <=> i \in B
    BY <1>4, <2>3
  <2>6. c(i) = IF i \in A THEN c(i - 1) + 1 ELSE c(i - 1)
    BY <1>1, <2>3
  <2>7. d(i) = IF i \in B THEN d(i - 1) + 1 ELSE d(i - 1)
    BY <1>2, <2>3
  <2>8. c(i - 1) \in Nat /\ d(i - 1) \in Nat
    BY <1>1, <1>2, <2>3
  <2>9. c(i - 1) = d(i - 1)
    <3>1. CASE i \in A
      <4>1. c(i - 1) + 1 = d(i - 1) + 1
        BY <2>4, <2>5, <2>6, <2>7, <3>1
      <4> QED BY <2>8, <4>1
    <3>2. CASE i \notin A
      BY <2>4, <2>5, <2>6, <2>7, <3>2
    <3> QED BY <3>1, <3>2
  <2> QED BY <2>3, <2>9
<1> HIDE DEF P, Q
<1>9. \A i \in 0 .. N : i \in P
  BY <1>5, <1>6, BoundedInduction
<1>10. \A e \in 0 .. N : e \in Q
  BY <1>7, <1>8, BoundedInduction
<1>11. ASSUME NEW i \in 0 .. N, i <= j \/ i >= j + 16 PROVE c(i) = d(i)
  <2>1. CASE i <= j
    BY <1>9, <2>1 DEF P
  <2>2. CASE i >= j + 16
    <3>1. N - i \in 0 .. N /\ N - (N - i) = i
      OBVIOUS
    <3>2. N - i \in Q
      BY <1>10, <3>1
    <3> QED BY <2>2, <3>1, <3>2 DEF Q
  <2> QED BY <1>11, <2>1, <2>2
<1> QED BY <1>11 DEF c, d

\* Wrong bits that lie within eleven in a row, and that change the length of the
\* unstuffed frame in all by nothing, change it within sixteen in a row.
LEMMA UnstuffedAlike ==
  ASSUME NEW s \in Seq(BitValue), NEW t \in Seq(BitValue), NEW j \in Nat, AlikeBut(s, t, j, 11),
         Len(Unstuffed(s)) = Len(Unstuffed(t))
  PROVE  \E m \in Nat : AlikeBut(Unstuffed(s), Unstuffed(t), m, 16)
<1> DEFINE N == Len(s)
           A == Kept5(s)
           B == Kept5(t)
           u == Unstuffed(s)
           v == Unstuffed(t)
<1>1. /\ N \in Nat /\ Len(t) = N /\ DOMAIN s = 1 .. N /\ DOMAIN t = 1 .. N
      /\ \A i \in 1 .. N : Outside(i, j, 11) => s[i] = t[i]
  BY DEF AlikeBut
<1>2. A \in SUBSET (1 .. N) /\ B \in SUBSET (1 .. N) /\ Positions(s, A) = A /\ Positions(t, B) = B
  BY <1>1 DEF Kept5, Positions
<1>3. /\ u \in Seq(BitValue) /\ Len(u) = Cardinality(A)
      /\ \A i \in A : u[Rank(A)[i]] = s[i]
      /\ \A k \in 1 .. Cardinality(A) : \E i \in A : Rank(A)[i] = k
  <2>1. /\ Selected(s, A) \in Seq(BitValue)
        /\ Len(Selected(s, A)) = Cardinality(Positions(s, A))
        /\ \A i \in Positions(s, A) : Selected(s, A)[Rank(Positions(s, A))[i]] = s[i]
        /\ \A k \in 1 .. Cardinality(Positions(s, A)) : \E i \in Positions(s, A) : Rank(Positions(s, A))[i] = k
    BY SelectedFacts
  <2> QED BY <1>2, <2>1 DEF Unstuffed
<1>4. /\ v \in Seq(BitValue) /\ Len(v) = Cardinality(B)
      /\ \A i \in B : v[Rank(B)[i]] = t[i]
  <2>1. /\ Selected(t, B) \in Seq(BitValue)
        /\ Len(Selected(t, B)) = Cardinality(Positions(t, B))
        /\ \A i \in Positions(t, B) : Selected(t, B)[Rank(Positions(t, B))[i]] = t[i]
    BY SelectedFacts
  <2> QED BY <1>2, <2>1 DEF Unstuffed
<1>5. SetsAlikeBut(N, A, B, j, 16)
  BY KeptAlike
<1> HIDE DEF N, A, B, u, v
<1>6. Cardinality(A) = Cardinality(B)
  BY <1>3, <1>4 DEF u, v
<1>7. \A i \in 0 .. N : i <= j \/ i >= j + 16 => Cardinality(UpTo(A, i)) = Cardinality(UpTo(B, i))
  <2>1. N \in Nat /\ A \in SUBSET (1 .. N) /\ B \in SUBSET (1 .. N)
    BY <1>1, <1>2
  <2> QED BY <1>5, <1>6, <2>1, CountedAlike
<1>8. /\ \A i \in A : Rank(A)[i] = Cardinality(UpTo(A, i))
      /\ \A i \in B : Rank(B)[i] = Cardinality(UpTo(B, i))
  BY DEF Rank, UpTo
<1> DEFINE m == IF j <= N THEN Cardinality(UpTo(A, j)) ELSE 0
<1>9. m \in Nat
  <2>1. \A i \in 0 .. N : Cardinality(UpTo(A, i)) \in Nat
    BY <1>1, <1>2, UpToFacts
  <2> QED BY <2>1
<1>10. ASSUME NEW k \in 1 .. Len(u), Outside(k, m, 16) PROVE u[k] = v[k]
  <2>1. PICK i \in A : Rank(A)[i] = k
    BY <1>3
  <2>2. i \in 1 .. N /\ i \in 0 .. N /\ k = Cardinality(UpTo(A, i)) /\ u[k] = s[i]
    BY <1>1, <1>2, <1>3, <1>8, <2>1
  <2>3. i <= j \/ i > j + 16
    <3>1. SUFFICES ASSUME j < i, i <= j + 16 PROVE FALSE
      BY <2>2
    <3>2. j <= N /\ j \in 0 .. N /\ j <= i /\ i - 1 \in 0 .. N /\ j <= i - 1 /\ i - 1 <= i
      BY <1>1, <2>2, <3>1
    <3>3. m = Cardinality(UpTo(A, j))
      BY <3>2
    <3>4. /\ Cardinality(UpTo(A, i)) <= Cardinality(UpTo(A, j)) + i - j
      BY <1>1, <1>2, <2>2, <3>2, CountsBetween
    <3>5. Cardinality(UpTo(A, j)) <= Cardinality(UpTo(A, i - 1))
      BY <1>1, <1>2, <2>2, <3>2, CountsBetween
    <3>6. Cardinality(UpTo(A, i)) = Cardinality(UpTo(A, i - 1)) + 1
      <4>1. \A q \in 1 .. N : Cardinality(UpTo(A, q))
                 = IF q \in A THEN Cardinality(UpTo(A, q - 1)) + 1 ELSE Cardinality(UpTo(A, q - 1))
        BY <1>1, <1>2, UpToFacts
      <4> QED BY <2>1, <2>2, <4>1
    <3>7. Cardinality(UpTo(A, i - 1)) \in Nat /\ k \in Nat
      <4>1. \A q \in 0 .. N : Cardinality(UpTo(A, q)) \in Nat
        BY <1>1, <1>2, UpToFacts
      <4> QED BY <2>2, <3>2, <4>1
    <3> HIDE DEF m
    <3>8. k >= m + 1
      BY <1>9, <2>2, <3>3, <3>5, <3>6, <3>7
    <3>9. k <= m + i - j
      BY <2>2, <3>3, <3>4
    <3>10. k <= m + 16
      BY <1>1, <1>9, <2>2, <3>1, <3>7, <3>9
    <3> QED BY <1>9, <1>10, <3>7, <3>8, <3>10 DEF Outside
  <2>4. Outside(i, j, 16) /\ Outside(i, j, 11)
    BY <2>2, <2>3 DEF Outside
  <2>5. i \in B
    BY <1>5, <2>1, <2>2, <2>4 DEF SetsAlikeBut
  <2>6. Cardinality(UpTo(A, i)) = Cardinality(UpTo(B, i))
    <3>1. i <= j \/ i >= j + 16
      BY <2>2, <2>3
    <3> QED BY <1>7, <2>2, <3>1
  <2>7. v[k] = t[i]
    BY <1>4, <1>8, <2>2, <2>5, <2>6
  <2>8. s[i] = t[i]
    BY <1>1, <2>2, <2>4
  <2> QED BY <2>2, <2>7, <2>8
<1>11. Len(u) = Len(v)
  BY <1>3, <1>4, <1>6
<1>12. AlikeBut(u, v, m, 16)
  BY <1>10, <1>11 DEF AlikeBut
<1> QED BY <1>9, <1>12 DEF u, v

\* The bits the octets of a frame are made of are the bits of those octets.
LEMMA SourceOfOctets ==
  ASSUME NEW u \in Seq(BitValue), NEW n, n = Len(u), n % 8 = 0, NEW j \in 1 .. n
  PROVE  Source(Octets(u), n)[j] = u[j]
<1>1. PICK k, i : k = (j - 1) \div 8 + 1 /\ i = (j - 1) % 8
  OBVIOUS
<1>2. n \in Nat
  OBVIOUS
<1>3. /\ k \in 1 .. n \div 8 /\ i \in 0 .. 7 /\ j = 8 * (k - 1) + i + 1 /\ i + 1 \in 1 .. 8
      /\ 8 * k <= n /\ 8 * k - 7 >= 1 /\ 8 * k - (8 * k - 7) + 1 = 8 /\ 8 * k - 7 + (i + 1) - 1 = j
      /\ 8 * k - 7 \in Int /\ 8 * k \in Int /\ 8 * k - 7 <= 8 * k
  BY <1>1, <1>2
<1>4. Octets(u)[k] = Number(SubSeq(u, 8 * k - 7, 8 * k))
  BY <1>3 DEF Octets
<1>5. PICK a, b : a = 8 * k - 7 /\ b = 8 * k
  OBVIOUS
<1>6. /\ SubSeq(u, a, b) \in Seq(BitValue)
      /\ Len(SubSeq(u, a, b)) = IF a <= b THEN b - a + 1 ELSE 0
      /\ \A q \in 1 .. b - a + 1 : SubSeq(u, a, b)[q] = u[a + q - 1]
  <2>1. a \in Int /\ b \in Int /\ 1 <= a /\ b <= Len(u)
    BY <1>3, <1>5
  <2> QED BY <2>1, SubSeqType
<1>7. PICK octet, q : octet = SubSeq(u, a, b) /\ q = i + 1
  OBVIOUS
<1>8. octet \in Seq(BitValue) /\ Len(octet) = 8 /\ q \in 1 .. 8 /\ q - 1 = i
  BY <1>3, <1>5, <1>6, <1>7
<1>9. octet[q] = u[j]
  <2>1. q \in 1 .. b - a + 1 /\ a + q - 1 = j
    BY <1>3, <1>5, <1>7
  <2> QED BY <1>6, <1>7, <2>1
<1>10. Bit(Number(octet), q - 1) = octet[q]
  BY <1>8, BitsOfNumber
<1>11. Octets(u)[k] = Number(octet)
  BY <1>4, <1>5, <1>7
<1>12. Source(Octets(u), n)[j] = Bit(Octets(u)[k], i)
  BY <1>1 DEF Source
<1> QED BY <1>8, <1>9, <1>10, <1>11, <1>12

\* Part of two sequences that are alike but for some elements.
LEMMA CutAlike ==
  ASSUME NEW V, NEW b \in Seq(V), NEW c \in Seq(V), NEW j \in Nat, NEW w \in Nat, AlikeBut(b, c, j, w),
         NEW m \in Int, NEW n \in Int, 1 <= m, n <= Len(b)
  PROVE  \E d \in Nat : AlikeBut(SubSeq(b, m, n), SubSeq(c, m, n), d, w)
<1>1. Len(b) \in Nat /\ Len(c) = Len(b) /\ \A i \in 1 .. Len(b) : Outside(i, j, w) => b[i] = c[i]
  BY DEF AlikeBut
<1>2. /\ Len(SubSeq(b, m, n)) = IF m <= n THEN n - m + 1 ELSE 0
      /\ \A i \in 1 .. n - m + 1 : SubSeq(b, m, n)[i] = b[m + i - 1]
  BY SubSeqType
<1>3. /\ Len(SubSeq(c, m, n)) = IF m <= n THEN n - m + 1 ELSE 0
      /\ \A i \in 1 .. n - m + 1 : SubSeq(c, m, n)[i] = c[m + i - 1]
  BY <1>1, SubSeqType
<1>4. PICK d : d = IF j >= m - 1 THEN j - (m - 1) ELSE 0
  OBVIOUS
<1>5. d \in Nat
  BY <1>4
<1>6. PICK s, t : s = SubSeq(b, m, n) /\ t = SubSeq(c, m, n)
  OBVIOUS
<1>7. ASSUME NEW i \in 1 .. Len(s), Outside(i, d, w) PROVE s[i] = t[i]
  <2>1. m <= n /\ i \in 1 .. n - m + 1 /\ m + i - 1 \in 1 .. Len(b)
    BY <1>1, <1>2, <1>6
  <2>2. i < d + 1 \/ i > d + w
    BY <1>5, <1>7, <2>1 DEF Outside
  <2>3. m + i - 1 < j + 1 \/ m + i - 1 > j + w
    <3>1. CASE j >= m - 1
      <4>1. d = j - (m - 1)
        BY <1>4, <3>1
      <4> QED BY <2>1, <2>2, <4>1
    <3>2. CASE ~(j >= m - 1)
      <4>1. d = 0
        BY <1>4, <3>2
      <4> QED BY <2>1, <2>2, <3>2, <4>1
    <3> QED BY <3>1, <3>2
  <2>4. Outside(m + i - 1, j, w)
    BY <2>1, <2>3 DEF Outside
  <2>5. b[m + i - 1] = c[m + i - 1]
    BY <1>1, <2>1, <2>4
  <2> QED BY <1>2, <1>3, <1>6, <2>1, <2>5
<1>8. Len(s) = Len(t)
  BY <1>2, <1>3, <1>6
<1>9. AlikeBut(s, t, d, w)
  BY <1>7, <1>8 DEF AlikeBut
<1> QED BY <1>5, <1>6, <1>9

\* A burst of noise between flags that it leaves alone.
LEMMA InnerAlike ==
  ASSUME NEW b \in Seq(BitValue), NEW c \in Seq(BitValue), NEW j \in Nat, AlikeBut(b, c, j, 11),
         FlagsOf(b) = FlagsOf(c), NEW k \in DOMAIN Inner(b)
  PROVE  /\ Inner(b)[k] \in Seq(BitValue) /\ Inner(c)[k] \in Seq(BitValue)
         /\ \E d \in Nat : AlikeBut(Inner(b)[k], Inner(c)[k], d, 11)
<1>1. PICK f : f = FlagList(b)
  OBVIOUS
<1>2. Len(b) = Len(c) /\ Len(b) \in Nat
  BY DEF AlikeBut
<1>3. FlagList(c) = f
  <2>1. DOMAIN b = DOMAIN c
    BY <1>2
  <2> QED BY <1>1, <2>1 DEF FlagList
<1>4. f \in Seq(FlagsOf(b))
  BY <1>1, FlagListFacts
<1>5. k \in 1 .. Len(f) - 1
  BY <1>1 DEF Inner
<1>6. f[k] \in FlagsOf(b) /\ f[k + 1] \in FlagsOf(b)
  <2>1. k \in 1 .. Len(f) /\ k + 1 \in 1 .. Len(f)
    BY <1>4, <1>5
  <2> QED BY <1>4, <2>1
<1>7. FlagsOf(b) \subseteq 1 .. Len(b) - 7
  BY FlagsOfType DEF FlagAt
<1>8. PICK m, n : m = f[k] + 8 /\ n = f[k + 1] - 1
  OBVIOUS
<1>9. m \in Int /\ n \in Int /\ 1 <= m /\ n <= Len(b) /\ n <= Len(c)
  <2>1. PICK y, z : y = f[k] /\ z = f[k + 1]
    OBVIOUS
  <2>2. y \in 1 .. Len(b) - 7 /\ z \in 1 .. Len(b) - 7
    BY <1>6, <1>7, <2>1
  <2>3. m = y + 8 /\ n = z - 1
    BY <1>8, <2>1
  <2> QED BY <1>2, <2>2, <2>3
<1>10. Inner(b)[k] = SubSeq(b, m, n) /\ Inner(c)[k] = SubSeq(c, m, n)
  BY <1>1, <1>3, <1>5, <1>8 DEF Inner
<1>11. SubSeq(b, m, n) \in Seq(BitValue)
  BY <1>9, SubSeqType
<1>12. SubSeq(c, m, n) \in Seq(BitValue)
  BY <1>9, SubSeqType
<1>13. \E d \in Nat : AlikeBut(SubSeq(b, m, n), SubSeq(c, m, n), d, 11)
  <2>1. 11 \in Nat
    OBVIOUS
  <2> QED BY <1>9, <2>1, CutAlike
<1> QED BY <1>10, <1>11, <1>12, <1>13

\* A wrong tone makes two bits wrong, those of the transitions beside it.
LEMMA TonesAlike ==
  ASSUME NEW p \in Seq(Tones), NEW q \in Seq(Tones), NEW w \in Nat, AlikeBut(p, q, w, 10)
  PROVE  \E j \in Nat : AlikeBut(NrziDecode(p), NrziDecode(q), j, 11)
<1>1. Len(p) \in Nat /\ Len(q) = Len(p) /\ \A i \in 1 .. Len(p) : Outside(i, w, 10) => p[i] = q[i]
  BY DEF AlikeBut
<1>2. /\ Len(NrziDecode(p)) = IF Len(p) = 0 THEN 0 ELSE Len(p) - 1
      /\ \A i \in 1 .. Len(p) - 1 : NrziDecode(p)[i] = IF p[i] = p[i + 1] THEN 1 ELSE 0
  BY NrziDecodeType
<1>3. /\ Len(NrziDecode(q)) = IF Len(q) = 0 THEN 0 ELSE Len(q) - 1
      /\ \A i \in 1 .. Len(q) - 1 : NrziDecode(q)[i] = IF q[i] = q[i + 1] THEN 1 ELSE 0
  BY NrziDecodeType
<1>4. PICK j : j = IF w = 0 THEN 0 ELSE w - 1
  OBVIOUS
<1>5. j \in Nat /\ j <= w /\ w <= j + 1
  BY <1>4
<1>6. PICK b, c : b = NrziDecode(p) /\ c = NrziDecode(q)
  OBVIOUS
<1>7. ASSUME NEW i \in 1 .. Len(b), Outside(i, j, 11) PROVE b[i] = c[i]
  <2>1. i \in 1 .. Len(p) - 1 /\ i \in 1 .. Len(p) /\ i + 1 \in 1 .. Len(p)
    BY <1>1, <1>2, <1>6
  <2>2. i < j + 1 \/ i > j + 11
    BY <1>5, <1>7, <2>1 DEF Outside
  <2>3. Outside(i, w, 10) /\ Outside(i + 1, w, 10)
    <3>1. CASE i > j + 11
      BY <1>5, <2>1, <3>1 DEF Outside
    <3>2. CASE i < j + 1
      <4>1. w # 0 /\ j = w - 1
        BY <1>4, <2>1, <3>2
      <4> QED BY <2>1, <3>2, <4>1 DEF Outside
    <3> QED BY <2>2, <3>1, <3>2
  <2>4. p[i] = q[i] /\ p[i + 1] = q[i + 1]
    BY <1>1, <2>1, <2>3
  <2> QED BY <1>1, <1>2, <1>3, <1>6, <2>1, <2>4
<1>8. Len(b) = Len(c)
  BY <1>1, <1>2, <1>3, <1>6
<1>9. AlikeBut(b, c, j, 11)
  BY <1>7, <1>8 DEF AlikeBut
<1> QED BY <1>5, <1>6, <1>9

LEMMA Products ==
  ASSUME NEW S \in Nat, NEW a \in Int, NEW b \in Int, a <= b
  PROVE  a * S <= b * S
OBVIOUS

LEMMA DivisionBounds ==
  ASSUME NEW S \in Nat \ {0}, NEW x \in Int
  PROVE  x \div S \in Int /\ (x \div S) * S <= x /\ x < (x \div S) * S + S
OBVIOUS

\* Wrong samples over the length of nine symbols reach ten symbols at most.
LEMMA SymbolsAlike ==
  ASSUME NEW p \in Seq(Tones), NEW q \in Seq(Tones), NEW a \in Nat, NEW offset \in Nat,
         AlikeBut(p, q, a, 9 * SamplesPerSymbol)
  PROVE  \E w \in Nat : AlikeBut(Symbols(p, offset), Symbols(q, offset), w, 10)
<1>1. PICK S : S = SamplesPerSymbol
  OBVIOUS
<1>2. S \in Nat \ {0} /\ S \in Nat /\ S >= 1
  BY <1>1, SamplesAssumption
<1>3. Len(p) \in Nat /\ Len(q) = Len(p) /\ \A i \in 1 .. Len(p) : Outside(i, a, 9 * S) => p[i] = q[i]
  BY <1>1 DEF AlikeBut
<1>4. PICK M : M = (Len(p) - offset) \div S
  OBVIOUS
<1>5. M \in Int /\ M * S <= Len(p) - offset
  <2>1. Len(p) - offset \in Int
    BY <1>3
  <2> QED BY <1>2, <1>4, <2>1, DivisionBounds
<1>6. PICK w : w = IF a >= offset THEN (a - offset) \div S ELSE 0
  OBVIOUS
<1>7. /\ w \in Nat /\ a < offset + w * S + S
      /\ w > 0 => offset + w * S <= a
  <2>1. CASE a >= offset
    <3>1. a - offset \in Int /\ a - offset >= 0
      BY <2>1
    <3>2. w = (a - offset) \div S
      BY <1>6, <2>1
    <3>3. w \in Int /\ w * S <= a - offset /\ a - offset < w * S + S
      BY <1>2, <3>1, <3>2, DivisionBounds
    <3>4. w >= 0
      <4>1. SUFFICES ASSUME w <= -1 PROVE FALSE
        BY <3>3
      <4>2. w * S <= (-1) * S
        BY <1>2, <3>3, <4>1, Products
      <4>3. w * S \in Int /\ (-1) * S = -S
        BY <1>2, <3>3
      <4> QED BY <1>2, <3>1, <3>3, <4>2, <4>3
    <3>5. w * S \in Int
      BY <1>2, <3>3
    <3> QED BY <1>2, <3>3, <3>4, <3>5
  <2>2. CASE ~(a >= offset)
    <3>1. w = 0 /\ w * S = 0
      BY <1>2, <1>6, <2>2
    <3> QED BY <1>2, <2>2, <3>1
  <2> QED BY <2>1, <2>2
<1> DEFINE Window(s, k) == SubSeq(s, offset + (k - 1) * S + 1, offset + (k - 1) * S + S)
           Tone(x) == IF Energy(x, "mark") >= Energy(x, "space") THEN "mark" ELSE "space"
           u == Symbols(p, offset)
           v == Symbols(q, offset)
<1>8. /\ u = [ k \in 1 .. M |-> Tone(Window(p, k)) ]
      /\ v = [ k \in 1 .. M |-> Tone(Window(q, k)) ]
  BY <1>1, <1>3, <1>4 DEF Symbols
<1>9. ASSUME NEW k \in 1 .. M, Outside(k, w, 10) PROVE Window(p, k) = Window(q, k)
  <2>1. PICK z : z = offset + (k - 1) * S
    OBVIOUS
  <2>2. k \in Int /\ 1 <= k /\ k <= M /\ (k <= w \/ k - 1 >= w + 10)
    BY <1>5, <1>7, <1>9 DEF Outside
  <2>3. /\ k * S \in Int /\ (k - 1) * S \in Int /\ w * S \in Int /\ M * S \in Int /\ 9 * S \in Int
        /\ (k - 1) * S + S = k * S /\ (w + 10) * S = w * S + S + 9 * S
        /\ 0 * S = 0
    BY <1>2, <1>5, <1>7, <2>2
  <2>4. z \in Int /\ z >= 0 /\ z + S <= Len(p)
    <3>1. 0 * S <= (k - 1) * S
      BY <1>2, <2>2, Products
    <3>2. k * S <= M * S
      BY <1>2, <1>5, <2>2, Products
    <3>3. z >= 0 /\ z \in Int
      BY <2>1, <2>3, <3>1
    <3>4. z + S = offset + k * S
      BY <1>2, <2>1, <2>3
    <3>5. k * S <= Len(p) - offset
      BY <1>3, <1>5, <2>3, <3>2
    <3> QED BY <1>3, <2>3, <3>3, <3>4, <3>5
  <2>5. z + S <= a \/ z >= a + 9 * S
    <3>1. CASE k <= w
      <4>1. k * S <= w * S
        BY <1>2, <1>7, <2>2, <3>1, Products
      <4>2. offset + w * S <= a
        BY <1>7, <2>2, <3>1
      <4> QED BY <1>2, <2>1, <2>3, <4>1, <4>2
    <3>2. CASE k - 1 >= w + 10
      <4>1. (w + 10) * S <= (k - 1) * S
        BY <1>2, <1>7, <2>2, <3>2, Products
      <4> QED BY <1>2, <1>7, <2>1, <2>3, <4>1
    <3> QED BY <2>2, <3>1, <3>2
  <2>6. PICK m, n : m = z + 1 /\ n = z + S
    OBVIOUS
  <2>7. m \in Int /\ n \in Int /\ 1 <= m /\ n <= Len(p) /\ n <= Len(q) /\ m <= n /\ n - m + 1 = S
    BY <1>2, <1>3, <2>4, <2>6
  <2>8. /\ SubSeq(p, m, n) \in Seq(Tones)
        /\ Len(SubSeq(p, m, n)) = IF m <= n THEN n - m + 1 ELSE 0
        /\ \A i \in 1 .. n - m + 1 : SubSeq(p, m, n)[i] = p[m + i - 1]
    BY <2>7, SubSeqType
  <2>9. /\ SubSeq(q, m, n) \in Seq(Tones)
        /\ Len(SubSeq(q, m, n)) = IF m <= n THEN n - m + 1 ELSE 0
        /\ \A i \in 1 .. n - m + 1 : SubSeq(q, m, n)[i] = q[m + i - 1]
    BY <2>7, SubSeqType
  <2>10. ASSUME NEW i \in 1 .. S PROVE p[m + i - 1] = q[m + i - 1]
    <3>1. m + i - 1 \in 1 .. Len(p) /\ m + i - 1 >= z + 1 /\ m + i - 1 <= z + S
      BY <1>2, <1>3, <2>4, <2>6
    <3>2. Outside(m + i - 1, a, 9 * S)
      <4>1. m + i - 1 \in Int /\ z \in Int /\ S \in Int /\ a \in Int /\ 9 * S \in Int
        BY <1>2, <2>4, <2>7
      <4>2. m + i - 1 <= a \/ m + i - 1 > a + 9 * S
        BY <2>5, <3>1, <4>1
      <4> QED BY <4>1, <4>2 DEF Outside
    <3> QED BY <1>3, <3>1, <3>2
  <2>11. PICK x, y : x = SubSeq(p, m, n) /\ y = SubSeq(q, m, n)
    OBVIOUS
  <2>12. Len(x) = S /\ Len(y) = S /\ x \in Seq(Tones) /\ y \in Seq(Tones) /\ \A i \in 1 .. S : x[i] = y[i]
    BY <2>7, <2>8, <2>9, <2>10, <2>11
  <2>13. x = y
    BY <2>12
  <2> QED BY <2>1, <2>6, <2>11, <2>13
<1> HIDE DEF Window, Tone, u, v
<1>10. \A k \in 1 .. M : Outside(k, w, 10) => u[k] = v[k]
  BY <1>8, <1>9
<1>11. u \in Seq(Tones) /\ v \in Seq(Tones) /\ DOMAIN u = 1 .. M /\ DOMAIN v = 1 .. M
  BY <1>8, SymbolsType DEF u, v
<1>12. Len(u) = Len(v) /\ 1 .. Len(u) = 1 .. M
  BY <1>11
<1>13. AlikeBut(u, v, w, 10)
  BY <1>10, <1>12 DEF AlikeBut
<1> QED BY <1>7, <1>13 DEF u, v

\* A frame that is not malformed is what is left of its bits without stuffing.
LEMMA WellFormed ==
  ASSUME NEW bs \in Seq(BitValue), VerifyFcs(Octets(Destuff(bs)))
  PROVE  Destuff(bs) = Unstuffed(bs)
<1>1. CASE \E i \in DOMAIN bs : Ones(bs, i, 6)
  <2>1. Destuff(bs) = << >>
    BY <1>1 DEF Destuff, Malformed
  <2>2. Len(Octets(<< >>)) = 0
    <3>1. << >> \in Seq(BitValue) /\ Len(<< >>) = 0 /\ 0 \div 8 = 0
      OBVIOUS
    <3> QED BY <3>1, OctetsType
  <2> QED BY <2>1, <2>2 DEF VerifyFcs
<1>2. CASE ~\E i \in DOMAIN bs : Ones(bs, i, 6)
  BY <1>2 DEF Destuff, Unstuffed, Kept5
<1> QED BY <1>1, <1>2

\* demodulate, frame_sync and verify_fcs: what noise over the length of nine
\* symbols makes of a frame of any length, at any sample offset, never passes for
\* another frame.  The noise may be of any kind, on the stuffing and the check
\* sequence too, where it makes and breaks no flag and the frame keeps its
\* length: of the two, one fails its check or they are the same.
THEOREM NoiseForgesNothing ==
  ASSUME NEW p \in Seq(Tones), NEW q \in Seq(Tones), NEW a \in Nat, NEW offset \in Nat,
         AlikeBut(p, q, a, 9 * SamplesPerSymbol),
         NEW b, b = BitsAt(p, offset), NEW c, c = BitsAt(q, offset), FlagsOf(b) = FlagsOf(c),
         NEW k \in DOMAIN Inner(b),
         NEW s, s = Destuff(Inner(b)[k]), NEW t, t = Destuff(Inner(c)[k]),
         Len(s) = Len(t), Len(s) % 8 = 0, VerifyFcs(Octets(s)), VerifyFcs(Octets(t))
  PROVE  Octets(s) = Octets(t)
<1>1. b \in Seq(BitValue) /\ c \in Seq(BitValue) /\ \E j \in Nat : AlikeBut(b, c, j, 11)
  <2>1. PICK u, v : u = Symbols(p, offset) /\ v = Symbols(q, offset)
    OBVIOUS
  <2>2. u \in Seq(Tones) /\ v \in Seq(Tones)
    BY <2>1, SymbolsType
  <2>3. PICK w \in Nat : AlikeBut(u, v, w, 10)
    BY <2>1, SymbolsAlike
  <2>4. NrziDecode(u) \in Seq(BitValue) /\ NrziDecode(v) \in Seq(BitValue)
    BY <2>2, NrziDecodeType
  <2>5. \E j \in Nat : AlikeBut(NrziDecode(u), NrziDecode(v), j, 11)
    BY <2>2, <2>3, TonesAlike
  <2> QED BY <2>1, <2>4, <2>5 DEF BitsAt
<1>2. PICK j \in Nat : AlikeBut(b, c, j, 11)
  BY <1>1
<1>3. PICK x, y : x = Inner(b)[k] /\ y = Inner(c)[k]
  OBVIOUS
<1>4. x \in Seq(BitValue) /\ y \in Seq(BitValue) /\ \E d \in Nat : AlikeBut(x, y, d, 11)
  BY <1>1, <1>2, <1>3, InnerAlike
<1>5. PICK d \in Nat : AlikeBut(x, y, d, 11)
  BY <1>4
<1>6. s = Unstuffed(x) /\ t = Unstuffed(y)
  BY <1>3, <1>4, WellFormed
<1>7. s \in Seq(BitValue) /\ t \in Seq(BitValue)
  BY <1>3, <1>4, DestuffType
<1>8. \E m \in Nat : AlikeBut(s, t, m, 16)
  BY <1>4, <1>5, <1>6, UnstuffedAlike
<1>9. PICK m \in Nat : AlikeBut(s, t, m, 16)
  BY <1>8
<1>10. PICK n : n = Len(s)
  OBVIOUS
<1>11. PICK f, g : f = Octets(s) /\ g = Octets(t)
  OBVIOUS
<1>12. n \in Nat /\ n = Len(t) /\ n % 8 = 0
  BY <1>7, <1>10
<1>13. f \in Seq(Octet) /\ g \in Seq(Octet) /\ Len(f) = n \div 8 /\ Len(g) = n \div 8
  BY <1>7, <1>10, <1>11, OctetsType
<1>14. n = 8 * Len(f) /\ Len(f) = Len(g)
  BY <1>12, <1>13
<1>15. ASSUME NEW z \in Seq(BitValue), n = Len(z), NEW i \in 1 .. n
       PROVE  Source(Octets(z), n)[i] = z[i]
  BY <1>12, <1>15, SourceOfOctets
<1>16. ASSUME NEW i \in 1 .. n, i \notin m + 1 .. m + 16 PROVE Source(f, n)[i] = Source(g, n)[i]
  <2>1. Source(f, n)[i] = s[i]
    BY <1>7, <1>10, <1>11, <1>15
  <2>2. Source(g, n)[i] = t[i]
    BY <1>7, <1>11, <1>12, <1>15
  <2>3. s[i] = t[i]
    BY <1>9, <1>10, <1>16 DEF AlikeBut, Outside
  <2> QED BY <2>1, <2>2, <2>3
<1>17. OneBurst(n, Source(f, n), Source(g, n), m)
  BY <1>16 DEF OneBurst
<1>18. VerifyFcs(f) /\ VerifyFcs(g)
  BY <1>11
<1>19. f = g
  BY <1>13, <1>14, <1>17, <1>18, OneBurstDetected
<1> QED BY <1>11, <1>19
=============================================================================
