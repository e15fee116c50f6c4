------------------------- MODULE SatnogsClientProofs -------------------------
(***************************************************************************)
(* Proofs about the polling clients, for any numbers of satellites, any    *)
(* pauses and timeouts, any headers and any length of time.                *)
(***************************************************************************)
EXTENDS SatnogsClient, TLAPS

(* Arithmetic of the bound: what N satellites of cost B add up to.         *)

LEMMA Distributes == \A n, b \in Int : (n + 1) * b = n * b + b
  BY SMT

LEMMA CostIsMonotone == ASSUME NEW n \in Nat, NEW m \in Nat, NEW b \in Nat, n <= m
                        PROVE  n * b <= m * b /\ n * b \in Nat
<1>1. m - n \in Nat  OBVIOUS
<1>2. (m - n) * b \in Nat  BY <1>1, SMT
<1>3. (m - n) * b = m * b - n * b  BY SMT
<1>4. n * b \in Nat  BY SMT
<1>. QED  BY <1>2, <1>3, <1>4, SMT

LEMMA GetTimeNat == GetTime \in Nat
  BY ClientAssumption, SMT DEF GetTime

\* What the satellites before the current one may have cost the cycle.
Base == IF client = "raw" THEN (sat - 1) * PerSat ELSE NumSats * PerSat + (sat - 1) * GetTime

\* How late in the cycle the client is at most, by where it stands.  In a
\* state that waits the bound is on the end of the wait.
RawDue ==
  /\ pc = "limit" => now - began <= Base
  /\ pc = "paced" => until - began <= Base + MinInterval
  /\ pc = "send" /\ tries = 0 => now - began <= Base + MinInterval
  /\ pc = "send" /\ tries = 1 => now - began <= Base + MinInterval + GetTime + MaxRetry
  /\ pc = "await" /\ tries = 1 => until - began <= Base + MinInterval + GetTime
  /\ pc = "await" /\ tries = 2 => until - began <= Base + PerSat
  /\ pc = "backoff" => until - began <= Base + MinInterval + GetTime + MaxRetry

AudioDue ==
  /\ pc = "send" => now - began <= Base
  /\ pc = "await" => until - began <= Base + GetTime

\* Which tries go with which place, and no wait outlives its end.
Shape ==
  /\ pc = "idle" => client = "raw" /\ sat = 1
  /\ pc \in {"limit", "paced", "backoff"} => client = "raw"
  /\ pc \in {"idle", "limit", "paced"} => tries = 0
  /\ pc = "send" => tries \in {0, 1}
  /\ pc = "await" => tries \in {1, 2}
  /\ pc = "backoff" => tries = 1
  /\ pc = "send" /\ client = "audio" => tries = 0
  /\ pc \in {"paced", "await", "backoff"} => now <= until

\* The limiter never notes a time of the future, and the end of its sleep is
\* an interval after the last request.
Paces ==
  /\ last <= now
  /\ began <= now
  /\ pc = "paced" => last # -1 /\ until = last + MinInterval

Due == (client = "raw" => RawDue) /\ (client = "audio" => AudioDue)

Inv == TypeOK /\ Shape /\ Paces /\ Due /\ AllOrNothing

USE DEF Clients, PC

LEMMA PerSatNat == PerSat \in Nat
  BY ClientAssumption, GetTimeNat DEF PerSat

LEMMA RetryBound == ASSUME NEW h \in Headers \ {NaN} PROVE RetryAfter(h) \in 0 .. MaxRetry
  BY ClientAssumption DEF RetryAfter

LEMMA BaseNat == TypeOK => Base \in Nat
<1>. SUFFICES ASSUME TypeOK PROVE Base \in Nat  OBVIOUS
<1>1. sat - 1 \in Nat  BY DEF TypeOK, SatsOf
<1>2. (sat - 1) * PerSat \in Nat  BY <1>1, PerSatNat, SMT
<1>3. (sat - 1) * GetTime \in Nat  BY <1>1, ClientAssumption, GetTimeNat, SMT
<1>4. NumSats * PerSat \in Nat  BY PerSatNat, ClientAssumption, SMT
<1>. QED  BY <1>2, <1>3, <1>4 DEF Base

LEMMA InitInv == Init => Inv
<1>. SUFFICES ASSUME Init PROVE Inv  OBVIOUS
<1>1. frames = 1 .. sat - 1  BY DEF Init
<1>2. result \in [Clients -> SUBSET (SatsOf("raw") \cup SatsOf("audio"))]  BY DEF Init
<1>3. TypeOK  BY <1>1, <1>2, ClientAssumption DEF Init, TypeOK, SatsOf, NumOf
<1>4. Shape /\ Paces  BY ClientAssumption DEF Init, Shape, Paces
<1>5. Due  BY DEF Init, Due, RawDue
<1>6. AllOrNothing  BY DEF Init, AllOrNothing
<1>. QED  BY <1>3, <1>4, <1>5, <1>6 DEF Inv

-----------------------------------------------------------------------------
(* How the bound moves from one satellite to the next and from one client  *)
(* to the other.                                                           *)

Cost == IF client = "raw" THEN PerSat ELSE GetTime

LEMMA NextBase == TypeOK /\ NextSat => Base' = Base + Cost
<1>. SUFFICES ASSUME TypeOK, NextSat PROVE Base' = Base + Cost  OBVIOUS
<1>1. sat' = sat + 1 /\ client' = client /\ sat \in Int  BY DEF NextSat, TypeOK, SatsOf
<1>2. PerSat' = PerSat  BY DEF PerSat
<1>3. sat * PerSat = (sat - 1) * PerSat + PerSat  BY <1>1, Distributes, PerSatNat
<1>4. sat * GetTime = (sat - 1) * GetTime + GetTime  BY <1>1, Distributes, ClientAssumption, GetTimeNat
<1>5. NumSats * PerSat \in Nat /\ (sat - 1) * GetTime \in Int
  BY <1>1, PerSatNat, GetTimeNat, ClientAssumption, SMT
<1>. QED  BY <1>1, <1>2, <1>3, <1>4, <1>5, ClientAssumption, GetTimeNat DEF Base, Cost

\* The first request of the audio client has the whole raw poll behind it.
LEMMA FirstAudioBase ==
  TypeOK /\ client = "raw" /\ client' = "audio" /\ sat' = 1 => Base + Cost <= Base'
<1>. SUFFICES ASSUME TypeOK, client = "raw", client' = "audio", sat' = 1 PROVE Base + Cost <= Base'
  OBVIOUS
<1>1. sat \in Nat /\ NumSats \in Nat /\ sat <= NumSats  BY ClientAssumption DEF TypeOK, SatsOf, NumOf
<1>2. PerSat' = PerSat  BY DEF PerSat
<1>3. sat * PerSat <= NumSats * PerSat /\ NumSats * PerSat \in Nat
  BY <1>1, CostIsMonotone, PerSatNat
<1>4. sat * PerSat = (sat - 1) * PerSat + PerSat  BY <1>1, Distributes, PerSatNat
<1>5. (sat' - 1) * GetTime = 0  BY ClientAssumption, GetTimeNat
<1>6. Base + Cost = sat * PerSat  BY <1>4 DEF Base, Cost
<1>7. Base' = NumSats * PerSat  BY <1>2, <1>3, <1>5 DEF Base
<1>. QED  BY <1>3, <1>6, <1>7

\* The answer to a request comes before the satellite has used up its cost.
LEMMA AnswerInTime == Inv /\ pc = "await" => now - began <= Base + Cost
<1>. SUFFICES ASSUME Inv, pc = "await" PROVE now - began <= Base + Cost  OBVIOUS
<1>1. now <= until /\ now \in Int /\ until \in Int /\ began \in Int
  BY DEF Inv, Shape, TypeOK
<1>2. Base \in Nat /\ PerSat \in Nat  BY BaseNat, PerSatNat DEF Inv
<1>3. CASE client = "raw"
  <2>1. tries = 1 \/ tries = 2  BY DEF Inv, Shape
  <2>2. until - began <= Base + PerSat
    BY <2>1, <1>3, <1>1, <1>2, ClientAssumption, GetTimeNat DEF Inv, Due, RawDue, PerSat
  <2>. QED  BY <2>2, <1>1, <1>2, <1>3 DEF Cost
<1>4. CASE client = "audio"
  BY <1>1, <1>2, <1>4, ClientAssumption, GetTimeNat DEF Inv, Due, AudioDue, Cost
<1>. QED  BY <1>3, <1>4 DEF Inv, TypeOK

-----------------------------------------------------------------------------
(* What the end of a poll and the step to the next satellite leave behind. *)

LEMMA EndPollInv ==
  ASSUME Inv, pc = "await", NEW got, EndPoll(got), got \in {{}, SatsOf(client)},
         UNCHANGED <<now, last, began>>, until' \in Nat
  PROVE  Inv'
<1>. USE DEF EndPoll, FirstSat
<1>1. sat' = 1 /\ frames' = {} /\ tries' = 0  OBVIOUS
<1>2. frames' = 1 .. sat' - 1  BY <1>1
<1>3. client' \in Clients /\ pc' \in PC  OBVIOUS
<1>4. sat' \in SatsOf(client')  BY <1>1, <1>3, ClientAssumption DEF SatsOf, NumOf
<1>5. result \in [Clients -> SUBSET (SatsOf("raw") \cup SatsOf("audio"))] /\ client \in Clients
  BY DEF Inv, TypeOK
<1>6. got \subseteq SatsOf("raw") \cup SatsOf("audio")  BY <1>5
<1>7. result' \in [Clients -> SUBSET (SatsOf("raw") \cup SatsOf("audio"))]
  BY <1>5, <1>6
<1>8. TypeOK'
  BY <1>1, <1>2, <1>3, <1>4, <1>7 DEF Inv, TypeOK, SatsOf, NumOf
<1>9. Shape' /\ Paces'
  BY <1>1 DEF Inv, Shape, Paces
<1>10. AllOrNothing'
  BY <1>5 DEF Inv, AllOrNothing, SatsOf, NumOf
<1>11. Due'
  <2>1. CASE client = "audio"
    BY <2>1 DEF Due, RawDue
  <2>2. CASE client = "raw"
    <3>1. now - began <= Base + Cost  BY AnswerInTime
    <3>2. Base + Cost <= Base'  BY <2>2, <1>1, FirstAudioBase DEF Inv
    <3>3. Base \in Int /\ Base' \in Int /\ Cost \in Int
      BY BaseNat, <1>8, PerSatNat, GetTimeNat, ClientAssumption DEF Inv, Cost, TypeOK, Base, PerSat
    <3>4. now' - began' <= Base'  BY <3>1, <3>2, <3>3 DEF Inv, TypeOK
    <3>. QED  BY <3>4, <2>2 DEF Due, AudioDue
  <2>. QED  BY <2>1, <2>2, <1>5
<1>. QED  BY <1>8, <1>9, <1>10, <1>11 DEF Inv

LEMMA NextSatInv ==
  ASSUME Inv, pc = "await", NextSat, UNCHANGED <<now, last, began, until>>
  PROVE  Inv'
<1>. USE DEF NextSat
<1>1. client' = client /\ result' = result /\ tries' = 0 /\ sat' = sat + 1  OBVIOUS
<1>2. sat \in Nat /\ sat >= 1 /\ frames = 1 .. sat - 1  BY DEF Inv, TypeOK, SatsOf
<1>3. frames' = 1 .. sat' - 1  BY <1>2
<1>4. sat' \in SatsOf(client)  BY <1>2, ClientAssumption DEF SatsOf, NumOf
<1>5. TypeOK'  BY <1>1, <1>3, <1>4 DEF Inv, TypeOK, SatsOf, NumOf
<1>6. Shape' /\ Paces'  BY DEF Inv, TypeOK, Shape, Paces
<1>7. AllOrNothing'  BY <1>1 DEF Inv, AllOrNothing, SatsOf, NumOf
<1>8. now' - began' <= Base'
  BY AnswerInTime, NextBase DEF Inv
<1>9. Base' \in Nat  BY <1>5, NextBase, BaseNat, PerSatNat, GetTimeNat, ClientAssumption DEF Inv, Cost
<1>10. Due'  BY <1>8, <1>9, ClientAssumption DEF Inv, TypeOK, Due, RawDue, AudioDue
<1>. QED  BY <1>5, <1>6, <1>7, <1>10 DEF Inv

-----------------------------------------------------------------------------
(* The other steps leave the satellite and the results alone.              *)

\* What a step of the same satellite has to show.
SameSat == UNCHANGED <<client, sat, frames, result>>

LEMMA SameSatInv ==
  ASSUME Inv, SameSat, now' \in 0 .. Horizon, last' \in -1 .. Horizon, pc' \in PC,
         tries' \in 0 .. 2, until' \in Nat, began' \in 0 .. Horizon, Shape', Paces', Due'
  PROVE  Inv'
<1>1. TypeOK'  BY DEF Inv, TypeOK, SameSat, SatsOf, NumOf
<1>2. AllOrNothing'  BY DEF Inv, AllOrNothing, SameSat, SatsOf, NumOf
<1>. QED  BY <1>1, <1>2 DEF Inv

LEMMA SameBase == SameSat => Base' = Base
  BY DEF SameSat, Base, PerSat

LEMMA BackOffInv ==
  ASSUME Inv, pc = "await", client = "raw", tries = 1, NEW pause \in 0 .. MaxRetry, BackOff(pause),
         UNCHANGED <<now, last, began>>
  PROVE  Inv'
<1>. USE DEF BackOff, poll
<1>1. SameSat /\ Base' = Base /\ Base \in Nat  BY SameBase, BaseNat DEF Inv, SameSat
<1>2. now <= until /\ until - began <= Base + MinInterval + GetTime
  BY DEF Inv, Shape, Due, RawDue
<1>3. until' = now + pause /\ until' \in Nat /\ now' <= until'
  BY ClientAssumption DEF Inv, TypeOK
<1>4. until' - began' <= Base' + MinInterval + GetTime + MaxRetry
  BY <1>1, <1>2, <1>3, ClientAssumption, GetTimeNat DEF Inv, TypeOK
<1>5. Due'  BY <1>4 DEF Due, RawDue
<1>6. Shape'  BY <1>3 DEF Inv, Shape
<1>7. Paces'  BY DEF Inv, Paces
<1>. QED  BY <1>1, <1>3, <1>5, <1>6, <1>7, SameSatInv DEF Inv, TypeOK

LEMMA StepInv == Inv /\ [Next]_vars => Inv'
<1>. SUFFICES ASSUME Inv, [Next]_vars PROVE Inv'  OBVIOUS
<1>. USE DEF poll
<1>0. TypeOK /\ Base \in Nat  BY BaseNat DEF Inv
<1>1. CASE BeginCycle
  <2>. USE <1>1 DEF BeginCycle
  <2>1. SameSat /\ Base' = Base  BY SameBase DEF SameSat
  <2>2. Base = 0  BY PerSatNat DEF Inv, Shape, Base
  <2>3. Due'  BY <1>0, <2>1, <2>2 DEF Inv, TypeOK, Shape, Due, RawDue
  <2>4. Shape' /\ Paces'  BY <1>0 DEF Inv, TypeOK, Shape, Paces
  <2>. QED  BY <1>0, <2>1, <2>3, <2>4, SameSatInv DEF TypeOK
<1>2. CASE Limit
  <2>. USE <1>2 DEF Limit
  <2>1. SameSat /\ Base' = Base  BY SameBase DEF SameSat
  <2>2. now - began <= Base /\ client = "raw" /\ tries = 0 /\ last <= now
    BY DEF Inv, Shape, Due, RawDue, Paces
  <2>3. CASE Remaining > 0 /\ until' = now + Remaining /\ pc' = "paced" /\ last' = last
    <3>1. last # -1  BY <2>3 DEF Remaining
    <3>2. Remaining = MinInterval - (now - last)  BY <3>1 DEF Remaining
    <3>3. until' = last + MinInterval /\ until' \in Nat /\ now <= until'
      BY <1>0, <2>3, <3>2, ClientAssumption DEF TypeOK
    <3>4. until' - began <= Base + MinInterval
      BY <1>0, <2>2, <3>3, ClientAssumption DEF TypeOK
    <3>5. Due'  BY <2>1, <2>2, <2>3, <3>4 DEF Due, RawDue
    <3>6. Shape' /\ Paces'  BY <2>2, <2>3, <3>1, <3>3 DEF Inv, Shape, Paces
    <3>. QED  BY <1>0, <2>1, <2>3, <3>3, <3>5, <3>6, SameSatInv DEF TypeOK
  <2>4. CASE last' = now /\ pc' = "send" /\ until' = until
    <3>1. Due'  BY <1>0, <2>1, <2>2, <2>4, ClientAssumption DEF TypeOK, Due, RawDue
    <3>2. Shape' /\ Paces'  BY <1>0, <2>2, <2>4 DEF Inv, TypeOK, Shape, Paces
    <3>. QED  BY <1>0, <2>1, <2>4, <3>1, <3>2, SameSatInv DEF TypeOK
  <2>. QED  BY <2>3, <2>4
<1>3. CASE Paced
  <2>. USE <1>3 DEF Paced
  <2>1. SameSat /\ Base' = Base  BY SameBase DEF SameSat
  <2>2. now = until /\ client = "raw" /\ tries = 0 /\ until - began <= Base + MinInterval
    BY <1>0 DEF Inv, TypeOK, Shape, Due, RawDue
  <2>3. Due'  BY <2>1, <2>2 DEF Due, RawDue
  <2>4. Shape' /\ Paces'  BY <1>0, <2>2 DEF Inv, TypeOK, Shape, Paces
  <2>. QED  BY <1>0, <2>1, <2>3, <2>4, SameSatInv DEF TypeOK
<1>4. CASE Send
  <2>. USE <1>4 DEF Send
  <2>1. SameSat /\ Base' = Base  BY SameBase DEF SameSat
  <2>2. until' \in Nat /\ now' <= until' /\ tries \in {0, 1} /\ tries' \in {1, 2}
    BY <1>0, ClientAssumption, GetTimeNat DEF Inv, TypeOK, Shape
  <2>3. Due'
    <3>1. CASE client = "raw"
      BY <1>0, <2>1, <2>2, <3>1, ClientAssumption, GetTimeNat DEF Inv, TypeOK, Due, RawDue, PerSat
    <3>2. CASE client = "audio"
      BY <1>0, <2>1, <2>2, <3>2, ClientAssumption, GetTimeNat DEF Inv, TypeOK, Due, AudioDue
    <3>. QED  BY <1>0, <3>1, <3>2 DEF TypeOK
  <2>4. Shape' /\ Paces'  BY <1>0, <2>2 DEF Inv, TypeOK, Shape, Paces
  <2>. QED  BY <1>0, <2>1, <2>2, <2>3, <2>4, SameSatInv DEF TypeOK
<1>5. CASE Page
  <2>. USE <1>5 DEF Page
  <2>1. CASE NextSat
    BY <2>1, NextSatInv
  <2>2. CASE sat = NumOf(client) /\ EndPoll(frames \cup {sat})
    <3>1. frames \cup {sat} = SatsOf(client)
      BY <1>0, <2>2 DEF TypeOK, SatsOf
    <3>. QED  BY <1>0, <2>2, <3>1, EndPollInv DEF TypeOK
  <2>. QED  BY <2>1, <2>2
<1>6. CASE TooMany
  <2>1. PICK h \in Headers \ {NaN} : BackOff(RetryAfter(h))  BY <1>6 DEF TooMany
  <2>2. RetryAfter(h) \in 0 .. MaxRetry  BY RetryBound
  <2>. QED  BY <1>6, <2>1, <2>2, BackOffInv DEF TooMany
<1>7. CASE TooManyNaN
  <2>. USE <1>7 DEF TooManyNaN
  <2>1. CASE BackOff(0)
    BY <2>1, ClientAssumption, BackOffInv
  <2>2. CASE Fail /\ until' = until
    BY <1>0, <2>2, EndPollInv DEF Fail, TypeOK
  <2>. QED  BY <2>1, <2>2
<1>8. CASE Retry
  <2>. USE <1>8 DEF Retry
  <2>1. SameSat /\ Base' = Base  BY SameBase DEF SameSat
  <2>2. now = until /\ client = "raw" /\ tries = 1
    BY <1>0 DEF Inv, TypeOK, Shape
  <2>3. Due'  BY <2>1, <2>2 DEF Inv, Due, RawDue
  <2>4. Shape' /\ Paces'  BY <1>0, <2>2 DEF Inv, TypeOK, Shape, Paces
  <2>. QED  BY <1>0, <2>1, <2>3, <2>4, SameSatInv DEF TypeOK
<1>9. CASE Error
  BY <1>0, <1>9, EndPollInv DEF Error, Fail, TypeOK
<1>10. CASE Tick
  <2>. USE <1>10 DEF Tick
  <2>1. SameSat /\ Base' = Base  BY SameBase DEF SameSat
  <2>2. now' \in 0 .. Horizon  BY <1>0, ClientAssumption DEF TypeOK
  <2>3. Shape' /\ Paces'  BY <1>0 DEF Inv, TypeOK, Shape, Paces
  <2>4. Due'  BY <2>1 DEF Inv, Due, RawDue, AudioDue
  <2>. QED  BY <1>0, <2>1, <2>2, <2>3, <2>4, SameSatInv DEF TypeOK
<1>11. CASE UNCHANGED vars
  BY <1>11 DEF vars, Inv, TypeOK, Shape, Paces, Due, RawDue, AudioDue, Base, PerSat, AllOrNothing, SatsOf, NumOf
<1>. QED
  BY <1>1, <1>2, <1>3, <1>4, <1>5, <1>6, <1>7, <1>8, <1>9, <1>10, <1>11 DEF Next

LEMMA AlwaysInv == Spec => []Inv
  BY InitInv, StepInv, PTL DEF Spec

-----------------------------------------------------------------------------
(* The results.                                                            *)

\* Every reachable state of the clients is well typed, for any numbers of
\* satellites, headers and pauses: in particular a satellite is asked twice at
\* most and a poll has the pages of exactly the satellites it has passed.
THEOREM TypeCorrect == Spec => []TypeOK
  BY AlwaysInv, PTL DEF Inv

\* A poll that met an error returns nothing, one that met none returns the
\* page of every satellite.
THEOREM AllOrNothingCorrect == Spec => []AllOrNothing
  BY AlwaysInv, PTL DEF Inv

\* Whatever the servers send or withhold, a cycle is over within the sum of
\* its pauses and timeouts: no header of any value stalls the ingest loop.
THEOREM CycleIsBoundedCorrect == Spec => []CycleIsBounded
<1>1. Inv => CycleIsBounded
  <2>. SUFFICES ASSUME Inv, pc # "idle" PROVE now - began <= NumSats * PerSat + NumAudio * GetTime
    BY DEF CycleIsBounded
  <2>0. TypeOK /\ Base \in Nat  BY BaseNat DEF Inv
  <2>1. NumSats * PerSat \in Nat /\ NumAudio * GetTime \in Nat
    BY PerSatNat, GetTimeNat, ClientAssumption, SMT
  <2>2. now - began <= Base + Cost
    BY <2>0, PerSatNat, GetTimeNat, ClientAssumption
    DEF Inv, TypeOK, Shape, Due, RawDue, AudioDue, Cost, PerSat
  <2>3. sat \in Nat /\ sat <= NumOf(client)  BY <2>0, ClientAssumption DEF TypeOK, SatsOf, NumOf
  <2>4. CASE client = "raw"
    <3>1. sat * PerSat <= NumSats * PerSat /\ sat * PerSat \in Nat
      BY <2>3, <2>4, CostIsMonotone, PerSatNat, ClientAssumption DEF NumOf
    <3>2. Base + Cost = sat * PerSat  BY <2>3, <2>4, Distributes, PerSatNat DEF Base, Cost
    <3>. QED  BY <2>0, <2>1, <2>2, <3>1, <3>2, ClientAssumption DEF TypeOK
  <2>5. CASE client = "audio"
    <3>1. sat * GetTime <= NumAudio * GetTime /\ sat * GetTime \in Nat
      BY <2>3, <2>5, CostIsMonotone, ClientAssumption, GetTimeNat DEF NumOf
    <3>2. sat * GetTime = (sat - 1) * GetTime + GetTime
      BY <2>3, Distributes, ClientAssumption, GetTimeNat
    <3>3. Base + Cost = NumSats * PerSat + sat * GetTime
      BY <2>1, <2>3, <2>5, <3>2, ClientAssumption, GetTimeNat DEF Base, Cost
    <3>. QED  BY <2>0, <2>1, <2>2, <3>1, <3>3, ClientAssumption DEF TypeOK
  <2>. QED  BY <2>0, <2>4, <2>5 DEF TypeOK
<1>. QED  BY <1>1, AlwaysInv, PTL

\* The limiter keeps first requests apart through every failure and retry and
\* from one cycle to the next.
THEOREM FirstRequestsPacedCorrect == Spec => FirstRequestsPaced
<1>1. Inv /\ [Next]_vars => [last' # last /\ last # -1 => last' - last >= MinInterval]_vars
  <2>. SUFFICES ASSUME Inv, Next, last' # last, last # -1 PROVE last' - last >= MinInterval
    OBVIOUS
  <2>1. Limit \/ Paced
    BY DEF Next, BeginCycle, Send, Page, TooMany, TooManyNaN, Retry, Error, Tick
  <2>2. CASE Limit
    BY <2>2, ClientAssumption DEF Limit, Remaining, Inv, TypeOK
  <2>3. CASE Paced
    BY <2>3, ClientAssumption DEF Paced, Inv, TypeOK, Paces
  <2>. QED  BY <2>1, <2>2, <2>3
<1>. QED  BY <1>1, AlwaysInv, PTL DEF Spec, FirstRequestsPaced
=============================================================================
