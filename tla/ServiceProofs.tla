---------------------------- MODULE ServiceProofs ----------------------------
(***************************************************************************)
(* The tracker of Service stops in time and publishes fresh positions, for *)
(* any number of satellites and any intervals.                             *)
(***************************************************************************)
EXTENDS Service, TLAPS

\* The clock of a round: the fetch of satellite sat ends by due, the sat-th
\* slot after its begin.
Clock ==
  /\ stopAt <= now
  /\ begin <= now
  /\ pc \in {"fetch", "wait"} => now <= due
  /\ pc = "fetch" => due <= begin + sat * FetchMax

\* No round begins once the stop event is set.
StopsInRound ==
  /\ pc = "fetch" /\ Stopped => begin <= stopAt
  /\ pc = "wait" /\ Stopped => now - stopAt <= Round

\* Every satellite was looked up in the round that counts, or will be.
LookedUp ==
  /\ pc = "fetch" => \A s \in 1 .. sat - 1 : tried[s] >= begin
  /\ pc = "wait" => last # Never /\ \A s \in Sats : tried[s] >= last

\* What is shown was shown when the wait began, or before the round did.
Shown ==
  \A s \in Sats :
    /\ shown[s] # Never => s \in tles
    /\ pc = "wait" /\ s \in tles \ broken =>
         /\ shown[s] = due - Update
         /\ shown[s] - tried[s] < Refresh \/ shown[s] - tried[s] <= Round
    /\ pc = "fetch" /\ shown[s] # Never /\ s \notin broken => shown[s] >= begin - Update

IInv == TypeOK /\ Clock /\ StopsInRound /\ LookedUp /\ Shown

-----------------------------------------------------------------------------
(* A slot is inside its round.                                             *)
LEMMA SlotInRound ==
  ASSUME NEW s \in Sats
  PROVE  /\ s * FetchMax \in Nat
         /\ Round \in Nat
         /\ s * FetchMax <= Round
         /\ (s + 1) * FetchMax = s * FetchMax + FetchMax
<1>1. s \in Nat /\ NumSats \in Nat /\ FetchMax \in Nat /\ s <= NumSats
  BY ServiceAssumption DEF Sats
<1>2. s * FetchMax <= NumSats * FetchMax
  <2>1. PICK d \in Nat : NumSats = s + d
    <3>1. NumSats - s \in Nat /\ NumSats = s + (NumSats - s)
      BY <1>1
    <3> QED BY <3>1
  <2>2. NumSats * FetchMax = s * FetchMax + d * FetchMax
    BY <1>1, <2>1
  <2>3. d * FetchMax \in Nat /\ s * FetchMax \in Nat
    BY <1>1
  <2> QED BY <2>2, <2>3
<1> QED BY <1>1, <1>2 DEF Round

LEMMA InitIInv == Init => IInv
<1> SUFFICES ASSUME Init PROVE IInv
  OBVIOUS
<1>1. 1 \in Sats /\ FetchMax \in Nat /\ 1 * FetchMax = FetchMax
  BY ServiceAssumption DEF Sats
<1>2. TypeOK
  BY <1>1 DEF Init, TypeOK
<1>3. Clock
  BY <1>1 DEF Init, Clock, Never
<1>4. StopsInRound /\ LookedUp /\ Shown
  BY DEF Init, StopsInRound, LookedUp, Shown, Stopped, Never
<1> QED BY <1>2, <1>3, <1>4 DEF IInv

-----------------------------------------------------------------------------
(* The steps of the tracker.                                               *)

LEMMA RoundEndsIInv ==
  ASSUME IInv, NEW found \in BOOLEAN, Fetched(found), ~(sat < NumSats)
  PROVE  IInv'
<1> DEFINE known == IF found THEN tles \cup {sat} ELSE tles
<1>1. /\ pc = "fetch" /\ pc' = "wait" /\ due' = now + Update /\ last' = begin
      /\ tles' = known /\ tried' = [tried EXCEPT ![sat] = now]
      /\ shown' = [s \in Sats |-> IF s \in known \ broken THEN now ELSE shown[s]]
      /\ UNCHANGED <<now, stopAt, main, export, server, begin, broken, sat>>
  BY DEF Fetched, RoundEnds, Publish, Wait, loop
<1>2. /\ sat \in Sats /\ sat = NumSats /\ now \in Nat /\ begin \in Nat /\ due \in Nat
      /\ {Refresh, Update, FetchMax} \subseteq Nat \ {0}
      /\ tles \subseteq Sats /\ known \subseteq Sats
      /\ tried \in [Sats -> Nat \cup {Never}] /\ shown \in [Sats -> Nat \cup {Never}]
      /\ stopAt \in Nat \cup {Never}
  BY ServiceAssumption DEF IInv, TypeOK, Sats
<1>3. now <= begin + Round /\ Round \in Nat
  <2>1. now <= due /\ due <= begin + sat * FetchMax
    BY <1>1 DEF IInv, Clock
  <2> QED BY <2>1, <1>2, SlotInRound
<1>4. TypeOK'
  <2>1. now + Update \in Nat
    BY <1>2
  <2>2. tried' \in [Sats -> Nat \cup {Never}] /\ shown' \in [Sats -> Nat \cup {Never}]
    BY <1>1, <1>2
  <2> HIDE DEF known
  <2> QED BY <1>1, <1>2, <2>1, <2>2 DEF IInv, TypeOK
<1>5. Clock'
  BY <1>1, <1>2 DEF IInv, Clock
<1>6. StopsInRound'
  <2>1. stopAt # Never => begin <= stopAt
    BY <1>1 DEF IInv, StopsInRound, Stopped
  <2> QED BY <2>1, <1>1, <1>2, <1>3 DEF StopsInRound, Stopped, Round, Never
<1>7. \A s \in Sats : tried'[s] >= begin
  <2> SUFFICES ASSUME NEW s \in Sats PROVE tried'[s] >= begin
    OBVIOUS
  <2>1. CASE s = sat
    BY <2>1, <1>1, <1>2 DEF IInv, Clock
  <2>2. CASE s # sat
    <3>1. s \in 1 .. sat - 1
      BY <2>2, <1>2, ServiceAssumption DEF Sats
    <3>2. tried[s] >= begin
      BY <3>1, <1>1 DEF IInv, LookedUp
    <3> QED BY <3>2, <2>2, <1>1, <1>2
  <2> QED BY <2>1, <2>2
<1>8. LookedUp'
  <2>1. begin # Never
    BY <1>2 DEF Never
  <2> QED BY <2>1, <1>1, <1>7 DEF LookedUp
<1>9. Shown'
  <2> SUFFICES ASSUME NEW s \in Sats
               PROVE  /\ shown'[s] # Never => s \in known
                      /\ s \in known \ broken =>
                           /\ shown'[s] = (now + Update) - Update
                           /\ shown'[s] - tried'[s] <= Round
    BY <1>1 DEF Shown
  <2>1. shown'[s] # Never => s \in known
    <3>1. shown[s] # Never => s \in tles
      BY DEF IInv, Shown
    <3> QED BY <3>1, <1>1
  <2>2. ASSUME s \in known \ broken
        PROVE  shown'[s] = (now + Update) - Update /\ shown'[s] - tried'[s] <= Round
    <3>1. shown'[s] = now
      BY <2>2, <1>1
    <3>2. tried'[s] >= begin /\ tried'[s] \in Int
      BY <1>1, <1>2, <1>7 DEF Never
    <3> HIDE DEF known
    <3> QED BY <3>1, <3>2, <1>2, <1>3
  <2> QED BY <2>1, <2>2
<1> QED BY <1>4, <1>5, <1>6, <1>8, <1>9 DEF IInv

LEMMA NextFetchIInv ==
  ASSUME IInv, NEW found \in BOOLEAN, Fetched(found), sat < NumSats
  PROVE  IInv'
<1> DEFINE known == IF found THEN tles \cup {sat} ELSE tles
<1>1. /\ pc = "fetch" /\ pc' = "fetch" /\ due' = now + FetchMax /\ sat' = sat + 1
      /\ tles' = known /\ tried' = [tried EXCEPT ![sat] = now]
      /\ UNCHANGED <<now, stopAt, main, export, server, begin, broken, last, shown>>
  BY DEF Fetched, Fetch, loop
<1>2. /\ sat \in Sats /\ sat + 1 \in Sats /\ now \in Nat /\ begin \in Nat /\ due \in Nat
      /\ {Refresh, Update, FetchMax} \subseteq Nat \ {0}
      /\ tles \subseteq Sats /\ known \subseteq Sats
      /\ tried \in [Sats -> Nat \cup {Never}]
  BY ServiceAssumption DEF IInv, TypeOK, Sats
<1>3. now <= begin + sat * FetchMax
  <2>1. now <= due /\ due <= begin + sat * FetchMax
    BY <1>1 DEF IInv, Clock
  <2> QED BY <2>1, <1>2, SlotInRound
<1>4. TypeOK'
  <2>1. now + FetchMax \in Nat
    BY <1>2
  <2>2. tried' \in [Sats -> Nat \cup {Never}]
    BY <1>1, <1>2
  <2> HIDE DEF known
  <2> QED BY <1>1, <1>2, <2>1, <2>2 DEF IInv, TypeOK
<1>5. Clock'
  <2>1. now + FetchMax <= begin + (sat + 1) * FetchMax
    BY <1>2, <1>3, SlotInRound
  <2> QED BY <2>1, <1>1, <1>2 DEF IInv, Clock
<1>6. StopsInRound'
  BY <1>1 DEF IInv, StopsInRound, Stopped
<1>7. LookedUp'
  <2> SUFFICES ASSUME NEW s \in 1 .. (sat + 1) - 1 PROVE tried'[s] >= begin
    BY <1>1 DEF LookedUp
  <2>0. s \in Sats
    BY <1>2, ServiceAssumption DEF Sats
  <2>1. CASE s = sat
    BY <2>1, <1>1, <1>2 DEF IInv, Clock
  <2>2. CASE s # sat
    <3>1. s \in 1 .. sat - 1
      BY <2>2, <1>2 DEF Sats
    <3>2. tried[s] >= begin
      BY <3>1, <1>1 DEF IInv, LookedUp
    <3> QED BY <3>2, <2>0, <2>2, <1>1, <1>2
  <2> QED BY <2>1, <2>2
<1>8. Shown'
  BY <1>1 DEF IInv, Shown
<1> QED BY <1>4, <1>5, <1>6, <1>7, <1>8 DEF IInv

LEMMA WakeIInv == ASSUME IInv, Wake PROVE IInv'
<1>1. /\ pc = "wait" /\ Top
      /\ UNCHANGED <<now, stopAt, main, export, server, broken>>
  BY DEF Wake, loop
<1>2. /\ now \in Nat /\ begin \in Nat /\ due \in Nat /\ 1 \in Sats
      /\ {Refresh, Update, FetchMax} \subseteq Nat \ {0}
      /\ tles \subseteq Sats
      /\ tried \in [Sats -> Nat \cup {Never}] /\ shown \in [Sats -> Nat \cup {Never}]
      /\ last \in Nat \cup {Never}
  BY ServiceAssumption DEF IInv, TypeOK, Sats
<1>3. CASE Stopped
  <2>1. pc' = "done" /\ UNCHANGED <<due, sat, begin, last, tles, tried, shown>>
    BY <1>1, <1>3 DEF Top, refresh
  <2> QED BY <1>1, <2>1 DEF IInv, TypeOK, Clock, StopsInRound, LookedUp, Shown
<1>4. CASE ~Stopped /\ (last = Never \/ now - last >= Refresh)
  <2>1. /\ pc' = "fetch" /\ sat' = 1 /\ due' = now + FetchMax /\ begin' = now
        /\ UNCHANGED <<last, tles, tried, shown>>
    BY <1>1, <1>4 DEF Top, Fetch
  <2>2. TypeOK'
    BY <1>1, <1>2, <2>1 DEF IInv, TypeOK
  <2>3. Clock'
    BY <1>1, <1>2, <2>1 DEF IInv, Clock
  <2>4. StopsInRound'
    BY <1>1, <1>4, <2>1 DEF StopsInRound, Stopped
  <2>5. LookedUp'
    BY <2>1 DEF LookedUp
  <2>6. Shown'
    <3> SUFFICES ASSUME NEW s \in Sats
                 PROVE  /\ shown[s] # Never => s \in tles
                        /\ shown[s] # Never /\ s \notin broken => shown[s] >= now - Update
      BY <1>1, <2>1 DEF Shown
    <3>1. shown[s] # Never => s \in tles
      BY DEF IInv, Shown
    <3>2. s \in tles \ broken => shown[s] = due - Update
      BY <1>1 DEF IInv, Shown
    <3>3. now <= due
      BY <1>1 DEF IInv, Clock
    <3> QED BY <3>1, <3>2, <3>3, <1>2
  <2> QED BY <2>2, <2>3, <2>4, <2>5, <2>6 DEF IInv
<1>5. CASE ~Stopped /\ last # Never /\ ~(now - last >= Refresh)
  <2>1. /\ pc' = "wait" /\ due' = now + Update
        /\ shown' = [s \in Sats |-> IF s \in tles \ broken THEN now ELSE shown[s]]
        /\ UNCHANGED <<sat, begin, last, tles, tried>>
    BY <1>1, <1>5 DEF Top, Publish, Wait, refresh
  <2>2. TypeOK'
    <3>1. shown' \in [Sats -> Nat \cup {Never}]
      BY <1>2, <2>1
    <3> QED BY <3>1, <1>1, <1>2, <2>1 DEF IInv, TypeOK
  <2>3. Clock'
    BY <1>1, <1>2, <2>1 DEF IInv, Clock
  <2>4. StopsInRound'
    BY <1>1, <1>5, <2>1 DEF StopsInRound, Stopped
  <2>5. LookedUp'
    BY <1>1, <2>1 DEF IInv, LookedUp
  <2>6. Shown'
    <3> SUFFICES ASSUME NEW s \in Sats
                 PROVE  /\ shown'[s] # Never => s \in tles
                        /\ s \in tles \ broken =>
                             /\ shown'[s] = (now + Update) - Update
                             /\ shown'[s] - tried[s] < Refresh
      BY <1>1, <2>1 DEF Shown
    <3>1. shown[s] # Never => s \in tles
      BY DEF IInv, Shown
    <3>2. tried[s] >= last /\ tried[s] \in Int /\ last \in Nat
      BY <1>1, <1>2, <1>5 DEF IInv, LookedUp, Never
    <3>3. now - last < Refresh
      BY <1>2, <1>5, <3>2
    <3>4. shown'[s] = IF s \in tles \ broken THEN now ELSE shown[s]
      BY <2>1
    <3> QED BY <3>1, <3>2, <3>3, <3>4, <1>2
  <2> QED BY <2>2, <2>3, <2>4, <2>5, <2>6 DEF IInv
<1> QED BY <1>3, <1>4, <1>5

LEMMA TickIInv == ASSUME IInv, Tick PROVE IInv'
<1>1. /\ now' = now + 1
      /\ pc = "fetch" => now < due
      /\ pc = "wait" => now < due /\ ~Stopped
      /\ UNCHANGED <<stopAt, main, export, server, pc, sat, begin, last, tles, tried, due, broken, shown>>
  <2>1. pc = "wait" => ~Woken
    BY DEF Tick
  <2>2. pc = "wait" => now < due /\ ~Stopped
    BY <2>1 DEF Woken, IInv, TypeOK
  <2> QED BY <2>2 DEF Tick, loop, tracker, refresh
<1>2. now \in Nat /\ due \in Nat /\ begin \in Nat /\ stopAt \in Nat \cup {Never}
  BY DEF IInv, TypeOK
<1>3. TypeOK'
  BY <1>1, <1>2 DEF IInv, TypeOK
<1>4. Clock'
  BY <1>1, <1>2 DEF IInv, Clock, Never
<1>5. StopsInRound'
  BY <1>1 DEF IInv, StopsInRound, Stopped
<1>6. LookedUp' /\ Shown'
  BY <1>1 DEF IInv, LookedUp, Shown
<1> QED BY <1>3, <1>4, <1>5, <1>6 DEF IInv

-----------------------------------------------------------------------------
(* The steps that set the stop event, and the others.                      *)

LEMMA StopIInv ==
  ASSUME IInv, stopAt' = IF Stopped THEN stopAt ELSE now,
         main' \in {"pop", "save", "depths", "idle", "join", "closed"},
         UNCHANGED <<now, export, server, tracker>>
  PROVE  IInv'
<1>1. UNCHANGED <<now, export, server, pc, sat, begin, last, tles, tried, due, broken, shown>>
  BY DEF tracker, refresh
<1>2. now \in Nat /\ begin \in Nat /\ stopAt \in Nat \cup {Never} /\ Round \in Nat
  BY SlotInRound DEF IInv, TypeOK
<1>3. TypeOK'
  BY <1>1, <1>2 DEF IInv, TypeOK
<1>4. Clock'
  BY <1>1, <1>2 DEF IInv, Clock
<1>5. StopsInRound'
  <2>1. CASE Stopped
    BY <2>1, <1>1 DEF IInv, StopsInRound, Stopped, Round
  <2>2. CASE ~Stopped
    BY <2>2, <1>1, <1>2 DEF IInv, StopsInRound, Clock, Round
  <2> QED BY <2>1, <2>2
<1>6. LookedUp' /\ Shown'
  BY <1>1 DEF IInv, LookedUp, Shown, Round
<1> QED BY <1>3, <1>4, <1>5, <1>6 DEF IInv

LEMMA LoopIInv ==
  ASSUME IInv, export' \in BOOLEAN, server' \in BOOLEAN,
         main' \in {"pop", "save", "depths", "idle", "join", "closed"},
         UNCHANGED <<now, stopAt, tracker>>
  PROVE  IInv'
<1>1. UNCHANGED <<now, stopAt, pc, sat, begin, last, tles, tried, due, broken, shown>>
  BY DEF tracker, refresh
<1> QED BY <1>1 DEF IInv, TypeOK, Clock, StopsInRound, LookedUp, Shown, Stopped, Round

LEMMA StepIInv == IInv /\ [Next]_vars => IInv'
<1> SUFFICES ASSUME IInv, [Next]_vars PROVE IInv'
  OBVIOUS
<1>0. export \in BOOLEAN /\ server \in BOOLEAN
      /\ main \in {"pop", "save", "depths", "idle", "join", "closed"}
  BY DEF IInv, TypeOK
<1>1. CASE Pop
  BY <1>0, <1>1, LoopIInv DEF Pop
<1>2. CASE Save
  BY <1>0, <1>2, LoopIInv DEF Save
<1>3. CASE Depth
  BY <1>0, <1>3, LoopIInv DEF Depth, Turn
<1>4. CASE Idle
  BY <1>0, <1>4, LoopIInv DEF Idle, Turn
<1>5. CASE Close
  BY <1>0, <1>5, LoopIInv DEF Close
<1>6. CASE LoopFails
  BY <1>6, StopIInv DEF LoopFails, Abort, SetStop
<1>7. CASE Sigterm
  BY <1>0, <1>7, StopIInv DEF Sigterm, SetStop, loop
<1>8. CASE Wake
  BY <1>8, WakeIInv
<1>9. CASE \E found \in BOOLEAN : Fetched(found)
  <2>1. PICK found \in BOOLEAN : Fetched(found)
    BY <1>9
  <2>2. CASE sat < NumSats
    BY <2>1, <2>2, NextFetchIInv
  <2>3. CASE ~(sat < NumSats)
    BY <2>1, <2>3, RoundEndsIInv
  <2> QED BY <2>2, <2>3
<1>10. CASE Fails
  BY <1>10 DEF Fails, loop, refresh, IInv, TypeOK, Clock, StopsInRound, LookedUp, Shown, Round
<1>11. CASE Tick
  BY <1>11, TickIInv
<1>12. CASE UNCHANGED vars
  BY <1>12 DEF vars, loop, tracker, refresh, IInv, TypeOK, Clock, StopsInRound,
     LookedUp, Shown, Stopped, Round
<1> QED BY <1>1, <1>2, <1>3, <1>4, <1>5, <1>6, <1>7, <1>8, <1>9, <1>10, <1>11, <1>12 DEF Next, Step, Track

LEMMA SpecIInv == Spec => []IInv
<1>1. Init => IInv
  BY InitIInv
<1>2. IInv /\ [Next]_vars => IInv'
  BY StepIInv
<1> QED BY <1>1, <1>2, PTL DEF Spec

-----------------------------------------------------------------------------
(* The state of the service stays well typed.                              *)
THEOREM TypeCorrect == Spec => []TypeOK
<1>1. IInv => TypeOK
  BY DEF IInv
<1> QED BY <1>1, SpecIInv, PTL

(* _track_positions, run: whenever the stop event is set, the tracker is   *)
(* over within one round of fetches, so run does not wait for it longer.   *)
THEOREM ShutdownBoundedCorrect == Spec => []ShutdownBounded
<1>1. IInv => ShutdownBounded
  <2> SUFFICES ASSUME IInv, Stopped, pc \in {"fetch", "wait"}
               PROVE  now - stopAt <= Round
    BY DEF ShutdownBounded
  <2>1. CASE pc = "wait"
    BY <2>1 DEF IInv, StopsInRound
  <2>2. CASE pc = "fetch"
    <3>1. begin <= stopAt /\ now <= due /\ due <= begin + sat * FetchMax
      BY <2>2 DEF IInv, StopsInRound, Clock
    <3>2. sat \in Sats /\ now \in Nat /\ due \in Nat /\ begin \in Nat /\ stopAt \in Nat
      BY DEF IInv, TypeOK, Stopped
    <3> QED BY <3>1, <3>2, SlotInRound
  <2> QED BY <2>1, <2>2
<1> QED BY <1>1, SpecIInv, PTL

(* _track_positions: no gauge of a satellite that can be propagated falls  *)
(* behind, however fetches fail and however long they take.                *)
THEOREM PositionsFreshCorrect == Spec => []PositionsFresh
<1>1. IInv => PositionsFresh
  <2> SUFFICES ASSUME IInv, NEW s \in tles \ broken
               PROVE  /\ pc = "wait" => now - shown[s] <= Update
                      /\ pc = "fetch" /\ shown[s] # Never => now - shown[s] <= Update + Round
                      /\ pc = "wait" => shown[s] - tried[s] < Refresh \/ shown[s] - tried[s] <= Round
    BY DEF PositionsFresh
  <2>1. s \in Sats /\ sat \in Sats /\ now \in Nat /\ due \in Nat /\ begin \in Nat
        /\ shown[s] \in Nat \cup {Never} /\ Update \in Nat
    BY ServiceAssumption DEF IInv, TypeOK
  <2>2. pc = "wait" => now <= due /\ shown[s] = due - Update
    BY <2>1 DEF IInv, Clock, Shown
  <2>3. pc = "wait" => now - shown[s] <= Update
    BY <2>1, <2>2
  <2>4. pc = "wait" => shown[s] - tried[s] < Refresh \/ shown[s] - tried[s] <= Round
    BY <2>1 DEF IInv, Shown
  <2>5. ASSUME pc = "fetch", shown[s] # Never
        PROVE  now - shown[s] <= Update + Round
    <3>1. shown[s] >= begin - Update
      BY <2>1, <2>5 DEF IInv, Shown
    <3>2. now <= due /\ due <= begin + sat * FetchMax
      BY <2>5 DEF IInv, Clock
    <3> QED BY <2>1, <2>5, <3>1, <3>2, SlotInRound
  <2> QED BY <2>3, <2>4, <2>5
<1> QED BY <1>1, SpecIInv, PTL

=============================================================================
