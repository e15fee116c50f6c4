------------------------------- MODULE Service -------------------------------
(***************************************************************************)
(* The two tasks of the observability process, once it has replayed its    *)
(* store: the loop that exports readings and publishes queue depths, and   *)
(* the tracker that fetches TLEs and publishes positions.  They share the  *)
(* stop event.  Exporter has what an export does and Depths what a scan of *)
(* the depths does; each is one step here.  The tracker is on the clock,   *)
(* the awaits of the loop are not: Redis and the idle wait may take any    *)
(* time.                                                                   *)
(***************************************************************************)
EXTENDS Integers

CONSTANTS
  NumSats,  \* satellites, NORAD_IDS + AUDIO_NORAD_IDS, fetched in this order
  Refresh,  \* tle_refresh_seconds
  Update,   \* position_update_seconds
  FetchMax, \* the longest that Celestrak lets one fetch_tle take
  Horizon   \* bound: the clock

Sats == 1 .. NumSats
Never == -1

ASSUME ServiceAssumption ==
  /\ NumSats \in Nat \ {0}
  /\ {Refresh, Update, FetchMax} \subseteq Nat \ {0}
  /\ Horizon \in Nat

VARIABLES
  now,     \* loop.time()
  stopAt,  \* when stop_event was set, Never before
  main,    \* "pop", "save", "depths", "idle", "join" or "closed"
  export,  \* exported: this turn of the loop found a reading
  server,  \* the scrape endpoint is up
  pc,      \* of the tracker: "fetch", "wait", "done" or "failed"
  sat,     \* the satellite it fetches
  begin,   \* now at the top of the loop, in _track_positions
  last,    \* last_refresh
  due,     \* when the await of the tracker ends at the latest
  tles,    \* satellites whose TLE it has
  broken,  \* satellites whose TLE cannot be propagated
  tried,   \* history: when each satellite was looked up last
  shown    \* when the position gauges of each satellite were set

loop == <<main, export, server>>
refresh == <<sat, begin, last, tles, tried>>
tracker == <<pc, refresh, due, broken, shown>>
vars == <<now, stopAt, loop, tracker>>

Stopped == stopAt # Never

TypeOK ==
  /\ now \in Nat /\ due \in Nat /\ begin \in Nat
  /\ stopAt \in Nat \cup {Never} /\ last \in Nat \cup {Never}
  /\ main \in {"pop", "save", "depths", "idle", "join", "closed"}
  /\ {export, server} \subseteq BOOLEAN
  /\ pc \in {"fetch", "wait", "done", "failed"}
  /\ sat \in Sats
  /\ tles \subseteq Sats /\ broken \subseteq Sats
  /\ tried \in [Sats -> Nat \cup {Never}]
  /\ shown \in [Sats -> Nat \cup {Never}]

\* The server is started and the tracker is a task that has begun its first
\* round: last_refresh is minus infinity.
Init ==
  /\ now = 0 /\ stopAt = Never
  /\ main = "pop" /\ export = FALSE /\ server = TRUE
  /\ pc = "fetch" /\ sat = 1 /\ begin = 0 /\ last = Never /\ due = FetchMax
  /\ tles = {} /\ broken \in SUBSET Sats
  /\ tried = [s \in Sats |-> Never] /\ shown = [s \in Sats |-> Never]

-----------------------------------------------------------------------------
(* _track_positions *)

Round == NumSats * FetchMax

\* Mutant of Publish: the try around the for, so that one bad TLE ends it.
PublishUntilBroken(known) ==
  shown' = [s \in Sats |->
    IF s \in known /\ (\A t \in 1 .. s : t \in known => t \notin broken)
    THEN now ELSE shown[s]]

\* Every satellite with a TLE, each in a try of its own.
Publish(known) ==
  shown' = [s \in Sats |-> IF s \in known \ broken THEN now ELSE shown[s]]

\* The wait for the stop event, with a timeout.
Wait ==
  /\ pc' = "wait"
  /\ due' = now + Update

Fetch(s) ==
  /\ pc' = "fetch"
  /\ sat' = s
  /\ due' = now + FetchMax

\* The top of the loop: the stop event, then whether a round is due.
Top ==
  IF Stopped
  THEN /\ pc' = "done"
       /\ UNCHANGED <<due, refresh, shown>>
  ELSE IF last = Never \/ now - last >= Refresh
  THEN /\ Fetch(1)
       /\ begin' = now
       /\ UNCHANGED <<last, tles, tried, shown>>
  ELSE /\ Publish(tles)
       /\ Wait
       /\ UNCHANGED refresh

\* The round counts from its begin.
RoundEnds(known) ==
  /\ last' = begin
  /\ Publish(known)
  /\ Wait
  /\ UNCHANGED sat

\* fetch_tle returns: two lines, or None for an HTTP error, a timeout or a
\* text without elements, and then the old TLE stays.
Fetched(found) ==
  LET known == IF found THEN tles \cup {sat} ELSE tles IN
  /\ pc = "fetch"
  /\ tles' = known
  /\ tried' = [tried EXCEPT ![sat] = now]
  /\ IF sat < NumSats THEN Fetch(sat + 1) /\ UNCHANGED <<last, shown>>
     ELSE RoundEnds(known)
  /\ UNCHANGED <<now, stopAt, loop, begin, broken>>

\* fetch_tle lets out what is no httpx.HTTPError: the task is over, and no
\* one looks at it before the shutdown.
Fails ==
  /\ pc = "fetch"
  /\ pc' = "failed"
  /\ UNCHANGED <<now, stopAt, loop, refresh, due, broken, shown>>

\* Mutant of Woken: asyncio.sleep in the place of the wait for the event.
WokenByTimeout == now >= due

Woken == Stopped \/ now >= due

Wake ==
  /\ pc = "wait"
  /\ Woken
  /\ Top
  /\ UNCHANGED <<now, stopAt, loop, broken>>

\* The clock stops where an await of the tracker ends.
Tick ==
  /\ now < Horizon
  /\ pc = "fetch" => now < due
  /\ pc = "wait" => ~Woken
  /\ now' = now + 1
  /\ UNCHANGED <<stopAt, loop, tracker>>

-----------------------------------------------------------------------------
(* run *)

\* The top of the loop.
Turn == main' = IF Stopped THEN "join" ELSE "pop"

\* pop gives a reading to export, or None.
Pop ==
  /\ main = "pop"
  /\ export' \in BOOLEAN
  /\ main' = IF export' THEN "save" ELSE "depths"
  /\ UNCHANGED <<now, stopAt, server, tracker>>

Save ==
  /\ main = "save"
  /\ main' = "depths"
  /\ UNCHANGED <<now, stopAt, export, server, tracker>>

\* After the last depth the loop goes on at once, or waits when it found
\* nothing to export.
Depth ==
  /\ main = "depths"
  /\ IF export THEN Turn ELSE main' = "idle"
  /\ UNCHANGED <<now, stopAt, export, server, tracker>>

\* The stop event or the timeout of the idle wait.
Idle ==
  /\ main = "idle"
  /\ Turn
  /\ UNCHANGED <<now, stopAt, export, server, tracker>>

SetStop == stopAt' = IF Stopped THEN stopAt ELSE now

\* Mutant of Abort: a finally that does not set the event.
AbortOnly ==
  /\ main' = "join"
  /\ UNCHANGED stopAt

\* The finally sets the event before it awaits the tracker.
Abort ==
  /\ main' = "join"
  /\ SetStop

\* A Redis command raises.
LoopFails ==
  /\ main \in {"pop", "save", "depths"}
  /\ Abort
  /\ UNCHANGED <<now, export, server, tracker>>

Sigterm ==
  /\ main # "closed"
  /\ ~Stopped
  /\ SetStop
  /\ UNCHANGED <<now, loop, tracker>>

\* The tracker is over, well or not: the server is shut down and the clients
\* are closed.
Close ==
  /\ main = "join"
  /\ pc \in {"done", "failed"}
  /\ main' = "closed"
  /\ server' = FALSE
  /\ UNCHANGED <<now, stopAt, export, tracker>>

Step == Pop \/ Save \/ Depth \/ Idle \/ Close
Track == Wake \/ \E found \in BOOLEAN : Fetched(found)

Next == Step \/ LoopFails \/ Sigterm \/ Track \/ Fails \/ Tick

Spec == Init /\ [][Next]_vars

\* The event loop runs every task that is ready, Redis answers, the timeouts
\* fire, and Celestrak's client gives up.
FairSpec == Spec /\ WF_vars(Step) /\ WF_vars(Track)

-----------------------------------------------------------------------------
(* A satellite with a TLE that can be propagated has a position no older   *)
(* than position_update_seconds, or, while a round of fetches holds the    *)
(* tracker up, than that and the round; and what is published comes from a *)
(* TLE that was looked up again less than tle_refresh_seconds before, or   *)
(* in the round just over.  One bad TLE, failed fetches and slow rounds    *)
(* change nothing of that.                                                 *)
PositionsFresh ==
  \A s \in tles \ broken :
    /\ pc = "wait" => now - shown[s] <= Update
    /\ pc = "fetch" /\ shown[s] # Never => now - shown[s] <= Update + Round
    /\ pc = "wait" => shown[s] - tried[s] < Refresh \/ shown[s] - tried[s] <= Round

(* After SIGTERM, or the error of a Redis command, the tracker is over     *)
(* within the fetches that one round can have left: the rounds are not     *)
(* interrupted, and no new one begins.                                     *)
ShutdownBounded ==
  Stopped /\ pc \in {"fetch", "wait"} => now - stopAt <= Round

(* Whatever ends the loop, and wherever the tracker is, waiting, fetching  *)
(* or failed, the process closes its server and ends.                      *)
ShutdownCompletes == Stopped \/ main = "join" ~> main = "closed" /\ ~server

=============================================================================
