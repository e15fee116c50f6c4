---------------------------- MODULE SatnogsClient ----------------------------
(***************************************************************************)
(* The two polling clients of the ingest process over a clock that counts  *)
(* ticks: a cycle polls SatNOGS DB for raw frames, paced by a rate limiter *)
(* and with one retry of a 429, then SatNOGS Network for recordings, with  *)
(* neither.  The clients live as long as the process, so that the limiter  *)
(* remembers the last request of the cycle before.  Redis and Postgres,    *)
(* between the two polls and after them, take no time here.                *)
(***************************************************************************)
EXTENDS Integers

CONSTANTS
  NumSats,       \* satellites asked for raw frames, in the order of their number
  NumAudio,      \* satellites asked for recordings
  MinInterval,   \* min_interval_seconds
  Timeout,       \* timeout_seconds of both HTTP clients, for each phase of a GET
  Phases,        \* phases of one GET: to connect, to write, to read
  DefaultRetry,  \* DEFAULT_RETRY_AFTER_SECONDS
  MaxRetry,      \* MAX_RETRY_AFTER_SECONDS
  Headers,       \* Retry-After headers: integers, NaN or Unparsed
  NaN,           \* a header that float() reads as not-a-number
  Unparsed,      \* a header that is missing or that float() refuses
  Horizon        \* bound: ticks in a behaviour

ASSUME ClientAssumption ==
  /\ NumSats \in Nat \ {0} /\ NumAudio \in Nat \ {0}
  /\ MinInterval \in Nat /\ Timeout \in Nat /\ Phases \in Nat /\ Horizon \in Nat
  /\ DefaultRetry \in Nat /\ MaxRetry \in Nat /\ DefaultRetry <= MaxRetry
  /\ Headers \subseteq Int \cup {NaN, Unparsed}

VARIABLES
  now,      \* the clock
  last,     \* _last_request_at of the limiter, -1 before the first request
  pc,       \* where the cycle stands
  client,   \* the client that polls
  sat,      \* the satellite it asks for
  tries,    \* requests sent for that satellite
  until,    \* when the sleep or the request it waits for ends at the latest
  frames,   \* satellites whose page the poll has collected
  result,   \* what the last poll of each client returned
  began     \* history: when the cycle began

poll == <<sat, tries, frames>>
vars == <<now, last, pc, client, poll, until, result, began>>

Clients == {"raw", "audio"}
NumOf(c) == IF c = "raw" THEN NumSats ELSE NumAudio
SatsOf(c) == 1 .. NumOf(c)
PC == {"idle", "limit", "paced", "send", "await", "backoff"}

TypeOK ==
  /\ now \in 0 .. Horizon
  /\ last \in -1 .. Horizon
  /\ pc \in PC
  /\ client \in Clients
  /\ sat \in SatsOf(client)
  /\ tries \in 0 .. 2
  /\ until \in Nat
  /\ frames = 1 .. sat - 1
  /\ result \in [Clients -> SUBSET (SatsOf("raw") \cup SatsOf("audio"))]
  /\ began \in 0 .. Horizon

FirstSat == sat' = 1 /\ tries' = 0 /\ frames' = {}

Init ==
  /\ now = 0 /\ last = -1 /\ pc = "idle" /\ client = "raw" /\ until = 0
  /\ sat = 1 /\ tries = 0 /\ frames = {}
  /\ result = [c \in Clients |-> {}] /\ began = 0

\* The ingest loop begins a cycle with the raw frames.
BeginCycle ==
  /\ pc = "idle"
  /\ pc' = "limit"
  /\ began' = now
  /\ UNCHANGED <<now, last, client, poll, until, result>>

\* Mutant of Remaining: one tick short.
RemainingShort == IF last = -1 THEN 0 ELSE MinInterval - 1 - (now - last)

\* RateLimiter.wait: what is left of the interval.
Remaining == IF last = -1 THEN 0 ELSE MinInterval - (now - last)

\* RateLimiter.wait: sleep what is left, or note the time and go on.
Limit ==
  /\ pc = "limit"
  /\ \/ /\ Remaining > 0
        /\ until' = now + Remaining
        /\ pc' = "paced"
        /\ UNCHANGED last
     \/ /\ Remaining <= 0
        /\ last' = now
        /\ pc' = "send"
        /\ UNCHANGED until
  /\ UNCHANGED <<now, client, poll, result, began>>

\* The sleep of the limiter is over; the time is noted now.
Paced ==
  /\ pc = "paced"
  /\ now >= until
  /\ last' = now
  /\ pc' = "send"
  /\ UNCHANGED <<now, client, poll, until, result, began>>

\* httpx gives every phase of a request the whole timeout.
GetTime == Phases * Timeout

\* The GET goes out; the HTTP client gives up after GetTime.
Send ==
  /\ pc = "send"
  /\ tries' = tries + 1
  /\ until' = now + GetTime
  /\ pc' = "await"
  /\ UNCHANGED <<now, last, client, sat, frames, result, began>>

\* A poll is over, and the cycle goes on with the next client or ends.  The
\* audio client has no limiter in front of its requests.
EndPoll(got) ==
  /\ result' = [result EXCEPT ![client] = got]
  /\ FirstSat
  /\ \/ client = "raw" /\ client' = "audio" /\ pc' = "send"
     \/ client = "audio" /\ client' = "raw" /\ pc' = "idle"

NextSat ==
  /\ sat < NumOf(client)
  /\ pc' = IF client = "raw" THEN "limit" ELSE "send"
  /\ sat' = sat + 1
  /\ tries' = 0
  /\ frames' = frames \cup {sat}
  /\ UNCHANGED <<client, result>>

\* Mutant of Fail: what the poll has collected is returned all the same.
FailPartly == EndPoll(frames)

\* An exception ends the poll and what it collected is dropped.
Fail == EndPoll({})

\* The page of a satellite.  Malformed entries are skipped; poll returns once
\* the last satellite has answered.
Page ==
  /\ pc = "await"
  /\ NextSat \/ (sat = NumOf(client) /\ EndPoll(frames \cup {sat}))
  /\ UNCHANGED <<now, last, until, began>>

\* Mutant of RetryAfter: the ceiling forgotten.
RetryAfterUncapped(h) == IF h = Unparsed \/ h = NaN THEN DefaultRetry ELSE IF h < 0 THEN DefaultRetry ELSE h

\* _parse_retry_after, for a header that is not NaN.
RetryAfter(h) ==
  IF h = Unparsed THEN DefaultRetry
  ELSE IF h < 0 THEN DefaultRetry
  ELSE IF h < MaxRetry THEN h ELSE MaxRetry

BackOff(pause) ==
  /\ until' = now + pause
  /\ pc' = "backoff"
  /\ UNCHANGED <<client, poll, result>>

\* The first 429 of a satellite: sleep as the header says.
TooMany ==
  /\ pc = "await"
  /\ client = "raw"
  /\ tries = 1
  /\ \E h \in Headers \ {NaN} : BackOff(RetryAfter(h))
  /\ UNCHANGED <<now, last, began>>

\* NaN passes both comparisons of _parse_retry_after.  asyncio.sleep(nan) is
\* over at once, or raises, as newer interpreters do.
TooManyNaN ==
  /\ pc = "await"
  /\ client = "raw"
  /\ tries = 1
  /\ NaN \in Headers
  /\ \/ BackOff(0)
     \/ Fail /\ UNCHANGED until
  /\ UNCHANGED <<now, last, began>>

\* The sleep is over: the same request again, past the limiter.
Retry ==
  /\ pc = "backoff"
  /\ now >= until
  /\ pc' = "send"
  /\ UNCHANGED <<now, last, client, poll, until, result, began>>

\* A 429 that is not the first or that the audio client gets, another status,
\* a timeout or a body that is no JSON.
Error ==
  /\ pc = "await"
  /\ Fail
  /\ UNCHANGED <<now, last, until, began>>

\* Time passes only while the process waits for something; a response that
\* trickles in, each part of it in time, is not modelled.
Tick ==
  /\ now < Horizon
  /\ pc = "idle" \/ (pc \in {"paced", "await", "backoff"} /\ now < until)
  /\ now' = now + 1
  /\ UNCHANGED <<last, pc, client, poll, until, result, began>>

Next ==
  \/ BeginCycle \/ Limit \/ Paced \/ Send \/ Page \/ TooMany \/ TooManyNaN
  \/ Retry \/ Error \/ Tick

Spec == Init /\ [][Next]_vars

-----------------------------------------------------------------------------
(* What must hold.                                                         *)

\* First requests for a satellite are a minimum interval apart, within a poll
\* and from one cycle to the next, even after a poll that failed.  The retry
\* of a 429 is outside: it neither waits for the limiter nor is noted by it.
FirstRequestsPaced ==
  [][ last' # last /\ last # -1 => last' - last >= MinInterval ]_vars

\* What one satellite may cost a raw poll.
PerSat == MinInterval + 2 * GetTime + MaxRetry

\* No header, NaN included, and no silence of a server holds a cycle longer
\* than the sum of the pauses and timeouts of its requests.  SIGTERM is looked
\* at between two cycles only, so this bounds how long ingest takes to stop.
CycleIsBounded ==
  pc # "idle" => now - began <= NumSats * PerSat + NumAudio * GetTime

\* A poll returns the pages of every satellite or raises: a satellite whose
\* request failed never looks like one without news.
AllOrNothing == \A c \in Clients : result[c] \in {{}, SatsOf(c)}
=============================================================================
