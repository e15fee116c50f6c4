------------------------------- MODULE Ingest -------------------------------
(***************************************************************************)
(* The ingest service: every process polls SatNOGS for raw frames, then    *)
(* for audio observations, admits each capture through a Redis "seen" set  *)
(* and queues it in a Redis list; raw frames are also archived in          *)
(* Postgres.  Several processes are alive together while a rolling update  *)
(* replaces the pod, and each awaited Redis command is a step of its own,  *)
(* so that any other process, a consumer, the expiry of the seen set or a  *)
(* crash may come between two of them.                                     *)
(***************************************************************************)
EXTENDS Integers, FiniteSets, RedisList

CONSTANTS
  Workers,     \* ingest processes that may be alive at the same time
  RawFrames,   \* what SatNOGS may return: [norad, obs, station, body] records
  AudioObs,    \* audio observations: [norad, obs] records
  MaxRaw,      \* max_queue_size of RedisDedupQueue
  MaxAudio,    \* max_queue_size of RedisAudioQueue
  MaxCrash,    \* bound: crashes in a behaviour
  MaxWindow,   \* bound: expiries of each seen set in a behaviour
  NoTicket     \* no capture in hand

Channels == {"raw", "audio"}
Captures(c) == IF c = "raw" THEN RawFrames ELSE AudioObs
MaxQueue(c) == IF c = "raw" THEN MaxRaw ELSE MaxAudio

\* RawFrame.dedup_key and AudioObservation.dedup_key.  The body stands for its
\* SHA-256 digest; the station and the time of the capture are not in the key.
DedupKey(c, f) == IF c = "raw" THEN <<f.norad, f.obs, f.body>> ELSE <<f.norad, f.obs>>

Keys == UNION { { DedupKey(c, f) : f \in Captures(c) } : c \in Channels }

\* An admission: the key, and which life of the seen set admitted it.  The
\* queued frame carries its key; the window is only there to tell two
\* admissions of a key apart.
Ticket == [chan : Channels, key : Keys, window : Nat]

ASSUME QueueAssumption == MaxRaw \in Nat \ {0} /\ MaxAudio \in Nat \ {0}
ASSUME WorkersAssumption == IsFiniteSet(Workers)
ASSUME BoundAssumption == MaxCrash \in Nat /\ MaxWindow \in Nat
ASSUME NoTicketAssumption == NoTicket \notin Ticket

VARIABLES
  seen,      \* the seen set of each channel (Redis)
  armed,     \* whether the seen set of a channel has a time to live
  queue,     \* the list of each channel (Redis)
  archive,   \* dedup keys of the rows of raw_frames (Postgres)
  pc,        \* where each process stands
  chan,      \* the channel it is polling
  page,      \* captures of the current poll it has not looked at yet
  cur,       \* the admission it is queueing
  hasStore,  \* whether it reached Postgres when it started
  stopping,  \* its stop_event
  window,    \* history: how many times each seen set expired
  taken,     \* history: admissions a consumer popped
  evicted,   \* history: admissions LTRIM dropped
  lost,      \* history: admissions a crash dropped before they were queued
  crashes    \* history: number of crashes

redis == <<seen, armed, queue>>
local == <<pc, chan, page, cur, hasStore, stopping>>
history == <<window, taken, evicted, lost, crashes>>
vars == <<redis, archive, local, history>>

PC == {"down", "top", "each", "expire", "rpush", "ltrim", "insert"}

TypeOK ==
  /\ seen \in [Channels -> SUBSET Keys]
  /\ armed \in [Channels -> BOOLEAN]
  /\ queue \in [Channels -> Seq(Ticket)]
  /\ archive \in SUBSET Keys
  /\ pc \in [Workers -> PC]
  /\ chan \in [Workers -> Channels]
  /\ page \in [Workers -> SUBSET (RawFrames \cup AudioObs)]
  /\ cur \in [Workers -> Ticket \cup {NoTicket}]
  /\ hasStore \in [Workers -> BOOLEAN]
  /\ stopping \in [Workers -> BOOLEAN]
  /\ window \in [Channels -> Nat]
  /\ taken \in SUBSET Ticket
  /\ evicted \in SUBSET Ticket
  /\ lost \in SUBSET Ticket
  /\ crashes \in Nat

Init ==
  /\ seen = [c \in Channels |-> {}]
  /\ armed = [c \in Channels |-> FALSE]
  /\ queue = [c \in Channels |-> << >>]
  /\ archive = {}
  /\ pc = [w \in Workers |-> "down"]
  /\ chan = [w \in Workers |-> "raw"]
  /\ page = [w \in Workers |-> {}]
  /\ cur = [w \in Workers |-> NoTicket]
  /\ hasStore = [w \in Workers |-> FALSE]
  /\ stopping = [w \in Workers |-> FALSE]
  /\ window = [c \in Channels |-> 0]
  /\ taken = {}
  /\ evicted = {}
  /\ lost = {}
  /\ crashes = 0

-----------------------------------------------------------------------------
(* One process.                                                            *)

\* A pod starts.  An unreachable or unconfigured Postgres disables the archive
\* for the whole life of the process.
Start(w) ==
  /\ pc[w] = "down"
  /\ pc' = [pc EXCEPT ![w] = "top"]
  /\ \E reached \in BOOLEAN : hasStore' = [hasStore EXCEPT ![w] = reached]
  /\ UNCHANGED <<redis, archive, chan, page, cur, stopping, history>>

\* The poll of the raw frames: any part of what SatNOGS has may come back,
\* malformed entries are skipped, and a poll that raises counts as empty.
PollRaw(w) ==
  /\ pc[w] = "top"
  /\ ~stopping[w]
  /\ \E frames \in SUBSET RawFrames : page' = [page EXCEPT ![w] = frames]
  /\ pc' = [pc EXCEPT ![w] = "each"]
  /\ chan' = [chan EXCEPT ![w] = "raw"]
  /\ UNCHANGED <<redis, archive, cur, hasStore, stopping, history>>

\* The poll of the audio observations follows whatever the raw poll did;
\* stop_event is not looked at in between.
PollAudio(w) ==
  /\ pc[w] = "each"
  /\ chan[w] = "raw"
  /\ page[w] = {}
  /\ \E observations \in SUBSET AudioObs : page' = [page EXCEPT ![w] = observations]
  /\ chan' = [chan EXCEPT ![w] = "audio"]
  /\ UNCHANGED <<redis, archive, pc, cur, hasStore, stopping, history>>

\* Both polls are done: the process waits for the next interval or stop_event.
EndCycle(w) ==
  /\ pc[w] = "each"
  /\ chan[w] = "audio"
  /\ page[w] = {}
  /\ pc' = [pc EXCEPT ![w] = "top"]
  /\ chan' = [chan EXCEPT ![w] = "raw"]
  /\ UNCHANGED <<redis, archive, page, cur, hasStore, stopping, history>>

\* Mutants of Unseen: the SADD reply ignored; a record of the keys that never
\* expires.
UnseenAlways(c, k) == TRUE
UnseenEver(c, k) ==
  k \notin seen[c] /\ \A t \in taken \cup evicted \cup lost : t.chan = c => t.key # k

\* What SADD answers: the key was not in the set.
Unseen(c, k) == k \notin seen[c]

\* push, first command: SADD.  A key that was there already ends the push.
SAdd(w) ==
  /\ pc[w] = "each"
  /\ \E f \in page[w] :
       LET c == chan[w]
           k == DedupKey(c, f)
       IN /\ page' = [page EXCEPT ![w] = @ \ {f}]
          /\ \/ /\ ~Unseen(c, k)
                /\ UNCHANGED <<seen, pc, cur>>
             \/ /\ Unseen(c, k)
                /\ seen' = [seen EXCEPT ![c] = @ \cup {k}]
                /\ cur' = [cur EXCEPT ![w] = [chan |-> c, key |-> k, window |-> window[c]]]
                /\ pc' = [pc EXCEPT ![w] = "expire"]
  /\ UNCHANGED <<armed, queue, archive, chan, hasStore, stopping, history>>

\* Mutant of Arms: the flag XX in the place of NX.
ArmsOnlyArmed(c) == armed[c]

\* EXPIRE key ttl NX arms a set that exists and has no time to live, and does
\* nothing otherwise.
Arms(c) == armed[c] \/ seen[c] # {}

\* Mutant of Expire: the frame is archived before it is queued.
ExpireAfterInsert(w) ==
  /\ pc[w] = "expire"
  /\ armed' = [armed EXCEPT ![chan[w]] = Arms(chan[w])]
  /\ pc' = [pc EXCEPT ![w] = "rpush"]
  /\ archive' = IF hasStore[w] THEN archive \cup {cur[w].key} ELSE archive
  /\ UNCHANGED <<seen, queue, chan, page, cur, hasStore, stopping, history>>

\* push, second command: EXPIRE.
Expire(w) ==
  /\ pc[w] = "expire"
  /\ armed' = [armed EXCEPT ![chan[w]] = Arms(chan[w])]
  /\ pc' = [pc EXCEPT ![w] = "rpush"]
  /\ UNCHANGED <<seen, queue, archive, chan, page, cur, hasStore, stopping, history>>

\* Mutant of RPush: the frame is let go of before it is queued.
RPushNothing(w) ==
  /\ pc[w] = "rpush"
  /\ queue' = [queue EXCEPT ![chan[w]] = RPushed(@, NoTicket)]
  /\ pc' = [pc EXCEPT ![w] = "ltrim"]
  /\ UNCHANGED <<seen, armed, archive, chan, page, cur, hasStore, stopping, history>>

\* Mutant of RPush: the command is sent again when its reply is lost.
RPushRetried(w) ==
  /\ pc[w] = "rpush"
  /\ queue' = [queue EXCEPT ![chan[w]] = RPushed(@, cur[w])]
  /\ \E next \in {"rpush", "ltrim"} : pc' = [pc EXCEPT ![w] = next]
  /\ UNCHANGED <<seen, armed, archive, chan, page, cur, hasStore, stopping, history>>

\* push, third command: RPUSH.
RPush(w) ==
  /\ pc[w] = "rpush"
  /\ queue' = [queue EXCEPT ![chan[w]] = RPushed(@, cur[w])]
  /\ pc' = [pc EXCEPT ![w] = "ltrim"]
  /\ UNCHANGED <<seen, armed, archive, chan, page, cur, hasStore, stopping, history>>

\* push, fourth command: LTRIM.  A raw frame then goes to the archive.
LTrim(w) ==
  /\ pc[w] = "ltrim"
  /\ LET c == chan[w]
         kept == Trimmed(queue[c], MaxQueue(c))
         archiving == c = "raw" /\ hasStore[w]
     IN /\ queue' = [queue EXCEPT ![c] = kept]
        /\ evicted' = evicted \cup (Items(queue[c]) \ Items(kept))
        /\ pc' = [pc EXCEPT ![w] = IF archiving THEN "insert" ELSE "each"]
        /\ cur' = [cur EXCEPT ![w] = IF archiving THEN @ ELSE NoTicket]
  /\ UNCHANGED <<seen, armed, archive, chan, page, hasStore, stopping, window, taken, lost, crashes>>

\* insert_frame: ON CONFLICT DO NOTHING; an error is logged and the frame is
\* not tried again.
Insert(w) ==
  /\ pc[w] = "insert"
  /\ \/ archive' = archive \cup {cur[w].key}
     \/ UNCHANGED archive
  /\ pc' = [pc EXCEPT ![w] = "each"]
  /\ cur' = [cur EXCEPT ![w] = NoTicket]
  /\ UNCHANGED <<redis, chan, page, hasStore, stopping, history>>

\* SIGTERM or SIGINT sets stop_event.
Sigterm(w) ==
  /\ pc[w] # "down"
  /\ ~stopping[w]
  /\ stopping' = [stopping EXCEPT ![w] = TRUE]
  /\ UNCHANGED <<redis, archive, pc, chan, page, cur, hasStore, history>>

\* Mutant of Exit: stop_event ends the process wherever it stands.
ExitAnywhere(w) ==
  /\ pc[w] # "down"
  /\ stopping[w]
  /\ pc' = [pc EXCEPT ![w] = "down"]
  /\ stopping' = [stopping EXCEPT ![w] = FALSE]
  /\ hasStore' = [hasStore EXCEPT ![w] = FALSE]
  /\ page' = [page EXCEPT ![w] = {}]
  /\ UNCHANGED <<redis, archive, chan, cur, history>>

\* The loop head sees stop_event, or the wait between cycles ends with it.
Exit(w) ==
  /\ pc[w] = "top"
  /\ stopping[w]
  /\ pc' = [pc EXCEPT ![w] = "down"]
  /\ stopping' = [stopping EXCEPT ![w] = FALSE]
  /\ hasStore' = [hasStore EXCEPT ![w] = FALSE]
  /\ UNCHANGED <<redis, archive, chan, page, cur, history>>

\* The process is killed, or a Redis command raises out of run: whatever it
\* had in hand is gone.
Crash(w) ==
  /\ pc[w] # "down"
  /\ crashes < MaxCrash
  /\ crashes' = crashes + 1
  /\ lost' = IF pc[w] \in {"expire", "rpush"} THEN lost \cup {cur[w]} ELSE lost
  /\ pc' = [pc EXCEPT ![w] = "down"]
  /\ page' = [page EXCEPT ![w] = {}]
  /\ cur' = [cur EXCEPT ![w] = NoTicket]
  /\ stopping' = [stopping EXCEPT ![w] = FALSE]
  /\ hasStore' = [hasStore EXCEPT ![w] = FALSE]
  /\ chan' = [chan EXCEPT ![w] = "raw"]
  /\ UNCHANGED <<redis, archive, window, taken, evicted>>

-----------------------------------------------------------------------------
(* The other side of Redis.                                                *)

\* The time to live of a seen set runs out: the whole set is gone at once.
SeenExpires(c) ==
  /\ armed[c]
  /\ window[c] < MaxWindow
  /\ seen' = [seen EXCEPT ![c] = {}]
  /\ armed' = [armed EXCEPT ![c] = FALSE]
  /\ window' = [window EXCEPT ![c] = @ + 1]
  /\ UNCHANGED <<queue, archive, local, taken, evicted, lost, crashes>>

\* A decode worker takes the oldest frame.
Pop(c) ==
  /\ queue[c] # << >>
  /\ taken' = taken \cup {Head(queue[c])}
  /\ queue' = [queue EXCEPT ![c] = Popped(@)]
  /\ UNCHANGED <<seen, armed, archive, local, window, evicted, lost, crashes>>

WorkerNext(w) ==
  \/ Start(w) \/ PollRaw(w) \/ PollAudio(w) \/ EndCycle(w) \/ SAdd(w) \/ Expire(w)
  \/ RPush(w) \/ LTrim(w) \/ Insert(w) \/ Sigterm(w) \/ Exit(w) \/ Crash(w)

Next ==
  \/ \E w \in Workers : WorkerNext(w)
  \/ \E c \in Channels : SeenExpires(c) \/ Pop(c)

Spec == Init /\ [][Next]_vars

\* The event loop runs every step it has started; the clock of Redis runs;
\* Kubernetes restarts a pod; and SatNOGS goes on offering a capture to polls
\* that keep being made.
Fairness ==
  /\ \A w \in Workers :
       /\ WF_vars(Start(w) \/ PollRaw(w) \/ PollAudio(w) \/ EndCycle(w) \/ Exit(w))
       /\ WF_vars(SAdd(w)) /\ WF_vars(Expire(w)) /\ WF_vars(RPush(w))
       /\ WF_vars(LTrim(w)) /\ WF_vars(Insert(w))
  /\ \A c \in Channels : WF_vars(SeenExpires(c)) /\ WF_vars(Pop(c))

\* The captures of a channel that every poll of it offers.
Offers(c, f) ==
  \A w \in Workers :
    /\ c = "raw" => SF_vars(PollRaw(w) /\ f \in page'[w])
    /\ c = "audio" => SF_vars(PollAudio(w) /\ f \in page'[w])

-----------------------------------------------------------------------------
(* What must hold.                                                         *)

\* The admissions a process has made and not queued yet.
InHand(w) == pc[w] \in {"expire", "rpush"}

\* Every admission is queued at most once: no two entries of a list are the
\* same admission, no two processes hold the same one, and what a process is
\* about to RPUSH never was in a list.  This is what the SADD test of push is
\* for, with any number of processes and any expiry in between.
QueuedOnce ==
  /\ \A c \in Channels : Distinct(queue[c])
  /\ \A c \in Channels : Items(queue[c]) \cap (taken \cup evicted) = {}
  /\ \A v, w \in Workers : InHand(v) /\ InHand(w) /\ cur[v] = cur[w] => v = w
  /\ \A w \in Workers : InHand(w) =>
       cur[w] \notin Items(queue[chan[w]]) \cup taken \cup evicted \cup lost

\* A capture whose key is in the seen set is queued, was queued, or is being
\* queued; only a crash between SADD and RPUSH makes a seen key one that no
\* consumer will get.  In particular a stop by SIGTERM loses nothing.
SeenIsAccountedFor ==
  \A c \in Channels : \A k \in seen[c] :
    LET t == [chan |-> c, key |-> k, window |-> window[c]]
    IN \/ t \in Items(queue[c]) \cup taken \cup evicted \cup lost
       \/ \E w \in Workers : InHand(w) /\ cur[w] = t

\* A seen set without a time to live is about to get one from the push that
\* made it, unless that push crashed in this life of the set.
UnarmedHasOwner ==
  \A c \in Channels : seen[c] # {} /\ ~armed[c] =>
    \/ \E w \in Workers : pc[w] = "expire" /\ chan[w] = c
    \/ \E t \in lost : t.chan = c /\ t.window = window[c]

\* RPUSH and LTRIM are two commands, so a list may exceed its maximum, but by
\* no more than the pushes that have not trimmed yet and those that crashed.
BoundedOvershoot ==
  \A c \in Channels :
    Len(queue[c]) <= MaxQueue(c) + crashes
                     + Cardinality({ w \in Workers : pc[w] = "ltrim" /\ chan[w] = c })

\* A row of the archive is a frame that was queued for decode before.
ArchivedWasQueued ==
  \A k \in archive : \E n \in 0 .. window["raw"] :
    [chan |-> "raw", key |-> k, window |-> n] \in Items(queue["raw"]) \cup taken \cup evicted

\* LTRIM takes the oldest entries, and only what exceeds the maximum.
EvictsOldestOverflow ==
  [][ \A c \in Channels : evicted' # evicted /\ queue'[c] # queue[c] =>
        /\ Len(queue'[c]) = MaxQueue(c)
        /\ \A i \in DOMAIN queue'[c] :
             queue'[c][i] = queue[c][i + Len(queue[c]) - Len(queue'[c])] ]_vars

\* The admissions the processes have in hand.
Held == { cur[w] : w \in { v \in Workers : InHand(v) } }

Once == INSTANCE OnceDelivery WITH
  Admissions <- [chan : Channels, key : Keys, window : 0 .. MaxWindow],
  held <- Held,
  queued <- Items(queue["raw"]) \cup Items(queue["audio"]),
  gone <- taken \cup evicted \cup lost

\* The whole service, seen from its consumers: an admission is held by one
\* process, enters its list once and leaves it once.  SADD before RPUSH, LTRIM
\* after it, expiries and crashes are steps of OnceDelivery or no step at all.
DeliversOnce == Once!Spec

-----------------------------------------------------------------------------
(* What the poll must bring about in the end.                              *)

\* A capture a crash dropped is queued after all, provided the time to live of
\* the seen set runs and SatNOGS still offers the capture when it has run out.
LostIsQueuedLater ==
  \A c \in Channels : \A k \in { DedupKey(c, f) : f \in Captures(c) } : \A n \in 0 .. MaxWindow - 1 :
    (/\ [chan |-> c, key |-> k, window |-> n] \in lost
     /\ window[c] = n
     /\ armed[c]
     /\ crashes = MaxCrash)
      ~> [chan |-> c, key |-> k, window |-> n + 1] \in taken \cup evicted

-----------------------------------------------------------------------------
(* What the repository says of the service and the service does not do.    *)

\* redis_dedup.py: the seen set "actually rolls off `seen_ttl_seconds` after
\* first use".
SeenRollsOff ==
  \A c \in Channels :
    (seen[c] # {} /\ window[c] = 0 /\ MaxWindow > 0) ~> window[c] = 1
=============================================================================
