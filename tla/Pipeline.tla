------------------------------ MODULE Pipeline ------------------------------
(***************************************************************************)
(* The workers between ingest and observability.  Each takes an item from  *)
(* its input list, works on it in memory and pushes what comes out to its  *)
(* output list: raw frames and audio recordings become decoded frames,     *)
(* decoded frames become readings, and frames a byte specification chokes  *)
(* on become dead letters.  A worker acknowledges nothing, so that an item *)
(* is in its memory only between LPOP and RPUSH.                           *)
(***************************************************************************)
EXTENDS Integers, FiniteSets, RedisList

CONSTANTS
  Workers,      \* processes
  Role,         \* what each runs: a function from Workers to Roles
  RawSources,   \* frames ingest queues in the raw list, once each
  AudioSources, \* observations ingest queues in the audio list, once each
  MaxFrames,    \* bound: frames in one recording
  Max,          \* max_queue_size of each list
  MaxUpset,     \* bound: signals, crashes and refusals in a behaviour
  Nothing       \* the pickled None of decoupled_run

Roles == {"decode", "audio", "demux", "decoupled"}
Lists == {"raw", "audio", "decoded", "telemetry", "dlq"}

\* Frame or observation src is item <<src, 0>>; the frames found in a
\* recording are its parts 1, 2, ...  An item keeps its name on its way.
Item == ((RawSources \cup AudioSources) \X {0}) \cup (AudioSources \X (1 .. MaxFrames))

ASSUME WorkersAssumption == IsFiniteSet(Workers)
ASSUME RoleAssumption == Role \in [Workers -> Roles]
ASSUME SourceAssumption == RawSources \cap AudioSources = {}
ASSUME SizeAssumption == MaxFrames \in Nat /\ MaxUpset \in Nat /\ Max \in [Lists -> Nat \ {0}]
ASSUME NothingAssumption == Nothing \notin Item

VARIABLES
  queue,     \* the Redis lists
  pc,        \* where each process stands
  hand,      \* what it has to push
  target,    \* the list it pushes to
  stopping,  \* its stop_event
  arrived,   \* history: the raw frames in the order they were queued
  born,      \* history: every item there ever was
  consumed,  \* history: the items popped from the telemetry list, in order
  settled,   \* history: items a worker rejected, or used up
  dropped,   \* history: items that went with a process or with a failed push
  evicted,   \* history: items LTRIM dropped
  untrimmed, \* history: pushes to each list, since its last LTRIM, that lost theirs
  upsets     \* history: signals, crashes and refused dead letters so far

process == <<pc, hand, target, stopping>>
fate == <<settled, dropped, evicted>>
vars == <<queue, process, arrived, born, consumed, fate, untrimmed, upsets>>

PC == {"down", "top", "fetch", "rpush", "ltrim"}

TypeOK ==
  /\ queue \in [Lists -> Seq(Item \cup {Nothing})]
  /\ pc \in [Workers -> PC]
  /\ hand \in [Workers -> SUBSET (Item \cup {Nothing})]
  /\ target \in [Workers -> Lists]
  /\ stopping \in [Workers -> BOOLEAN]
  /\ arrived \in Seq(Item)
  /\ born \in SUBSET Item
  /\ consumed \in Seq(Item)
  /\ settled \in SUBSET Item
  /\ dropped \in SUBSET Item
  /\ evicted \in SUBSET Item
  /\ untrimmed \in [Lists -> Nat]
  /\ upsets \in Nat

Init ==
  /\ queue = [l \in Lists |-> << >>]
  /\ pc = [w \in Workers |-> "down"]
  /\ hand = [w \in Workers |-> {}]
  /\ target = [w \in Workers |-> "decoded"]
  /\ stopping = [w \in Workers |-> FALSE]
  /\ arrived = << >>
  /\ born = {}
  /\ consumed = << >>
  /\ settled = {} /\ dropped = {} /\ evicted = {}
  /\ untrimmed = [l \in Lists |-> 0]
  /\ upsets = 0

\* The items LTRIM removes from a list, the pickled None aside.
Overflow(l) == (Items(queue[l]) \ Items(Trimmed(queue[l], Max[l]))) \ {Nothing}

-----------------------------------------------------------------------------
(* Ingest and observability, at the two ends.                              *)

\* The push of ingest: RPUSH and LTRIM (Ingest has the steps apart).
Arrive(l, x) ==
  /\ x \notin born
  /\ queue' = [queue EXCEPT ![l] = Trimmed(RPushed(@, x), Max[l])]
  /\ evicted' = evicted \cup ((Items(queue[l]) \cup {x}) \ Items(queue'[l]))
  /\ born' = born \cup {x}
  /\ arrived' = IF l = "raw" THEN Append(arrived, x) ELSE arrived
  /\ UNCHANGED <<process, consumed, settled, dropped, untrimmed, upsets>>

\* The exporter pops a reading.
Consume ==
  /\ queue["telemetry"] # << >>
  /\ LET x == Head(queue["telemetry"])
     IN consumed' = IF x = Nothing THEN consumed ELSE Append(consumed, x)
  /\ queue' = [queue EXCEPT !["telemetry"] = Popped(@)]
  /\ UNCHANGED <<process, arrived, born, fate, untrimmed, upsets>>

-----------------------------------------------------------------------------
(* One worker.                                                             *)

Start(w) ==
  /\ pc[w] = "down"
  /\ pc' = [pc EXCEPT ![w] = "top"]
  /\ UNCHANGED <<queue, hand, target, stopping, arrived, born, consumed, fate, untrimmed, upsets>>

Source(w) ==
  CASE Role[w] = "decode" -> "raw"
    [] Role[w] = "audio"  -> "audio"
    [] OTHER              -> "decoded"

\* Mutant of MayTake: one loop decodes both kinds, recordings first.
MayTakeAudioFirst(w) ==
  /\ pc[w] = "top" /\ ~stopping[w] /\ queue[Source(w)] # << >>
  /\ Role[w] = "decode" => queue["audio"] = << >> /\ \A v \in Workers : Role[v] = "audio" => hand[v] = {}

\* The loop head: stop_event is not set and LPOP returns an item.
MayTake(w) == pc[w] = "top" /\ ~stopping[w] /\ queue[Source(w)] # << >>

\* The item leaves the input list and the worker goes on with things to push
\* to list l, a recording to be fetched first; back to the loop head when there
\* are none.
Took(w, things, l) ==
  /\ queue' = [queue EXCEPT ![Source(w)] = Popped(@)]
  /\ hand' = [hand EXCEPT ![w] = things]
  /\ target' = [target EXCEPT ![w] = l]
  /\ pc' = [pc EXCEPT ![w] =
       IF things = {} THEN "top" ELSE IF Role[w] = "audio" THEN "fetch" ELSE "rpush"]
  /\ UNCHANGED <<stopping, arrived, consumed, evicted, untrimmed, upsets>>

\* _decode_once: decode_frame gives a frame; or it gives None or raises, and
\* the frame is dropped.
Decode(w) ==
  /\ Role[w] = "decode"
  /\ MayTake(w)
  /\ LET x == Head(queue["raw"])
     IN \/ Took(w, {x}, "decoded") /\ UNCHANGED <<born, settled, dropped>>
        \/ Took(w, {}, "decoded") /\ settled' = settled \cup {x} /\ UNCHANGED <<born, dropped>>

\* _decode_audio_once, as far as the GET of the recording.
TakeAudio(w) ==
  /\ Role[w] = "audio"
  /\ MayTake(w)
  /\ Took(w, {Head(queue["audio"])}, "decoded")
  /\ UNCHANGED <<born, settled, dropped>>

\* The rest of it: the download or the demodulation fails, or any of the frames
\* found in the recording decode.
DecodeAudio(w) ==
  /\ pc[w] = "fetch"
  /\ \E x \in hand[w] : \E frames \in SUBSET ({x[1]} \X (1 .. MaxFrames)) :
       /\ hand' = [hand EXCEPT ![w] = frames]
       /\ pc' = [pc EXCEPT ![w] = IF frames = {} THEN "top" ELSE "rpush"]
       /\ born' = born \cup frames
       /\ settled' = settled \cup {x}
  /\ UNCHANGED <<queue, target, stopping, arrived, consumed, dropped, evicted, untrimmed, upsets>>

\* Mutant of Demux: a frame that raises goes back to be tried again.
DemuxRetries(w) ==
  /\ Role[w] = "demux"
  /\ MayTake(w)
  /\ LET x == Head(queue["decoded"])
     IN \/ Took(w, {x}, "telemetry") /\ UNCHANGED <<born, settled, dropped>>
        \/ Took(w, {x}, "decoded") /\ UNCHANGED <<born, settled, dropped>>

\* _demux_once of demux.run: a reading; None, for a frame that is empty, fails
\* its CRC or has no specification; ValueError, for the dead-letter list; any
\* other exception ends the process.
Demux(w) ==
  /\ Role[w] = "demux"
  /\ MayTake(w)
  /\ LET x == Head(queue["decoded"])
     IN \/ Took(w, {x}, "telemetry") /\ UNCHANGED <<born, settled, dropped>>
        \/ Took(w, {}, "decoded") /\ settled' = settled \cup {x} /\ UNCHANGED <<born, dropped>>
        \/ Took(w, {x}, "dlq") /\ UNCHANGED <<born, settled, dropped>>
        \/ /\ queue' = [queue EXCEPT !["decoded"] = Popped(@)]
           /\ pc' = [pc EXCEPT ![w] = "down"]
           /\ stopping' = [stopping EXCEPT ![w] = FALSE]
           /\ dropped' = dropped \cup {x}
           /\ UNCHANGED <<hand, target, arrived, born, consumed, settled, evicted, untrimmed,
                          upsets>>

\* _demux_once of demux.decoupled_run: an exception drops the frame, and the
\* None of a rejected frame is pushed like a reading.
DemuxDecoupled(w) ==
  /\ Role[w] = "decoupled"
  /\ MayTake(w)
  /\ LET x == Head(queue["decoded"])
     IN \/ Took(w, {x}, "telemetry") /\ UNCHANGED <<born, settled, dropped>>
        \/ Took(w, {}, "decoded") /\ settled' = settled \cup {x} /\ UNCHANGED <<born, dropped>>
        \/ Took(w, {Nothing}, "telemetry") /\ settled' = settled \cup {x} /\ UNCHANGED <<born, dropped>>

\* RPUSH; the frames of a recording go one by one, in their order.
RPush(w) ==
  /\ pc[w] = "rpush"
  /\ \E x \in hand[w] :
       /\ \A y \in hand[w] \ {x} : x[2] < y[2]
       /\ queue' = [queue EXCEPT ![target[w]] = RPushed(@, x)]
       /\ hand' = [hand EXCEPT ![w] = IF x = Nothing THEN @ ELSE @ \ {x}]
  /\ pc' = [pc EXCEPT ![w] = "ltrim"]
  /\ UNCHANGED <<target, stopping, arrived, born, consumed, fate, untrimmed, upsets>>

\* A push that breaks off between its two commands.
CutShort(w) ==
  untrimmed' = IF pc[w] = "ltrim" THEN [untrimmed EXCEPT ![target[w]] = @ + 1] ELSE untrimmed

\* demux.run goes on when Redis refuses a dead letter, or breaks off before the
\* LTRIM.
DeadLetterFails(w) ==
  /\ pc[w] \in {"rpush", "ltrim"}
  /\ target[w] = "dlq"
  /\ upsets < MaxUpset
  /\ upsets' = upsets + 1
  /\ CutShort(w)
  /\ dropped' = dropped \cup hand[w]
  /\ hand' = [hand EXCEPT ![w] = {}]
  /\ pc' = [pc EXCEPT ![w] = "top"]
  /\ target' = [target EXCEPT ![w] = "decoded"]
  /\ UNCHANGED <<queue, stopping, arrived, born, consumed, settled, evicted>>

\* Mutant of LTrim: only the first frame of a recording is pushed.
LTrimLeavesLoop(w) ==
  /\ pc[w] = "ltrim"
  /\ queue' = [queue EXCEPT ![target[w]] = Trimmed(@, Max[target[w]])]
  /\ evicted' = evicted \cup Overflow(target[w])
  /\ untrimmed' = [untrimmed EXCEPT ![target[w]] = 0]
  /\ pc' = [pc EXCEPT ![w] = "top"]
  /\ UNCHANGED <<hand, target, stopping, arrived, born, consumed, settled, dropped, upsets>>

\* LTRIM.  The pipelines of the demux queues are sent without MULTI, so other
\* clients may come between their two commands as between two awaited ones.
\* decoupled_run then asks the None it pushed for its norad_id and dies of it.
LTrim(w) ==
  /\ pc[w] = "ltrim"
  /\ LET l == target[w]
         died == hand[w] = {Nothing}
     IN /\ queue' = [queue EXCEPT ![l] = Trimmed(@, Max[l])]
        /\ evicted' = evicted \cup Overflow(l)
        /\ untrimmed' = [untrimmed EXCEPT ![l] = 0]
        /\ pc' = [pc EXCEPT ![w] = IF died THEN "down" ELSE IF hand[w] = {} THEN "top" ELSE "rpush"]
        /\ hand' = [hand EXCEPT ![w] = @ \ {Nothing}]
        /\ stopping' = [stopping EXCEPT ![w] = @ /\ ~died]
        /\ target' = [target EXCEPT ![w] = IF hand[w] \ {Nothing} = {} THEN "decoded" ELSE @]
  /\ UNCHANGED <<arrived, born, consumed, settled, dropped, upsets>>

\* SIGTERM or SIGINT.
Sigterm(w) ==
  /\ pc[w] # "down" /\ ~stopping[w]
  /\ upsets < MaxUpset
  /\ upsets' = upsets + 1
  /\ stopping' = [stopping EXCEPT ![w] = TRUE]
  /\ UNCHANGED <<queue, pc, hand, target, arrived, born, consumed, fate, untrimmed>>

\* Mutant of Exit: the signal cancels the item in hand.
ExitNow(w) ==
  /\ pc[w] # "down" /\ stopping[w]
  /\ pc' = [pc EXCEPT ![w] = "down"]
  /\ hand' = [hand EXCEPT ![w] = {}]
  /\ stopping' = [stopping EXCEPT ![w] = FALSE]
  /\ UNCHANGED <<queue, target, arrived, born, consumed, fate, untrimmed, upsets>>

\* stop_event is looked at between two items only.
Exit(w) ==
  /\ pc[w] = "top" /\ stopping[w]
  /\ pc' = [pc EXCEPT ![w] = "down"]
  /\ stopping' = [stopping EXCEPT ![w] = FALSE]
  /\ UNCHANGED <<queue, hand, target, arrived, born, consumed, fate, untrimmed, upsets>>

\* The process is killed, or a Redis command raises out of run.
Crash(w) ==
  /\ pc[w] # "down"
  /\ upsets < MaxUpset
  /\ upsets' = upsets + 1
  /\ CutShort(w)
  /\ dropped' = dropped \cup (hand[w] \ {Nothing})
  /\ hand' = [hand EXCEPT ![w] = {}]
  /\ pc' = [pc EXCEPT ![w] = "down"]
  /\ stopping' = [stopping EXCEPT ![w] = FALSE]
  /\ target' = [target EXCEPT ![w] = "decoded"]
  /\ UNCHANGED <<queue, arrived, born, consumed, settled, evicted>>

Step(w) ==
  \/ Decode(w) \/ TakeAudio(w) \/ DecodeAudio(w) \/ Demux(w) \/ DemuxDecoupled(w)
  \/ RPush(w) \/ DeadLetterFails(w) \/ LTrim(w) \/ Exit(w) \/ Start(w)

Next ==
  \/ \E s \in RawSources : Arrive("raw", <<s, 0>>)
  \/ \E s \in AudioSources : Arrive("audio", <<s, 0>>)
  \/ Consume
  \/ \E w \in Workers : Step(w) \/ Sigterm(w) \/ Crash(w)

Spec == Init /\ [][Next]_vars

\* Workers are scheduled, and Kubernetes restarts them; ingest, SatNOGS and the
\* signals owe nothing.
RawFairness == \A w \in Workers : Role[w] = "decode" => WF_vars(Step(w))
Fairness == WF_vars(Consume) /\ \A w \in Workers : WF_vars(Step(w))

-----------------------------------------------------------------------------
(* What must hold.                                                         *)

Gone == Items(consumed) \cup settled \cup dropped \cup evicted

\* Where an item may be: a list, the hand of a process, or gone for good.
Places == ({"list"} \X Lists) \cup ({"hand"} \X Workers) \cup {<<"gone", "gone">>}

Contents(p) ==
  ( CASE p[1] = "list" -> Items(queue[p[2]])
      [] p[1] = "hand" -> hand[p[2]]
      [] OTHER         -> Gone ) \ {Nothing}

\* The pickled None aside, a list holds nothing twice.
ListOnce(list) == \A i, j \in DOMAIN list : list[i] = list[j] => i = j \/ list[i] = Nothing

\* No item is in two places.
Apart == \A p, q \in Places : p # q => Contents(p) \cap Contents(q) = {}

\* Every item is in one place at most, and there once: two workers of one role
\* never get the same item, so no frame is counted twice downstream.
OnePlace ==
  /\ \A l \in Lists : ListOnce(queue[l])
  /\ Apart
  /\ Distinct(consumed)

\* Every item is somewhere: only a rejection, a crash, a refused dead letter
\* and an eviction take one out of the pipeline.  A stop by SIGTERM does not.
EveryItemIsSomewhere == \A x \in born : \E p \in Places : x \in Contents(p)

\* RPUSH and LTRIM are apart: a list stands above its maximum by the pushes
\* that have not trimmed yet and those cut off since it was last trimmed, and by
\* no more.
BoundedOvershoot ==
  \A l \in Lists :
    Len(queue[l]) <=
      Max[l] + untrimmed[l] + Cardinality({ w \in Workers : pc[w] = "ltrim" /\ target[w] = l })

\* Raw frames in the order of the pipeline, the most advanced first.
HandOf(role) ==
  LET things == UNION { hand[w] : w \in { v \in Workers : Role[v] = role /\ target[v] # "dlq" } }
  IN IF things = {} THEN << >> ELSE << CHOOSE x \in things : TRUE >>

Flow ==
  consumed \o queue["telemetry"] \o HandOf("demux") \o queue["decoded"]
    \o HandOf("decode") \o queue["raw"]

Before(x, y) == \E i, j \in DOMAIN arrived : i < j /\ arrived[i] = x /\ arrived[j] = y

\* With one decode worker and one demux worker raw frames never overtake one
\* another, whatever crashes, restarts and evictions happen and however many
\* recordings are decoded in between.
InOrder ==
  \A i, j \in DOMAIN Flow :
    i < j /\ {Flow[i], Flow[j]} \subseteq Items(arrived) => Before(Flow[i], Flow[j])

\* audio_run.py: "a long recording can delay only the audio queue, never the
\* normal raw-frame decode queue".  A raw frame leaves the raw list even when
\* no audio worker ever takes another step.
RawFramesLeave ==
  \A s \in RawSources :
    <<s, 0>> \in Items(queue["raw"]) ~> <<s, 0>> \notin Items(queue["raw"])

\* Every item comes to rest: as a reading consumed, as a dead letter, or gone.
EveryItemSettles ==
  \A x \in Item : x \in born ~> x \in Gone \cup Items(queue["dlq"])

-----------------------------------------------------------------------------
(* The abstract specification: a line on which nothing goes back.          *)

\* What the processes of some roles have in hand.
Hands(roles) == (UNION { hand[w] : w \in { v \in Workers : Role[v] \in roles } }) \ {Nothing}

\* The frames that may be found in a recording.
Found == [ x \in Item |-> IF x[1] \in AudioSources /\ x[2] = 0 THEN {x[1]} \X (1 .. MaxFrames) ELSE {} ]

\* Where everything stands.
Standing ==
  [ input     |-> Items(queue["raw"]) \cup Items(queue["audio"]),
    decoder   |-> Hands({"decode", "audio"}),
    decoded   |-> Items(queue["decoded"]),
    demux     |-> Hands({"demux", "decoupled"}),
    telemetry |-> Items(queue["telemetry"]) \ {Nothing},
    letters   |-> Items(queue["dlq"]),
    read      |-> Items(consumed),
    out       |-> settled \cup dropped \cup evicted ]

Line == INSTANCE OneWay WITH Things <- Item, PartsOf <- Found, at <- Standing

\* The pipeline is such a line: whatever pods, signals, crashes, refusals and
\* evictions do, no item goes back to a stage it has left, none leaves a stage
\* out, none is read twice, no dead letter is ever read, and a recording is
\* taken apart once.
GoesOneWay == Line!Spec

-----------------------------------------------------------------------------
(* What the repository says and the services do not do.                    *)

\* redis_telemetry_queue.py: pop returns "The oldest TelemetryReading, or None
\* if the queue is empty".
NoneMeansEmpty == queue["telemetry"] # << >> => Head(queue["telemetry"]) # Nothing
=============================================================================
