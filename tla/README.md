# A verification of leo-telemetry

TLA+ models of the services of leo-telemetry, TLC runs that check them on small
instances, and theorems about them that TLAPS checks for every instance. Paths
below are relative to `src/leo_telemetry/` unless they start with `src/`.

## 1. Inventory

The system is a line of single-process asyncio services that hand pickled
dataclasses to one another through Redis lists. Every service is a Kubernetes
Deployment of one replica with the default rolling update, so that **two
processes of one service are alive together during every deployment**. No
command sequence of the services uses MULTI or a script: each awaited Redis
command is atomic, and anything may come between two of them.

```
SatNOGS --> ingest --> raw list -----> decode ------+
               |                                    v
               +-----> audio list ---> audio_run -> decoded list --> demux --> telemetry list --> observability
               +-----> Postgres archive                               |                              |
                                                                      +--> dead-letter list          +--> hash of last readings
```

| Component | State | Operations | What makes it hard | What makes it correct |
|---|---|---|---|---|
| Ingest (`ingest/run.py`, `redis_dedup.py`, `redis_audio_queue.py`) | per channel a seen set with a time to live and a list; the Postgres table; `stop_event`, the store connection | poll, `push` (SADD, EXPIRE NX, RPUSH, LTRIM), `insert_frame`, shut down | overlapping processes, a crash between two commands, the expiry of the set during a push, failed inserts | each admission is queued once and leaves once; what is seen is queued unless a crash says otherwise; the list is bounded; a lost capture comes back |
| Clients (`ingest/client.py`, `audio_client.py`) | time of the last request | `poll`, 429 retry | time across polls and cycles, retries, failures midway, headers that are no number | paced requests, bounded cycles, all satellites or an exception |
| Archive (`common/storage.py`), backfill (`ingest/backfill.py`) | the `raw_frames` table and its sequence of ids | `insert_frame`, `fetch_since`, backfill | concurrent inserts of one key, ids drawn before the commit, paging meanwhile, failures midway | a key has one row; no insert waits forever; paging misses only what was in flight; a complete backfill is complete |
| Decode (`decode/run.py`), audio decode (`decode/audio_run.py`), demux (`demux/run.py`), decoupled demux (`demux/decoupled_run.py`) | one item in memory, `stop_event` | LPOP, work, RPUSH + LTRIM; dead letters | nothing is acknowledged; two producers of one list; slow recordings; refused dead letters | an item is in one place; none is lost without a reason; raw frames keep their order and never wait for audio; everything comes to rest |
| Decoders (`decode/afsk1200.py`, `frame_sync.py`, `crc16.py`, `ax25.py`, `cw.py`, `demux/specs/`), score (`scoring/`), dead letters (`demux/dlq.py`) | the best sample offset so far; the list of dead letters | demodulate, cut, destuff, check, parse, score, push, `get_recent` | noise before a flag, recordings that begin inside a symbol, pointers and lengths from the payload, limits of fields | what was sent is found; one wrong symbol forges nothing; every payload gives a reading or a ValueError; scores are sound; the newest failures are kept |
| Observability (`observability/run.py`, `exporter.py`, `last_readings.py`) | the registry, `_latest_exported`; a Redis hash of last readings | replay, `export`, `save` (HGET, HSET), scrape, queue depths | readings out of order, scrapes in a thread of their own that are no snapshot, restarts, two processes on one hash, depths that are no snapshot | gauges and store never go back, a scrape that an export overlaps is put right by the next one, a restart shows what was shown, no depth scan misses a frame |
| Position tracker (`observability/run.py`, `tracking.py`) | cached TLEs, time of the last refresh | refresh, publish | failing, slow and broken TLEs; shutdown waits for it | fresh positions; a bounded shutdown that completes |
| Charts, dashboards, scripts, CI | - | - | - | configuration, not modelled |

## 2. The modules

| Module | What it is |
|---|---|
| `RedisList` | RPUSH, LPOP and LTRIM on a list, as the queue classes call them; Redis is external |
| `Ingest` | the ingest service: any number of processes, both channels, the archive, expiry, crashes |
| `OnceDelivery` | the abstract specification `Ingest` implements: admit, enqueue, leave, lose |
| `SatnogsClient` | a cycle of the two polling clients and the rate limiter, over a clock |
| `Archive` | the table, ingest connections, backfill and a reader |
| `Pipeline` | the four workers between ingest and observability with their five lists |
| `OneWay` | the abstract specification `Pipeline` implements: enter, advance, unfold, drop out |
| `Depths` | `Pipeline` composed with the scan of the queue depths |
| `Selection` | operators: slices of Python and what a comprehension keeps |
| `Hdlc`, `Specs`, `Readiness` | operators: from tones to octets, from octets to metrics, from metrics to a score |
| `Decoding` | one recording or frame after the other on its way through those operators and the dead letters |
| `Exporter` | the observability service: replay, export one assignment at a time, the store of last readings |
| `Scrape` | `Exporter` composed with scrapes of its registry |
| `Service` | its two tasks, the loop and the tracker, and their shutdown, over a clock |
| `MC...` | the small instances TLC checks |
| `...Proofs` | lemmas and theorems |

Each awaited command, and each assignment to the registry that a scrape may
fall behind, is an action of its own; code between two of them is one step,
since asyncio switches tasks only at an `await`. `pc` names the command a
process is about to send. Variables marked *history* record what happened for
the properties to speak of; no guard of a program step reads them, except to
bound crashes, signals and expiries.

**Ingest.** `PollRaw`, `PollAudio` and `EndCycle` are the cycle of `run`;
`SAdd`, `Expire`, `RPush` and `LTrim` the four commands of `push`; `Insert` is
`insert_frame`, which may fail. A poll returns any subset of the captures, which
covers paging, malformed entries and failed polls. A capture carries the fields
`dedup_key` is made of, and its station, which is not in the key. `Crash` stands
for SIGKILL and for a Redis error that leaves `run`. What was admitted is a
*ticket*: channel, key and the number of the life of the seen set, so that two
admissions of one key are told apart. Both channels run through the same actions;
TLC's instance has captures of the raw channel, the theorems hold for any.

**SatnogsClient.** `Limit` and `Paced` are `RateLimiter.wait`. `Error` covers
statuses, timeouts and bodies that are not JSON, all of which raise out of
`poll`; `TooManyNaN` is the header that `float` reads as not-a-number, which
`asyncio.sleep` ends at once or refuses, depending on the interpreter. httpx gives
each phase of a request (to connect, to write, to read) the whole `timeout_seconds`,
so that a GET may last `GetTime`, `Phases` times that. The audio
client has neither limiter nor retry. Time passes only while the process waits.

**Archive.** An INSERT is three steps: the id is drawn, the key is looked up and
the row added, the row is committed. An insert of a key whose row is not yet
committed waits, as Postgres makes it. A row becomes visible to `Fetch` with its
commit. `Fail` is an insert that raises, before the commit or after it.

**Pipeline.** `Role` assigns each process what it runs. An item keeps its name from list
to list; the frames of a recording are its parts. `Decode`, `Demux` and `DemuxDecoupled`
are the whole of the `_once` functions up to the first push, with a disjunct for each
way they end. `_decode_audio_once` awaits the download of its recording in between and
is two actions, `TakeAudio` and `DecodeAudio`: a process that ends during the download
drops the recording. `RPush` and `LTrim` are the push; a push that a crash or a refusal
breaks off between the two is counted in `untrimmed`, until the list is trimmed again.
The deployed lists hold thousands; the model's hold one or two, so that evictions happen
at once. `Standing` maps the lists, the hands and the ends of the items to the stages of
`OneWay`, which knows nothing of lists, processes or crashes: a thing enters, advances
from stage to stage along `Ways`, is taken apart into its parts, or drops out. `Depths`
adds the four LLENs of a scan, with anything in between.

**Hdlc, Specs, Readiness, Decoding.** Bits and octets are numbers, a sample is
one of two tones, and the energy of a tone in a window is the number of its
samples. `TryPhase` is one turn of `demodulate`; `Extract`, `Decode`,
`Demultiplex`, `Scored`, `Dropped` and `DeadLetter` are the steps of the three
workers on one input. CRC-16/X.25 is the polynomial division that the `crccheck`
library does, and the transmitter (stuffing, NRZI, check sequence) is written
from the protocol, so that the receiver is checked against its inverse. What a
byte specification gives is a sequence of metrics with the range of each field,
or the kind of exception. Degrees, volts, percents and scores are whole
thousandths, rounded down; the calibration coefficients of SONATE-2 are rounded
to millionths; counters of 32 bits are in units of 65536, rounded down. A
comprehension of Python is `Selected`, the elements at a set of positions in
their order, where `Rank` numbers the positions; the flags that `str.count` and
`str.find` see, the bits that survive destuffing and the frames that are whole are
given as such sets. Bits become a number, and stuffed octets a bitstream, by
functions on `0 .. n`, the form that the proofs can take apart.

**Exporter.** A reading has a satellite, a time and the set of metrics its packet type
carries. A series of the registry holds the reading its value comes from. `Begin` is the
head of `export`, shared by a popped and a replayed reading. `Arrive` is the push of
demux, with its LTRIM or cut off before it, so that queued readings may be evicted.
`Scrape` adds the thread that serves `/metrics`: it takes `TELEMETRY_METRIC` and then
`LAST_READING_TIMESTAMP`, in the order in which the registry got them, one series after
the other, with any steps of the export in between. `told` is what the scrape before it
has shown.

**Service.** `Top` is the head of the tracker's loop, `Fetched` the end of one
`fetch_tle`, `RoundEnds` what follows the last, `Publish` the position updates,
each in a `try` of its own. The tracker runs on the clock; the awaits of the export
loop may take any time. `Fails` is an exception that `fetch_tle` lets out.

## 3. What TLC checks

| Run | Instance | Shows |
|---|---|---|
| `ingest` | 2 processes (a rolling update), 2 captures of one key, list of 1, 1 crash, 1 expiry, SIGTERM at any point, fair | `QueuedOnce`, `DeliversOnce` (the refinement of `OnceDelivery`), `SeenIsAccountedFor`, `UnarmedHasOwner`, `BoundedOvershoot`, `ArchivedWasQueued`, `EvictsOldestOverflow`, `LostIsQueuedLater`, `TypeOK` |
| `satnogs_client` | 2 + 2 satellites, 2 phases of a tick each, 26 ticks, headers below, at and above the limits and no numbers | `FirstRequestsPaced`, `CycleIsBounded`, `AllOrNothing` |
| `archive` | 2 writers and backfill, 2 keys, 3 ids, pages of 1, list of 2, 1 failing insert, fair | `KeyOnce`, `PassedOnlyInFlight`, `BackfillComplete`, `InsertReturns`, `EveryRowIsRead` |
| `pipeline_deployed` | 1 decode, 1 audio, 1 demux, 2 raw frames, a recording of 1 frame, lists of 1, 2 upsets, only the raw worker fair | `InOrder`, `RawFramesLeave` |
| `pipeline_rolling` | 2 decode pods, a demux pod that takes over from one of `decoupled_run`, 2 raw frames, lists of 1, 1 upset, one depth scan, the two decode pods symmetric | `OnePlace`, `BoundedOvershoot`, `DepthsMissNothing` |
| `pipeline_settles` | audio worker, a demux pod and one of `decoupled_run`, a recording of up to 2 frames, lists of 2, 2 upsets, all fair | `EveryItemIsSomewhere`, `EveryItemSettles`, `GoesOneWay` (the refinement of `OneWay`) |
| `decoding` | recordings with every noise of up to 8 bits, every offset of 4 samples, each symbol wrong, a report of twelve octets of ones; payloads at the edges of every specification; dead-letter maxima 0 and 2, 3 failures | `FramesArrive`, `NoForgery`, `SpecsTotal`, `ScoreSound`, `RecentAreNewest` |
| `exporter_alone` | 1 exporter, 4 readings of 2 satellites, two of one time and of different packets, list of 2, 1 stop, 1 crash, scraped family by family, fair | `ShowsStored`, `CountsPopped`, `NextScrapeCatchesUp`, `GaugesMonotone`, `StoreMonotone`, `NewestIsStored` |
| `service` | 2 satellites, refresh 5, update 2, fetches of up to 2, 10 ticks, any TLEs broken or missing, fair | `PositionsFresh`, `ShutdownBounded`, `ShutdownCompletes` |

Three more runs each check one sentence of the repository that the code does not
keep; `PROJECT.json` quotes them under "findings":

| Run | The sentence | What happens |
|---|---|---|
| `ingest_seen_ttl` | the seen set rolls off its time to live after first use | a crash between SADD and EXPIRE leaves a set that never expires, unless a new capture comes in |
| `pipeline_none` | `pop` returns None if the queue is empty | `decoupled_run` queues a pickled None |
| `exporter_regress` | out-of-order processing cannot regress the replay state | two processes interleave HGET and HSET |

Other things met while modelling, without a run of their own:

- A frame whose insert fails, or that comes while the archive is unreachable, is
  logged and never inserted again (`ingest/run.py:142`), although
  `common/storage.py:3-4` speaks of every frame that passes the dedup check.
- A restart shows of a satellite only the metrics of its last packet type
  (`observability/last_readings.py:38`), and a new pod that has replayed the store
  (`observability/run.py:194`) does not show what the old one still exports.
- A scrape is no snapshot: `/metrics` collects the values before the timestamps
  (`observability/metrics.py:34`, `:48`), so that a scrape that an export overlaps may
  show the new timestamp above the old values, and the score of either. What is
  promised is `NextScrapeCatchesUp`: the next scrape does not.
- The dead-letter limit is said to be enforced atomically (`demux/dlq.py:85-86`)
  while the pipeline is sent without MULTI; a maximum of 0 keeps everything.
- Captures of overlapping ground stations have different observation ids and are
  not duplicates to the key (`common/models.py:36`).
- The retry after a 429 passes the rate limiter by (`ingest/client.py:86`).
- A reader that pages the archive by its highest id passes over a row whose insert
  was in flight, for good (`PassedOnlyInFlight` says only then); it has to look
  back to be complete.
- `CycleIsBounded` and `ShutdownBounded` say how long ingest and observability may
  take to stop: with the deployed four and five satellites, minutes (each phase of
  each request may wait for its timeout, and a response that trickles in, each part
  of it in time, may take longer still). The charts leave the grace period at the
  default of 30 seconds, after which the process is killed, which is `Crash`.
- A tracker that ended by an exception other than an HTTP error
  (`observability/tracking.py:85`) is noticed at the shutdown only.
- Two flags that share their zero, and a flag whose first zero belongs to
  something the scan took for one, are not found (`decode/frame_sync.py:49`).
- `demodulate` keeps the sample offset with the most flags
  (`decode/afsk1200.py:89`). A window askew, half in one symbol and half in the
  next, gives the tone of either, and runs of ones in binary octets can look like
  flags to it: it then beats the offsets that hold the frame, unless flags enough
  precede it. `FramesArrive` excepts this by `Clear`; in the run, a report of
  twelve octets of ones is such a case after four flags and arrives after sixteen.
- The length check of SONATE-2 counts what follows the packet in its transfer
  frame (`demux/specs/sonate2_59112.py:156`).

**Bounds.** `MaxCrash`, `MaxWindow`, `MaxStop`, `MaxUpset`, `MaxFail`, `MaxId`,
`MaxLetters` and `Horizon` bound counters that the program lacks, and are all in
guards of the environment's actions, but for `MaxId`, which is in the guard of
an insert, and `MaxLetters`, in that of a dead letter. Two processes are what a
rolling update makes; an expiry gives two admissions of one key, which race as
those of different keys do; a list of one is full at once and evicts at the second
push. Three ids for two keys make a conflict, a gap and a page beyond it. Ten
ticks hold a round, the updates after it, the next round and a shutdown from
within it; twenty-six hold the longest cycle of the clients (twenty-four) and the
beginning of another, and two phases of a request are enough to make it last longer
than one timeout. Telemetry lists of two evict while a reading is in hand and one
waits. `ScrapedAlone`, a constraint of `exporter_alone`, has the exporter scraped only
as long as none but the first satellite, with its two kinds of packets, has sent
readings: satellites share no series, and scrapes and arrivals are not fair, so that
no liveness rests on it. Eight bits of noise are a
whole flag, which is as far as the scan looks. Raw frames, recordings and readings
arrive once each, so the models of the workers stop when all are consumed, and
`Horizon` stops the clock: deadlock checking is off in those runs. It is off
for `archive` too, where `MaxId` ends the inserts, and on for `ingest`, where the
pollers never stop. The two decode pods of `pipeline_rolling` may change places in
every state, no action and none of its invariants tells them apart, and the run
checks no liveness, so that their symmetry is sound. In
`pipeline_settles` every item begins as a recording; the first hop of a raw frame
is in `pipeline_deployed`.

**Fairness.** Weak fairness of a process's steps says that the event loop runs
and that Kubernetes restarts a pod that ended. `RawFairness` asks it of the raw
worker alone, which is the point of the property. In `ingest` the
expiry is weakly fair (the clock of Redis runs) and a poll that offers the
capture is strongly fair (SatNOGS goes on listing it); without the latter a
capture that has left the first page is gone, which the code cannot help. In
`archive` Postgres executes each statement it was sent and the reader goes on
reading; in `service` the two tasks of the process run when they can. No crash,
signal, failure or refusal is fair.

## 4. What is proved

The theorems are of the form `Spec => []P`, `Spec => [][A]_vars` or
`Spec => Abstract!Spec` for every value of the constants under the named `ASSUME`s
of the modules, which TLC evaluates on every run; two, `BurstsAreDetected` and
`NoiseForgesNothing`, are about the operators of `Hdlc`.

`RedisListProofs` says which elements RPUSH, LPOP and LTRIM leave in a list and
that they keep it free of repetitions.

`IngestProofs`, for any processes, captures and list maxima. A *ticket* is an
admission: channel, key and life of the seen set. The inductive invariant
`OnceInv` adds to the types that every ticket a process holds or that has left a
list is `Spent`: its life of the set is over, or its key is in the set, so that
SADD cannot make the same ticket again. `QueuedOnce` does not follow by itself,
since a key that could be admitted a second time would break it only two steps
later. On top of it stand `SeenIsAccountedFor`, `ArchivedWasQueued` (what a process
pushed and is not through with was queued) and `UnarmedHasOwner` (a set without
time to live has a process about to give it one, or a ticket of that very life was
lost). `ImplementsOnceDelivery` is the refinement: under the mapping `Held`,
`Queued`, `GoneFor` each step is an Admit, Enqueue, Leave or Lose of
`OnceDelivery`, or a stutter.

`PipelineProofs`, for any processes in any roles. `Typed` says what a hand and each list
may hold, and no run repeats these types. `Whereabouts` is the main invariant: no item
is in two places and every born item is in one. `Shift` says of a step that it creates
some items in one place and moves others to one place; each action is shown to be such a
step, and `Moved` shows once that such steps keep the invariant. `OnePlace` and
`EveryItemIsSomewhere` follow. `DepthsMissNothing` rests on it: `ScanOK` says that a
frame that stood in a list at each read so far and was not counted is past the lists
already read, since frames never go back.

`PipelineIsALine` is the refinement of `OneWay`, by `Whereabouts` and `Aimed` (what
a process holds, it pushes to the stage after its own). Each kind of change is
related once to the stages: what leaves a list or comes to it (`ListLeft`,
`ListGot`), what fills a hand or empties it (`StagesFilled`, `StagesEmptied`). A
worker that takes an item makes it advance, drop out or unfold (`TookOn`, `TookOut`,
`TakenApart`), RPUSH makes it advance (`RPushOn`), a crash, a refused dead letter and
LTRIM make items drop out, and the pickled None moves nothing. A recording is at the
`decoder` stage while it is downloaded and unfolds there. That the parts of a
recording are new to the line is `PartsAfter`: they exist only after their recording
has been used up.

`InOrder` is proved under `OneOfEach`: at most one process decodes, at most one
demultiplexes and none runs `decoupled_run`, as deployed (more would let frames
overtake; any number may do audio). `LineInv` splits the line of raw frames into six
stages, the lists and hands from the telemetry counter back to the raw list; frames of
different stages are in the order of the stages (`Crossed`), and each list is sorted
(`ListsSorted`). A step takes frames out of the line (`Shrinks`), or moves the first
frame of a stage to the next (`Advances`), and both keep `Crossed`.

`BoundedOvershoot` of `Ingest` and of `Pipeline` compares a list with the set of
processes that are about to trim it; an interrupted trim leaves that set and is
counted, in `Ingest` by the crash, in `Pipeline` by `untrimmed`, which each LTRIM of
the list sets back: an upset that cuts no push off allows nothing. Processes are
finitely many (`WorkersAssumption`).

`ExporterProofs`, for any readings and processes. The types (`TypeCorrect`) are proved,
and no run repeats them. `RegistryInv` relates the registry of a process to the reading
it is setting: no series is ahead of `latest`, and what a timestamp stands for has its
metrics set. It gives `GaugesMonotone`. `ScrapeInv` adds `Told`: the metrics of what the
last scrape has shown are in the registry, or newer ones (`Registered`), and the scrape
under way has them or has yet to read them (`Caught`). `CollectTold` keeps it through a
read, `ExportTold` through a step of the export, since no gauge goes back; it gives
`NextScrapeCatchesUp`. `CountInv` counts: the readings popped are the counter, plus the
one in hand until it is counted. `ShowInv` is for one process (the assumption `Alone`):
each satellite shows what is stored, but for the reading in hand, which is either newer
and halfway through its steps (`Halfway`) or older and leaves no trace (`Late`). It
gives `ShowsStored`, which names the window between the timestamp of a reading and its
save, and `StoreMonotone`; `exporter_regress` shows what two processes do.

`SatnogsClientProofs`, for any satellites, times and headers. The invariant bounds, for
each place the client may stand at, how late in its cycle it can be there (`RawDue`,
`AudioDue`): the cost of the satellites before, plus what this one may have cost so far,
for any number of phases of a request. `CycleIsBounded`, `AllOrNothing` and
`FirstRequestsPaced` follow.

`ArchiveProofs`, for any connections, keys and page size. A pending row belongs to
a connection that commits it, ids under way are distinct and drawn already
(`Shape`); keys of committed and pending rows are distinct (`EachKeyOnce`, the
strengthening of `KeyOnce`); an INSERT whose id the reader has gone past is noted
(`FlightsNoted`); what backfill has been through has a row, and the count is at
most that (`Progress`).

`ServiceProofs`, for any satellites and periods. `Clock` bounds the end of a fetch
by its place in the round; with `StopsInRound`, `LookedUp` and `Shown` it is an
invariant that gives `ShutdownBounded` and `PositionsFresh`.

`DecodingProofs`, for any recordings, frames, dead-letter maxima and samples per
symbol, has six parts.

- `RecentAreNewestCorrect`: `QueueHoldsNewest`, the whole dead-letter list, is
  inductive; `RecentAreNewest` is what `get_recent` reads of it.
- `DecoderTyped` and `SpecificationsTotal`: `Typed` says what each stage hands to
  the next: tones, bits, frames of octets, and payloads as `decode_frame` lets them
  through (`PayloadOf`: octets, and for CAPE-1 the shape of its transcription). With
  that, each specification is shown to end in a reading whose values are in their
  fields, in a rejection or in a ValueError (`DemultiplexedTotal`, a lemma for each
  satellite), which is `SpecsTotal`. For SONATE-2 it is the bounds of every slice that
  its pointers and lengths make; for CAPE-1, what `int` makes of the digits
  that the CW decoder lets through; for the calibrations, the range that their field leaves them.
- `ReadinessSound`: the part of a metric is in [0, 1000] and 1000 only inside the
  nominal band (`PartOfOne`); a mean of such parts is 1000 only if all are
  (`MeanFacts`). `ScoreOfReading`, that the score is that of the last reading, is the
  invariant.
- `RecordingsArrive`: `FramesArrive`. The transmitter's stuffing and the receiver's
  `Destuff` are inverse (`StuffedFacts`), by an invariant of the transmitter bit by
  bit: what was sent so far, destuffed, is the source, five ones in it are followed
  by a zero, and the ones at its end are those that the transmitter has counted
  (`Transmitted`). So what was sent has the two flags around it and none between
  (`AirFlags`), and the first of them counts in the scan of `str.find`
  (`OpeningCounts`). An offset whose windows lie more in one symbol than in the
  next hears what was sent but for the first or the last bits (`Majority`,
  `BitsHeard`). If a bit so lost is part of a flag, another offset sees one flag more
  (`OpeningLost`, `ClosingLost`), so the offset with the most flags holds both
  (`KeptBest`), and what stands between them is the frame (`FrameBetween`). The
  inductive invariant is `Chosen`: what is kept is the best of the offsets tried.
- `BurstsAreDetected`, about the operator `VerifyFcs`: of two frames of one length
  that pass, neither is the other with wrong bits within sixteen in a row, wherever
  they lie. `Crc16Is` unfolds the check sequence to the register bit by bit. A frame
  passes if its last sixteen bits are the complement of the register before them
  (`LastBits`), and that brings the registers of all frames that pass to one value
  (`Settled`). Back from there, the registers agree from bit k on if they agreed from
  k + 1 on and fed the polynomial back alike (`AgreedBefore`); sixteen steps are not
  enough to run out of bits, so both fed back alike through the whole burst
  (`FedAlike`), and then, forth from the begin of the burst, took in the same bits.
- `NoiseForgesNothing` brings this to the receiver: two recordings that are alike but
  for noise of any kind over nine symbols, heard at one sample offset, with the flags
  in the same places. A frame between the same two flags that passes its check in
  both is the same frame if it is as long in both. Nine symbols of noise are at most
  ten tones heard wrong (`SymbolsAlike`) and so eleven bits of NRZI (`TonesAlike`); between the
  flags they stay that many in a row (`InnerAlike`); destuffing takes out a zero by
  the five bits before it alone, so that the noise may shift what follows it only if
  it changes how many bits are taken out, and with one length it does not
  (`CountedAlike`, `UnstuffedAlike`). That leaves a burst of at most sixteen bits, and
  `BurstsAreDetected` applies.

Facts about a recursive function, a `Selected` or a sum are proved for inputs of any
length by one lemma, `Induction`: a set of naturals that has 0 and the successor of
each of its elements is all of them, from the well-foundedness of the naturals in
the library. `Recursion` and `BoundedRecursion` get from it the equations that a
function defined on `Nat` or `0 .. n` satisfies.

Left to TLC: liveness under fairness and anything with `ENABLED`, which are out
of the prover's reach, and `NoForgery`: it holds for the recordings of the run and
not for all, since long noise before a frame may hold another that is valid by
chance. What holds of recordings and frames of any length is `NoiseForgesNothing`.

## 5. What is not modelled

- The energy of the two tones in real samples, and symbols that are no whole number
  of samples: floating-point work of numpy. A sample of `Hdlc` is in one tone.
- The positions and analog values in APRS texts, the names of metrics, callsigns.
- Orbit propagation (a library), `live.py`, which draws it, and the dashboards,
  scripts, charts and CI: display and configuration.
- Redis and Postgres keep their data; their own restarts are not modelled. A
  response that trickles in, each part of it in time but for ever longer, is not
  modelled.
- What a naive timestamp does to `export` (a TypeError that ends the service):
  times are numbers in `Exporter`.
- `ingest/dedup.py`, an in-memory stand-in that the tests use.

`FramesArrive` says what the receiver promises and no more: the frame was
received without an error, and either two flags came before it or the noise does
not end in the begin of a flag; when the recording begins inside a symbol, that
symbol or the last one may be lost and must not be part of the flags; and no window
askew (`Askew`: half in one symbol and half in the next, so that it may hear bits
that were never sent) shows as many flags as the others (`Clear`). `NoForgery`
is about frames of the length that was sent: sixteen check bits cannot exclude a
shorter frame that is valid by chance.

## 6. Plan

1. A composition of `Ingest`, `Pipeline` and `Exporter`, with at-most-once delivery
   from capture to counter as its abstract specification. `OnceDelivery`, `OneWay`
   and `CountsPopped` are its three parts.
2. Demodulation with symbols of a fractional number of samples.
3. The APRS patterns, on short texts.
