------------------------------ MODULE Decoding ------------------------------
(***************************************************************************)
(* What becomes of one captured frame or recording on its way through the  *)
(* decoders: a recording is demodulated and cut into frames; a frame is    *)
(* decoded to a payload, a payload demultiplexed to a reading, and the     *)
(* reading scored, or kept as a dead letter.  Pipeline has the queues and  *)
(* the workers in between; here one input is followed after the other.     *)
(***************************************************************************)
EXTENDS Specs, Readiness, RedisList

CONSTANTS
  Recordings, \* audio of the ISS: what was sent, and how it was received
  RawFrames,  \* frames of SatNOGS DB: a satellite and its octets
  DlqSizes,   \* values of DEMUX_DLQ_MAX_SIZE
  MaxLetters  \* bound: dead letters in a behaviour

Octet == 0 .. 255
BitValue == {0, 1}

ASSUME SizesAssumption == DlqSizes \subseteq Nat /\ MaxLetters \in Nat
ASSUME RecordingsAssumption ==
  Recordings \subseteq [sent : Seq(Octet) \ {<< >>}, noise : Seq(BitValue), flags : Nat \ {0},
                       tail : Seq(BitValue), wrong : Nat, offset : 0 .. SamplesPerSymbol - 1]
ASSUME RawFramesAssumption == RawFrames \subseteq [norad : Int, octets : Seq(Octet)]

VARIABLES
  stage,    \* "recorded", "frames", "payloads" or "outcome"
  input,    \* the recording or the frame
  samples,  \* of the recording
  phase,    \* the next sample offset to try
  bits,     \* best_bits, of the offsets tried
  most,     \* most_flags, the number of flags they have
  frames,   \* the frames it holds
  next,     \* how many of them are decoded
  payloads, \* the decoded queue
  outcome,  \* what demultiplex gave for the last payload, or raised
  score,    \* of the last reading
  max,      \* max_size of the dead-letter queue
  dlq,      \* the dead letters, each the number of its push
  pushed    \* history: dead letters so far

demod == <<samples, phase, bits, most>>
letters == <<max, dlq, pushed>>
vars == <<stage, input, demod, frames, next, payloads, outcome, score, letters>>

IsRecording == "sent" \in DOMAIN input
Norad == IF IsRecording THEN Iss ELSE input.norad

-----------------------------------------------------------------------------
(* The transmitter and the receiver, outside the program.                  *)

\* HDLC sends a zero after five ones; ones counts those since
\* the last zero.
StuffedBit(s, bit) ==
  IF bit = 0 THEN [out |-> Append(s.out, 0), ones |-> 0]
  ELSE IF s.ones = 4 THEN [out |-> Append(Append(s.out, 1), 0), ones |-> 0]
  ELSE [out |-> Append(s.out, 1), ones |-> s.ones + 1]

StuffedOctet(ones, octet) ==
  LET s[i \in 0 .. 8] ==
        IF i = 0 THEN [out |-> << >>, ones |-> ones] ELSE StuffedBit(s[i - 1], Bit(octet, i - 1))
  IN s[8]

Stuffed(octets) ==
  LET s[k \in 0 .. Len(octets)] ==
        IF k = 0 THEN [out |-> << >>, ones |-> 0]
        ELSE LET before == s[k - 1]
                 piece == StuffedOctet(before.ones, octets[k])
             IN [out |-> before.out \o piece.out, ones |-> piece.ones]
  IN s[Len(octets)].out

Toggled(tone) == IF tone = "mark" THEN "space" ELSE "mark"

\* The tones of a bitstream, the one before its first bit included: each zero
\* changes the tone.
NrziEncode(b) ==
  LET zeros == { i \in DOMAIN b : b[i] = 0 }
  IN [ i \in 1 .. Len(b) + 1 |->
         IF Cardinality({ j \in zeros : j < i }) % 2 = 0 THEN "mark" ELSE "space" ]

WithFcs(octets) == octets \o FcsOctets(Crc16(octets))

\* A frame with its check sequence, after noise and one or more flags, and what
\* is heard after it; one symbol may be received wrong, and the recording begins
\* offset samples after a symbol does.
Air(r) ==
  r.noise \o [ i \in 1 .. 8 * r.flags |-> Flag[((i - 1) % 8) + 1] ]
    \o Stuffed(r.sent) \o Flag \o r.tail

Samples(r) ==
  LET sent == NrziEncode(Air(r))
      heard == IF r.wrong \in DOMAIN sent THEN [sent EXCEPT ![r.wrong] = Toggled(@)] ELSE sent
  IN [ i \in 1 .. SamplesPerSymbol * Len(heard) - r.offset |->
         heard[(i + r.offset - 1) \div SamplesPerSymbol + 1] ]

-----------------------------------------------------------------------------

Init ==
  /\ input \in Recordings \cup RawFrames
  /\ stage = IF IsRecording THEN "recorded" ELSE "frames"
  /\ samples = IF IsRecording THEN Samples(input) ELSE << >>
  /\ phase = 0 /\ bits = << >> /\ most = -1
  /\ frames = IF IsRecording THEN << >> ELSE << input.octets >>
  /\ next = 0 /\ payloads = << >> /\ outcome = Rejected /\ score = One
  /\ max \in DlqSizes
  /\ dlq = << >> /\ pushed = 0

\* A turn of demodulate: one sample offset is tried.
TryPhase ==
  /\ stage = "recorded"
  /\ phase < SamplesPerSymbol
  /\ phase' = phase + 1
  /\ LET b == BitsAt(samples, phase)
         flagCount == Cardinality(FlagsOf(b))
     IN IF Better(flagCount, most) THEN bits' = b /\ most' = flagCount ELSE UNCHANGED <<bits, most>>
  /\ UNCHANGED <<stage, input, samples, frames, next, payloads, outcome, score, letters>>

\* _decode_audio_once cuts the bits into frames.
Extract ==
  /\ stage = "recorded"
  /\ phase = SamplesPerSymbol
  /\ frames' = Frames(bits)
  /\ stage' = "frames"
  /\ UNCHANGED <<input, demod, next, payloads, outcome, score, letters>>

\* decode_frame of one frame after the other; only frames of a recording still
\* have their check sequence.
Decode ==
  /\ stage = "frames"
  /\ next < Len(frames)
  /\ next' = next + 1
  /\ LET p == DecodedPayload(Norad, frames[next + 1], IsRecording)
     IN payloads' = IF p = NoPayload THEN payloads ELSE RPushed(payloads, p)
  /\ UNCHANGED <<stage, input, demod, frames, outcome, score, letters>>

Decoded ==
  /\ stage = "frames"
  /\ next = Len(frames)
  /\ stage' = "payloads"
  /\ UNCHANGED <<input, demod, frames, next, payloads, outcome, score, letters>>

Demultiplex ==
  /\ stage = "payloads"
  /\ payloads # << >>
  /\ outcome' = Demultiplexed(Norad, Head(payloads))
  /\ payloads' = Popped(payloads)
  /\ stage' = "outcome"
  /\ UNCHANGED <<input, demod, frames, next, score, letters>>

\* export asks for the score of what comes out.
Scored ==
  /\ stage = "outcome"
  /\ outcome.kind = "reading"
  /\ score' = Score(outcome.metrics)
  /\ stage' = "payloads"
  /\ UNCHANGED <<input, demod, frames, next, payloads, outcome, letters>>

Dropped ==
  /\ stage = "outcome"
  /\ outcome.kind = "none"
  /\ stage' = "payloads"
  /\ UNCHANGED <<input, demod, frames, next, payloads, outcome, score, letters>>

\* Mutant of Kept: LTRIM 0 max - 1.
KeptFirst(list) == TrimmedNewest(list, max)

\* LTRIM of the dead-letter queue.
Kept(list) == Trimmed(list, max)

\* DemuxDeadLetterQueue.push, after a ValueError.
DeadLetter ==
  /\ stage = "outcome"
  /\ outcome.kind = "ValueError"
  /\ pushed < MaxLetters
  /\ pushed' = pushed + 1
  /\ dlq' = Kept(RPushed(dlq, pushed + 1))
  /\ stage' = "payloads"
  /\ UNCHANGED <<input, demod, frames, next, payloads, outcome, score, max>>

\* Another frame of SatNOGS DB, which needs no cutting.
NextFrame ==
  /\ stage = "payloads"
  /\ payloads = << >>
  /\ pushed \in 1 .. MaxLetters - 1
  /\ input' \in RawFrames
  /\ frames' = << input'.octets >>
  /\ stage' = "frames"
  /\ next' = 0
  /\ UNCHANGED <<demod, payloads, outcome, score, letters>>

Next ==
  \/ TryPhase \/ Extract \/ Decode \/ Decoded \/ Demultiplex
  \/ Scored \/ Dropped \/ DeadLetter \/ NextFrame

Spec == Init /\ [][Next]_vars

\* get_recent: LRANGE -count -1, and all of them for a count of 0.
Recent(count) ==
  IF count = 0 \/ Len(dlq) <= count THEN dlq ELSE SubSeq(dlq, Len(dlq) - count + 1, Len(dlq))

-----------------------------------------------------------------------------
(* What must hold.                                                         *)

\* Whatever noise came before it, two flags open a frame; one does unless the
\* noise ends in the first seven bits of a flag, which takes its zero.  A
\* recording that begins inside a symbol may lose that symbol, or the last one,
\* which must not be one of those.
Heard(r) ==
  /\ r.wrong = 0
  /\ r.flags > 1 \/ Len(r.noise) < 7
       \/ SubSeq(r.noise, Len(r.noise) - 6, Len(r.noise)) # SubSeq(Flag, 1, 7)
  /\ r.offset = 0 \/ (r.tail # << >> /\ (r.flags > 1 \/ r.noise # << >>))

\* The sample offsets whose windows lie half in one symbol and half in the next.
Askew == { p \in 0 .. SamplesPerSymbol - 1 : 2 * ((p + input.offset) % SamplesPerSymbol) = SamplesPerSymbol }

Flags(p) == Cardinality(FlagsOf(BitsAt(samples, p)))

\* The octets do not look like as many flags to windows that are askew as there
\* are flags to others.
Clear == \A p \in Askew : \E q \in (0 .. SamplesPerSymbol - 1) \ Askew : Flags(p) < Flags(q)

\* demodulate, extract_frames: a frame received without an error is found,
\* wherever in a symbol the recording begins and whatever it heard before, when
\* its octets do not look like flags to a window that is askew.
FramesArrive ==
  stage = "frames" /\ IsRecording /\ Heard(input) /\ Clear =>
    \E k \in DOMAIN frames : frames[k] = input.sent

\* verify_fcs: one wrong tone is two wrong bits and may add or remove a stuffed
\* one, but it never makes another frame of that length valid.
NoForgery ==
  stage = "frames" /\ IsRecording =>
    \A k \in DOMAIN frames :
      VerifyFcs(frames[k]) /\ Len(frames[k]) = Len(input.sent) => frames[k] = input.sent

\* demux.run lets only a ValueError go to the dead letters, anything else ends
\* the service: no payload that decode_frame lets through makes a specification
\* raise another exception, or gives a value outside its field, although int
\* takes signs and spaces for hexadecimal digits.
SpecsTotal ==
  /\ outcome.kind \in {"reading", "none", "ValueError"}
  /\ \A k \in DOMAIN outcome.metrics :
       outcome.metrics[k].value \in outcome.metrics[k].min .. outcome.metrics[k].max

\* scoring.readiness: the score is in [0, 1], and it is 1 for a reading without
\* health metrics, or with all of them nominal, and no other.
ScoreSound ==
  LET m == outcome.metrics
      nominal == \A k \in DOMAIN m :
        m[k].unit \in HealthUnits =>
          m[k].value \in BandOf(m[k].unit).nomLow .. BandOf(m[k].unit).nomHigh
  IN outcome.kind = "reading" /\ stage = "payloads" =>
       score \in 0 .. One /\ (score = One <=> nominal)

Least(a, b) == IF a <= b THEN a ELSE b

\* dlq.py: the newest failures are the ones that are kept, and get_recent gives
\* the newest of them, oldest first; a maximum of 0 keeps all.
RecentAreNewest ==
  /\ Len(dlq) = IF max = 0 THEN pushed ELSE Least(pushed, max)
  /\ \A count \in 1 .. MaxLetters :
       LET n == Least(count, Len(dlq))
       IN Recent(count) = [ i \in 1 .. n |-> pushed - n + i ]

=============================================================================
