-------------------------------- MODULE Hdlc --------------------------------
(***************************************************************************)
(* From an AFSK1200 recording to octets: the tones of a symbol, the bits   *)
(* of the tones, the frames between flags, their stuffing and their check  *)
(* sequence.  A recording is a sequence of samples, each in one tone; bits *)
(* are 0 and 1 in the order of the air; an octet is a number below 256.    *)
(***************************************************************************)
EXTENDS Integers, Sequences, FiniteSets, Selection

CONSTANT SamplesPerSymbol  \* sample_rate_hz / 1200, a whole number here

ASSUME SamplesAssumption == SamplesPerSymbol \in Nat \ {0}

Flag == <<0, 1, 1, 1, 1, 1, 1, 0>>

-----------------------------------------------------------------------------
(* afsk1200.demodulate                                                     *)

\* The energy of a tone in a window is the number of its samples.
Energy(window, tone) == Cardinality({ i \in DOMAIN window : window[i] = tone })

\* The tone of every whole window of one symbol from sample phase on.
Symbols(samples, phase) ==
  [ k \in 1 .. (Len(samples) - phase) \div SamplesPerSymbol |->
      LET start == phase + (k - 1) * SamplesPerSymbol
          window == SubSeq(samples, start + 1, start + SamplesPerSymbol)
      IN IF Energy(window, "mark") >= Energy(window, "space") THEN "mark" ELSE "space" ]

\* _nrzi_decode: a transition is zero, none is one.
NrziDecode(tones) ==
  [ i \in 1 .. Len(tones) - 1 |-> IF tones[i] = tones[i + 1] THEN 1 ELSE 0 ]

BitsAt(samples, phase) == NrziDecode(Symbols(samples, phase))

\* str.find and str.count: where flags begin.  The next search starts after the
\* end of the last flag: of flags that share a zero, one after the other, every
\* second is passed over.
FlagsOf(bits) ==
  LET at == { i \in 1 .. Len(bits) - 7 : \A k \in 1 .. 8 : bits[i + k - 1] = Flag[k] }
      Sharing(i, n) == \A m \in 0 .. n : i - 7 * m \in at
  IN { i \in at : \E n \in 0 .. Len(bits) : Sharing(i, 2 * n) /\ i - 7 * (2 * n + 1) \notin at }

\* Mutant of Better: the recording is taken to begin with a symbol.
BetterNever(flagCount, mostFlags) == mostFlags = -1

\* The sample offset with the most flags, the first of several.
Better(flagCount, mostFlags) == flagCount > mostFlags

-----------------------------------------------------------------------------
(* frame_sync                                                              *)

\* find_frame_boundaries: what stands between two flags, empty fill aside.
Between(bits) ==
  LET flags == Selected([ i \in DOMAIN bits |-> i ], FlagsOf(bits))
      inner == [ k \in 1 .. Len(flags) - 1 |-> SubSeq(bits, flags[k] + 8, flags[k + 1] - 1) ]
  IN Selected(inner, { k \in DOMAIN inner : inner[k] # << >> })

Malformed == << >>

\* n ones from position i on.
Ones(bits, i, n) == i \in 1 .. Len(bits) - n + 1 /\ \A k \in i .. i + n - 1 : bits[k] = 1

\* bit_destuff: the zero after five ones is dropped; a sixth one, or no bit at
\* all, is a ValueError.
Destuff(bits) ==
  IF \E i \in DOMAIN bits : Ones(bits, i, 6)
  THEN Malformed
  ELSE Selected(bits, { i \in DOMAIN bits : bits[i] = 1 \/ ~Ones(bits, i - 5, 5) })

\* The number whose bits these are, the least significant first.
Number(bits) ==
  LET n[i \in 0 .. Len(bits)] == IF i = 0 THEN 0 ELSE bits[Len(bits) - i + 1] + 2 * n[i - 1]
  IN n[Len(bits)]

\* bits_to_bytes of whole octets.
Octets(bits) ==
  [ k \in 1 .. Len(bits) \div 8 |-> Number(SubSeq(bits, 8 * k - 7, 8 * k)) ]

\* extract_frames: what is malformed or no whole octets is left out.
Frames(bits) ==
  LET destuffed == [ k \in DOMAIN Between(bits) |-> Destuff(Between(bits)[k]) ]
      good == { k \in DOMAIN destuffed : destuffed[k] # Malformed /\ Len(destuffed[k]) % 8 = 0 }
      whole == Selected(destuffed, good)
  IN [ k \in DOMAIN whole |-> Octets(whole[k]) ]

-----------------------------------------------------------------------------
(* crc16                                                                   *)

Pow2[n \in Nat] == IF n = 0 THEN 1 ELSE 2 * Pow2[n - 1]

\* A bit of an octet, from the least significant, 0, on.
Bit(octet, i) == (octet \div Pow2[i]) % 2

Xor(A, B) == (A \ B) \cup (B \ A)

\* The register is the set of its bits that are one; it takes a bit in and is
\* divided by the polynomial 0x8408.
CrcBit(register, bit) ==
  LET shifted == { b - 1 : b \in register \ {0} }
  IN IF (0 \in register) = (bit = 1) THEN shifted ELSE Xor(shifted, {15, 10, 3})

\* What an octet makes of each register.
CrcOctet(octet) ==
  [ register \in SUBSET (0 .. 15) |->
      LET r[i \in 0 .. 8] == IF i = 0 THEN register ELSE CrcBit(r[i - 1], Bit(octet, i - 1))
      IN r[8] ]

\* Crc16X25.calc of the crccheck library, begun with ones and complemented at
\* the end.
Crc16(octets) ==
  LET r[k \in 0 .. Len(octets)] == IF k = 0 THEN 0 .. 15 ELSE CrcOctet(octets[k])[r[k - 1]]
  IN (0 .. 15) \ r[Len(octets)]

\* The two octets in which a check sequence is sent, the low one first.
FcsOctets(crc) ==
  [ k \in 1 .. 2 |-> Number([ i \in 1 .. 8 |-> IF 8 * (k - 1) + i - 1 \in crc THEN 1 ELSE 0 ]) ]

\* Mutant of VerifyFcs: the check sequence is left to the server, as for the
\* frames of SatNOGS DB.
VerifyFcsNever(frame) == Len(frame) >= 3

\* verify_fcs
VerifyFcs(frame) ==
  /\ Len(frame) >= 3
  /\ SubSeq(frame, Len(frame) - 1, Len(frame)) = FcsOctets(Crc16(SubSeq(frame, 1, Len(frame) - 2)))

=============================================================================
