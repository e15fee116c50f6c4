-------------------------------- MODULE Specs --------------------------------
(***************************************************************************)
(* From octets to metrics: decode_frame and the CW decoder, and the byte   *)
(* specification of each satellite.  What a specification gives or raises  *)
(* is an outcome.  Names of metrics are left out.  Values are integers:    *)
(* degrees ("C"), volts ("mV") and percents are in thousandths, numbers of *)
(* 32 bits in units of 65536, rounded down, and other units as they are.   *)
(***************************************************************************)
EXTENDS Integers, Sequences, Hdlc

OreSat == 60525
Cp16 == 68458
Cape == 31130
Sonate == 59112
Iss == 25544

\* A metric is its unit, its value and the range of its field.
Metric(unit, value, min, max) == [unit |-> unit, value |-> value, min |-> min, max |-> max]

Reading(metrics) == [kind |-> "reading", metrics |-> metrics]
Raises(kind) == [kind |-> kind, metrics |-> << >>]
Rejected == [kind |-> "none", metrics |-> << >>]

-----------------------------------------------------------------------------
(* ax25.decode_frame and cw.decode_cw_beacon                               *)

NoPayload == << -1 >>

\* The ends of address fields, the last of which has the extension bit.
AddressFields(frame) == { k \in 1 .. Len(frame) \div 7 : frame[7 * k] % 2 = 1 }

\* The information field, behind the addresses, control and PID, and before
\* the FCS when the frame has one.  It may be empty.
Ax25Payload(frame, hasFcs) ==
  IF \/ Len(frame) < 15
     \/ hasFcs /\ ~VerifyFcs(frame)
     \/ AddressFields(frame) = {}
     \/ 1 \in AddressFields(frame)
  THEN NoPayload
  ELSE LET last == CHOOSE k \in AddressFields(frame) : \A j \in AddressFields(frame) : k <= j
       IN SubSeq(frame, 7 * last + 3, Len(frame) - IF hasFcs THEN 2 ELSE 0)

Callsign == << 75, 53, 85, 83, 76 >>
Spaces == (9 .. 13) \cup (28 .. 32)
Upper(c) == IF c \in 97 .. 122 THEN c - 32 ELSE c
HexDigits == (48 .. 57) \cup (65 .. 70)

\* The maximal run of hexadecimal characters at the head.
HexRun(fields) ==
  CHOOSE n \in 0 .. Len(fields) :
    /\ \A i \in 1 .. n : fields[i] \in HexDigits
    /\ n = Len(fields) \/ fields[n + 1] \notin HexDigits

\* The transcription without white space, in upper case, from the first
\* callsign on: a type digit and two hexadecimal characters at least.
CwPayload(text) ==
  LET letters == Selected([ i \in DOMAIN text |-> Upper(text[i]) ], { i \in DOMAIN text : text[i] \notin Spaces })
      marks == { i \in DOMAIN letters : Slice(letters, i, i + 4) = Callsign }
      first == CHOOSE i \in marks : \A j \in marks : i <= j
      beacon == SubSeq(letters, first, Len(letters))
      fields == SubSeq(beacon, 7, Len(beacon))
  IN IF \/ \E i \in DOMAIN text : text[i] > 127
        \/ marks = {}
        \/ Len(beacon) < 8
        \/ beacon[6] \notin 49 .. 51
        \/ HexRun(fields) < 2
     THEN NoPayload
     ELSE SubSeq(beacon, 1, 6) \o SubSeq(fields, 1, HexRun(fields))

DecodedPayload(norad, frame, hasFcs) ==
  IF norad = Cape THEN CwPayload(frame) ELSE Ax25Payload(frame, hasFcs)

-----------------------------------------------------------------------------
(* specs.common                                                            *)

Digit(c) == IF c \in 48 .. 57 THEN c - 48 ELSE IF c \in 65 .. 70 THEN c - 55 ELSE c - 87
IsDigit(c) == c \in HexDigits \cup 97 .. 102

\* What int takes for white space.
Blanks == (9 .. 13) \cup {32}

NotHex == [ok |-> FALSE, value |-> 0]

\* int(text, 16) of two characters: two digits, or one with a sign or white
\* space, which a field of a beacon may not hold but int takes.
HexValue(a, b) ==
  IF IsDigit(a) /\ IsDigit(b) THEN [ok |-> TRUE, value |-> 16 * Digit(a) + Digit(b)]
  ELSE IF IsDigit(a) /\ b \in Blanks THEN [ok |-> TRUE, value |-> Digit(a)]
  ELSE IF IsDigit(b) /\ a \in Blanks \cup {43} THEN [ok |-> TRUE, value |-> Digit(b)]
  ELSE IF IsDigit(b) /\ a = 45 THEN [ok |-> TRUE, value |-> -Digit(b)]
  ELSE NotHex

\* Eight bits as two's complement.
Signed(v) == IF v >= 128 THEN v - 256 ELSE v

\* parse_ascii_hex; both errors are a ValueError.
ParseAsciiHex(view, start, signed) ==
  IF Len(view) < start + 2 THEN NotHex
  ELSE LET hex == HexValue(view[start + 1], view[start + 2])
       IN IF signed /\ hex.ok THEN [hex EXCEPT !.value = Signed(@)] ELSE hex

\* The octets of a field, which struct refuses with an error of its own when
\* they are not there, and unpack_from_view with a ValueError before.
Field(view, start, size) == Slice(view, start + 1, start + size)
Fits(view, start, size) == Len(view) >= start + size

\* A number of 16 bits, and the upper half of one of 32.
Little16(view, start) == Field(view, start, 2)[1] + 256 * Field(view, start, 2)[2]
Big16(view, start) == 256 * Field(view, start, 2)[1] + Field(view, start, 2)[2]
Little32(view, start) == Little16(view, start + 2)
Big32(view, start) == Big16(view, start)

-----------------------------------------------------------------------------
(* The byte specifications.                                                *)

\* The fields of CAPE-1 by packet type: unit, offset, signed, scale.
CapeFields ==
  << << <<"mV", 6, FALSE, 20>>, <<"mV", 8, FALSE, 20>>, <<"mV", 10, FALSE, 20>>, <<"mA", 14, FALSE, 1>> >>,
     << <<"C", 6, TRUE, 1000>>, <<"C", 8, TRUE, 1000>>, <<"C", 10, TRUE, 1000>> >>,
     << <<"mA", 6, FALSE, 10>>, <<"mA", 8, FALSE, 10>> >> >>

CapeHex(view, field) == ParseAsciiHex(view, field[2], field[3])

CapeMetric(view, field) ==
  Metric(field[1], CapeHex(view, field).value * field[4],
         IF field[3] THEN -128 * field[4] ELSE 0, (IF field[3] THEN 127 ELSE 255) * field[4])

CapeSpec(view) ==
  LET type == view[6] - 48
      fields == CapeFields[type]
  IN IF \/ Len(view) < 8
        \/ SubSeq(view, 1, 5) # Callsign
        \/ type \notin DOMAIN CapeFields
        \/ \E k \in DOMAIN fields : ~CapeHex(view, fields[k]).ok
     THEN Raises("ValueError")
     ELSE Reading(<< Metric("type", type, 1, 3) >> \o [ k \in DOMAIN fields |-> CapeMetric(view, fields[k]) ])

\* SAL-E / CP16 behind its header of 29 octets.  Bit 31 of the free storage is
\* its unit; the packet count is shifted by 16 bits.
Cp16Metrics(data) ==
  LET dir == Big32(data, 34)
  IN << Metric("raw", data[1], 0, 255), Metric("raw", data[2], 0, 255), Metric("raw", data[7], 0, 255),
        Metric("s", Big32(data, 10), 0, 65535),
        Metric(IF dir >= 32768 THEN "KB" ELSE "bytes", dir % 32768, 0, 32767),
        Metric("count", Big16(data, 50), 0, 65535) >>

Cp16Spec(view) ==
  LET data == SubSeq(view, 30, Len(view))
  IN IF \/ Len(view) < 81
        \/ \E f \in {<<0, 2>>, <<6, 1>>, <<10, 4>>, <<34, 4>>, <<50, 2>>} : ~Fits(data, f[1], f[2])
     THEN Raises("ValueError")
     ELSE Reading(Cp16Metrics(data))

\* ORESAT0.5: the PID is stripped when the length says that it is there.
OreSatMetrics(data) ==
  << Metric("s", Little32(data, 7), 0, 65535),
     Metric("s", Little32(data, 11), 0, 65535),
     Metric("count", Little16(data, 15), 0, 65535),
     Metric("%", 1000 * data[18], 0, 255000),
     Metric("mV", Little16(data, 49), 0, 65535),
     Metric("mV", Little16(data, 51), 0, 65535) >>

OreSatSpec(view) ==
  LET data == IF Len(view) = 217 THEN Tail(view) ELSE view
  IN IF Len(data) < 53 \/ ~Fits(data, 7, 11) \/ ~Fits(data, 49, 4)
     THEN Raises("ValueError")
     ELSE Reading(OreSatMetrics(data))

\* The fields of SONATE-2 by APID: unit, bit position, length and, of a
\* calibrated one, the polynomial, its coefficients rounded to millionths.
StdHkFields ==
  << <<"s", 0, 24>>,
     <<"C", 299, 8, -128000000, 1000000, 0>>, <<"C", 402, 8, -128000000, 1000000, 0>>,
     <<"mV", 513, 8, 0, 20071, 0>>, <<"mA", 521, 8, -7641925, 59703, 0>>,
     <<"mV", 545, 8, 0, 24531, 0>>, <<"mV", 577, 8, 0, 19882, 0>>,
     <<"C", 625, 8, -47238895, 548218, 20>>, <<"C", 633, 8, -43917894, 534063, 13>>,
     <<"mV", 713, 8, 0, 19765, 0>>, <<"mV", 745, 8, 0, 51931, 0>>, <<"state", 825, 2>> >>
MemOpsChannel(c) ==
  LET base == (c - 1) * 20
  IN << <<"flag", base, 1>>, <<"state", base + 1, 3>>, <<"%", base + 4, 8, 0, 392157, 0>>,
        <<"state", base + 12, 4>>, <<"count", base + 16, 4>> >>
MemOpsFields == [ k \in 1 .. 20 |-> MemOpsChannel((k - 1) \div 5 + 1)[((k - 1) % 5) + 1] ]

\* _decode_fields, rounded down to thousandths.
Calibrated(field, x) ==
  IF Len(field) = 3 THEN x ELSE (field[4] + field[5] * x + field[6] * x * x) \div 1000

ApidFields(apid) == IF apid = 100 THEN StdHkFields ELSE MemOpsFields
ApidVcids(apid) == IF apid = 100 THEN {0, 2} ELSE {1, 3}

\* _extract_bits: the most significant bit first.
ExtractBits(data, pos, len) ==
  LET bit(b) == (data[b \div 8 + 1] \div Pow2[7 - (b % 8)]) % 2
      value[i \in 0 .. len] == IF i = 0 THEN 0 ELSE 2 * value[i - 1] + bit(pos + i - 1)
  IN value[len]

SonateMetric(data, field) ==
  Metric(field[1], Calibrated(field, ExtractBits(data, field[2], field[3])),
         Calibrated(field, 0), Calibrated(field, Pow2[field[3]] - 1))

\* An index of a memoryview, which raises an IndexError when it is not there.
At(view, i) == IF i < Len(view) THEN view[i + 1] ELSE -1

\* Mutant of PacketFits: the packet may begin where the frame ends.
PacketFitsAtEnd(start, view) == start <= Len(view)

\* The header of the space packet is inside the frame.
PacketFits(start, view) == start + 6 <= Len(view)

\* The transfer frame has a packet at its first header pointer; its APID goes
\* with the virtual channel.
SonateSpec(view) ==
  LET vcid == (At(view, 1) \div 2) % 8
      start == 6 + (At(view, 4) % 8) * 256 + At(view, 5)
      apid == (At(view, start) % 8) * 256 + At(view, start + 1)
      data == SubSeq(view, start + 12, Len(view))
      fields == ApidFields(apid)
  IN IF Len(view) < 19 \/ ~PacketFits(start, view) THEN Raises("ValueError")
     ELSE IF -1 \in {At(view, start), At(view, start + 1)} THEN Raises("IndexError")
     ELSE IF \/ apid \notin {100, 105} \/ vcid \notin ApidVcids(apid)
             \/ \E k \in DOMAIN fields : (fields[k][2] + fields[k][3] + 7) \div 8 > Len(data)
     THEN Raises("ValueError")
     ELSE Reading([ k \in DOMAIN fields |-> SonateMetric(data, fields[k]) ])

\* The data type identifiers of APRS by their code: ! = / @, ' `, >, :, T, ; and _.
AprsTypes == << {33, 61, 47, 64}, {39, 96}, {62}, {58}, {84}, {59}, {95} >>

\* The type and the length.  The positions and analog values that some formats
\* add are matched by patterns that leave nothing to go wrong.
AprsSpec(view) ==
  LET codes == { c \in DOMAIN AprsTypes : view[1] \in AprsTypes[c] }
  IN IF codes = {} THEN Raises("ValueError")
     ELSE Reading(<< Metric("type", CHOOSE c \in codes : TRUE, 1, 7),
                     Metric("bytes", Len(view), 1, Len(view)) >>)

\* demultiplex, of a frame whose CRC is valid.
Demultiplexed(norad, payload) ==
  IF payload = << >> \/ norad \notin {OreSat, Cp16, Cape, Sonate, Iss} THEN Rejected
  ELSE CASE norad = OreSat -> OreSatSpec(payload)
         [] norad = Cp16   -> Cp16Spec(payload)
         [] norad = Cape   -> CapeSpec(payload)
         [] norad = Sonate -> SonateSpec(payload)
         [] norad = Iss    -> AprsSpec(payload)

=============================================================================
