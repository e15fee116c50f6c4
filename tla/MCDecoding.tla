----------------------------- MODULE MCDecoding -----------------------------
(* Recordings and frames for Decoding.                                     *)
EXTENDS Decoding

BitStrings(n) == UNION { [1 .. k -> {0, 1}] : k \in 0 .. n }

\* Two octets with a flag and a run of ones among their bits, and the frame of
\* a digipeater's status report.
Short == WithFcs(<< 126, 255 >>)
Beacon ==
  WithFcs(<< 134, 162, 64, 64, 64, 64, 96, 164, 166, 96, 146, 166, 166, 97, 3, 240, 62, 65 >>)

\* The frame of a binary report, twelve octets of which are ones.
Binary ==
  WithFcs(<< 134, 162, 64, 64, 64, 64, 96, 164, 166, 96, 146, 166, 166, 97, 3, 240, 62 >>
            \o [ i \in 1 .. 12 |-> 255 ])

Recording(sent, noise, flags, tail, wrong, offset) ==
  [sent |-> sent, noise |-> noise, flags |-> flags, tail |-> tail, wrong |-> wrong, offset |-> offset]

\* Four flags are too few for that report, sixteen are enough.
BinaryRecordings == { Recording(Binary, << >>, flags, << >>, 0, 0) : flags \in {4, 16} }

\* Every noise of up to eight bits before one flag or two; recordings that
\* begin inside a symbol; and each symbol received wrong.
AllRecordings ==
  { Recording(Short, noise, flags, << >>, 0, 0) : noise \in BitStrings(8), flags \in {1, 2} }
  \cup { Recording(Short, noise, flags, tail, 0, offset) :
           noise \in BitStrings(2), flags \in {1, 2}, tail \in BitStrings(1), offset \in 1 .. 3 }
  \cup { Recording(Short, << >>, 2, << >>, wrong, 0) : wrong \in 1 .. 60 }
  \cup { Recording(Beacon, << >>, 2, << >>, wrong, 0) : wrong \in {0} \cup 100 .. 190 }
  \cup BinaryRecordings

Raw(norad, octets) == [norad |-> norad, octets |-> octets]
Const(n, v) == [ i \in 1 .. n |-> v ]

\* CW transcriptions: a type, two to ten characters, and what trails them.
Transcriptions ==
  { Raw(Cape, noise \o Callsign \o << type >> \o fields) :
      noise \in { << >>, << 69, 32 >>, << 75, 53 >>, << 233 >> },
      type \in { 49, 50, 51, 52 },
      fields \in { << >>, << 65 >>, << 56, 48 >>, << 56, 48, 32, 55, 70, 45, 53 >>,
                   << 70, 70, 56, 48, 97, 98, 48, 49 >>, << 55, 70, 56, 48, 65, 48, 45, 53 >>,
                   << 70, 70, 57, 57, 65, 48, 48, 49, 67, 56 >> } }

\* An AX.25 frame with a payload.
Ax25(payload) ==
  << 134, 162, 64, 64, 64, 64, 96, 164, 166, 96, 146, 166, 166, 97, 3, 240 >> \o payload

\* Transfer frames of SONATE-2 at the edges of their layout.
TransferFrames ==
  { Ax25(<< 0, 2 * vcid, 0, 0, 0, pointer >> \o Const(pad, 0) \o << 0, apid >> \o Const(len, 165)) :
      vcid \in {0, 1, 4}, pointer \in {0, 1, 255}, pad \in {0, 1}, apid \in {100, 101, 105},
      len \in {10, 18, 19, 113} }
  \cup { Ax25(<< 0, 2 * vcid, 0, 0, 0, 0, 0, apid >> \o Const(113, 255)) :
           vcid \in 0 .. 3, apid \in {100, 105} }
  \cup { Ax25(<< 0, 0, 0, 0, 0, pointer >> \o Const(14, 0)) : pointer \in 8 .. 16 }

AllRawFrames ==
  Transcriptions
  \cup { Raw(Sonate, f) : f \in TransferFrames }
  \cup { Raw(Cp16, Ax25(Const(n, v))) : n \in {0, 80, 81, 82}, v \in {0, 1, 255} }
  \cup { Raw(OreSat, Ax25(Const(n, v))) : n \in {0, 52, 53, 216, 217, 218}, v \in {0, 30, 255} }
  \cup { Raw(Iss, Ax25(Const(n, v))) : n \in {0, 1, 2}, v \in {33, 84, 200} }
  \cup { Raw(Iss, Const(n, v)) : n \in {0, 14, 15, 21}, v \in {0, 1} }
  \cup { Raw(99999, Ax25(<< 33 >>)) }
=============================================================================
