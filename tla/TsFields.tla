------------------------------ MODULE TsFields ------------------------------
(***************************************************************************)
(* The clocks and lengths that the writers put into their headers, and     *)
(* what the readers make of them: sec_to_90kHz and write_*_first, the      *)
(* dump() of the PES header, the adaptation field and the ADTS header, and *)
(* ts::Parser.                                                             *)
(*                                                                         *)
(* A stamp has 33 bits, more than an integer of TLC: it is a record of its *)
(* bits 32..30, 29..15 and 14..0, the three pieces a PES header has it in. *)
(***************************************************************************)
EXTENDS Integers, Sequences

CONSTANTS
  Timestamps,         \* milliseconds, an int32_t
  CompositionTimes,   \* milliseconds, a signed number of 24 bits
  FrameSizes,         \* bytes of an AAC frame
  MaxFrames           \* bound: frames written

ASSUME TimesAssumption ==
  /\ Timestamps \subseteq Int
  /\ CompositionTimes \subseteq Int
  /\ FrameSizes \subseteq Nat

VARIABLES
  sent,   \* the frames written: [kind, timestamp, composition_time, pcr, pts,
          \* dts, size] and the bytes of the three fields and the ADTS header
  read    \* what ts::Parser has read back: [pcr, pts, dts] of each frame

vars == <<sent, read>>

K == 32768   \* 2^15

Stamp == [top: 0..7, mid: 0..K-1, low: 0..K-1]

\* The 33 lower bits of 90 * n + m, in two's complement.
Ticks(n, m) ==
  LET low == 90 * (n % K) + m
      mid == 90 * (n \div K) + low \div K
  IN  [top |-> (mid \div K) % 8, mid |-> mid % K, low |-> low % K]

\* Sum and difference modulo 2^33.
Plus(a, b) ==
  LET low == a.low + b.low
      mid == a.mid + b.mid + low \div K
  IN  [top |-> (a.top + b.top + mid \div K) % 8, mid |-> mid % K, low |-> low % K]
Minus(a, b) ==
  LET low == a.low - b.low
      mid == a.mid - b.mid + low \div K
  IN  [top |-> (a.top - b.top + mid \div K) % 8, mid |-> mid % K, low |-> low % K]

Zero == Ticks(0, 0)

\* sec_to_90kHz of n milliseconds and m ticks, m a multiple of 90.  A tick is
\* lost where the double is closer to zero than the product.  A negative double
\* has no value as a uint64_t: it wraps on one processor and is 0 on another.

\* Seeded error: a return type of 32 bits.
SecTo90kHz_32bit(n, m) == {[Ticks(n, m) EXCEPT !.top = @ % 4]}
SecTo90kHz(n, m) ==
  {Ticks(n, m)} \cup (IF n > -(m \div 90) THEN {Ticks(n, m - 1)} ELSE {})
                \cup (IF n < -(m \div 90) THEN {Ticks(n, m + 1), Zero} ELSE {})

\* PTS_DTS_OFFSET of 0.1 seconds.
PTS_DTS_OFFSET == 9000

----------------------------------------------------------------------------
\* PES::dump of a stamp: four check bits, and a marker at the end of each piece.

\* Seeded error: the mask 0xFFFE forgotten, so that bit 14 is where the marker is.
StampBytes_unmasked(check, s) ==
  << 16 * check + 2 * s.top + 1,
     s.mid \div 128, (2 * (s.mid % 128) + s.low \div 16384 + 1) % 256,
     s.low \div 128, 2 * (s.low % 128) + 1 >>
StampBytes(check, s) ==
  << 16 * check + 2 * s.top + 1,
     s.mid \div 128, 2 * (s.mid % 128) + 1,
     s.low \div 128, 2 * (s.low % 128) + 1 >>

\* AdaptationField::dump of af.pcr: 33 bits of base, then 0x3F << 9.
PcrBytes(s) ==
  << 32 * s.top + s.mid \div 1024, (s.mid \div 4) % 256,
     64 * (s.mid % 4) + s.low \div 512, (s.low \div 2) % 256,
     128 * (s.low % 2) + 126, 0 >>

\* Bytes 3 to 5 of adts::Header::dump: the channels, aac_frame_length, which
\* has 13 bits, and the upper bits of 0x7FF.
AdtsLength(n) == (n + 7) % 8192
AdtsBytes(n)  ==
  << 128 + AdtsLength(n) \div 2048, (AdtsLength(n) \div 8) % 256,
     32 * (AdtsLength(n) % 8) + 31 >>

\* readPtsDts.  The two 16-bit numbers are kept in 8 bits each, and bits 31 and
\* 32 do not fit in the int that is shifted by 30: they are cut off and bit 31
\* taken for a sign, unless the compiler has more bits there.
ReadStamp(b) ==
  LET v == (b[1] % 16) \div 2
  IN  { [top |-> t, mid |-> b[3] \div 2, low |-> b[5] \div 2] :
          t \in {v, (v % 2) + (IF (v \div 2) % 2 = 1 THEN 6 ELSE 0)} }

\* The assertion of readPtsDts.
StampAsserted(check, b) ==
  b[1] \div 16 = check /\ b[1] % 2 = 1 /\ b[3] % 2 = 1 /\ b[5] % 2 = 1

\* parseAdaptationField: the upper 16 of 48 bits are added at bit 16, and the
\* sum has 32 bits.  A sequence of 16-bit words.
ReadPcr(b) ==
  << 0, (256 * b[1] + b[2] + 256 * b[3] + b[4]) % 65536, 256 * b[5] + b[6] >>

----------------------------------------------------------------------------
Init == sent = <<>> /\ read = <<>>

\* write_video_first.  pts is computed from dts, not from the sum of the times.
WriteVideo(t, c) ==
  /\ Len(sent) < MaxFrames
  /\ \E pcr \in SecTo90kHz(t, 0), dts \in SecTo90kHz(t, PTS_DTS_OFFSET), d \in SecTo90kHz(c, 0) :
       sent' = Append(sent,
         [kind |-> "video", timestamp |-> t, composition_time |-> c, size |-> 0,
          pcr |-> pcr, pts |-> Plus(dts, d), dts |-> dts,
          pcr_bytes |-> PcrBytes(pcr), pts_bytes |-> StampBytes(3, Plus(dts, d)),
          dts_bytes |-> StampBytes(1, dts), adts_bytes |-> <<>>])
  /\ UNCHANGED read

\* write_audio_first with the ADTS header in front of n bytes: no PCR.
WriteAudio(t, n) ==
  /\ Len(sent) < MaxFrames
  /\ \E dts \in SecTo90kHz(t, PTS_DTS_OFFSET) :
       sent' = Append(sent,
         [kind |-> "audio", timestamp |-> t, composition_time |-> 0, size |-> n,
          pcr |-> Zero, pts |-> dts, dts |-> dts,
          pcr_bytes |-> <<>>, pts_bytes |-> StampBytes(3, dts),
          dts_bytes |-> StampBytes(1, dts), adts_bytes |-> AdtsBytes(n)])
  /\ UNCHANGED read

\* ts::Parser reads the next packet that starts a frame.
Read ==
  /\ Len(read) < Len(sent)
  /\ LET f == sent[Len(read) + 1] IN
       /\ StampAsserted(3, f.pts_bytes) /\ StampAsserted(1, f.dts_bytes)
       /\ \E pts \in ReadStamp(f.pts_bytes), dts \in ReadStamp(f.dts_bytes) :
            read' = Append(read, [pts |-> pts, dts |-> dts,
                                  pcr |-> IF f.kind = "video" THEN ReadPcr(f.pcr_bytes) ELSE <<>>])
  /\ UNCHANGED sent

Next == \/ \E t \in Timestamps, c \in CompositionTimes : WriteVideo(t, c)
        \/ \E t \in Timestamps, n \in FrameSizes : WriteAudio(t, n)
        \/ Read

Spec == Init /\ [][Next]_vars

----------------------------------------------------------------------------
\* ISO 13818-1 on the bytes of a stamp, of a PCR (its base) and of an ADTS header.
DecodedStamp(b) ==
  [top |-> (b[1] \div 2) % 8, mid |-> 128 * b[2] + b[3] \div 2, low |-> 128 * b[4] + b[5] \div 2]
DecodedPcr(b) ==
  [top |-> b[1] \div 32, mid |-> 1024 * (b[1] % 32) + 4 * b[2] + b[3] \div 64,
   low |-> 512 * (b[3] % 64) + 2 * b[4] + b[5] \div 128]
DecodedLength(b) == 2048 * (b[1] % 4) + 8 * b[2] + b[3] \div 32

\* Every field of a byte stays in eight bits.
AreBytes(b) == \A i \in 1..Len(b) : b[i] \in 0..255

\* A decoder that follows the standards finds the clocks that were meant, with
\* all their markers, and the length of every AAC frame that 13 bits can state.
FieldsDecode ==
  \A i \in 1..Len(sent) :
    LET f == sent[i] IN
    /\ AreBytes(f.pts_bytes) /\ AreBytes(f.dts_bytes) /\ AreBytes(f.pcr_bytes)
    /\ DecodedStamp(f.pts_bytes) = f.pts /\ StampAsserted(3, f.pts_bytes)
    /\ DecodedStamp(f.dts_bytes) = f.dts /\ StampAsserted(1, f.dts_bytes)
    /\ f.kind = "video" => DecodedPcr(f.pcr_bytes) = f.pcr
    /\ f.kind = "audio" /\ f.size <= 8184 => DecodedLength(f.adts_bytes) = f.size + 7

\* a is b + n, give or take e ticks, modulo 2^33.
Near(a, b, n, e) == \E k \in 0..e : Minus(a, b) \in {Plus(n, Ticks(0, k)), Minus(n, Ticks(0, k))}

\* The clock of a video frame runs 0.1 seconds ahead of its decoding time, and
\* its presentation time lies composition_time behind that; audio and video
\* frames are as far apart as their timestamps, also across the end of the 33
\* bits after 26 hours: all to within the ticks that are cut off.
ClocksAgree ==
  \A i \in 1..Len(sent) : sent[i].timestamp >= 0 =>
    /\ sent[i].kind = "video" => Near(sent[i].dts, sent[i].pcr, Ticks(0, PTS_DTS_OFFSET), 1)
    /\ sent[i].composition_time >= 0 =>
         Near(sent[i].pts, sent[i].dts, Ticks(sent[i].composition_time, 0), 1)
    /\ \A j \in 1..Len(sent) : sent[j].timestamp >= sent[i].timestamp =>
         Near(sent[j].dts, sent[i].dts, Ticks(sent[j].timestamp - sent[i].timestamp, 0), 1)

\* The clocks that ts::Parser hands out, and parse-ts prints, are those that
\* were written, as the widths of its fields say: 33 bits, and 48 of the PCR.
ClocksReadBack ==
  \A i \in 1..Len(read) :
    /\ read[i].pts = sent[i].pts /\ read[i].dts = sent[i].dts
    /\ sent[i].kind = "video" =>
         LET b == sent[i].pcr_bytes
         IN  read[i].pcr = << 256 * b[1] + b[2], 256 * b[3] + b[4], 256 * b[5] + b[6] >>
=============================================================================
