------------------------------ MODULE FlvParser ------------------------------
(***************************************************************************)
(* include/flv/parser.hh on the bytes of a file, driven by flv-extract,    *)
(* parse-flv or flv2ts: one action is one turn of their loop, that is one  *)
(* parseTag and what is done with the tag.  Of flv2ts this is the half     *)
(* that reads: Flv2ts has the half that writes.                            *)
(* Positions are byte offsets.  A size_t below zero is kept as a negative  *)
(* number: adding it to the cursor wraps around to the same address.       *)
(***************************************************************************)
EXTENDS Integers, Sequences

VARIABLES
  tool,       \* "audio" or "video": flv-extract; "parse": parse-flv; "flv2ts"
  flv,        \* history: what the file was made of, [tags, tail] as in FlvTags
              \* with the NAL units of each tag, and starts, the byte where
              \* each tag and the rest begin
  file,       \* the bytes of the file
  page_end,   \* no byte behind the file is mapped; otherwise they are zero
  phase,      \* "closed", "open", "body": in the loop
  cur,        \* position()
  turns,      \* history: the turns of the loop that are over
  width,      \* bytes of a NAL unit's length, 0 before a sequence header
  result,     \* "running", "done" (0), "failed" (1), "undefined"
  written     \* what is handed on: [from, to], bytes of the file

vars == <<tool, flv, file, page_end, phase, cur, turns, width, result, written>>

CanRead(p, n) == p + n <= Len(file)
AtEnd(p)      == p >= Len(file)
Byte(p)       == IF p < Len(file) THEN file[p+1] ELSE 0
U16(p)        == 256 * Byte(p) + Byte(p+1)
U24(p)        == 65536 * Byte(p) + U16(p+1)
U32(p)        == 65536 * U16(p) + U16(p+2)   \* below 2^31 in the files checked

DataOffset == IF U32(5) > Len(file) THEN 9 ELSE U32(5)

\* Tags begin where the stated sizes put them, up to one that is not a tag or
\* is not there as a whole: four bytes for the size of the one before, eleven
\* for the header, and the data.
Laid(starts) ==
  LET end(p) == p + 15 + U24(p + 5)
      last   == starts[Len(starts)]
  IN  /\ starts \in Seq(Nat) /\ starts # <<>>
      /\ CanRead(0, 9) => starts[1] = DataOffset
      /\ \A i \in 2..Len(starts) : starts[i] = end(starts[i-1])
      /\ end(last) > Len(file) \/ Byte(last + 4) % 64 \notin {8, 9, 18}

\* A file of any bytes.
Init ==
  /\ tool \in {"audio", "video", "parse", "flv2ts"} /\ page_end \in BOOLEAN
  /\ file \in Seq(0..255) /\ Laid(flv.starts)
  /\ phase = "closed" /\ cur = 0 /\ turns = 0 /\ width = 0 /\ result = "running" /\ written = <<>>

----------------------------------------------------------------------------
\* The tag whose PreviousTagSize starts at the cursor.
H        == cur + 4
Filter   == (Byte(H) \div 32) % 2
Type     == Byte(H) % 32
DataSize == U24(H + 1)
D        == H + 11

AUDIO       == 8
VIDEO       == 9
SCRIPT_DATA == 18

\* Seeded error: the data of the tag is not looked for.
TagFits_unchecked ==
  CanRead(H, 11) /\ Filter = 0 /\ Type \in {AUDIO, VIDEO, SCRIPT_DATA}

\* parseTagImpl accepts the header of the tag.
TagFits ==
  /\ CanRead(H, 11) /\ Filter = 0
  /\ CanRead(D, DataSize) /\ Type \in {AUDIO, VIDEO, SCRIPT_DATA}

SoundFormat == Byte(D) \div 16
CodecId     == Byte(D) % 16
PacketType  == Byte(D + 1)

\* headerSize() of the tag; its bytes are read whatever data_size says.
HeaderSize == IF Type = VIDEO THEN (IF CodecId = 7 THEN 5 ELSE 1)
              ELSE IF Type = AUDIO THEN (IF SoundFormat = 10 THEN 2 ELSE 1)
              ELSE 0

\* Seeded error: the size of a payload that is missing set to zero.
PayloadSize_clamped == IF DataSize < HeaderSize THEN 0 ELSE DataSize - HeaderSize

\* Negative when data_size does not cover the header.
PayloadSize == DataSize - HeaderSize
Payload     == D + HeaderSize
After       == Payload + PayloadSize

\* A header byte behind the end of the file that is not mapped.
Faults == page_end /\ Type # SCRIPT_DATA /\ D + HeaderSize > Len(file)

----------------------------------------------------------------------------
\* AVCDecoderConfigurationRecord::parse on a ByteStream of n bytes at p.

\* Where k sets from q on end within the stream, -1 if they do not fit.
SetsEnd(q, k, end) ==
  LET f[i \in 0..k] ==
        IF i = 0 THEN q
        ELSE IF f[i-1] = -1 \/ f[i-1] + 2 > end
                \/ f[i-1] + 2 + U16(f[i-1]) > end THEN -1
        ELSE f[i-1] + 2 + U16(f[i-1])
  IN  f[k]

\* avc_profile_indication of the profiles with a chroma format and bit depths.
HighProfiles == {100, 110, 122, 144}

HighProfileParses(q, end) ==
  /\ q + 4 <= end
  /\ Byte(q) \div 4 = 63 /\ Byte(q+1) \div 8 = 31 /\ Byte(q+2) \div 8 = 31
  /\ SetsEnd(q + 4, Byte(q+3), end) # -1

ConfParses(p, n) ==
  LET end == p + n
      sps == SetsEnd(p + 6, Byte(p+5) % 32, end)
      pps == SetsEnd(sps + 1, Byte(sps), end)
  IN  /\ n >= 6
      /\ Byte(p) = 1 /\ Byte(p+4) \div 4 = 63 /\ Byte(p+5) \div 32 = 7
      /\ sps # -1 /\ sps + 1 <= end
      /\ pps # -1
      /\ Byte(p+1) \in HighProfiles => HighProfileParses(pps, end)

----------------------------------------------------------------------------
\* AVCSample::parse on n bytes at p until eos(), as to_storage_format calls it:
\* each unit has its length in front, on w bytes.

\* The number on w bytes at q.
Number(q, w) ==
  LET f[i \in 0..w] == IF i = 0 THEN 0 ELSE 256 * f[i-1] + Byte(q + i - 1) IN f[w]

\* Seeded error: a length that takes two bytes is read on one.
Units_narrow(p, n, w) ==
  LET end   == p + n
      v     == IF w = 2 THEN 1 ELSE w
      to(q) == q + v + Number(q, v)
      units[q \in p..end] ==
        IF q + v <= end /\ to(q) <= end
        THEN <<[from |-> q + v, to |-> to(q)]>> \o units[to(q)] ELSE <<>>
  IN  IF n <= 0 THEN <<>> ELSE units[p]

\* The units up to the end or to one that does not fit.
Units(p, n, w) ==
  LET end   == p + n
      to(q) == q + w + Number(q, w)
      units[q \in p..end] ==
        IF q + w <= end /\ to(q) <= end
        THEN <<[from |-> q + w, to |-> to(q)]>> \o units[to(q)] ELSE <<>>
  IN  IF n <= 0 THEN <<>> ELSE units[p]

StorageParses(p, n, w) ==
  n <= 0 \/ LET u == Units(p, n, w) IN u # <<>> /\ u[Len(u)].to = p + n

----------------------------------------------------------------------------
\* What the programs do with the tag; parse-flv prints every tag.

Audio == tool \in {"audio", "flv2ts"} /\ Type = AUDIO
Video == tool \in {"video", "flv2ts"} /\ Type = VIDEO

IsFrame  == Audio /\ SoundFormat = 10 /\ PacketType # 0
IsNalu   == Video /\ CodecId = 7 /\ PacketType = 1
IsHeader == Video /\ CodecId = 7 /\ PacketType = 0

\* The NAL unit is cut up; flv-extract writes it as it is.
IsCut    == IsNalu /\ tool = "flv2ts"
IsCopied == IsFrame \/ (IsNalu /\ ~IsCut)

IsRefused ==
  \/ Audio /\ SoundFormat # 10
  \/ Video /\ CodecId # 7
  \/ Video /\ PacketType \notin {0, 1, 2}
  \/ IsHeader /\ ~ConfParses(Payload, PayloadSize)
  \/ IsCut /\ width # 0 /\ ~StorageParses(Payload, PayloadSize, width)

Stop(r) == result' = r /\ UNCHANGED <<tool, flv, file, page_end, turns, width, written>>

\* No such file; parse-flv goes on, to a stream without bytes.
OpenError ==
  /\ phase = "closed" /\ result = "running"
  /\ Stop("failed") /\ UNCHANGED <<phase, cur>>

OpenFile ==
  /\ phase = "closed" /\ result = "running"
  /\ phase' = "open"
  /\ UNCHANGED <<tool, flv, file, page_end, cur, turns, width, result, written>>

\* 70, 76, 86: "FLV".
HeaderFits == CanRead(0, 9) /\ Byte(0) = 70 /\ Byte(1) = 76 /\ Byte(2) = 86

HeaderError ==
  /\ phase = "open" /\ result = "running" /\ ~HeaderFits
  /\ Stop("failed") /\ UNCHANGED <<phase, cur>>

\* A data_offset behind the end is ignored.
ParseHeader ==
  /\ phase = "open" /\ result = "running" /\ HeaderFits
  /\ phase' = "body"
  /\ cur' = DataOffset
  /\ UNCHANGED <<tool, flv, file, page_end, turns, width, result, written>>

Turn   == phase = "body" /\ result = "running"
Parsed == Turn /\ CanRead(cur, 4) /\ ~AtEnd(H) /\ TagFits /\ ~Faults

ParseError ==
  /\ Turn
  /\ ~CanRead(cur, 4) \/ (~AtEnd(H) /\ ~TagFits)
  /\ Stop("failed") /\ UNCHANGED <<phase, cur>>

\* eos() behind the trailer, or behind a tag that ends the file.
Eos ==
  /\ \/ Turn /\ CanRead(cur, 4) /\ AtEnd(H) /\ cur' = H
     \/ Parsed /\ AtEnd(After) /\ cur' = After
  /\ Stop("done") /\ UNCHANGED phase

Refuse == Parsed /\ ~AtEnd(After) /\ IsRefused /\ Stop("failed") /\ UNCHANGED <<phase, cur>>

GoOn == /\ cur' = After /\ turns' = turns + 1
        /\ UNCHANGED <<tool, flv, file, page_end, phase, result>>

Skip ==
  /\ Parsed /\ ~AtEnd(After) /\ ~IsRefused /\ ~IsCopied /\ ~IsCut
  /\ width' = IF IsHeader THEN (Byte(Payload + 4) % 4) + 1 ELSE width
  /\ GoOn /\ UNCHANGED written

Copy ==
  /\ Parsed /\ ~AtEnd(After) /\ IsCopied /\ PayloadSize >= 0
  /\ written' = Append(written, [from |-> Payload, to |-> After])
  /\ GoOn /\ UNCHANGED width

\* to_storage_format: the units, each behind a start code.
Cut ==
  /\ Parsed /\ ~AtEnd(After) /\ IsCut /\ width # 0 /\ ~IsRefused
  /\ written' = written \o Units(Payload, PayloadSize, width)
  /\ GoOn /\ UNCHANGED width

\* The tag's header is not mapped; a negative number of bytes is written, or
\* appended to a string, which aborts flv2ts; or the record is used unparsed.
Undefined ==
  /\ \/ Turn /\ CanRead(cur, 4) /\ ~AtEnd(H) /\ TagFits /\ Faults
     \/ Parsed /\ ~AtEnd(After) /\ IsCopied /\ PayloadSize < 0
     \/ Parsed /\ ~AtEnd(After) /\ IsCut /\ width = 0
  /\ Stop("undefined") /\ UNCHANGED <<phase, cur>>

Next == \/ OpenError \/ OpenFile \/ HeaderError \/ ParseHeader \/ ParseError \/ Eos
        \/ Refuse \/ Skip \/ Copy \/ Cut \/ Undefined

Spec == Init /\ [][Next]_vars

----------------------------------------------------------------------------
\* The cursor stays within the file, and so does all that is written, in order.
TypeOK ==
  /\ phase \in {"closed", "open", "body"}
  /\ result \in {"running", "done", "failed", "undefined"}
  /\ cur \in 0..Len(file) /\ width \in 0..4
  /\ \A k \in 1..Len(written) :
       0 <= written[k].from /\ written[k].from <= written[k].to /\ written[k].to <= Len(file)
  /\ \A k \in 2..Len(written) : written[k-1].to <= written[k].from

\* Before every turn the cursor is where the tags with their stated sizes put
\* it, also behind a tag whose data_size is smaller than its own header, where
\* payload_size wraps and read() moves the cursor back.
LayoutFollowed ==
  phase = "body" /\ result = "running" =>
    /\ turns < Len(flv.starts)
    /\ cur = flv.starts[turns + 1]

\* The pieces of tag i that the program hands on: its units, or its payload.
Pieces(i) ==
  IF tool = "flv2ts" /\ flv.tags[i].kind = "nalu" THEN flv.tags[i].units
  ELSE {[from |-> flv.starts[i+1] - flv.tags[i].size, to |-> flv.starts[i+1]]}

\* The tag that the k-th piece written belongs to, 0 if there is none.
TagOf(k) ==
  LET tags == {i \in 1..Len(flv.tags) : written[k] \in Pieces(i)}
  IN  IF tags = {} THEN 0 ELSE CHOOSE i \in tags : TRUE

Tags == INSTANCE FlvExtract WITH
          TimeMod <- 2, Duration <- 0, SetSize <- <<>>,
          pos <- turns + 1, status <- result,
          copied <- [k \in 1..Len(written) |-> TagOf(k)]

\* On the bytes of a file the programs do what FlvExtract says of its tags:
\* every AAC frame or NAL unit is handed on once, whole and in order, cut by
\* the lengths of the last sequence header; a broken or cut file fails at the
\* tag it is broken in, and the end is found behind a last tag with or without
\* trailer, also if bytes are missing.
FollowsTags == Tags!Spec
=============================================================================
