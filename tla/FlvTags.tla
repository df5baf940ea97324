------------------------------ MODULE FlvTags ------------------------------
(***************************************************************************)
(* What flv2ts, build-hls-index and getts share: the tags of an FLV file   *)
(* as flv::Parser hands them out, when a tag opens a segment, the AVC      *)
(* configuration, and the payload that a tag makes for ts_write.           *)
(*                                                                         *)
(* A file is [tags, tail]: the tags in order, and how the file goes on     *)
(* after the last of them.  Position p stands for the byte where tag p     *)
(* starts (with the PreviousTagSize in front of it), so Len(tags) + 1 for  *)
(* the end of the last tag; position 0 is the first byte of the file.      *)
(***************************************************************************)
EXTENDS TsPacket, Sequences

CONSTANTS
  TimeMod,      \* the modulus of a uint32_t, 2^32 in the code
  Duration,     \* duration * 1000: the length of a segment in milliseconds
  SetSize       \* SetSize[id]: bytes of a parameter set with its start code

ASSUME TimeModAssumption  == TimeMod \in Nat /\ TimeMod > 0 /\ TimeMod % 2 = 0
ASSUME DurationAssumption == Duration \in 0..TimeMod-1
ASSUME SetSizeAssumption  == \A id \in DOMAIN SetSize : SetSize[id] \in Nat

\* Tags that make a payload, that are skipped, that set the configuration and
\* that make the programs give up (format, codec, packet type, bad header).
MediaKinds       == {"aac", "nalu"}
SkippedKinds     == {"script", "aac_config", "avc_end"}
UnsupportedKinds == {"other_audio", "other_video", "avc_unknown", "bad_config"}
Kinds == MediaKinds \cup SkippedKinds \cup {"avc_config"} \cup UnsupportedKinds

\* "trailer": a last PreviousTagSize; "none": the file ends with the last tag;
\* "cut": it ends inside a further tag, or with one that cannot be parsed.
Tails == {"trailer", "none", "cut"}

\* A sequence header: its parameter sets, SPS and PPS, and the bytes on which
\* the length of a NAL unit is written in the NALUs it is for.
Sets   == Seq(DOMAIN SetSize)
Header == [sps: Sets, pps: Sets, width: 1..4]

\* What stands for one where there is none.
NoHeader == [sps |-> <<>>, pps |-> <<>>, width |-> 0]

\* What the programs look at in a tag: the timestamp is an int32_t, size the
\* bytes of an AAC frame, header a sequence header.  The bytes of a NALU can be
\* cut into NAL units by some widths and not by others: storage[w] are the
\* bytes of the units, each with its start code, or -1 if w does not cut them.
TagType ==
  {t \in [kind: Kinds, timestamp: Int, size: Nat, header: Header \cup {NoHeader},
          storage: [1..4 -> Int]] :
     t.kind = "avc_config" => t.header \in Header}

\* parseTag at position p: it fails on what is cut off; after it, eos() holds
\* past the trailer, and also right after a last tag that no trailer follows.
ParseFails(flv, p) ==
  p = Len(flv.tags) + 1 /\ (flv.tail = "cut" \/ flv.tail = "none")
EosAfter(flv, p) ==
  \/ p = Len(flv.tags) + 1 /\ flv.tail = "trailer"
  \/ p = Len(flv.tags) /\ flv.tail = "none"
TagAt(flv, p) == p \in 1..Len(flv.tags) /\ ~EosAfter(flv, p)

\* static_cast<uint64_t> of an int32_t, and tag.timestamp + duration * 1000,
\* which is computed on 32 bits.
Wide(timestamp)          == IF timestamp < 0 THEN TimeMod * TimeMod + timestamp
                                             ELSE timestamp
NextTimestamp(timestamp) == (timestamp + Duration) % TimeMod

\* Seeded error: < for <=.
Due_strict(tag, next_timestamp) ==
  tag.kind = "nalu" /\ next_timestamp < Wide(tag.timestamp)

\* A tag that starts a new segment although one is open: an AVC NALU at or
\* after next_timestamp, a key frame or not.
Due(tag, next_timestamp) ==
  tag.kind = "nalu" /\ next_timestamp <= Wide(tag.timestamp)

----------------------------------------------------------------------------
\* The AVCDecoderConfigurationRecord: two lists of parameter sets, how many of
\* each the last header announced, and its width, 0 when none was parsed.

NoSets == [list |-> <<>>, num |-> 0]
NoConf == [sps |-> NoSets, pps |-> NoSets, width |-> 0]

\* parse: the sets of the header are pushed onto the lists.
PushSets(l, sets)       == [list |-> l.list \o sets, num |-> Len(sets)]
ParseConf(conf, header) ==
  [sps |-> PushSets(conf.sps, header.sps), pps |-> PushSets(conf.pps, header.pps),
   width |-> header.width]

\* to_storage_format_sps_pps: the first num entries of each list.
Announced(l)        == SubSeq(l.list, 1, l.num)
ParameterSets(conf) == Announced(conf.sps) \o Announced(conf.pps)

\* to_storage_format: a NALU that the width does not cut is refused.
Fits(tag, width)        == width \in 1..4 /\ tag.storage[width] \in Nat
StorageSize(tag, width) == IF Fits(tag, width) THEN tag.storage[width] ELSE 0

\* Their bytes, each set with its start code.
SetsSize(sets) ==
  LET size[n \in 0..Len(sets)] == IF n = 0 THEN 0 ELSE size[n-1] + SetSize[sets[n]]
  IN  size[Len(sets)]

\* What one tag makes: an ADTS header and the AAC frame, or the parameter sets
\* that go in front and the NAL units; cut into packets as TsWrite has it.
AudioPackets(tag) == NumPackets(7 + tag.size)
VideoPackets(tag, sets, width) == NumPackets(SetsSize(sets) + StorageSize(tag, width))

(***************************************************************************)
(* What the programs write, one record per call of the writers: the tables *)
(* of write_ts_start in front of the tag at p, or the packets of that tag, *)
(* their first continuity counter and the parameter sets before its data.  *)
(***************************************************************************)
TablesUnit(p) == [kind |-> "tables", tag |-> p, cc |-> 0, packets |-> 2, sets |-> <<>>]

\* Seeded error: the counter of the other stream.
AudioUnit_video(p, tag, counter) ==
  [kind |-> "audio", tag |-> p, cc |-> counter["video"] % 16,
   packets |-> AudioPackets(tag), sets |-> <<>>]
AudioUnit(p, tag, counter) ==
  [kind |-> "audio", tag |-> p, cc |-> counter["audio"] % 16,
   packets |-> AudioPackets(tag), sets |-> <<>>]
VideoUnit(p, tag, counter, sets, width) ==
  [kind |-> "video", tag |-> p, cc |-> counter["video"] % 16,
   packets |-> VideoPackets(tag, sets, width), sets |-> sets]
=============================================================================
