------------------------------- MODULE GetTs -------------------------------
(***************************************************************************)
(* src/bin/getts.cc and src/lib/getts.cc: one segment is made on demand    *)
(* from the FLV file and what build-hls-index left.  The files are read at *)
(* different times and without any lock; the two programs differ in the    *)
(* tables, which the library writes only once.                             *)
(***************************************************************************)
EXTENDS FlvTags

CONSTANTS
  Sequences,          \* the segment numbers that are asked for
  PAT_PMT_INTERVAL,   \* 50 in the code
  PageEntries         \* entries of .ts_idx in a page of memory: 512

VARIABLES
  flv, ts_index, flushed, avc_conf,     \* the files; never changed here
  mapped_conf,                \* the header that .avc_conf held when it was mapped
  mapped_entries,             \* how many entries .ts_idx held when it was mapped
  program,                    \* "getts" or "libgetts"
  sequence,                   \* the segment asked for
  pc,                         \* where the program is
  conf,
  start_state, end_state,
  pos,                        \* flv.position()
  counter,                    \* tw_state
  video_first,
  next_prev_pat_pmt_output,
  g_output_ts_count,
  units                       \* what is written to ts_out

inputs == <<flv, ts_index, flushed, avc_conf>>
request == <<program, sequence>>
stream == <<pos, counter, video_first, next_prev_pat_pmt_output,
            g_output_ts_count, units>>
maps == <<mapped_conf, mapped_entries>>
vars == <<inputs, maps, request, pc, conf, start_state, end_state, stream>>

NoEntry == [pos |-> 0, audio |-> 0, video |-> 0]

tag == flv.tags[pos]

----------------------------------------------------------------------------
Init ==
  /\ program = "getts"
  /\ sequence = 0
  /\ pc = "idle"
  /\ mapped_conf = NoHeader /\ mapped_entries = 0
  /\ conf = NoConf
  /\ start_state = NoEntry /\ end_state = NoEntry
  /\ pos = 0
  /\ counter = [s \in Streams |-> 0]
  /\ video_first = TRUE
  /\ next_prev_pat_pmt_output = 0
  /\ g_output_ts_count = 0
  /\ units = <<>>

\* The program is started for segment n.
Request(which, n) ==
  /\ pc = "idle"
  /\ program' = which
  /\ sequence' = n
  /\ pc' = "conf"
  /\ UNCHANGED <<inputs, maps, conf, start_state, end_state, stream>>

\* .avc_conf is mapped; a file that is missing or empty cannot be mapped.
MapConf ==
  /\ pc = "conf"
  /\ mapped_conf' = avc_conf
  /\ pc' = IF avc_conf = NoHeader THEN "failed" ELSE "parse_conf"
  /\ UNCHANGED <<inputs, mapped_entries, request, conf, start_state, end_state, stream>>

\* The mapped file is parsed.  When it has been truncated or replaced since,
\* the mapping may end in nothing or show parts of both headers.
ReadConf ==
  /\ pc = "parse_conf"
  /\ IF avc_conf = mapped_conf
       THEN pc' = "map_index" /\ conf' = ParseConf(conf, avc_conf)
       ELSE pc' = "undefined" /\ UNCHANGED conf
  /\ UNCHANGED <<inputs, maps, request, start_state, end_state, stream>>

\* The range check counts 4-byte words, not 8-byte entries.
InRange(n, entries) == n <= 2 * entries

\* .ts_idx is mapped, its size recorded, and the number checked against it.
MapIndex ==
  /\ pc = "map_index"
  /\ mapped_entries' = flushed
  /\ pc' = IF flushed = 0 \/ ~InRange(sequence, flushed) THEN "failed" ELSE "start_state"
  /\ UNCHANGED <<inputs, mapped_conf, request, conf, start_state, end_state, stream>>

\* Entry n (from 0) lies in a page that is mapped, and that the file, which
\* may have become shorter, still reaches.
Pages(entries) == (entries + PageEntries - 1) \div PageEntries
Readable(n) ==
  n < Pages(mapped_entries) * PageEntries /\ n < Pages(flushed) * PageEntries

\* Behind the last entry of the file the rest of its page is zero.
EntryAt(n) == IF n < flushed THEN ts_index[n+1] ELSE NoEntry

ReadStart ==
  /\ pc = "start_state"
  /\ IF Readable(sequence)
       THEN pc' = "end_state" /\ start_state' = EntryAt(sequence)
       ELSE pc' = "undefined" /\ UNCHANGED start_state
  /\ UNCHANGED <<inputs, maps, request, conf, end_state, stream>>

ReadEnd ==
  /\ pc = "end_state"
  /\ IF Readable(sequence + 1)
       THEN pc' = "open" /\ end_state' = EntryAt(sequence + 1)
       ELSE pc' = "undefined" /\ UNCHANGED end_state
  /\ UNCHANGED <<inputs, maps, request, conf, start_state, stream>>

Restored == [s \in Streams |-> IF s = "video" THEN start_state.video
                                              ELSE start_state.audio]

\* The FLV file cannot be mapped.
OpenError ==
  /\ pc = "open"
  /\ pc' = "unopened"
  /\ UNCHANGED <<inputs, maps, request, conf, start_state, end_state, stream>>

\* The parser is set on the slice start..end, which is refused when it ends
\* before it starts; the counters are restored and the first tables written.
Open ==
  /\ pc = "open"
  /\ IF start_state.pos <= end_state.pos
       THEN /\ pc' = "tags"
            /\ pos' = start_state.pos
            /\ counter' = Restored
            /\ units' = Append(units, TablesUnit(start_state.pos))
            /\ g_output_ts_count' = g_output_ts_count + 2
            /\ next_prev_pat_pmt_output' = g_output_ts_count + 2 + PAT_PMT_INTERVAL
       ELSE pc' = "failed"
            /\ UNCHANGED <<pos, counter, units, g_output_ts_count,
                           next_prev_pat_pmt_output>>
  /\ UNCHANGED <<inputs, maps, request, conf, start_state, end_state, video_first>>

----------------------------------------------------------------------------
\* The loop.  A slice that begins at a tag ends at one.

AtTag(kinds) ==
  /\ pc = "tags" /\ pos < end_state.pos
  /\ pos \in DOMAIN flv.tags /\ tag.kind \in kinds

\* The tables again, which only getts writes, before the tag is looked at.
TablesDue == program = "getts" /\ next_prev_pat_pmt_output <= g_output_ts_count
Count     == IF TablesDue THEN g_output_ts_count + 2 ELSE g_output_ts_count
Units     == IF TablesDue THEN Append(units, TablesUnit(pos)) ELSE units

Turn ==
  /\ pos' = pos + 1
  /\ next_prev_pat_pmt_output' =
       IF TablesDue THEN Count + PAT_PMT_INTERVAL ELSE next_prev_pat_pmt_output
  /\ UNCHANGED <<inputs, maps, request, conf, start_state, end_state>>

Finish ==
  /\ pc = "tags" /\ pos >= end_state.pos
  /\ pc' = "done"
  /\ UNCHANGED <<inputs, maps, request, conf, start_state, end_state, stream>>

\* A slice from byte 0, whose start was read as zero and whose end was not:
\* where a tag should be there is the header of the file, of no known tag type.
ParseError ==
  /\ pc = "tags" /\ pos = 0 /\ pos < end_state.pos
  /\ pc' = "failed"
  /\ UNCHANGED <<inputs, maps, request, conf, start_state, end_state, stream>>

\* A sequence header is skipped too: the configuration is that of .avc_conf.
Skip ==
  /\ AtTag(SkippedKinds \cup {"avc_config"})
  /\ Turn
  /\ g_output_ts_count' = Count
  /\ units' = Units
  /\ UNCHANGED <<pc, counter, video_first>>

Audio ==
  /\ AtTag({"aac"})
  /\ Turn
  /\ units' = Append(Units, AudioUnit(pos, tag, counter))
  /\ counter' = [counter EXCEPT !["audio"] = @ + AudioPackets(tag)]
  /\ g_output_ts_count' = Count + AudioPackets(tag)
  /\ UNCHANGED <<pc, video_first>>

\* A NALU is cut into its units by the width in .avc_conf.
Video ==
  /\ AtTag({"nalu"}) /\ Fits(tag, conf.width)
  /\ Turn
  /\ LET sets    == IF video_first THEN ParameterSets(conf) ELSE <<>>
         packets == VideoPackets(tag, sets, conf.width)
     IN  /\ units' = Append(Units, VideoUnit(pos, tag, counter, sets, conf.width))
         /\ counter' = [counter EXCEPT !["video"] = @ + packets]
         /\ g_output_ts_count' = Count + packets
  /\ video_first' = FALSE
  /\ UNCHANGED pc

\* A tag the loop gives up on, a NALU that the width does not cut among them.
Refused == tag.kind \in UnsupportedKinds \/ (tag.kind = "nalu" /\ ~Fits(tag, conf.width))

GiveUp ==
  /\ AtTag(Kinds) /\ Refused
  /\ Turn
  /\ g_output_ts_count' = Count
  /\ units' = Units
  /\ video_first' = (video_first /\ tag.kind # "nalu")
  /\ pc' = "failed"
  /\ UNCHANGED counter

\* The process ends and leaves nothing behind; the next request is a new one.
Exit ==
  /\ pc \in {"done", "failed", "unopened", "undefined"}
  /\ program' = "getts" /\ sequence' = 0 /\ pc' = "idle" /\ conf' = NoConf
  /\ mapped_conf' = NoHeader /\ mapped_entries' = 0
  /\ start_state' = NoEntry /\ end_state' = NoEntry /\ pos' = 0
  /\ counter' = [s \in Streams |-> 0] /\ video_first' = TRUE
  /\ next_prev_pat_pmt_output' = 0 /\ g_output_ts_count' = 0 /\ units' = <<>>
  /\ UNCHANGED inputs

Serve == \/ MapConf \/ ReadConf \/ MapIndex \/ ReadStart \/ ReadEnd \/ OpenError \/ Open
         \/ Finish \/ ParseError \/ Skip \/ Audio \/ Video \/ GiveUp

Next == Serve \/ Exit \/ \E which \in {"getts", "libgetts"}, n \in Sequences : Request(which, n)

\* The variables of main() stay in their ranges, the parser in the FLV file,
\* and whatever is written begins with the tables.
TypeOK ==
  /\ program \in {"getts", "libgetts"}
  /\ sequence \in Sequences \cup {0}
  /\ pc \in {"idle", "conf", "parse_conf", "map_index", "start_state",
             "end_state", "open", "unopened", "tags", "done", "failed", "undefined"}
  /\ pos \in 0..Len(flv.tags)+1
  /\ counter \in [Streams -> Nat]
  /\ video_first \in BOOLEAN
  /\ units # <<>> => units[1] = TablesUnit(start_state.pos)
=============================================================================
