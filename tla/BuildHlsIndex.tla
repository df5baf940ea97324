--------------------------- MODULE BuildHlsIndex ---------------------------
(***************************************************************************)
(* src/bin/build-hls-index.cc: the loop of flv2ts with its packets thrown  *)
(* away, which leaves three files for getts and the player:                *)
(*   .ts_idx   where each segment starts, with the continuity counters;    *)
(*             buffered by its stream, on disk at the latest when closed   *)
(*   .m3u8     the playlist, flushed line by line (std::endl)              *)
(*   .avc_conf the last sequence header, truncated and then rewritten      *)
(* A turn of the main loop is two steps, the segment cut and the tag, for  *)
(* other programs read the files in between, and the process may be killed *)
(* and, whatever it came to, be run again on what it left.                 *)
(***************************************************************************)
EXTENDS FlvTags

CONSTANT
  MaxRestarts       \* bound: how often the program is run again

VARIABLES
  flv,              \* the input file
  pos,              \* flv.position() at the top of the loop
  pc,               \* where the program is
  switched,
  next_timestamp,
  conf,
  sps_pps_write,
  counter,          \* tw_state
  ts_index,         \* the entries written to the stream of .ts_idx
  flushed,          \* how many of them are in the file
  m3u8,             \* the segments that the playlist names
  endlist,          \* the playlist is closed
  avc_conf,         \* the header that .avc_conf holds, if any
  restarts          \* how often the program has been run again

vars == <<flv, pos, pc, switched, next_timestamp, conf, sps_pps_write, counter,
          ts_index, flushed, m3u8, endlist, avc_conf, restarts>>
files == <<ts_index, flushed, m3u8, endlist, avc_conf>>
loop  == <<switched, next_timestamp, conf, sps_pps_write, counter>>

\* seq_state: a position in the FLV file and both counters.
Entry(p) == [pos |-> p, audio |-> counter["audio"] % 16,
             video |-> counter["video"] % 16]

tag == flv.tags[pos]
At(label, kinds) == pc = label /\ TagAt(flv, pos) /\ tag.kind \in kinds

\* Seeded error: the process leaves by _exit.
Return_unflushed(label) == pc' = label /\ flushed' = flushed

\* The stream is closed by the destructor, on return 0 and on return 1.
Return(label) == pc' = label /\ flushed' = Len(ts_index)

----------------------------------------------------------------------------
Forget ==
  /\ pos' = 1 /\ switched' = TRUE /\ next_timestamp' = 0 /\ conf' = NoConf
  /\ sps_pps_write' = FALSE /\ counter' = [s \in Streams |-> 0]

Init ==
  /\ pos = 1
  /\ pc = "start"
  /\ switched = TRUE
  /\ next_timestamp = 0
  /\ conf = NoConf
  /\ sps_pps_write = FALSE
  /\ counter = [s \in Streams |-> 0]
  /\ ts_index = <<>> /\ flushed = 0
  /\ m3u8 = 0 /\ endlist = FALSE
  /\ avc_conf = NoHeader
  /\ restarts = 0

\* Seeded error: the index is opened without being truncated.
Truncated_kept == flushed

\* What is left of .ts_idx when it is opened for writing.
Truncated == 0

\* The playlist is truncated and then the index; .avc_conf is left as it is.
OpenPlaylist ==
  /\ pc = "start"
  /\ m3u8' = 0 /\ endlist' = FALSE
  /\ pc' = "ts_idx"
  /\ UNCHANGED <<flv, pos, loop, ts_index, flushed, avc_conf>>

OpenIndex ==
  /\ pc = "ts_idx"
  /\ flushed' = Truncated /\ ts_index' = SubSeq(ts_index, 1, Truncated)
  /\ pc' = "parse"
  /\ UNCHANGED <<flv, pos, loop, m3u8, endlist, avc_conf>>

\* The playlist or the index cannot be opened, or the FLV file or its header
\* cannot be read.
OpenError ==
  /\ pc = "start" \/ pc = "ts_idx" \/ (pc = "parse" /\ m3u8 = 0)
  /\ Return("failed")
  /\ UNCHANGED <<flv, pos, loop, ts_index, m3u8, endlist, avc_conf>>

ParseError ==
  /\ pc = "parse" /\ ParseFails(flv, pos)
  /\ Return("failed")
  /\ UNCHANGED <<flv, pos, loop, ts_index, m3u8, endlist, avc_conf>>

\* Seeded error: no entry at the end of the file.
Eos_noentry ==
  /\ pc = "parse" /\ EosAfter(flv, pos)
  /\ pc' = "endlist"
  /\ UNCHANGED <<flv, pos, loop, files>>

\* The end of the file: a last entry says where the last segment ends.  Of
\* what the stream holds any number of entries may go to the file.
Eos ==
  /\ pc = "parse" /\ EosAfter(flv, pos)
  /\ ts_index' = Append(ts_index, Entry(pos))
  /\ flushed' \in flushed..Len(ts_index')
  /\ pc' = "endlist"
  /\ UNCHANGED <<flv, pos, loop, m3u8, endlist, avc_conf>>

EndList ==
  /\ pc = "endlist"
  /\ endlist' = TRUE
  /\ pc' = "close"
  /\ UNCHANGED <<flv, pos, loop, ts_index, flushed, m3u8, avc_conf>>

Close ==
  /\ pc = "close"
  /\ Return("done")
  /\ UNCHANGED <<flv, pos, loop, ts_index, m3u8, endlist, avc_conf>>

\* Lines 88-111: a tag that opens a segment gets an entry and a line.
Opens == switched \/ Due(tag, next_timestamp)

\* Seeded error: the entry takes the position behind the tag.
CutPosition_behind == pos + 1
CutPosition == pos

Cut ==
  /\ At("parse", Kinds) /\ Opens
  /\ ts_index' = Append(ts_index, Entry(CutPosition))
  /\ flushed' \in flushed..Len(ts_index')
  /\ m3u8' = m3u8 + 1
  /\ sps_pps_write' = FALSE
  /\ switched' = FALSE
  /\ next_timestamp' = NextTimestamp(tag.timestamp)
  /\ pc' = "tag"
  /\ UNCHANGED <<flv, pos, conf, counter, endlist, avc_conf>>

NoCut ==
  /\ At("parse", Kinds) /\ ~Opens
  /\ pc' = "tag"
  /\ UNCHANGED <<flv, pos, loop, files>>

Skip ==
  /\ At("tag", SkippedKinds)
  /\ pos' = pos + 1
  /\ pc' = "parse"
  /\ UNCHANGED <<flv, loop, files>>

\* A tag the program gives up on, a NALU that its width does not cut among them.
Unsupported ==
  /\ At("tag", UnsupportedKinds \cup {"nalu"})
  /\ tag.kind = "nalu" => conf.width # 0 /\ ~Fits(tag, conf.width)
  /\ pos' = pos + 1
  /\ sps_pps_write' = (sps_pps_write \/ tag.kind = "nalu")
  /\ Return("failed")
  /\ UNCHANGED <<flv, switched, next_timestamp, conf, counter, ts_index, m3u8,
                 endlist, avc_conf>>

Audio ==
  /\ At("tag", {"aac"})
  /\ counter' = [counter EXCEPT !["audio"] = @ + AudioPackets(tag)]
  /\ pos' = pos + 1
  /\ pc' = "parse"
  /\ UNCHANGED <<flv, switched, next_timestamp, conf, sps_pps_write, files>>

\* A sequence header: .avc_conf is truncated when it is opened.
SequenceHeader ==
  /\ At("tag", {"avc_config"})
  /\ conf' = ParseConf(conf, tag.header)
  /\ avc_conf' = NoHeader
  /\ pc' = "conf"
  /\ UNCHANGED <<flv, pos, switched, next_timestamp, sps_pps_write, counter,
                 ts_index, flushed, m3u8, endlist>>

\* .avc_conf cannot be opened.
ConfError ==
  /\ At("tag", {"avc_config"})
  /\ conf' = ParseConf(conf, tag.header)
  /\ pos' = pos + 1
  /\ Return("failed")
  /\ UNCHANGED <<flv, switched, next_timestamp, sps_pps_write, counter,
                 ts_index, m3u8, endlist, avc_conf>>

\* The header is in the file when conf_out leaves its block.
WriteConf ==
  /\ pc = "conf"
  /\ avc_conf' = tag.header
  /\ pos' = pos + 1
  /\ pc' = "parse"
  /\ UNCHANGED <<flv, loop, ts_index, flushed, m3u8, endlist>>

\* Seeded error: the parameter sets are not counted in the dry run.
IndexedSets_none == <<>>
IndexedSets == IF sps_pps_write THEN <<>> ELSE ParameterSets(conf)

Video ==
  /\ At("tag", {"nalu"}) /\ Fits(tag, conf.width)
  /\ counter' = [counter EXCEPT !["video"] = @ + VideoPackets(tag, IndexedSets, conf.width)]
  /\ sps_pps_write' = TRUE
  /\ pos' = pos + 1
  /\ pc' = "parse"
  /\ UNCHANGED <<flv, switched, next_timestamp, conf, files>>

\* A NALU before any sequence header uses uninitialized numbers.
VideoWithoutConf ==
  /\ At("tag", {"nalu"}) /\ conf.width = 0
  /\ pc' = "undefined"
  /\ UNCHANGED <<flv, pos, loop, files>>

Work == \/ OpenPlaylist \/ OpenIndex \/ ParseError \/ Eos \/ EndList \/ Close \/ Cut \/ NoCut \/ Skip
        \/ Unsupported \/ Audio \/ SequenceHeader \/ WriteConf \/ Video
        \/ VideoWithoutConf

Ended == {"done", "failed", "killed", "undefined"}

\* The process is killed: its memory is gone, and what its stream had not
\* written is lost.
Kill ==
  /\ pc \notin Ended
  /\ pc' = "killed"
  /\ ts_index' = SubSeq(ts_index, 1, flushed)
  /\ Forget
  /\ UNCHANGED <<flv, flushed, m3u8, endlist, avc_conf>>

\* The program is run again: a new process, the files as they were left.
Restart ==
  /\ pc \in Ended \ {"undefined"} /\ restarts < MaxRestarts
  /\ restarts' = restarts + 1
  /\ pc' = "start"
  /\ Forget
  /\ UNCHANGED <<flv, files>>

Next == ((Work \/ OpenError \/ ConfError \/ Kill) /\ UNCHANGED restarts) \/ Restart

\* The variables of main() stay in their ranges, index entries hold 4-bit
\* counters and positions in the file, and no more is on disk than was written.
TypeOK ==
  /\ pos \in 1..Len(flv.tags)+1
  /\ restarts \in 0..MaxRestarts
  /\ pc \in {"start", "ts_idx", "parse", "tag", "conf", "endlist", "close"} \cup Ended
  /\ switched \in BOOLEAN /\ sps_pps_write \in BOOLEAN /\ endlist \in BOOLEAN
  /\ next_timestamp \in 0..TimeMod-1
  /\ counter \in [Streams -> Nat]
  /\ ts_index \in Seq([pos: 1..Len(flv.tags)+1, audio: 0..15, video: 0..15])
  /\ flushed \in 0..Len(ts_index)
  /\ m3u8 \in Nat
  /\ avc_conf \in Header \cup {NoHeader}
=============================================================================
