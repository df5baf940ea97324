---------------------------- MODULE HlsPipeline ----------------------------
(***************************************************************************)
(* The three programs on one FLV file: flv2ts, whose files say what the    *)
(* segments are, build-hls-index, which may be killed and run again, and   *)
(* requests to getts at any time, also while the index is being built or   *)
(* built again.  flv2ts shares nothing with the others but its input, so   *)
(* it may as well run first.  Requests change no file, so one at a time is *)
(* as good as many.                                                        *)
(***************************************************************************)
EXTENDS FlvTags

CONSTANTS Files, PAT_PMT_INTERVAL, Sequences, PageEntries, MaxRestarts

ASSUME IntervalAssumption  == PAT_PMT_INTERVAL \in Nat \ {0}
ASSUME SequencesAssumption == Sequences \subseteq Nat
ASSUME PageAssumption      == PageEntries \in Nat \ {0}
ASSUME RestartsAssumption  == MaxRestarts \in Nat
ASSUME FilesAssumption     == Files \subseteq [tags: Seq(TagType), tail: Tails]

VARIABLES
  flv,
  f_pos, f_status, f_switched, f_next_timestamp, f_conf, f_sps_pps_write,
  f_next_prev_pat_pmt_output, f_counter, f_count, ts_seq, out,
  b_pos, b_pc, b_switched, b_next_timestamp, b_conf, b_sps_pps_write, b_counter,
  ts_index, flushed, m3u8, endlist, avc_conf, restarts,
  program, sequence, g_pc, mapped_conf, mapped_entries, g_conf, start_state, end_state,
  g_pos, g_counter, video_first, g_next_prev_pat_pmt_output, g_count, units,
  asked             \* history: where build-hls-index was when getts was started;
                    \* back at the start if it is run again meanwhile

F == INSTANCE Flv2ts WITH
       pos <- f_pos, status <- f_status, switched <- f_switched,
       next_timestamp <- f_next_timestamp, conf <- f_conf,
       sps_pps_write <- f_sps_pps_write,
       next_prev_pat_pmt_output <- f_next_prev_pat_pmt_output,
       counter <- f_counter, g_output_ts_count <- f_count

B == INSTANCE BuildHlsIndex WITH
       pos <- b_pos, pc <- b_pc, switched <- b_switched,
       next_timestamp <- b_next_timestamp, conf <- b_conf,
       sps_pps_write <- b_sps_pps_write, counter <- b_counter

G == INSTANCE GetTs WITH
       pc <- g_pc, conf <- g_conf, pos <- g_pos, counter <- g_counter,
       next_prev_pat_pmt_output <- g_next_prev_pat_pmt_output,
       g_output_ts_count <- g_count

f_vars == <<f_pos, f_status, f_switched, f_next_timestamp, f_conf,
            f_sps_pps_write, f_next_prev_pat_pmt_output, f_counter, f_count,
            ts_seq, out>>
b_vars == <<b_pos, b_pc, b_switched, b_next_timestamp, b_conf, b_sps_pps_write,
            b_counter, ts_index, flushed, m3u8, endlist, avc_conf, restarts>>
g_vars == <<program, sequence, g_pc, mapped_conf, mapped_entries, g_conf, start_state, end_state, g_pos,
            g_counter, video_first, g_next_prev_pat_pmt_output, g_count, units>>
vars   == <<flv, f_vars, b_vars, g_vars, asked>>

----------------------------------------------------------------------------
Init == F!Init /\ B!Init /\ G!Init /\ asked = "start"

\* flv2ts, on a file system that lets it write its files.
Segment ==
  /\ F!Next /\ ~F!OpenError
  /\ UNCHANGED <<b_vars, g_vars, asked>>

\* build-hls-index, but for the time from when getts has read the index until
\* it ends: all it reads then is the FLV file, which nobody writes.
Index(Step) ==
  /\ f_status # "running"
  /\ g_pc \in {"idle", "conf", "parse_conf", "map_index", "start_state", "end_state"}
  /\ Step
  /\ UNCHANGED <<f_vars, g_vars>>

BuildIndex == Index(B!Work) /\ UNCHANGED <<restarts, asked>>
StopIndex  ==
  Index(B!OpenError \/ B!ConfError \/ B!Kill) /\ UNCHANGED <<restarts, asked>>
RebuildIndex == Index(B!Restart) /\ asked' = "start"

Ask ==
  /\ f_status # "running"
  /\ \E which \in {"getts", "libgetts"}, n \in Sequences : G!Request(which, n)
  /\ asked' = b_pc
  /\ UNCHANGED <<f_vars, b_vars>>

Serve ==
  /\ G!Serve
  /\ UNCHANGED <<f_vars, b_vars, asked>>

Leave ==
  /\ G!Exit
  /\ asked' = "start"
  /\ UNCHANGED <<f_vars, b_vars>>

Next == Segment \/ BuildIndex \/ StopIndex \/ RebuildIndex
        \/ Ask \/ Serve \/ Leave

\* The programs run on; whether anybody asks or kills is not said.  Strong for
\* build-hls-index, which only the condition on g_pc stops now and then: the
\* operating system runs it whether somebody asks getts again and again or not.
Fairness == WF_vars(Segment) /\ SF_vars(BuildIndex) /\ WF_vars(Serve \/ Leave)

Spec == Init /\ [][Next]_vars /\ Fairness

----------------------------------------------------------------------------
\* Both programs keep their types, and the indexer finds no more segments than
\* flv2ts writes: one entry for each and one for the end, one line for each.
TypeOK ==
  /\ B!TypeOK /\ G!TypeOK
  /\ Len(ts_index) <= ts_seq + 1
  /\ m3u8 <= ts_seq

\* The sequence headers of the file.
SequenceHeaders ==
  {flv.tags[p].header : p \in {p \in 1..Len(flv.tags) : flv.tags[p].kind = "avc_config"}}

\* They announce one configuration only, or at least one length width only.
OneConfiguration == \A h, k \in SequenceHeaders : h = k
OneWidth         == \A h, k \in SequenceHeaders : h.width = k.width

\* The elements of s whose numbers are in I, in their order.
Chosen(s, I) ==
  LET chosen[i \in 0..Len(s)] ==
        IF i = 0 THEN <<>>
        ELSE IF i \in I THEN Append(chosen[i-1], s[i]) ELSE chosen[i-1]
  IN  chosen[Len(s)]

\* What flv2ts wrote to its file number n, when its output was o.
UnitsOf(o, n)  == Chosen([i \in 1..Len(o) |-> o[i].unit], {i \in 1..Len(o) : o[i].file = n})
SegmentFile(n) == UnitsOf(out, n)

Media(us)  == Chosen(us, {i \in 1..Len(us) : us[i].kind # "tables"})
TagsOf(us) == [i \in 1..Len(Media(us)) |-> Media(us)[i].tag]

\* A request that succeeds yields exactly the packets that flv2ts puts into
\* the file of that number, continuity counters, parameter sets and tables
\* included (the library: all but the repeated tables) - or, when the index
\* does not reach the segment yet, the tables and nothing else.
SameSegment ==
  g_pc = "done" /\ OneConfiguration /\ units # <<TablesUnit(0)>> =>
    /\ sequence < ts_seq
    /\ program = "getts" => units = SegmentFile(sequence)
    /\ program = "libgetts" => Media(units) = Media(SegmentFile(sequence))

\* Whatever the index looked like when it was read, half written or cut off by
\* a kill, and however often the configuration changes: what is sent so far is
\* a beginning of the right segment, never the tags of another one.  A tag makes
\* getts give up in the middle only if the length width changes in the file,
\* for then .avc_conf, which has the last one, may not fit earlier segments.
NeverForeign ==
  /\ LET sent == TagsOf(units) IN
     sent # <<>> =>
       /\ sequence < ts_seq
       /\ Len(sent) <= Len(TagsOf(SegmentFile(sequence)))
       /\ sent = SubSeq(TagsOf(SegmentFile(sequence)), 1, Len(sent))
  /\ OneWidth => ~(G!AtTag(Kinds) /\ G!Refused)

\* The file has a sequence header.
HasHeader == \E p \in 1..Len(flv.tags) : B!TagAt(flv, p) /\ flv.tags[p].kind = "avc_config"

\* Once build-hls-index has returned 0, a request for a segment that the
\* playlist names succeeds, with all of the segment, if the FLV file can be
\* mapped and has one length width.
PlaylistServable ==
  asked = "done" /\ g_pc \in {"done", "failed", "undefined"} /\ sequence < m3u8
    /\ HasHeader /\ OneWidth
      => g_pc = "done" /\ TagsOf(units) = TagsOf(SegmentFile(sequence))

\* A segment that the playlist names is in the index in the end, both its
\* start and its end, unless the indexer is killed or gives up: the window in
\* which a player is sent to a segment that getts refuses closes.
ListedGetsIndexed ==
  \A n \in Sequences :
    (n < m3u8) ~> \/ b_pc \in {"failed", "killed", "undefined"}
                  \/ n + 1 < flushed

\* A number that no segment has is refused (the range check of getts does not).
OutOfRangeRefused ==
  asked = "done" /\ g_pc = "done" => sequence < m3u8
=============================================================================
