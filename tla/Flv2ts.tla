------------------------------- MODULE Flv2ts -------------------------------
(***************************************************************************)
(* src/bin/flv2ts.cc: an FLV file is cut into transport-stream files of    *)
(* about Duration milliseconds.  One action is one turn of the main loop   *)
(* of lines 61-180; a call of the ts_write functions is one unit appended  *)
(* to the current file (TsWrite has the packets).                          *)
(***************************************************************************)
EXTENDS FlvTags

CONSTANTS
  Files,              \* the FLV files the program may be given
  PAT_PMT_INTERVAL    \* 50 in the code: packets between two PAT/PMT pairs

ASSUME IntervalAssumption == PAT_PMT_INTERVAL \in Nat \ {0}
ASSUME FilesAssumption ==
  \A file \in Files : file.tags \in Seq(TagType) /\ file.tail \in Tails

VARIABLES
  flv,                        \* the input file
  pos,                        \* flv.position(): the tag to be parsed next
  status,                     \* "running", "done" (0), "failed" (1), "undefined"
  switched,
  next_timestamp,
  conf,
  sps_pps_write,
  next_prev_pat_pmt_output,
  counter,                    \* tw_state
  g_output_ts_count,
  ts_seq,                     \* the number of the next output file
  out                         \* what is written: [file, at, unit], where at is
                              \* g_output_ts_count when the unit was written

vars == <<flv, pos, status, switched, next_timestamp, conf, sps_pps_write,
          next_prev_pat_pmt_output, counter, g_output_ts_count, ts_seq, out>>

loop == <<switched, next_timestamp, conf, sps_pps_write,
          next_prev_pat_pmt_output, counter, g_output_ts_count, ts_seq, out>>

\* The tag of this turn.
tag == flv.tags[pos]
Running(kinds) == status = "running" /\ TagAt(flv, pos) /\ tag.kind \in kinds

----------------------------------------------------------------------------
\* Lines 73-106, which every tag goes through before it is looked at: a new
\* file if one is due, and the tables if they are.

\* Seeded errors: the tables of a new file are not forced; the parameter sets
\* are not repeated in a new file; the tables count as one packet; a new file
\* gets the name of the one before, which is truncated.
ForcedTables_never == next_prev_pat_pmt_output
SetsWritten_kept   == sps_pps_write
Count_one          == g_output_ts_count + 1
Kept_truncated     ==
  LET older(w) == w.file < ts_seq - 1
  IN  IF switched \/ Due(tag, next_timestamp) THEN SelectSeq(out, older) ELSE out

Opens        == switched \/ Due(tag, next_timestamp)
NextSeq      == IF Opens THEN ts_seq + 1 ELSE ts_seq
ForcedTables == IF Opens THEN 0 ELSE next_prev_pat_pmt_output
SetsWritten  == IF Opens THEN FALSE ELSE sps_pps_write
TablesDue    == ForcedTables <= g_output_ts_count
Count        == IF TablesDue THEN g_output_ts_count + 2 ELSE g_output_ts_count

\* A new file has a name of its own: what was written before is kept.
Kept == out

\* Unit u, written to the file with the number before NextSeq.
Written(u, n) == [file |-> NextSeq - 1, at |-> n, unit |-> u]

Opened ==
  IF TablesDue THEN Append(Kept, Written(TablesUnit(pos), g_output_ts_count)) ELSE Kept

Prologue ==
  /\ switched' = FALSE
  /\ next_timestamp' = IF Opens THEN NextTimestamp(tag.timestamp) ELSE next_timestamp
  /\ next_prev_pat_pmt_output' =
       IF TablesDue THEN Count + PAT_PMT_INTERVAL ELSE ForcedTables
  /\ ts_seq' = NextSeq
  /\ UNCHANGED flv

\* A tag that leaves no packets behind.
NoPayload == out' = Opened /\ g_output_ts_count' = Count /\ UNCHANGED counter

\* The payload of the tag, n packets on stream s.
Payload(s, u, n) ==
  /\ out' = Append(Opened, Written(u, Count))
  /\ counter' = [counter EXCEPT ![s] = @ + n]
  /\ g_output_ts_count' = Count + n

----------------------------------------------------------------------------
Init ==
  /\ flv \in Files
  /\ pos = 1
  /\ status = "running"
  /\ switched = TRUE
  /\ next_timestamp = 0
  /\ conf = NoConf
  /\ sps_pps_write = FALSE
  /\ next_prev_pat_pmt_output = 0
  /\ counter = [s \in Streams |-> 0]
  /\ g_output_ts_count = 0
  /\ ts_seq = 0
  /\ out = <<>>

\* parseTag fails.
ParseError ==
  /\ status = "running" /\ ParseFails(flv, pos)
  /\ status' = "failed"
  /\ UNCHANGED <<flv, pos, loop>>

\* The end of the file: the tag that was parsed last, if any, is not looked at.
Eos ==
  /\ status = "running" /\ EosAfter(flv, pos)
  /\ status' = "done"
  /\ pos' = Len(flv.tags) + 1
  /\ UNCHANGED <<flv, loop>>

\* The output file cannot be opened.
OpenError ==
  /\ Running(Kinds) /\ Opens
  /\ status' = "failed"
  /\ UNCHANGED <<flv, pos, loop>>

\* Script data, an AudioSpecificConfig, an AVC end of sequence.
Skip ==
  /\ Running(SkippedKinds)
  /\ Prologue /\ NoPayload
  /\ pos' = pos + 1
  /\ sps_pps_write' = SetsWritten
  /\ UNCHANGED <<status, conf>>

\* A tag the program gives up on, after lines 73-106, a NALU that its width
\* does not cut among them: the parameter sets have been put into the payload
\* that is given up.
Unsupported ==
  /\ Running(UnsupportedKinds \cup {"nalu"})
  /\ tag.kind = "nalu" => conf.width # 0 /\ ~Fits(tag, conf.width)
  /\ Prologue /\ NoPayload
  /\ pos' = pos + 1
  /\ status' = "failed"
  /\ sps_pps_write' = (SetsWritten \/ tag.kind = "nalu")
  /\ UNCHANGED conf

Audio ==
  /\ Running({"aac"})
  /\ Prologue
  /\ Payload("audio", AudioUnit(pos, tag, counter), AudioPackets(tag))
  /\ pos' = pos + 1
  /\ sps_pps_write' = SetsWritten
  /\ UNCHANGED <<status, conf>>

SequenceHeader ==
  /\ Running({"avc_config"})
  /\ Prologue /\ NoPayload
  /\ pos' = pos + 1
  /\ conf' = ParseConf(conf, tag.header)
  /\ sps_pps_write' = SetsWritten
  /\ UNCHANGED status

\* The parameter sets that go in front of this NALU.
SetsNow == IF SetsWritten THEN <<>> ELSE ParameterSets(conf)

Video ==
  /\ Running({"nalu"}) /\ Fits(tag, conf.width)
  /\ Prologue
  /\ Payload("video", VideoUnit(pos, tag, counter, SetsNow, conf.width),
             VideoPackets(tag, SetsNow, conf.width))
  /\ pos' = pos + 1
  /\ sps_pps_write' = TRUE
  /\ UNCHANGED <<status, conf>>

\* A NALU before any sequence header: the number of parameter sets and the
\* width of the lengths are uninitialized.  Nothing is said of what follows.
VideoWithoutConf ==
  /\ Running({"nalu"}) /\ conf.width = 0
  /\ Prologue /\ NoPayload
  /\ status' = "undefined"
  /\ UNCHANGED <<pos, conf, sps_pps_write>>

Next == \/ ParseError \/ Eos \/ OpenError \/ Skip \/ Unsupported \/ Audio
        \/ SequenceHeader \/ Video \/ VideoWithoutConf

Spec == Init /\ [][Next]_vars

----------------------------------------------------------------------------
IsTables(i)  == out[i].unit.kind = "tables"
IsMedia(i)   == out[i].unit.kind # "tables"
SameFile(i, j) == out[i].file = out[j].file

\* Unit i is the first one of its file.
Begins(i) == \A j \in 1..i-1 : ~SameFile(j, i)

\* The variables of main() stay in their ranges and the configuration's counts
\* within their lists.  The files are written one after the other, and
\* g_output_ts_count has counted every packet of every file.
TypeOK ==
  /\ pos \in 1..Len(flv.tags)+1
  /\ status \in {"running", "done", "failed", "undefined"}
  /\ switched \in BOOLEAN /\ sps_pps_write \in BOOLEAN
  /\ next_timestamp \in 0..TimeMod-1
  /\ conf.sps.num \in 0..Len(conf.sps.list) /\ conf.pps.num \in 0..Len(conf.pps.list)
  /\ next_prev_pat_pmt_output \in Nat /\ g_output_ts_count \in Nat
  /\ counter \in [Streams -> Nat]
  /\ \A i \in 1..Len(out) :
       /\ out[i].file \in 0..ts_seq-1
       /\ out[i].at + out[i].unit.packets =
            IF i = Len(out) THEN g_output_ts_count ELSE out[i+1].at
       /\ i < Len(out) => out[i].file <= out[i+1].file

\* Every file begins with the tables, and less than PAT_PMT_INTERVAL packets
\* lie between the tables and the start of any payload after them: a player
\* may join at any file and, within one, waits for a bounded time.
PsiCadence ==
  /\ \A k \in 0..ts_seq-1 : \E i \in 1..Len(out) : out[i].file = k
  /\ \A i \in 1..Len(out) :
       /\ Begins(i) => IsTables(i)
       /\ IsMedia(i) =>
            \E j \in 1..i-1 :
              /\ IsTables(j) /\ SameFile(i, j)
              /\ out[i].at - (out[j].at + 2) < PAT_PMT_INTERVAL

\* The parameter sets of a sequence header, and as they go in front of a NALU.
SetsOf(header) == [sps |-> header.sps, pps |-> header.pps]
InFront(sets)  == sets.sps \o sets.pps

\* The parameter sets of the sequence headers in front of tag p.
HeadersBefore(p) ==
  {SetsOf(flv.tags[q].header) : q \in {q \in 1..p-1 : flv.tags[q].kind = "avc_config"}}

IsVideo(i) == out[i].unit.kind = "video"

\* Unit i is the first video payload of its file.
FirstVideo(i) == \A j \in 1..i-1 : ~(IsVideo(j) /\ SameFile(j, i))

\* The first video payload of every file carries the parameter sets and no
\* other does, as long as the input has announced only one configuration.
ParameterSetsOncePerFile ==
  \A i \in 1..Len(out) : IsVideo(i) =>
    \A sets \in HeadersBefore(out[i].unit.tag) :
      HeadersBefore(out[i].unit.tag) = {sets} =>
        out[i].unit.sets = IF FirstVideo(i) THEN InFront(sets) ELSE <<>>

\* The parameter sets in front of a payload are those of the latest sequence
\* header (the code goes on with those of the first one).
LatestParameterSets ==
  \A i \in 1..Len(out) :
    LET u == out[i].unit
        headers == {q \in 1..u.tag-1 : flv.tags[q].kind = "avc_config"}
    IN  u.sets # <<>> =>
          \E q \in headers : /\ \A r \in headers : r <= q
                            /\ u.sets = InFront(SetsOf(flv.tags[q].header))

\* A tag whose payload belongs into the output.
MediaTag(p) == TagAt(flv, p) /\ flv.tags[p].kind \in MediaKinds

\* The NALU that the program has given up on.
GivenUp(p) == status = "failed" /\ p = pos - 1 /\ ~Fits(flv.tags[p], conf.width)

\* The files hold every AAC frame and NALU of the input read so far exactly
\* once, in the order of the input, whatever cuts and tables lie between; only
\* a last NALU that cannot be cut into its units is missing.
EveryTagOnce ==
  /\ \A i \in 1..Len(out) : IsMedia(i) =>
       /\ out[i].unit.tag \in 1..pos-1 /\ MediaTag(out[i].unit.tag)
       /\ \A j \in i+1..Len(out) :
            IsMedia(j) => out[i].unit.tag < out[j].unit.tag
  /\ \A p \in 1..pos-1 : MediaTag(p) /\ (flv.tags[p].kind = "nalu" => ~GivenUp(p)) =>
       \E i \in 1..Len(out) : IsMedia(i) /\ out[i].unit.tag = p

\* The continuity counter of each stream runs on from one file to the next:
\* the files played in a row are one stream without a discontinuity.
ContinuityAcrossFiles ==
  \A i \in 1..Len(out) : IsMedia(i) =>
    LET IsSame(j) == out[j].unit.kind = out[i].unit.kind IN
    /\ (\A j \in 1..i-1 : ~IsSame(j)) => out[i].unit.cc = 0
    /\ \A j \in 1..i-1 :
         IsSame(j) /\ (\A k \in j+1..i-1 : ~IsSame(k)) =>
           out[i].unit.cc = (out[j].unit.cc + out[j].unit.packets) % 16

\* Timestamps that neither are negative as an int32_t nor wrap with Duration.
PlainTimestamps ==
  \A p \in 1..Len(flv.tags) : flv.tags[p].timestamp \in 0..TimeMod-1-Duration

\* The timestamp of the tag of unit i.
TimeOf(i) == flv.tags[out[i].unit.tag].timestamp

\* A file is cut no sooner than Duration after the tag that opened it and holds
\* no later NALU but that tag: with plain timestamps, even if they go back, no
\* file is too long.
FilesHaveTheirDuration ==
  PlainTimestamps =>
    \A i, j \in 1..Len(out) : Begins(i) /\ i < j =>
      /\ SameFile(i, j) /\ IsVideo(j) /\ out[j].unit.tag # out[i].unit.tag =>
           TimeOf(j) < TimeOf(i) + Duration
      /\ Begins(j) /\ out[j].file = out[i].file + 1 =>
           TimeOf(j) >= TimeOf(i) + Duration
=============================================================================
