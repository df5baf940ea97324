------------------------------ MODULE TsParser ------------------------------
(***************************************************************************)
(* include/ts/parser.hh and the two programs that drive it, ts-extract and *)
(* parse-ts: one action is one turn of their main loop, that is one packet.*)
(*                                                                         *)
(* A packet is a record of what the parser looks at: sync (it begins with  *)
(* the sync byte), pid, pusi (payload unit start), afe                     *)
(* (adaptation_field_exist), af_length, hlen (pes_header_length), stamps   *)
(* (the time stamps its PES header promises have the bits that readPtsDts  *)
(* asserts) and section, what the payload begins with.  Offsets in a       *)
(* packet are bytes.                                                       *)
(***************************************************************************)
EXTENDS TsPacket, Sequences

VARIABLES
  tool,               \* "audio" or "video": ts-extract; "parse": parse-ts
  file,               \* the packets of the file
  partial,            \* the file ends with less than a packet more
  at,                 \* position() is at packet `at`
  pmt_map,            \* the PIDs of the program-map tables
  stream_info_list,   \* [type, pid] of the elementary streams
  result,             \* "running", "done" (0), "failed" (1), "undefined"
  extracted           \* what is written: [packet, from, to], offsets in it

parserVars == <<tool, file, partial, at, pmt_map, stream_info_list, result, extracted>>

NULL_PID          == 8191   \* 0x1FFF
STREAM_TYPE_VIDEO == 27
STREAM_TYPE_AUDIO == 15

\* What a payload begins with.  A PAT lists the PIDs of its PMTs, a PMT streams,
\* behind info_length bytes of program descriptors, and a PES packet has its
\* start code.  What parsePayload* turns down at its first fields, or what goes
\* on behind the packet, is "other".
PatSection(pids)  == [kind |-> "pat", programs |-> pids]
PmtSection(infos) == [kind |-> "pmt", streams |-> infos, info_length |-> 0,
                      passes |-> FALSE, misread |-> <<>>]
PesSection        == [kind |-> "pes"]
OtherSection      == [kind |-> "other"]

\* program_info_length / 8 bytes are skipped, so that the rest of the program
\* descriptors is read as streams: misread.  The table passes when they happen
\* to have the reserved bits of streams and to end where the section does.
Readable(section, kind) ==
  section.kind = kind /\ (kind = "pmt" => section.info_length = 0 \/ section.passes)
StreamsRead(section) ==
  IF section.info_length = 0 THEN section.streams ELSE section.misread

HasAf(p)      == p.afe \in {2, 3}
HasPayload(p) == p.afe \in {1, 3}

Listed(pid)   == \E i \in 1..Len(stream_info_list) : stream_info_list[i].pid = pid

\* get_payload_type: by the tables that were read last.
PayloadType(p) ==
  IF ~p.pusi THEN "DATA"
  ELSE IF p.pid = PAT_PID THEN "PAT"
  ELSE IF p.pid = NULL_PID THEN "NULL"
  ELSE IF \E i \in 1..Len(pmt_map) : pmt_map[i] = p.pid THEN "PMT"
  ELSE IF Listed(p.pid) THEN "PES"
  ELSE "UNKNOWN"

\* is_audio_packet and is_video_packet: the first entry of the PID decides.
FirstType(pid) ==
  LET i == CHOOSE i \in 1..Len(stream_info_list) :
             /\ stream_info_list[i].pid = pid
             /\ \A j \in 1..i-1 : stream_info_list[j].pid # pid
  IN  stream_info_list[i].type

TypeOfTool == IF tool = "audio" THEN STREAM_TYPE_AUDIO ELSE STREAM_TYPE_VIDEO

IsOwn(p) ==
  /\ PayloadType(p) \in {"PES", "DATA"}
  /\ Listed(p.pid) /\ FirstType(p.pid) = TypeOfTool

\* Seeded error: the flag byte not counted as a part of the length.
AfEnd_flags(p) == HEADER_SIZE + (IF HasAf(p) THEN 2 + p.af_length ELSE 0)

\* Where parseAdaptationField leaves the cursor, whatever flags are set: a
\* length that does not cover the fields read moves it back over them.
AfEnd(p) == HEADER_SIZE + (IF HasAf(p) THEN 1 + p.af_length ELSE 0)

\* Where the data of a packet of a stream starts; it goes on to the end.
DataStart(p) == AfEnd(p) + (IF PayloadType(p) = "PES" THEN 9 + p.hlen ELSE 0)

\* A PES header that goes on in the next packet, or begins there: data_size, a
\* size_t, is negative, which puts the cursor back; what is behind the packet is
\* read all the same.
Spills(p) == HasPayload(p) /\ PayloadType(p) = "PES" /\ DataStart(p) > SIZE

\* parsePayloadPES finds the start code, wherever the payload begins.
PesHeader(p) == HasPayload(p) /\ PayloadType(p) = "PES" /\ Readable(p.section, "pes")

\* The payload object is used, which parse() has not made for this packet.
NoPayloadToUse(p) ==
  /\ ~HasPayload(p)
  /\ IF tool = "parse" THEN PayloadType(p) \notin {"NULL", "UNKNOWN"} ELSE IsOwn(p)

----------------------------------------------------------------------------
\* Packets whose tables announce each PID once, and neither of the reserved two;
\* what descriptors are misread as may be anything.
PIDs     == 1..NULL_PID-1
Sections ==
  [kind : {"pat"}, programs : Seq(PIDs)] \cup [kind : {"pes", "other"}] \cup
  {s \in [kind : {"pmt"}, streams : Seq([type : 0..255, pid : PIDs]), info_length : 0..4095,
          passes : BOOLEAN, misread : Seq([type : 0..255, pid : 0..NULL_PID])] :
     \A m, n \in DOMAIN s.streams : s.streams[m].pid = s.streams[n].pid => m = n}
InputPacket ==
  [sync : BOOLEAN, pid : 0..NULL_PID, pusi : BOOLEAN, afe : 0..3, af_length : 0..255,
   hlen : 0..255, stamps : BOOLEAN, section : Sections]

\* A file of no bytes cannot be mapped, and the programs return 1 at once.
Opened(packets, rest) == IF packets = <<>> /\ ~rest THEN "failed" ELSE "running"

ParserInit ==
  /\ tool \in {"audio", "video", "parse"}
  /\ file \in Seq(InputPacket) /\ partial \in BOOLEAN
  /\ at = 1 /\ pmt_map = <<>> /\ stream_info_list = <<>>
  /\ result = Opened(file, partial) /\ extracted = <<>>

\* The parser as it is opened on a file.
Open(packets, rest) ==
  /\ file' = packets /\ partial' = rest
  /\ at' = 1 /\ pmt_map' = <<>> /\ stream_info_list' = <<>>
  /\ result' = Opened(packets, rest) /\ extracted' = <<>>

\* Seeded error: a seek by a packet from where the parser stands.
GoOn_relative == at' = at + 2 /\ UNCHANGED <<tool, file, partial, result>>

\* The loop goes on, or ends with r.
GoOn   == at' = at + 1 /\ UNCHANGED <<tool, file, partial, result>>
End(r) == /\ result' = r
          /\ UNCHANGED <<tool, file, partial, at, pmt_map, stream_info_list, extracted>>

Eos == result = "running" /\ at > Len(file) /\ ~partial /\ End("done")

\* Less than a packet is left: parse() fails before it has set the header,
\* which ts-extract does not look at any more and parse-ts prints.
Short ==
  /\ result = "running" /\ at > Len(file) /\ partial
  /\ End(IF tool = "parse" THEN "undefined" ELSE "failed")

\* Packet p is the next one; a sound one has a payload to be looked at.
At(p)   == result = "running" /\ at <= Len(file) /\ p = file[at]
Turn(p) == At(p) /\ p.sync /\ (AfEnd(p) <= SIZE \/ PesHeader(p))

\* No sync byte, or an adaptation field beyond the end of the packet: a table
\* is behind it then and leaves the cursor there, and so does Data, where the
\* size of what is left has eight bits and comes out positive.  What is read
\* there may lie behind the file.
BadPacket(p) ==
  /\ At(p) /\ (~p.sync \/ (AfEnd(p) > SIZE /\ ~PesHeader(p)))
  /\ \/ End(IF tool = "parse" /\ (~p.sync \/ NoPayloadToUse(p)) THEN "undefined" ELSE "failed")
     \/ /\ p.sync /\ HasPayload(p) /\ PayloadType(p) \in {"PAT", "PMT", "PES"}
        /\ End("undefined")

\* Seeded errors: a PAT empties the list of streams; a PMT adds to it.
StreamsAfterPat_none    == <<>>
StreamsOfPmt_added(p)   == stream_info_list \o StreamsRead(p.section)

StreamsAfterPat == stream_info_list
StreamsOfPmt(p) == StreamsRead(p.section)

ReadPat(p) ==
  /\ Turn(p) /\ HasPayload(p) /\ PayloadType(p) = "PAT" /\ Readable(p.section, "pat")
  /\ pmt_map' = p.section.programs /\ stream_info_list' = StreamsAfterPat
  /\ GoOn /\ UNCHANGED extracted

ReadPmt(p) ==
  /\ Turn(p) /\ HasPayload(p) /\ PayloadType(p) = "PMT" /\ Readable(p.section, "pmt")
  /\ stream_info_list' = StreamsOfPmt(p)
  /\ GoOn /\ UNCHANGED <<pmt_map, extracted>>

\* parse() fails in a table, or for want of the start code of a PES packet.
\* Descriptors read as streams may lead it behind the file before.
BadPayload(p) ==
  /\ Turn(p) /\ HasPayload(p)
  /\ \/ PayloadType(p) = "PAT" /\ ~Readable(p.section, "pat") /\ End("failed")
     \/ PayloadType(p) = "PMT" /\ ~Readable(p.section, "pmt") /\ End("failed")
     \/ PayloadType(p) = "PES" /\ ~Readable(p.section, "pes") /\ End("failed")
     \/ /\ PayloadType(p) = "PMT" /\ p.section.kind = "pmt" /\ p.section.info_length > 0
        /\ End("undefined")

\* Nothing is written for this packet.
Skip(p) ==
  /\ Turn(p) /\ (tool = "parse" \/ ~IsOwn(p)) /\ ~NoPayloadToUse(p)
  /\ ~HasPayload(p) \/ PayloadType(p) \notin {"PAT", "PMT"}
  /\ HasPayload(p) /\ PayloadType(p) = "PES" => PesHeader(p) /\ p.stamps
  /\ GoOn /\ UNCHANGED <<pmt_map, stream_info_list, extracted>>

\* ts-extract writes the data of the packet.
Extract(p) ==
  /\ Turn(p) /\ tool # "parse" /\ IsOwn(p) /\ HasPayload(p) /\ ~Spills(p)
  /\ PayloadType(p) = "PES" => PesHeader(p) /\ p.stamps
  /\ extracted' = Append(extracted, [packet |-> at, from |-> DataStart(p), to |-> SIZE])
  /\ GoOn /\ UNCHANGED <<pmt_map, stream_info_list>>

\* The null pointer of a packet without payload, or time stamps that fail the
\* assertion of readPtsDts; or a header that spills: its fields may lie behind
\* the file, and ts-extract writes a negative number of bytes.
Undefined(p) ==
  /\ Turn(p)
  /\ NoPayloadToUse(p) \/ (PesHeader(p) /\ (Spills(p) \/ ~p.stamps))
  /\ End("undefined")

ParsePacket(p) == \/ BadPacket(p) \/ ReadPat(p) \/ ReadPmt(p) \/ BadPayload(p)
                  \/ Skip(p) \/ Extract(p) \/ Undefined(p)

Parse == Eos \/ Short \/ \E p \in {file[i] : i \in 1..Len(file)} : ParsePacket(p)

ParserSpec == ParserInit /\ [][Parse]_parserVars

----------------------------------------------------------------------------
\* The position and the tables are those of the packets that were read.
ParserTypeOK ==
  /\ tool \in {"audio", "video", "parse"}
  /\ result \in {"running", "done", "failed", "undefined"}
  /\ at \in 1..Len(file)+1
  /\ \A k \in 1..Len(extracted) :
       /\ extracted[k].packet \in 1..at-1
       /\ HEADER_SIZE <= extracted[k].from /\ extracted[k].from <= extracted[k].to

\* Packet j is a table that was in force when packet i came: the last PAT, and
\* the last PMT on a PID that the last PAT in front of it had listed.
IsPat(j) == file[j].pid = PAT_PID /\ file[j].pusi /\ HasPayload(file[j])
LastPat(j, i) == j < i /\ IsPat(j) /\ \A k \in j+1..i-1 : ~IsPat(k)
IsPmt(j) ==
  /\ file[j].pusi /\ HasPayload(file[j])
  /\ \E k \in 1..j-1 : /\ LastPat(k, j)
                       /\ \E n \in DOMAIN file[k].section.programs :
                            file[k].section.programs[n] = file[j].pid
LastPmt(j, i) == j < i /\ IsPmt(j) /\ \A k \in j+1..i-1 : ~IsPmt(k)

\* Packet i carries data of the stream that was asked for.
OfStream(i) ==
  /\ ~IsPat(i) /\ ~IsPmt(i) /\ HasPayload(file[i])
  /\ \E j \in 1..i-1 :
       /\ LastPmt(j, i)
       /\ \E n \in DOMAIN file[j].section.streams :
            file[j].section.streams[n] = [type |-> TypeOfTool, pid |-> file[i].pid]

\* No program descriptors of the file pass for streams.
NoneMisread ==
  \A i \in 1..Len(file) :
    file[i].section.kind = "pmt" => file[i].section.info_length = 0 \/ ~file[i].section.passes

\* What ts-extract has written is the data of exactly the packets in front of
\* the position that the tables in force assign to the stream, in their order:
\* a table counts from its packet on and is not mixed with the one before it.
\* So it is as long as no program descriptors are taken for streams.
ExtractedAsAnnounced ==
  tool # "parse" /\ NoneMisread =>
    /\ \A k \in 1..Len(extracted) :
         /\ OfStream(extracted[k].packet)
         /\ \A l \in k+1..Len(extracted) : extracted[k].packet < extracted[l].packet
    /\ \A i \in 1..at-1 :
         OfStream(i) => \E k \in 1..Len(extracted) : extracted[k].packet = i

\* In a file with a single program nothing of a stream is lost from the first
\* complete pair of tables on, however often they are repeated, if no program
\* descriptors are taken for streams.
OneProgram ==
  \A i, j \in 1..Len(file) :
    file[i].section.kind = file[j].section.kind => file[i].section = file[j].section
NothingLostOfOneProgram ==
  OneProgram /\ NoneMisread /\ tool # "parse" =>
    \A i \in 1..at-1, j \in 1..at-1 :
      /\ IsPmt(j) /\ j < i /\ ~IsPmt(i) /\ HasPayload(file[i])
      /\ \E n \in DOMAIN file[j].section.streams :
           file[j].section.streams[n] = [type |-> TypeOfTool, pid |-> file[i].pid]
      => \E k \in 1..Len(extracted) : extracted[k].packet = i
=============================================================================
