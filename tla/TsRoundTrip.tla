----------------------------- MODULE TsRoundTrip -----------------------------
(***************************************************************************)
(* The readers on what the writers write: at any moment TsParser is opened *)
(* on as much of the output of TsWrite as has reached the file, which may  *)
(* end within a packet, and reads it while nothing is written any more.    *)
(***************************************************************************)
EXTENDS TsWrite, TsParser

\* Seeded error: the section of the PMT without its last stream.
Tables_short(pid) ==
  IF pid = PAT_PID THEN PatSection(<<PMT_PID>>)
  ELSE IF pid = PMT_PID
       THEN PmtSection(<<[type |-> STREAM_TYPE_VIDEO, pid |-> ES_VIDEO_PID]>>)
       ELSE PesSection

\* What write_ts_pat and write_ts_pmt put into their sections; the payload of
\* a first packet begins with the start code of PES::dump.
Tables(pid) ==
  IF pid = PAT_PID THEN PatSection(<<PMT_PID>>)
  ELSE IF pid = PMT_PID
       THEN PmtSection(<<[type |-> STREAM_TYPE_VIDEO, pid |-> ES_VIDEO_PID],
                         [type |-> STREAM_TYPE_AUDIO, pid |-> ES_AUDIO_PID]>>)
       ELSE PesSection

\* A packet of the writers as the parser meets it.
View(p) == [sync |-> TRUE, pid |-> p.pid, pusi |-> p.pusi, afe |-> p.afe,
            af_length |-> p.af_length, hlen |-> PES_HEADER_SIZE - 9, stamps |-> TRUE,
            section |-> IF p.pusi THEN Tables(p.pid) ELSE OtherSection]

RoundTripInit ==
  /\ Init
  /\ tool \in {"audio", "video", "parse"}
  /\ file = <<>> /\ partial = FALSE /\ at = 1 /\ pmt_map = <<>>
  /\ stream_info_list = <<>> /\ result = "idle" /\ extracted = <<>>

WriterStep == result = "idle" /\ Next /\ UNCHANGED parserVars

\* The reader maps the first n packets, and a piece of the next one.
StartReader(n, rest) ==
  /\ result = "idle"
  /\ rest => n < Len(out)
  /\ Open([i \in 1..n |-> View(out[i])], rest)
  /\ UNCHANGED <<vars, tool>>

ParserStep == Parse /\ UNCHANGED vars

RoundTripNext ==
  \/ WriterStep
  \/ \E n \in 0..Len(out), rest \in BOOLEAN : StartReader(n, rest)
  \/ ParserStep

RoundTripSpec == RoundTripInit /\ [][RoundTripNext]_<<vars, parserVars>>

----------------------------------------------------------------------------
\* A reader fails only where the file ends within a packet or nothing is in it:
\* it turns down no packet that the writers make, and no header of theirs leads
\* it out of its packet.
ReadersAccept == result \in {"failed", "undefined"} => partial \/ file = <<>>

\* The piece of a payload that the k-th write of ts-extract copied: offsets in
\* the packet become offsets in the payload by the headers really written.
Piece(k) ==
  LET p == out[extracted[k].packet]
      moved == p.from - (HEADER_SIZE + p.af + p.pes)
  IN  [unit |-> p.unit, from |-> extracted[k].from + moved, to |-> extracted[k].to + moved]

\* The calls on the stream that was asked for, behind the first PMT read.
Wanted ==
  {c \in 1..Len(calls) :
     /\ calls[c].stream = tool
     /\ \E i \in 1..Len(file) : file[i].pid = PMT_PID /\ i <= calls[c].start}

\* ts-extract writes the payloads of the calls it wants in their order, each
\* from its first byte on without a gap or a byte of any header or stuffing, and
\* each to its end before the next one; in a complete file none is missing.
PayloadsReadBack ==
  /\ \A k \in 1..Len(extracted) :
       LET b == Piece(k)
           a == IF k = 1 THEN [unit |-> 0, from |-> 0, to |-> 0] ELSE Piece(k - 1)
       IN  /\ b.unit \in Wanted
           /\ b.from = IF b.unit = a.unit THEN a.to ELSE 0
           /\ b.unit # a.unit =>
                /\ \A c \in Wanted : c < b.unit => c <= a.unit
                /\ a.unit # 0 => a.to = calls[a.unit].size
  /\ result = "done" /\ Len(file) = Len(out) /\ phase = "idle" =>
       \A c \in Wanted : \E k \in 1..Len(extracted) :
         Piece(k).unit = c /\ Piece(k).to = calls[c].size
=============================================================================
