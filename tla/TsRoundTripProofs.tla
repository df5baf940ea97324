-------------------------- MODULE TsRoundTripProofs --------------------------
(***************************************************************************)
(* What the readers of the stream get, in files of any length.             *)
(*                                                                         *)
(* The first part is about ts-extract alone, on any packets: it takes      *)
(* those that the tables in front of them announce.  The second is about   *)
(* the writers and the reader together: the reader gets back what the      *)
(* writers were given, for payloads of any size, any number of calls and a *)
(* reader that is started at any moment.  OutInv says how the packets of   *)
(* the output lie: those of a call behind each other, from where the call  *)
(* was made, each at the byte where the one before it ends; the first part *)
(* says which of them are extracted, and ReaderInv where each is cut.      *)
(***************************************************************************)
EXTENDS TsRoundTrip, TsWriteProofs

----------------------------------------------------------------------------
(* ts-extract on any packets.                                              *)

Infos == [type : 0..255, pid : PIDs]

Distinct(infos) == \A m, n \in DOMAIN infos : infos[m].pid = infos[n].pid => m = n

ParserTypeInv ==
  /\ tool \in {"audio", "video", "parse"} /\ partial \in BOOLEAN
  /\ file \in Seq(InputPacket)
  /\ at \in 1..Len(file)+1
  /\ result \in {"running", "done", "failed", "undefined"}
  /\ extracted \in Seq([packet : Nat, from : Nat, to : Nat])
  /\ ParserTypeOK

\* The lists of the parser, as long as no descriptors are taken for streams.
ListsTyped ==
  /\ pmt_map \in Seq(PIDs)
  /\ stream_info_list \in Seq(Infos) /\ Distinct(stream_info_list)

\* The tables in front of packet p were tables.
TablesRead(p) ==
  \A j \in 1..p-1 : /\ IsPat(j) => file[j].section.kind = "pat"
                    /\ IsPmt(j) => file[j].section.kind = "pmt"

\* The PIDs known at packet p are those of the last PAT, if there was one, and
\* the streams those of the last PMT.
PatInv(map, p) ==
  \/ map = <<>> /\ \A k \in 1..p-1 : ~IsPat(k)
  \/ \E k \in 1..p-1 : LastPat(k, p) /\ map = file[k].section.programs
PmtInv(list, p) ==
  \/ list = <<>> /\ \A j \in 1..p-1 : ~IsPmt(j)
  \/ \E j \in 1..p-1 : LastPmt(j, p) /\ list = file[j].section.streams

\* Wherever there was a PMT there was a last one.
Lasts(p) ==
  \A i \in 1..p : (\E j \in 1..i-1 : IsPmt(j)) => \E j \in 1..i-1 : LastPmt(j, i)

\* ExtractedAsAnnounced of the pieces ex, with the reader at packet p.
Announced(ex, p) ==
  /\ \A k \in 1..Len(ex) :
       /\ OfStream(ex[k].packet) /\ ex[k].packet \in 1..p-1
       /\ \A l \in k+1..Len(ex) : ex[k].packet < ex[l].packet
  /\ \A i \in 1..p-1 : OfStream(i) => \E k \in 1..Len(ex) : ex[k].packet = i

ParserInv ==
  /\ ParserTypeInv /\ ListsTyped
  /\ TablesRead(at) /\ PatInv(pmt_map, at) /\ PmtInv(stream_info_list, at) /\ Lasts(at)
  /\ tool # "parse" => Announced(extracted, at)

----------------------------------------------------------------------------
\* What a table holds.
LEMMA SectionFields ==
  ASSUME NEW s \in Sections
  PROVE  /\ s.kind = "pat" => s.programs \in Seq(PIDs)
         /\ s.kind = "pmt" => s.streams \in Seq(Infos) /\ Distinct(s.streams)
<1>1. CASE s \in [kind : {"pat"}, programs : Seq(PIDs)]
  <2>1. s.kind = "pat" /\ s.programs \in Seq(PIDs) BY <1>1
  <2> QED BY <2>1
<1>2. CASE s \in [kind : {"pes", "other"}]
  <2>1. s.kind \in {"pes", "other"} BY <1>2
  <2> QED BY <2>1
<1>3. CASE /\ s \in [kind : {"pmt"}, streams : Seq(Infos), info_length : 0..4095,
                   passes : BOOLEAN, misread : Seq([type : 0..255, pid : 0..NULL_PID])]
           /\ Distinct(s.streams)
  <2>1. s.kind = "pmt" /\ s.streams \in Seq(Infos) BY <1>3
  <2> QED BY <1>3, <2>1
<1> QED BY <1>1, <1>2, <1>3 DEF Sections, Infos, Distinct

LEMMA PidsPlain ==
  ASSUME NEW x \in PIDs
  PROVE  x # PAT_PID /\ x # NULL_PID
<1>1. x \in 1..8190 BY SMT DEF PIDs, NULL_PID
<1>2. x \in Int /\ 1 <= x /\ x <= 8190 BY <1>1, SMT
<1>3. x # PAT_PID BY <1>2, SMT DEF PAT_PID
<1>4. x # NULL_PID BY <1>2, SMT DEF NULL_PID
<1> QED BY <1>3, <1>4

LEMMA InfoFields ==
  ASSUME NEW s \in Seq(Infos), NEW i \in 1..Len(s)
  PROVE  /\ s[i].pid \in PIDs
         /\ \A t, q : s[i] = [type |-> t, pid |-> q] <=> s[i].type = t /\ s[i].pid = q
<1>1. s[i] \in Infos OBVIOUS
<1> QED BY <1>1 DEF Infos

LEMMA PacketFields ==
  ASSUME NEW p \in InputPacket
  PROVE  /\ p.pid \in 0..8191 /\ p.pusi \in BOOLEAN /\ p.afe \in 0..3
         /\ p.af_length \in 0..255 /\ p.hlen \in 0..255 /\ p.section \in Sections
BY DEF InputPacket, NULL_PID

\* There is one last PAT and one last PMT.
LEMMA LastUnique ==
  ASSUME NEW i \in Nat, NEW j \in 1..i-1, NEW k \in 1..i-1
  PROVE  /\ LastPat(j, i) /\ LastPat(k, i) => j = k
         /\ LastPmt(j, i) /\ LastPmt(k, i) => j = k
<1>1. j < k \/ k < j \/ j = k OBVIOUS
<1>2. j < k => k \in j+1..i-1 OBVIOUS
<1>3. k < j => j \in k+1..i-1 OBVIOUS
<1> QED BY <1>1, <1>2, <1>3 DEF LastPat, LastPmt

\* A packet that is not a table leaves the last ones as they are.
LEMMA LastNext ==
  ASSUME NEW p \in Nat \ {0}
  PROVE  /\ IsPat(p) => LastPat(p, p + 1)
         /\ ~IsPat(p) => \A k \in 1..p-1 : LastPat(k, p) => LastPat(k, p + 1)
         /\ IsPmt(p) => LastPmt(p, p + 1)
         /\ ~IsPmt(p) => \A k \in 1..p-1 : LastPmt(k, p) => LastPmt(k, p + 1)
<1>1. p + 1..(p + 1)-1 = {} OBVIOUS
<1>2. \A k \in 1..p-1 : k+1..(p + 1)-1 = (k+1..p-1) \cup {p} OBVIOUS
<1>3. p < p + 1 /\ \A k \in 1..p-1 : k < p + 1 OBVIOUS
<1> QED BY <1>1, <1>2, <1>3 DEF LastPat, LastPmt

----------------------------------------------------------------------------
\* The packet that comes next, when it has a payload.
LEMMA Classified ==
  ASSUME ParserInv, NEW p, Turn(p), HasPayload(p)
  PROVE  /\ IsPat(at) <=> PayloadType(p) = "PAT"
         /\ IsPmt(at) <=> PayloadType(p) = "PMT"
         /\ OfStream(at) <=> IsOwn(p)
<1>1. at \in 1..Len(file) /\ p = file[at] /\ p \in InputPacket /\ at \in Nat
  BY DEF ParserInv, ParserTypeInv, Turn, At
<1>2. p.pid \in 0..8191 /\ p.pusi \in BOOLEAN
  <2>1. p \in InputPacket BY <1>1
  <2> QED BY <2>1, PacketFields
<1>3. IsPat(at) <=> PayloadType(p) = "PAT"
  BY <1>1, <1>2 DEF IsPat, PayloadType
<1>4. (\E i \in 1..Len(pmt_map) : pmt_map[i] = p.pid) =>
        p.pid # PAT_PID /\ p.pid # NULL_PID
  <2>1. \A i \in 1..Len(pmt_map) : pmt_map[i] \in PIDs BY DEF ParserInv, ListsTyped
  <2> QED BY <2>1, PidsPlain
<1>5. Listed(p.pid) => p.pid # PAT_PID /\ p.pid # NULL_PID
  <2>1. SUFFICES ASSUME NEW i \in 1..Len(stream_info_list), stream_info_list[i].pid = p.pid
                 PROVE  p.pid # PAT_PID /\ p.pid # NULL_PID
    BY DEF Listed
  <2>2. stream_info_list \in Seq(Infos) BY DEF ParserInv, ListsTyped
  <2>3. p.pid \in PIDs BY <2>1, <2>2, InfoFields
  <2> QED BY <2>3, PidsPlain
<1>6. (\E i \in 1..Len(pmt_map) : pmt_map[i] = p.pid) <=>
        \E k \in 1..at-1 : LastPat(k, at) /\ \E n \in DOMAIN file[k].section.programs :
                                               file[k].section.programs[n] = p.pid
  <2>1. CASE pmt_map = <<>> /\ \A k \in 1..at-1 : ~IsPat(k)
    <3>1. \A k \in 1..at-1 : ~LastPat(k, at) BY <2>1 DEF LastPat
    <3>2. Len(pmt_map) = 0 BY <2>1
    <3>3. 1..Len(pmt_map) = {} BY <3>2
    <3> QED BY <3>1, <3>3
  <2>2. ASSUME NEW k \in 1..at-1, LastPat(k, at), pmt_map = file[k].section.programs
        PROVE  (\E i \in 1..Len(pmt_map) : pmt_map[i] = p.pid) <=>
                 \E h \in 1..at-1 : LastPat(h, at) /\ \E n \in DOMAIN file[h].section.programs :
                                                        file[h].section.programs[n] = p.pid
    <3>1. \A h \in 1..at-1 : LastPat(h, at) <=> h = k BY <1>1, <2>2, LastUnique
    <3>2. DOMAIN pmt_map = 1..Len(pmt_map) BY DEF ParserInv, ListsTyped
    <3> QED BY <2>2, <3>1, <3>2
  <2> QED BY <2>1, <2>2 DEF ParserInv, PatInv
<1>7. IsPmt(at) <=> PayloadType(p) = "PMT"
  BY <1>1, <1>2, <1>4, <1>6 DEF IsPmt, PayloadType
<1>8. PayloadType(p) \in {"PES", "DATA"} /\ Listed(p.pid) <=>
        ~IsPat(at) /\ ~IsPmt(at) /\ Listed(p.pid)
  BY <1>2, <1>3, <1>5, <1>7 DEF PayloadType
<1>9. Listed(p.pid) /\ FirstType(p.pid) = TypeOfTool <=>
        \E n \in DOMAIN stream_info_list :
          stream_info_list[n] = [type |-> TypeOfTool, pid |-> p.pid]
  <2>1. DOMAIN stream_info_list = 1..Len(stream_info_list) BY DEF ParserInv, ListsTyped
  <2>2. ASSUME NEW n \in 1..Len(stream_info_list), stream_info_list[n].pid = p.pid
        PROVE  FirstType(p.pid) = stream_info_list[n].type
    <3>1. \A j \in 1..Len(stream_info_list) : stream_info_list[j].pid = p.pid => j = n
      BY <2>1, <2>2 DEF ParserInv, ListsTyped, Distinct
    <3>2. \A j \in 1..n-1 : stream_info_list[j].pid # p.pid
      <4>1. \A j \in 1..n-1 : j \in 1..Len(stream_info_list) /\ j # n BY DEF ParserInv, ListsTyped
      <4> QED BY <3>1, <4>1
    <3> DEFINE First(i) == /\ stream_info_list[i].pid = p.pid
                           /\ \A j \in 1..i-1 : stream_info_list[j].pid # p.pid
    <3>3. First(n) /\ \A i \in 1..Len(stream_info_list) : First(i) => i = n
      BY <2>2, <3>1, <3>2
    <3>4. (CHOOSE i \in 1..Len(stream_info_list) : First(i)) = n
      BY <3>3
    <3> QED BY <3>4 DEF FirstType
  <2>3. \A n \in 1..Len(stream_info_list) :
          stream_info_list[n] = [type |-> TypeOfTool, pid |-> p.pid] <=>
            stream_info_list[n].type = TypeOfTool /\ stream_info_list[n].pid = p.pid
    <3> TAKE n \in 1..Len(stream_info_list)
    <3>1. stream_info_list \in Seq(Infos) BY DEF ParserInv, ListsTyped
    <3> QED BY <3>1, InfoFields
  <2> QED BY <2>1, <2>2, <2>3 DEF Listed
<1>10. (\E n \in DOMAIN stream_info_list :
          stream_info_list[n] = [type |-> TypeOfTool, pid |-> p.pid]) <=>
        \E j \in 1..at-1 :
          /\ LastPmt(j, at)
          /\ \E n \in DOMAIN file[j].section.streams :
               file[j].section.streams[n] = [type |-> TypeOfTool, pid |-> p.pid]
  <2>1. CASE stream_info_list = <<>> /\ \A j \in 1..at-1 : ~IsPmt(j)
    <3>1. \A j \in 1..at-1 : ~LastPmt(j, at) BY <2>1 DEF LastPmt
    <3>2. DOMAIN stream_info_list = {} BY <2>1
    <3> QED BY <3>1, <3>2
  <2>2. ASSUME NEW k \in 1..at-1, LastPmt(k, at), stream_info_list = file[k].section.streams
        PROVE  <1>10!1 <=> <1>10!2
    <3>1. \A h \in 1..at-1 : LastPmt(h, at) <=> h = k BY <1>1, <2>2, LastUnique
    <3> QED BY <2>2, <3>1
  <2> QED BY <2>1, <2>2 DEF ParserInv, PmtInv
<1>11. OfStream(at) <=> IsOwn(p)
  BY <1>1, <1>8, <1>9, <1>10 DEF OfStream, IsOwn
<1> QED BY <1>3, <1>7, <1>11

----------------------------------------------------------------------------
\* The tables are a matter of the file alone.
LEMMA SameTables ==
  ASSUME UNCHANGED <<tool, file>>
  PROVE  /\ \A j : IsPat(j)' <=> IsPat(j)
         /\ \A j, i : LastPat(j, i)' <=> LastPat(j, i)
         /\ \A j : IsPmt(j)' <=> IsPmt(j)
         /\ \A j, i : LastPmt(j, i)' <=> LastPmt(j, i)
         /\ \A i : OfStream(i)' <=> OfStream(i)
<1>1. \A j : IsPat(j)' <=> IsPat(j) BY DEF IsPat
<1>2. \A j, i : LastPat(j, i)' <=> LastPat(j, i) BY <1>1 DEF LastPat
<1>3. \A j : IsPmt(j)' <=> IsPmt(j) BY <1>2 DEF IsPmt
<1>4. \A j, i : LastPmt(j, i)' <=> LastPmt(j, i) BY <1>3 DEF LastPmt
<1>5. \A i : OfStream(i)' <=> OfStream(i) BY <1>1, <1>3, <1>4 DEF OfStream, TypeOfTool
<1> QED BY <1>1, <1>2, <1>3, <1>4, <1>5

LEMMA SameInv ==
  ASSUME UNCHANGED <<tool, file>>
  PROVE  /\ TablesRead(at)' <=> TablesRead(at')
         /\ PatInv(pmt_map, at)' <=> PatInv(pmt_map', at')
         /\ PmtInv(stream_info_list, at)' <=> PmtInv(stream_info_list', at')
         /\ Lasts(at)' <=> Lasts(at')
         /\ Announced(extracted, at)' <=> Announced(extracted', at')
BY SameTables DEF TablesRead, PatInv, PmtInv, Lasts, Announced

\* The end of the program.
LEMMA EndStep ==
  ASSUME ParserTypeInv, NEW r \in {"running", "done", "failed", "undefined"}, End(r)
  PROVE  ParserTypeInv' /\ (ParserInv => ParserInv')
<1>1. UNCHANGED <<tool, file, partial, at, pmt_map, stream_info_list, extracted>> /\ result' = r
  BY DEF End
<1>2. ParserTypeInv' BY <1>1 DEF ParserTypeInv, ParserTypeOK
<1>3. ListsTyped => ListsTyped' BY <1>1 DEF ListsTyped, Distinct
<1> QED BY <1>1, <1>2, <1>3, SameInv DEF ParserInv

----------------------------------------------------------------------------
\* The parts of the invariant behind packet p, one after the other.
LEMMA LastsNext ==
  ASSUME NEW p \in Nat \ {0}, Lasts(p), NEW list, PmtInv(list, p)
  PROVE  Lasts(p + 1)
<1> SUFFICES ASSUME NEW i \in 1..p + 1, NEW j \in 1..i-1, IsPmt(j)
             PROVE  \E h \in 1..i-1 : LastPmt(h, i)
  BY DEF Lasts
<1>1. CASE i \in 1..p
  BY <1>1 DEF Lasts
<1>2. CASE i = p + 1
  <2>1. i - 1 = p BY <1>2
  <2>2. CASE IsPmt(p)
    <3>1. p \in 1..i-1 BY <2>1
    <3> QED BY <1>2, <2>2, <3>1, LastNext
  <2>3. CASE ~IsPmt(p)
    <3>1. j \in 1..p-1 BY <2>1, <2>3
    <3>2. PICK h \in 1..p-1 : LastPmt(h, p) BY <3>1 DEF PmtInv
    <3>3. h \in 1..i-1 BY <2>1
    <3> QED BY <1>2, <2>3, <3>2, <3>3, LastNext
  <2> QED BY <2>2, <2>3
<1>3. i \in 1..p \/ i = p + 1 OBVIOUS
<1> QED BY <1>1, <1>2, <1>3

LEMMA TablesReadNext ==
  ASSUME NEW p \in Nat \ {0}, TablesRead(p),
         IsPat(p) => file[p].section.kind = "pat", IsPmt(p) => file[p].section.kind = "pmt"
  PROVE  TablesRead(p + 1)
<1>1. \A j \in 1..(p + 1)-1 : j \in 1..p-1 \/ j = p OBVIOUS
<1> QED BY <1>1 DEF TablesRead

LEMMA PatNext ==
  ASSUME NEW p \in Nat \ {0}, NEW map, PatInv(map, p)
  PROVE  /\ IsPat(p) => PatInv(file[p].section.programs, p + 1)
         /\ ~IsPat(p) => PatInv(map, p + 1)
<1>1. \A j \in 1..(p + 1)-1 : j \in 1..p-1 \/ j = p OBVIOUS
<1>2. p \in 1..(p + 1)-1 /\ \A j \in 1..p-1 : j \in 1..(p + 1)-1 OBVIOUS
<1>3. IsPat(p) => PatInv(file[p].section.programs, p + 1)
  BY <1>2, LastNext DEF PatInv
<1>4. ~IsPat(p) => PatInv(map, p + 1)
  BY <1>1, <1>2, LastNext DEF PatInv
<1> QED BY <1>3, <1>4

LEMMA PmtNext ==
  ASSUME NEW p \in Nat \ {0}, NEW list, PmtInv(list, p)
  PROVE  /\ IsPmt(p) => PmtInv(file[p].section.streams, p + 1)
         /\ ~IsPmt(p) => PmtInv(list, p + 1)
<1>1. \A j \in 1..(p + 1)-1 : j \in 1..p-1 \/ j = p OBVIOUS
<1>2. p \in 1..(p + 1)-1 /\ \A j \in 1..p-1 : j \in 1..(p + 1)-1 OBVIOUS
<1>3. IsPmt(p) => PmtInv(file[p].section.streams, p + 1)
  BY <1>2, LastNext DEF PmtInv
<1>4. ~IsPmt(p) => PmtInv(list, p + 1)
  BY <1>1, <1>2, LastNext DEF PmtInv
<1> QED BY <1>3, <1>4

DataPiece == [packet : Nat, from : Nat, to : Nat]

LEMMA AnnouncedSkip ==
  ASSUME NEW p \in Nat \ {0}, NEW ex, Announced(ex, p), ~OfStream(p)
  PROVE  Announced(ex, p + 1)
<1>1. \A j \in 1..(p + 1)-1 : j \in 1..p-1 \/ j = p OBVIOUS
<1>2. \A j \in 1..p-1 : j \in 1..(p + 1)-1 OBVIOUS
<1> QED BY <1>1, <1>2 DEF Announced

LEMMA AnnouncedAppend ==
  ASSUME NEW p \in Nat \ {0}, NEW ex \in Seq(DataPiece), Announced(ex, p), OfStream(p),
         NEW e \in DataPiece, e.packet = p
  PROVE  Announced(Append(ex, e), p + 1)
<1> DEFINE new == Append(ex, e)
<1>1. /\ Len(ex) \in Nat /\ Len(new) = Len(ex) + 1 /\ new[Len(ex)+1] = e
      /\ \A k \in 1..Len(ex) : new[k] = ex[k]
  OBVIOUS
<1> HIDE DEF new
<1>2. \A k \in 1..Len(new) : k \in 1..Len(ex) \/ k = Len(ex) + 1 BY <1>1
<1>3. \A j \in 1..p-1 : j \in 1..(p + 1)-1 /\ j < p OBVIOUS
<1>4. p \in 1..(p + 1)-1 OBVIOUS
<1>5. ASSUME NEW k \in 1..Len(new)
      PROVE  /\ OfStream(new[k].packet) /\ new[k].packet \in 1..(p + 1)-1
             /\ \A l \in k+1..Len(new) : new[k].packet < new[l].packet
  <2>1. CASE k \in 1..Len(ex)
    <3>1. new[k] = ex[k] /\ ex[k].packet \in 1..p-1 /\ OfStream(ex[k].packet)
      BY <1>1, <2>1 DEF Announced
    <3>2. ASSUME NEW l \in k+1..Len(new) PROVE ex[k].packet < new[l].packet
      <4>1. CASE l = Len(ex) + 1 BY <1>1, <1>3, <3>1, <4>1
      <4>2. CASE l # Len(ex) + 1
        <5>1. l \in k+1..Len(ex) /\ l \in 1..Len(ex) BY <1>1, <2>1, <4>2
        <5> QED BY <1>1, <2>1, <5>1 DEF Announced
      <4> QED BY <4>1, <4>2
    <3> QED BY <1>3, <3>1, <3>2
  <2>2. CASE k = Len(ex) + 1
    <3>1. k+1..Len(new) = {} BY <1>1, <2>2
    <3> QED BY <1>1, <1>4, <2>2, <3>1
  <2> QED BY <1>2, <2>1, <2>2
<1>6. ASSUME NEW i \in 1..(p + 1)-1, OfStream(i)
      PROVE  \E k \in 1..Len(new) : new[k].packet = i
  <2>1. CASE i = p
    <3>1. Len(ex) + 1 \in 1..Len(new) BY <1>1
    <3> QED BY <1>1, <2>1, <3>1
  <2>2. CASE i # p
    <3>1. i \in 1..p-1 BY <2>2
    <3>2. PICK k \in 1..Len(ex) : ex[k].packet = i BY <1>6, <3>1 DEF Announced
    <3>3. k \in 1..Len(new) BY <1>1
    <3> QED BY <1>1, <3>2, <3>3
  <2> QED BY <2>1, <2>2
<1>7. Announced(new, p + 1) BY <1>5, <1>6 DEF Announced
<1> QED BY <1>7 DEF new

----------------------------------------------------------------------------
\* A turn of the loop that goes on: the part of the types.
LEMMA GoOnTypes ==
  ASSUME ParserTypeInv, NEW p, Turn(p), GoOn,
         \/ extracted' = extracted
         \/ \E e \in DataPiece : /\ e.packet = at
                            /\ HEADER_SIZE <= e.from /\ e.from <= e.to
                            /\ extracted' = Append(extracted, e)
  PROVE  ParserTypeInv'
<1>1. /\ at \in 1..Len(file) /\ p = file[at] /\ at \in Nat \ {0}
      /\ at' = at + 1 /\ UNCHANGED <<tool, file, partial, result>>
      /\ extracted \in Seq(DataPiece)
  BY DEF ParserTypeInv, Turn, At, GoOn, DataPiece
<1>2. extracted' \in Seq(DataPiece)
  <2>1. CASE extracted' = extracted BY <1>1, <2>1
  <2>2. ASSUME NEW e \in DataPiece, extracted' = Append(extracted, e)
        PROVE  extracted' \in Seq(DataPiece)
    BY <1>1, <2>2
  <2> QED BY <2>1, <2>2
<1>3. at' \in 1..Len(file') + 1 BY <1>1 DEF ParserTypeInv
<1>4. ASSUME NEW k \in 1..Len(extracted')
      PROVE  /\ extracted'[k].packet \in 1..at'-1 /\ HEADER_SIZE <= extracted'[k].from
             /\ extracted'[k].from <= extracted'[k].to
  <2>1. \A j \in 1..Len(extracted) :
          /\ extracted[j].packet \in 1..at'-1 /\ HEADER_SIZE <= extracted[j].from
          /\ extracted[j].from <= extracted[j].to
    <3>1. \A j \in 1..at-1 : j \in 1..at'-1 BY <1>1
    <3> QED BY <3>1 DEF ParserTypeInv, ParserTypeOK
  <2>2. CASE extracted' = extracted BY <2>1, <2>2
  <2>3. ASSUME NEW e \in DataPiece, e.packet = at, HEADER_SIZE <= e.from, e.from <= e.to,
               extracted' = Append(extracted, e)
        PROVE  <1>4!2
    <3>1. k \in 1..Len(extracted) \/ k = Len(extracted) + 1 BY <1>1, <2>3
    <3>2. CASE k \in 1..Len(extracted)
      <4>1. extracted'[k] = extracted[k] BY <1>1, <2>3, <3>2
      <4> QED BY <2>1, <3>2, <4>1
    <3>3. CASE k = Len(extracted) + 1
      <4>1. extracted'[k] = e BY <1>1, <2>3, <3>3
      <4>2. at \in 1..at'-1 BY <1>1
      <4> QED BY <2>3, <4>1, <4>2
    <3> QED BY <3>1, <3>2, <3>3
  <2> QED BY <2>2, <2>3
<1>5. ParserTypeOK' BY <1>1, <1>3, <1>4 DEF ParserTypeOK, ParserTypeInv
<1> QED BY <1>1, <1>2, <1>3, <1>5 DEF ParserTypeInv, DataPiece

\* And the part of the tables.
LEMMA GoOnStep ==
  ASSUME ParserInv, ParserTypeInv', NEW p, Turn(p), GoOn,
         pmt_map' \in Seq(PIDs), stream_info_list' \in Seq(Infos), Distinct(stream_info_list'),
         IsPat(at) => p.section.kind = "pat" /\ pmt_map' = p.section.programs,
         ~IsPat(at) => pmt_map' = pmt_map,
         IsPmt(at) => p.section.kind = "pmt" /\ stream_info_list' = p.section.streams,
         ~IsPmt(at) => stream_info_list' = stream_info_list,
         \/ extracted' = extracted /\ (tool # "parse" => ~OfStream(at))
         \/ \E e \in DataPiece : /\ e.packet = at /\ OfStream(at)
                            /\ extracted' = Append(extracted, e)
  PROVE  ParserInv'
<1>1. /\ at \in 1..Len(file) /\ p = file[at] /\ at \in Nat \ {0}
      /\ at' = at + 1 /\ UNCHANGED <<tool, file, partial, result>>
      /\ extracted \in Seq(DataPiece)
  BY DEF ParserInv, ParserTypeInv, Turn, At, GoOn, DataPiece
<1>2. TablesRead(at') BY <1>1, TablesReadNext DEF ParserInv
<1>3. PatInv(pmt_map', at') BY <1>1, PatNext DEF ParserInv
<1>4. PmtInv(stream_info_list', at') BY <1>1, PmtNext DEF ParserInv
<1>5. Lasts(at') BY <1>1, LastsNext DEF ParserInv
<1>6. tool # "parse" => Announced(extracted', at')
  BY <1>1, AnnouncedSkip, AnnouncedAppend DEF ParserInv
<1>7. ListsTyped' BY DEF ListsTyped, Distinct
<1> QED BY <1>1, <1>2, <1>3, <1>4, <1>5, <1>6, <1>7, SameInv DEF ParserInv

----------------------------------------------------------------------------
\* The turns of the loop.  Offsets of a packet are numbers.
LEMMA Offsets ==
  ASSUME NEW p \in InputPacket
  PROVE  /\ AfEnd(p) \in Nat /\ HEADER_SIZE <= AfEnd(p)
         /\ DataStart(p) \in Nat /\ AfEnd(p) <= DataStart(p)
         /\ PayloadType(p) # "PES" => DataStart(p) = AfEnd(p)
<1>1. p.af_length \in Nat /\ p.hlen \in Nat
  BY PacketFields
<1>2. AfEnd(p) \in Nat /\ HEADER_SIZE <= AfEnd(p)
  BY <1>1 DEF AfEnd, HEADER_SIZE
<1>3. CASE PayloadType(p) = "PES"
  BY <1>1, <1>2, <1>3 DEF DataStart
<1>4. CASE PayloadType(p) # "PES"
  BY <1>2, <1>4 DEF DataStart
<1> QED BY <1>2, <1>3, <1>4

LEMMA TurnPacket ==
  ASSUME ParserTypeInv, NEW p, Turn(p)
  PROVE  at \in 1..Len(file) /\ p = file[at] /\ p \in InputPacket /\ p.section \in Sections
<1>1. at \in 1..Len(file) /\ p = file[at] /\ p \in InputPacket
  BY DEF ParserTypeInv, Turn, At
<1> QED BY <1>1, PacketFields

\* What is written begins behind the header and in front of the packet's end.
LEMMA PieceTyped ==
  ASSUME ParserTypeInv, NEW p, Extract(p)
  PROVE  \E e \in DataPiece : /\ e.packet = at /\ HEADER_SIZE <= e.from /\ e.from <= e.to
                         /\ extracted' = Append(extracted, e)
<1>1. /\ Turn(p) /\ HasPayload(p) /\ ~Spills(p)
      /\ extracted' = Append(extracted, [packet |-> at, from |-> DataStart(p), to |-> SIZE])
  BY DEF Extract
<1>2. p \in InputPacket /\ at \in Nat BY <1>1, TurnPacket
<1>3. DataStart(p) \in Nat /\ HEADER_SIZE <= DataStart(p)
  BY <1>2, Offsets DEF HEADER_SIZE
<1>4. DataStart(p) <= SIZE
  <2>1. CASE PayloadType(p) = "PES"
    BY <1>1, <1>3, <2>1 DEF Spills, SIZE
  <2>2. CASE PayloadType(p) # "PES"
    <3>1. AfEnd(p) <= SIZE BY <1>1, <2>2 DEF Turn, PesHeader
    <3> QED BY <1>2, <2>2, <3>1, Offsets
  <2> QED BY <2>1, <2>2
<1> DEFINE piece == [packet |-> at, from |-> DataStart(p), to |-> SIZE]
<1>5. SIZE \in Nat BY DEF SIZE
<1>6. /\ piece \in DataPiece /\ piece.packet = at /\ piece.from = DataStart(p)
      /\ piece.to = SIZE
  BY <1>2, <1>3, <1>5 DEF DataPiece
<1> HIDE DEF DataPiece
<1> QED BY <1>1, <1>3, <1>4, <1>6

\* The types hold whatever the tables are taken for.
LEMMA ParserTypeNext == ParserTypeInv /\ [Parse]_parserVars => ParserTypeInv'
<1> SUFFICES ASSUME ParserTypeInv, [Parse]_parserVars PROVE ParserTypeInv'
  OBVIOUS
<1>1. CASE UNCHANGED parserVars
  <2>1. UNCHANGED <<tool, file, partial, at, extracted, result>>
    BY <1>1 DEF parserVars
  <2> QED BY <2>1 DEF ParserTypeInv, ParserTypeOK
<1>2. CASE Eos
  BY <1>2, EndStep DEF Eos
<1>3. CASE Short
  BY <1>3, EndStep DEF Short
<1>4. ASSUME NEW p, BadPacket(p) PROVE ParserTypeInv'
  BY <1>4, EndStep DEF BadPacket
<1>5. ASSUME NEW p, BadPayload(p) PROVE ParserTypeInv'
  BY <1>5, EndStep DEF BadPayload
<1>6. ASSUME NEW p, Undefined(p) PROVE ParserTypeInv'
  BY <1>6, EndStep DEF Undefined
<1>7. ASSUME NEW p, ReadPat(p) \/ ReadPmt(p) \/ Skip(p) PROVE ParserTypeInv'
  <2>1. Turn(p) /\ GoOn /\ extracted' = extracted BY <1>7 DEF ReadPat, ReadPmt, Skip
  <2> QED BY <2>1, GoOnTypes
<1>8. ASSUME NEW p, Extract(p) PROVE ParserTypeInv'
  <2>1. Turn(p) /\ GoOn BY <1>8 DEF Extract
  <2> QED BY <1>8, <2>1, PieceTyped, GoOnTypes
<1>9. ASSUME NEW p, ParsePacket(p) PROVE ParserTypeInv'
  BY <1>4, <1>5, <1>6, <1>7, <1>8, <1>9 DEF ParsePacket
<1> QED BY <1>1, <1>2, <1>3, <1>9 DEF Parse

LEMMA ReadPatStep ==
  ASSUME ParserInv, ParserTypeInv', NEW p, ReadPat(p)
  PROVE  ParserInv'
<1>1. Turn(p) /\ HasPayload(p) /\ PayloadType(p) = "PAT" /\ GoOn
  BY DEF ReadPat
<1>2. IsPat(at) /\ ~IsPmt(at)
  BY <1>1, Classified
<1>3. p.section.kind = "pat" /\ p.section.programs \in Seq(PIDs)
  BY <1>1, TurnPacket, SectionFields DEF ParserInv, ReadPat, Readable
<1>4. ~OfStream(at) BY <1>2 DEF OfStream
<1>5. pmt_map' = p.section.programs /\ stream_info_list' = stream_info_list /\ extracted' = extracted
  BY DEF ReadPat, StreamsAfterPat
<1>6. stream_info_list \in Seq(Infos) /\ Distinct(stream_info_list) BY DEF ParserInv, ListsTyped
<1> QED BY <1>1, <1>2, <1>3, <1>4, <1>5, <1>6, GoOnStep

\* The table is read as it is meant.
LEMMA ReadPmtStep ==
  ASSUME ParserInv, ParserTypeInv', NoneMisread, NEW p, ReadPmt(p)
  PROVE  ParserInv'
<1>1. Turn(p) /\ HasPayload(p) /\ PayloadType(p) = "PMT" /\ GoOn
  BY DEF ReadPmt
<1>2. ~IsPat(at) /\ IsPmt(at)
  BY <1>1, Classified
<1>3. at \in 1..Len(file) /\ p = file[at] /\ p.section \in Sections
  BY <1>1, TurnPacket DEF ParserInv
<1>4. p.section.kind = "pmt" /\ p.section.streams \in Seq(Infos) /\ Distinct(p.section.streams)
  BY <1>3, SectionFields DEF ReadPmt, Readable
<1>5. p.section.info_length = 0
  BY <1>3, <1>4 DEF ReadPmt, Readable, NoneMisread
<1>6. ~OfStream(at) BY <1>2 DEF OfStream
<1>7. pmt_map' = pmt_map /\ stream_info_list' = p.section.streams /\ extracted' = extracted
  BY <1>5 DEF ReadPmt, StreamsOfPmt, StreamsRead
<1>8. pmt_map \in Seq(PIDs) BY DEF ParserInv, ListsTyped
<1> QED BY <1>1, <1>2, <1>4, <1>6, <1>7, <1>8, GoOnStep

\* A packet that is skipped is no table, and not of the stream asked for.
LEMMA SkipStep ==
  ASSUME ParserInv, ParserTypeInv', NEW p, Skip(p)
  PROVE  ParserInv'
<1>1. Turn(p) /\ GoOn /\ UNCHANGED <<pmt_map, stream_info_list, extracted>>
  BY DEF Skip
<1>2. p = file[at] BY <1>1, TurnPacket DEF ParserInv
<1>3. ~IsPat(at) /\ ~IsPmt(at) /\ (tool # "parse" => ~OfStream(at))
  <2>1. CASE HasPayload(p)
    BY <1>1, <2>1, Classified DEF Skip
  <2>2. CASE ~HasPayload(p)
    BY <1>2, <2>2 DEF IsPat, IsPmt, OfStream
  <2> QED BY <2>1, <2>2
<1>4. pmt_map \in Seq(PIDs) /\ stream_info_list \in Seq(Infos) /\ Distinct(stream_info_list)
  BY DEF ParserInv, ListsTyped
<1> QED BY <1>1, <1>3, <1>4, GoOnStep

LEMMA ExtractStep ==
  ASSUME ParserInv, ParserTypeInv', NEW p, Extract(p)
  PROVE  ParserInv'
<1>1. /\ Turn(p) /\ HasPayload(p) /\ IsOwn(p) /\ GoOn
      /\ UNCHANGED <<pmt_map, stream_info_list>>
  BY DEF Extract
<1>2. OfStream(at) /\ ~IsPat(at) /\ ~IsPmt(at)
  <2>1. OfStream(at) BY <1>1, Classified
  <2> QED BY <2>1 DEF OfStream
<1>3. pmt_map \in Seq(PIDs) /\ stream_info_list \in Seq(Infos) /\ Distinct(stream_info_list)
  BY DEF ParserInv, ListsTyped
<1>4. \E f \in DataPiece : f.packet = at /\ OfStream(at) /\ extracted' = Append(extracted, f)
  <2> HIDE DEF DataPiece
  <2> QED BY <1>2, PieceTyped DEF ParserInv
<1> QED BY <1>1, <1>2, <1>3, <1>4, GoOnStep

LEMMA ParserInitInv == ParserInit => ParserInv
<1> SUFFICES ASSUME ParserInit PROVE ParserInv
  OBVIOUS
<1>1. /\ <<>> \in Seq(PIDs) /\ <<>> \in Seq(Infos)
      /\ <<>> \in Seq([packet : Nat, from : Nat, to : Nat])
      /\ Len(extracted) = 0 /\ 1..Len(extracted) = {} /\ 1..at-1 = {}
  BY DEF ParserInit
<1>2. ListsTyped BY <1>1 DEF ParserInit, ListsTyped, Distinct
<1>3. result \in {"running", "failed"} BY DEF ParserInit, Opened
<1>4. ParserTypeOK
  <2>1. at \in 1..Len(file)+1 BY DEF ParserInit
  <2> QED BY <1>1, <1>3, <2>1 DEF ParserInit, ParserTypeOK
<1>5. ParserTypeInv BY <1>1, <1>4 DEF ParserInit, ParserTypeInv, ParserTypeOK
<1>6. TablesRead(at) /\ PatInv(pmt_map, at) /\ PmtInv(stream_info_list, at)
  BY <1>1 DEF ParserInit, TablesRead, PatInv, PmtInv
<1>7. Lasts(at)
  <2>1. \A i \in 1..at : 1..i-1 = {} BY DEF ParserInit
  <2> QED BY <2>1 DEF Lasts
<1>8. Announced(extracted, at) BY <1>1 DEF Announced
<1> QED BY <1>2, <1>5, <1>6, <1>7, <1>8 DEF ParserInv

LEMMA ParserNextInv == ParserInv /\ NoneMisread /\ [Parse]_parserVars => ParserInv'
<1> SUFFICES ASSUME ParserInv, NoneMisread, [Parse]_parserVars PROVE ParserInv'
  OBVIOUS
<1>0. ParserTypeInv /\ ParserTypeInv' BY ParserTypeNext DEF ParserInv
<1>1. CASE UNCHANGED parserVars
  <2>1. UNCHANGED <<tool, file, partial, at, pmt_map, stream_info_list, extracted, result>>
    BY <1>1 DEF parserVars
  <2>2. ListsTyped' BY <2>1 DEF ParserInv, ListsTyped, Distinct
  <2> QED BY <1>0, <2>1, <2>2, SameInv DEF ParserInv
<1>2. CASE Eos
  BY <1>0, <1>2, EndStep DEF Eos
<1>3. CASE Short
  BY <1>0, <1>3, EndStep DEF Short
<1>4. ASSUME NEW p, BadPacket(p) PROVE ParserInv'
  BY <1>0, <1>4, EndStep DEF BadPacket
<1>5. ASSUME NEW p, BadPayload(p) PROVE ParserInv'
  BY <1>0, <1>5, EndStep DEF BadPayload
<1>6. ASSUME NEW p, Undefined(p) PROVE ParserInv'
  BY <1>0, <1>6, EndStep DEF Undefined
<1>7. ASSUME NEW p, ParsePacket(p) PROVE ParserInv'
  BY <1>0, <1>4, <1>5, <1>6, <1>7, ReadPatStep, ReadPmtStep, SkipStep, ExtractStep DEF ParsePacket
<1> QED BY <1>1, <1>2, <1>3, <1>7 DEF Parse

\* NoneMisread is about the file, which a reader does not change.
LEMMA SameMisread == [Parse]_parserVars => (NoneMisread' <=> NoneMisread)
<1> SUFFICES ASSUME [Parse]_parserVars PROVE file' = file
  BY DEF NoneMisread
<1>1. CASE UNCHANGED parserVars BY <1>1 DEF parserVars
<1>2. CASE Eos \/ Short BY <1>2 DEF Eos, Short, End
<1>3. ASSUME NEW p, ParsePacket(p) PROVE file' = file
  BY <1>3 DEF ParsePacket, BadPacket, ReadPat, ReadPmt, BadPayload, Skip, Extract, Undefined,
              End, GoOn
<1> QED BY <1>1, <1>2, <1>3 DEF Parse

LEMMA ParserInvariance == ParserSpec => []ParserTypeInv /\ [](NoneMisread => ParserInv)
<1>1. ParserInv => ParserTypeInv BY DEF ParserInv
<1> QED BY <1>1, ParserInitInv, ParserTypeNext, ParserNextInv, SameMisread, PTL DEF ParserSpec

\* The parser's position never leaves the file, and what ts-extract writes of a
\* packet lies within that packet, in front of the position.
THEOREM ParserTypeCorrect == ParserSpec => []ParserTypeOK
<1>1. ParserTypeInv => ParserTypeOK BY DEF ParserTypeInv
<1> QED BY <1>1, ParserInvariance, PTL

\* ts-extract writes the packets of the stream by the tables in force at each of
\* them, all of them and in order: get_payload_type and the two lists of the
\* parser amount to "the last PAT, and the last PMT that a PAT in force listed",
\* in every file in which no program descriptors pass for streams.
THEOREM ExtractedHolds == ParserSpec => []ExtractedAsAnnounced
<1>1. (NoneMisread => ParserInv) => ExtractedAsAnnounced
  BY DEF ParserInv, Announced, ExtractedAsAnnounced
<1> QED BY <1>1, ParserInvariance, PTL

\* In a file with one program every packet of the stream behind the first PMT is
\* written, however the tables are repeated among them, as long as no program
\* descriptors pass for streams.
THEOREM NothingLostHolds == ParserSpec => []NothingLostOfOneProgram
<1>1. ASSUME ParserInv, OneProgram, tool # "parse", NEW i \in 1..at-1, NEW j \in 1..at-1,
             IsPmt(j), j < i, ~IsPmt(i), HasPayload(file[i]),
             NEW n \in DOMAIN file[j].section.streams,
             file[j].section.streams[n] = [type |-> TypeOfTool, pid |-> file[i].pid]
      PROVE  \E k \in 1..Len(extracted) : extracted[k].packet = i
  <2>1. at \in 1..Len(file)+1 /\ file \in Seq(InputPacket) /\ at \in Nat
    BY <1>1 DEF ParserInv, ParserTypeInv
  <2>2. j \in 1..i-1 /\ i \in 1..at /\ i \in 1..Len(file) /\ j \in 1..Len(file)
    BY <1>1, <2>1
  <2>3. PICK h \in 1..i-1 : LastPmt(h, i)
    BY <1>1, <2>2 DEF ParserInv, Lasts
  <2>4. h \in 1..at-1 /\ h \in 1..Len(file) /\ IsPmt(h)
    BY <2>1, <2>2, <2>3 DEF LastPmt
  <2>5. file[h].section.kind = "pmt" /\ file[j].section.kind = "pmt"
    BY <1>1, <2>4 DEF ParserInv, TablesRead
  <2>6. file[h].section = file[j].section
    BY <1>1, <2>2, <2>4, <2>5 DEF OneProgram
  <2>7. ~IsPat(i)
    <3>1. file[j] \in InputPacket BY <2>1, <2>2
    <3>2. file[j].section.streams \in Seq(Infos)
      BY <3>1, <2>5, PacketFields, SectionFields
    <3>3. n \in 1..Len(file[j].section.streams) BY <3>2
    <3>4. file[i].pid \in PIDs BY <1>1, <3>2, <3>3, InfoFields
    <3> QED BY <3>4, PidsPlain DEF IsPat
  <2>8. OfStream(i)
    BY <1>1, <2>3, <2>6, <2>7 DEF OfStream
  <2> QED BY <1>1, <2>8 DEF ParserInv, Announced
<1>2. (NoneMisread => ParserInv) => NothingLostOfOneProgram
  BY <1>1 DEF NothingLostOfOneProgram
<1> QED BY <1>2, ParserInvariance, PTL

----------------------------------------------------------------------------
(* The writers and the reader.                                             *)

\* Packet i is a table, the map behind its PAT; or it is where the payload of
\* its call goes on, and nothing else was written since that call was made.
TableAt(i) ==
  /\ out[i].pid \in {PAT_PID, PMT_PID} /\ out[i].pusi /\ out[i].af = 0
  /\ out[i].pid = PMT_PID => i > 1 /\ out[i-1].pid = PAT_PID
PieceAt(i) ==
  LET u == out[i].unit IN
  /\ u \in 1..Len(calls) /\ out[i].pid = Pid(calls[u].stream)
  /\ out[i].pes = IF out[i].pusi THEN PES_HEADER_SIZE ELSE 0
  /\ calls[u].start < i
  /\ \A j \in calls[u].start+1..i : out[j].unit = u
  /\ out[i].from = IF i = calls[u].start + 1 THEN 0 ELSE out[i-1].to

\* What was written when call u was made belongs to earlier calls.
CallAt(u) ==
  /\ calls[u].start \in 0..Len(out)
  /\ \A i \in 1..calls[u].start : out[i].unit < u

\* Packet i is the last one of its call.
EndsAt(i) == IF i < Len(out) THEN out[i+1].unit # out[i].unit ELSE phase # "rest"

OutInv ==
  /\ \A i \in 1..Len(out) : /\ out[i].unit = 0 => TableAt(i)
                            /\ out[i].unit # 0 => PieceAt(i)
                            /\ out[i].unit # 0 /\ EndsAt(i) => out[i].to = calls[out[i].unit].size
  /\ \A u \in 1..Len(calls) : CallAt(u)
  /\ phase = "first" => Call.start = Len(out)

\* The reader's file are the first packets of the output, and every piece that
\* is extracted is what follows the headers of its packet.
ReaderInv ==
  /\ Len(file) \in 0..Len(out)
  /\ file = [i \in 1..Len(file) |-> View(out[i])]
  /\ result \in {"failed", "undefined"} => partial \/ file = <<>>
  /\ result = "done" => at > Len(file)
  /\ tool = "parse" => extracted = <<>>
  /\ \A k \in 1..Len(extracted) :
       LET p == out[extracted[k].packet]
       IN  extracted[k].from = HEADER_SIZE + p.af + p.pes /\ extracted[k].to = SIZE

NotStarted ==
  /\ result = "idle" /\ file = <<>> /\ ~partial /\ extracted = <<>>
  /\ tool \in {"audio", "video", "parse"}

RoundTripInv == IInv /\ OutInv /\ (NotStarted \/ (ParserInv /\ ReaderInv))

----------------------------------------------------------------------------
(* The output.                                                             *)

CallRecord == [stream: Streams, size: PayloadSizes, start: Nat]

LEMMA OutTypes ==
  ASSUME TypeInv
  PROVE  /\ out \in Seq(Packet) /\ Len(out) \in Nat
         /\ calls \in Seq(CallRecord) /\ Len(calls) \in Nat
         /\ \A i \in 1..Len(out) : out[i] \in Packet
         /\ \A u \in 1..Len(calls) : calls[u] \in CallRecord
<1>1. out \in Seq(Packet) /\ calls \in Seq(CallRecord)
  BY DEF TypeInv, TypeOK, CallRecord
<1> HIDE DEF CallRecord
<1> QED BY <1>1

\* What is written stays as it is when more is written or a call is made.
LEMMA OutKept ==
  ASSUME TypeInv, WellFormedInv, OutInv, TypeInv',
         Len(out) <= Len(out'), \A i \in 1..Len(out) : out'[i] = out[i],
         Len(calls) <= Len(calls'), \A u \in 1..Len(calls) : calls'[u] = calls[u]
  PROVE  /\ \A i \in 1..Len(out) : /\ i \in 1..Len(out')
                                   /\ out[i].unit = 0 => TableAt(i)'
                                   /\ out[i].unit # 0 => PieceAt(i)'
                                   /\ out[i].unit # 0 => calls'[out[i].unit] = calls[out[i].unit]
         /\ \A i \in 1..Len(out)-1 : EndsAt(i)' <=> EndsAt(i)
         /\ \A u \in 1..Len(calls) : CallAt(u)'
<1>0. Len(out) \in Nat /\ Len(out') \in Nat /\ Len(calls) \in Nat /\ Len(calls') \in Nat
  <2>1. Len(out') \in Nat /\ Len(calls') \in Nat BY DEF TypeInv, TypeOK
  <2> QED BY <2>1, OutTypes
<1>1. \A i \in 1..Len(out) : i \in 1..Len(out') BY <1>0
<1>2. ASSUME NEW i \in 1..Len(out), out[i].unit = 0 PROVE TableAt(i)'
  <2>1. TableAt(i) BY <1>2 DEF OutInv
  <2>2. i > 1 => i - 1 \in 1..Len(out) BY <1>0
  <2> QED BY <2>1, <2>2 DEF TableAt
<1>3. ASSUME NEW i \in 1..Len(out), out[i].unit # 0
      PROVE  PieceAt(i)' /\ calls'[out[i].unit] = calls[out[i].unit]
  <2> DEFINE u == out[i].unit
  <2>1. PieceAt(i) BY <1>3 DEF OutInv
  <2>2. u \in 1..Len(calls) /\ u \in 1..Len(calls') /\ calls'[u] = calls[u] /\ out'[i].unit = u
    BY <1>0, <2>1 DEF PieceAt
  <2>3. calls[u].start \in Nat BY <2>2, OutTypes DEF CallRecord
  <2>4. \A j \in calls[u].start+1..i : j \in 1..Len(out) BY <1>0, <2>3
  <2>5. i # calls[u].start + 1 => i - 1 \in 1..Len(out)
    BY <1>0, <2>1, <2>3 DEF PieceAt
  <2>6. PieceAt(i)'
    BY <2>1, <2>2, <2>4, <2>5 DEF PieceAt
  <2> QED BY <2>2, <2>6
<1>4. ASSUME NEW i \in 1..Len(out)-1 PROVE EndsAt(i)' <=> EndsAt(i)
  <2>1. i \in 1..Len(out) /\ i + 1 \in 1..Len(out) /\ i < Len(out) /\ i < Len(out') BY <1>0
  <2> QED BY <2>1 DEF EndsAt
<1>5. ASSUME NEW u \in 1..Len(calls) PROVE CallAt(u)'
  <2>1. CallAt(u) BY DEF OutInv
  <2>2. \A i \in 1..calls[u].start : i \in 1..Len(out) BY <1>0, <2>1 DEF CallAt
  <2>3. calls[u].start \in 0..Len(out') BY <1>0, <2>1 DEF CallAt
  <2> QED BY <2>1, <2>2, <2>3 DEF CallAt
<1> QED BY <1>1, <1>2, <1>3, <1>4, <1>5

\* One more packet of the call being served, at the byte where the last one ended.
LEMMA OnePacket ==
  ASSUME IInv, OutInv, IInv', NEW p \in Packet, phase # "idle",
         out' = Append(out, p), UNCHANGED calls, phase' = "rest",
         p.unit = Len(calls), p.pid = Pid(Call.stream),
         p.pes = IF p.pusi THEN PES_HEADER_SIZE ELSE 0,
         phase = "first" => p.from = 0, phase = "rest" => p.from = data_offset
  PROVE  OutInv'
<1>0. TypeInv /\ TypeInv' /\ WellFormedInv /\ CallsInv BY DEF IInv
<1>a. PICK L : L = Len(out) OBVIOUS
<1>b. PICK C : C = Len(calls) OBVIOUS
<1>1. /\ L = Len(out) /\ L \in Nat /\ Len(out') = L + 1 /\ out'[L+1] = p
      /\ \A i \in 1..L : out'[i] = out[i]
  BY <1>0, <1>a, Appended
<1>2. C = Len(calls) /\ C \in Nat \ {0} /\ Call = calls[C] /\ C \in 1..C
  BY <1>0, <1>b, CallType DEF TypeInv, Call
<1>3. phase = "first" \/ phase = "rest" BY <1>0 DEF TypeInv, TypeOK
<1>4. /\ \A i \in 1..L : /\ out[i].unit = 0 => TableAt(i)'
                         /\ out[i].unit # 0 => PieceAt(i)'
                         /\ out[i].unit # 0 => calls'[out[i].unit] = calls[out[i].unit]
      /\ \A i \in 1..L-1 : EndsAt(i)' <=> EndsAt(i)
      /\ \A u \in 1..C : CallAt(u)'
  <2>1. /\ Len(out) <= Len(out') /\ \A i \in 1..Len(out) : out'[i] = out[i]
        /\ Len(calls) <= Len(calls') /\ \A u \in 1..Len(calls) : calls'[u] = calls[u]
    BY <1>1, <1>2
  <2> QED BY <1>1, <1>2, <2>1, <1>0, OutKept
<1>5. calls[C].start \in Nat BY <1>0, <1>2, OutTypes DEF CallRecord
<1>6. PieceAt(L+1)'
  <2> DEFINE s == calls[C].start
  <2>1. /\ s <= L /\ \A j \in s+1..L : out[j].unit = C
        /\ p.from = IF L = s THEN 0 ELSE out[L].to
    <3>1. CASE phase = "first"
      <4>1. s = L BY <1>1, <1>2, <3>1 DEF OutInv
      <4>2. s+1..L = {} BY <1>1, <4>1
      <4> QED BY <1>1, <3>1, <4>1, <4>2
    <3>2. CASE phase = "rest"
      <4>1. L > 0 /\ out[L].unit = C /\ out[L].to = data_offset BY <1>0, <1>1, <1>2, <3>2 DEF CallsInv
      <4>2. L \in 1..L /\ out[L].unit # 0 BY <1>1, <1>2, <4>1
      <4>3. PieceAt(L) BY <1>1, <4>2 DEF OutInv
      <4>4. s < L /\ \A j \in s+1..L : out[j].unit = C BY <4>1, <4>3 DEF PieceAt
      <4> QED BY <1>1, <1>5, <3>2, <4>1, <4>4
    <3> QED BY <1>3, <3>1, <3>2
  <2>2. out'[L+1].unit = C /\ calls'[C] = calls[C] /\ Len(calls') = C BY <1>1, <1>2
  <2>3. ASSUME NEW j \in s+1..L+1 PROVE out'[j].unit = C
    <3>1. CASE j = L + 1 BY <2>2, <3>1
    <3>2. CASE j # L + 1
      <4>1. j \in s+1..L /\ j \in 1..L BY <1>1, <1>5, <3>2
      <4> QED BY <1>1, <2>1, <4>1
    <3> QED BY <3>1, <3>2
  <2>4. out'[L+1].from = IF L+1 = s+1 THEN 0 ELSE out'[(L+1)-1].to
    <3>1. CASE L = s BY <1>1, <1>5, <2>1, <3>1
    <3>2. CASE L # s
      <4>1. L \in 1..L /\ (L+1)-1 = L /\ L+1 # s+1 BY <1>1, <1>5, <2>1, <3>2
      <4> QED BY <1>1, <2>1, <3>2, <4>1
    <3> QED BY <3>1, <3>2
  <2>5. s < L + 1 BY <1>1, <1>5, <2>1
  <2>6. out'[L+1].pid = Pid(calls'[C].stream) BY <1>1, <1>2
  <2> QED BY <1>1, <1>2, <2>2, <2>3, <2>4, <2>5, <2>6 DEF PieceAt
<1>7. ASSUME NEW i \in 1..L, out[i].unit # 0, EndsAt(i)'
      PROVE  out[i].to = calls[out[i].unit].size
  <2>1. EndsAt(i)
    <3>1. CASE i # L
      <4>1. i \in 1..L-1 BY <1>1, <3>1
      <4> QED BY <1>4, <1>7, <4>1
    <3>2. CASE i = L
      <4>1. i < Len(out') /\ out'[i+1] = p /\ out'[i] = out[i] BY <1>1, <3>2
      <4>2. out[L].unit # C BY <1>2, <1>7, <3>2, <4>1 DEF EndsAt
      <4>3. phase # "rest" BY <1>0, <1>1, <1>2, <4>2 DEF CallsInv
      <4> QED BY <1>1, <3>2, <4>3 DEF EndsAt
    <3> QED BY <3>1, <3>2
  <2> QED BY <1>1, <1>7, <2>1 DEF OutInv
<1>8. ASSUME NEW i \in 1..L+1
      PROVE  /\ out'[i].unit = 0 => TableAt(i)'
             /\ out'[i].unit # 0 => PieceAt(i)'
             /\ out'[i].unit # 0 /\ EndsAt(i)' => out'[i].to = calls'[out'[i].unit].size
  <2>1. CASE i \in 1..L BY <1>1, <1>4, <1>7, <2>1
  <2>2. CASE i = L + 1
    <3>1. out'[i].unit = C /\ C # 0 BY <1>1, <1>2, <2>2
    <3>2. ~(i < Len(out')) BY <1>1, <2>2
    <3>3. ~EndsAt(i)' BY <3>2 DEF EndsAt
    <3>4. PieceAt(i)' BY <1>6, <2>2, Zenon
    <3> QED BY <3>1, <3>3, <3>4
  <2> QED BY <1>1, <2>1, <2>2
<1> QED BY <1>1, <1>2, <1>4, <1>8 DEF OutInv

\* Nothing is written and no call made: a call may come to its end.
LEMMA OutSame ==
  ASSUME OutInv, UNCHANGED <<out, calls>>, phase' # "first" \/ phase = "first",
         \A i \in 1..Len(out) : EndsAt(i)' =>
           EndsAt(i) \/ out[i].unit = 0 \/ out[i].to = calls[out[i].unit].size
  PROVE  OutInv'
<1>1. /\ \A i : TableAt(i)' <=> TableAt(i)
      /\ \A i : PieceAt(i)' <=> PieceAt(i)
      /\ \A u : CallAt(u)' <=> CallAt(u)
  BY DEF TableAt, PieceAt, CallAt
<1> QED BY <1>1 DEF OutInv, Call

\* In phase "rest" the last packet of the output is the last one of the call.
LEMMA LastEnds ==
  ASSUME IInv, OutInv, Return
  PROVE  OutInv'
<1>1. phase = "rest" /\ ~More /\ phase' = "idle" /\ UNCHANGED <<out, calls>>
  BY DEF Return
<1>2. /\ Len(out) \in Nat /\ Len(out) > 0
      /\ out[Len(out)].unit = Len(calls) /\ out[Len(out)].to = data_offset
  BY <1>1, OutTypes DEF IInv, CallsInv
<1>3. data_offset = Call.size
  <2>1. data_offset <= Call.size /\ data_offset \in Nat /\ Call.size \in Nat
    BY <1>1, CallType DEF IInv, TypeInv, PhaseInv, TypeOK
  <2> QED BY <1>1, <2>1 DEF More
<1>4. ASSUME NEW i \in 1..Len(out), EndsAt(i)'
      PROVE  EndsAt(i) \/ out[i].to = calls[out[i].unit].size
  <2>1. CASE i = Len(out) BY <1>2, <1>3, <2>1 DEF Call
  <2>2. CASE i < Len(out) BY <1>1, <1>4, <2>2 DEF EndsAt
  <2> QED BY <1>2, <2>1, <2>2
<1> QED BY <1>1, <1>4, OutSame

\* The tables are written between two calls.
LEMMA TablesLaid ==
  ASSUME IInv, OutInv, IInv', WriteTsStart
  PROVE  OutInv'
<1>0. TypeInv /\ TypeInv' /\ WellFormedInv BY DEF IInv
<1>1. PICK L \in Nat : L = Len(out) BY <1>0, OutTypes
<1>2. /\ Len(out') = L + 2
      /\ out'[L+1] = TablePacket(PAT_PID) /\ out'[L+2] = TablePacket(PMT_PID)
      /\ \A i \in 1..L : out'[i] = out[i]
  BY <1>0, <1>1, TablesAppended
<1>3. phase = "idle" /\ phase' = "idle" /\ calls' = calls BY DEF WriteTsStart
<1>4. /\ out'[L+1].unit = 0 /\ out'[L+1].pid = PAT_PID /\ out'[L+1].pusi
      /\ out'[L+2].unit = 0 /\ out'[L+2].pid = PMT_PID /\ out'[L+2].pusi
      /\ out'[L+1].af = 0 /\ out'[L+2].af = 0
  BY <1>2 DEF TablePacket
<1>5. TableAt(L+1)' /\ TableAt(L+2)'
  <2>1. PAT_PID # PMT_PID BY DEF PAT_PID, PMT_PID
  <2>2. TableAt(L+1)' BY <1>4, <2>1 DEF TableAt
  <2>3. L+2 > 1 /\ (L+2)-1 = L+1 BY <1>1
  <2>4. TableAt(L+2)' BY <1>4, <2>3 DEF TableAt
  <2> QED BY <2>2, <2>4
<1>6. /\ \A i \in 1..L : /\ out[i].unit = 0 => TableAt(i)'
                         /\ out[i].unit # 0 => PieceAt(i)'
      /\ \A i \in 1..L-1 : EndsAt(i)' <=> EndsAt(i)
      /\ \A u \in 1..Len(calls) : CallAt(u)'
  <2>1. /\ Len(out) <= Len(out') /\ \A i \in 1..Len(out) : out'[i] = out[i]
        /\ Len(calls) <= Len(calls') /\ \A u \in 1..Len(calls) : calls'[u] = calls[u]
    <3>1. Len(calls) \in Nat BY <1>0, OutTypes
    <3> QED BY <1>1, <1>2, <1>3, <3>1
  <2> QED BY <1>0, <1>1, <2>1, OutKept
<1>7. ASSUME NEW i \in 1..L, out[i].unit # 0, EndsAt(i)'
      PROVE  out[i].to = calls[out[i].unit].size
  <2>1. EndsAt(i)
    <3>1. CASE i # L
      <4>1. i \in 1..L-1 BY <1>1, <3>1
      <4> QED BY <1>6, <1>7, <4>1
    <3>2. CASE i = L BY <1>1, <1>3, <3>2 DEF EndsAt
    <3> QED BY <3>1, <3>2
  <2> QED BY <1>1, <1>7, <2>1 DEF OutInv
<1>8. ASSUME NEW i \in 1..L+2
      PROVE  /\ out'[i].unit = 0 => TableAt(i)'
             /\ out'[i].unit # 0 => PieceAt(i)'
             /\ out'[i].unit # 0 /\ EndsAt(i)' => out'[i].to = calls'[out'[i].unit].size
  <2>1. CASE i \in 1..L BY <1>2, <1>3, <1>6, <1>7, <2>1
  <2>2. CASE i = L + 1 BY <1>4, <1>5, <2>2
  <2>3. CASE i = L + 2 BY <1>4, <1>5, <2>3
  <2> QED BY <1>1, <2>1, <2>2, <2>3
<1> QED BY <1>2, <1>3, <1>6, <1>8 DEF OutInv

\* A call is made: its packets will come behind those that are there.
LEMMA CallMade ==
  ASSUME IInv, OutInv, IInv', NEW s \in Streams, NEW n \in PayloadSizes, Enter(s, n)
  PROVE  OutInv'
<1>0. TypeInv /\ TypeInv' /\ WellFormedInv BY DEF IInv
<1>1. PICK C \in Nat : C = Len(calls) BY <1>0, OutTypes
<1>2. PICK c \in CallRecord : c.start = Len(out) /\ calls' = Append(calls, c)
  <2> DEFINE c == [stream |-> s, size |-> n, start |-> Len(out)]
  <2>1. c \in CallRecord BY <1>0, OutTypes DEF CallRecord
  <2> QED BY <2>1 DEF Enter
<1>3. phase = "idle" /\ phase' = "first" /\ out' = out BY DEF Enter
<1>4. /\ Len(calls') = C + 1 /\ calls'[C+1] = c
      /\ \A u \in 1..C : calls'[u] = calls[u]
  BY <1>0, <1>1, <1>2, OutTypes
<1>5. /\ \A i \in 1..Len(out) : /\ out[i].unit = 0 => TableAt(i)'
                                /\ out[i].unit # 0 => PieceAt(i)'
                                /\ out[i].unit # 0 => calls'[out[i].unit] = calls[out[i].unit]
      /\ \A u \in 1..C : CallAt(u)'
  <2>1. /\ Len(out) <= Len(out') /\ \A i \in 1..Len(out) : out'[i] = out[i]
        /\ Len(calls) <= Len(calls') /\ \A u \in 1..Len(calls) : calls'[u] = calls[u]
    <3>1. Len(out) \in Nat BY <1>0, OutTypes
    <3> QED BY <1>1, <1>3, <1>4, <3>1
  <2> QED BY <1>0, <1>1, <2>1, OutKept
<1>6. ASSUME NEW i \in 1..Len(out), out[i].unit # 0, EndsAt(i)'
      PROVE  out[i].to = calls'[out[i].unit].size
  <2>1. EndsAt(i) BY <1>3, <1>6 DEF EndsAt
  <2>2. out[i].to = calls[out[i].unit].size BY <1>6, <2>1 DEF OutInv
  <2> QED BY <1>5, <1>6, <2>2
<1>7. CallAt(C+1)'
  <2>1. Len(out) \in Nat BY <1>0, OutTypes
  <2>2. \A i \in 1..Len(out) : out[i].unit < C + 1
    <3> SUFFICES ASSUME NEW i \in 1..Len(out) PROVE out[i].unit < C + 1
      OBVIOUS
    <3>1. out[i].unit # 0 => out[i].unit \in 1..C BY <1>1 DEF OutInv, PieceAt
    <3> QED BY <1>1, <3>1
  <2> QED BY <1>2, <1>3, <1>4, <2>1, <2>2 DEF CallAt
<1>8. \A u \in 1..C+1 : u \in 1..C \/ u = C+1 BY <1>1
<1>9. Call'.start = Len(out') BY <1>2, <1>3, <1>4 DEF Call
<1> QED BY <1>3, <1>4, <1>5, <1>6, <1>7, <1>8, <1>9 DEF OutInv

LEMMA OutStep ==
  ASSUME IInv, OutInv, [Next]_vars
  PROVE  IInv' /\ OutInv'
<1>0. IInv' /\ TypeInv BY IInvStep DEF IInv
<1>1. CASE WriteTsStart BY <1>0, <1>1, TablesLaid
<1>2. ASSUME NEW s \in Streams, NEW n \in PayloadSizes, Enter(s, n) PROVE OutInv'
  BY <1>0, <1>2, CallMade
<1>3. ASSUME NEW s \in Streams, Retry(s) PROVE OutInv'
  <2>1. phase = "first" /\ phase' = "first" /\ UNCHANGED <<out, calls>> BY <1>3 DEF Retry
  <2>2. \A i \in 1..Len(out) : EndsAt(i)' => EndsAt(i) BY <2>1 DEF EndsAt
  <2> QED BY <2>1, <2>2, OutSame
<1>4. ASSUME NEW s \in Streams, WriteFirst(s) PROVE OutInv'
  <2>0. PICK p : p = FirstPacket(s) OBVIOUS
  <2>1. /\ phase = "first" /\ phase' = "rest" /\ Call.stream = s /\ UNCHANGED calls
        /\ Call.size >= FirstRoom(stuffing_byte_size, s = "video")
        /\ out' = Append(out, p)
    BY <1>4, <2>0 DEF WriteFirst
  <2>2. /\ p \in Packet /\ p.pid = Pid(s) /\ p.pusi = TRUE /\ p.pes = 19
        /\ p.unit = Len(calls) /\ p.from = 0
    BY <1>0, <2>0, <2>1, FirstStep
  <2>3. p.pes = IF p.pusi THEN PES_HEADER_SIZE ELSE 0 BY <2>2 DEF PES_HEADER_SIZE
  <2> QED BY <1>0, <2>1, <2>2, <2>3, OnePacket
<1>5. ASSUME NEW s \in Streams, WriteRest(s) PROVE OutInv'
  <2>0. PICK p : p = RestPacket(s) OBVIOUS
  <2>1. /\ phase = "rest" /\ phase' = "rest" /\ Call.stream = s /\ UNCHANGED calls /\ More
        /\ out' = Append(out, p)
    BY <1>5, <2>0 DEF WriteRest
  <2>2. /\ p \in Packet /\ p.pid = Pid(s) /\ p.pusi = FALSE /\ p.pes = 0
        /\ p.unit = Len(calls) /\ p.from = data_offset
    BY <1>0, <2>0, <2>1, RestStep
  <2>3. p.pes = IF p.pusi THEN PES_HEADER_SIZE ELSE 0 BY <2>2
  <2> QED BY <1>0, <2>1, <2>2, <2>3, OnePacket
<1>6. CASE Return BY <1>0, <1>6, LastEnds
<1>7. CASE UNCHANGED vars
  <2>1. UNCHANGED <<out, calls, phase>> BY <1>7 DEF vars
  <2>2. \A i \in 1..Len(out) : EndsAt(i)' => EndsAt(i) BY <2>1 DEF EndsAt
  <2> QED BY <1>0, <2>1, <2>2, OutSame
<1> QED
  BY <1>0, <1>1, <1>2, <1>3, <1>4, <1>5, <1>6, <1>7
     DEF Next, Serve, RetryVideo, WriteVideoFirst, WriteVideoRest, RetryAudio,
         WriteAudioFirst, WriteAudioRest, Streams

----------------------------------------------------------------------------
(* The file.                                                               *)

\* A packet of the output as the parser meets it.
LEMMA ViewFields ==
  ASSUME NEW p
  PROVE  /\ View(p).sync /\ View(p).pid = p.pid /\ View(p).pusi = p.pusi
         /\ View(p).afe = p.afe /\ View(p).af_length = p.af_length /\ View(p).hlen = 10
         /\ View(p).stamps
         /\ View(p).section = IF p.pusi THEN Tables(p.pid) ELSE OtherSection
BY DEF View, PES_HEADER_SIZE

LEMMA TableSections ==
  /\ Tables(PAT_PID) \in Sections /\ Tables(PAT_PID).kind = "pat"
  /\ Tables(PAT_PID).programs = <<PMT_PID>>
  /\ Tables(PMT_PID) \in Sections /\ Tables(PMT_PID).kind = "pmt"
  /\ Tables(PMT_PID).info_length = 0
  /\ Tables(PMT_PID).streams = <<[type |-> STREAM_TYPE_VIDEO, pid |-> ES_VIDEO_PID],
                                 [type |-> STREAM_TYPE_AUDIO, pid |-> ES_AUDIO_PID]>>
  /\ \A pid : pid \notin {PAT_PID, PMT_PID} =>
       Tables(pid) \in Sections /\ Tables(pid).kind = "pes"
  /\ OtherSection \in Sections
<1> DEFINE list == <<[type |-> STREAM_TYPE_VIDEO, pid |-> ES_VIDEO_PID],
                     [type |-> STREAM_TYPE_AUDIO, pid |-> ES_AUDIO_PID]>>
<1>1. PAT_PID # PMT_PID BY DEF PAT_PID, PMT_PID
<1>2. /\ Tables(PAT_PID) = PatSection(<<PMT_PID>>)
      /\ Tables(PMT_PID) = PmtSection(list)
      /\ \A pid : pid \notin {PAT_PID, PMT_PID} => Tables(pid) = PesSection
  BY <1>1 DEF Tables
<1>3. PMT_PID \in PIDs /\ ES_VIDEO_PID \in PIDs /\ ES_AUDIO_PID \in PIDs
  BY DEF PIDs, PMT_PID, ES_VIDEO_PID, ES_AUDIO_PID, NULL_PID
<1>4. STREAM_TYPE_VIDEO \in 0..255 /\ STREAM_TYPE_AUDIO \in 0..255
  BY DEF STREAM_TYPE_VIDEO, STREAM_TYPE_AUDIO
<1>5. ES_VIDEO_PID # ES_AUDIO_PID BY DEF ES_VIDEO_PID, ES_AUDIO_PID
<1>6. list \in Seq([type : 0..255, pid : PIDs]) /\ DOMAIN list = {1, 2}
      /\ list[1].pid = ES_VIDEO_PID /\ list[2].pid = ES_AUDIO_PID
  BY <1>3, <1>4
<1>7. \A m, n \in DOMAIN list : list[m].pid = list[n].pid => m = n BY <1>5, <1>6
<1> HIDE DEF list
<1> DEFINE pmts == {s \in [kind : {"pmt"}, streams : Seq([type : 0..255, pid : PIDs]),
                           info_length : 0..4095, passes : BOOLEAN,
                           misread : Seq([type : 0..255, pid : 0..NULL_PID])] :
                      \A m, n \in DOMAIN s.streams :
                        s.streams[m].pid = s.streams[n].pid => m = n}
<1>8. PmtSection(list) \in pmts
  BY <1>6, <1>7 DEF PmtSection
<1>9. PatSection(<<PMT_PID>>) \in [kind : {"pat"}, programs : Seq(PIDs)]
  BY <1>3 DEF PatSection
<1>10. PesSection \in [kind : {"pes", "other"}] /\ OtherSection \in [kind : {"pes", "other"}]
  BY DEF PesSection, OtherSection
<1>11. /\ PmtSection(list).kind = "pmt" /\ PmtSection(list).info_length = 0
       /\ PmtSection(list).streams = list
       /\ PatSection(<<PMT_PID>>).kind = "pat"
       /\ PatSection(<<PMT_PID>>).programs = <<PMT_PID>> /\ PesSection.kind = "pes"
  BY DEF PmtSection, PatSection, PesSection
<1>12. /\ PmtSection(list) \in Sections /\ PatSection(<<PMT_PID>>) \in Sections
       /\ PesSection \in Sections /\ OtherSection \in Sections
  <2> DEFINE pat == [kind : {"pat"}, programs : Seq(PIDs)]
             pes == [kind : {"pes", "other"}]
  <2>1. Sections = (pat \cup pes) \cup pmts BY Zenon DEF Sections
  <2>3. PatSection(<<PMT_PID>>) \in pat BY <1>9, Zenon
  <2>4. PesSection \in pes /\ OtherSection \in pes BY <1>10, Zenon
  <2> HIDE DEF pat, pes, pmts
  <2> QED BY <1>8, <2>1, <2>3, <2>4, SMT
<1> QED BY <1>2, <1>11, <1>12, Zenon DEF list

Reading == IInv /\ OutInv /\ ParserInv /\ ReaderInv

LEMMA FileOf ==
  ASSUME Reading
  PROVE  /\ Len(file) \in Nat /\ Len(out) \in Nat /\ at \in Nat \ {0} /\ at <= Len(file) + 1
         /\ \A i \in 1..Len(file) :
              /\ i \in 1..Len(out) /\ out[i] \in Packet /\ file[i] = View(out[i])
              /\ WellFormed(out[i])
              /\ out[i].unit = 0 => TableAt(i)
              /\ out[i].unit # 0 => PieceAt(i)
<1>1. Len(out) \in Nat /\ \A i \in 1..Len(out) : out[i] \in Packet
  BY OutTypes DEF Reading, IInv
<1>2. Len(file) \in 0..Len(out) /\ file = [i \in 1..Len(file) |-> View(out[i])]
  BY DEF Reading, ReaderInv
<1>3. at \in 1..Len(file) + 1 BY DEF Reading, ParserInv, ParserTypeInv
<1>4. Len(file) \in Nat /\ \A i \in 1..Len(file) : i \in 1..Len(out) BY <1>1, <1>2
<1>5. \A i \in 1..Len(file) : file[i] = View(out[i])
  <2> DEFINE n == Len(file)
  <2> HIDE DEF n
  <2>1. file = [i \in 1..n |-> View(out[i])] BY <1>2 DEF n
  <2> QED BY <2>1 DEF n
<1>6. \A i \in 1..Len(out) : /\ WellFormed(out[i])
                             /\ out[i].unit = 0 => TableAt(i)
                             /\ out[i].unit # 0 => PieceAt(i)
  BY DEF Reading, OutInv, IInv, WellFormedInv
<1> QED BY <1>1, <1>3, <1>4, <1>5, <1>6

\* The writers put no program descriptors into their tables.
LEMMA NoDescriptors ==
  ASSUME Reading
  PROVE  NoneMisread
<1> SUFFICES ASSUME NEW i \in 1..Len(file), file[i].section.kind = "pmt"
             PROVE  file[i].section.info_length = 0
  BY DEF NoneMisread
<1>1. PICK q : q = out[i] OBVIOUS
<1>2. file[i].section = IF q.pusi THEN Tables(q.pid) ELSE OtherSection
  BY <1>1, FileOf, ViewFields
<1>3. OtherSection.kind # "pmt" BY DEF OtherSection
<1>4. file[i].section = Tables(q.pid) BY <1>2, <1>3
<1>5. Tables(q.pid).kind = "pmt" BY <1>4
<1>6. q.pid \notin {PAT_PID, PMT_PID} => Tables(q.pid).kind = "pes" BY TableSections
<1>7. q.pid = PMT_PID BY <1>5, <1>6, TableSections
<1> QED BY <1>4, <1>7, TableSections

\* The tables are apart from the payloads by their PIDs and begin a payload unit.
LEMMA PacketOf ==
  ASSUME Reading, NEW i \in 1..Len(file)
  PROVE  /\ out[i].unit = 0 <=> out[i].pid \in {PAT_PID, PMT_PID}
         /\ out[i].unit # 0 => /\ out[i].pid \in EsPids /\ out[i].unit \in 1..Len(calls)
                               /\ calls[out[i].unit] \in CallRecord
                               /\ out[i].pid = Pid(calls[out[i].unit].stream)
         /\ out[i].unit = 0 => out[i].pusi
         /\ HasPayload(file[i]) /\ file[i].pid = out[i].pid /\ file[i].pusi = out[i].pusi
         /\ out[i].pusi => file[i].section = Tables(out[i].pid)
<1>1. /\ out[i] \in Packet /\ file[i] = View(out[i])
      /\ out[i].unit = 0 => TableAt(i)
      /\ out[i].unit # 0 => PieceAt(i)
  BY FileOf
<1>2. HasPayload(file[i])
  <2>1. out[i].afe \in {1, 3} BY <1>1 DEF Packet
  <2> QED BY <1>1, <2>1, ViewFields DEF HasPayload
<1>3. out[i].unit = 0 => out[i].pid \in {PAT_PID, PMT_PID} /\ out[i].pusi
  BY <1>1 DEF TableAt
<1>4. ASSUME out[i].unit # 0
      PROVE  /\ out[i].pid \in EsPids /\ out[i].unit \in 1..Len(calls)
             /\ calls[out[i].unit] \in CallRecord
             /\ out[i].pid = Pid(calls[out[i].unit].stream)
             /\ out[i].pid \notin {PAT_PID, PMT_PID}
  <2>1. out[i].unit \in 1..Len(calls) /\ out[i].pid = Pid(calls[out[i].unit].stream)
    BY <1>1, <1>4 DEF PieceAt
  <2>2. calls[out[i].unit] \in CallRecord BY <2>1, OutTypes DEF Reading, IInv
  <2>3. calls[out[i].unit].stream \in Streams BY <2>2 DEF CallRecord
  <2>4. \A s \in Streams : Pid(s) \in EsPids /\ Pid(s) # PAT_PID /\ Pid(s) # PMT_PID
    BY PidsDiffer, Zenon DEF Pid, EsPids
  <2> QED BY <2>1, <2>2, <2>3, <2>4
<1> QED BY <1>1, <1>2, <1>3, <1>4, ViewFields

\* The PAT and the PMT that TsParser knows are those the writers have made.
LEMMA TablesOf ==
  ASSUME Reading, NEW i \in 1..Len(file)
  PROVE  /\ IsPat(i) <=> out[i].pid = PAT_PID
         /\ IsPmt(i) <=> out[i].pid = PMT_PID
         /\ IsPat(i) => file[i].section.programs = <<PMT_PID>>
         /\ IsPmt(i) => file[i].section.streams = Tables(PMT_PID).streams
<1>1. /\ \A k \in 1..Len(file) : /\ HasPayload(file[k]) /\ file[k].pid = out[k].pid
                                 /\ file[k].pusi = out[k].pusi
                                 /\ out[k].pid = PAT_PID => out[k].pusi
                                 /\ out[k].pid = PMT_PID => out[k].pusi
                                 /\ out[k].pusi => file[k].section = Tables(out[k].pid)
  BY PacketOf
<1>2. \A k \in 1..Len(file) : IsPat(k) <=> out[k].pid = PAT_PID BY <1>1 DEF IsPat
<1>3. \A k \in 1..Len(file) : IsPat(k) => file[k].section.programs = <<PMT_PID>>
  BY <1>1, <1>2, TableSections
<1>4. i \in Nat /\ \A k \in 1..i-1 : k \in 1..Len(file) BY FileOf
<1>5. ASSUME IsPmt(i) PROVE out[i].pid = PMT_PID
  <2>1. PICK k \in 1..i-1 : /\ LastPat(k, i)
                            /\ \E n \in DOMAIN file[k].section.programs :
                                 file[k].section.programs[n] = file[i].pid
    BY <1>5 DEF IsPmt
  <2>2. IsPat(k) BY <2>1 DEF LastPat
  <2>3. file[k].section.programs = <<PMT_PID>> BY <1>3, <1>4, <2>2
  <2>4. \A n \in DOMAIN <<PMT_PID>> : <<PMT_PID>>[n] = PMT_PID OBVIOUS
  <2>5. file[i].pid = PMT_PID BY <2>1, <2>3, <2>4
  <2> QED BY <1>1, <2>5
<1>6. ASSUME out[i].pid = PMT_PID PROVE IsPmt(i)
  <2>1. out[i].unit = 0 BY <1>6, PacketOf
  <2>2. i > 1 /\ out[i-1].pid = PAT_PID BY <1>6, <2>1, FileOf DEF TableAt
  <2>3. i-1 \in 1..i-1 /\ i-1 \in 1..Len(file) BY <1>4, <2>2
  <2>4. IsPat(i-1) BY <1>2, <2>2, <2>3
  <2>5. LastPat(i-1, i)
    <3>1. i-1 < i /\ (i-1)+1..i-1 = {} BY <1>4
    <3> QED BY <2>4, <3>1 DEF LastPat
  <2>6. file[i-1].section.programs = <<PMT_PID>> BY <1>3, <2>3, <2>4
  <2>7. 1 \in DOMAIN <<PMT_PID>> /\ <<PMT_PID>>[1] = PMT_PID OBVIOUS
  <2>8. \E n \in DOMAIN file[i-1].section.programs :
          file[i-1].section.programs[n] = file[i].pid
    BY <1>1, <1>6, <2>6, <2>7
  <2>9. file[i].pusi /\ HasPayload(file[i]) BY <1>1, <1>6
  <2> QED BY <2>3, <2>5, <2>8, <2>9 DEF IsPmt
<1>7. IsPmt(i) => file[i].section.streams = Tables(PMT_PID).streams
  BY <1>1, <1>5
<1> QED BY <1>2, <1>3, <1>5, <1>6, <1>7

\* A packet belongs to a call that was made behind a PMT if and only if there
\* is a PMT in front of it: none is written while a call is served.
LEMMA BehindPmt ==
  ASSUME Reading, NEW i \in 1..Len(file), out[i].unit # 0
  PROVE  (\E j \in 1..Len(file) : file[j].pid = PMT_PID /\ j <= calls[out[i].unit].start) <=>
           \E j \in 1..i-1 : out[j].pid = PMT_PID
<1> DEFINE s == calls[out[i].unit].start
<1>1. s \in Nat /\ s < i /\ i \in Nat /\ \A j \in s+1..i : out[j].unit = out[i].unit
  <2>1. s \in Nat BY PacketOf DEF CallRecord
  <2>2. PieceAt(i) /\ i \in Nat BY FileOf
  <2> QED BY <2>1, <2>2 DEF PieceAt
<1> HIDE DEF s
<1>2. Len(file) \in Nat /\ i <= Len(file) BY FileOf
<1>3. \A j \in 1..Len(file) : /\ file[j].pid = out[j].pid
                              /\ out[j].pid = PMT_PID => out[j].unit = 0
  BY PacketOf
<1>4. ASSUME NEW j \in 1..Len(file), file[j].pid = PMT_PID, j <= s
      PROVE  j \in 1..i-1 /\ out[j].pid = PMT_PID
  BY <1>1, <1>3, <1>4
<1>5. ASSUME NEW j \in 1..i-1, out[j].pid = PMT_PID
      PROVE  j \in 1..Len(file) /\ file[j].pid = PMT_PID /\ j <= s
  <2>1. j \in 1..Len(file) BY <1>1, <1>2
  <2>2. out[j].unit = 0 BY <1>3, <1>5, <2>1
  <2>3. ~(j \in s+1..i) BY <1>1, <2>2
  <2>4. j <= s BY <1>1, <2>3
  <2> QED BY <1>3, <1>5, <2>1, <2>4
<1> QED BY <1>4, <1>5 DEF s

\* TsParser takes the packets of the wanted calls.
LEMMA StreamOf ==
  ASSUME Reading, tool # "parse", NEW i \in 1..at-1
  PROVE  i \in 1..Len(file) /\ (OfStream(i) <=> out[i].unit \in Wanted)
<1>1. i \in 1..Len(file) /\ i \in Nat /\ i \in 1..at /\ \A j \in 1..i-1 : j \in 1..Len(file)
  BY FileOf
<1>2. tool \in Streams BY DEF Reading, ParserInv, ParserTypeInv, Streams
<1> DEFINE list == Tables(PMT_PID).streams
           own(pid) == \E n \in DOMAIN list : list[n] = [type |-> TypeOfTool, pid |-> pid]
<1>3. \A pid : own(pid) <=> pid = Pid(tool)
  <2>1. list = <<[type |-> STREAM_TYPE_VIDEO, pid |-> ES_VIDEO_PID],
                 [type |-> STREAM_TYPE_AUDIO, pid |-> ES_AUDIO_PID]>>
    BY TableSections
  <2>2. \A pid : own(pid) <=>
          \/ TypeOfTool = STREAM_TYPE_VIDEO /\ pid = ES_VIDEO_PID
          \/ TypeOfTool = STREAM_TYPE_AUDIO /\ pid = ES_AUDIO_PID
    <3> DEFINE l == <<[type |-> STREAM_TYPE_VIDEO, pid |-> ES_VIDEO_PID],
                      [type |-> STREAM_TYPE_AUDIO, pid |-> ES_AUDIO_PID]>>
    <3>1. /\ DOMAIN l = {1, 2}
          /\ l[1] = [type |-> STREAM_TYPE_VIDEO, pid |-> ES_VIDEO_PID]
          /\ l[2] = [type |-> STREAM_TYPE_AUDIO, pid |-> ES_AUDIO_PID]
      OBVIOUS
    <3>2. \A t, pid, v, q : [type |-> v, pid |-> q] = [type |-> t, pid |-> pid] <=> v = t /\ q = pid
      OBVIOUS
    <3> QED BY <2>1, <3>1, <3>2
  <2>3. STREAM_TYPE_VIDEO # STREAM_TYPE_AUDIO BY DEF STREAM_TYPE_VIDEO, STREAM_TYPE_AUDIO
  <2>4. TypeOfTool = STREAM_TYPE_AUDIO <=> tool = "audio"
    BY <2>3 DEF TypeOfTool
  <2>5. TypeOfTool = STREAM_TYPE_VIDEO <=> tool # "audio"
    BY <2>3 DEF TypeOfTool
  <2> QED BY <1>2, <2>2, <2>4, <2>5 DEF Pid, Streams
<1> HIDE DEF list, own
<1>4. out[i].pid = Pid(tool) <=> out[i].unit # 0 /\ calls[out[i].unit].stream = tool
  <2>1. out[i].unit # 0 => /\ calls[out[i].unit].stream \in Streams
                           /\ out[i].pid = Pid(calls[out[i].unit].stream)
    BY <1>1, PacketOf DEF CallRecord
  <2>2. out[i].unit = 0 => out[i].pid # Pid(tool) BY <1>1, <1>2, PacketOf, PidsDiffer
  <2> QED BY <1>2, <2>1, <2>2, PidsDiffer
<1>5. /\ ~IsPat(i) /\ ~IsPmt(i) <=> out[i].unit # 0
      /\ HasPayload(file[i]) /\ file[i].pid = out[i].pid
  BY <1>1, TablesOf, PacketOf
<1>6. (\E j \in 1..i-1 : LastPmt(j, i)) <=> \E j \in 1..i-1 : out[j].pid = PMT_PID
  <2>1. (\E j \in 1..i-1 : IsPmt(j)) => \E j \in 1..i-1 : LastPmt(j, i)
    BY <1>1 DEF Reading, ParserInv, Lasts
  <2>2. \A j \in 1..i-1 : IsPmt(j) <=> out[j].pid = PMT_PID BY <1>1, TablesOf
  <2> QED BY <2>1, <2>2 DEF LastPmt
<1>7. \A j \in 1..i-1 : LastPmt(j, i) => file[j].section.streams = list
  BY <1>1, TablesOf DEF LastPmt, list
<1>8. OfStream(i) <=> out[i].unit # 0 /\ (\E j \in 1..i-1 : LastPmt(j, i)) /\ own(out[i].pid)
  BY <1>5, <1>7 DEF OfStream, own
<1>9. OfStream(i) <=> /\ out[i].unit # 0 /\ calls[out[i].unit].stream = tool
                      /\ \E j \in 1..i-1 : out[j].pid = PMT_PID
  BY <1>3, <1>4, <1>6, <1>8
<1>10. out[i].unit # 0 => out[i].unit \in 1..Len(calls) BY <1>1, PacketOf
<1>11. out[i].unit \in Wanted <=> /\ out[i].unit # 0 /\ calls[out[i].unit].stream = tool
                                  /\ \E j \in 1..i-1 : out[j].pid = PMT_PID
  <2>1. CASE out[i].unit = 0
    <3>1. Len(calls) \in Nat BY OutTypes DEF Reading, IInv
    <3>2. 0 \notin 1..Len(calls) BY <3>1
    <3> QED BY <2>1, <3>2 DEF Wanted
  <2>2. CASE out[i].unit # 0
    BY <1>1, <1>10, <2>2, BehindPmt DEF Wanted
  <2> QED BY <2>1, <2>2
<1> QED BY <1>1, <1>9, <1>11

----------------------------------------------------------------------------
(* What is extracted.                                                      *)

\* The calls follow each other in the output.
LEMMA CallOrder ==
  ASSUME IInv, OutInv, NEW i \in 1..Len(out), out[i].unit # 0, NEW j \in 1..i
  PROVE  /\ calls[out[i].unit].start \in Nat /\ calls[out[i].unit].start < i
         /\ out[i].unit \in Nat /\ out[j].unit \in Nat /\ out[j].unit <= out[i].unit
         /\ out[j].unit = out[i].unit <=> j > calls[out[i].unit].start
         /\ i > calls[out[i].unit].start + 1 => out[i].from = out[i-1].to
         /\ i = calls[out[i].unit].start + 1 => out[i].from = 0
<1> DEFINE u == out[i].unit
           s == calls[u].start
<1>1. /\ u \in 1..Len(calls) /\ s < i /\ \A k \in s+1..i : out[k].unit = u
      /\ out[i].from = IF i = s + 1 THEN 0 ELSE out[i-1].to
  BY DEF OutInv, PieceAt
<1>2. s \in Nat /\ \A k \in 1..s : out[k].unit < u
  <2>1. CallAt(u) BY <1>1 DEF OutInv
  <2> QED BY <2>1, OutTypes DEF CallAt, IInv
<1>3. Len(out) \in Nat /\ Len(calls) \in Nat /\ j \in 1..Len(out)
  <2>1. Len(out) \in Nat /\ Len(calls) \in Nat BY OutTypes DEF IInv
  <2> QED BY <2>1
<1>4. u \in Nat /\ out[j].unit \in Nat
  <2>1. \A p \in Packet : p.unit \in Nat BY DEF Packet
  <2> QED BY <1>3, <2>1, OutTypes DEF IInv
<1>5. j \in 1..s \/ j \in s+1..i BY <1>2, <1>3
<1> HIDE DEF u, s
<1>6. u \in Nat /\ s \in Nat /\ s < i /\ out[j].unit <= u /\ (out[j].unit = u <=> j > s)
  <2>1. CASE j \in 1..s BY <1>1, <1>2, <1>4, <2>1
  <2>2. CASE j \in s+1..i BY <1>1, <1>2, <1>4, <2>2
  <2> QED BY <1>5, <2>1, <2>2
<1>7. i > s + 1 => out[i].from = out[i-1].to BY <1>1, <1>2
<1>8. i = s + 1 => out[i].from = 0 BY <1>1
<1> QED BY <1>4, <1>6, <1>7, <1>8 DEF u, s

\* The piece that a write copied is the payload of its packet.
LEMMA PieceOf ==
  ASSUME Reading, tool # "parse", NEW k \in 1..Len(extracted)
  PROVE  LET i == extracted[k].packet IN
         /\ i \in 1..at-1 /\ i \in 1..Len(file) /\ i \in 1..Len(out) /\ i \in Nat
         /\ OfStream(i) /\ out[i].unit \in Wanted /\ out[i].unit \in 1..Len(calls)
         /\ out[i].unit # 0
         /\ Piece(k) = [unit |-> out[i].unit, from |-> out[i].from, to |-> out[i].to]
<1>0. PICK i : i = extracted[k].packet OBVIOUS
<1>1. i \in 1..at-1 /\ OfStream(i) BY <1>0 DEF Reading, ParserInv, Announced
<1>2. i \in 1..Len(file) /\ i \in Nat /\ out[i].unit \in Wanted BY <1>1, StreamOf
<1>3. i \in 1..Len(out) /\ out[i] \in Packet /\ WellFormed(out[i]) BY <1>2, FileOf
<1>4. out[i].unit \in 1..Len(calls) /\ out[i].unit # 0
  <2>1. Len(calls) \in Nat BY OutTypes DEF Reading, IInv
  <2> QED BY <1>2, <2>1 DEF Wanted
<1>5. PICK p : p = out[i] OBVIOUS
<1>6. /\ p.af \in Nat /\ p.pes \in Nat /\ p.from \in Nat /\ p.to \in Nat
      /\ HEADER_SIZE + p.af + p.pes + (p.to - p.from) = SIZE
  BY <1>3, <1>5 DEF Packet, WellFormed, Length, PES_HEADER_SIZE
<1>7. extracted[k].from = HEADER_SIZE + p.af + p.pes /\ extracted[k].to = SIZE
  BY <1>0, <1>5 DEF Reading, ReaderInv
<1>8. /\ extracted[k].from + (p.from - (HEADER_SIZE + p.af + p.pes)) = p.from
      /\ extracted[k].to + (p.from - (HEADER_SIZE + p.af + p.pes)) = p.to
  BY <1>6, <1>7 DEF HEADER_SIZE, SIZE
<1>9. Piece(k) = [unit |-> p.unit, from |-> p.from, to |-> p.to]
  BY <1>0, <1>5, <1>8, Zenon DEF Piece
<1> QED BY <1>0, <1>1, <1>2, <1>3, <1>4, <1>5, <1>9

\* No packet of a wanted call lies between two that are extracted.
LEMMA Neighbours ==
  ASSUME Reading, tool # "parse", NEW k \in 1..Len(extracted),
         NEW m \in 1..extracted[k].packet - 1, out[m].unit \in Wanted
  PROVE  k - 1 \in 1..Len(extracted) /\ m <= extracted[k-1].packet
<1>1. /\ Len(extracted) \in Nat /\ at \in Nat
      /\ \A l \in 1..Len(extracted) : extracted[l].packet \in Nat
      /\ Announced(extracted, at)
  <2>1. extracted \in Seq(DataPiece) /\ at \in Nat
    BY FileOf DEF Reading, ParserInv, ParserTypeInv, DataPiece
  <2>2. Len(extracted) \in Nat /\ \A l \in 1..Len(extracted) : extracted[l] \in DataPiece
    BY <2>1
  <2>3. \A l \in 1..Len(extracted) : extracted[l].packet \in Nat BY <2>2 DEF DataPiece
  <2> QED BY <2>1, <2>2, <2>3 DEF Reading, ParserInv
<1>2. extracted[k].packet \in 1..at-1 BY PieceOf
<1>3. m \in 1..at-1 BY <1>1, <1>2
<1>4. OfStream(m) BY <1>3, StreamOf
<1>5. PICK l \in 1..Len(extracted) : extracted[l].packet = m BY <1>1, <1>3, <1>4 DEF Announced
<1>6. \A a \in 1..Len(extracted), b \in 1..Len(extracted) :
        a < b => extracted[a].packet < extracted[b].packet
  <2> SUFFICES ASSUME NEW a \in 1..Len(extracted), NEW b \in 1..Len(extracted), a < b
               PROVE  extracted[a].packet < extracted[b].packet
    OBVIOUS
  <2>1. b \in a+1..Len(extracted) BY <1>1
  <2> QED BY <1>1, <2>1 DEF Announced
<1>7. m < extracted[k].packet BY <1>1, <1>2
<1>8. l < k
  <2>1. ~(k < l) BY <1>1, <1>5, <1>6, <1>7
  <2>2. l # k BY <1>1, <1>5, <1>7
  <2> QED BY <2>1, <2>2
<1>9. k - 1 \in 1..Len(extracted) /\ (l = k - 1 \/ l < k - 1) BY <1>1, <1>8
<1> QED BY <1>1, <1>5, <1>6, <1>9

\* A piece begins where the one before it ends, or with its payload.
LEMMA PieceFollows ==
  ASSUME Reading, tool # "parse", NEW k \in 1..Len(extracted)
  PROVE  LET b == Piece(k)
             a == IF k = 1 THEN [unit |-> 0, from |-> 0, to |-> 0] ELSE Piece(k - 1)
         IN  /\ b.unit \in Wanted
             /\ b.from = IF b.unit = a.unit THEN a.to ELSE 0
             /\ b.unit # a.unit =>
                  /\ \A c \in Wanted : c < b.unit => c <= a.unit
                  /\ a.unit # 0 => a.to = calls[a.unit].size
<1>0. PICK i : i = extracted[k].packet OBVIOUS
<1>1. /\ i \in 1..at-1 /\ i \in 1..Len(out) /\ i \in Nat
      /\ out[i].unit \in Wanted /\ out[i].unit \in 1..Len(calls) /\ out[i].unit # 0
      /\ Piece(k) = [unit |-> out[i].unit, from |-> out[i].from, to |-> out[i].to]
  BY <1>0, PieceOf
<1>2. PICK u : u = out[i].unit OBVIOUS
<1>3. PICK s : s = calls[u].start OBVIOUS
<1>4. /\ s \in Nat /\ s < i /\ u \in Nat /\ u # 0 /\ u \in Wanted /\ u \in 1..Len(calls)
      /\ \A j \in 1..i : /\ out[j].unit \in Nat /\ out[j].unit <= u
                         /\ out[j].unit = u <=> j > s
      /\ i > s + 1 => out[i].from = out[i-1].to
      /\ i = s + 1 => out[i].from = 0
  <2>1. IInv /\ OutInv BY DEF Reading
  <2>2. i \in 1..i BY <1>1
  <2> QED BY <1>1, <1>2, <1>3, <2>1, <2>2, CallOrder
<1>5. \A m \in 1..i-1 : out[m].unit \in Wanted =>
         k - 1 \in 1..Len(extracted) /\ m <= extracted[k-1].packet
  BY <1>0, Neighbours
<1>6. i > s + 1 => /\ k - 1 \in 1..Len(extracted) /\ i-1 <= extracted[k-1].packet
                   /\ out[i-1].unit = u
  <2>1. i > s + 1 => i-1 \in 1..i-1 /\ i-1 \in 1..i /\ i-1 > s BY <1>1, <1>4
  <2> QED BY <1>4, <1>5, <2>1
\* The calls between are done, and so their packets are in front of this one.
<1>7. ASSUME NEW c \in Wanted, c < u
      PROVE  \E m \in 1..i-1 : out[m].unit = c
  <2>1. c \in 1..Len(calls) /\ c \in Nat /\ Len(calls) \in Nat
    BY OutTypes DEF Wanted, Reading, IInv
  <2>2. Done(c) BY <1>4, <1>7, <2>1 DEF Reading, IInv, CallsInv
  <2>3. PICK m \in 1..Len(out) : out[m].unit = c BY <2>2 DEF Done
  <2>4. c # 0 /\ m \in Nat BY <2>1
  <2>5. ~(i <= m)
    <3> SUFFICES ASSUME i <= m PROVE FALSE
      OBVIOUS
    <3>1. i \in 1..m BY <1>1, <2>4
    <3>2. out[i].unit <= out[m].unit BY <2>3, <2>4, <3>1, CallOrder DEF Reading
    <3> QED BY <1>2, <1>4, <1>7, <2>1, <2>3, <3>2
  <2> QED BY <1>1, <2>3, <2>4, <2>5
<1>8. CASE k = 1
  <2>1. ~(i > s + 1)
    <3>1. ~(k - 1 \in 1..Len(extracted)) BY <1>8
    <3> QED BY <1>6, <3>1
  <2>2. i = s + 1 BY <1>1, <1>4, <2>1
  <2>3. \A c \in Wanted : ~(c < u)
    <3>1. ~(k - 1 \in 1..Len(extracted)) BY <1>8
    <3> QED BY <1>5, <1>7, <3>1
  <2> QED BY <1>1, <1>2, <1>4, <1>8, <2>2, <2>3
<1>9. CASE k # 1
  <2>0. k - 1 \in 1..Len(extracted) BY <1>9
  <2>1. PICK j : j = extracted[k-1].packet OBVIOUS
  <2>2. PICK v : v = out[j].unit OBVIOUS
  <2>3. /\ j \in 1..at-1 /\ j \in 1..Len(out) /\ j \in Nat /\ v \in Wanted /\ v # 0
        /\ v \in 1..Len(calls)
        /\ Piece(k-1) = [unit |-> v, from |-> out[j].from, to |-> out[j].to]
    BY <2>0, <2>1, <2>2, PieceOf
  <2>4. j < i
    <3>1. Announced(extracted, at) /\ Len(extracted) \in Nat
      BY DEF Reading, ParserInv, ParserTypeInv
    <3>2. k \in (k-1)+1..Len(extracted) BY <3>1
    <3> QED BY <1>0, <2>0, <2>1, <3>1, <3>2 DEF Announced
  <2>5. j \in 1..i /\ v \in Nat BY <1>1, <1>4, <2>2, <2>3, <2>4
  <2>6. u = v => out[i].from = out[j].to
    <3> SUFFICES ASSUME u = v PROVE out[i].from = out[j].to
      OBVIOUS
    <3>1. j > s BY <1>4, <2>2, <2>5
    <3>2. i > s + 1 BY <1>1, <1>4, <2>3, <2>4, <3>1
    <3>3. i - 1 = j BY <1>1, <1>6, <2>1, <2>3, <2>4, <3>2
    <3> QED BY <1>4, <3>2, <3>3
  <2>7. u # v => out[i].from = 0
    <3> SUFFICES ASSUME u # v, i > s + 1 PROVE FALSE
      BY <1>1, <1>4
    <3>1. i - 1 = j BY <1>1, <1>6, <2>1, <2>3, <2>4
    <3> QED BY <1>6, <2>2, <3>1
  <2>8. ASSUME NEW c \in Wanted, c < u PROVE c <= v
    <3>1. PICK m \in 1..i-1 : out[m].unit = c BY <1>7, <2>8
    <3>2. m <= j BY <1>5, <2>1, <3>1
    <3>3. m \in 1..j BY <1>1, <2>3, <3>2
    <3> QED BY <2>2, <2>3, <3>1, <3>3, CallOrder DEF Reading
  <2>9. ASSUME u # v PROVE out[j].to = calls[v].size
    <3>1. j < Len(out) BY <1>1, <2>3, <2>4, OutTypes DEF Reading, IInv
    <3>2. out[j+1].unit # v
      <4> SUFFICES ASSUME out[j+1].unit = v PROVE FALSE
        OBVIOUS
      <4>1. j + 1 # i BY <1>2, <2>9
      <4>2. j + 1 \in 1..i-1 BY <1>1, <2>3, <2>4, <4>1
      <4>3. j + 1 <= j BY <1>5, <2>1, <2>3, <4>2
      <4> QED BY <2>3, <4>3
    <3>3. EndsAt(j) BY <2>2, <3>1, <3>2 DEF EndsAt
    <3> QED BY <2>2, <2>3, <3>3 DEF Reading, OutInv
  <2> QED BY <1>1, <1>2, <1>4, <1>9, <2>3, <2>6, <2>7, <2>8, <2>9
<1> QED BY <1>8, <1>9

\* In a complete file every wanted call is extracted to its end.
LEMMA NoneMissing ==
  ASSUME Reading, tool # "parse", result = "done", Len(file) = Len(out), phase = "idle",
         NEW c \in Wanted
  PROVE  \E k \in 1..Len(extracted) : Piece(k).unit = c /\ Piece(k).to = calls[c].size
<1>1. c \in 1..Len(calls) BY DEF Wanted
<1>2. Done(c) BY <1>1 DEF Reading, IInv, CallsInv
<1>3. PICK m \in 1..Len(out) : out[m].unit = c /\ out[m].to = calls[c].size
  BY <1>2 DEF Done
<1>4. at > Len(file) BY DEF Reading, ReaderInv
<1>5. m \in 1..at-1 BY <1>4, FileOf
<1>6. OfStream(m) BY <1>3, <1>5, StreamOf
<1>7. PICK k \in 1..Len(extracted) : extracted[k].packet = m
  BY <1>5, <1>6 DEF Reading, ParserInv, Announced
<1>8. Piece(k) = [unit |-> out[m].unit, from |-> out[m].from, to |-> out[m].to]
  BY <1>7, PieceOf
<1> QED BY <1>3, <1>8

LEMMA ReadBack ==
  ASSUME Reading
  PROVE  PayloadsReadBack
<1>1. CASE tool # "parse"
  BY <1>1, PieceFollows, NoneMissing DEF PayloadsReadBack
<1>2. CASE tool = "parse"
  <2>1. 1..Len(extracted) = {}
    <3>1. Len(extracted) = 0 BY <1>2 DEF Reading, ReaderInv
    <3> QED BY <3>1
  <2>2. Wanted = {}
    <3>1. \A c \in 1..Len(calls) : calls[c].stream \in Streams
      BY OutTypes DEF Reading, IInv, CallRecord
    <3>2. "parse" \notin Streams BY DEF Streams
    <3> QED BY <1>2, <3>1, <3>2 DEF Wanted
  <2> QED BY <2>1, <2>2 DEF PayloadsReadBack
<1> QED BY <1>1, <1>2

----------------------------------------------------------------------------
(* The steps of the reader.                                                *)

\* The parser finds nothing wrong with a packet of the writers, and the data of
\* a packet of a stream where its payload is.
LEMMA GoodPacket ==
  ASSUME Reading, NEW p, At(p)
  PROVE  LET q == out[at] IN
         /\ at \in 1..Len(file) /\ p.sync /\ HasPayload(p) /\ AfEnd(p) <= SIZE
         /\ PayloadType(p) = "PAT" => Readable(p.section, "pat")
         /\ PayloadType(p) = "PMT" => Readable(p.section, "pmt") /\ p.section.info_length = 0
         /\ PayloadType(p) = "PES" => Readable(p.section, "pes")
         /\ p.stamps
         /\ ~Spills(p) /\ ~NoPayloadToUse(p)
         /\ PayloadType(p) \in {"PES", "DATA"} =>
              DataStart(p) = HEADER_SIZE + q.af + q.pes
<1>1. at \in 1..Len(file) /\ p = file[at]
  BY FileOf DEF At, Reading
<1>2. PICK q : q = out[at] OBVIOUS
<1>3. /\ p = View(q) /\ q \in Packet /\ WellFormed(q)
      /\ q.unit = 0 => TableAt(at)
      /\ q.unit # 0 => PieceAt(at)
  BY <1>1, <1>2, FileOf
<1>4. /\ q.unit = 0 <=> q.pid \in {PAT_PID, PMT_PID}
      /\ q.unit = 0 => q.pusi
      /\ HasPayload(p) /\ p.pid = q.pid /\ p.pusi = q.pusi
      /\ q.pusi => p.section = Tables(q.pid)
  BY <1>1, <1>2, PacketOf
<1>5. p.sync /\ p.stamps /\ p.afe = q.afe /\ p.af_length = q.af_length /\ p.hlen = 10
  BY <1>3, ViewFields
<1>6. /\ q.af \in Nat /\ q.pes \in Nat /\ q.from \in Nat /\ q.to \in Nat
      /\ q.afe \in {1, 3} /\ q.af_length \in 0..255 /\ q.pusi \in BOOLEAN
  BY <1>3 DEF Packet, UInt, PES_HEADER_SIZE
<1>7. /\ HEADER_SIZE + q.af + q.pes + (q.to - q.from) = SIZE
      /\ q.afe = 3 <=> q.af > 0
      /\ q.af > 0 => q.af = q.af_length + 1
      /\ q.unit # 0 => q.from <= q.to
  BY <1>3 DEF WellFormed, Length
<1>8. AfEnd(p) = HEADER_SIZE + q.af
  <2>1. HasAf(p) <=> q.afe = 3 BY <1>5, <1>6 DEF HasAf
  <2>2. CASE q.afe = 3 BY <1>5, <1>6, <1>7, <2>1, <2>2 DEF AfEnd, HEADER_SIZE
  <2>3. CASE q.afe # 3 BY <1>6, <1>7, <2>1, <2>3 DEF AfEnd, HEADER_SIZE
  <2> QED BY <2>2, <2>3
<1>9. q.unit = 0 => q.af = 0 BY <1>2, <1>3 DEF TableAt
<1>10. AfEnd(p) <= SIZE
  <2>1. CASE q.unit = 0 BY <1>8, <1>9, <2>1 DEF HEADER_SIZE, SIZE
  <2>2. CASE q.unit # 0 BY <1>6, <1>7, <1>8, <2>2 DEF HEADER_SIZE, SIZE
  <2> QED BY <2>1, <2>2
<1>11. PayloadType(p) = "PAT" => Readable(p.section, "pat")
  <2> SUFFICES ASSUME PayloadType(p) = "PAT" PROVE Readable(p.section, "pat")
    OBVIOUS
  <2>1. p.pusi /\ p.pid = PAT_PID BY DEF PayloadType
  <2> QED BY <1>4, <2>1, TableSections DEF Readable
<1>12. PayloadType(p) = "PMT" => Readable(p.section, "pmt") /\ p.section.info_length = 0
  <2> SUFFICES ASSUME PayloadType(p) = "PMT" PROVE Readable(p.section, "pmt") /\ p.section.info_length = 0
    OBVIOUS
  <2>1. p.pusi /\ \E i \in 1..Len(pmt_map) : pmt_map[i] = p.pid BY DEF PayloadType
  <2>2. CASE pmt_map = <<>>
    <3>1. 1..Len(pmt_map) = {} BY <2>2
    <3> QED BY <2>1, <3>1
  <2>3. ASSUME NEW k \in 1..at-1, LastPat(k, at), pmt_map = file[k].section.programs
        PROVE  Readable(p.section, "pmt") /\ p.section.info_length = 0
    <3>1. k \in 1..Len(file) BY <1>1, FileOf
    <3>2. pmt_map = <<PMT_PID>> BY <2>3, <3>1, TablesOf DEF LastPat
    <3>3. p.pid = PMT_PID BY <2>1, <3>2
    <3> QED BY <1>4, <2>1, <3>3, TableSections DEF Readable
  <2> QED BY <2>2, <2>3 DEF Reading, ParserInv, PatInv
<1>13. Listed(p.pid) => q.unit # 0
  <2> SUFFICES ASSUME Listed(p.pid) PROVE q.unit # 0
    OBVIOUS
  <2>1. CASE stream_info_list = <<>>
    <3>1. 1..Len(stream_info_list) = {} BY <2>1
    <3> QED BY <3>1 DEF Listed
  <2>2. ASSUME NEW j \in 1..at-1, LastPmt(j, at), stream_info_list = file[j].section.streams
        PROVE  q.unit # 0
    <3>1. j \in 1..Len(file) BY <1>1, FileOf
    <3>2. stream_info_list = Tables(PMT_PID).streams BY <2>2, <3>1, TablesOf DEF LastPmt
    <3>3. \A i \in 1..Len(stream_info_list) : stream_info_list[i].pid \in EsPids
      BY <3>2, TableSections DEF EsPids
    <3>4. q.pid \in EsPids BY <1>4, <3>3 DEF Listed
    <3>5. PAT_PID \notin EsPids /\ PMT_PID \notin EsPids
      BY DEF EsPids, PAT_PID, PMT_PID, ES_VIDEO_PID, ES_AUDIO_PID
    <3> QED BY <1>4, <3>4, <3>5
  <2> QED BY <2>1, <2>2 DEF Reading, ParserInv, PmtInv
<1>14. PayloadType(p) = "PES" => Listed(p.pid) /\ p.pusi BY DEF PayloadType
<1>15. PayloadType(p) = "PES" => Readable(p.section, "pes")
  BY <1>4, <1>13, <1>14, TableSections DEF Readable
<1>16. q.unit # 0 => q.pes = IF q.pusi THEN 19 ELSE 0
  BY <1>2, <1>3 DEF PieceAt, PES_HEADER_SIZE
<1>17. CASE PayloadType(p) = "PES"
  <2>1. q.unit # 0 /\ q.pes = 19 BY <1>4, <1>13, <1>14, <1>16, <1>17
  <2>2. DataStart(p) = HEADER_SIZE + q.af + q.pes
    BY <1>5, <1>6, <1>8, <1>17, <2>1 DEF DataStart, HEADER_SIZE
  <2>3. DataStart(p) <= SIZE BY <1>6, <1>7, <2>1, <2>2 DEF HEADER_SIZE, SIZE
  <2>4. ~Spills(p)
    <3>1. DataStart(p) \in Int BY <1>6, <2>2 DEF HEADER_SIZE
    <3> QED BY <2>3, <3>1 DEF Spills, SIZE
  <2> QED BY <1>1, <1>2, <1>4, <1>5, <1>10, <1>11, <1>12, <1>15, <2>2, <2>4 DEF NoPayloadToUse
<1>18. CASE PayloadType(p) # "PES"
  <2>1. ~Spills(p) BY <1>18 DEF Spills
  <2>2. PayloadType(p) = "DATA" => DataStart(p) = HEADER_SIZE + q.af + q.pes
    <3> SUFFICES ASSUME PayloadType(p) = "DATA" PROVE DataStart(p) = HEADER_SIZE + q.af + q.pes
      OBVIOUS
    <3>1. ~q.pusi BY <1>4 DEF PayloadType
    <3>2. q.pes = 0 BY <1>4, <1>16, <3>1
    <3> QED BY <1>6, <1>8, <1>18, <3>2 DEF DataStart, HEADER_SIZE
  <2> QED
    BY <1>1, <1>2, <1>4, <1>5, <1>10, <1>11, <1>12, <1>15, <1>18, <2>1, <2>2 DEF NoPayloadToUse
<1> QED BY <1>17, <1>18

LEMMA ReaderKept ==
  ASSUME ReaderInv, UNCHANGED <<out, tool, file, partial, extracted>>,
         result' \in {"failed", "undefined"} => partial \/ file = <<>>,
         result' = "done" => at' > Len(file)
  PROVE  ReaderInv'
BY DEF ReaderInv

\* What one write of ts-extract adds.
LEMMA PieceWritten ==
  ASSUME Reading, NEW p, Extract(p), UNCHANGED out
  PROVE  ReaderInv'
<1>1. /\ At(p) /\ tool # "parse" /\ IsOwn(p) /\ GoOn
      /\ extracted' = Append(extracted, [packet |-> at, from |-> DataStart(p), to |-> SIZE])
  BY DEF Extract, Turn
<1>2. result = "running" /\ UNCHANGED <<tool, file, partial, result>> BY <1>1 DEF At, GoOn
<1>3. PICK e : /\ e.packet = at /\ e.from = DataStart(p) /\ e.to = SIZE
               /\ extracted' = Append(extracted, e)
  BY <1>1
<1>4. DataStart(p) = HEADER_SIZE + out[at].af + out[at].pes
  BY <1>1, GoodPacket DEF IsOwn
<1>5. /\ Len(extracted) \in Nat /\ Len(extracted') = Len(extracted) + 1
      /\ extracted'[Len(extracted) + 1] = e
      /\ \A k \in 1..Len(extracted) : extracted'[k] = extracted[k]
  <2>1. extracted \in Seq(DataPiece) BY DEF Reading, ParserInv, ParserTypeInv, DataPiece
  <2>2. extracted \in Seq(DataPiece \cup {e}) /\ e \in DataPiece \cup {e}
    <3>1. \A k \in 1..Len(extracted) : extracted[k] \in DataPiece \cup {e} BY <2>1
    <3>2. Len(extracted) \in Nat /\ extracted = [k \in 1..Len(extracted) |-> extracted[k]]
      BY <2>1
    <3> QED BY <2>1, <3>1, <3>2
  <2> QED BY <1>3, <2>2
<1>6. ASSUME NEW k \in 1..Len(extracted')
      PROVE  /\ extracted'[k].from =
                  HEADER_SIZE + out[extracted'[k].packet].af + out[extracted'[k].packet].pes
             /\ extracted'[k].to = SIZE
  <2>1. CASE k \in 1..Len(extracted)
    BY <1>5, <2>1 DEF Reading, ReaderInv
  <2>2. CASE k = Len(extracted) + 1 BY <1>3, <1>4, <1>5, <2>2
  <2> QED BY <1>5, <2>1, <2>2
<1>7. /\ Len(file) \in 0..Len(out) /\ file = [i \in 1..Len(file) |-> View(out[i])]
  BY DEF Reading, ReaderInv
<1> QED BY <1>1, <1>2, <1>6, <1>7 DEF ReaderInv

LEMMA ReaderStep ==
  ASSUME Reading, Parse, UNCHANGED vars
  PROVE  Reading'
<1>1. IInv' /\ OutInv' BY OutStep DEF Reading
<1>2. ParserInv' BY ParserNextInv, NoDescriptors DEF Reading
<1>3. UNCHANGED out BY DEF vars
<1>4. CASE Eos
  <2>1. UNCHANGED <<tool, file, partial, at, extracted>> /\ result' = "done" /\ at > Len(file)
    BY <1>4 DEF Eos, End
  <2> QED BY <1>3, <2>1, ReaderKept, <1>1, <1>2 DEF Reading
<1>5. CASE Short
  <2>1. /\ UNCHANGED <<tool, file, partial, at, extracted>> /\ partial
        /\ result' = (IF tool = "parse" THEN "undefined" ELSE "failed")
    BY <1>5 DEF Short, End
  <2>2. result' # "done" BY <2>1
  <2> QED BY <1>3, <2>1, <2>2, ReaderKept, <1>1, <1>2 DEF Reading
<1>6. ASSUME NEW p, ParsePacket(p) PROVE ReaderInv'
  <2>1. At(p) BY <1>6 DEF ParsePacket, BadPacket, ReadPat, ReadPmt, BadPayload, Skip, Extract,
                          Undefined, Turn
  <2>2. ~BadPacket(p)
    <3>1. p.sync /\ AfEnd(p) <= SIZE /\ AfEnd(p) \in Int
      <4>1. p \in InputPacket BY <2>1 DEF At, Reading, ParserInv, ParserTypeInv
      <4> QED BY <2>1, <4>1, GoodPacket, Offsets
    <3>2. ~(AfEnd(p) > SIZE) BY <3>1 DEF SIZE
    <3> QED BY <3>1, <3>2 DEF BadPacket
  <2>3. ~BadPayload(p)
    <3>1. /\ PayloadType(p) = "PAT" => Readable(p.section, "pat")
          /\ PayloadType(p) = "PMT" => Readable(p.section, "pmt") /\ p.section.info_length = 0
          /\ PayloadType(p) = "PES" => Readable(p.section, "pes")
      BY <2>1, GoodPacket
    <3> QED BY <3>1 DEF BadPayload
  <2>4. ~Undefined(p) BY <2>1, GoodPacket DEF Undefined
  <2>5. CASE ReadPat(p) \/ ReadPmt(p) \/ Skip(p)
    <3>1. result = "running" /\ UNCHANGED <<tool, file, partial, result, extracted>>
      BY <2>1, <2>5 DEF ReadPat, ReadPmt, Skip, GoOn, At
    <3> QED BY <1>3, <3>1, ReaderKept DEF Reading
  <2>6. CASE Extract(p) BY <1>3, <2>6, PieceWritten
  <2> QED BY <1>6, <2>2, <2>3, <2>4, <2>5, <2>6 DEF ParsePacket
<1> QED BY <1>1, <1>2, <1>4, <1>5, <1>6 DEF Parse, Reading

\* A reader is started.
LEMMA ReaderOpened ==
  ASSUME IInv, OutInv, tool \in {"audio", "video", "parse"},
         NEW n \in 0..Len(out), NEW rest \in BOOLEAN, StartReader(n, rest)
  PROVE  Reading'
<1>1. UNCHANGED vars /\ tool' = tool BY DEF StartReader
<1>2. IInv' /\ OutInv' BY <1>1, OutStep
<1>3. /\ file' = [i \in 1..n |-> View(out[i])] /\ partial' = rest
      /\ at' = 1 /\ pmt_map' = <<>> /\ stream_info_list' = <<>>
      /\ result' = Opened(file', partial') /\ extracted' = <<>>
  BY DEF StartReader, Open
<1>4. n \in Nat /\ Len(file') = n
  <2>1. Len(out) \in Nat BY OutTypes DEF IInv
  <2>2. n \in Nat BY <2>1
  <2> QED BY <1>3, <2>2
<1>5. ASSUME NEW i \in 1..n PROVE View(out[i]) \in InputPacket
  <2>1. out[i] \in Packet
    <3>1. i \in 1..Len(out) BY <1>4, OutTypes DEF IInv
    <3> QED BY <3>1, OutTypes DEF IInv
  <2>2. PICK p : p = out[i] OBVIOUS
  <2>3. /\ p.pid \in 0..8191 /\ p.pusi \in BOOLEAN /\ p.afe \in 0..3 /\ p.af_length \in 0..255
    <3>1. /\ p.pid \in EsPids \cup {PAT_PID, PMT_PID} /\ p.pusi \in BOOLEAN /\ p.afe \in {1, 3}
          /\ p.af_length \in UInt(256)
      BY <2>1, <2>2 DEF Packet
    <3>2. p.pid \in 0..8191
      BY <3>1 DEF EsPids, ES_VIDEO_PID, ES_AUDIO_PID, PAT_PID, PMT_PID
    <3>3. p.af_length \in 0..255 BY <3>1 DEF UInt
    <3>4. p.afe \in 0..3 BY <3>1
    <3> QED BY <3>1, <3>2, <3>3, <3>4
  <2> DEFINE section == IF p.pusi THEN Tables(p.pid) ELSE OtherSection
  <2>4. section \in Sections BY TableSections
  <2> HIDE DEF section
  <2>5. View(p) = [sync |-> TRUE, pid |-> p.pid, pusi |-> p.pusi, afe |-> p.afe,
                   af_length |-> p.af_length, hlen |-> 10, stamps |-> TRUE,
                   section |-> section]
    BY DEF View, PES_HEADER_SIZE, section
  <2>6. TRUE \in BOOLEAN /\ 10 \in 0..255 /\ NULL_PID = 8191 BY DEF NULL_PID
  <2>7. InputPacket = [sync : BOOLEAN, pid : 0..8191, pusi : BOOLEAN, afe : 0..3,
                       af_length : 0..255, hlen : 0..255, stamps : BOOLEAN,
                       section : Sections]
    BY <2>6, Zenon DEF InputPacket
  <2>8. View(p) \in InputPacket BY <2>3, <2>4, <2>5, <2>6, <2>7
  <2> QED BY <2>2, <2>8
<1>6. file' \in Seq(InputPacket) BY <1>3, <1>4, <1>5
<1>7. ParserInit' BY <1>1, <1>3, <1>6 DEF ParserInit, Opened
<1>8. ParserInit' => ParserInv' BY ParserInitInv, PTL
<1>9. ReaderInv'
  <2>1. out' = out BY <1>1 DEF vars
  <2>2. Len(extracted') = 0 /\ 1..Len(extracted') = {} BY <1>3
  <2>3. file' = [i \in 1..Len(file') |-> View(out'[i])] BY <1>3, <1>4, <2>1
  <2>4. result' # "done" /\ (result' \in {"failed", "undefined"} => file' = <<>>)
    BY <1>3 DEF Opened
  <2> QED BY <1>3, <1>4, <2>1, <2>2, <2>3, <2>4 DEF ReaderInv
<1> QED BY <1>2, <1>7, <1>8, <1>9 DEF Reading

----------------------------------------------------------------------------
LEMMA RoundTripStart == RoundTripInit => RoundTripInv
<1>1. Init => IInv BY IInvInit
<1>2. Init => OutInv
  <2> SUFFICES ASSUME Init PROVE OutInv
    OBVIOUS
  <2>1. out = <<>> /\ calls = <<>> /\ phase = "idle" BY DEF Init
  <2>2. 1..Len(out) = {} /\ 1..Len(calls) = {} BY <2>1
  <2> QED BY <2>1, <2>2 DEF OutInv
<1> QED BY <1>1, <1>2 DEF RoundTripInit, RoundTripInv, NotStarted

LEMMA RoundTripStep ==
  ASSUME RoundTripInv, [RoundTripNext]_<<vars, parserVars>>
  PROVE  RoundTripInv'
<1>1. CASE WriterStep
  <2>1. result = "idle" /\ Next /\ UNCHANGED parserVars BY <1>1 DEF WriterStep
  <2>2. IInv' /\ OutInv' BY <2>1, OutStep DEF RoundTripInv
  <2>3. NotStarted
    <3>1. ~ParserInv BY <2>1 DEF ParserInv, ParserTypeInv
    <3> QED BY <3>1 DEF RoundTripInv
  <2>4. NotStarted' BY <2>1, <2>3 DEF NotStarted, parserVars
  <2> QED BY <2>2, <2>4 DEF RoundTripInv
<1>2. ASSUME NEW n \in 0..Len(out), NEW rest \in BOOLEAN, StartReader(n, rest)
      PROVE  RoundTripInv'
  <2>1. tool \in {"audio", "video", "parse"}
    BY DEF RoundTripInv, NotStarted, ParserInv, ParserTypeInv
  <2>2. Reading' BY <1>2, <2>1, ReaderOpened DEF RoundTripInv
  <2> QED BY <2>2 DEF RoundTripInv, Reading
<1>3. CASE ParserStep
  <2>1. Parse /\ UNCHANGED vars BY <1>3 DEF ParserStep
  <2>2. ~NotStarted
    <3>1. result = "running"
      BY <2>1 DEF Parse, Eos, Short, ParsePacket, BadPacket, ReadPat, ReadPmt, BadPayload, Skip,
                  Extract, Undefined, Turn, At
    <3> QED BY <3>1 DEF NotStarted
  <2>3. Reading' BY <2>1, <2>2, ReaderStep DEF RoundTripInv, Reading
  <2> QED BY <2>3 DEF RoundTripInv, Reading
<1>4. CASE UNCHANGED <<vars, parserVars>>
  <2>1. UNCHANGED vars /\ UNCHANGED parserVars BY <1>4
  <2>2. IInv' /\ OutInv' BY <2>1, OutStep DEF RoundTripInv
  <2>3. CASE NotStarted BY <2>1, <2>2, <2>3 DEF RoundTripInv, NotStarted, parserVars
  <2>4. CASE ParserInv /\ ReaderInv
    <3>1. ParserInv'
      <4>1. Reading BY <2>4 DEF RoundTripInv, Reading
      <4> QED BY <2>1, <2>4, <4>1, ParserNextInv, NoDescriptors
    <3>2. UNCHANGED <<out, tool, file, partial, extracted, at, result>>
      BY <2>1 DEF vars, parserVars
    <3>3. ReaderInv'
      <4>1. /\ result' \in {"failed", "undefined"} => partial \/ file = <<>>
            /\ result' = "done" => at' > Len(file)
        BY <2>4, <3>2 DEF ReaderInv
      <4> QED BY <2>4, <3>2, <4>1, ReaderKept
    <3> QED BY <2>2, <3>1, <3>3 DEF RoundTripInv
  <2> QED BY <2>3, <2>4 DEF RoundTripInv
<1> QED BY <1>1, <1>2, <1>3, <1>4 DEF RoundTripNext

LEMMA RoundTripInvariance == RoundTripSpec => []RoundTripInv
BY RoundTripStart, RoundTripStep, PTL DEF RoundTripSpec

\* Whatever is written and whenever the reader is started, it fails only where
\* the file is empty or ends within a packet: no header of the writers is turned
\* down.
THEOREM ReadersAcceptHolds == RoundTripSpec => []ReadersAccept
<1>1. RoundTripInv => ReadersAccept
  BY DEF RoundTripInv, NotStarted, ReaderInv, ReadersAccept
<1> QED BY <1>1, RoundTripInvariance, PTL

\* For payloads of any size and any number of calls, ts-extract writes the
\* payloads of its stream behind the first PMT, from their first byte to their
\* last, in the order of the calls: the cutting, stuffing and headers are undone.
THEOREM PayloadsReadBackHolds == RoundTripSpec => []PayloadsReadBack
<1>1. NotStarted => PayloadsReadBack
  <2> SUFFICES ASSUME NotStarted PROVE PayloadsReadBack
    OBVIOUS
  <2>1. result = "idle" /\ extracted = <<>> BY DEF NotStarted
  <2>2. Len(extracted) = 0 /\ 1..Len(extracted) = {} BY <2>1
  <2> QED BY <2>1, <2>2 DEF PayloadsReadBack
<1>2. RoundTripInv => PayloadsReadBack
  BY <1>1, ReadBack DEF RoundTripInv, Reading
<1> QED BY <1>2, RoundTripInvariance, PTL
=============================================================================
