---------------------------- MODULE Flv2tsProofs ----------------------------
(***************************************************************************)
(* Theorems about Flv2ts, for every set of FLV files, every interval of    *)
(* the tables and every width of the timestamps.                           *)
(*                                                                         *)
(* A turn of the loop appends at most two units, the tables and a payload. *)
(* Each part of the invariant is therefore stated of an arbitrary sequence *)
(* o of written units, with a lemma about Append(o, w) that is used twice. *)
(***************************************************************************)
EXTENDS Flv2ts, FlvTagsProofs

\* What the loop may have written.
WrittenUnit == [file: Nat, at: Nat, unit: Unit]

LEMMA Appended ==
  ASSUME NEW o \in Seq(WrittenUnit), NEW w \in WrittenUnit
  PROVE  /\ Append(o, w) \in Seq(WrittenUnit)
         /\ Len(o) \in Nat /\ Len(Append(o, w)) = Len(o) + 1
         /\ Append(o, w)[Len(o)+1] = w
         /\ \A i \in 1..Len(o) : Append(o, w)[i] = o[i]
OBVIOUS

LEMMA WrittenType ==
  ASSUME NEW o \in Seq(WrittenUnit), NEW i \in 1..Len(o)
  PROVE  /\ o[i] \in WrittenUnit /\ o[i].file \in Nat /\ o[i].at \in Nat
         /\ o[i].unit \in Unit /\ o[i].unit.kind \in {"tables"} \cup Streams
         /\ o[i].unit.tag \in Nat /\ o[i].unit.packets \in Nat \ {0}
         /\ o[i].unit.cc \in UInt(16)
<1>1. o[i] \in WrittenUnit
  OBVIOUS
<1>2. o[i].unit \in Unit
  BY <1>1 DEF WrittenUnit
<1> QED
  BY <1>1, <1>2 DEF WrittenUnit, Unit

----------------------------------------------------------------------------
(* The parts of the invariant.                                             *)

\* The counts of the configuration are within its lists.
CountsFit(c) == c.sps.num <= Len(c.sps.list) /\ c.pps.num <= Len(c.pps.list)

TypeInv ==
  /\ flv \in Files
  /\ pos \in 1..Len(flv.tags)+1
  /\ status \in {"running", "done", "failed", "undefined"}
  /\ switched \in BOOLEAN /\ sps_pps_write \in BOOLEAN
  /\ next_timestamp \in 0..TimeMod-1
  /\ conf \in Conf /\ CountsFit(conf)
  /\ next_prev_pat_pmt_output \in Nat /\ g_output_ts_count \in Nat
  /\ counter \in [Streams -> Nat]
  /\ ts_seq \in Nat
  /\ switched <=> ts_seq = 0
  /\ out \in Seq(WrittenUnit)

\* seq files, one after the other and none empty, of n packets in all.
Ordered(o, n, seq) ==
  /\ \A i \in 1..Len(o) :
       /\ o[i].file \in 0..seq-1
       /\ o[i].at + o[i].unit.packets = IF i = Len(o) THEN n ELSE o[i+1].at
       /\ i < Len(o) => o[i].file <= o[i+1].file
  /\ \A k \in 0..seq-1 : \E i \in 1..Len(o) : o[i].file = k

First(o, i) == \A j \in 1..i-1 : o[j].file # o[i].file

\* Tables in time, the latest of them INTERVAL packets before next.
Cadence(o, seq, next) ==
  /\ \A i \in 1..Len(o) :
       /\ First(o, i) => o[i].unit.kind = "tables"
       /\ o[i].unit.kind # "tables" =>
            \E j \in 1..i-1 :
              /\ o[j].unit.kind = "tables" /\ o[i].file = o[j].file
              /\ o[i].at - (o[j].at + 2) < PAT_PMT_INTERVAL
  /\ seq > 0 =>
       \E j \in 1..Len(o) : /\ o[j].unit.kind = "tables" /\ o[j].file = seq - 1
                            /\ next = o[j].at + 2 + PAT_PMT_INTERVAL

\* The payloads of the tags before p.
Tags(o, p) ==
  /\ \A i \in 1..Len(o) : o[i].unit.kind # "tables" =>
       /\ o[i].unit.tag \in 1..p-1 /\ MediaTag(o[i].unit.tag)
       /\ \A j \in i+1..Len(o) :
            o[j].unit.kind # "tables" => o[i].unit.tag < o[j].unit.tag
  /\ \A q \in 1..p-1 : MediaTag(q) =>
       \E i \in 1..Len(o) : o[i].unit.kind # "tables" /\ o[i].unit.tag = q

\* A NALU that the program has given up on is the one that is missing.
TagsInv ==
  \/ Tags(out, pos)
  \/ /\ status = "failed" /\ pos - 1 \in 1..Len(flv.tags)
     /\ flv.tags[pos-1].kind = "nalu" /\ ~Fits(flv.tags[pos-1], conf.width)
     /\ Tags(out, pos - 1)

\* No unit of kind s strictly between a and b.
NoneBetween(o, s, a, b) == \A k \in a+1..b-1 : o[k].unit.kind # s

\* The counters of the units, and those that are kept for the next.
Continuity(o, c) ==
  \A s \in Streams :
    /\ NoneBetween(o, s, 0, Len(o) + 1) => c[s] = 0
    /\ \A i \in 1..Len(o) : o[i].unit.kind = s =>
         /\ NoneBetween(o, s, 0, i) => o[i].unit.cc = 0
         /\ \A j \in 1..i-1 :
              o[j].unit.kind = s /\ NoneBetween(o, s, j, i) =>
                o[i].unit.cc = (o[j].unit.cc + o[j].unit.packets) % 16
         /\ NoneBetween(o, s, i, Len(o) + 1) =>
              c[s] % 16 = (o[i].unit.cc + o[i].unit.packets) % 16

\* The parameter sets of the payloads; written: the file seq - 1 has its sets.
FirstSets(o, i) == \A j \in 1..i-1 : ~(o[j].unit.kind = "video" /\ o[j].file = o[i].file)
SetsOnce(o, seq, written) ==
  /\ \A i \in 1..Len(o) : o[i].unit.kind = "video" =>
       \A sets \in HeadersBefore(o[i].unit.tag) :
         HeadersBefore(o[i].unit.tag) = {sets} =>
           o[i].unit.sets = IF FirstSets(o, i) THEN InFront(sets) ELSE <<>>
  /\ written <=> \E i \in 1..Len(o) : o[i].unit.kind = "video" /\ o[i].file = seq - 1

ConfInv ==
  /\ HeadersBefore(pos) = {} => conf.sps.list = <<>> /\ conf.pps.list = <<>>
  /\ \A sets : HeadersBefore(pos) = {sets} =>
       Announced(conf.sps) = sets.sps /\ Announced(conf.pps) = sets.pps

\* The lengths of the files, and when the next is due.
Time(o, i) == flv.tags[o[i].unit.tag].timestamp
Durations(o, seq, next) ==
  /\ \A i, j \in 1..Len(o) : First(o, i) /\ i < j =>
       /\ o[i].file = o[j].file /\ o[j].unit.kind = "video"
            /\ o[j].unit.tag # o[i].unit.tag => Time(o, j) < Time(o, i) + Duration
       /\ First(o, j) /\ o[j].file = o[i].file + 1 =>
            Time(o, j) >= Time(o, i) + Duration
  /\ \A i \in 1..Len(o) : First(o, i) /\ o[i].file = seq - 1 =>
       next = Time(o, i) + Duration
  /\ \A i \in 1..Len(o) : o[i].unit.tag \in 1..Len(flv.tags)

----------------------------------------------------------------------------
(* One more unit.                                                          *)

\* A unit of the file that is open, or the first of the next one.
LEMMA OrderedAppend ==
  ASSUME NEW o \in Seq(WrittenUnit), NEW w \in WrittenUnit, NEW seq \in Nat,
         Ordered(o, w.at, seq), NEW s2 \in {seq, seq + 1}, s2 > 0, w.file = s2 - 1
  PROVE  Ordered(Append(o, w), w.at + w.unit.packets, s2)
<1> DEFINE L == Len(o)
           b == Append(o, w)
<1>1. L \in Nat /\ Len(b) = L + 1 /\ b[L+1] = w /\ \A i \in 1..L : b[i] = o[i]
  BY Appended
<1>2. \A i \in 1..L : /\ o[i].file \in 0..seq-1
                      /\ o[i].at + o[i].unit.packets = IF i = L THEN w.at ELSE o[i+1].at
                      /\ i < L => o[i].file <= o[i+1].file
  BY DEF Ordered
<1>3. \A k \in 0..seq-1 : \E i \in 1..L : o[i].file = k
  BY DEF Ordered
<1> HIDE DEF L, b
<1>4. ASSUME NEW i \in 1..L+1
      PROVE  /\ b[i].file \in 0..s2-1
             /\ b[i].at + b[i].unit.packets =
                  IF i = L + 1 THEN w.at + w.unit.packets ELSE b[i+1].at
             /\ i < L + 1 => b[i].file <= b[i+1].file
  <2>1. CASE i = L + 1
    BY <1>1, <2>1
  <2>2. CASE i = L /\ L > 0
    BY <1>1, <1>2, <2>2
  <2>3. CASE i < L
    <3>1. i \in 1..L /\ i+1 \in 1..L /\ b[i] = o[i] /\ b[i+1] = o[i+1]
      BY <1>1, <2>3
    <3> QED
      BY <1>1, <1>2, <2>3, <3>1
  <2> QED
    BY <1>1, <2>1, <2>2, <2>3
<1>5. ASSUME NEW k \in 0..s2-1
      PROVE  \E i \in 1..L+1 : b[i].file = k
  <2>1. CASE k = s2 - 1
    BY <1>1, <2>1
  <2>2. CASE k \in 0..seq-1
    <3>1. PICK i \in 1..L : o[i].file = k
      BY <1>3, <2>2
    <3> QED
      BY <1>1, <3>1
  <2> QED
    BY <2>1, <2>2
<1> QED
  BY <1>1, <1>4, <1>5 DEF Ordered, b

\* The first units of the files stay the first, and the new one is the first
\* of its file if and only if no other has its number.
LEMMA FirstAppend ==
  ASSUME NEW o \in Seq(WrittenUnit), NEW w \in WrittenUnit
  PROVE  /\ \A i \in 1..Len(o) : First(Append(o, w), i) <=> First(o, i)
         /\ First(Append(o, w), Len(o) + 1) <=> \A j \in 1..Len(o) : o[j].file # w.file
<1> DEFINE L == Len(o)
           b == Append(o, w)
<1>1. L \in Nat /\ Len(b) = L + 1 /\ b[L+1] = w /\ \A i \in 1..L : b[i] = o[i]
  BY Appended
<1> HIDE DEF L, b
<1>2. ASSUME NEW i \in 1..L
      PROVE  First(b, i) <=> First(o, i)
  <2>1. \A j \in 1..i-1 : j \in 1..L /\ b[j] = o[j]
    BY <1>1
  <2> QED
    BY <1>1, <2>1 DEF First
<1>3. First(b, L + 1) <=> \A j \in 1..L : o[j].file # w.file
  <2>1. (L + 1) - 1 = L
    BY <1>1
  <2> QED
    BY <1>1, <2>1 DEF First
<1> QED
  BY <1>2, <1>3 DEF L, b

\* The tables, in the file that is open or as the first of the next.
LEMMA CadenceTables ==
  ASSUME NEW o \in Seq(WrittenUnit), NEW w \in WrittenUnit, NEW seq, NEW next,
         Cadence(o, seq, next), w.unit.kind = "tables"
  PROVE  Cadence(Append(o, w), w.file + 1, w.at + 2 + PAT_PMT_INTERVAL)
<1> DEFINE L == Len(o)
           b == Append(o, w)
<1>1. L \in Nat /\ Len(b) = L + 1 /\ b[L+1] = w /\ \A i \in 1..L : b[i] = o[i]
  BY Appended
<1>2. \A i \in 1..L : First(b, i) <=> First(o, i)
  BY FirstAppend
<1>3. \A i \in 1..L :
        /\ First(o, i) => o[i].unit.kind = "tables"
        /\ o[i].unit.kind # "tables" =>
             \E j \in 1..i-1 :
               /\ o[j].unit.kind = "tables" /\ o[i].file = o[j].file
               /\ o[i].at - (o[j].at + 2) < PAT_PMT_INTERVAL
  BY DEF Cadence
<1>4. w.file \in Nat /\ w.at \in Nat
  BY DEF WrittenUnit
<1> HIDE DEF L, b
<1>5. ASSUME NEW i \in 1..L+1
      PROVE  /\ First(b, i) => b[i].unit.kind = "tables"
             /\ b[i].unit.kind # "tables" =>
                  \E j \in 1..i-1 :
                    /\ b[j].unit.kind = "tables" /\ b[i].file = b[j].file
                    /\ b[i].at - (b[j].at + 2) < PAT_PMT_INTERVAL
  <2>1. CASE i = L + 1
    BY <1>1, <2>1
  <2>2. CASE i \in 1..L
    <3>1. b[i] = o[i] /\ \A j \in 1..i-1 : j \in 1..L /\ b[j] = o[j]
      BY <1>1, <2>2
    <3> QED
      BY <1>2, <1>3, <2>2, <3>1
  <2> QED
    BY <1>1, <2>1, <2>2
<1>6. L + 1 \in 1..L+1 /\ b[L+1].unit.kind = "tables" /\ b[L+1].file = (w.file + 1) - 1
      /\ w.at + 2 + PAT_PMT_INTERVAL = b[L+1].at + 2 + PAT_PMT_INTERVAL
  BY <1>1, <1>4
<1>7. Cadence(b, w.file + 1, w.at + 2 + PAT_PMT_INTERVAL)
  <2> HIDE DEF First
  <2> QED
    BY <1>1, <1>5, <1>6 DEF Cadence
<1> QED
  BY <1>7 DEF b

\* A payload in the file that is open, before the next tables are due.
LEMMA CadenceMedia ==
  ASSUME NEW o \in Seq(WrittenUnit), NEW w \in WrittenUnit, NEW seq \in Nat, NEW next \in Nat,
         Cadence(o, seq, next), w.file = seq - 1, w.at < next
  PROVE  Cadence(Append(o, w), seq, next)
<1> DEFINE L == Len(o)
           b == Append(o, w)
<1>1. L \in Nat /\ Len(b) = L + 1 /\ b[L+1] = w /\ \A i \in 1..L : b[i] = o[i]
  BY Appended
<1>2. (\A i \in 1..L : First(b, i) <=> First(o, i))
      /\ (First(b, L+1) <=> \A j \in 1..L : o[j].file # w.file)
  BY FirstAppend
<1>3. \A i \in 1..L :
        /\ First(o, i) => o[i].unit.kind = "tables"
        /\ o[i].unit.kind # "tables" =>
             \E j \in 1..i-1 :
               /\ o[j].unit.kind = "tables" /\ o[i].file = o[j].file
               /\ o[i].at - (o[j].at + 2) < PAT_PMT_INTERVAL
  BY DEF Cadence
<1>4. w.file \in Nat /\ w.at \in Nat /\ seq > 0
  BY DEF WrittenUnit
<1>5. PICK j \in 1..L : /\ o[j].unit.kind = "tables" /\ o[j].file = seq - 1
                        /\ next = o[j].at + 2 + PAT_PMT_INTERVAL
  BY <1>4 DEF Cadence
<1>6. o[j].at \in Nat
  BY WrittenType
<1> HIDE DEF L, b
<1>7. ASSUME NEW i \in 1..L+1
      PROVE  /\ First(b, i) => b[i].unit.kind = "tables"
             /\ b[i].unit.kind # "tables" =>
                  \E k \in 1..i-1 :
                    /\ b[k].unit.kind = "tables" /\ b[i].file = b[k].file
                    /\ b[i].at - (b[k].at + 2) < PAT_PMT_INTERVAL
  <2>1. CASE i = L + 1
    <3>1. ~First(b, i)
      BY <1>2, <1>5, <2>1
    <3>2. j \in 1..i-1 /\ b[j] = o[j] /\ b[i] = w
      BY <1>1, <2>1
    <3>3. w.at - (o[j].at + 2) < PAT_PMT_INTERVAL
      BY <1>4, <1>5, <1>6, IntervalAssumption
    <3> QED
      BY <1>5, <3>1, <3>2, <3>3
  <2>2. CASE i \in 1..L
    <3>1. b[i] = o[i] /\ \A k \in 1..i-1 : k \in 1..L /\ b[k] = o[k]
      BY <1>1, <2>2
    <3> QED
      BY <1>2, <1>3, <2>2, <3>1
  <2> QED
    BY <1>1, <2>1, <2>2
<1>8. j \in 1..L+1 /\ b[j] = o[j]
  BY <1>1
<1>9. Cadence(b, seq, next)
  <2> HIDE DEF First
  <2> QED
    BY <1>1, <1>5, <1>7, <1>8 DEF Cadence
<1> QED
  BY <1>9 DEF b

----------------------------------------------------------------------------
(* The tags.                                                               *)

\* A tag that makes no payload.
LEMMA TagsSkip ==
  ASSUME NEW o, NEW p \in Nat \ {0}, Tags(o, p), ~MediaTag(p)
  PROVE  Tags(o, p + 1)
<1>1. 1..(p+1)-1 = 1..p-1 \cup {p}
  OBVIOUS
<1> HIDE DEF MediaTag
<1> QED
  BY <1>1 DEF Tags

LEMMA TagsTables ==
  ASSUME NEW o \in Seq(WrittenUnit), NEW w \in WrittenUnit, NEW p \in Nat \ {0}, Tags(o, p),
         w.unit.kind = "tables"
  PROVE  Tags(Append(o, w), p)
<1> DEFINE L == Len(o)
           b == Append(o, w)
<1>1. L \in Nat /\ Len(b) = L + 1 /\ b[L+1] = w /\ \A i \in 1..L : b[i] = o[i]
  BY Appended
<1>2. \A i \in 1..L : o[i].unit.kind # "tables" =>
        /\ o[i].unit.tag \in 1..p-1 /\ MediaTag(o[i].unit.tag)
        /\ \A j \in i+1..L : o[j].unit.kind # "tables" => o[i].unit.tag < o[j].unit.tag
  BY DEF Tags
<1>3. \A q \in 1..p-1 : MediaTag(q) =>
        \E i \in 1..L : o[i].unit.kind # "tables" /\ o[i].unit.tag = q
  BY DEF Tags
<1> HIDE DEF L, b, MediaTag
<1>4. ASSUME NEW i \in 1..L+1, b[i].unit.kind # "tables"
      PROVE  /\ b[i].unit.tag \in 1..p-1 /\ MediaTag(b[i].unit.tag)
             /\ \A j \in i+1..L+1 :
                  b[j].unit.kind # "tables" => b[i].unit.tag < b[j].unit.tag
  <2>1. i \in 1..L /\ b[i] = o[i]
    BY <1>1, <1>4
  <2>2. ASSUME NEW j \in i+1..L+1, b[j].unit.kind # "tables"
        PROVE  b[i].unit.tag < b[j].unit.tag
    <3>1. j \in i+1..L /\ j \in 1..L /\ b[j] = o[j]
      BY <1>1, <2>1, <2>2
    <3> QED
      BY <1>2, <1>4, <2>1, <2>2, <3>1
  <2> QED
    BY <1>2, <1>4, <2>1, <2>2
<1>5. ASSUME NEW q \in 1..p-1, MediaTag(q)
      PROVE  \E i \in 1..L+1 : b[i].unit.kind # "tables" /\ b[i].unit.tag = q
  <2>1. PICK i \in 1..L : o[i].unit.kind # "tables" /\ o[i].unit.tag = q
    BY <1>3, <1>5
  <2> QED
    BY <1>1, <2>1
<1>6. Tags(b, p)
  BY <1>1, <1>4, <1>5 DEF Tags
<1> QED
  BY <1>6 DEF b

\* The payload of the next tag.
LEMMA TagsMedia ==
  ASSUME NEW o \in Seq(WrittenUnit), NEW w \in WrittenUnit, NEW p \in Nat \ {0}, Tags(o, p),
         w.unit.kind # "tables", w.unit.tag = p, MediaTag(p)
  PROVE  Tags(Append(o, w), p + 1)
<1> DEFINE L == Len(o)
           b == Append(o, w)
<1>1. L \in Nat /\ Len(b) = L + 1 /\ b[L+1] = w /\ \A i \in 1..L : b[i] = o[i]
  BY Appended
<1>2. \A i \in 1..L : o[i].unit.kind # "tables" =>
        /\ o[i].unit.tag \in 1..p-1 /\ MediaTag(o[i].unit.tag)
        /\ \A j \in i+1..L : o[j].unit.kind # "tables" => o[i].unit.tag < o[j].unit.tag
  BY DEF Tags
<1>3. \A q \in 1..p-1 : MediaTag(q) =>
        \E i \in 1..L : o[i].unit.kind # "tables" /\ o[i].unit.tag = q
  BY DEF Tags
<1> HIDE DEF L, b, MediaTag
<1>4. ASSUME NEW i \in 1..L+1, b[i].unit.kind # "tables"
      PROVE  /\ b[i].unit.tag \in 1..(p+1)-1 /\ MediaTag(b[i].unit.tag)
             /\ \A j \in i+1..L+1 :
                  b[j].unit.kind # "tables" => b[i].unit.tag < b[j].unit.tag
  <2>1. CASE i = L + 1
    BY <1>1, <2>1
  <2>2. CASE i \in 1..L
    <3>1. b[i] = o[i] /\ o[i].unit.tag \in 1..p-1
      BY <1>1, <1>2, <1>4, <2>2
    <3>2. ASSUME NEW j \in i+1..L+1, b[j].unit.kind # "tables"
          PROVE  b[i].unit.tag < b[j].unit.tag
      <4>1. CASE j = L + 1
        BY <1>1, <3>1, <4>1
      <4>2. CASE j \in i+1..L
        <5>1. b[j] = o[j]
          BY <1>1, <4>2, <2>2
        <5> QED
          BY <1>2, <1>4, <2>2, <3>1, <3>2, <4>2, <5>1
      <4> QED
        BY <1>1, <4>1, <4>2
    <3> QED
      BY <1>2, <1>4, <2>2, <3>1, <3>2
  <2> QED
    BY <1>1, <2>1, <2>2
<1>5. ASSUME NEW q \in 1..(p+1)-1, MediaTag(q)
      PROVE  \E i \in 1..L+1 : b[i].unit.kind # "tables" /\ b[i].unit.tag = q
  <2>1. CASE q = p
    BY <1>1, <2>1
  <2>2. CASE q \in 1..p-1
    <3>1. PICK i \in 1..L : o[i].unit.kind # "tables" /\ o[i].unit.tag = q
      BY <1>3, <1>5, <2>2
    <3> QED
      BY <1>1, <3>1
  <2> QED
    BY <2>1, <2>2
<1>6. Tags(b, p + 1)
  BY <1>1, <1>4, <1>5 DEF Tags
<1> QED
  BY <1>6 DEF b

----------------------------------------------------------------------------
(* The counters.                                                           *)

LEMMA NoneBetweenAppend ==
  ASSUME NEW o \in Seq(WrittenUnit), NEW w \in WrittenUnit, NEW s, NEW a \in Nat
  PROVE  /\ \A e \in 0..Len(o)+1 :
              NoneBetween(Append(o, w), s, a, e) <=> NoneBetween(o, s, a, e)
         /\ a <= Len(o) =>
              (NoneBetween(Append(o, w), s, a, Len(o) + 2) <=>
                 w.unit.kind # s /\ NoneBetween(o, s, a, Len(o) + 1))
<1> DEFINE L == Len(o)
           b == Append(o, w)
<1>1. L \in Nat /\ Len(b) = L + 1 /\ b[L+1] = w /\ \A i \in 1..L : b[i] = o[i]
  BY Appended
<1> HIDE DEF L, b
<1>2. ASSUME NEW e \in 0..L+1
      PROVE  NoneBetween(b, s, a, e) <=> NoneBetween(o, s, a, e)
  <2>1. \A k \in a+1..e-1 : k \in 1..L /\ b[k] = o[k]
    BY <1>1
  <2> QED
    BY <2>1 DEF NoneBetween
<1>3. ASSUME a <= L
      PROVE  NoneBetween(b, s, a, L + 2) <=>
               w.unit.kind # s /\ NoneBetween(o, s, a, L + 1)
  <2>1. a+1..(L+2)-1 = (a+1..(L+1)-1) \cup {L+1}
    BY <1>1, <1>3
  <2>2. \A k \in a+1..(L+1)-1 : b[k] = o[k]
    BY <1>1
  <2> QED
    BY <1>1, <2>1, <2>2 DEF NoneBetween
<1> QED
  BY <1>2, <1>3 DEF L, b

LEMMA ContinuityTables ==
  ASSUME NEW o \in Seq(WrittenUnit), NEW w \in WrittenUnit, NEW c, Continuity(o, c),
         w.unit.kind = "tables"
  PROVE  Continuity(Append(o, w), c)
<1> DEFINE L == Len(o)
           b == Append(o, w)
<1>1. L \in Nat /\ Len(b) = L + 1 /\ b[L+1] = w /\ \A i \in 1..L : b[i] = o[i]
  BY Appended
<1>2. \A s : \A a \in Nat : \A e \in 0..L+1 : NoneBetween(b, s, a, e) <=> NoneBetween(o, s, a, e)
  BY NoneBetweenAppend
<1>3. \A s \in Streams : w.unit.kind # s
  BY DEF Streams
<1>4. \A s \in Streams : \A a \in 0..L :
        NoneBetween(b, s, a, L + 2) <=> NoneBetween(o, s, a, L + 1)
  BY <1>1, <1>3, NoneBetweenAppend
<1> HIDE DEF L, b, NoneBetween
<1>5. ASSUME NEW s \in Streams, NEW i \in 1..L+1, b[i].unit.kind = s
      PROVE  /\ NoneBetween(b, s, 0, i) => b[i].unit.cc = 0
             /\ \A j \in 1..i-1 :
                  b[j].unit.kind = s /\ NoneBetween(b, s, j, i) =>
                    b[i].unit.cc = (b[j].unit.cc + b[j].unit.packets) % 16
             /\ NoneBetween(b, s, i, L + 2) =>
                  c[s] % 16 = (b[i].unit.cc + b[i].unit.packets) % 16
  <2>1. i \in 1..L /\ i \in 0..L /\ i \in 0..L+1 /\ b[i] = o[i]
        /\ \A j \in 1..i-1 : j \in Nat /\ j \in 1..L /\ b[j] = o[j]
    BY <1>1, <1>3, <1>5
  <2>2. /\ NoneBetween(o, s, 0, i) => o[i].unit.cc = 0
        /\ \A j \in 1..i-1 :
             o[j].unit.kind = s /\ NoneBetween(o, s, j, i) =>
               o[i].unit.cc = (o[j].unit.cc + o[j].unit.packets) % 16
        /\ NoneBetween(o, s, i, L + 1) =>
             c[s] % 16 = (o[i].unit.cc + o[i].unit.packets) % 16
    BY <1>5, <2>1 DEF Continuity, L
  <2> QED
    BY <1>2, <1>4, <2>1, <2>2, Zenon
<1>6. ASSUME NEW s \in Streams, NoneBetween(b, s, 0, L + 2)
      PROVE  c[s] = 0
  <2>1. 0 \in 0..L
    BY <1>1
  <2> QED
    BY <1>4, <1>6, <2>1 DEF Continuity, L
<1>7. Len(b) + 1 = L + 2
  BY <1>1
<1>8. Continuity(b, c)
  BY <1>1, <1>5, <1>6, <1>7 DEF Continuity
<1> QED
  BY <1>8 DEF b

LEMMA ContinuityMedia ==
  ASSUME NEW o \in Seq(WrittenUnit), NEW w \in WrittenUnit, NEW c \in [Streams -> Nat],
         Continuity(o, c), NEW s \in Streams, w.unit.kind = s, w.unit.cc = c[s] % 16
  PROVE  Continuity(Append(o, w), [c EXCEPT ![s] = @ + w.unit.packets])
<1> DEFINE L == Len(o)
           b == Append(o, w)
           d == [c EXCEPT ![s] = @ + w.unit.packets]
           n == w.unit.packets
<1>1. L \in Nat /\ Len(b) = L + 1 /\ b[L+1] = w /\ \A i \in 1..L : b[i] = o[i]
  BY Appended
<1>2. \A t : \A a \in Nat : \A e \in 0..L+1 : NoneBetween(b, t, a, e) <=> NoneBetween(o, t, a, e)
  BY NoneBetweenAppend
<1>3. \A t : \A a \in 0..L :
        NoneBetween(b, t, a, L + 2) <=> t # s /\ NoneBetween(o, t, a, L + 1)
  BY <1>1, NoneBetweenAppend
<1>4. d[s] = c[s] + n /\ \A t \in Streams : t # s => d[t] = c[t]
  OBVIOUS
<1>5. n \in Nat /\ c[s] \in Nat
  BY DEF WrittenUnit, Unit
<1>6. d[s] % 16 = (w.unit.cc + n) % 16
  <2>1. \A x, y \in Nat : (x + y) % 16 = ((x % 16) + y) % 16
    OBVIOUS
  <2> QED
    BY <1>4, <1>5, <2>1
<1> HIDE DEF L, b, d, n, NoneBetween
<1>7. ASSUME NEW t \in Streams, NEW i \in 1..L+1, b[i].unit.kind = t
      PROVE  /\ NoneBetween(b, t, 0, i) => b[i].unit.cc = 0
             /\ \A j \in 1..i-1 :
                  b[j].unit.kind = t /\ NoneBetween(b, t, j, i) =>
                    b[i].unit.cc = (b[j].unit.cc + b[j].unit.packets) % 16
             /\ NoneBetween(b, t, i, L + 2) =>
                  d[t] % 16 = (b[i].unit.cc + b[i].unit.packets) % 16
  <2>1. i \in 0..L+1 /\ 0 \in Nat /\ \A j \in 1..i-1 : j \in Nat /\ j \in 1..L /\ b[j] = o[j]
    BY <1>1
  <2>2. CASE i \in 1..L
    <3>1. i \in 0..L /\ b[i] = o[i] /\ o[i].unit.kind = t
      BY <1>1, <1>7, <2>2
    <3>2. /\ NoneBetween(o, t, 0, i) => o[i].unit.cc = 0
          /\ \A j \in 1..i-1 :
               o[j].unit.kind = t /\ NoneBetween(o, t, j, i) =>
                 o[i].unit.cc = (o[j].unit.cc + o[j].unit.packets) % 16
          /\ NoneBetween(o, t, i, L + 1) =>
               c[t] % 16 = (o[i].unit.cc + o[i].unit.packets) % 16
      BY <2>2, <3>1 DEF Continuity, L
    <3> QED
      BY <1>2, <1>3, <1>4, <2>1, <3>1, <3>2, Zenon
  <2>3. CASE i = L + 1
    <3>1. b[i] = w /\ t = s
      BY <1>1, <1>7, <2>3
    <3>2. NoneBetween(o, s, 0, i) => c[s] = 0
      BY <2>3 DEF Continuity, L
    <3>3. \A j \in 1..i-1 :
            o[j].unit.kind = s /\ NoneBetween(o, s, j, i) =>
              c[s] % 16 = (o[j].unit.cc + o[j].unit.packets) % 16
      <4>1. \A j \in 1..i-1 : j \in 1..L
        BY <1>1, <2>3
      <4> QED
        BY <2>3, <4>1 DEF Continuity, L
    <3>4. c[s] = 0 => c[s] % 16 = 0
      OBVIOUS
    <3>5. NoneBetween(b, t, 0, i) => b[i].unit.cc = 0
      BY <1>2, <2>1, <3>1, <3>2, <3>4, Zenon
    <3>6. \A j \in 1..i-1 :
            b[j].unit.kind = t /\ NoneBetween(b, t, j, i) =>
              b[i].unit.cc = (b[j].unit.cc + b[j].unit.packets) % 16
      BY <1>2, <2>1, <3>1, <3>3, Zenon
    <3> QED
      BY <1>6, <3>1, <3>5, <3>6 DEF n
  <2> QED
    BY <1>1, <2>2, <2>3
<1>8. ASSUME NEW t \in Streams, NoneBetween(b, t, 0, L + 2)
      PROVE  d[t] = 0
  <2>1. 0 \in 0..L
    BY <1>1
  <2>2. t # s /\ NoneBetween(o, t, 0, L + 1)
    BY <1>3, <1>8, <2>1
  <2> QED
    BY <1>4, <2>2 DEF Continuity, L
<1>9. Len(b) + 1 = L + 2
  BY <1>1
<1>10. Continuity(b, d)
  BY <1>1, <1>7, <1>8, <1>9 DEF Continuity
<1> QED
  BY <1>10 DEF b, d

----------------------------------------------------------------------------
(* The parameter sets.                                                     *)

LEMMA FirstSetsAppend ==
  ASSUME NEW o \in Seq(WrittenUnit), NEW w \in WrittenUnit
  PROVE  /\ \A i \in 1..Len(o) : FirstSets(Append(o, w), i) <=> FirstSets(o, i)
         /\ FirstSets(Append(o, w), Len(o) + 1) <=>
              \A j \in 1..Len(o) : ~(o[j].unit.kind = "video" /\ o[j].file = w.file)
<1> DEFINE L == Len(o)
           b == Append(o, w)
<1>1. L \in Nat /\ Len(b) = L + 1 /\ b[L+1] = w /\ \A i \in 1..L : b[i] = o[i]
  BY Appended
<1> HIDE DEF L, b
<1>2. ASSUME NEW i \in 1..L
      PROVE  FirstSets(b, i) <=> FirstSets(o, i)
  <2>1. \A j \in 1..i-1 : j \in 1..L /\ b[j] = o[j]
    BY <1>1
  <2> QED
    BY <1>1, <2>1 DEF FirstSets
<1>3. FirstSets(b, L + 1) <=>
        \A j \in 1..L : ~(o[j].unit.kind = "video" /\ o[j].file = w.file)
  <2>1. (L + 1) - 1 = L
    BY <1>1
  <2> QED
    BY <1>1, <2>1 DEF FirstSets
<1> QED
  BY <1>2, <1>3 DEF L, b

\* A new file has no parameter sets yet.
LEMMA SetsOpen ==
  ASSUME NEW o \in Seq(WrittenUnit), NEW seq \in Nat, NEW written,
         SetsOnce(o, seq, written), \A i \in 1..Len(o) : o[i].file \in 0..seq-1
  PROVE  SetsOnce(o, seq + 1, FALSE)
<1>1. \A i \in 1..Len(o) : o[i].file # (seq + 1) - 1
  OBVIOUS
<1> QED
  BY <1>1 DEF SetsOnce

LEMMA SetsOther ==
  ASSUME NEW o \in Seq(WrittenUnit), NEW w \in WrittenUnit, NEW seq, NEW written,
         SetsOnce(o, seq, written), w.unit.kind # "video"
  PROVE  SetsOnce(Append(o, w), seq, written)
<1> DEFINE L == Len(o)
           b == Append(o, w)
<1>1. L \in Nat /\ Len(b) = L + 1 /\ b[L+1] = w /\ \A i \in 1..L : b[i] = o[i]
  BY Appended
<1>2. \A i \in 1..L : FirstSets(b, i) <=> FirstSets(o, i)
  BY FirstSetsAppend
<1>3. \A i \in 1..L : o[i].unit.kind = "video" =>
        \A sets \in HeadersBefore(o[i].unit.tag) :
          HeadersBefore(o[i].unit.tag) = {sets} =>
            o[i].unit.sets = IF FirstSets(o, i) THEN InFront(sets) ELSE <<>>
  BY DEF SetsOnce
<1>4. written <=> \E i \in 1..L : o[i].unit.kind = "video" /\ o[i].file = seq - 1
  BY DEF SetsOnce
<1> HIDE DEF L, b, HeadersBefore
<1>5. \A i \in 1..L+1 : i \in 1..L \/ i = L+1
  BY <1>1
<1>6. \A i \in 1..L : i \in 1..L+1
  BY <1>1
<1>7. \A i \in 1..L+1 : b[i].unit.kind = "video" => i \in 1..L /\ b[i] = o[i]
  BY <1>1, <1>5
<1>8. \A i \in 1..L+1 : b[i].unit.kind = "video" =>
        \A sets \in HeadersBefore(b[i].unit.tag) :
          HeadersBefore(b[i].unit.tag) = {sets} =>
            b[i].unit.sets = IF FirstSets(b, i) THEN InFront(sets) ELSE <<>>
  BY <1>2, <1>3, <1>7, Zenon
<1>9. (\E i \in 1..L+1 : b[i].unit.kind = "video" /\ b[i].file = seq - 1)
        <=> \E i \in 1..L : o[i].unit.kind = "video" /\ o[i].file = seq - 1
  BY <1>1, <1>6, <1>7, Zenon
<1>10. SetsOnce(b, seq, written)
  BY <1>1, <1>4, <1>8, <1>9 DEF SetsOnce
<1> QED
  BY <1>10 DEF b

\* The parameter sets go in front of the payload unless they are written.
LEMMA SetsVideo ==
  ASSUME NEW o \in Seq(WrittenUnit), NEW w \in WrittenUnit, NEW seq,
         NEW written \in BOOLEAN,
         SetsOnce(o, seq, written), w.unit.kind = "video", w.file = seq - 1,
         \A sets \in HeadersBefore(w.unit.tag) : HeadersBefore(w.unit.tag) = {sets} =>
           w.unit.sets = IF written THEN <<>> ELSE InFront(sets)
  PROVE  SetsOnce(Append(o, w), seq, TRUE)
<1> DEFINE L == Len(o)
           b == Append(o, w)
<1>1. L \in Nat /\ Len(b) = L + 1 /\ b[L+1] = w /\ \A i \in 1..L : b[i] = o[i]
  BY Appended
<1>2. (\A i \in 1..L : FirstSets(b, i) <=> FirstSets(o, i))
      /\ (FirstSets(b, L + 1) <=>
            \A j \in 1..L : ~(o[j].unit.kind = "video" /\ o[j].file = w.file))
  BY FirstSetsAppend
<1>3. \A i \in 1..L : o[i].unit.kind = "video" =>
        \A sets \in HeadersBefore(o[i].unit.tag) :
          HeadersBefore(o[i].unit.tag) = {sets} =>
            o[i].unit.sets = IF FirstSets(o, i) THEN InFront(sets) ELSE <<>>
  BY DEF SetsOnce
<1>4. written <=> \E i \in 1..L : o[i].unit.kind = "video" /\ o[i].file = seq - 1
  BY DEF SetsOnce
<1> HIDE DEF L, b, HeadersBefore
<1>5. \A i \in 1..L+1 : i \in 1..L \/ i = L+1
  BY <1>1
<1>6. FirstSets(b, L + 1) <=> ~written
  BY <1>2, <1>4, Zenon
<1>7. \A i \in 1..L+1 : b[i].unit.kind = "video" =>
        \A sets \in HeadersBefore(b[i].unit.tag) :
          HeadersBefore(b[i].unit.tag) = {sets} =>
            b[i].unit.sets = IF FirstSets(b, i) THEN InFront(sets) ELSE <<>>
  <2>1. ASSUME NEW i \in 1..L+1, b[i].unit.kind = "video",
               NEW sets \in HeadersBefore(b[i].unit.tag),
               HeadersBefore(b[i].unit.tag) = {sets}
        PROVE  b[i].unit.sets = IF FirstSets(b, i) THEN InFront(sets) ELSE <<>>
    <3>1. CASE i \in 1..L
      <4>1. b[i] = o[i]
        BY <1>1, <3>1
      <4>2. o[i].unit.sets = IF FirstSets(o, i) THEN InFront(sets) ELSE <<>>
        BY <1>3, <2>1, <3>1, <4>1, Zenon
      <4>3. FirstSets(b, i) <=> FirstSets(o, i)
        BY <1>2, <3>1
      <4> QED
        BY <4>1, <4>2, <4>3, Zenon
    <3>2. CASE i = L + 1
      <4>1. w.unit.sets = IF written THEN <<>> ELSE InFront(sets)
        BY <1>1, <2>1, <3>2
      <4>2. FirstSets(b, i) <=> ~written
        BY <1>6, <3>2
      <4>3. b[i] = w
        BY <1>1, <3>2
      <4> QED
        BY <4>1, <4>2, <4>3, Zenon
    <3> QED
      BY <1>5, <3>1, <3>2
  <2> QED
    BY <2>1
<1>8. \E i \in 1..L+1 : b[i].unit.kind = "video" /\ b[i].file = seq - 1
  BY <1>1
<1>9. SetsOnce(b, seq, TRUE)
  BY <1>1, <1>7, <1>8 DEF SetsOnce
<1> QED
  BY <1>9 DEF b

\* The headers before the next tag.
LEMMA HeadersNext ==
  ASSUME NEW p \in Nat \ {0}
  PROVE  HeadersBefore(p + 1) = IF flv.tags[p].kind = "avc_config"
                                THEN HeadersBefore(p) \cup {SetsOf(flv.tags[p].header)}
                                ELSE HeadersBefore(p)
<1>1. 1..(p+1)-1 = 1..p-1 \cup {p}
  OBVIOUS
<1> QED
  BY <1>1 DEF HeadersBefore

\* The front of a list that begins with a is a.
LEMMA SubSeqFront ==
  ASSUME NEW S, NEW list \in Seq(S), NEW num \in 0..Len(list), NEW a \in Seq(S),
         SubSeq(list, 1, num) = a, NEW b \in Seq(S)
  PROVE  SubSeq(list \o b, 1, Len(a)) = a
<1>1. Len(a) = num
  OBVIOUS
<1>2. list \o b \in Seq(S) /\ Len(list \o b) = Len(list) + Len(b)
  OBVIOUS
<1>3. SubSeq(list \o b, 1, num) \in Seq(S) /\ Len(SubSeq(list \o b, 1, num)) = num
  BY <1>2
<1>4. ASSUME NEW i \in 1..num
      PROVE  SubSeq(list \o b, 1, num)[i] = a[i]
  <2>1. SubSeq(list \o b, 1, num)[i] = (list \o b)[i]
    BY <1>2
  <2>2. (list \o b)[i] = list[i]
    BY <1>2
  <2>3. SubSeq(list, 1, num)[i] = list[i]
    OBVIOUS
  <2> QED
    BY <2>1, <2>2, <2>3
<1> QED
  BY <1>1, <1>3, <1>4

----------------------------------------------------------------------------
(* The lengths of the files.                                               *)

\* The tables that open the next file.
LEMMA DurationsFirst ==
  ASSUME NEW o \in Seq(WrittenUnit), NEW w \in WrittenUnit, NEW seq \in Nat, NEW next,
         Durations(o, seq, next), \A i \in 1..Len(o) : o[i].file \in 0..seq-1,
         w.file = seq, w.unit.kind = "tables", w.unit.tag \in 1..Len(flv.tags),
         seq > 0 => flv.tags[w.unit.tag].timestamp >= next
  PROVE  Durations(Append(o, w), seq + 1, flv.tags[w.unit.tag].timestamp + Duration)
<1> DEFINE L == Len(o)
           b == Append(o, w)
           t == flv.tags[w.unit.tag].timestamp
<1>1. L \in Nat /\ Len(b) = L + 1 /\ b[L+1] = w /\ \A i \in 1..L : b[i] = o[i]
  BY Appended
<1>2. \A i \in 1..L : First(b, i) <=> First(o, i)
  BY FirstAppend
<1>3. \A i, j \in 1..L : First(o, i) /\ i < j =>
       /\ o[i].file = o[j].file /\ o[j].unit.kind = "video"
            /\ o[j].unit.tag # o[i].unit.tag => Time(o, j) < Time(o, i) + Duration
       /\ First(o, j) /\ o[j].file = o[i].file + 1 =>
            Time(o, j) >= Time(o, i) + Duration
  BY DEF Durations
<1>4. \A i \in 1..L : First(o, i) /\ o[i].file = seq - 1 => next = Time(o, i) + Duration
  BY DEF Durations
<1>5. \A i \in 1..L : o[i].unit.tag \in 1..Len(flv.tags)
  BY DEF Durations
<1>6. (\A i \in 1..L : Time(b, i) = Time(o, i)) /\ Time(b, L+1) = t
  BY <1>1 DEF Time
<1> HIDE DEF L, b, t, First, Time
<1>7. ASSUME NEW i \in 1..L+1, NEW j \in 1..L+1, First(b, i), i < j
      PROVE  /\ b[i].file = b[j].file /\ b[j].unit.kind = "video"
                  /\ b[j].unit.tag # b[i].unit.tag => Time(b, j) < Time(b, i) + Duration
             /\ First(b, j) /\ b[j].file = b[i].file + 1 =>
                  Time(b, j) >= Time(b, i) + Duration
  <2>1. i \in 1..L /\ b[i] = o[i] /\ First(o, i) /\ Time(b, i) = Time(o, i)
    BY <1>1, <1>2, <1>6, <1>7
  <2>2. CASE j \in 1..L
    <3>1. b[j] = o[j] /\ (First(b, j) <=> First(o, j)) /\ Time(b, j) = Time(o, j)
      BY <1>1, <1>2, <1>6, <2>2
    <3> QED
      BY <1>3, <1>7, <2>1, <2>2, <3>1, Zenon
  <2>3. CASE j = L + 1
    <3>1. b[j] = w /\ Time(b, j) = t
      BY <1>1, <1>6, <2>3
    <3>2. w.file = o[i].file + 1 => t >= Time(o, i) + Duration
      <4> HAVE w.file = o[i].file + 1
      <4>1. o[i].file = seq - 1 /\ seq > 0
        BY <2>1 DEF L
      <4> QED
        BY <1>4, <2>1, <4>1 DEF t
    <3> QED
      BY <2>1, <3>1, <3>2
  <2> QED
    BY <1>1, <2>2, <2>3
<1>8. ASSUME NEW i \in 1..L+1, First(b, i), b[i].file = (seq + 1) - 1
      PROVE  t + Duration = Time(b, i) + Duration
  <2>1. \A k \in 1..L : b[k].file # (seq + 1) - 1
    BY <1>1 DEF L
  <2>2. i = L + 1
    BY <1>1, <1>8, <2>1
  <2> QED
    BY <1>6, <2>2
<1>9. \A i \in 1..L+1 : b[i].unit.tag \in 1..Len(flv.tags)
  BY <1>1, <1>5
<1>10. Durations(b, seq + 1, t + Duration)
  BY <1>1, <1>7, <1>8, <1>9 DEF Durations
<1> QED
  BY <1>10 DEF b, t

\* A further unit of the file that is open; a NALU only before next.
LEMMA DurationsMore ==
  ASSUME NEW o \in Seq(WrittenUnit), NEW w \in WrittenUnit, NEW seq, NEW next,
         Durations(o, seq, next), w.file = seq - 1, w.unit.tag \in 1..Len(flv.tags),
         \E k \in 1..Len(o) : o[k].file = seq - 1,
         \A k \in 1..Len(o) : /\ w.unit.kind = "video" /\ First(o, k)
                              /\ o[k].file = seq - 1 /\ o[k].unit.tag # w.unit.tag
                              => flv.tags[w.unit.tag].timestamp < next
  PROVE  Durations(Append(o, w), seq, next)
<1> DEFINE L == Len(o)
           b == Append(o, w)
           t == flv.tags[w.unit.tag].timestamp
<1>1. L \in Nat /\ Len(b) = L + 1 /\ b[L+1] = w /\ \A i \in 1..L : b[i] = o[i]
  BY Appended
<1>2. (\A i \in 1..L : First(b, i) <=> First(o, i))
      /\ (First(b, L+1) <=> \A j \in 1..L : o[j].file # w.file)
  BY FirstAppend
<1>3. \A i, j \in 1..L : First(o, i) /\ i < j =>
       /\ o[i].file = o[j].file /\ o[j].unit.kind = "video"
            /\ o[j].unit.tag # o[i].unit.tag => Time(o, j) < Time(o, i) + Duration
       /\ First(o, j) /\ o[j].file = o[i].file + 1 =>
            Time(o, j) >= Time(o, i) + Duration
  BY DEF Durations
<1>4. \A i \in 1..L : First(o, i) /\ o[i].file = seq - 1 => next = Time(o, i) + Duration
  BY DEF Durations
<1>5. \A i \in 1..L : o[i].unit.tag \in 1..Len(flv.tags)
  BY DEF Durations
<1>6. (\A i \in 1..L : Time(b, i) = Time(o, i)) /\ Time(b, L+1) = t
  BY <1>1 DEF Time
<1> HIDE DEF L, b, First, Time
<1>7. ~First(b, L+1)
  BY <1>2 DEF L
<1>8. ASSUME NEW i \in 1..L+1, NEW j \in 1..L+1, First(b, i), i < j
      PROVE  /\ b[i].file = b[j].file /\ b[j].unit.kind = "video"
                  /\ b[j].unit.tag # b[i].unit.tag => Time(b, j) < Time(b, i) + Duration
             /\ First(b, j) /\ b[j].file = b[i].file + 1 =>
                  Time(b, j) >= Time(b, i) + Duration
  <2>1. i \in 1..L /\ b[i] = o[i] /\ First(o, i) /\ Time(b, i) = Time(o, i)
    BY <1>1, <1>2, <1>6, <1>8
  <2>2. CASE j \in 1..L
    <3>1. b[j] = o[j] /\ (First(b, j) <=> First(o, j)) /\ Time(b, j) = Time(o, j)
      BY <1>1, <1>2, <1>6, <2>2
    <3> QED
      BY <1>3, <1>8, <2>1, <2>2, <3>1, Zenon
  <2>3. CASE j = L + 1
    <3>1. b[j] = w /\ Time(b, j) = t /\ ~First(b, j)
      BY <1>1, <1>6, <1>7, <2>3
    <3>2. /\ o[i].file = w.file /\ w.unit.kind = "video" /\ w.unit.tag # o[i].unit.tag
          => t < Time(o, i) + Duration
      BY <1>4, <2>1 DEF L, t
    <3> QED
      BY <2>1, <3>1, <3>2, Zenon
  <2> QED
    BY <1>1, <2>2, <2>3
<1>9. ASSUME NEW i \in 1..L+1, First(b, i), b[i].file = seq - 1
      PROVE  next = Time(b, i) + Duration
  <2>1. i \in 1..L
    BY <1>1, <1>7, <1>9
  <2> QED
    BY <1>1, <1>2, <1>4, <1>6, <1>9, <2>1
<1>10. \A i \in 1..L+1 : b[i].unit.tag \in 1..Len(flv.tags)
  BY <1>1, <1>5
<1>11. Durations(b, seq, next)
  BY <1>1, <1>8, <1>9, <1>10 DEF Durations
<1> QED
  BY <1>11 DEF b

----------------------------------------------------------------------------
(* One turn of the loop: first what lines 73-106 do, then the payload.     *)

IInv ==
  /\ TypeInv
  /\ Ordered(out, g_output_ts_count, ts_seq)
  /\ Cadence(out, ts_seq, next_prev_pat_pmt_output)
  /\ TagsInv
  /\ Continuity(out, counter)
  /\ \E written \in BOOLEAN : /\ SetsOnce(out, ts_seq, written)
                              /\ status = "running" => written = sps_pps_write
  /\ status = "running" => ConfInv
  /\ PlainTimestamps => Durations(out, ts_seq, next_timestamp)

\* What Prologue assigns.
NextTables == IF TablesDue THEN Count + PAT_PMT_INTERVAL ELSE ForcedTables
NextTime   == IF Opens THEN NextTimestamp(tag.timestamp) ELSE next_timestamp

LEMMA ModType ==
  ASSUME NEW a \in Int, NEW m \in Nat \ {0}
  PROVE  a % m \in 0..m-1 /\ (a \in 0..m-1 => a % m = a)
OBVIOUS

\* The tag of this turn.
LEMMA TagOfTurn ==
  ASSUME TypeInv, NEW kinds, Running(kinds)
  PROVE  /\ flv.tags \in Seq(TagType) /\ pos \in 1..Len(flv.tags) /\ tag \in TagType
         /\ tag.timestamp \in Int /\ NextTimestamp(tag.timestamp) \in 0..TimeMod-1
         /\ PlainTimestamps => /\ NextTimestamp(tag.timestamp) = tag.timestamp + Duration
                               /\ Wide(tag.timestamp) = tag.timestamp
<1>1. flv.tags \in Seq(TagType) /\ pos \in 1..Len(flv.tags)
  BY FilesAssumption DEF TypeInv, Running, TagAt
<1>2. tag \in TagType
  BY <1>1 DEF tag
<1>3. tag.timestamp \in Int
  BY <1>2 DEF TagType
<1>4. Duration \in Nat /\ TimeMod \in Nat \ {0} /\ tag.timestamp + Duration \in Int
  BY <1>3, DurationAssumption, TimeModAssumption
<1>5. NextTimestamp(tag.timestamp) \in 0..TimeMod-1
  BY <1>4, ModType DEF NextTimestamp
<1>6. ASSUME PlainTimestamps
      PROVE  /\ NextTimestamp(tag.timestamp) = tag.timestamp + Duration
             /\ Wide(tag.timestamp) = tag.timestamp
  <2>1. tag.timestamp \in 0..TimeMod-1-Duration
    BY <1>1, <1>6 DEF PlainTimestamps, tag
  <2>2. tag.timestamp + Duration \in 0..TimeMod-1
    BY <1>4, <2>1
  <2>3. NextTimestamp(tag.timestamp) = tag.timestamp + Duration
    BY <1>4, <2>2, ModType DEF NextTimestamp
  <2> QED
    BY <2>1, <2>3 DEF Wide
<1> QED
  BY <1>1, <1>2, <1>3, <1>5, <1>6

LEMMA OpenedInv ==
  ASSUME IInv, Running(Kinds)
  PROVE  /\ NextSeq \in Nat \ {0} /\ Count \in Nat /\ NextTables \in Nat
         /\ Opened \in Seq(WrittenUnit) /\ Count < NextTables
         /\ Ordered(Opened, Count, NextSeq)
         /\ Cadence(Opened, NextSeq, NextTables)
         /\ Tags(Opened, pos)
         /\ Continuity(Opened, counter)
         /\ SetsOnce(Opened, NextSeq, SetsWritten)
         /\ PlainTimestamps =>
              /\ Durations(Opened, NextSeq, NextTime)
              /\ tag.kind = "nalu" =>
                   \A k \in 1..Len(Opened) :
                     First(Opened, k) /\ Opened[k].file = NextSeq - 1
                       /\ Opened[k].unit.tag # pos => tag.timestamp < NextTime
<1> DEFINE w == Written(TablesUnit(pos), g_output_ts_count)
<1>1. /\ out \in Seq(WrittenUnit) /\ ts_seq \in Nat /\ g_output_ts_count \in Nat
      /\ next_prev_pat_pmt_output \in Nat /\ (switched <=> ts_seq = 0)
      /\ counter \in [Streams -> Nat] /\ pos \in Nat \ {0} /\ sps_pps_write \in BOOLEAN
      /\ next_timestamp \in Int
  BY FilesAssumption, TimeModAssumption DEF IInv, TypeInv
<1>2. /\ pos \in 1..Len(flv.tags) /\ tag \in TagType /\ tag.timestamp \in Int
      /\ PlainTimestamps => /\ NextTimestamp(tag.timestamp) = tag.timestamp + Duration
                            /\ Wide(tag.timestamp) = tag.timestamp
  BY TagOfTurn DEF IInv
<1>3. TablesUnit(pos) \in Unit
  <2>1. <<>> \in Seq(DOMAIN SetSize)
    OBVIOUS
  <2> QED
    BY <1>1, <1>2, <2>1, UnitTypes
<1>4. NextSeq \in Nat \ {0} /\ Count \in Nat /\ NextTables \in Nat /\ Count < NextTables
  BY <1>1, IntervalAssumption
  DEF NextSeq, Opens, Count, NextTables, TablesDue, ForcedTables
<1>5. w \in WrittenUnit /\ w.unit.kind = "tables" /\ w.file = NextSeq - 1
      /\ w.at = g_output_ts_count /\ w.unit.packets = 2 /\ w.unit.tag = pos
  BY <1>1, <1>3, <1>4 DEF WrittenUnit, Written, TablesUnit
<1>6. SetsOnce(out, ts_seq, sps_pps_write)
  <2>1. status = "running"
    BY DEF Running
  <2> QED
    BY <2>1, Zenon DEF IInv
<1>7. \A i \in 1..Len(out) : out[i].file \in 0..ts_seq-1
  BY DEF IInv, Ordered
<1>8. Ordered(out, g_output_ts_count, ts_seq) /\ Tags(out, pos) /\ Continuity(out, counter)
      /\ Cadence(out, ts_seq, next_prev_pat_pmt_output)
      /\ (PlainTimestamps => Durations(out, ts_seq, next_timestamp))
  BY DEF IInv, TagsInv, Running
<1>9. PlainTimestamps /\ tag.kind = "nalu" /\ ~Opens => tag.timestamp < next_timestamp
  BY <1>1, <1>2 DEF Opens, Due
<1> HIDE DEF w
<1>10. CASE Opens
  <2>1. NextSeq = ts_seq + 1 /\ SetsWritten = FALSE /\ TablesDue
        /\ Count = g_output_ts_count + 2 /\ NextTables = Count + PAT_PMT_INTERVAL
        /\ NextTime = NextTimestamp(tag.timestamp)
    BY <1>1, <1>10
    DEF NextSeq, SetsWritten, TablesDue, Count, NextTables, NextTime, ForcedTables
  <2>2. Opened = Append(out, w)
    BY <2>1 DEF Opened, Kept, w
  <2>3. Append(out, w) \in Seq(WrittenUnit)
    BY <1>1, <1>5
  <2>4. Ordered(Append(out, w), g_output_ts_count + 2, ts_seq + 1)
    <3>1. w.file = (ts_seq + 1) - 1 /\ ts_seq + 1 > 0 /\ ts_seq + 1 \in {ts_seq, ts_seq + 1}
      BY <1>1, <1>5, <2>1
    <3>2. Ordered(out, w.at, ts_seq)
      BY <1>5, <1>8
    <3>3. Ordered(Append(out, w), w.at + w.unit.packets, ts_seq + 1)
      BY <1>1, <1>5, <3>1, <3>2, OrderedAppend
    <3> QED
      BY <1>5, <3>3
  <2>5. Cadence(Append(out, w), ts_seq + 1, NextTables)
    <3>1. Cadence(Append(out, w), w.file + 1, w.at + 2 + PAT_PMT_INTERVAL)
      BY <1>1, <1>5, <1>8, CadenceTables
    <3>2. w.file + 1 = ts_seq + 1 /\ w.at + 2 + PAT_PMT_INTERVAL = NextTables
      BY <1>1, <1>5, <2>1, IntervalAssumption
    <3> QED
      BY <3>1, <3>2
  <2>6. Tags(Append(out, w), pos)
    BY <1>1, <1>5, <1>8, TagsTables
  <2>7. Continuity(Append(out, w), counter)
    BY <1>1, <1>5, <1>8, ContinuityTables
  <2>8. SetsOnce(Append(out, w), ts_seq + 1, FALSE)
    <3>1. SetsOnce(out, ts_seq + 1, FALSE)
      BY <1>1, <1>6, <1>7, SetsOpen
    <3> QED
      BY <1>1, <1>5, <3>1, SetsOther
  <2>9. ASSUME PlainTimestamps
        PROVE  Durations(Append(out, w), ts_seq + 1, NextTime)
    <3>1. ts_seq > 0 => tag.timestamp >= next_timestamp
      BY <1>1, <1>2, <1>10, <2>9 DEF Opens, Due
    <3>2. Durations(out, ts_seq, next_timestamp) /\ w.file = ts_seq
          /\ w.unit.tag \in 1..Len(flv.tags) /\ flv.tags[w.unit.tag].timestamp = tag.timestamp
      BY <1>1, <1>2, <1>5, <1>8, <2>1, <2>9 DEF tag
    <3>3. Durations(Append(out, w), ts_seq + 1, flv.tags[w.unit.tag].timestamp + Duration)
      BY <1>1, <1>5, <1>7, <3>1, <3>2, DurationsFirst
    <3> QED
      BY <1>2, <2>1, <2>9, <3>2, <3>3
  <2>10. \A k \in 1..Len(Append(out, w)) :
           Append(out, w)[k].file = NextSeq - 1 => Append(out, w)[k].unit.tag = pos
    <3>1. Len(out) \in Nat /\ Len(Append(out, w)) = Len(out) + 1
          /\ Append(out, w)[Len(out)+1] = w
          /\ \A i \in 1..Len(out) : Append(out, w)[i] = out[i]
      BY <1>1, <1>5, Appended
    <3> DEFINE b == Append(out, w)
               L == Len(out)
    <3> HIDE DEF b, L
    <3>2. L \in Nat /\ Len(b) = L + 1 /\ b[L+1] = w /\ \A i \in 1..L : b[i] = out[i]
      BY <3>1 DEF b, L
    <3>3. \A i \in 1..L : out[i].file # NextSeq - 1
      BY <1>1, <1>7, <2>1 DEF L
    <3>4. \A k \in 1..L+1 : b[k].file = NextSeq - 1 => b[k].unit.tag = pos
      <4>1. ASSUME NEW k \in 1..L+1, b[k].file = NextSeq - 1
            PROVE  k = L + 1
        BY <3>2, <3>3, <4>1
      <4> QED
        BY <1>5, <3>2, <4>1
    <3> QED
      BY <3>2, <3>4 DEF b
  <2> QED
    BY <1>4, <2>1, <2>2, <2>3, <2>4, <2>5, <2>6, <2>7, <2>8, <2>9, <2>10
<1>11. CASE ~Opens
  <2>1. NextSeq = ts_seq /\ SetsWritten = sps_pps_write /\ ts_seq > 0
        /\ ForcedTables = next_prev_pat_pmt_output /\ NextTime = next_timestamp
    BY <1>1, <1>11 DEF Opens, NextSeq, SetsWritten, ForcedTables, NextTime
  <2>2. PlainTimestamps /\ tag.kind = "nalu" => tag.timestamp < NextTime
    BY <1>9, <1>11, <2>1
  <2>3. CASE ~TablesDue
    <3>1. Opened = out /\ Count = g_output_ts_count
          /\ NextTables = next_prev_pat_pmt_output
      BY <2>1, <2>3 DEF Opened, Kept, Count, NextTables
    <3> QED
      BY <1>1, <1>4, <1>6, <1>8, <2>1, <2>2, <3>1
  <2>4. CASE TablesDue
    <3>1. Opened = Append(out, w) /\ Count = g_output_ts_count + 2
          /\ NextTables = Count + PAT_PMT_INTERVAL
      BY <2>4 DEF Opened, Kept, w, Count, NextTables
    <3>2. Append(out, w) \in Seq(WrittenUnit)
      BY <1>1, <1>5
    <3>3. Ordered(Append(out, w), g_output_ts_count + 2, ts_seq)
      <4>1. w.file = ts_seq - 1 /\ ts_seq \in {ts_seq, ts_seq + 1}
            /\ Ordered(out, w.at, ts_seq)
        BY <1>5, <1>8, <2>1
      <4>2. Ordered(Append(out, w), w.at + w.unit.packets, ts_seq)
        BY <1>1, <1>5, <2>1, <4>1, OrderedAppend
      <4> QED
        BY <1>5, <4>2
    <3>4. Cadence(Append(out, w), ts_seq, NextTables)
      <4>1. Cadence(Append(out, w), w.file + 1, w.at + 2 + PAT_PMT_INTERVAL)
        BY <1>1, <1>5, <1>8, CadenceTables
      <4>2. w.file + 1 = ts_seq /\ w.at + 2 + PAT_PMT_INTERVAL = NextTables
        BY <1>1, <1>5, <2>1, <3>1, IntervalAssumption
      <4> QED
        BY <4>1, <4>2
    <3>5. Tags(Append(out, w), pos)
      BY <1>1, <1>5, <1>8, TagsTables
    <3>6. Continuity(Append(out, w), counter)
      BY <1>1, <1>5, <1>8, ContinuityTables
    <3>7. SetsOnce(Append(out, w), ts_seq, sps_pps_write)
      BY <1>1, <1>5, <1>6, SetsOther
    <3>8. ASSUME PlainTimestamps
          PROVE  Durations(Append(out, w), ts_seq, next_timestamp)
      <4>1. \E k \in 1..Len(out) : out[k].file = ts_seq - 1
        <5>1. ts_seq - 1 \in 0..ts_seq-1
          BY <1>1, <2>1
        <5> QED
          BY <1>8, <5>1 DEF Ordered
      <4>2. Durations(out, ts_seq, next_timestamp) /\ w.file = ts_seq - 1
            /\ w.unit.tag \in 1..Len(flv.tags) /\ w.unit.kind # "video"
        BY <1>2, <1>5, <1>8, <2>1, <3>8
      <4> QED
        BY <1>1, <1>5, <4>1, <4>2, DurationsMore
    <3> QED
      BY <1>4, <2>1, <2>2, <3>1, <3>2, <3>3, <3>4, <3>5, <3>6, <3>7, <3>8
  <2> QED
    BY <2>3, <2>4
<1> QED
  BY <1>10, <1>11

\* The parts that read the input file, after a step.
LEMMA PrimedParts ==
  ASSUME UNCHANGED flv
  PROVE  /\ Ordered(out, g_output_ts_count, ts_seq)' <=>
              Ordered(out', g_output_ts_count', ts_seq')
         /\ Cadence(out, ts_seq, next_prev_pat_pmt_output)' <=>
              Cadence(out', ts_seq', next_prev_pat_pmt_output')
         /\ \A p : Tags(out, p)' <=> Tags(out', p)
         /\ TagsInv' <=>
              \/ Tags(out', pos')
              \/ /\ status' = "failed" /\ pos' - 1 \in 1..Len(flv.tags)
                 /\ flv.tags[pos'-1].kind = "nalu" /\ ~Fits(flv.tags[pos'-1], conf'.width)
                 /\ Tags(out', pos' - 1)
         /\ Continuity(out, counter)' <=> Continuity(out', counter')
         /\ \A written : SetsOnce(out, ts_seq, written)' <=>
                           SetsOnce(out', ts_seq', written)
         /\ HeadersBefore(pos)' = HeadersBefore(pos')
         /\ PlainTimestamps' <=> PlainTimestamps
         /\ Durations(out, ts_seq, next_timestamp)' <=>
              Durations(out', ts_seq', next_timestamp')
<1>1. /\ Ordered(out, g_output_ts_count, ts_seq)' <=>
           Ordered(out', g_output_ts_count', ts_seq')
      /\ Cadence(out, ts_seq, next_prev_pat_pmt_output)' <=>
           Cadence(out', ts_seq', next_prev_pat_pmt_output')
      /\ Continuity(out, counter)' <=> Continuity(out', counter')
  OBVIOUS
<1>2. \A p : Tags(out, p)' <=> Tags(out', p)
  BY DEF Tags, MediaTag, TagAt, EosAfter
<1>t. TagsInv' <=>
        \/ Tags(out', pos')
        \/ /\ status' = "failed" /\ pos' - 1 \in 1..Len(flv.tags)
           /\ flv.tags[pos'-1].kind = "nalu" /\ ~Fits(flv.tags[pos'-1], conf'.width)
           /\ Tags(out', pos' - 1)
  BY DEF TagsInv, Tags, MediaTag, TagAt, EosAfter
<1>3. \A written : SetsOnce(out, ts_seq, written)' <=> SetsOnce(out', ts_seq', written)
  BY DEF SetsOnce, HeadersBefore
<1>4. HeadersBefore(pos)' = HeadersBefore(pos')
  BY DEF HeadersBefore
<1>5. PlainTimestamps' <=> PlainTimestamps
  BY DEF PlainTimestamps
<1>6. Durations(out, ts_seq, next_timestamp)' <=>
        Durations(out', ts_seq', next_timestamp')
  BY DEF Durations, Time
<1> QED
  BY <1>1, <1>2, <1>t, <1>3, <1>4, <1>5, <1>6

\* A list of parameter sets after a header.
LEMMA PushedSets ==
  ASSUME NEW l \in Lists, l.num <= Len(l.list), NEW sets \in Sets
  PROVE  /\ PushSets(l, sets).num <= Len(PushSets(l, sets).list)
         /\ l.list = <<>> => Announced(PushSets(l, sets)) = sets
         /\ Announced(l) = sets => Announced(PushSets(l, sets)) = sets
<1>1. l.list \in Sets /\ l.num \in 0..Len(l.list)
  BY DEF Lists
<1>2. PushSets(l, sets).list = l.list \o sets /\ PushSets(l, sets).num = Len(sets)
  BY DEF PushSets
<1>3. Len(l.list \o sets) = Len(l.list) + Len(sets) /\ Len(sets) \in Nat
      /\ SubSeq(sets, 1, Len(sets)) = sets /\ <<>> \o sets = sets
  BY <1>1 DEF Sets
<1>4. Announced(l) = sets => SubSeq(l.list \o sets, 1, Len(sets)) = sets
  BY <1>1, SubSeqFront DEF Announced, Sets
<1>5. PushSets(l, sets).num <= Len(PushSets(l, sets).list)
  <2>1. Len(l.list) \in Nat
    BY <1>1 DEF Sets
  <2> QED
    BY <1>2, <1>3, <2>1
<1>6. l.list = <<>> => SubSeq(l.list \o sets, 1, Len(sets)) = sets
  BY <1>3
<1>7. Announced(PushSets(l, sets)) = SubSeq(l.list \o sets, 1, Len(sets))
  BY <1>2 DEF Announced
<1> QED
  BY <1>4, <1>5, <1>6, <1>7, Zenon

\* The configuration after a tag.
LEMMA ConfStep ==
  ASSUME TypeInv, ConfInv, Running(Kinds), UNCHANGED flv, pos' = pos + 1,
         conf' = IF tag.kind = "avc_config" THEN ParseConf(conf, tag.header) ELSE conf
  PROVE  ConfInv' /\ conf' \in Conf /\ CountsFit(conf')
<1>1. conf \in Conf /\ CountsFit(conf) /\ conf.sps \in Lists /\ conf.pps \in Lists
  BY DEF TypeInv, Conf
<1>2. pos \in Nat \ {0} /\ tag \in TagType
  BY TagOfTurn
<1>3. /\ tag.header.sps \in Sets /\ tag.header.pps \in Sets
      /\ tag.kind = "avc_config" => tag.header \in Header
  BY <1>2, TagFields
<1>4. HeadersBefore(pos)' = IF tag.kind = "avc_config"
                            THEN HeadersBefore(pos) \cup {SetsOf(tag.header)}
                            ELSE HeadersBefore(pos)
  BY <1>2, HeadersNext, PrimedParts DEF tag
<1>5. CASE tag.kind # "avc_config"
  <2>1. conf' = conf /\ HeadersBefore(pos)' = HeadersBefore(pos)
    BY <1>4, <1>5
  <2> QED
    BY <1>1, <2>1 DEF ConfInv
<1>6. CASE tag.kind = "avc_config"
  <2>1. /\ conf'.sps = PushSets(conf.sps, tag.header.sps)
        /\ conf'.pps = PushSets(conf.pps, tag.header.pps)
        /\ conf' \in Conf
    BY <1>1, <1>3, <1>6, ConfTypes DEF ParseConf
  <2>2. CountsFit(conf')
    BY <1>1, <1>3, <2>1, PushedSets DEF CountsFit
  <2>3. HeadersBefore(pos)' # {}
    BY <1>4, <1>6
  <2>4. ASSUME NEW sets, HeadersBefore(pos)' = {sets}
        PROVE  Announced(conf'.sps) = sets.sps /\ Announced(conf'.pps) = sets.pps
    <3>1. /\ sets = SetsOf(tag.header)
          /\ HeadersBefore(pos) = {} \/ HeadersBefore(pos) = {sets}
      BY <1>4, <1>6, <2>4
    <3>2. sets.sps = tag.header.sps /\ sets.pps = tag.header.pps
      BY <3>1 DEF SetsOf
    <3>3. \/ conf.sps.list = <<>> /\ conf.pps.list = <<>>
          \/ Announced(conf.sps) = sets.sps /\ Announced(conf.pps) = sets.pps
      BY <3>1, Zenon DEF ConfInv
    <3> QED
      BY <1>1, <1>3, <2>1, <3>2, <3>3, PushedSets DEF CountsFit
  <2> QED
    BY <2>1, <2>2, <2>3, <2>4 DEF ConfInv
<1> QED
  BY <1>5, <1>6

\* A turn that leaves no payload behind.
LEMMA NoPayloadStep ==
  ASSUME IInv, Running(Kinds), Prologue, NoPayload,
         \/ tag.kind \notin MediaKinds \/ pos' = pos
         \/ tag.kind = "nalu" /\ ~Fits(tag, conf'.width) /\ status' = "failed",
         pos' \in {pos, pos + 1}, status' \in {"running", "failed", "undefined"},
         sps_pps_write' \in BOOLEAN,
         /\ conf' \in Conf /\ CountsFit(conf'),
         status' = "running" => sps_pps_write' = SetsWritten /\ ConfInv'
  PROVE  IInv'
<1>1. /\ NextSeq \in Nat \ {0} /\ Count \in Nat /\ NextTables \in Nat
      /\ Opened \in Seq(WrittenUnit)
      /\ Ordered(Opened, Count, NextSeq) /\ Cadence(Opened, NextSeq, NextTables)
      /\ Tags(Opened, pos) /\ Continuity(Opened, counter)
      /\ SetsOnce(Opened, NextSeq, SetsWritten)
      /\ PlainTimestamps => Durations(Opened, NextSeq, NextTime)
  BY OpenedInv, Zenon
<1>2. /\ pos \in 1..Len(flv.tags) /\ Len(flv.tags) \in Nat
      /\ NextTimestamp(tag.timestamp) \in 0..TimeMod-1
  BY TagOfTurn DEF IInv
<1>3. /\ out' = Opened /\ g_output_ts_count' = Count /\ counter' = counter
      /\ switched' = FALSE /\ next_timestamp' = NextTime /\ flv' = flv
      /\ next_prev_pat_pmt_output' = NextTables /\ ts_seq' = NextSeq
  BY DEF Prologue, NoPayload, NextTime, NextTables
<1>4. /\ flv \in Files /\ counter \in [Streams -> Nat] /\ sps_pps_write \in BOOLEAN
      /\ next_timestamp \in 0..TimeMod-1
  BY DEF IInv, TypeInv
<1>5. TypeInv'
  <2>1. next_timestamp' \in 0..TimeMod-1
    BY <1>2, <1>3, <1>4 DEF NextTime
  <2>2. pos' \in 1..Len(flv.tags)+1
    BY <1>2
  <2> QED
    BY <1>1, <1>2, <1>3, <1>4, <2>1, <2>2 DEF TypeInv
<1>6. TagsInv'
  <2>1. CASE pos' = pos
    BY <1>1, <1>3, <2>1, PrimedParts, Zenon
  <2>2. CASE pos' = pos + 1 /\ tag.kind \notin MediaKinds
    <3>1. ~MediaTag(pos)
      BY <2>2 DEF MediaTag, tag
    <3>2. Tags(out', pos')
      BY <1>1, <1>2, <1>3, <2>2, <3>1, TagsSkip
    <3> QED
      BY <1>3, <3>2, PrimedParts, Zenon
  <2>3. CASE pos' = pos + 1 /\ tag.kind = "nalu" /\ ~Fits(tag, conf'.width) /\ status' = "failed"
    <3>1. pos' - 1 = pos /\ tag = flv.tags[pos]
      BY <1>2, <2>3 DEF tag
    <3>2. Tags(out', pos' - 1)
      BY <1>1, <1>3, <3>1
    <3>3. flv.tags[pos'-1] = tag /\ pos' - 1 \in 1..Len(flv.tags)
      BY <1>2, <3>1
    <3> QED
      BY <1>3, <2>3, <3>2, <3>3, PrimedParts, Zenon
  <2> QED
    BY <2>1, <2>2, <2>3
<1>7. SetsWritten \in BOOLEAN
  BY <1>4 DEF SetsWritten
<1>8. \E written \in BOOLEAN : /\ SetsOnce(out', ts_seq', written)
                               /\ status' = "running" => written = sps_pps_write'
  BY <1>1, <1>3, <1>7, Zenon
<1> QED
  BY <1>1, <1>3, <1>5, <1>6, <1>8, PrimedParts, Zenon DEF IInv

\* A turn that writes the payload u on stream s.
LEMMA PayloadStep ==
  ASSUME IInv, Running(MediaKinds), Prologue, NEW s \in Streams, NEW u \in Unit,
         u.kind = s, u.tag = pos, u.cc = counter[s] % 16, Payload(s, u, u.packets),
         pos' = pos + 1, UNCHANGED <<status, conf>>,
         s = "video" => /\ tag.kind = "nalu" /\ u.sets = SetsNow /\ sps_pps_write' = TRUE,
         s # "video" => sps_pps_write' = SetsWritten
  PROVE  IInv'
<1>a. Running(Kinds) /\ tag.kind \in MediaKinds /\ tag.kind # "avc_config"
  BY DEF Running, Kinds, MediaKinds
<1>1. /\ NextSeq \in Nat \ {0} /\ Count \in Nat /\ NextTables \in Nat /\ Count < NextTables
      /\ Opened \in Seq(WrittenUnit)
      /\ Ordered(Opened, Count, NextSeq) /\ Cadence(Opened, NextSeq, NextTables)
      /\ Tags(Opened, pos) /\ Continuity(Opened, counter)
      /\ SetsOnce(Opened, NextSeq, SetsWritten)
      /\ PlainTimestamps =>
           /\ Durations(Opened, NextSeq, NextTime)
           /\ tag.kind = "nalu" =>
                \A k \in 1..Len(Opened) :
                  First(Opened, k) /\ Opened[k].file = NextSeq - 1
                    /\ Opened[k].unit.tag # pos => tag.timestamp < NextTime
  BY <1>a, OpenedInv, Zenon
<1>2. /\ pos \in 1..Len(flv.tags) /\ Len(flv.tags) \in Nat
      /\ NextTimestamp(tag.timestamp) \in 0..TimeMod-1
  BY TagOfTurn DEF IInv
<1> DEFINE w == Written(u, Count)
<1>3. /\ out' = Append(Opened, w) /\ g_output_ts_count' = Count + u.packets
      /\ counter' = [counter EXCEPT ![s] = @ + u.packets]
      /\ switched' = FALSE /\ next_timestamp' = NextTime /\ flv' = flv
      /\ next_prev_pat_pmt_output' = NextTables /\ ts_seq' = NextSeq
  BY DEF Prologue, Payload, NextTime, NextTables
<1>4. /\ flv \in Files /\ counter \in [Streams -> Nat] /\ sps_pps_write \in BOOLEAN
      /\ next_timestamp \in 0..TimeMod-1 /\ status \in {"running", "done", "failed", "undefined"}
      /\ conf \in Conf /\ CountsFit(conf)
  BY DEF IInv, TypeInv
<1>5. /\ w \in WrittenUnit /\ w.unit = u /\ w.file = NextSeq - 1 /\ w.at = Count
      /\ u.packets \in Nat /\ s # "tables"
  BY <1>1 DEF WrittenUnit, Written, Unit, Streams
<1> HIDE DEF w
<1>6. SetsWritten \in BOOLEAN
  BY <1>4 DEF SetsWritten
<1>7. ConfInv /\ status = "running"
  BY DEF IInv, Running
<1>8. ConfInv'
  <2>1. TypeInv
    BY DEF IInv
  <2> QED
    BY <1>a, <1>3, <1>7, <2>1, ConfStep
<1>9. TypeInv'
  <2>1. next_timestamp' \in 0..TimeMod-1
    BY <1>2, <1>3, <1>4 DEF NextTime
  <2>2. counter' \in [Streams -> Nat]
    BY <1>3, <1>4, <1>5
  <2>3. Append(Opened, w) \in Seq(WrittenUnit)
    BY <1>1, <1>5
  <2>4. sps_pps_write' \in BOOLEAN
    BY <1>6
  <2>5. /\ g_output_ts_count' \in Nat /\ ts_seq' \in Nat /\ next_prev_pat_pmt_output' \in Nat
        /\ ts_seq' # 0
    BY <1>1, <1>3, <1>5
  <2>6. pos' \in 1..Len(flv'.tags)+1
    BY <1>2, <1>3
  <2>7. switched' \in BOOLEAN /\ (switched' <=> ts_seq' = 0)
    BY <1>3, <2>5, Zenon
  <2>8. flv' \in Files /\ out' \in Seq(WrittenUnit) /\ status' = status /\ conf' = conf
    BY <1>3, <1>4, <2>3
  <2> QED
    BY <1>4, <2>1, <2>2, <2>4, <2>5, <2>6, <2>7, <2>8, Zenon DEF TypeInv
<1>10. Ordered(out', g_output_ts_count', ts_seq')
  <2>1. Ordered(Append(Opened, w), w.at + w.unit.packets, NextSeq)
    <3>1. NextSeq \in {NextSeq, NextSeq + 1} /\ NextSeq > 0 /\ NextSeq \in Nat
          /\ Ordered(Opened, w.at, NextSeq)
      BY <1>1, <1>5
    <3> QED
      BY <1>1, <1>5, <3>1, OrderedAppend
  <2> QED
    BY <1>3, <1>5, <2>1
<1>11. Cadence(out', ts_seq', next_prev_pat_pmt_output')
  <2>1. Cadence(Append(Opened, w), NextSeq, NextTables)
    BY <1>1, <1>5, CadenceMedia
  <2> QED
    BY <1>3, <2>1
<1>12. TagsInv'
  <2>1. MediaTag(pos)
    BY <1>a DEF MediaTag, Running, tag
  <2>2. Tags(Append(Opened, w), pos + 1)
    BY <1>1, <1>2, <1>5, <2>1, TagsMedia
  <2>3. Tags(out', pos')
    BY <1>3, <2>2
  <2> QED
    BY <1>3, <2>3, PrimedParts, Zenon
<1>13. Continuity(out', counter')
  <2>1. Continuity(Append(Opened, w), [counter EXCEPT ![s] = @ + w.unit.packets])
    BY <1>1, <1>4, <1>5, ContinuityMedia
  <2> QED
    BY <1>3, <1>5, <2>1
<1>14. SetsOnce(out', ts_seq', sps_pps_write') /\ sps_pps_write' \in BOOLEAN
  <2>1. CASE s # "video"
    <3>1. SetsOnce(Append(Opened, w), NextSeq, SetsWritten)
      BY <1>1, <1>5, <2>1, SetsOther
    <3> QED
      BY <1>3, <1>6, <2>1, <3>1
  <2>2. CASE s = "video"
    <3>1. \A sets \in HeadersBefore(pos) : HeadersBefore(pos) = {sets} =>
            u.sets = IF SetsWritten THEN <<>> ELSE InFront(sets)
      BY <1>7, <2>2 DEF ConfInv, SetsNow, ParameterSets, InFront
    <3>2. SetsOnce(Append(Opened, w), NextSeq, TRUE)
      BY <1>1, <1>5, <1>6, <2>2, <3>1, SetsVideo
    <3> QED
      BY <1>3, <2>2, <3>2
  <2> QED
    BY <2>1, <2>2
<1>15. PlainTimestamps => Durations(out', ts_seq', next_timestamp')
  <2> SUFFICES ASSUME PlainTimestamps PROVE Durations(Append(Opened, w), NextSeq, NextTime)
    BY <1>3
  <2>1. \E k \in 1..Len(Opened) : Opened[k].file = NextSeq - 1
    <3>1. NextSeq - 1 \in 0..NextSeq-1
      BY <1>1
    <3> QED
      BY <1>1, <3>1 DEF Ordered
  <2>2. \A k \in 1..Len(Opened) :
          /\ w.unit.kind = "video" /\ First(Opened, k)
          /\ Opened[k].file = NextSeq - 1 /\ Opened[k].unit.tag # w.unit.tag
          => flv.tags[w.unit.tag].timestamp < NextTime
    <3>1. s = "video" => tag.kind = "nalu"
      OBVIOUS
    <3> QED
      BY <1>1, <1>5, <3>1 DEF tag
  <2>3. Durations(Opened, NextSeq, NextTime) /\ w.unit.tag \in 1..Len(flv.tags)
    BY <1>1, <1>2, <1>5
  <2> QED
    BY <1>1, <1>5, <2>1, <2>2, <2>3, DurationsMore
<1>16. \E written \in BOOLEAN : /\ SetsOnce(out', ts_seq', written)
                                /\ status' = "running" => written = sps_pps_write'
  BY <1>14, Zenon
<1> QED
  BY <1>3, <1>8, <1>9, <1>10, <1>11, <1>12, <1>13, <1>15, <1>16, PrimedParts, Zenon DEF IInv

----------------------------------------------------------------------------
LEMMA InitInv == Init => IInv
<1> SUFFICES ASSUME Init PROVE IInv
  OBVIOUS
<1>1. flv.tags \in Seq(TagType)
  BY FilesAssumption DEF Init
<1>2. out = <<>> /\ Len(out) = 0 /\ ts_seq = 0 /\ pos = 1 /\ sps_pps_write = FALSE
      /\ conf = NoConf /\ counter = [s \in Streams |-> 0] /\ g_output_ts_count = 0
  BY DEF Init
<1>3. TypeInv
  <2>1. NoConf \in Conf /\ CountsFit(NoConf)
    BY ConfTypes DEF NoConf, NoSets, CountsFit
  <2>2. /\ flv \in Files /\ pos \in 1..Len(flv.tags)+1 /\ next_timestamp \in 0..TimeMod-1
        /\ next_prev_pat_pmt_output \in Nat /\ g_output_ts_count \in Nat
        /\ counter \in [Streams -> Nat] /\ ts_seq \in Nat /\ out \in Seq(WrittenUnit)
    BY <1>1, <1>2, TimeModAssumption DEF Init
  <2>3. switched \in BOOLEAN /\ sps_pps_write \in BOOLEAN /\ (switched <=> ts_seq = 0)
    BY Zenon DEF Init
  <2> QED
    BY <1>2, <2>1, <2>2, <2>3, Zenon DEF Init, TypeInv
<1>4. Ordered(out, g_output_ts_count, ts_seq)
  BY <1>2 DEF Ordered
<1>5. Cadence(out, ts_seq, next_prev_pat_pmt_output)
  BY <1>2 DEF Cadence
<1>6. TagsInv
  BY <1>2 DEF Tags, TagsInv
<1>7. Continuity(out, counter)
  BY <1>2 DEF Continuity
<1>8. SetsOnce(out, ts_seq, FALSE)
  BY <1>2 DEF SetsOnce
<1>9. ConfInv
  BY <1>2 DEF ConfInv, HeadersBefore, NoConf, NoSets, Announced
<1>10. Durations(out, ts_seq, next_timestamp)
  BY <1>2 DEF Durations
<1> QED
  BY <1>2, <1>3, <1>4, <1>5, <1>6, <1>7, <1>8, <1>9, <1>10 DEF IInv

LEMMA NextInv == IInv /\ [Next]_vars => IInv'
<1> SUFFICES ASSUME IInv, [Next]_vars PROVE IInv'
  OBVIOUS
<1>t. TypeInv
  BY DEF IInv
<1>k. \A kinds : Running(kinds) => status = "running" /\ TagAt(flv, pos) /\ tag.kind \in kinds
  BY DEF Running
<1>c. /\ conf \in Conf /\ CountsFit(conf) /\ sps_pps_write \in BOOLEAN /\ SetsWritten \in BOOLEAN
  BY DEF IInv, TypeInv, SetsWritten
<1>r. status = "running" => Tags(out, pos)
  BY DEF IInv, TagsInv
<1>s. ASSUME UNCHANGED <<flv, loop>>, pos' \in 1..Len(flv.tags)+1, Tags(out, pos'),
             status' \in {"done", "failed"}
      PROVE  IInv'
  <2>1. TypeInv'
    BY <1>t, <1>s DEF TypeInv, loop
  <2>2. /\ out' = out /\ ts_seq' = ts_seq /\ counter' = counter /\ flv' = flv
        /\ next_timestamp' = next_timestamp /\ g_output_ts_count' = g_output_ts_count
        /\ next_prev_pat_pmt_output' = next_prev_pat_pmt_output
        /\ sps_pps_write' = sps_pps_write /\ status' # "running"
    BY <1>s DEF loop
  <2>3. TagsInv'
    <3>1. Tags(out', pos')
      BY <1>s, <2>2
    <3> QED
      BY <2>2, <3>1, PrimedParts, Zenon
  <2> QED
    BY <2>1, <2>2, <2>3, PrimedParts, Zenon DEF IInv
<1>1. CASE ParseError
  <2>1. pos' = pos /\ status = "running" /\ status' = "failed" /\ UNCHANGED <<flv, loop>>
    BY <1>1 DEF ParseError
  <2> QED
    BY <1>r, <1>s, <1>t, <2>1 DEF TypeInv
<1>2. CASE Eos
  <2>1. /\ status' = "done" /\ UNCHANGED <<flv, loop>> /\ EosAfter(flv, pos)
        /\ pos' = Len(flv.tags) + 1
    BY <1>2 DEF Eos
  <2>2. flv.tags \in Seq(TagType) /\ Len(flv.tags) \in Nat
    BY <1>t, FilesAssumption DEF TypeInv
  <2>3. pos \in Nat \ {0} /\ Tags(out, pos)
    BY <1>2, <1>r, <1>t, <2>2 DEF TypeInv, Eos
  <2>4. Tags(out, pos')
    <3>1. CASE pos = Len(flv.tags) + 1
      BY <2>1, <2>3, <3>1
    <3>2. CASE pos = Len(flv.tags)
      <4>1. ~MediaTag(pos)
        BY <2>1 DEF MediaTag, TagAt
      <4> QED
        BY <2>1, <2>3, <3>2, <4>1, TagsSkip
    <3> QED
      BY <2>1, <3>1, <3>2 DEF EosAfter
  <2>5. pos' \in 1..Len(flv.tags)+1
    BY <2>1, <2>2
  <2> QED
    BY <1>s, <2>1, <2>4, <2>5
<1>3. CASE OpenError
  <2>1. pos' = pos /\ status = "running" /\ status' = "failed" /\ UNCHANGED <<flv, loop>>
    BY <1>3 DEF OpenError, Running
  <2> QED
    BY <1>r, <1>s, <1>t, <2>1 DEF TypeInv
<1>4. CASE Skip
  <2>1. /\ Running(Kinds) /\ tag.kind \notin MediaKinds /\ tag.kind # "avc_config"
        /\ status = "running"
    BY <1>4 DEF Skip, Running, Kinds, SkippedKinds, MediaKinds
  <2>2. /\ Prologue /\ NoPayload /\ pos' = pos + 1 /\ sps_pps_write' = SetsWritten
        /\ status' = status /\ conf' = conf /\ flv' = flv
    BY <1>4 DEF Skip, Prologue
  <2>3. ConfInv'
    BY <1>t, <2>1, <2>2, ConfStep DEF IInv
  <2> QED
    BY <1>c, <2>1, <2>2, <2>3, NoPayloadStep
<1>5. CASE Unsupported
  <2>1. /\ Running(Kinds)
        /\ tag.kind \notin MediaKinds \/ (tag.kind = "nalu" /\ ~Fits(tag, conf.width))
    BY <1>5 DEF Unsupported, Running, Kinds, UnsupportedKinds, MediaKinds
  <2>2. /\ Prologue /\ NoPayload /\ pos' = pos + 1 /\ sps_pps_write' \in BOOLEAN
        /\ status' = "failed" /\ conf' = conf
    BY <1>5, <1>c DEF Unsupported
  <2> QED
    BY <1>c, <2>1, <2>2, NoPayloadStep
<1>6. CASE Audio
  <2>1. Running(Kinds) /\ Running(MediaKinds)
    BY <1>6 DEF Audio, Running, Kinds, MediaKinds
  <2>2. /\ Prologue /\ Payload("audio", AudioUnit(pos, tag, counter), AudioPackets(tag))
        /\ pos' = pos + 1 /\ sps_pps_write' = SetsWritten /\ UNCHANGED <<status, conf>>
    BY <1>6 DEF Audio
  <2>3. /\ AudioUnit(pos, tag, counter) \in Unit
        /\ AudioPackets(tag) = AudioUnit(pos, tag, counter).packets
        /\ AudioUnit(pos, tag, counter).kind = "audio" /\ "audio" \in Streams
        /\ AudioUnit(pos, tag, counter).tag = pos
        /\ AudioUnit(pos, tag, counter).cc = counter["audio"] % 16
    <3>1. pos \in Nat /\ tag \in TagType /\ counter \in [Streams -> Nat]
      BY <1>t, <2>1, TagOfTurn DEF TypeInv
    <3>2. <<>> \in Seq(DOMAIN SetSize)
      OBVIOUS
    <3> QED
      BY <3>1, <3>2, UnitTypes DEF AudioUnit, Streams
  <2> DEFINE u == AudioUnit(pos, tag, counter)
  <2> HIDE DEF u
  <2>4. /\ u \in Unit /\ u.kind = "audio" /\ u.tag = pos /\ u.cc = counter["audio"] % 16
        /\ Payload("audio", u, u.packets) /\ "audio" \in Streams
    BY <2>2, <2>3 DEF u
  <2> QED
    BY <2>1, <2>2, <2>4, PayloadStep
<1>7. CASE SequenceHeader
  <2>1. /\ Running(Kinds) /\ tag.kind \notin MediaKinds /\ tag.kind = "avc_config"
        /\ status = "running"
    BY <1>7 DEF SequenceHeader, Running, Kinds, MediaKinds
  <2>2. /\ Prologue /\ NoPayload /\ pos' = pos + 1 /\ sps_pps_write' = SetsWritten
        /\ status' = status /\ conf' = ParseConf(conf, tag.header) /\ flv' = flv
    BY <1>7 DEF SequenceHeader, Prologue
  <2>3. /\ ConfInv' /\ conf' \in Conf /\ CountsFit(conf')
    BY <1>t, <2>1, <2>2, ConfStep DEF IInv
  <2> QED
    BY <1>c, <2>1, <2>2, <2>3, NoPayloadStep
<1>8. CASE Video
  <2>1. Running(Kinds) /\ Running(MediaKinds) /\ tag.kind = "nalu"
    BY <1>8 DEF Video, Running, Kinds, MediaKinds
  <2>2. /\ Prologue
        /\ Payload("video", VideoUnit(pos, tag, counter, SetsNow, conf.width),
                   VideoPackets(tag, SetsNow, conf.width))
        /\ pos' = pos + 1 /\ sps_pps_write' = TRUE /\ UNCHANGED <<status, conf>>
    BY <1>8 DEF Video
  <2>3. SetsNow \in Seq(DOMAIN SetSize)
    <3>1. ParameterSets(conf) \in Seq(DOMAIN SetSize)
      <4>1. /\ conf.sps.list \in Sets /\ conf.sps.num \in 0..Len(conf.sps.list)
            /\ conf.pps.list \in Sets /\ conf.pps.num \in 0..Len(conf.pps.list)
        BY <1>c, ConfTypes DEF CountsFit
      <4> QED
        BY <4>1 DEF ParameterSets, Announced, Sets
    <3>2. <<>> \in Seq(DOMAIN SetSize)
      OBVIOUS
    <3> QED
      BY <3>1, <3>2, Zenon DEF SetsNow
  <2> DEFINE sets == SetsNow
             width == conf.width
             u == VideoUnit(pos, tag, counter, sets, width)
  <2> HIDE DEF sets, width
  <2>4. /\ u \in Unit /\ VideoPackets(tag, sets, width) = u.packets /\ u.sets = sets
        /\ u.kind = "video" /\ "video" \in Streams
        /\ u.tag = pos /\ u.cc = counter["video"] % 16
    <3>1. pos \in Nat /\ tag \in TagType /\ counter \in [Streams -> Nat]
          /\ sets \in Seq(DOMAIN SetSize)
      BY <1>t, <2>1, <2>3, TagOfTurn DEF TypeInv, sets
    <3> QED
      BY <3>1, UnitTypes DEF VideoUnit, Streams
  <2> HIDE DEF u
  <2>5. Payload("video", u, u.packets)
    BY <2>2, <2>4 DEF u, sets, width
  <2> QED
    BY <2>1, <2>2, <2>4, <2>5, PayloadStep DEF sets
<1>9. CASE VideoWithoutConf
  <2>1. Running(Kinds)
    BY <1>9 DEF VideoWithoutConf, Running, Kinds, MediaKinds, UnsupportedKinds
  <2>2. /\ Prologue /\ NoPayload /\ pos' = pos /\ status' = "undefined"
        /\ sps_pps_write' = sps_pps_write /\ conf' = conf
    BY <1>9 DEF VideoWithoutConf
  <2> QED
    BY <1>c, <2>1, <2>2, NoPayloadStep
<1>10. CASE UNCHANGED vars
  <2>1. /\ out' = out /\ ts_seq' = ts_seq /\ counter' = counter /\ flv' = flv
        /\ next_timestamp' = next_timestamp /\ g_output_ts_count' = g_output_ts_count
        /\ next_prev_pat_pmt_output' = next_prev_pat_pmt_output
        /\ sps_pps_write' = sps_pps_write /\ status' = status /\ pos' = pos
        /\ conf' = conf /\ switched' = switched
    BY <1>10 DEF vars
  <2>2. TypeInv'
    BY <1>t, <2>1 DEF TypeInv
  <2>3. ConfInv => ConfInv'
    <3>1. HeadersBefore(pos)' = HeadersBefore(pos)
      BY <2>1, PrimedParts
    <3> QED
      BY <2>1, <3>1, Zenon DEF ConfInv
  <2>4. TagsInv => TagsInv'
    BY <2>1, PrimedParts, Zenon DEF TagsInv
  <2> QED
    BY <2>1, <2>2, <2>3, <2>4, PrimedParts, Zenon DEF IInv
<1> QED
  BY <1>1, <1>2, <1>3, <1>4, <1>5, <1>6, <1>7, <1>8, <1>9, <1>10 DEF Next

LEMMA Invariance == Spec => []IInv
<1> QED
  BY InitInv, NextInv, PTL DEF Spec

----------------------------------------------------------------------------
(* The properties.                                                         *)

\* The variables stay in their ranges, the files are written one after the
\* other, and g_output_ts_count has counted every packet of every file.
THEOREM TypeCorrect == Spec => []TypeOK
<1>1. IInv => TypeOK
  <2> SUFFICES ASSUME IInv PROVE TypeOK
    OBVIOUS
  <2>1. TypeInv /\ Ordered(out, g_output_ts_count, ts_seq)
    BY DEF IInv
  <2>2. /\ conf.sps.num \in 0..Len(conf.sps.list)
        /\ conf.pps.num \in 0..Len(conf.pps.list)
    BY <2>1, ConfTypes DEF TypeInv, CountsFit
  <2> QED
    BY <2>1, <2>2 DEF TypeInv, Ordered, TypeOK
<1> QED
  BY Invariance, <1>1, PTL

\* Every file begins with the tables, and payloads start in time after them.
THEOREM PsiCadenceHolds == Spec => []PsiCadence
<1>1. IInv => PsiCadence
  BY DEF IInv, Cadence, Ordered, PsiCadence, Begins, SameFile, First, IsTables, IsMedia
<1> QED
  BY Invariance, <1>1, PTL

\* The files hold every AAC frame and NALU that was read, once and in order.
THEOREM EveryTagOnceHolds == Spec => []EveryTagOnce
<1>1. IInv => EveryTagOnce
  <2> SUFFICES ASSUME IInv PROVE EveryTagOnce
    OBVIOUS
  <2>1. CASE Tags(out, pos)
    BY <2>1 DEF Tags, EveryTagOnce, IsMedia
  <2>2. CASE /\ status = "failed" /\ pos - 1 \in 1..Len(flv.tags)
             /\ ~Fits(flv.tags[pos-1], conf.width)
             /\ flv.tags[pos-1].kind = "nalu" /\ Tags(out, pos - 1)
    <3>1. GivenUp(pos - 1)
      BY <2>2 DEF GivenUp
    <3>2. \A p \in 1..pos-1 : p = pos - 1 \/ p \in 1..(pos-1)-1
      BY <2>2
    <3>3. \A p \in 1..(pos-1)-1 : p \in 1..pos-1
      BY <2>2
    <3> HIDE DEF GivenUp, MediaTag
    <3> QED
      BY <2>2, <3>1, <3>2, <3>3 DEF Tags, EveryTagOnce, IsMedia
  <2> QED
    BY <2>1, <2>2 DEF IInv, TagsInv
<1> QED
  BY Invariance, <1>1, PTL

\* The first video payload of every file, and no other, has the parameter sets.
THEOREM ParameterSetsHold == Spec => []ParameterSetsOncePerFile
<1>1. IInv => ParameterSetsOncePerFile
  <2> SUFFICES ASSUME IInv PROVE ParameterSetsOncePerFile
    OBVIOUS
  <2>1. PICK written : SetsOnce(out, ts_seq, written)
    BY DEF IInv
  <2> HIDE DEF HeadersBefore
  <2> QED
    BY <2>1 DEF SetsOnce, ParameterSetsOncePerFile, FirstSets, FirstVideo, IsVideo, SameFile
<1> QED
  BY Invariance, <1>1, PTL

\* The continuity counters run on from file to file.
THEOREM ContinuityHolds == Spec => []ContinuityAcrossFiles
<1>1. IInv => ContinuityAcrossFiles
  <2> SUFFICES ASSUME IInv, NEW i \in 1..Len(out), out[i].unit.kind # "tables"
               PROVE  LET IsSame(j) == out[j].unit.kind = out[i].unit.kind IN
                      /\ (\A j \in 1..i-1 : ~IsSame(j)) => out[i].unit.cc = 0
                      /\ \A j \in 1..i-1 :
                           IsSame(j) /\ (\A k \in j+1..i-1 : ~IsSame(k)) =>
                             out[i].unit.cc = (out[j].unit.cc + out[j].unit.packets) % 16
    BY DEF ContinuityAcrossFiles, IsMedia
  <2>1. out[i].unit.kind \in Streams
    BY WrittenType DEF IInv, TypeInv
  <2>2. Continuity(out, counter)
    BY DEF IInv
  <2>3. 0 + 1 = 1
    OBVIOUS
  <2> QED
    BY <2>1, <2>2, <2>3 DEF Continuity, NoneBetween
<1> QED
  BY Invariance, <1>1, PTL

\* With plain timestamps every file is as long as it should be.
THEOREM DurationsHold == Spec => []FilesHaveTheirDuration
<1>1. IInv => FilesHaveTheirDuration
  BY DEF IInv, Durations, FilesHaveTheirDuration, Begins, SameFile, First, IsVideo, TimeOf, Time
<1> QED
  BY Invariance, <1>1, PTL
=============================================================================
