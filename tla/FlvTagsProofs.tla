--------------------------- MODULE FlvTagsProofs ---------------------------
(***************************************************************************)
(* Lemmas about the operators of FlvTags that flv2ts, build-hls-index and  *)
(* getts share: sizes and packet counts are what their types say.          *)
(***************************************************************************)
EXTENDS FlvTags, WellFoundedInduction, TLAPS

\* Every nonempty set of natural numbers has a least element: an induction is
\* the search for the least number for which the claim would fail.
LEMMA LeastElement ==
  ASSUME NEW S, S \subseteq Nat, S # {}
  PROVE  \E m \in S : \A k \in S : ~(k < m)
<1> DEFINE R == {ss \in Nat \X Nat : ss[1] < ss[2]}
<1>1. IsWellFoundedOn(R, Nat)
  BY NatLessThanWellFounded, Zenon DEF OpToRel
<1>2. \A x, y \in Nat : x < y => <<x, y>> \in R
  OBVIOUS
<1> HIDE DEF R
<1>3. \E m \in S : \A k \in S : ~(<<k, m>> \in R)
  BY <1>1, WFMin, Zenon
<1> QED
  BY <1>2, <1>3

\* An induction over the positions of a file, for the set of those that satisfy
\* the claim.
LEMMA PositionInduction ==
  ASSUME NEW n \in Nat, NEW S, 1 \in S, \A p \in 1..n : p \in S => p + 1 \in S
  PROVE  \A p \in 1..n+1 : p \in S
<1> DEFINE T == {p \in 1..n+1 : p \notin S}
<1> SUFFICES ASSUME T # {} PROVE FALSE
  OBVIOUS
<1>1. T \subseteq Nat
  OBVIOUS
<1> HIDE DEF T
<1>2. PICK m \in T : \A k \in T : ~(k < m)
  BY <1>1, LeastElement
<1>3. m \in 1..n+1 /\ m \notin S
  BY DEF T
<1>4. m # 1 /\ m-1 \in 1..n /\ m-1 < m
  BY <1>3
<1>5. m-1 \notin T
  BY <1>2, <1>4
<1>6. m-1 \in S
  BY <1>4, <1>5 DEF T
<1> QED
  BY <1>3, <1>4, <1>6

\* The recursive sum of SetsSize is well defined, and a natural number.
LEMMA SetsSizeType ==
  ASSUME NEW sets \in Seq(DOMAIN SetSize)
  PROVE  SetsSize(sets) \in Nat
<1> DEFINE L == Len(sets)
           Term(n) == SetSize[sets[n]]
           IsSize(g, m) == g = [n \in 0..m |-> IF n = 0 THEN 0 ELSE g[n-1] + Term(n)]
<1>1. L \in Nat /\ \A n \in 1..L : Term(n) \in Nat
  BY SetSizeAssumption
<1> HIDE DEF L, Term
<1>2. \A m \in 0..L : \E g : IsSize(g, m)
  <2> DEFINE T == {m \in 0..L : ~ \E g : IsSize(g, m)}
  <2> SUFFICES ASSUME T # {} PROVE FALSE
    OBVIOUS
  <2>0. IsSize([n \in 0..0 |-> 0], 0)
    OBVIOUS
  <2> HIDE DEF IsSize
  <2>a. T \subseteq Nat
    BY <1>1
  <2> HIDE DEF T
  <2>1. PICK m \in T : \A k \in T : ~(k < m)
    BY <2>a, LeastElement
  <2>b. m \in 0..L /\ ~ \E g : IsSize(g, m)
    BY <2>1 DEF T
  <2>2. m # 0
    BY <2>0, <2>b
  <2>3. m \in Nat /\ m-1 \in 0..L /\ m-1 \notin T
    <3>1. m \in Nat /\ m-1 \in 0..L /\ m-1 < m
      BY <2>b, <2>2, <1>1
    <3> QED
      BY <3>1, <2>1
  <2>4. PICK g : IsSize(g, m-1)
    BY <2>3 DEF T
  <2> USE DEF IsSize
  <2> DEFINE h == [n \in 0..m |-> IF n = m THEN g[m-1] + Term(m) ELSE g[n]]
  <2>5. \A n \in 0..m : h[n] = IF n = 0 THEN 0 ELSE h[n-1] + Term(n)
    <3> TAKE n \in 0..m
    <3>1. CASE n = m
      BY <3>1, <2>2, <2>3
    <3>2. CASE n # m
      <4>1. n \in 0..m-1 /\ h[n] = g[n]
        BY <3>2, <2>3
      <4>2. g[n] = IF n = 0 THEN 0 ELSE g[n-1] + Term(n)
        BY <2>4, <4>1
      <4>3. n # 0 => h[n-1] = g[n-1]
        BY <4>1, <2>3
      <4> QED
        BY <4>1, <4>2, <4>3
    <3> QED
      BY <3>1, <3>2
  <2>6. IsSize(h, m)
    BY <2>5
  <2> HIDE DEF IsSize
  <2> QED
    BY <2>6, <2>b
<1> DEFINE f == CHOOSE f : IsSize(f, L)
<1>3. SetsSize(sets) = f[L]
  BY DEF SetsSize, L, Term
<1>4. IsSize(f, L)
  <2>1. L \in 0..L
    BY <1>1
  <2>2. \E g : IsSize(g, L)
    BY <1>2, <2>1
  <2> HIDE DEF IsSize
  <2> QED
    BY <2>2
<1> HIDE DEF f
<1>5. \A n \in 0..L : f[n] \in Nat
  <2> DEFINE T == {n \in 0..L : f[n] \notin Nat}
  <2> SUFFICES ASSUME T # {} PROVE FALSE
    OBVIOUS
  <2>1. T \subseteq Nat
    OBVIOUS
  <2> HIDE DEF T
  <2>2. PICK m \in T : \A k \in T : ~(k < m)
    BY <2>1, LeastElement
  <2> USE DEF T
  <2>3. f[m] = IF m = 0 THEN 0 ELSE f[m-1] + Term(m)
    BY <1>4, <2>2
  <2>4. m # 0 /\ m \in 1..L /\ m-1 \in 0..L /\ m-1 \notin T
    BY <2>2, <2>3, <1>1
  <2> QED
    BY <2>2, <2>3, <2>4, <1>1
<1> QED
  BY <1>1, <1>3, <1>5

\* A payload makes at least one packet.
LEMMA NumPacketsType ==
  ASSUME NEW size \in Nat
  PROVE  NumPackets(size) \in Nat \ {0}
<1> DEFINE room == FirstRoom(0, TRUE)
<1>1. room = 157
  BY DEF FirstRoom, FirstAfLength, AfDump, SIZE, HEADER_SIZE, PES_HEADER_SIZE
<1>2. ASSUME NEW left \in Nat
      PROVE  RestPackets(left) \in Nat
  <2>1. RestRoom = 184 /\ RestRoom - 1 = 183
    BY DEF RestRoom, SIZE, HEADER_SIZE
  <2>2. left \div 184 \in Nat
    OBVIOUS
  <2> QED
    BY <2>1, <2>2 DEF RestPackets
<1>3. NumPackets(size) = IF size < room THEN 1 ELSE 1 + RestPackets(size - room)
  BY Zenon DEF NumPackets
<1> HIDE DEF room
<1> QED
  BY <1>1, <1>2, <1>3

\* The fields of a tag, the size of its storage, and the configuration in memory.
Lists == [list: Sets, num: Nat]
Conf  == [sps: Lists, pps: Lists, width: 0..4]

LEMMA HeaderFields ==
  ASSUME NEW h \in Header \cup {NoHeader}
  PROVE  h.sps \in Sets /\ h.pps \in Sets /\ h.width \in 0..4
<1>1. CASE h \in Header
  BY <1>1 DEF Header
<1>2. CASE h = NoHeader
  BY <1>2 DEF NoHeader, Sets
<1> QED
  BY <1>1, <1>2

LEMMA TagFields ==
  ASSUME NEW tag \in TagType
  PROVE  /\ tag.kind \in Kinds /\ tag.timestamp \in Int /\ tag.size \in Nat
         /\ tag.header.sps \in Sets /\ tag.header.pps \in Sets
         /\ tag.header.width \in 0..4
         /\ tag.kind = "avc_config" => tag.header \in Header
<1>1. /\ tag.kind \in Kinds /\ tag.timestamp \in Int /\ tag.size \in Nat
      /\ tag.header \in Header \cup {NoHeader}
      /\ tag.kind = "avc_config" => tag.header \in Header
  BY DEF TagType
<1> QED
  BY <1>1, HeaderFields

LEMMA StorageSizeType ==
  ASSUME NEW tag, NEW width
  PROVE  StorageSize(tag, width) \in Nat
BY DEF StorageSize, Fits

LEMMA ConfTypes ==
  /\ NoConf \in Conf
  /\ \A c \in Conf, h \in Header : ParseConf(c, h) \in Conf
  /\ \A c \in Conf : c.sps.list \in Sets /\ c.pps.list \in Sets /\ c.width \in 0..4
                  /\ c.sps.num \in Nat /\ c.pps.num \in Nat
<1>1. NoConf \in Conf
  BY DEF NoConf, NoSets, Conf, Lists, Sets
<1>2. ASSUME NEW l \in Lists, NEW sets \in Sets
      PROVE  PushSets(l, sets) \in Lists
  BY DEF PushSets, Lists, Sets
<1>3. \A c \in Conf, h \in Header : ParseConf(c, h) \in Conf
  BY <1>2 DEF ParseConf, Conf, Header
<1>4. \A c \in Conf : c.sps.list \in Sets /\ c.pps.list \in Sets /\ c.width \in 0..4
                  /\ c.sps.num \in Nat /\ c.pps.num \in Nat
  BY DEF Conf, Lists
<1> QED
  BY <1>1, <1>3, <1>4

\* A set of records of the units that the programs write.
Unit == [kind: {"tables"} \cup Streams, tag: Nat, cc: UInt(16), packets: Nat \ {0},
         sets: Seq(DOMAIN SetSize)]

LEMMA UnitTypes ==
  ASSUME NEW p \in Nat, NEW tag \in TagType, NEW counter \in [Streams -> Nat],
         NEW sets \in Seq(DOMAIN SetSize)
  PROVE  /\ TablesUnit(p) \in Unit
         /\ AudioUnit(p, tag, counter) \in Unit
         /\ AudioPackets(tag) \in Nat \ {0}
         /\ \A width : VideoUnit(p, tag, counter, sets, width) \in Unit
         /\ \A width : VideoPackets(tag, sets, width) \in Nat \ {0}
<1>1. tag.size \in Nat /\ \A width : StorageSize(tag, width) \in Nat
  BY StorageSizeType DEF TagType
<1>2. AudioPackets(tag) \in Nat \ {0} /\ \A width : VideoPackets(tag, sets, width) \in Nat \ {0}
  <2>1. 7 + tag.size \in Nat /\ \A width : SetsSize(sets) + StorageSize(tag, width) \in Nat
    BY <1>1, SetsSizeType
  <2> QED
    BY <2>1, NumPacketsType DEF AudioPackets, VideoPackets
<1>3. "audio" \in Streams /\ "video" \in Streams
  BY DEF Streams
<1>4. \A s \in Streams : counter[s] % 16 \in UInt(16)
  BY DEF UInt
<1>5. 0 \in UInt(16) /\ 2 \in Nat \ {0} /\ <<>> \in Seq(DOMAIN SetSize)
  BY DEF UInt
<1>6. TablesUnit(p) \in Unit
  BY <1>5 DEF TablesUnit, Unit
<1>7. AudioUnit(p, tag, counter) \in Unit
  BY <1>2, <1>3, <1>4, <1>5 DEF AudioUnit, Unit
<1>8. \A width : VideoUnit(p, tag, counter, sets, width) \in Unit
  BY <1>2, <1>3, <1>4 DEF VideoUnit, Unit
<1> QED
  BY <1>2, <1>6, <1>7, <1>8
=============================================================================
