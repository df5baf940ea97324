-------------------------- MODULE HlsPipelineProofs --------------------------
(***************************************************************************)
(* A request to getts yields the segment that flv2ts writes, for every FLV *)
(* file, every interval of the tables and every order of the steps.        *)
(*                                                                         *)
(* The three programs never meet: what they have in common is the file.    *)
(* Loop(f) is the main loop of flv2ts as a function of the file alone:     *)
(* Loop(f)[p] has its variables in front of tag p.  The first half of the  *)
(* module is about it.  In the second, flv2ts and build-hls-index are      *)
(* shown to be at a point of it whenever they are between two tags, an     *)
(* entry of the index to be the point where the segment of its number      *)
(* begins, whichever run has written it, and getts, between two of them,   *)
(* to have made what the loop has.                                         *)
(***************************************************************************)
EXTENDS HlsPipeline, FlvTagsProofs

----------------------------------------------------------------------------
(* The loop.                                                               *)

WrittenUnit == [file: Nat, at: Nat, unit: Unit]
File        == [tags: Seq(TagType), tail: Tails]

LoopState ==
  [switched: BOOLEAN, next_timestamp: 0..TimeMod-1, conf: Conf, sps_pps_write: BOOLEAN,
   due: Nat, counter: [Streams -> Nat], count: Nat, seq: Nat, out: Seq(WrittenUnit)]

LoopStart ==
  [switched |-> TRUE, next_timestamp |-> 0, conf |-> NoConf, sps_pps_write |-> FALSE,
   due |-> 0, counter |-> [s \in Streams |-> 0], count |-> 0, seq |-> 0, out |-> <<>>]

\* Tag t in state s: lines 73-106 of flv2ts.cc.
Opens(s, t)     == s.switched \/ Due(t, s.next_timestamp)
NextTime(s, t)  == IF Opens(s, t) THEN NextTimestamp(t.timestamp) ELSE s.next_timestamp
SeqAt(s, t)     == IF Opens(s, t) THEN s.seq + 1 ELSE s.seq
ForcedAt(s, t)  == IF Opens(s, t) THEN 0 ELSE s.due
TablesAt(s, t)  == ForcedAt(s, t) <= s.count
CountAt(s, t)   == IF TablesAt(s, t) THEN s.count + 2 ELSE s.count
DueAt(s, t)     == IF TablesAt(s, t) THEN CountAt(s, t) + PAT_PMT_INTERVAL ELSE ForcedAt(s, t)
WrittenAt(s, t) == IF Opens(s, t) THEN FALSE ELSE s.sps_pps_write
SetsAt(s, t)    == IF WrittenAt(s, t) THEN <<>> ELSE ParameterSets(s.conf)
OutAt(s, t, p)  ==
  IF TablesAt(s, t)
    THEN Append(s.out, [file |-> SeqAt(s, t) - 1, at |-> s.count, unit |-> TablesUnit(p)])
    ELSE s.out

\* The rest of its turn.
PacketsOf(s, t) ==
  IF t.kind = "aac" THEN AudioPackets(t)
  ELSE IF t.kind = "nalu" THEN VideoPackets(t, SetsAt(s, t), s.conf.width) ELSE 0
StreamOf(t)      == IF t.kind = "aac" THEN "audio" ELSE "video"
UnitAt(s, t, p)  ==
  IF t.kind = "aac" THEN AudioUnit(p, t, s.counter)
  ELSE VideoUnit(p, t, s.counter, SetsAt(s, t), s.conf.width)
ConfAfter(s, t)  == IF t.kind = "avc_config" THEN ParseConf(s.conf, t.header) ELSE s.conf
WrittenAfter(s, t) == WrittenAt(s, t) \/ t.kind = "nalu"
Added(c, k, n)     == [c EXCEPT ![k] = @ + n]
CounterAfter(s, t) == Added(s.counter, StreamOf(t), PacketsOf(s, t))
OutAfter(s, t, p) ==
  IF t.kind \in MediaKinds
    THEN Append(OutAt(s, t, p),
                [file |-> SeqAt(s, t) - 1, at |-> CountAt(s, t), unit |-> UnitAt(s, t, p)])
    ELSE OutAt(s, t, p)

TurnOf(s, t, p) ==
  [switched |-> FALSE, next_timestamp |-> NextTime(s, t), conf |-> ConfAfter(s, t),
   sps_pps_write |-> WrittenAfter(s, t), due |-> DueAt(s, t),
   counter |-> CounterAfter(s, t), count |-> CountAt(s, t) + PacketsOf(s, t),
   seq |-> SeqAt(s, t), out |-> OutAfter(s, t, p)]

\* The loop in front of each tag of f, if it got there.
Loop(f) ==
  LET loop[p \in 1..Len(f.tags)+1] ==
        IF p = 1 THEN LoopStart ELSE TurnOf(loop[p-1], f.tags[p-1], p-1)
  IN  loop

\* The loop goes on behind tag p; the first position where it does not.
Goes(f, p) ==
  /\ TagAt(f, p) /\ f.tags[p].kind \notin UnsupportedKinds
  /\ f.tags[p].kind = "nalu" => Fits(f.tags[p], Loop(f)[p].conf.width)
Stop(f) == CHOOSE p \in 1..Len(f.tags)+1 : ~Goes(f, p) /\ \A q \in 1..p-1 : Goes(f, q)

\* Segment n begins at p, or p is the end of the file and n the number of segments.
Begins(f, n, p) ==
  /\ p \in 1..Stop(f) /\ Loop(f)[p].seq = n
  /\ \/ TagAt(f, p) /\ Opens(Loop(f)[p], f.tags[p])
     \/ EosAfter(f, p)

\* What flv2ts has when it stops, with the tables in front of the last tag.
LastSeq(f) == IF TagAt(f, Stop(f)) THEN SeqAt(Loop(f)[Stop(f)], f.tags[Stop(f)])
                                   ELSE Loop(f)[Stop(f)].seq
LastOut(f) == IF TagAt(f, Stop(f)) THEN OutAt(Loop(f)[Stop(f)], f.tags[Stop(f)], Stop(f))
                                   ELSE Loop(f)[Stop(f)].out

----------------------------------------------------------------------------
(* Chosen.                                                                 *)

\* c[i] is what is chosen of the first i elements.
IsChosen(c, s, I) ==
  /\ c[0] = <<>>
  /\ \A i \in 1..Len(s) : c[i] = IF i \in I THEN Append(c[i-1], s[i]) ELSE c[i-1]

LEMMA ChosenExists ==
  ASSUME NEW X, NEW s \in Seq(X), NEW I
  PROVE  \E c : IsChosen(c, s, I) /\ Chosen(s, I) = c[Len(s)]
<1> DEFINE L == Len(s)
           Step(b, i) == IF i \in I THEN Append(b, s[i]) ELSE b
           IsFcn(g, m) == g = [i \in 0..m |-> IF i = 0 THEN <<>> ELSE Step(g[i-1], i)]
<1>1. L \in Nat
  OBVIOUS
<1> HIDE DEF Step
<1>2. \E g : IsFcn(g, 0)
  <2>1. IsFcn([i \in 0..0 |-> <<>>], 0)
    OBVIOUS
  <2> QED BY <2>1
<1>3. ASSUME NEW m \in Nat, \E g : IsFcn(g, m)
      PROVE  \E g : IsFcn(g, m + 1)
  <2>1. PICK g : IsFcn(g, m)
    BY <1>3
  <2> DEFINE h == [i \in 0..m+1 |-> IF i = m + 1 THEN Step(g[m], m + 1) ELSE g[i]]
  <2>2. ASSUME NEW i \in 0..m+1
        PROVE  h[i] = IF i = 0 THEN <<>> ELSE Step(h[i-1], i)
    <3>1. CASE i = m + 1
      <4>1. h[i-1] = g[m] /\ i # 0 BY <3>1
      <4> QED BY <3>1, <4>1
    <3>2. CASE i # m + 1
      <4>1. i \in 0..m /\ h[i] = g[i] /\ (i # 0 => h[i-1] = g[i-1]) BY <3>2
      <4>2. g[i] = IF i = 0 THEN <<>> ELSE Step(g[i-1], i) BY <2>1, <4>1
      <4> QED BY <4>1, <4>2
    <3> QED BY <3>1, <3>2
  <2>3. IsFcn(h, m + 1)
    BY <2>2
  <2> QED BY <2>3
<1>4. \E g : IsFcn(g, L)
  <2> DEFINE S == {p \in 1..L+1 : \E g : IsFcn(g, p - 1)}
  <2>1. 1 \in S
    BY <1>1, <1>2
  <2>2. \A p \in 1..L : p \in S => p + 1 \in S
    <3> SUFFICES ASSUME NEW p \in 1..L, p \in S PROVE p + 1 \in S
      OBVIOUS
    <3> HIDE DEF IsFcn
    <3>1. p - 1 \in Nat /\ (p - 1) + 1 = p /\ (p + 1) - 1 = p /\ p + 1 \in 1..L+1
      BY <1>1
    <3>2. \E g : IsFcn(g, p - 1)
      OBVIOUS
    <3>3. \E g : IsFcn(g, (p - 1) + 1)
      BY <1>3, <3>1, <3>2
    <3> QED BY <3>1, <3>3
  <2> HIDE DEF S
  <2>3. L + 1 \in S
    <3>1. \A p \in 1..L+1 : p \in S BY <1>1, <2>1, <2>2, PositionInduction
    <3> QED BY <1>1, <3>1
  <2>4. (L + 1) - 1 = L BY <1>1
  <2> HIDE DEF IsFcn
  <2> QED BY <2>3, <2>4 DEF S
<1> DEFINE c == CHOOSE g : IsFcn(g, L)
<1>5. Chosen(s, I) = c[L]
  BY Zenon DEF Chosen, Step
<1>6. IsFcn(c, L)
  <2> HIDE DEF IsFcn
  <2> QED BY <1>4
<1> HIDE DEF c
<1>7. c[0] = <<>> /\ \A i \in 1..L : c[i] = Step(c[i-1], i)
  BY <1>1, <1>6
<1>8. IsChosen(c, s, I)
  BY <1>7 DEF IsChosen, Step
<1> QED BY <1>5, <1>8

LEMMA ChosenType ==
  ASSUME NEW X, NEW s \in Seq(X), NEW I, NEW c, IsChosen(c, s, I)
  PROVE  \A i \in 0..Len(s) : c[i] \in Seq(X)
<1> DEFINE S == {p \in 1..Len(s)+1 : c[p-1] \in Seq(X)}
<1>1. Len(s) \in Nat /\ \A p \in 1..Len(s) : s[p] \in X
  OBVIOUS
<1>2. <<>> \in Seq(X) OBVIOUS
<1>3. 1 \in S
  <2>1. 1 - 1 = 0 /\ 1 \in 1..Len(s)+1 BY <1>1
  <2>2. c[1 - 1] \in Seq(X) BY <1>2, <2>1 DEF IsChosen
  <2> QED BY <2>1, <2>2
<1>4. ASSUME NEW p \in 1..Len(s), p \in S PROVE p + 1 \in S
  <2>1. c[p] = IF p \in I THEN Append(c[p-1], s[p]) ELSE c[p-1] BY DEF IsChosen
  <2>2. c[p] \in Seq(X) BY <1>1, <1>4, <2>1
  <2> QED BY <1>1, <2>2
<1> HIDE DEF S
<1>5. \A p \in 1..Len(s)+1 : p \in S BY <1>1, <1>3, <1>4, PositionInduction
<1> SUFFICES ASSUME NEW i \in 0..Len(s) PROVE c[i] \in Seq(X)
  OBVIOUS
<1>6. i + 1 \in 1..Len(s)+1 /\ (i + 1) - 1 = i BY <1>1
<1>7. i + 1 \in S BY <1>5, <1>6
<1> QED BY <1>6, <1>7 DEF S

\* What is chosen of m elements depends on those m only.
LEMMA ChosenPrefix ==
  ASSUME NEW s, NEW t, NEW I, NEW J, NEW c, NEW d, IsChosen(c, s, I), IsChosen(d, t, J),
         Len(s) \in Nat, Len(t) \in Nat, NEW m \in 0..Len(s), m <= Len(t),
         \A i \in 1..m : s[i] = t[i] /\ (i \in I <=> i \in J)
  PROVE  c[m] = d[m]
<1> DEFINE S == {p \in 1..m+1 : c[p-1] = d[p-1]}
<1>0. m \in Nat OBVIOUS
<1>1. 1 \in S BY DEF IsChosen
<1>2. ASSUME NEW p \in 1..m, p \in S PROVE p + 1 \in S
  <2>1. p \in 1..Len(s) /\ p \in 1..Len(t) OBVIOUS
  <2>2. c[p] = d[p] BY <1>2, <2>1 DEF IsChosen
  <2> QED BY <2>2
<1> HIDE DEF S
<1>3. \A p \in 1..m+1 : p \in S BY <1>0, <1>1, <1>2, PositionInduction
<1>4. m + 1 \in S /\ (m + 1) - 1 = m BY <1>0, <1>3
<1> QED BY <1>4 DEF S

LEMMA ChosenAppend ==
  ASSUME NEW X, NEW s \in Seq(X), NEW e \in X, NEW I, NEW J,
         \A i \in 1..Len(s) : i \in I <=> i \in J
  PROVE  /\ Chosen(s, I) \in Seq(X)
         /\ Chosen(Append(s, e), J) =
              IF Len(s) + 1 \in J THEN Append(Chosen(s, I), e) ELSE Chosen(s, I)
<1> DEFINE t == Append(s, e)
<1>1. /\ t \in Seq(X) /\ Len(s) \in Nat /\ Len(t) = Len(s) + 1 /\ t[Len(s)+1] = e
      /\ \A i \in 1..Len(s) : t[i] = s[i]
  OBVIOUS
<1> HIDE DEF t
<1>2. PICK c : IsChosen(c, s, I) /\ Chosen(s, I) = c[Len(s)]
  BY ChosenExists
<1>3. PICK d : IsChosen(d, t, J) /\ Chosen(t, J) = d[Len(t)]
  BY <1>1, ChosenExists
<1>4. Len(s) \in 0..Len(s) /\ Len(s) <= Len(t) /\ Len(t) \in Nat BY <1>1
<1>5. c[Len(s)] = d[Len(s)] BY <1>1, <1>2, <1>3, <1>4, ChosenPrefix
<1>6. d[Len(t)] = IF Len(t) \in J THEN Append(d[Len(s)], e) ELSE d[Len(s)]
  BY <1>1, <1>3 DEF IsChosen
<1>7. Chosen(s, I) \in Seq(X) BY <1>1, <1>2, ChosenType
<1> QED BY <1>1, <1>2, <1>3, <1>5, <1>6, <1>7 DEF t

LEMMA ChosenEmpty ==
  ASSUME NEW I
  PROVE  Chosen(<<>>, I) = <<>>
<1>1. <<>> \in Seq({}) /\ Len(<<>>) = 0 OBVIOUS
<1>2. PICK c : IsChosen(c, <<>>, I) /\ Chosen(<<>>, I) = c[Len(<<>>)]
  BY <1>1, ChosenExists
<1> QED BY <1>1, <1>2 DEF IsChosen

\* Units are appended to one file and leave the others alone.
LEMMA UnitsAppend ==
  ASSUME NEW o \in Seq(WrittenUnit), NEW w \in WrittenUnit, NEW n
  PROVE  /\ UnitsOf(o, n) \in Seq(Unit)
         /\ UnitsOf(Append(o, w), n) =
              IF w.file = n THEN Append(UnitsOf(o, n), w.unit) ELSE UnitsOf(o, n)
<1> DEFINE Us(x) == [i \in 1..Len(x) |-> x[i].unit]
           In(x) == {i \in 1..Len(x) : x[i].file = n}
           v == Append(o, w)
<1>1. /\ v \in Seq(WrittenUnit) /\ Len(o) \in Nat /\ Len(v) = Len(o) + 1
      /\ v[Len(o)+1] = w /\ \A i \in 1..Len(o) : v[i] = o[i] /\ o[i] \in WrittenUnit
  OBVIOUS
<1>2. w.unit \in Unit BY DEF WrittenUnit
<1>3. Us(o) \in Seq(Unit) /\ Len(Us(o)) = Len(o)
  BY <1>1 DEF WrittenUnit
<1> HIDE DEF v
<1>4. Us(v) = Append(Us(o), w.unit)
  <2>1. Us(v) = [i \in 1..Len(o)+1 |-> v[i].unit] BY <1>1
  <2>2. Append(Us(o), w.unit) = [i \in 1..Len(o)+1 |-> IF i = Len(o)+1 THEN w.unit ELSE Us(o)[i]]
    BY <1>2, <1>3
  <2>3. \A i \in 1..Len(o)+1 : v[i].unit = IF i = Len(o)+1 THEN w.unit ELSE Us(o)[i]
    BY <1>1
  <2> QED BY <2>1, <2>2, <2>3
<1>5. \A i \in 1..Len(o) : i \in In(o) <=> i \in In(v)
  BY <1>1
<1>6. Len(o) + 1 \in In(v) <=> w.file = n
  BY <1>1
<1>7. UnitsOf(o, n) = Chosen(Us(o), In(o)) /\ UnitsOf(v, n) = Chosen(Us(v), In(v))
  BY DEF UnitsOf
<1> DEFINE a == Us(o)
           I == In(o)
           J == In(v)
           e == w.unit
<1>8. e \in Unit /\ a \in Seq(Unit) /\ (\A i \in 1..Len(a) : i \in I <=> i \in J) /\ Len(a) + 1 = Len(o) + 1
  BY <1>2, <1>3, <1>5
<1>9. UnitsOf(o, n) = Chosen(a, I) /\ UnitsOf(v, n) = Chosen(Append(a, e), J)
  BY <1>4, <1>7
<1> HIDE DEF a, I, J, e
<1>10. /\ Chosen(a, I) \in Seq(Unit)
       /\ Chosen(Append(a, e), J) =
            IF Len(a) + 1 \in J THEN Append(Chosen(a, I), e) ELSE Chosen(a, I)
  BY <1>8, ChosenAppend
<1>11. Len(a) + 1 \in J <=> w.file = n
  BY <1>6, <1>8 DEF J
<1> QED BY <1>9, <1>10, <1>11 DEF v, e

LEMMA MediaAppend ==
  ASSUME NEW us \in Seq(Unit), NEW u \in Unit
  PROVE  /\ Media(us) \in Seq(Unit) /\ TagsOf(us) \in Seq(Nat)
         /\ u.kind = "tables" => /\ Media(Append(us, u)) = Media(us)
                                 /\ TagsOf(Append(us, u)) = TagsOf(us)
         /\ u.kind # "tables" => /\ Media(Append(us, u)) = Append(Media(us), u)
                                 /\ TagsOf(Append(us, u)) = Append(TagsOf(us), u.tag)
<1> DEFINE In(x) == {i \in 1..Len(x) : x[i].kind # "tables"}
           v == Append(us, u)
<1>1. /\ v \in Seq(Unit) /\ Len(us) \in Nat /\ Len(v) = Len(us) + 1
      /\ v[Len(us)+1] = u /\ \A i \in 1..Len(us) : v[i] = us[i]
  OBVIOUS
<1> HIDE DEF v
<1>2. \A i \in 1..Len(us) : i \in In(us) <=> i \in In(v)
  BY <1>1
<1>3. Len(us) + 1 \in In(v) <=> u.kind # "tables"
  BY <1>1
<1>4. Media(us) = Chosen(us, In(us)) /\ Media(v) = Chosen(v, In(v))
  BY DEF Media
<1> HIDE DEF In
<1>5. /\ Chosen(us, In(us)) \in Seq(Unit)
      /\ Chosen(Append(us, u), In(v)) =
           IF Len(us) + 1 \in In(v) THEN Append(Chosen(us, In(us)), u) ELSE Chosen(us, In(us))
  BY <1>2, ChosenAppend
<1>6. /\ Media(us) \in Seq(Unit)
      /\ u.kind = "tables" => Media(v) = Media(us)
      /\ u.kind # "tables" => Media(v) = Append(Media(us), u)
  BY <1>3, <1>4, <1>5 DEF v
<1>7. /\ TagsOf(us) \in Seq(Nat)
      /\ Media(v) = Media(us) => TagsOf(v) = TagsOf(us)
      /\ Media(v) = Append(Media(us), u) => TagsOf(v) = Append(TagsOf(us), u.tag)
  <2> DEFINE m == Media(us)
             Tags(x) == [i \in 1..Len(x) |-> x[i].tag]
  <2>1. m \in Seq(Unit) /\ \A x \in Unit : x.tag \in Nat BY <1>6 DEF Unit
  <2>2. TagsOf(us) = Tags(m) /\ TagsOf(v) = Tags(Media(v)) BY DEF TagsOf
  <2> HIDE DEF m
  <2>3. /\ Len(m) \in Nat /\ Len(Append(m, u)) = Len(m) + 1
        /\ Append(m, u)[Len(m)+1] = u
        /\ \A i \in 1..Len(m) : Append(m, u)[i] = m[i] /\ m[i].tag \in Nat
    BY <2>1
  <2>4. Tags(m) \in Seq(Nat) BY <2>3
  <2>5. Tags(Append(m, u)) = [i \in 1..Len(m)+1 |-> Append(m, u)[i].tag] BY <2>3
  <2>6. Append(Tags(m), u.tag) = [i \in 1..Len(m)+1 |-> IF i = Len(m)+1 THEN u.tag ELSE Tags(m)[i]]
    BY <2>3, <2>4 DEF Unit
  <2>7. Tags(Append(m, u)) = Append(Tags(m), u.tag)
    BY <2>3, <2>5, <2>6
  <2> QED BY <2>2, <2>4, <2>7 DEF m
<1> QED BY <1>6, <1>7 DEF v

LEMMA NothingWritten ==
  ASSUME NEW n
  PROVE  UnitsOf(<<>>, n) = <<>> /\ Media(<<>>) = <<>> /\ TagsOf(<<>>) = <<>>
<1>1. Len(<<>>) = 0 /\ <<>> \in Seq({}) OBVIOUS
<1>2. [i \in 1..Len(<<>>) |-> <<>>[i].unit] = <<>> BY <1>1
<1>3. UnitsOf(<<>>, n) = <<>> BY <1>2, ChosenEmpty DEF UnitsOf
<1>4. Media(<<>>) = <<>> BY ChosenEmpty DEF Media
<1>5. [i \in 1..Len(<<>>) |-> <<>>[i].tag] = <<>> BY <1>1
<1> QED BY <1>3, <1>4, <1>5 DEF TagsOf

----------------------------------------------------------------------------
(* The loop, position by position.                                         *)

LEMMA LoopSteps ==
  ASSUME NEW f \in File
  PROVE  /\ Loop(f)[1] = LoopStart
         /\ \A p \in 1..Len(f.tags) : Loop(f)[p+1] = TurnOf(Loop(f)[p], f.tags[p], p)
<1> DEFINE L == Len(f.tags)
           Step(s, p) == TurnOf(s, f.tags[p-1], p-1)
           IsFcn(g, m) == g = [p \in 1..m+1 |-> IF p = 1 THEN LoopStart ELSE Step(g[p-1], p)]
<1>1. L \in Nat
  BY DEF File
<1> HIDE DEF Step
<1>2. \E g : IsFcn(g, 0)
  <2>1. IsFcn([p \in 1..0+1 |-> LoopStart], 0)
    OBVIOUS
  <2> QED BY <2>1
<1>3. ASSUME NEW m \in Nat, \E g : IsFcn(g, m)
      PROVE  \E g : IsFcn(g, m + 1)
  <2>1. PICK g : IsFcn(g, m)
    BY <1>3
  <2> DEFINE h == [p \in 1..m+1+1 |-> IF p = m + 2 THEN Step(g[m+1], m + 2) ELSE g[p]]
  <2>2. ASSUME NEW p \in 1..m+1+1
        PROVE  h[p] = IF p = 1 THEN LoopStart ELSE Step(h[p-1], p)
    <3>1. CASE p = m + 2
      <4>1. h[p-1] = g[m+1] /\ p # 1 BY <3>1
      <4> QED BY <3>1, <4>1
    <3>2. CASE p # m + 2
      <4>1. p \in 1..m+1 /\ h[p] = g[p] /\ (p # 1 => h[p-1] = g[p-1]) BY <3>2
      <4>2. g[p] = IF p = 1 THEN LoopStart ELSE Step(g[p-1], p) BY <2>1, <4>1
      <4> QED BY <4>1, <4>2
    <3> QED BY <3>1, <3>2
  <2>3. IsFcn(h, m + 1)
    BY <2>2
  <2> QED BY <2>3
<1>4. \E g : IsFcn(g, L)
  <2> DEFINE S == {p \in 1..L+1 : \E g : IsFcn(g, p - 1)}
  <2>1. 1 \in S
    BY <1>1, <1>2
  <2>2. \A p \in 1..L : p \in S => p + 1 \in S
    <3> SUFFICES ASSUME NEW p \in 1..L, p \in S PROVE p + 1 \in S
      OBVIOUS
    <3> HIDE DEF IsFcn
    <3>1. p - 1 \in Nat /\ (p - 1) + 1 = p /\ (p + 1) - 1 = p /\ p + 1 \in 1..L+1
      BY <1>1
    <3>2. \E g : IsFcn(g, p - 1)
      OBVIOUS
    <3>3. \E g : IsFcn(g, (p - 1) + 1)
      BY <1>3, <3>1, <3>2
    <3> QED BY <3>1, <3>3
  <2> HIDE DEF S
  <2>3. L + 1 \in S
    <3>1. \A p \in 1..L+1 : p \in S BY <1>1, <2>1, <2>2, PositionInduction
    <3> QED BY <1>1, <3>1
  <2>4. (L + 1) - 1 = L BY <1>1
  <2> HIDE DEF IsFcn
  <2> QED BY <2>3, <2>4 DEF S
<1> DEFINE c == CHOOSE g : IsFcn(g, L)
<1>5. Loop(f) = c
  BY Zenon DEF Loop, Step
<1>6. IsFcn(c, L)
  <2> HIDE DEF IsFcn
  <2> QED BY <1>4
<1> HIDE DEF c
<1>7. c[1] = LoopStart /\ \A p \in 1..L : c[p+1] = Step(c[p], p + 1)
  BY <1>1, <1>6
<1>8. \A p \in 1..L : (p + 1) - 1 = p
  BY <1>1
<1> QED BY <1>5, <1>7, <1>8 DEF Step

\* The sets that the latest header announced are so many of a list at most, and
\* nothing is in it before the first header.
ListOk(l) == l \in Lists /\ l.num <= Len(l.list)
ConfOk(c) ==
  /\ ListOk(c.sps) /\ ListOk(c.pps)
  /\ c.width = 0 => c.sps = NoSets /\ c.pps = NoSets

LEMMA ListPushed ==
  ASSUME NEW l, ListOk(l), NEW sets \in Sets
  PROVE  ListOk(PushSets(l, sets)) /\ Announced(l) \in Sets
<1>1. /\ l.list \in Seq(DOMAIN SetSize) /\ l.num \in Nat /\ Len(l.list) \in Nat
      /\ l.num <= Len(l.list) /\ sets \in Seq(DOMAIN SetSize)
  BY DEF ListOk, Lists, Sets
<1>2. /\ l.list \o sets \in Seq(DOMAIN SetSize) /\ Len(sets) \in Nat
      /\ Len(l.list \o sets) = Len(l.list) + Len(sets)
  BY <1>1
<1>3. ListOk(PushSets(l, sets)) BY <1>1, <1>2 DEF PushSets, ListOk, Lists, Sets
<1>4. SubSeq(l.list, 1, l.num) \in Seq(DOMAIN SetSize) BY <1>1
<1> QED BY <1>3, <1>4 DEF Announced, Sets

LEMMA ConfParsed ==
  ASSUME NEW c \in Conf, ConfOk(c), NEW h \in Header
  PROVE  ParseConf(c, h) \in Conf /\ ConfOk(ParseConf(c, h))
<1>1. h.sps \in Sets /\ h.pps \in Sets /\ h.width \in 1..4 BY DEF Header
<1>2. ListOk(c.sps) /\ ListOk(c.pps) BY DEF ConfOk
<1>3. ListOk(PushSets(c.sps, h.sps)) /\ ListOk(PushSets(c.pps, h.pps)) BY <1>1, <1>2, ListPushed
<1>4. ParseConf(c, h) \in Conf BY ConfTypes
<1> QED BY <1>1, <1>3, <1>4 DEF ParseConf, ConfOk

LEMMA SetsAnnounced ==
  ASSUME NEW c, ConfOk(c)
  PROVE  ParameterSets(c) \in Seq(DOMAIN SetSize)
<1>1. ListOk(c.sps) /\ ListOk(c.pps) BY DEF ConfOk
<1>2. <<>> \in Sets BY DEF Sets
<1>3. Announced(c.sps) \in Sets /\ Announced(c.pps) \in Sets BY <1>1, <1>2, ListPushed
<1>4. PICK a, b : a = Announced(c.sps) /\ b = Announced(c.pps) OBVIOUS
<1>5. a \o b \in Seq(DOMAIN SetSize) BY <1>3, <1>4 DEF Sets
<1> QED BY <1>4, <1>5 DEF ParameterSets

LEMMA LoopStartType == LoopStart \in LoopState /\ ConfOk(LoopStart.conf)
<1>1. 0 \in 0..TimeMod-1 BY TimeModAssumption
<1>2. <<>> \in Seq(DOMAIN SetSize) /\ <<>> \in Seq(WrittenUnit) /\ Len(<<>>) = 0 OBVIOUS
<1>3. NoConf \in Conf /\ ConfOk(NoConf)
  BY <1>2, ConfTypes DEF NoConf, NoSets, ConfOk, ListOk, Lists, Sets
<1> QED BY <1>1, <1>2, <1>3 DEF LoopStart, LoopState

\* In front of the first tag a segment is due.
LoopOk(s) == s \in LoopState /\ ConfOk(s.conf) /\ (s.switched \/ s.seq > 0)

LEMMA LoopStateFields ==
  ASSUME NEW s, LoopOk(s)
  PROVE  /\ s.switched \in BOOLEAN /\ s.next_timestamp \in 0..TimeMod-1
         /\ s.conf \in Conf /\ ConfOk(s.conf) /\ s.sps_pps_write \in BOOLEAN
         /\ s.due \in Nat /\ s.counter \in [Streams -> Nat]
         /\ s.counter["audio"] \in Nat /\ s.counter["video"] \in Nat
         /\ s.count \in Nat /\ s.seq \in Nat /\ s.out \in Seq(WrittenUnit)
BY DEF LoopOk, LoopState, Streams

LEMMA TablesType ==
  ASSUME NEW p \in Nat
  PROVE  TablesUnit(p) \in Unit /\ TablesUnit(p).kind = "tables" /\ TablesUnit(p).tag = p
<1>1. <<>> \in Seq(DOMAIN SetSize) OBVIOUS
<1>2. 0 \in UInt(16) /\ 2 \in Nat \ {0} BY DEF UInt
<1> QED BY <1>1, <1>2 DEF TablesUnit, Unit

\* Lines 73-106.
LEMMA PrologueTypes ==
  ASSUME NEW s, LoopOk(s), NEW t \in TagType, NEW p \in Nat
  PROVE  /\ NextTime(s, t) \in 0..TimeMod-1 /\ SeqAt(s, t) \in Nat \ {0}
         /\ SeqAt(s, t) \in {s.seq, s.seq + 1} /\ (SeqAt(s, t) = s.seq + 1 <=> Opens(s, t))
         /\ CountAt(s, t) \in Nat /\ DueAt(s, t) \in Nat /\ WrittenAt(s, t) \in BOOLEAN
         /\ SetsAt(s, t) \in Seq(DOMAIN SetSize)
         /\ SeqAt(s, t) - 1 \in Nat
         /\ [file |-> SeqAt(s, t) - 1, at |-> s.count, unit |-> TablesUnit(p)] \in WrittenUnit
         /\ OutAt(s, t, p) \in Seq(WrittenUnit)
<1> USE LoopStateFields, TagFields
<1>1. NextTime(s, t) \in 0..TimeMod-1
  BY TimeModAssumption, DurationAssumption DEF NextTime, NextTimestamp
<1>2. /\ SeqAt(s, t) \in Nat \ {0}
      /\ SeqAt(s, t) \in {s.seq, s.seq + 1} /\ (SeqAt(s, t) = s.seq + 1 <=> Opens(s, t))
  BY DEF SeqAt, LoopOk, Opens
<1>3. ForcedAt(s, t) \in Nat BY DEF ForcedAt
<1>4. CountAt(s, t) \in Nat BY DEF CountAt
<1>5. DueAt(s, t) \in Nat BY <1>3, <1>4, IntervalAssumption DEF DueAt
<1>6. WrittenAt(s, t) \in BOOLEAN BY DEF WrittenAt
<1>7. SetsAt(s, t) \in Seq(DOMAIN SetSize)
  <2>1. <<>> \in Seq(DOMAIN SetSize) OBVIOUS
  <2>2. ParameterSets(s.conf) \in Seq(DOMAIN SetSize)
    <3> DEFINE c == s.conf
    <3>2. ConfOk(c) OBVIOUS
    <3> HIDE DEF c
    <3>3. ParameterSets(c) \in Seq(DOMAIN SetSize) BY <3>2, SetsAnnounced
    <3> QED BY <3>3 DEF c
  <2> QED BY <2>1, <2>2 DEF SetsAt
<1>8. [file |-> SeqAt(s, t) - 1, at |-> s.count, unit |-> TablesUnit(p)] \in WrittenUnit
  <2>1. TablesUnit(p) \in Unit BY TablesType
  <2>2. SeqAt(s, t) - 1 \in Nat BY <1>2
  <2> QED BY <2>1, <2>2 DEF WrittenUnit
<1>9. OutAt(s, t, p) \in Seq(WrittenUnit)
  <2> DEFINE w == [file |-> SeqAt(s, t) - 1, at |-> s.count, unit |-> TablesUnit(p)]
  <2>1. w \in WrittenUnit BY <1>8
  <2>2. OutAt(s, t, p) = IF TablesAt(s, t) THEN Append(s.out, w) ELSE s.out BY DEF OutAt
  <2> HIDE DEF w
  <2> QED BY <2>1, <2>2
<1>10. SeqAt(s, t) - 1 \in Nat BY <1>2
<1> QED BY <1>1, <1>2, <1>4, <1>5, <1>6, <1>7, <1>8, <1>9, <1>10

\* What a turn appends behind the tables, if anything.
LEMMA PayloadTypes ==
  ASSUME NEW s, LoopOk(s), NEW t \in TagType, NEW p \in Nat
  PROVE  /\ UnitAt(s, t, p) \in Unit
         /\ UnitAt(s, t, p).tag = p
         /\ UnitAt(s, t, p).kind # "tables"
         /\ PacketsOf(s, t) \in Nat
         /\ CounterAfter(s, t) \in [Streams -> Nat]
         /\ [file |-> SeqAt(s, t) - 1, at |-> CountAt(s, t), unit |-> UnitAt(s, t, p)]
              \in WrittenUnit
<1> USE LoopStateFields
<1> DEFINE c == s.counter
           sets == SetsAt(s, t)
           w == s.conf.width
<1>1. c \in [Streams -> Nat] /\ sets \in Seq(DOMAIN SetSize) /\ SeqAt(s, t) - 1 \in Nat
      /\ CountAt(s, t) \in Nat
  BY PrologueTypes
<1> HIDE DEF c, sets, w
<1>2. /\ AudioUnit(p, t, c) \in Unit /\ VideoUnit(p, t, c, sets, w) \in Unit
      /\ AudioPackets(t) \in Nat \ {0} /\ VideoPackets(t, sets, w) \in Nat \ {0}
  BY <1>1, UnitTypes
<1>3. /\ AudioUnit(p, t, c).tag = p /\ VideoUnit(p, t, c, sets, w).tag = p
      /\ AudioUnit(p, t, c).kind = "audio" /\ VideoUnit(p, t, c, sets, w).kind = "video"
  BY DEF AudioUnit, VideoUnit
<1>4. UnitAt(s, t, p) = IF t.kind = "aac" THEN AudioUnit(p, t, c) ELSE VideoUnit(p, t, c, sets, w)
  BY DEF UnitAt, c, sets, w
<1>5. PacketsOf(s, t) \in Nat
  BY <1>2 DEF PacketsOf, sets, w
<1>6. StreamOf(t) \in Streams
  BY DEF StreamOf, Streams
<1>7. CounterAfter(s, t) = [c EXCEPT ![StreamOf(t)] = @ + PacketsOf(s, t)]
  BY DEF CounterAfter, Added, c
<1>8. CounterAfter(s, t) \in [Streams -> Nat]
  BY <1>1, <1>5, <1>6, <1>7
<1>9. UnitAt(s, t, p) \in Unit /\ UnitAt(s, t, p).tag = p /\ UnitAt(s, t, p).kind # "tables"
  BY <1>2, <1>3, <1>4
<1>10. [file |-> SeqAt(s, t) - 1, at |-> CountAt(s, t), unit |-> UnitAt(s, t, p)] \in WrittenUnit
  BY <1>1, <1>9 DEF WrittenUnit
<1> QED BY <1>5, <1>8, <1>9, <1>10

LEMMA TurnType ==
  ASSUME NEW s, LoopOk(s), NEW t \in TagType, NEW p \in Nat
  PROVE  LoopOk(TurnOf(s, t, p)) /\ ~TurnOf(s, t, p).switched /\ TurnOf(s, t, p).seq > 0
<1>1. /\ NextTime(s, t) \in 0..TimeMod-1 /\ SeqAt(s, t) \in Nat \ {0}
      /\ CountAt(s, t) \in Nat /\ DueAt(s, t) \in Nat /\ WrittenAt(s, t) \in BOOLEAN
      /\ OutAt(s, t, p) \in Seq(WrittenUnit)
  BY PrologueTypes
<1>2. ConfAfter(s, t) \in Conf /\ ConfOk(ConfAfter(s, t))
  <2> DEFINE c == s.conf
             h == t.header
  <2>1. c \in Conf /\ ConfOk(c) /\ (t.kind = "avc_config" => h \in Header)
    BY LoopStateFields, TagFields
  <2>2. ConfAfter(s, t) = IF t.kind = "avc_config" THEN ParseConf(c, h) ELSE c
    BY DEF ConfAfter
  <2> HIDE DEF c, h
  <2>3. h \in Header => ParseConf(c, h) \in Conf /\ ConfOk(ParseConf(c, h))
    BY <2>1, ConfParsed
  <2> QED BY <2>1, <2>2, <2>3
<1>3. WrittenAfter(s, t) \in BOOLEAN BY <1>1 DEF WrittenAfter
<1>4. PacketsOf(s, t) \in Nat /\ CounterAfter(s, t) \in [Streams -> Nat]
  BY PayloadTypes
<1>5. CountAt(s, t) + PacketsOf(s, t) \in Nat BY <1>1, <1>4
<1>6. OutAfter(s, t, p) \in Seq(WrittenUnit)
  <2> DEFINE w == [file |-> SeqAt(s, t) - 1, at |-> CountAt(s, t), unit |-> UnitAt(s, t, p)]
             o == OutAt(s, t, p)
  <2>1. w \in WrittenUnit /\ o \in Seq(WrittenUnit) BY <1>1, PayloadTypes
  <2>2. OutAfter(s, t, p) = IF t.kind \in MediaKinds THEN Append(o, w) ELSE o BY DEF OutAfter
  <2> HIDE DEF w, o
  <2> QED BY <2>1, <2>2
<1> DEFINE v == TurnOf(s, t, p)
<1>7. /\ v \in LoopState
  BY <1>1, <1>2, <1>3, <1>4, <1>5, <1>6 DEF TurnOf, LoopState
<1>8. v.conf = ConfAfter(s, t) /\ v.seq = SeqAt(s, t) /\ v.switched = FALSE
  BY DEF TurnOf
<1> QED BY <1>1, <1>2, <1>7, <1>8 DEF LoopOk

LEMMA LoopTypes ==
  ASSUME NEW f \in File
  PROVE  /\ \A p \in 1..Len(f.tags)+1 : LoopOk(Loop(f)[p])
         /\ \A p \in 1..Len(f.tags) : f.tags[p] \in TagType
<1>1. Len(f.tags) \in Nat /\ \A p \in 1..Len(f.tags) : f.tags[p] \in TagType
  BY DEF File
<1> DEFINE S == {p \in 1..Len(f.tags)+1 : LoopOk(Loop(f)[p])}
<1>2. 1 \in S
  <2>1. LoopOk(LoopStart) BY LoopStartType DEF LoopOk, LoopStart
  <2> QED BY <1>1, <2>1, LoopSteps
<1>3. ASSUME NEW p \in 1..Len(f.tags), p \in S PROVE p + 1 \in S
  <2> DEFINE s == Loop(f)[p]
             t == f.tags[p]
  <2>1. LoopOk(s) /\ t \in TagType /\ p \in Nat /\ Loop(f)[p+1] = TurnOf(s, t, p)
    BY <1>1, <1>3, LoopSteps
  <2> HIDE DEF s, t
  <2>2. LoopOk(TurnOf(s, t, p)) BY <2>1, TurnType
  <2> QED BY <1>1, <2>1, <2>2
<1> HIDE DEF S
<1>4. \A p \in 1..Len(f.tags)+1 : p \in S BY <1>1, <1>2, <1>3, PositionInduction
<1> QED BY <1>1, <1>4 DEF S

\* The units of file n behind the tables of a turn, and behind the turn.
LEMMA TurnUnits ==
  ASSUME NEW s, LoopOk(s), NEW t \in TagType, NEW p \in Nat, NEW n
  PROVE  /\ UnitsOf(s.out, n) \in Seq(Unit)
         /\ UnitsOf(OutAt(s, t, p), n) \in Seq(Unit)
         /\ UnitsOf(OutAt(s, t, p), n) =
              IF TablesAt(s, t) /\ SeqAt(s, t) - 1 = n
                THEN Append(UnitsOf(s.out, n), TablesUnit(p)) ELSE UnitsOf(s.out, n)
         /\ UnitsOf(TurnOf(s, t, p).out, n) \in Seq(Unit)
         /\ UnitsOf(TurnOf(s, t, p).out, n) =
              IF t.kind \in MediaKinds /\ SeqAt(s, t) - 1 = n
                THEN Append(UnitsOf(OutAt(s, t, p), n), UnitAt(s, t, p))
                ELSE UnitsOf(OutAt(s, t, p), n)
<1> DEFINE o == s.out
           k == SeqAt(s, t) - 1
           w == [file |-> k, at |-> s.count, unit |-> TablesUnit(p)]
           o1 == OutAt(s, t, p)
           w1 == [file |-> k, at |-> CountAt(s, t), unit |-> UnitAt(s, t, p)]
           v == TurnOf(s, t, p)
           o2 == v.out
<1>1. o \in Seq(WrittenUnit) /\ w \in WrittenUnit /\ o1 \in Seq(WrittenUnit)
  BY LoopStateFields, PrologueTypes
<1>2. w1 \in WrittenUnit
  BY PayloadTypes
<1>3. o2 \in Seq(WrittenUnit)
  <2> HIDE DEF v
  <2>1. LoopOk(v) BY TurnType DEF v
  <2> QED BY <2>1, LoopStateFields
<1>4. o1 = IF TablesAt(s, t) THEN Append(o, w) ELSE o
  BY DEF OutAt
<1>5. o2 = IF t.kind \in MediaKinds THEN Append(o1, w1) ELSE o1
  BY DEF TurnOf, OutAfter
<1>6. w.file = k /\ w.unit = TablesUnit(p) /\ w1.file = k /\ w1.unit = UnitAt(s, t, p)
  OBVIOUS
<1> HIDE DEF o, w, o1, w1, o2, v, k
<1>7. /\ UnitsOf(o, n) \in Seq(Unit)
      /\ UnitsOf(Append(o, w), n) = IF w.file = n THEN Append(UnitsOf(o, n), w.unit) ELSE UnitsOf(o, n)
  BY <1>1, UnitsAppend
<1>8. /\ UnitsOf(o1, n) \in Seq(Unit)
      /\ UnitsOf(Append(o1, w1), n) =
           IF w1.file = n THEN Append(UnitsOf(o1, n), w1.unit) ELSE UnitsOf(o1, n)
  BY <1>1, <1>2, UnitsAppend
<1>9. UnitsOf(o2, n) \in Seq(Unit)
  BY <1>2, <1>3, UnitsAppend
<1>10. UnitsOf(o1, n) = IF TablesAt(s, t) /\ k = n THEN Append(UnitsOf(o, n), TablesUnit(p))
                                                   ELSE UnitsOf(o, n)
  BY <1>4, <1>6, <1>7
<1>11. UnitsOf(o2, n) = IF t.kind \in MediaKinds /\ k = n
                          THEN Append(UnitsOf(o1, n), UnitAt(s, t, p)) ELSE UnitsOf(o1, n)
  BY <1>5, <1>6, <1>8
<1> QED BY <1>7, <1>8, <1>9, <1>10, <1>11 DEF o, o1, o2, v, k

\* The tags whose payloads are in file n.
LEMMA TurnTags ==
  ASSUME NEW s, LoopOk(s), NEW t \in TagType, NEW p \in Nat, NEW n
  PROVE  /\ TagsOf(UnitsOf(s.out, n)) \in Seq(Nat)
         /\ TagsOf(UnitsOf(OutAt(s, t, p), n)) = TagsOf(UnitsOf(s.out, n))
         /\ TagsOf(UnitsOf(TurnOf(s, t, p).out, n)) =
              IF t.kind \in MediaKinds /\ SeqAt(s, t) - 1 = n
                THEN Append(TagsOf(UnitsOf(s.out, n)), p) ELSE TagsOf(UnitsOf(s.out, n))
<1> DEFINE a == UnitsOf(s.out, n)
           b == UnitsOf(OutAt(s, t, p), n)
           c == UnitsOf(TurnOf(s, t, p).out, n)
           u == TablesUnit(p)
           w == UnitAt(s, t, p)
           here == SeqAt(s, t) - 1 = n
<1>1. /\ a \in Seq(Unit) /\ b \in Seq(Unit)
      /\ b = IF TablesAt(s, t) /\ here THEN Append(a, u) ELSE a
      /\ c = IF t.kind \in MediaKinds /\ here THEN Append(b, w) ELSE b
  BY TurnUnits
<1>2. /\ w \in Unit /\ w.tag = p /\ w.kind # "tables"
  BY PayloadTypes
<1>3. u \in Unit /\ u.kind = "tables"
  BY TablesType
<1> HIDE DEF a, b, c, u, w, here
<1>4. TagsOf(a) \in Seq(Nat) /\ TagsOf(Append(a, u)) = TagsOf(a)
  BY <1>1, <1>3, MediaAppend
<1>5. TagsOf(Append(b, w)) = Append(TagsOf(b), w.tag)
  BY <1>1, <1>2, MediaAppend
<1>6. TagsOf(b) = TagsOf(a) BY <1>1, <1>4
<1>7. TagsOf(c) = IF t.kind \in MediaKinds /\ here THEN Append(TagsOf(a), p) ELSE TagsOf(a)
  BY <1>1, <1>2, <1>5, <1>6
<1> QED BY <1>4, <1>6, <1>7 DEF a, b, c, here

LEMMA StopFacts ==
  ASSUME NEW f \in File
  PROVE  /\ Stop(f) \in 1..Len(f.tags)+1 /\ ~Goes(f, Stop(f))
         /\ \A q \in 1..Stop(f)-1 : Goes(f, q)
<1> DEFINE S == {p \in 1..Len(f.tags)+1 : ~Goes(f, p)}
<1>1. Len(f.tags) \in Nat BY DEF File
<1>2. Len(f.tags) + 1 \in S BY <1>1 DEF Goes, TagAt
<1>3. S \subseteq Nat BY <1>1
<1>4. S # {} BY <1>2
<1> HIDE DEF S
<1>5. PICK m \in S : \A k \in S : ~(k < m) BY <1>3, <1>4, LeastElement
<1>6. m \in 1..Len(f.tags)+1 /\ ~Goes(f, m) BY DEF S
<1>7. \A q \in 1..m-1 : Goes(f, q)
  <2> SUFFICES ASSUME NEW q \in 1..m-1 PROVE Goes(f, q)
    OBVIOUS
  <2>1. q \in 1..Len(f.tags)+1 /\ q < m BY <1>1, <1>6
  <2>2. q \notin S BY <1>5, <2>1
  <2> QED BY <2>1, <2>2 DEF S
<1>8. \E p \in 1..Len(f.tags)+1 : ~Goes(f, p) /\ \A q \in 1..p-1 : Goes(f, q)
  BY <1>6, <1>7
<1> QED BY <1>8 DEF Stop

\* The number of segments never goes down.
LEMMA SeqGrows ==
  ASSUME NEW f \in File, NEW q \in 1..Len(f.tags)+1, NEW p \in 1..q
  PROVE  Loop(f)[p].seq <= Loop(f)[q].seq
<1> DEFINE N == Len(f.tags)
           Q == {x \in 1..N+1 : \A y \in 1..x : Loop(f)[y].seq <= Loop(f)[x].seq}
<1>1. N \in Nat /\ \A x \in 1..N+1 : Loop(f)[x].seq \in Nat
  <2>1. N \in Nat BY DEF File
  <2>2. ASSUME NEW x \in 1..N+1 PROVE Loop(f)[x].seq \in Nat
    <3> DEFINE s == Loop(f)[x]
    <3>1. LoopOk(s) BY LoopTypes
    <3> HIDE DEF s
    <3>2. s.seq \in Nat BY <3>1, LoopStateFields
    <3> QED BY <3>2 DEF s
  <2> QED BY <2>1, <2>2
<1>2. 1 \in Q BY <1>1
<1>3. ASSUME NEW x \in 1..N, x \in Q PROVE x + 1 \in Q
  <2> DEFINE s == Loop(f)[x]
             t == f.tags[x]
  <2>1. LoopOk(s) /\ t \in TagType /\ x \in Nat /\ Loop(f)[x+1] = TurnOf(s, t, x)
        /\ x \in 1..N+1 /\ x + 1 \in 1..N+1
    BY <1>1, LoopTypes, LoopSteps
  <2>2. TurnOf(s, t, x).seq = SeqAt(s, t) BY DEF TurnOf
  <2>3. s.seq <= Loop(f)[x+1].seq
    <3> HIDE DEF s, t
    <3>1. SeqAt(s, t) \in {s.seq, s.seq + 1} /\ s.seq \in Nat BY <2>1, PrologueTypes, LoopStateFields
    <3> QED BY <2>1, <2>2, <3>1
  <2>4. ASSUME NEW y \in 1..x+1 PROVE Loop(f)[y].seq <= Loop(f)[x+1].seq
    <3>1. CASE y = x + 1 BY <3>1, <1>1, <2>1
    <3>2. CASE y \in 1..x
      <4>1. Loop(f)[y].seq <= Loop(f)[x].seq BY <1>3, <3>2
      <4>2. y \in 1..N+1 BY <3>2, <1>1
      <4> QED BY <4>1, <4>2, <2>3, <1>1, <2>1
    <3> QED BY <3>1, <3>2
  <2> QED BY <2>1, <2>4
<1> HIDE DEF Q
<1>4. \A x \in 1..N+1 : x \in Q BY <1>1, <1>2, <1>3, PositionInduction
<1> QED BY <1>4 DEF Q

\* A position of the loop: its state and, if there is one, its tag.
LEMMA AtPosition ==
  ASSUME NEW f \in File, NEW p \in 1..Stop(f)
  PROVE  /\ p \in Nat /\ p \in 1..Len(f.tags)+1 /\ LoopOk(Loop(f)[p])
         /\ TagAt(f, p) => /\ p \in 1..Len(f.tags) /\ f.tags[p] \in TagType
                           /\ p + 1 \in 1..Len(f.tags)+1 /\ LoopOk(Loop(f)[p+1])
                           /\ Loop(f)[p+1] = TurnOf(Loop(f)[p], f.tags[p], p)
         /\ Goes(f, p) => TagAt(f, p) /\ p + 1 \in 1..Stop(f)
         /\ ~Goes(f, p) => p = Stop(f)
<1>1. Len(f.tags) \in Nat /\ Stop(f) \in 1..Len(f.tags)+1 BY StopFacts DEF File
<1>2. p \in Nat /\ p \in 1..Len(f.tags)+1 BY <1>1
<1>3. LoopOk(Loop(f)[p]) BY <1>2, LoopTypes
<1>4. ASSUME TagAt(f, p)
      PROVE  /\ p \in 1..Len(f.tags) /\ f.tags[p] \in TagType
             /\ p + 1 \in 1..Len(f.tags)+1 /\ LoopOk(Loop(f)[p+1])
             /\ Loop(f)[p+1] = TurnOf(Loop(f)[p], f.tags[p], p)
  <2>1. p \in 1..Len(f.tags) /\ p + 1 \in 1..Len(f.tags)+1 BY <1>1, <1>4 DEF TagAt
  <2> QED BY <2>1, LoopTypes, LoopSteps
<1>5. Goes(f, p) => TagAt(f, p) BY DEF Goes
<1>6. Goes(f, p) => p + 1 \in 1..Stop(f)
  <2>1. Goes(f, p) => p # Stop(f) BY StopFacts
  <2> QED BY <1>1, <2>1
<1>7. ~Goes(f, p) => p = Stop(f)
  <2>1. p # Stop(f) => p \in 1..Stop(f)-1 BY <1>1
  <2> QED BY <2>1, StopFacts
<1> QED BY <1>2, <1>3, <1>4, <1>5, <1>6, <1>7

LEMMA LastFacts ==
  ASSUME NEW f \in File, NEW p \in 1..Stop(f)
  PROVE  /\ LastSeq(f) \in Nat /\ Loop(f)[p].seq \in Nat
         /\ Loop(f)[p].seq <= LastSeq(f)
         /\ TagAt(f, p) => SeqAt(Loop(f)[p], f.tags[p]) <= LastSeq(f)
<1> DEFINE N == Len(f.tags)
           z == Stop(f)
           s == Loop(f)[z]
           t == f.tags[z]
<1>1. N \in Nat /\ z \in 1..N+1 /\ z \in 1..z /\ p \in 1..z /\ z \in Nat
  <2>1. N \in Nat BY DEF File
  <2> QED BY <2>1, StopFacts
<1>2. LoopOk(s) /\ s.seq \in Nat
  <2>1. LoopOk(s) BY <1>1, AtPosition
  <2> HIDE DEF s
  <2> QED BY <2>1, LoopStateFields
<1>3. TagAt(f, z) => SeqAt(s, t) \in {s.seq, s.seq + 1}
  <2> SUFFICES ASSUME TagAt(f, z) PROVE SeqAt(s, t) \in {s.seq, s.seq + 1}
    OBVIOUS
  <2>1. t \in TagType BY <1>1, AtPosition
  <2> HIDE DEF s, t
  <2> QED BY <1>1, <1>2, <2>1, PrologueTypes
<1>4. LastSeq(f) = IF TagAt(f, z) THEN SeqAt(s, t) ELSE s.seq BY DEF LastSeq
<1>5. LastSeq(f) \in Nat /\ s.seq <= LastSeq(f)
  <2> HIDE DEF s, t, z
  <2> QED BY <1>2, <1>3, <1>4
<1>6. Loop(f)[p].seq <= s.seq BY <1>1, SeqGrows
<1>7. Loop(f)[p].seq \in Nat
  <2> DEFINE x == Loop(f)[p]
  <2>1. LoopOk(x) BY AtPosition
  <2> HIDE DEF x
  <2>2. x.seq \in Nat BY <2>1, LoopStateFields
  <2> QED BY <2>2 DEF x
<1>8. TagAt(f, p) => SeqAt(Loop(f)[p], f.tags[p]) <= LastSeq(f)
  <2> SUFFICES ASSUME TagAt(f, p) PROVE SeqAt(Loop(f)[p], f.tags[p]) <= LastSeq(f)
    OBVIOUS
  <2>1. CASE p = z
    <3>1. LastSeq(f) = SeqAt(s, t) BY <2>1, <1>4
    <3> QED BY <2>1, <3>1, <1>5
  <2>2. CASE p # z
    <3>1. p + 1 \in 1..z /\ p + 1 \in 1..N+1 BY <1>1, <2>2
    <3>2. Loop(f)[p+1].seq <= s.seq BY <1>1, <3>1, SeqGrows
    <3>3. Loop(f)[p+1].seq = SeqAt(Loop(f)[p], f.tags[p])
      <4>1. Loop(f)[p+1] = TurnOf(Loop(f)[p], f.tags[p], p) BY AtPosition
      <4>2. TurnOf(Loop(f)[p], f.tags[p], p).seq = SeqAt(Loop(f)[p], f.tags[p]) BY DEF TurnOf
      <4> QED BY <4>1, <4>2
    <3>4. SeqAt(Loop(f)[p], f.tags[p]) <= s.seq BY <3>2, <3>3
    <3>5. SeqAt(Loop(f)[p], f.tags[p]) \in Nat
      <4> DEFINE x == Loop(f)[p]
                 y == f.tags[p]
      <4>1. LoopOk(x) /\ y \in TagType /\ p \in Nat BY AtPosition
      <4> HIDE DEF x, y
      <4>2. SeqAt(x, y) \in Nat BY <4>1, PrologueTypes
      <4> QED BY <4>2 DEF x, y
    <3> HIDE DEF s
    <3> QED BY <1>2, <1>5, <3>4, <3>5
  <2> QED BY <2>1, <2>2
<1>9. Loop(f)[p].seq <= LastSeq(f)
  <2> HIDE DEF s
  <2> QED BY <1>2, <1>5, <1>6, <1>7
<1> QED BY <1>5, <1>7, <1>8, <1>9

----------------------------------------------------------------------------
(* What is in a file when the loop is at p stays at its beginning.         *)

Starts(x, y) == Len(x) <= Len(y) /\ \A i \in 1..Len(x) : x[i] = y[i]

LEMMA StartsAppend ==
  ASSUME NEW x \in Seq(Nat), NEW y \in Seq(Nat), Starts(x, y), NEW e \in Nat
  PROVE  Starts(x, Append(y, e)) /\ Starts(y, y) /\ x = SubSeq(y, 1, Len(x))
<1>1. /\ Len(x) \in Nat /\ Len(y) \in Nat /\ Len(Append(y, e)) = Len(y) + 1
      /\ \A i \in 1..Len(y) : Append(y, e)[i] = y[i]
  OBVIOUS
<1>2. Starts(x, Append(y, e)) /\ Starts(y, y) BY <1>1 DEF Starts
<1>3. /\ Len(SubSeq(y, 1, Len(x))) = Len(x)
      /\ \A i \in 1..Len(x) : SubSeq(y, 1, Len(x))[i] = y[i]
      /\ SubSeq(y, 1, Len(x)) \in Seq(Nat)
  BY <1>1 DEF Starts
<1>4. x = SubSeq(y, 1, Len(x)) BY <1>1, <1>3 DEF Starts
<1> QED BY <1>2, <1>4

LEMMA TagsGrow ==
  ASSUME NEW f \in File, NEW q \in 1..Stop(f), NEW p \in 1..q, NEW n
  PROVE  /\ TagsOf(UnitsOf(Loop(f)[p].out, n)) \in Seq(Nat)
         /\ Starts(TagsOf(UnitsOf(Loop(f)[p].out, n)), TagsOf(UnitsOf(Loop(f)[q].out, n)))
<1> DEFINE z == Stop(f)
           M(x) == TagsOf(UnitsOf(Loop(f)[x].out, n))
           Q == {x \in 1..z : M(x) \in Seq(Nat) /\ \A y \in 1..x : M(y) \in Seq(Nat) /\ Starts(M(y), M(x))}
<1>0. z \in Nat /\ z > 0 /\ z - 1 \in Nat /\ (z - 1) + 1 = z
  <2>1. Len(f.tags) \in Nat BY DEF File
  <2> QED BY <2>1, StopFacts
<1>1. ASSUME NEW x \in 1..z PROVE M(x) \in Seq(Nat)
  <2> DEFINE s == Loop(f)[x]
             us == UnitsOf(s.out, n)
  <2>1. LoopOk(s) BY AtPosition
  <2>2. us \in Seq(Unit)
    <3> HIDE DEF s
    <3>1. s.out \in Seq(WrittenUnit) BY <2>1, LoopStateFields
    <3> DEFINE o == s.out
               w == [file |-> 0, at |-> 0, unit |-> TablesUnit(0)]
    <3>2. w \in WrittenUnit BY TablesType DEF WrittenUnit
    <3> HIDE DEF w, o
    <3>3. UnitsOf(o, n) \in Seq(Unit) BY <3>1, <3>2, UnitsAppend DEF o
    <3> QED BY <3>3 DEF o
  <2> HIDE DEF us
  <2>3. TagsOf(us) \in Seq(Nat)
    <3> DEFINE u == TablesUnit(0)
    <3>1. u \in Unit BY TablesType
    <3> HIDE DEF u
    <3> QED BY <2>2, <3>1, MediaAppend
  <2> QED BY <2>3 DEF us
<1>2. ASSUME NEW x \in 1..z PROVE Starts(M(x), M(x))
  <2>1. Len(M(x)) \in Nat BY <1>1
  <2> HIDE DEF M
  <2> QED BY <2>1 DEF Starts
<1>3. 1 \in Q
  <2>1. \A y \in 1..1 : y = 1 OBVIOUS
  <2>2. 1 \in 1..z BY <1>0
  <2> HIDE DEF M
  <2> QED BY <2>1, <2>2, <1>1, <1>2
<1>4. ASSUME NEW x \in 1..z-1, x \in Q PROVE x + 1 \in Q
  <2> DEFINE s == Loop(f)[x]
             t == f.tags[x]
  <2>1. x \in 1..z /\ x + 1 \in 1..z /\ x \in Nat BY <1>0
  <2>2. Goes(f, x) BY <1>0, StopFacts
  <2>3. TagAt(f, x) BY <2>2 DEF Goes
  <2>4. LoopOk(s) /\ t \in TagType /\ Loop(f)[x+1] = TurnOf(s, t, x)
    BY <2>1, <2>3, AtPosition
  <2>5. M(x+1) = M(x) \/ M(x+1) = Append(M(x), x)
    <3> HIDE DEF s, t
    <3>1. \/ TagsOf(UnitsOf(TurnOf(s, t, x).out, n)) = TagsOf(UnitsOf(s.out, n))
          \/ TagsOf(UnitsOf(TurnOf(s, t, x).out, n)) = Append(TagsOf(UnitsOf(s.out, n)), x)
      BY <2>1, <2>4, TurnTags
    <3> QED BY <2>4, <3>1 DEF s
  <2> HIDE DEF M
  <2>6. M(x) \in Seq(Nat) /\ M(x+1) \in Seq(Nat) BY <1>1, <2>1
  <2>7. ASSUME NEW y \in 1..x+1 PROVE M(y) \in Seq(Nat) /\ Starts(M(y), M(x+1))
    <3>1. CASE y = x + 1 BY <3>1, <2>1, <1>1, <1>2
    <3>2. CASE y \in 1..x
      <4>1. M(y) \in Seq(Nat) /\ Starts(M(y), M(x)) BY <1>4, <3>2
      <4> DEFINE a == M(y)
                 b == M(x)
      <4>2. a \in Seq(Nat) /\ b \in Seq(Nat) /\ Starts(a, b) BY <4>1, <2>6
      <4> HIDE DEF a, b
      <4>3. Starts(a, Append(b, x)) BY <2>1, <4>2, StartsAppend
      <4> QED BY <4>1, <4>2, <4>3, <2>5 DEF a, b
    <3> QED BY <3>1, <3>2
  <2> QED BY <2>1, <2>6, <2>7
<1> HIDE DEF Q
<1>5. \A x \in 1..z : x \in Q
  <2>1. \A x \in 1..(z-1)+1 : x \in Q BY <1>0, <1>3, <1>4, PositionInduction
  <2> QED BY <1>0, <2>1
<1>6. q \in Q BY <1>5
<1> QED BY <1>6 DEF Q

\* The tags in file n, whatever the loop still makes of it.
LEMMA TagsOfSegment ==
  ASSUME NEW f \in File, NEW p \in 1..Stop(f), NEW n
  PROVE  LET sent == TagsOf(UnitsOf(Loop(f)[p].out, n))
             all  == TagsOf(UnitsOf(LastOut(f), n))
         IN  sent \in Seq(Nat) /\ Len(sent) <= Len(all) /\ sent = SubSeq(all, 1, Len(sent))
<1> DEFINE z == Stop(f)
           sent == TagsOf(UnitsOf(Loop(f)[p].out, n))
           all == TagsOf(UnitsOf(LastOut(f), n))
<1>1. z \in 1..z /\ p \in 1..z /\ z \in Nat
  <2>1. Len(f.tags) \in Nat BY DEF File
  <2> QED BY <2>1, StopFacts
<1>2. all = TagsOf(UnitsOf(Loop(f)[z].out, n))
  <2> DEFINE s == Loop(f)[z]
             t == f.tags[z]
  <2>1. CASE TagAt(f, z)
    <3>1. LastOut(f) = OutAt(s, t, z) BY <2>1 DEF LastOut
    <3>2. LoopOk(s) /\ t \in TagType BY <1>1, <2>1, AtPosition
    <3> HIDE DEF s, t
    <3>3. TagsOf(UnitsOf(OutAt(s, t, z), n)) = TagsOf(UnitsOf(s.out, n)) BY <1>1, <3>2, TurnTags
    <3> QED BY <3>1, <3>3 DEF s
  <2>2. CASE ~TagAt(f, z) BY <2>2 DEF LastOut
  <2> QED BY <2>1, <2>2
<1>3. sent \in Seq(Nat) /\ all \in Seq(Nat) /\ Starts(sent, all)
  <2>1. sent \in Seq(Nat) /\ Starts(sent, TagsOf(UnitsOf(Loop(f)[z].out, n)))
    BY <1>1, TagsGrow
  <2>2. TagsOf(UnitsOf(Loop(f)[z].out, n)) \in Seq(Nat) BY <1>1, TagsGrow
  <2> QED BY <1>2, <2>1, <2>2
<1> HIDE DEF sent, all
<1>4. sent = SubSeq(all, 1, Len(sent)) /\ Len(sent) <= Len(all)
  <2>1. 0 \in Nat OBVIOUS
  <2> QED BY <1>3, <2>1, StartsAppend DEF Starts
<1> QED BY <1>3, <1>4 DEF sent, all

----------------------------------------------------------------------------
(* Segment n, between the cuts with the numbers n and n + 1.               *)

LEMMA BeginsFacts ==
  ASSUME NEW f \in File, NEW n, NEW p, Begins(f, n, p)
  PROVE  /\ p \in 1..Stop(f) /\ p \in 1..Len(f.tags)+1 /\ p \in Nat /\ p > 0
         /\ n = Loop(f)[p].seq /\ n \in Nat /\ n <= LastSeq(f)
         /\ TagAt(f, p) => Opens(Loop(f)[p], f.tags[p])
         /\ ~TagAt(f, p) => p = Stop(f)
<1>1. p \in 1..Stop(f) /\ n = Loop(f)[p].seq BY DEF Begins
<1>2. p \in Nat /\ p > 0 BY <1>1, AtPosition
<1>3. TagAt(f, p) => Opens(Loop(f)[p], f.tags[p]) BY DEF Begins, TagAt
<1>4. ~TagAt(f, p) => p = Stop(f) BY <1>1, AtPosition DEF Goes
<1> QED BY <1>1, <1>2, <1>3, <1>4, AtPosition, LastFacts

LEMMA Between ==
  ASSUME NEW f \in File, NEW n \in Nat, NEW a, NEW b, Begins(f, n, a), Begins(f, n + 1, b)
  PROVE  /\ a \in Nat /\ b \in Nat /\ a < b /\ b \in 1..Stop(f) /\ n < LastSeq(f)
         /\ Opens(Loop(f)[a], f.tags[a]) /\ Loop(f)[a].seq = n
         /\ \A p \in a..b-1 : p \in 1..Stop(f) /\ Goes(f, p)
         /\ \A p \in a+1..b-1 : Loop(f)[p].seq = n + 1 /\ ~Opens(Loop(f)[p], f.tags[p])
<1> DEFINE N == Len(f.tags)
           Seq_(p) == Loop(f)[p].seq
<1>1. /\ a \in Nat /\ b \in Nat /\ a \in 1..N+1 /\ b \in 1..N+1 /\ b \in 1..Stop(f) /\ a > 0
      /\ Seq_(a) = n /\ Seq_(b) = n + 1 /\ n + 1 <= LastSeq(f) /\ LastSeq(f) \in Nat
  BY BeginsFacts, LastFacts
<1>2. Stop(f) \in Nat /\ N \in Nat /\ Stop(f) \in 1..N+1
  <2>1. N \in Nat BY DEF File
  <2> QED BY <2>1, StopFacts
<1>3. a < b
  <2> SUFFICES ASSUME ~(a < b) PROVE FALSE
    OBVIOUS
  <2>1. b \in 1..a BY <1>1
  <2>2. Seq_(b) <= Seq_(a) BY <1>1, <2>1, SeqGrows
  <2> HIDE DEF Seq_
  <2> QED BY <1>1, <2>2
<1>4. \A p \in a..b-1 : p \in 1..Stop(f) /\ Goes(f, p)
  <2> SUFFICES ASSUME NEW p \in a..b-1 PROVE p \in 1..Stop(f) /\ Goes(f, p)
    OBVIOUS
  <2>1. p \in 1..Stop(f)-1 /\ p \in 1..Stop(f) BY <1>1, <1>2
  <2> QED BY <2>1, StopFacts
<1>5. a \in a..b-1 BY <1>1, <1>3
<1>6. TagAt(f, a) BY <1>4, <1>5 DEF Goes
<1>7. Opens(Loop(f)[a], f.tags[a]) BY <1>6, BeginsFacts
<1>8. ASSUME NEW p \in 1..Stop(f), TagAt(f, p)
      PROVE  /\ Seq_(p) \in Nat /\ Seq_(p+1) \in {Seq_(p), Seq_(p) + 1}
             /\ Seq_(p+1) = Seq_(p) + 1 <=> Opens(Loop(f)[p], f.tags[p])
  <2> DEFINE s == Loop(f)[p]
             t == f.tags[p]
  <2>1. LoopOk(s) /\ t \in TagType /\ p \in Nat /\ Loop(f)[p+1] = TurnOf(s, t, p)
    BY <1>8, AtPosition
  <2>2. TurnOf(s, t, p).seq = SeqAt(s, t) BY DEF TurnOf
  <2> HIDE DEF s, t
  <2>3. s.seq \in Nat /\ SeqAt(s, t) \in {s.seq, s.seq + 1} /\ (SeqAt(s, t) = s.seq + 1 <=> Opens(s, t))
    BY <2>1, LoopStateFields, PrologueTypes
  <2> QED BY <2>1, <2>2, <2>3 DEF s, t
<1>9. Seq_(a+1) = n + 1 BY <1>1, <1>4, <1>5, <1>6, <1>7, <1>8
<1>10. \A p \in a+1..b : Seq_(p) = n + 1
  <2> SUFFICES ASSUME NEW p \in a+1..b PROVE Seq_(p) = n + 1
    OBVIOUS
  <2>1. p \in 1..b /\ a + 1 \in 1..p /\ p \in 1..N+1 /\ p \in 1..Stop(f) BY <1>1, <1>2
  <2>2. Seq_(a+1) <= Seq_(p) /\ Seq_(p) <= Seq_(b) BY <1>1, <2>1, SeqGrows
  <2>3. Seq_(p) \in Nat BY <2>1, LastFacts
  <2> HIDE DEF Seq_
  <2> QED BY <1>1, <1>9, <2>2, <2>3
<1>11. \A p \in a+1..b-1 : Seq_(p) = n + 1 /\ ~Opens(Loop(f)[p], f.tags[p])
  <2> SUFFICES ASSUME NEW p \in a+1..b-1 PROVE Seq_(p) = n + 1 /\ ~Opens(Loop(f)[p], f.tags[p])
    OBVIOUS
  <2>1. p \in a+1..b /\ p + 1 \in a+1..b /\ p \in a..b-1 BY <1>1
  <2>2. Seq_(p) = n + 1 /\ Seq_(p+1) = n + 1 BY <1>10, <2>1
  <2>3. p \in 1..Stop(f) /\ TagAt(f, p) BY <1>4, <2>1 DEF Goes
  <2>4. n + 1 # n + 1 + 1 OBVIOUS
  <2> QED BY <1>8, <2>2, <2>3, <2>4
<1>12. n < LastSeq(f) BY <1>1
<1> QED BY <1>1, <1>3, <1>4, <1>7, <1>11, <1>12

\* A file is empty until its number comes.
LEMMA NothingBefore ==
  ASSUME NEW f \in File, NEW n \in Nat, NEW p \in 1..Len(f.tags)+1, Loop(f)[p].seq <= n
  PROVE  UnitsOf(Loop(f)[p].out, n) = <<>>
<1> DEFINE N == Len(f.tags)
           Q == {x \in 1..N+1 : Loop(f)[x].seq <= n => UnitsOf(Loop(f)[x].out, n) = <<>>}
<1>1. N \in Nat BY DEF File
<1>2. 1 \in Q
  <2>1. Loop(f)[1].out = <<>> BY LoopSteps DEF LoopStart
  <2> QED BY <1>1, <2>1, NothingWritten
<1>3. ASSUME NEW x \in 1..N, x \in Q PROVE x + 1 \in Q
  <2> DEFINE s == Loop(f)[x]
             t == f.tags[x]
  <2>1. LoopOk(s) /\ t \in TagType /\ x \in Nat /\ x + 1 \in 1..N+1 /\ Loop(f)[x+1] = TurnOf(s, t, x)
    BY <1>1, LoopTypes, LoopSteps
  <2>2. s.seq <= n => UnitsOf(s.out, n) = <<>> BY <1>3
  <2> HIDE DEF s, t
  <2>3. TurnOf(s, t, x).seq <= n => UnitsOf(TurnOf(s, t, x).out, n) = <<>>
    <3> SUFFICES ASSUME TurnOf(s, t, x).seq <= n PROVE UnitsOf(TurnOf(s, t, x).out, n) = <<>>
      OBVIOUS
    <3>1. TurnOf(s, t, x).seq = SeqAt(s, t) BY DEF TurnOf
    <3>2. s.seq \in Nat /\ SeqAt(s, t) \in {s.seq, s.seq + 1} BY <2>1, LoopStateFields, PrologueTypes
    <3>3. s.seq <= n /\ SeqAt(s, t) - 1 # n BY <3>1, <3>2
    <3>4. UnitsOf(TurnOf(s, t, x).out, n) = UnitsOf(s.out, n) BY <2>1, <3>3, TurnUnits
    <3> QED BY <2>2, <3>3, <3>4
  <2> QED BY <2>1, <2>3
<1> HIDE DEF Q
<1>4. \A x \in 1..N+1 : x \in Q BY <1>1, <1>2, <1>3, PositionInduction
<1> QED BY <1>4 DEF Q

\* A file is complete when the next one begins.
LEMMA NothingBehind ==
  ASSUME NEW f \in File, NEW n \in Nat, NEW b, Begins(f, n + 1, b)
  PROVE  UnitsOf(LastOut(f), n) = UnitsOf(Loop(f)[b].out, n)
<1> DEFINE z == Stop(f)
           U(x) == UnitsOf(Loop(f)[x].out, n)
           Q == {x \in 1..z : b <= x => U(x) = U(b)}
<1>0. z \in Nat /\ z > 0 /\ z - 1 \in Nat /\ (z - 1) + 1 = z /\ z \in 1..z /\ Len(f.tags) \in Nat
      /\ z \in 1..Len(f.tags)+1
  <2>1. Len(f.tags) \in Nat BY DEF File
  <2> QED BY <2>1, StopFacts
<1>1. /\ b \in Nat /\ b \in 1..z /\ n + 1 = Loop(f)[b].seq /\ b > 0
      /\ (TagAt(f, b) => Opens(Loop(f)[b], f.tags[b])) /\ (~TagAt(f, b) => b = z)
  BY BeginsFacts
<1>2. ASSUME NEW x \in 1..z, b <= x, TagAt(f, x)
      PROVE  SeqAt(Loop(f)[x], f.tags[x]) - 1 # n
  <2>1. TagAt(f, b) BY <1>0, <1>1, <1>2
  <2> DEFINE s == Loop(f)[b]
             t == f.tags[b]
  <2>2. LoopOk(s) /\ t \in TagType /\ Loop(f)[b+1] = TurnOf(s, t, b)
    BY <1>1, <2>1, AtPosition
  <2>3. SeqAt(s, t) = n + 2
    <3>1. Opens(s, t) /\ n + 1 = s.seq BY <1>1, <2>1
    <3> HIDE DEF s, t
    <3>2. SeqAt(s, t) = s.seq + 1 BY <1>1, <2>2, <3>1, PrologueTypes
    <3> QED BY <3>1, <3>2
  <2>4. CASE x = b
    <3> HIDE DEF s, t
    <3>1. SeqAt(s, t) - 1 # n BY <2>3
    <3> QED BY <2>4, <3>1 DEF s, t
  <2>5. CASE x # b
    <3>1. b + 1 \in 1..x /\ x \in 1..Len(f.tags)+1 BY <1>0, <1>1, <1>2, <2>5
    <3>2. Loop(f)[b+1].seq <= Loop(f)[x].seq BY <3>1, SeqGrows
    <3>3. TurnOf(s, t, b).seq = SeqAt(s, t) BY DEF TurnOf
    <3>4. Loop(f)[b+1].seq = n + 2
      <4> HIDE DEF s, t
      <4> QED BY <2>2, <2>3, <3>3
    <3> DEFINE v == Loop(f)[x]
               u == f.tags[x]
    <3>5. LoopOk(v) /\ u \in TagType /\ x \in Nat BY <1>2, AtPosition
    <3>6. n + 2 <= v.seq BY <3>2, <3>4
    <3> HIDE DEF s, t, v, u
    <3>7. SeqAt(v, u) \in {v.seq, v.seq + 1} /\ v.seq \in Nat
      BY <3>5, PrologueTypes, LoopStateFields
    <3>8. SeqAt(v, u) - 1 # n BY <3>6, <3>7
    <3> QED BY <3>8 DEF v, u
  <2> QED BY <2>4, <2>5
<1>3. 1 \in Q
  <2>1. b <= 1 => b = 1 BY <1>1
  <2> QED BY <1>0, <2>1
<1>4. ASSUME NEW x \in 1..z-1, x \in Q PROVE x + 1 \in Q
  <2> SUFFICES ASSUME b <= x + 1 PROVE U(x+1) = U(b)
    BY <1>0
  <2>1. CASE b = x + 1 BY <2>1
  <2>2. CASE b # x + 1
    <3>1. b <= x /\ x \in 1..z /\ x \in Nat BY <1>0, <1>1, <2>2
    <3>2. U(x) = U(b) BY <1>4, <3>1
    <3> DEFINE s == Loop(f)[x]
               t == f.tags[x]
    <3>3. Goes(f, x) BY <1>0, StopFacts
    <3>4. TagAt(f, x) BY <3>3 DEF Goes
    <3>5. LoopOk(s) /\ t \in TagType /\ Loop(f)[x+1] = TurnOf(s, t, x)
      BY <3>1, <3>4, AtPosition
    <3>6. SeqAt(s, t) - 1 # n BY <1>2, <3>1, <3>4
    <3> HIDE DEF s, t
    <3>7. UnitsOf(TurnOf(s, t, x).out, n) = UnitsOf(s.out, n) BY <3>1, <3>5, <3>6, TurnUnits
    <3> QED BY <3>2, <3>5, <3>7 DEF s
  <2> QED BY <2>1, <2>2
<1> HIDE DEF Q
<1>5. z \in Q
  <2>1. \A x \in 1..(z-1)+1 : x \in Q BY <1>0, <1>3, <1>4, PositionInduction
  <2> QED BY <1>0, <2>1
<1>6. U(z) = U(b) BY <1>1, <1>5 DEF Q
<1>7. UnitsOf(LastOut(f), n) = U(z)
  <2> DEFINE s == Loop(f)[z]
             t == f.tags[z]
  <2>1. CASE TagAt(f, z)
    <3>1. LastOut(f) = OutAt(s, t, z) BY <2>1 DEF LastOut
    <3>2. LoopOk(s) /\ t \in TagType BY <1>0, <2>1, AtPosition
    <3>3. SeqAt(s, t) - 1 # n BY <1>0, <1>1, <1>2, <2>1
    <3> HIDE DEF s, t
    <3>4. UnitsOf(OutAt(s, t, z), n) = UnitsOf(s.out, n) BY <1>0, <3>2, <3>3, TurnUnits
    <3> QED BY <3>1, <3>4 DEF s
  <2>2. CASE ~TagAt(f, z) BY <2>2 DEF LastOut
  <2> QED BY <2>1, <2>2
<1> QED BY <1>6, <1>7

----------------------------------------------------------------------------
(* The parameter sets.                                                     *)

Headers(f) == {q \in 1..Len(f.tags) : f.tags[q].kind = "avc_config"}

\* OneConfiguration, of a file.
OneConf(f) == \A p, q \in Headers(f) : f.tags[p].header = f.tags[q].header

\* OneWidth, of a file.
OneWidthOf(f) ==
  \A p, q \in Headers(f) : f.tags[p].header.width = f.tags[q].header.width

LEMMA FrontKept ==
  ASSUME NEW X, NEW x \in Seq(X), NEW y \in Seq(X), NEW n \in 0..Len(x)
  PROVE  /\ SubSeq(x \o y, 1, n) = SubSeq(x, 1, n)
         /\ <<>> \o y = y /\ SubSeq(y, 1, Len(y)) = y
<1>1. /\ Len(x) \in Nat /\ Len(y) \in Nat /\ n \in Nat /\ x \o y \in Seq(X)
      /\ Len(x \o y) = Len(x) + Len(y) /\ \A i \in 1..Len(x) : (x \o y)[i] = x[i]
  OBVIOUS
<1>2. SubSeq(x \o y, 1, n) = SubSeq(x, 1, n)
  <2> DEFINE l == SubSeq(x \o y, 1, n)
             r == SubSeq(x, 1, n)
  <2>1. /\ l = [i \in 1..n |-> (x \o y)[i]] /\ r = [i \in 1..n |-> x[i]]
    BY <1>1
  <2> HIDE DEF l, r
  <2>2. \A i \in 1..n : (x \o y)[i] = x[i] BY <1>1
  <2> QED BY <2>1, <2>2 DEF l, r
<1>3. SubSeq(y, 1, Len(y)) = y OBVIOUS
<1>4. <<>> \o y = y OBVIOUS
<1> QED BY <1>2, <1>3, <1>4

\* What getts reads from .avc_conf.
LEMMA SetsOfHeader ==
  ASSUME NEW h \in Header
  PROVE  /\ ParameterSets(ParseConf(NoConf, h)) = h.sps \o h.pps
         /\ ParseConf(NoConf, h).width = h.width
<1>1. h.sps \in Seq(DOMAIN SetSize) /\ h.pps \in Seq(DOMAIN SetSize) BY DEF Header, Sets
<1>2. ASSUME NEW x \in Seq(DOMAIN SetSize) PROVE Announced(PushSets(NoSets, x)) = x
  <2>1. PushSets(NoSets, x).list = <<>> \o x /\ PushSets(NoSets, x).num = Len(x)
    BY DEF PushSets, NoSets
  <2>2. 0 \in 0..Len(x) OBVIOUS
  <2>3. <<>> \o x = x /\ SubSeq(x, 1, Len(x)) = x BY <2>2, FrontKept
  <2> QED BY <2>1, <2>3 DEF Announced
<1>3. /\ Announced(PushSets(NoSets, h.sps)) = h.sps
      /\ Announced(PushSets(NoSets, h.pps)) = h.pps
  BY <1>1, <1>2
<1>4. /\ ParseConf(NoConf, h).sps = PushSets(NoSets, h.sps)
      /\ ParseConf(NoConf, h).pps = PushSets(NoSets, h.pps)
      /\ ParseConf(NoConf, h).width = h.width
  BY DEF ParseConf, NoConf
<1> QED BY <1>3, <1>4 DEF ParameterSets

\* Sets that are announced again leave the announced ones as they were.
SetsAre(l, x) == l.num = Len(x) /\ Announced(l) = x

LEMMA PushedAgain ==
  ASSUME NEW l, ListOk(l), NEW x \in Seq(DOMAIN SetSize), l = NoSets \/ SetsAre(l, x)
  PROVE  SetsAre(PushSets(l, x), x)
<1> DEFINE y == l.list
           k == l.num
           d == PushSets(l, x)
<1>1. y \in Seq(DOMAIN SetSize) /\ k \in 0..Len(y)
  <2>1. y \in Seq(DOMAIN SetSize) /\ k \in Nat /\ k <= Len(y) BY DEF ListOk, Lists, Sets
  <2> HIDE DEF y, k
  <2> QED BY <2>1
<1>2. d.num = Len(x) /\ Announced(d) = SubSeq(y \o x, 1, Len(x)) BY DEF PushSets, Announced
<1>3. l = NoSets => y = <<>> /\ k = 0 BY DEF NoSets
<1>4. SetsAre(l, x) => k = Len(x) /\ SubSeq(y, 1, k) = x BY DEF SetsAre, Announced
<1> HIDE DEF y, k, d
<1>5. /\ SubSeq(y \o x, 1, k) = SubSeq(y, 1, k) /\ <<>> \o x = x
      /\ SubSeq(x, 1, Len(x)) = x
  BY <1>1, FrontKept
<1>6. SubSeq(y \o x, 1, Len(x)) = x
  <2>1. CASE l = NoSets BY <2>1, <1>3, <1>5
  <2>2. CASE SetsAre(l, x) BY <2>2, <1>4, <1>5
  <2> QED BY <2>1, <2>2
<1> QED BY <1>2, <1>6 DEF SetsAre, d

\* When all headers are the same, their sets are what the loop has from the
\* first one on, however many it has seen.
LEMMA SetsOfLoop ==
  ASSUME NEW f \in File, OneConf(f), NEW q \in Headers(f), NEW h, h = f.tags[q].header,
         NEW p \in 1..Len(f.tags)+1, Loop(f)[p].conf.width # 0
  PROVE  /\ ParameterSets(Loop(f)[p].conf) = h.sps \o h.pps
         /\ Loop(f)[p].conf.width = h.width
<1> DEFINE N == Len(f.tags)
           Has(c) == c.width # 0 => SetsAre(c.sps, h.sps) /\ SetsAre(c.pps, h.pps) /\ c.width = h.width
           Q == {y \in 1..N+1 : Has(Loop(f)[y].conf)}
<1>1. N \in Nat /\ q \in 1..N /\ f.tags[q].kind = "avc_config" BY DEF File, Headers
<1>2. h \in Header /\ h.sps \in Seq(DOMAIN SetSize) /\ h.pps \in Seq(DOMAIN SetSize)
  <2>1. f.tags[q] \in TagType BY <1>1, LoopTypes
  <2>2. h \in Header BY <1>1, <2>1, TagFields
  <2> QED BY <2>2 DEF Header, Sets
<1>3. 1 \in Q
  <2>1. Loop(f)[1].conf = NoConf BY LoopSteps DEF LoopStart
  <2>2. NoConf.width = 0 BY DEF NoConf
  <2> QED BY <1>1, <2>1, <2>2
<1>4. ASSUME NEW y \in 1..N, y \in Q PROVE y + 1 \in Q
  <2> DEFINE s == Loop(f)[y]
             t == f.tags[y]
             c == s.conf
  <2>1. LoopOk(s) /\ t \in TagType /\ Loop(f)[y+1] = TurnOf(s, t, y) /\ y + 1 \in 1..N+1
    BY <1>1, LoopTypes, LoopSteps
  <2>2. t.kind = "avc_config" => t.header = h
    BY <1>1 DEF OneConf, Headers
  <2>3. Has(c) BY <1>4
  <2>4. TurnOf(s, t, y).conf = ConfAfter(s, t) BY DEF TurnOf
  <2>5. ConfAfter(s, t) = IF t.kind = "avc_config" THEN ParseConf(c, t.header) ELSE c
    BY DEF ConfAfter
  <2>6. c \in Conf /\ ConfOk(c)
    <3> HIDE DEF s
    <3> QED BY <2>1, LoopStateFields
  <2> HIDE DEF c, Has
  <2>7. Has(ParseConf(c, h))
    <3>1. ListOk(c.sps) /\ ListOk(c.pps) /\ (c.width = 0 => c.sps = NoSets /\ c.pps = NoSets)
      BY <2>6 DEF ConfOk
    <3>2. c.width # 0 => SetsAre(c.sps, h.sps) /\ SetsAre(c.pps, h.pps) BY <2>3 DEF Has
    <3>3. SetsAre(PushSets(c.sps, h.sps), h.sps) BY <1>2, <3>1, <3>2, PushedAgain
    <3>4. SetsAre(PushSets(c.pps, h.pps), h.pps) BY <1>2, <3>1, <3>2, PushedAgain
    <3>5. /\ ParseConf(c, h).sps = PushSets(c.sps, h.sps)
          /\ ParseConf(c, h).pps = PushSets(c.pps, h.pps)
          /\ ParseConf(c, h).width = h.width
      BY DEF ParseConf
    <3> QED BY <3>3, <3>4, <3>5 DEF Has
  <2>8. Has(ConfAfter(s, t)) BY <2>2, <2>3, <2>5, <2>7
  <2>9. Has(Loop(f)[y+1].conf) BY <2>1, <2>4, <2>8
  <2> QED BY <2>1, <2>9 DEF Has
<1> HIDE DEF Q
<1>5. \A y \in 1..N+1 : y \in Q BY <1>1, <1>3, <1>4, PositionInduction
<1>6. Has(Loop(f)[p].conf) BY <1>5 DEF Q
<1> QED BY <1>6 DEF SetsAre, ParameterSets

\* When all headers have one width, it is that of the loop.
LEMMA WidthOfLoop ==
  ASSUME NEW f \in File, OneWidthOf(f), NEW q \in Headers(f), NEW p \in 1..Len(f.tags)+1,
         Loop(f)[p].conf.width # 0
  PROVE  Loop(f)[p].conf.width = f.tags[q].header.width
<1> DEFINE N == Len(f.tags)
           w == f.tags[q].header.width
           Has(c) == c.width # 0 => c.width = w
           Q == {y \in 1..N+1 : Has(Loop(f)[y].conf)}
<1>1. N \in Nat /\ q \in 1..N /\ f.tags[q].kind = "avc_config" BY DEF File, Headers
<1>2. 1 \in Q
  <2>1. Loop(f)[1].conf = NoConf BY LoopSteps DEF LoopStart
  <2>2. NoConf.width = 0 BY DEF NoConf
  <2> QED BY <1>1, <2>1, <2>2
<1>3. ASSUME NEW y \in 1..N, y \in Q PROVE y + 1 \in Q
  <2> DEFINE s == Loop(f)[y]
             t == f.tags[y]
  <2>1. Loop(f)[y+1] = TurnOf(s, t, y) /\ y + 1 \in 1..N+1
    BY <1>1, LoopSteps
  <2>2. t.kind = "avc_config" => t.header.width = w
    BY <1>1 DEF OneWidthOf, Headers
  <2>3. Has(s.conf) BY <1>3
  <2>4. TurnOf(s, t, y).conf = IF t.kind = "avc_config" THEN ParseConf(s.conf, t.header) ELSE s.conf
    BY DEF TurnOf, ConfAfter
  <2>5. ParseConf(s.conf, t.header).width = t.header.width BY DEF ParseConf
  <2> HIDE DEF s, t, w
  <2>6. Has(TurnOf(s, t, y).conf) BY <2>2, <2>3, <2>4, <2>5
  <2> QED BY <2>1, <2>6
<1> HIDE DEF Q
<1>4. \A y \in 1..N+1 : y \in Q BY <1>1, <1>2, <1>3, PositionInduction
<1> QED BY <1>4 DEF Q

----------------------------------------------------------------------------
(* A turn, by the kind of its tag.                                         *)

TurnSpec(s, t, p, v) ==
  /\ v.switched = FALSE /\ v.next_timestamp = NextTime(s, t) /\ v.due = DueAt(s, t)
  /\ v.seq = SeqAt(s, t)
  /\ v.conf = IF t.kind = "avc_config" THEN ParseConf(s.conf, t.header) ELSE s.conf
  /\ t.kind \notin MediaKinds =>
       /\ v.counter = s.counter /\ v.count = CountAt(s, t) /\ v.out = OutAt(s, t, p)
       /\ v.sps_pps_write = WrittenAt(s, t)
  /\ t.kind = "aac" =>
       /\ v.counter = Added(s.counter, "audio", AudioPackets(t))
       /\ v.count = CountAt(s, t) + AudioPackets(t)
       /\ v.out = Append(OutAt(s, t, p), [file |-> SeqAt(s, t) - 1, at |-> CountAt(s, t),
                                          unit |-> AudioUnit(p, t, s.counter)])
       /\ v.sps_pps_write = WrittenAt(s, t)
  /\ t.kind = "nalu" =>
       /\ v.counter = Added(s.counter, "video", VideoPackets(t, SetsAt(s, t), s.conf.width))
       /\ v.count = CountAt(s, t) + VideoPackets(t, SetsAt(s, t), s.conf.width)
       /\ v.out = Append(OutAt(s, t, p),
                         [file |-> SeqAt(s, t) - 1, at |-> CountAt(s, t),
                          unit |-> VideoUnit(p, t, s.counter, SetsAt(s, t), s.conf.width)])
       /\ v.sps_pps_write = TRUE

LEMMA TurnFields ==
  ASSUME NEW s, LoopOk(s), NEW t \in TagType, NEW p, NEW v, v = TurnOf(s, t, p)
  PROVE  TurnSpec(s, t, p, v)
<1>1. /\ v.switched = FALSE /\ v.next_timestamp = NextTime(s, t) /\ v.due = DueAt(s, t)
      /\ v.seq = SeqAt(s, t) /\ v.conf = ConfAfter(s, t) /\ v.sps_pps_write = WrittenAfter(s, t)
      /\ v.counter = CounterAfter(s, t) /\ v.count = CountAt(s, t) + PacketsOf(s, t)
      /\ v.out = OutAfter(s, t, p)
  BY DEF TurnOf
<1>2. s.counter \in [Streams -> Nat] /\ CountAt(s, t) \in Nat /\ WrittenAt(s, t) \in BOOLEAN
  <2>1. 0 \in Nat OBVIOUS
  <2> QED BY <2>1, LoopStateFields, PrologueTypes
<1>3. v.conf = IF t.kind = "avc_config" THEN ParseConf(s.conf, t.header) ELSE s.conf
  BY <1>1 DEF ConfAfter
<1>4. ASSUME t.kind \notin MediaKinds
      PROVE  /\ v.counter = s.counter /\ v.count = CountAt(s, t) /\ v.out = OutAt(s, t, p)
             /\ v.sps_pps_write = WrittenAt(s, t)
  <2>1. t.kind # "aac" /\ t.kind # "nalu" BY <1>4 DEF MediaKinds
  <2>2. PacketsOf(s, t) = 0 /\ StreamOf(t) \in Streams
    BY <2>1 DEF PacketsOf, StreamOf, Streams
  <2>3. CounterAfter(s, t) = [s.counter EXCEPT ![StreamOf(t)] = @ + 0]
    BY <2>2 DEF CounterAfter, Added
  <2>4. [s.counter EXCEPT ![StreamOf(t)] = @ + 0] = s.counter
    <3> DEFINE c == s.counter
               k == StreamOf(t)
    <3>1. c \in [Streams -> Nat] /\ k \in Streams BY <1>2, <2>2
    <3> HIDE DEF c, k
    <3>2. c[k] + 0 = c[k] BY <3>1
    <3>3. [c EXCEPT ![k] = @ + 0] = c BY <3>1, <3>2
    <3> QED BY <3>3 DEF c, k
  <2>5. v.count = CountAt(s, t) BY <1>1, <1>2, <2>2
  <2>6. v.sps_pps_write = WrittenAt(s, t) BY <1>1, <1>2, <2>1 DEF WrittenAfter
  <2> QED BY <1>1, <1>4, <2>3, <2>4, <2>5, <2>6 DEF OutAfter
<1>5. ASSUME t.kind = "aac"
      PROVE  /\ v.counter = Added(s.counter, "audio", AudioPackets(t))
             /\ v.count = CountAt(s, t) + AudioPackets(t)
             /\ v.out = Append(OutAt(s, t, p), [file |-> SeqAt(s, t) - 1, at |-> CountAt(s, t),
                                                unit |-> AudioUnit(p, t, s.counter)])
             /\ v.sps_pps_write = WrittenAt(s, t)
  BY <1>1, <1>2, <1>5
     DEF CounterAfter, PacketsOf, StreamOf, OutAfter, MediaKinds, UnitAt, WrittenAfter
<1>6. ASSUME t.kind = "nalu"
      PROVE  /\ v.counter = Added(s.counter, "video", VideoPackets(t, SetsAt(s, t), s.conf.width))
             /\ v.count = CountAt(s, t) + VideoPackets(t, SetsAt(s, t), s.conf.width)
             /\ v.out = Append(OutAt(s, t, p),
                               [file |-> SeqAt(s, t) - 1, at |-> CountAt(s, t),
                                unit |-> VideoUnit(p, t, s.counter, SetsAt(s, t), s.conf.width)])
             /\ v.sps_pps_write = TRUE
  BY <1>1, <1>2, <1>6
     DEF CounterAfter, PacketsOf, StreamOf, OutAfter, MediaKinds, UnitAt, WrittenAfter
<1> QED BY <1>1, <1>3, <1>4, <1>5, <1>6 DEF TurnSpec

----------------------------------------------------------------------------
(* The inductive invariant.                                                *)

FInv ==
  LET s == Loop(flv)[f_pos] IN
  /\ f_status \in {"running", "done", "failed", "undefined"}
  /\ f_status = "running" =>
       /\ f_pos \in 1..Stop(flv)
       /\ f_switched = s.switched /\ f_next_timestamp = s.next_timestamp
       /\ f_conf = s.conf /\ f_sps_pps_write = s.sps_pps_write
       /\ f_next_prev_pat_pmt_output = s.due /\ f_counter = s.counter
       /\ f_count = s.count /\ ts_seq = s.seq /\ out = s.out
  /\ f_status # "running" => ts_seq = LastSeq(flv) /\ out = LastOut(flv)

\* An entry of the index, its number being n (from 0).
IsEntry(n, e) ==
  /\ Begins(flv, n, e.pos)
  /\ e.audio = Loop(flv)[e.pos].counter["audio"] % 16
  /\ e.video = Loop(flv)[e.pos].counter["video"] % 16

\* The files of the index, whatever came of the program.
FilesInv ==
  /\ ts_index \in Seq([pos: 1..Len(flv.tags)+1, audio: 0..15, video: 0..15])
  /\ \A k \in 1..Len(ts_index) : IsEntry(k - 1, ts_index[k])
  /\ flushed \in 0..Len(ts_index)
  /\ m3u8 \in 0..LastSeq(flv)
  /\ avc_conf = NoHeader \/ \E q \in Headers(flv) : avc_conf = flv.tags[q].header

\* The indexer in its loop.
BLoop ==
  LET s == Loop(flv)[b_pos] IN
  /\ b_pos \in 1..Stop(flv)
  /\ b_pc \in {"start", "ts_idx"} => b_pos = 1
  /\ b_pc \notin {"tag", "conf"} =>
       /\ b_switched = s.switched /\ b_next_timestamp = s.next_timestamp
       /\ b_conf = s.conf /\ b_sps_pps_write = s.sps_pps_write /\ b_counter = s.counter
  /\ b_pc = "ts_idx" => m3u8 = 0
  /\ b_pc = "parse" => Len(ts_index) = s.seq /\ m3u8 = s.seq
  /\ b_pc \in {"tag", "conf"} =>
       LET t == flv.tags[b_pos] IN
       /\ TagAt(flv, b_pos)
       /\ b_switched = FALSE /\ b_next_timestamp = NextTime(s, t)
       /\ b_sps_pps_write = WrittenAt(s, t) /\ b_counter = s.counter
       /\ Len(ts_index) = SeqAt(s, t) /\ m3u8 = SeqAt(s, t)
       /\ b_pc = "tag" => b_conf = s.conf
       /\ b_pc = "conf" => t.kind = "avc_config" /\ b_conf = ConfAfter(s, t)
  /\ b_pc \in {"endlist", "close", "done"} =>
       /\ EosAfter(flv, b_pos) /\ m3u8 = s.seq /\ Len(ts_index) = m3u8 + 1
  /\ b_pc \in {"parse", "tag", "endlist", "close", "done"} =>
       ((\E q \in Headers(flv) : q < b_pos) => avc_conf # NoHeader)
  /\ b_pc = "done" => flushed = Len(ts_index)

\* Its memory, when nothing reads it any more.
BTypes ==
  /\ b_pos \in 1..Len(flv.tags)+1 /\ b_switched \in BOOLEAN /\ b_sps_pps_write \in BOOLEAN
  /\ b_next_timestamp \in 0..TimeMod-1 /\ b_counter \in [Streams -> Nat]

BInv ==
  /\ FilesInv /\ endlist \in BOOLEAN /\ restarts \in 0..MaxRestarts
  /\ \/ /\ b_pc \in {"start", "ts_idx", "parse", "tag", "conf", "endlist", "close", "done"}
        /\ BLoop
     \/ b_pc \in {"failed", "killed", "undefined"} /\ BTypes

\* Getts has mapped and read some of it.
EntriesInv ==
  /\ start_state = G!NoEntry \/ IsEntry(sequence, start_state)
  /\ end_state = G!NoEntry \/ IsEntry(sequence + 1, end_state)
  /\ g_pc = "idle" => start_state = G!NoEntry /\ end_state = G!NoEntry

\* us has what o has: the same tags and, if there is one configuration, the
\* same packets; the tables may differ in the library.
Made(one, which, o, us) ==
  /\ TagsOf(us) = TagsOf(o)
  /\ one => Media(us) = Media(o) /\ (which = "getts" => us = o)

\* The counters c are those of s, and it is as long until the next tables.
InStep(one, which, s, c, due, count) ==
  one => /\ \A st \in Streams : c[st] % 16 = s.counter[st] % 16
         /\ which = "getts" => due - count = s.due - s.count

\* What is there at position g_pos of the segment.
InSegment ==
  LET s == Loop(flv)[g_pos] IN
  /\ start_state # G!NoEntry /\ end_state # G!NoEntry
  /\ start_state.pos < g_pos /\ g_pos <= end_state.pos
  /\ video_first = ~s.sps_pps_write
  /\ units \in Seq(Unit) /\ units # <<>>
  /\ Made(OneConf(flv), program, UnitsOf(s.out, sequence), units)
  /\ InStep(OneConf(flv), program, s, g_counter, g_next_prev_pat_pmt_output, g_count)

AtStart ==
  /\ g_pos = start_state.pos /\ units = <<TablesUnit(g_pos)>> /\ video_first = TRUE
  /\ g_pos <= end_state.pos
  /\ g_counter = [st \in Streams |-> IF st = "video" THEN start_state.video
                                                   ELSE start_state.audio]
  /\ g_count = 2 /\ g_next_prev_pat_pmt_output = 2 + PAT_PMT_INTERVAL

Fresh ==
  /\ units = <<>> /\ video_first = TRUE /\ g_count = 0
  /\ g_counter = [st \in Streams |-> 0] /\ g_next_prev_pat_pmt_output = 0 /\ g_pos = 0

\* What is in memory by then.
ReadInv ==
  /\ g_pc \in {"idle", "conf", "parse_conf"} => g_conf = NoConf
  /\ g_pc = "parse_conf" => mapped_conf # NoHeader
  /\ g_pc \in {"map_index", "start_state", "end_state", "open", "tags", "done"} =>
       \E q \in Headers(flv) : g_conf = ParseConf(NoConf, flv.tags[q].header)

\* A tag that getts has given up on is behind it.
GaveUp ==
  LET p == g_pos - 1 IN
  /\ start_state # G!NoEntry /\ end_state # G!NoEntry
  /\ start_state.pos <= p /\ p < end_state.pos
  /\ video_first \in BOOLEAN /\ units \in Seq(Unit) /\ units # <<>>
  /\ TagsOf(units) = TagsOf(UnitsOf(Loop(flv)[p].out, sequence))

StreamInv ==
  /\ g_pc \notin {"tags", "done", "failed"} => Fresh
  /\ g_pc = "tags" => AtStart \/ InSegment
  /\ g_pc = "done" => (AtStart \/ InSegment) /\ g_pos = end_state.pos
  /\ g_pc = "failed" => Fresh \/ (AtStart /\ g_pos = 0) \/ GaveUp
  /\ g_pos \in Nat /\ g_counter \in [Streams -> Nat]
  /\ g_count \in Nat /\ g_next_prev_pat_pmt_output \in Nat
  /\ units # <<>> => units[1] = TablesUnit(start_state.pos)

GInv ==
  /\ program \in {"getts", "libgetts"} /\ sequence \in Sequences \cup {0}
  /\ g_pc \in {"idle", "conf", "parse_conf", "map_index", "start_state", "end_state",
               "open", "unopened", "tags", "done", "failed", "undefined"}
  /\ EntriesInv /\ ReadInv /\ StreamInv

\* A request that was made when the playlist was complete.
ServableInv ==
  /\ g_pc = "idle" => asked = "start"
  /\ asked = "done" =>
       /\ b_pc = "done"
       /\ (sequence < m3u8 /\ HasHeader /\ OneWidth =>
            /\ g_pc \notin {"failed", "undefined"}
            /\ g_pc = "parse_conf" => mapped_conf = avc_conf
            /\ g_pc \in {"start_state", "end_state"} => mapped_entries = flushed
            /\ g_pc \in {"end_state", "open", "tags", "done"} => start_state # G!NoEntry
            /\ g_pc \in {"open", "tags", "done"} => end_state # G!NoEntry)

IInv ==
  /\ flv \in Files
  /\ FInv /\ BInv /\ GInv /\ ServableInv
  /\ f_status = "running" => b_pc = "start" /\ ts_index = <<>> /\ m3u8 = 0 /\ g_pc = "idle"


----------------------------------------------------------------------------
(* Names shared through the three instances.                               *)

LEMMA FileFacts ==
  ASSUME flv \in Files
  PROVE  flv \in File /\ Len(flv.tags) \in Nat /\ \A p \in 1..Len(flv.tags) : flv.tags[p] \in TagType
<1>1. flv \in File BY FilesAssumption DEF File
<1> QED BY <1>1 DEF File

LEMMA SharedF ==
  ASSUME NEW f, NEW p, NEW t, NEW x, NEW sets, NEW c, NEW h, NEW w
  PROVE  /\ F!TagAt(f, p) <=> TagAt(f, p)
         /\ F!EosAfter(f, p) <=> EosAfter(f, p)
         /\ F!ParseFails(f, p) <=> ParseFails(f, p)
         /\ F!Due(t, x) <=> Due(t, x)
         /\ F!NextTimestamp(x) = NextTimestamp(x)
         /\ F!ParseConf(c, h) = ParseConf(c, h)
         /\ F!ParameterSets(c) = ParameterSets(c)
         /\ F!Fits(t, w) <=> Fits(t, w)
         /\ F!AudioPackets(t) = AudioPackets(t)
         /\ F!VideoPackets(t, sets, w) = VideoPackets(t, sets, w)
         /\ F!TablesUnit(p) = TablesUnit(p)
         /\ F!AudioUnit(p, t, c) = AudioUnit(p, t, c)
         /\ F!VideoUnit(p, t, c, sets, w) = VideoUnit(p, t, c, sets, w)
<1>1. F!EosAfter(f, p) <=> EosAfter(f, p) BY DEF F!EosAfter, EosAfter
<1>2. F!TagAt(f, p) <=> TagAt(f, p) BY <1>1 DEF F!TagAt, TagAt
<1>3. F!ParseFails(f, p) <=> ParseFails(f, p) BY DEF F!ParseFails, ParseFails
<1>4. F!Wide(t.timestamp) = Wide(t.timestamp) BY DEF F!Wide, Wide
<1>5. F!Due(t, x) <=> Due(t, x) BY <1>4 DEF F!Due, Due
<1>6. F!NextTimestamp(x) = NextTimestamp(x) BY DEF F!NextTimestamp, NextTimestamp
<1>7. F!ParseConf(c, h) = ParseConf(c, h)
  BY DEF F!ParseConf, ParseConf, F!PushSets, PushSets
<1>8. F!ParameterSets(c) = ParameterSets(c)
  BY DEF F!ParameterSets, ParameterSets, F!Announced, Announced
<1>9. \A n : F!NumPackets(n) = NumPackets(n)
  BY Zenon DEF F!NumPackets, NumPackets, F!FirstRoom, FirstRoom, F!RestPackets, RestPackets,
     F!RestRoom, RestRoom, F!SIZE, SIZE, F!HEADER_SIZE, HEADER_SIZE, F!AfDump, AfDump,
     F!FirstAfLength, FirstAfLength, F!PES_HEADER_SIZE, PES_HEADER_SIZE
<1>10. F!SetsSize(sets) = SetsSize(sets) BY Zenon DEF F!SetsSize, SetsSize
<1>11. F!Fits(t, w) <=> Fits(t, w) BY DEF F!Fits, Fits
<1>12. F!AudioPackets(t) = AudioPackets(t) BY <1>9 DEF F!AudioPackets, AudioPackets
<1>13. F!VideoPackets(t, sets, w) = VideoPackets(t, sets, w)
  BY <1>9, <1>10, <1>11 DEF F!VideoPackets, VideoPackets, F!StorageSize, StorageSize
<1>14. F!TablesUnit(p) = TablesUnit(p) BY DEF F!TablesUnit, TablesUnit
<1>15. F!AudioUnit(p, t, c) = AudioUnit(p, t, c) BY <1>12 DEF F!AudioUnit, AudioUnit
<1>16. F!VideoUnit(p, t, c, sets, w) = VideoUnit(p, t, c, sets, w) BY <1>13 DEF F!VideoUnit, VideoUnit
<1> QED BY <1>1, <1>2, <1>3, <1>5, <1>6, <1>7, <1>8, <1>11, <1>12, <1>13, <1>14, <1>15, <1>16

LEMMA SharedB ==
  ASSUME NEW f, NEW p, NEW t, NEW x, NEW sets, NEW c, NEW h, NEW w
  PROVE  /\ B!TagAt(f, p) <=> TagAt(f, p)
         /\ B!EosAfter(f, p) <=> EosAfter(f, p)
         /\ B!ParseFails(f, p) <=> ParseFails(f, p)
         /\ B!Due(t, x) <=> Due(t, x)
         /\ B!NextTimestamp(x) = NextTimestamp(x)
         /\ B!ParseConf(c, h) = ParseConf(c, h)
         /\ B!ParameterSets(c) = ParameterSets(c)
         /\ B!Fits(t, w) <=> Fits(t, w)
         /\ B!AudioPackets(t) = AudioPackets(t)
         /\ B!VideoPackets(t, sets, w) = VideoPackets(t, sets, w)
         /\ B!TablesUnit(p) = TablesUnit(p)
         /\ B!AudioUnit(p, t, c) = AudioUnit(p, t, c)
         /\ B!VideoUnit(p, t, c, sets, w) = VideoUnit(p, t, c, sets, w)
<1>1. B!EosAfter(f, p) <=> EosAfter(f, p) BY DEF B!EosAfter, EosAfter
<1>2. B!TagAt(f, p) <=> TagAt(f, p) BY <1>1 DEF B!TagAt, TagAt
<1>3. B!ParseFails(f, p) <=> ParseFails(f, p) BY DEF B!ParseFails, ParseFails
<1>4. B!Wide(t.timestamp) = Wide(t.timestamp) BY DEF B!Wide, Wide
<1>5. B!Due(t, x) <=> Due(t, x) BY <1>4 DEF B!Due, Due
<1>6. B!NextTimestamp(x) = NextTimestamp(x) BY DEF B!NextTimestamp, NextTimestamp
<1>7. B!ParseConf(c, h) = ParseConf(c, h)
  BY DEF B!ParseConf, ParseConf, B!PushSets, PushSets
<1>8. B!ParameterSets(c) = ParameterSets(c)
  BY DEF B!ParameterSets, ParameterSets, B!Announced, Announced
<1>9. \A n : B!NumPackets(n) = NumPackets(n)
  BY Zenon DEF B!NumPackets, NumPackets, B!FirstRoom, FirstRoom, B!RestPackets, RestPackets,
     B!RestRoom, RestRoom, B!SIZE, SIZE, B!HEADER_SIZE, HEADER_SIZE, B!AfDump, AfDump,
     B!FirstAfLength, FirstAfLength, B!PES_HEADER_SIZE, PES_HEADER_SIZE
<1>10. B!SetsSize(sets) = SetsSize(sets) BY Zenon DEF B!SetsSize, SetsSize
<1>11. B!Fits(t, w) <=> Fits(t, w) BY DEF B!Fits, Fits
<1>12. B!AudioPackets(t) = AudioPackets(t) BY <1>9 DEF B!AudioPackets, AudioPackets
<1>13. B!VideoPackets(t, sets, w) = VideoPackets(t, sets, w)
  BY <1>9, <1>10, <1>11 DEF B!VideoPackets, VideoPackets, B!StorageSize, StorageSize
<1>14. B!TablesUnit(p) = TablesUnit(p) BY DEF B!TablesUnit, TablesUnit
<1>15. B!AudioUnit(p, t, c) = AudioUnit(p, t, c) BY <1>12 DEF B!AudioUnit, AudioUnit
<1>16. B!VideoUnit(p, t, c, sets, w) = VideoUnit(p, t, c, sets, w) BY <1>13 DEF B!VideoUnit, VideoUnit
<1> QED BY <1>1, <1>2, <1>3, <1>5, <1>6, <1>7, <1>8, <1>11, <1>12, <1>13, <1>14, <1>15, <1>16

LEMMA SharedG ==
  ASSUME NEW f, NEW p, NEW t, NEW x, NEW sets, NEW c, NEW h, NEW w
  PROVE  /\ G!TagAt(f, p) <=> TagAt(f, p)
         /\ G!EosAfter(f, p) <=> EosAfter(f, p)
         /\ G!ParseFails(f, p) <=> ParseFails(f, p)
         /\ G!Due(t, x) <=> Due(t, x)
         /\ G!NextTimestamp(x) = NextTimestamp(x)
         /\ G!ParseConf(c, h) = ParseConf(c, h)
         /\ G!ParameterSets(c) = ParameterSets(c)
         /\ G!Fits(t, w) <=> Fits(t, w)
         /\ G!AudioPackets(t) = AudioPackets(t)
         /\ G!VideoPackets(t, sets, w) = VideoPackets(t, sets, w)
         /\ G!TablesUnit(p) = TablesUnit(p)
         /\ G!AudioUnit(p, t, c) = AudioUnit(p, t, c)
         /\ G!VideoUnit(p, t, c, sets, w) = VideoUnit(p, t, c, sets, w)
<1>1. G!EosAfter(f, p) <=> EosAfter(f, p) BY DEF G!EosAfter, EosAfter
<1>2. G!TagAt(f, p) <=> TagAt(f, p) BY <1>1 DEF G!TagAt, TagAt
<1>3. G!ParseFails(f, p) <=> ParseFails(f, p) BY DEF G!ParseFails, ParseFails
<1>4. G!Wide(t.timestamp) = Wide(t.timestamp) BY DEF G!Wide, Wide
<1>5. G!Due(t, x) <=> Due(t, x) BY <1>4 DEF G!Due, Due
<1>6. G!NextTimestamp(x) = NextTimestamp(x) BY DEF G!NextTimestamp, NextTimestamp
<1>7. G!ParseConf(c, h) = ParseConf(c, h)
  BY DEF G!ParseConf, ParseConf, G!PushSets, PushSets
<1>8. G!ParameterSets(c) = ParameterSets(c)
  BY DEF G!ParameterSets, ParameterSets, G!Announced, Announced
<1>9. \A n : G!NumPackets(n) = NumPackets(n)
  BY Zenon DEF G!NumPackets, NumPackets, G!FirstRoom, FirstRoom, G!RestPackets, RestPackets,
     G!RestRoom, RestRoom, G!SIZE, SIZE, G!HEADER_SIZE, HEADER_SIZE, G!AfDump, AfDump,
     G!FirstAfLength, FirstAfLength, G!PES_HEADER_SIZE, PES_HEADER_SIZE
<1>10. G!SetsSize(sets) = SetsSize(sets) BY Zenon DEF G!SetsSize, SetsSize
<1>11. G!Fits(t, w) <=> Fits(t, w) BY DEF G!Fits, Fits
<1>12. G!AudioPackets(t) = AudioPackets(t) BY <1>9 DEF G!AudioPackets, AudioPackets
<1>13. G!VideoPackets(t, sets, w) = VideoPackets(t, sets, w)
  BY <1>9, <1>10, <1>11 DEF G!VideoPackets, VideoPackets, G!StorageSize, StorageSize
<1>14. G!TablesUnit(p) = TablesUnit(p) BY DEF G!TablesUnit, TablesUnit
<1>15. G!AudioUnit(p, t, c) = AudioUnit(p, t, c) BY <1>12 DEF G!AudioUnit, AudioUnit
<1>16. G!VideoUnit(p, t, c, sets, w) = VideoUnit(p, t, c, sets, w) BY <1>13 DEF G!VideoUnit, VideoUnit
<1> QED BY <1>1, <1>2, <1>3, <1>5, <1>6, <1>7, <1>8, <1>11, <1>12, <1>13, <1>14, <1>15, <1>16

----------------------------------------------------------------------------
(* flv2ts follows the loop.                                                *)

FTurnSpec(s, t) ==
  /\ F!tag = t /\ F!NextSeq = SeqAt(s, t) /\ F!SetsWritten = WrittenAt(s, t)
  /\ F!Count = CountAt(s, t) /\ F!Opened = OutAt(s, t, f_pos)
  /\ F!SetsNow = SetsAt(s, t)
  /\ F!Prologue => /\ f_switched' = FALSE /\ f_next_timestamp' = NextTime(s, t)
                   /\ f_next_prev_pat_pmt_output' = DueAt(s, t)
                   /\ ts_seq' = SeqAt(s, t) /\ flv' = flv

LEMMA FTurn ==
  ASSUME flv \in Files, FInv, f_status = "running", TagAt(flv, f_pos),
         NEW s, s = Loop(flv)[f_pos], NEW t, t = flv.tags[f_pos]
  PROVE  FTurnSpec(s, t)
<1>1. /\ f_switched = s.switched /\ f_next_timestamp = s.next_timestamp
      /\ f_conf = s.conf /\ f_sps_pps_write = s.sps_pps_write
      /\ f_next_prev_pat_pmt_output = s.due /\ f_count = s.count /\ ts_seq = s.seq /\ out = s.out
  BY DEF FInv
<1>2. F!tag = t BY DEF F!tag
<1>3. F!Opens <=> Opens(s, t)
  <2>1. F!Due(t, s.next_timestamp) <=> Due(t, s.next_timestamp) BY SharedF
  <2> QED BY <1>1, <1>2, <2>1 DEF F!Opens, Opens
<1>4. F!NextSeq = SeqAt(s, t) BY <1>1, <1>3 DEF F!NextSeq, SeqAt
<1>5. F!SetsWritten = WrittenAt(s, t)
  BY <1>1, <1>3 DEF F!SetsWritten, WrittenAt
<1>6. F!ForcedTables = ForcedAt(s, t) BY <1>1, <1>3 DEF F!ForcedTables, ForcedAt
<1>7. F!TablesDue <=> TablesAt(s, t) BY <1>1, <1>6 DEF F!TablesDue, TablesAt
<1>8. F!Count = CountAt(s, t) BY <1>1, <1>7 DEF F!Count, CountAt
<1>9. F!Opened = OutAt(s, t, f_pos)
  <2>1. F!TablesUnit(f_pos) = TablesUnit(f_pos) BY SharedF
  <2> QED BY <1>1, <1>4, <1>7, <2>1 DEF F!Opened, F!Kept, F!Written, OutAt
<1>10. F!SetsNow = SetsAt(s, t)
  <2>1. F!ParameterSets(s.conf) = ParameterSets(s.conf) BY SharedF
  <2>2. f_conf = s.conf BY <1>1
  <2>3. F!SetsNow = IF F!SetsWritten THEN <<>> ELSE F!ParameterSets(s.conf) BY <2>2 DEF F!SetsNow
  <2> QED BY <1>5, <2>1, <2>3 DEF SetsAt
<1>11. ASSUME F!Prologue
       PROVE  /\ f_switched' = FALSE /\ f_next_timestamp' = NextTime(s, t)
              /\ f_next_prev_pat_pmt_output' = DueAt(s, t)
              /\ ts_seq' = SeqAt(s, t) /\ flv' = flv
  <2>1. F!NextTimestamp(t.timestamp) = NextTimestamp(t.timestamp) BY SharedF
  <2>2. f_next_timestamp' = NextTime(s, t)
    BY <1>1, <1>2, <1>3, <1>11, <2>1 DEF F!Prologue, NextTime
  <2>3. f_next_prev_pat_pmt_output' = DueAt(s, t)
    BY <1>6, <1>7, <1>8, <1>11 DEF F!Prologue, DueAt
  <2> QED BY <1>4, <1>11, <2>2, <2>3 DEF F!Prologue
<1> QED BY <1>2, <1>4, <1>5, <1>8, <1>9, <1>10, <1>11 DEF FTurnSpec

\* On to the next tag, and out of the loop.
LEMMA FGoesOn ==
  ASSUME flv \in Files, FInv, f_status = "running", f_status' = "running", flv' = flv,
         Goes(flv, f_pos), f_pos' = f_pos + 1, NEW v,
         v = TurnOf(Loop(flv)[f_pos], flv.tags[f_pos], f_pos),
         f_switched' = v.switched, f_next_timestamp' = v.next_timestamp,
         f_conf' = v.conf, f_sps_pps_write' = v.sps_pps_write,
         f_next_prev_pat_pmt_output' = v.due, f_counter' = v.counter,
         f_count' = v.count, ts_seq' = v.seq, out' = v.out
  PROVE  FInv'
<1>1. flv \in File BY FileFacts
<1>2. f_pos \in 1..Stop(flv) BY DEF FInv
<1>3. f_pos + 1 \in 1..Stop(flv) /\ TagAt(flv, f_pos) BY <1>1, <1>2, AtPosition
<1>4. Loop(flv)[f_pos+1] = v BY <1>1, <1>2, <1>3, AtPosition
<1> QED BY <1>3, <1>4 DEF FInv

LEMMA FHalts ==
  ASSUME flv \in Files, FInv, f_status = "running", f_status' \in {"done", "failed", "undefined"},
         flv' = flv, ~Goes(flv, f_pos),
         IF TagAt(flv, f_pos)
           THEN /\ ts_seq' = SeqAt(Loop(flv)[f_pos], flv.tags[f_pos])
                /\ out' = OutAt(Loop(flv)[f_pos], flv.tags[f_pos], f_pos)
           ELSE ts_seq' = ts_seq /\ out' = out
  PROVE  FInv'
<1>1. flv \in File BY FileFacts
<1>2. f_pos \in 1..Stop(flv) /\ ts_seq = Loop(flv)[f_pos].seq /\ out = Loop(flv)[f_pos].out
  BY DEF FInv
<1>3. f_pos = Stop(flv) BY <1>1, <1>2, AtPosition
<1>4. ts_seq' = LastSeq(flv) /\ out' = LastOut(flv)
  <2>1. CASE TagAt(flv, f_pos) BY <1>3, <2>1 DEF LastSeq, LastOut
  <2>2. CASE ~TagAt(flv, f_pos) BY <1>2, <1>3, <2>2 DEF LastSeq, LastOut
  <2> QED BY <2>1, <2>2
<1> QED BY <1>4 DEF FInv

LEMMA FStep ==
  ASSUME flv \in Files, FInv, F!Next, ~F!OpenError
  PROVE  FInv' /\ flv' = flv /\ f_status = "running"
<1>s. PICK s : s = Loop(flv)[f_pos] OBVIOUS
<1>t. PICK t : t = flv.tags[f_pos] OBVIOUS
<1>v. PICK v : v = TurnOf(s, t, f_pos) OBVIOUS
<1>1. flv \in File BY FileFacts
<1>2. f_status = "running" =>
        /\ f_conf = s.conf /\ f_counter = s.counter /\ f_pos \in 1..Stop(flv)
  BY <1>s DEF FInv
<1>3. f_pos \in 1..Stop(flv) /\ TagAt(flv, f_pos) => LoopOk(s) /\ t \in TagType /\ f_pos \in Nat
  BY <1>1, <1>s, <1>t, AtPosition
<1>4. ASSUME NEW K, F!Running(K)
      PROVE  f_status = "running" /\ TagAt(flv, f_pos) /\ t.kind \in K /\ LoopOk(s) /\ t \in TagType
             /\ f_pos \in Nat
  <2>1. f_status = "running" /\ F!TagAt(flv, f_pos) /\ F!tag.kind \in K
    BY <1>4 DEF F!Running
  <2>2. TagAt(flv, f_pos) BY <2>1, SharedF
  <2> QED BY <1>2, <1>3, <1>t, <2>1, <2>2 DEF F!tag
<1>5. f_status = "running" /\ TagAt(flv, f_pos) => FTurnSpec(s, t)
  BY <1>s, <1>t, FTurn
<1>6. v = TurnOf(Loop(flv)[f_pos], flv.tags[f_pos], f_pos) /\ v = TurnOf(s, t, f_pos)
      /\ s = Loop(flv)[f_pos] /\ t = flv.tags[f_pos]
  BY <1>s, <1>t, <1>v
<1>15. LoopOk(s) /\ t \in TagType => TurnSpec(s, t, f_pos, v)
  BY <1>v, TurnFields
<1> USE DEF FTurnSpec
<1>7. CASE F!ParseError
  <2>1. /\ f_status = "running" /\ F!ParseFails(flv, f_pos) /\ f_status' = "failed"
        /\ flv' = flv /\ ts_seq' = ts_seq /\ out' = out
    BY <1>7 DEF F!ParseError, F!loop
  <2>2. ParseFails(flv, f_pos) BY <2>1, SharedF
  <2>3. ~TagAt(flv, f_pos) /\ ~Goes(flv, f_pos)
    BY <1>1, <2>2, FileFacts DEF ParseFails, TagAt, Goes
  <2> QED BY <2>1, <2>3, FHalts
<1>8. CASE F!Eos
  <2>1. /\ f_status = "running" /\ F!EosAfter(flv, f_pos) /\ f_status' = "done"
        /\ flv' = flv /\ ts_seq' = ts_seq /\ out' = out
    BY <1>8 DEF F!Eos, F!loop
  <2>2. EosAfter(flv, f_pos) BY <2>1, SharedF
  <2>3. ~TagAt(flv, f_pos) /\ ~Goes(flv, f_pos)
    BY <2>2 DEF TagAt, Goes
  <2> QED BY <2>1, <2>3, FHalts
<1>9. CASE F!Skip
  <2>1. /\ F!Running(F!SkippedKinds) /\ F!Prologue /\ F!NoPayload /\ f_pos' = f_pos + 1
        /\ f_sps_pps_write' = F!SetsWritten /\ f_status' = f_status /\ f_conf' = f_conf
    BY <1>9 DEF F!Skip
  <2>2. f_status = "running" /\ TagAt(flv, f_pos) /\ t.kind \in SkippedKinds /\ LoopOk(s) /\ t \in TagType
    BY <1>4, <2>1 DEF F!SkippedKinds, SkippedKinds
  <2>3. out' = F!Opened /\ f_count' = F!Count /\ f_counter' = f_counter
    BY <2>1 DEF F!NoPayload
  <2>4. t.kind \notin MediaKinds /\ t.kind # "avc_config" /\ t.kind # "nalu" /\ t.kind \notin UnsupportedKinds
    BY <2>2 DEF SkippedKinds, MediaKinds, UnsupportedKinds
  <2>5. Goes(flv, f_pos) BY <1>6, <2>2, <2>4 DEF Goes
  <2>6. /\ v.switched = FALSE /\ v.next_timestamp = NextTime(s, t) /\ v.due = DueAt(s, t)
        /\ v.seq = SeqAt(s, t) /\ v.conf = s.conf
        /\ v.counter = s.counter /\ v.count = CountAt(s, t) /\ v.out = OutAt(s, t, f_pos)
        /\ v.sps_pps_write = WrittenAt(s, t)
    BY <1>15, <2>2, <2>4 DEF TurnSpec
  <2> QED BY <1>2, <1>5, <1>6, <2>1, <2>2, <2>3, <2>5, <2>6, FGoesOn
<1>10. CASE F!Unsupported
  <2>1. /\ F!Running(F!UnsupportedKinds \cup {"nalu"}) /\ F!Prologue /\ F!NoPayload
        /\ F!tag.kind = "nalu" => f_conf.width # 0 /\ ~F!Fits(F!tag, f_conf.width)
        /\ f_status' = "failed"
    BY <1>10 DEF F!Unsupported
  <2>2. f_status = "running" /\ TagAt(flv, f_pos) /\ t.kind \in UnsupportedKinds \cup {"nalu"}
    BY <1>4, <2>1 DEF F!UnsupportedKinds, UnsupportedKinds
  <2>3. out' = F!Opened BY <2>1 DEF F!NoPayload
  <2>4. ~Goes(flv, f_pos)
    <3>1. t.kind = "nalu" => ~F!Fits(t, s.conf.width) BY <1>2, <1>5, <2>1, <2>2
    <3>2. F!Fits(t, s.conf.width) <=> Fits(t, s.conf.width) BY SharedF
    <3>3. t.kind \in UnsupportedKinds \/ t.kind = "nalu" BY <2>2
    <3> QED BY <1>6, <3>1, <3>2, <3>3 DEF Goes
  <2> QED BY <1>5, <1>6, <2>1, <2>2, <2>3, <2>4, FHalts
<1>11. CASE F!Audio
  <2>1. /\ F!Running({"aac"}) /\ F!Prologue /\ f_pos' = f_pos + 1
        /\ F!Payload("audio", F!AudioUnit(f_pos, F!tag, f_counter), F!AudioPackets(F!tag))
        /\ f_sps_pps_write' = F!SetsWritten /\ f_status' = f_status /\ f_conf' = f_conf
    BY <1>11 DEF F!Audio
  <2>2. f_status = "running" /\ TagAt(flv, f_pos) /\ t.kind = "aac" /\ LoopOk(s) /\ t \in TagType
    BY <1>4, <2>1
  <2>3. F!AudioUnit(f_pos, t, s.counter) = AudioUnit(f_pos, t, s.counter) /\ F!AudioPackets(t) = AudioPackets(t)
    BY SharedF
  <2>4. /\ out' = Append(F!Opened, F!Written(AudioUnit(f_pos, t, s.counter), F!Count))
        /\ f_counter' = Added(s.counter, "audio", AudioPackets(t))
        /\ f_count' = F!Count + AudioPackets(t)
    BY <1>2, <1>5, <2>1, <2>2, <2>3 DEF F!Payload, Added
  <2>5. out' = Append(OutAt(s, t, f_pos), [file |-> SeqAt(s, t) - 1, at |-> CountAt(s, t),
                                           unit |-> AudioUnit(f_pos, t, s.counter)])
    BY <1>5, <2>2, <2>4 DEF F!Written
  <2>6. Goes(flv, f_pos) BY <1>6, <2>2 DEF Goes, UnsupportedKinds
  <2>7. /\ v.switched = FALSE /\ v.next_timestamp = NextTime(s, t) /\ v.due = DueAt(s, t)
        /\ v.seq = SeqAt(s, t) /\ v.conf = s.conf
        /\ v.counter = f_counter' /\ v.count = CountAt(s, t) + AudioPackets(t) /\ v.out = out'
        /\ v.sps_pps_write = WrittenAt(s, t)
    BY <1>15, <2>2, <2>4, <2>5 DEF TurnSpec
  <2> QED BY <1>2, <1>5, <1>6, <2>1, <2>2, <2>4, <2>6, <2>7, FGoesOn
<1>12. CASE F!SequenceHeader
  <2>1. /\ F!Running({"avc_config"}) /\ F!Prologue /\ F!NoPayload /\ f_pos' = f_pos + 1
        /\ f_conf' = F!ParseConf(f_conf, F!tag.header)
        /\ f_sps_pps_write' = F!SetsWritten /\ f_status' = f_status
    BY <1>12 DEF F!SequenceHeader
  <2>2. f_status = "running" /\ TagAt(flv, f_pos) /\ t.kind = "avc_config" /\ LoopOk(s) /\ t \in TagType
    BY <1>4, <2>1
  <2>3. out' = F!Opened /\ f_count' = F!Count /\ f_counter' = f_counter
    BY <2>1 DEF F!NoPayload
  <2>4. F!ParseConf(s.conf, t.header) = ParseConf(s.conf, t.header) BY SharedF
  <2>5. Goes(flv, f_pos) BY <1>6, <2>2 DEF Goes, UnsupportedKinds
  <2>6. t.kind \notin MediaKinds BY <2>2 DEF MediaKinds
  <2>7. /\ v.switched = FALSE /\ v.next_timestamp = NextTime(s, t) /\ v.due = DueAt(s, t)
        /\ v.seq = SeqAt(s, t) /\ v.conf = ParseConf(s.conf, t.header)
        /\ v.counter = s.counter /\ v.count = CountAt(s, t) /\ v.out = OutAt(s, t, f_pos)
        /\ v.sps_pps_write = WrittenAt(s, t)
    BY <1>15, <2>2, <2>6 DEF TurnSpec
  <2> QED BY <1>2, <1>5, <1>6, <2>1, <2>2, <2>3, <2>4, <2>5, <2>7, FGoesOn
<1>13. CASE F!Video
  <2>1. /\ F!Running({"nalu"}) /\ F!Fits(F!tag, f_conf.width) /\ F!Prologue /\ f_pos' = f_pos + 1
        /\ F!Payload("video", F!VideoUnit(f_pos, F!tag, f_counter, F!SetsNow, f_conf.width),
                     F!VideoPackets(F!tag, F!SetsNow, f_conf.width))
        /\ f_sps_pps_write' = TRUE /\ f_status' = f_status /\ f_conf' = f_conf
    BY <1>13 DEF F!Video
  <2>2. f_status = "running" /\ TagAt(flv, f_pos) /\ t.kind = "nalu" /\ LoopOk(s) /\ t \in TagType
    BY <1>4, <2>1
  <2> DEFINE sets == SetsAt(s, t)
             w == s.conf.width
  <2>3. F!SetsNow = sets BY <1>5, <2>2
  <2> HIDE DEF sets
  <2>4. F!VideoUnit(f_pos, t, s.counter, sets, w) = VideoUnit(f_pos, t, s.counter, sets, w)
        /\ F!VideoPackets(t, sets, w) = VideoPackets(t, sets, w)
    BY SharedF
  <2>5. /\ out' = Append(F!Opened, F!Written(VideoUnit(f_pos, t, s.counter, sets, w), F!Count))
        /\ f_counter' = Added(s.counter, "video", VideoPackets(t, sets, w))
        /\ f_count' = F!Count + VideoPackets(t, sets, w)
    BY <1>2, <1>5, <2>1, <2>2, <2>3, <2>4 DEF F!Payload, Added
  <2>6. out' = Append(OutAt(s, t, f_pos), [file |-> SeqAt(s, t) - 1, at |-> CountAt(s, t),
                                           unit |-> VideoUnit(f_pos, t, s.counter, sets, w)])
    BY <1>5, <2>2, <2>5 DEF F!Written
  <2>7. Goes(flv, f_pos)
    <3>1. F!Fits(t, s.conf.width) BY <1>2, <1>5, <2>1, <2>2
    <3>2. Fits(t, s.conf.width) BY <3>1, SharedF
    <3> QED BY <1>6, <2>2, <3>2 DEF Goes, UnsupportedKinds
  <2>8. /\ v.switched = FALSE /\ v.next_timestamp = NextTime(s, t) /\ v.due = DueAt(s, t)
        /\ v.seq = SeqAt(s, t) /\ v.conf = s.conf
        /\ v.counter = f_counter' /\ v.count = CountAt(s, t) + VideoPackets(t, sets, w) /\ v.out = out'
        /\ v.sps_pps_write = TRUE
    BY <1>15, <2>2, <2>5, <2>6 DEF TurnSpec, sets, w
  <2> QED BY <1>2, <1>5, <1>6, <2>1, <2>2, <2>5, <2>7, <2>8, FGoesOn
<1>14. CASE F!VideoWithoutConf
  <2>1. /\ F!Running({"nalu"}) /\ f_conf.width = 0 /\ F!Prologue /\ F!NoPayload
        /\ f_status' = "undefined"
    BY <1>14 DEF F!VideoWithoutConf
  <2>2. f_status = "running" /\ TagAt(flv, f_pos) /\ t.kind = "nalu"
    BY <1>4, <2>1
  <2>3. out' = F!Opened BY <2>1 DEF F!NoPayload
  <2>4. ~Goes(flv, f_pos)
    <3>1. s.conf.width = 0 BY <1>2, <2>1, <2>2
    <3>2. ~Fits(t, s.conf.width) BY <3>1 DEF Fits
    <3> QED BY <1>6, <2>2, <3>2 DEF Goes
  <2> QED BY <1>5, <1>6, <2>1, <2>2, <2>3, <2>4, FHalts
<1> QED BY <1>7, <1>8, <1>9, <1>10, <1>11, <1>12, <1>13, <1>14 DEF F!Next

----------------------------------------------------------------------------
(* build-hls-index follows it too.                                         *)

LEMMA HeaderThere ==
  ASSUME NEW h \in Header
  PROVE  h # NoHeader
<1>1. h.width \in 1..4 /\ NoHeader.width = 0 BY DEF Header, NoHeader
<1> QED BY <1>1

LEMMA BFacts ==
  ASSUME flv \in Files, BInv, b_pc \in {"start", "ts_idx", "parse", "tag", "conf", "endlist", "close", "done"}
  PROVE  /\ BLoop /\ b_pos \in 1..Stop(flv) /\ b_pos \in 1..Len(flv.tags)+1 /\ BTypes
<1>1. flv \in File /\ BLoop /\ b_pos \in 1..Stop(flv) BY FileFacts DEF BInv, BLoop
<1>2. PICK s : s = Loop(flv)[b_pos] OBVIOUS
<1>3. LoopOk(s) /\ b_pos \in 1..Len(flv.tags)+1 /\ b_pos \in Nat BY <1>1, <1>2, AtPosition
<1>4. /\ s.switched \in BOOLEAN /\ s.next_timestamp \in 0..TimeMod-1
      /\ s.sps_pps_write \in BOOLEAN /\ s.counter \in [Streams -> Nat]
  BY <1>3, LoopStateFields
<1>5. BTypes
  <2>1. CASE b_pc \notin {"tag", "conf"}
    BY <1>1, <1>2, <1>3, <1>4, <2>1 DEF BLoop, BTypes
  <2>2. CASE b_pc \in {"tag", "conf"}
    <3>1. PICK t : t = flv.tags[b_pos] OBVIOUS
    <3>2. /\ TagAt(flv, b_pos) /\ b_switched = FALSE /\ b_next_timestamp = NextTime(s, t)
          /\ b_sps_pps_write = WrittenAt(s, t) /\ b_counter = s.counter
      BY <1>1, <1>2, <2>2, <3>1 DEF BLoop
    <3>3. t \in TagType BY <1>1, <3>1, <3>2, AtPosition
    <3>4. NextTime(s, t) \in 0..TimeMod-1 /\ WrittenAt(s, t) \in BOOLEAN
      BY <1>3, <3>3, PrologueTypes
    <3> QED BY <1>3, <1>4, <3>2, <3>4 DEF BTypes
  <2> QED BY <2>1, <2>2
<1> QED BY <1>1, <1>3, <1>5

\* Its files, when it writes nothing, and when it writes an entry.
LEMMA FilesKept ==
  ASSUME FilesInv, flv' = flv, ts_index' = ts_index, m3u8' = m3u8, avc_conf' = avc_conf,
         flushed' \in 0..Len(ts_index)
  PROVE  FilesInv'
BY DEF FilesInv, IsEntry

LEMMA EntryWritten ==
  ASSUME flv \in Files, BInv, b_pc = "parse", flv' = flv,
         EosAfter(flv, b_pos) \/ (TagAt(flv, b_pos) /\ Opens(Loop(flv)[b_pos], flv.tags[b_pos])),
         ts_index' = Append(ts_index, B!Entry(b_pos)), flushed' \in flushed..Len(ts_index'),
         m3u8' \in 0..LastSeq(flv), avc_conf' = avc_conf
  PROVE  FilesInv' /\ Len(ts_index') = Len(ts_index) + 1
<1> DEFINE E == [pos: 1..Len(flv.tags)+1, audio: 0..15, video: 0..15]
           e == B!Entry(b_pos)
<1>1. /\ flv \in File /\ b_pos \in 1..Stop(flv) /\ b_pos \in 1..Len(flv.tags)+1
      /\ b_counter \in [Streams -> Nat]
  BY BFacts, FileFacts DEF BTypes
<1>2. Len(ts_index) = Loop(flv)[b_pos].seq /\ b_counter = Loop(flv)[b_pos].counter
  BY BFacts DEF BLoop
<1>3. /\ ts_index \in Seq(E) /\ flushed \in 0..Len(ts_index)
      /\ \A k \in 1..Len(ts_index) : IsEntry(k - 1, ts_index[k])
      /\ avc_conf = NoHeader \/ \E q \in Headers(flv) : avc_conf = flv.tags[q].header
  BY DEF BInv, FilesInv
<1>4. /\ e.pos = b_pos /\ e.audio = b_counter["audio"] % 16
      /\ e.video = b_counter["video"] % 16
  BY DEF B!Entry
<1>5. e \in E
  <2>1. b_counter["audio"] \in Nat /\ b_counter["video"] \in Nat BY <1>1 DEF Streams
  <2>2. \A n \in Nat : n % 16 \in 0..15 OBVIOUS
  <2> QED BY <1>1, <2>1, <2>2 DEF B!Entry
<1>6. IsEntry(Len(ts_index), e)
  BY <1>1, <1>2, <1>4 DEF IsEntry, Begins
<1> HIDE DEF E, e
<1>7. /\ Append(ts_index, e) \in Seq(E) /\ Len(ts_index) \in Nat
      /\ Len(Append(ts_index, e)) = Len(ts_index) + 1
      /\ Append(ts_index, e)[Len(ts_index)+1] = e
      /\ \A k \in 1..Len(ts_index) : Append(ts_index, e)[k] = ts_index[k]
  BY <1>3, <1>5
<1>8. ts_index' = Append(ts_index, e) BY DEF e
<1>9. \A k \in 1..Len(ts_index') : IsEntry(k - 1, ts_index'[k])
  <2> SUFFICES ASSUME NEW k \in 1..Len(ts_index)+1 PROVE IsEntry(k - 1, Append(ts_index, e)[k])
    BY <1>7, <1>8
  <2>1. CASE k = Len(ts_index) + 1
    <3>1. k - 1 = Len(ts_index) BY <1>7, <2>1
    <3> QED BY <1>6, <1>7, <2>1, <3>1
  <2>2. CASE k # Len(ts_index) + 1
    <3>1. k \in 1..Len(ts_index) BY <1>7, <2>2
    <3> QED BY <1>3, <1>7, <3>1
  <2> QED BY <2>1, <2>2
<1>10. \A n, x : IsEntry(n, x)' <=> IsEntry(n, x)
  BY DEF IsEntry
<1>11. (\A k \in 1..Len(ts_index) : IsEntry(k - 1, ts_index[k]))'
  BY <1>9 DEF IsEntry
<1>12. ts_index' \in Seq(E) /\ flushed' \in 0..Len(ts_index')
  BY <1>3, <1>7, <1>8
<1>13. (avc_conf = NoHeader \/ \E q \in Headers(flv) : avc_conf = flv.tags[q].header)'
  BY <1>3
<1> QED BY <1>7, <1>8, <1>11, <1>12, <1>13 DEF FilesInv, E

\* On to the next tag.
LEMMA BGoesOn ==
  ASSUME flv \in Files, BInv, b_pc \in {"tag", "conf"}, b_pc' = "parse", flv' = flv,
         b_pos' = b_pos + 1, Goes(flv, b_pos), FilesInv',
         NEW v, v = TurnOf(Loop(flv)[b_pos], flv.tags[b_pos], b_pos),
         b_switched' = v.switched, b_next_timestamp' = v.next_timestamp, b_conf' = v.conf,
         b_sps_pps_write' = v.sps_pps_write, b_counter' = v.counter,
         UNCHANGED <<ts_index, m3u8, endlist, restarts>>,
         flv.tags[b_pos].kind = "avc_config" \/ b_pc = "tag",
         (avc_conf # NoHeader /\ b_pc = "tag" => avc_conf' = avc_conf),
         (flv.tags[b_pos].kind = "avc_config" => avc_conf' # NoHeader)
  PROVE  BInv'
<1>1. flv \in File /\ BLoop /\ b_pos \in 1..Stop(flv) BY BFacts, FileFacts
<1>2. b_pos + 1 \in 1..Stop(flv) /\ TagAt(flv, b_pos) BY <1>1, AtPosition
<1>3. Loop(flv)[b_pos+1] = v BY <1>1, <1>2, AtPosition
<1>4. v.seq = SeqAt(Loop(flv)[b_pos], flv.tags[b_pos]) BY DEF TurnOf
<1>5. Len(ts_index) = v.seq /\ m3u8 = v.seq BY <1>1, <1>4 DEF BLoop
<1>6. (\E q \in Headers(flv) : q < b_pos + 1) => avc_conf' # NoHeader
  <2>1. CASE flv.tags[b_pos].kind = "avc_config" BY <2>1
  <2>2. CASE flv.tags[b_pos].kind # "avc_config"
    <3> SUFFICES ASSUME NEW q \in Headers(flv), q < b_pos + 1 PROVE avc_conf' # NoHeader
      OBVIOUS
    <3>1. q # b_pos BY <2>2 DEF Headers
    <3>2. q < b_pos BY <1>1, <3>1, AtPosition DEF Headers
    <3>3. avc_conf # NoHeader /\ b_pc = "tag" BY <1>1, <2>2, <3>2 DEF BLoop
    <3> QED BY <3>3
  <2> QED BY <2>1, <2>2
<1>7. BLoop'
  BY <1>2, <1>3, <1>5, <1>6 DEF BLoop
<1> QED BY <1>7 DEF BInv

\* Out of the loop.
LEMMA BHalts ==
  ASSUME BInv, FilesInv', flv' = flv, b_pc' \in {"failed", "killed", "undefined"}, BTypes',
         endlist' = endlist, restarts' = restarts
  PROVE  BInv'
BY DEF BInv

LEMMA WorkBefore ==
  ASSUME flv \in Files, BInv, restarts' = restarts, B!OpenPlaylist \/ B!OpenIndex
  PROVE  BInv' /\ flv' = flv
<1>0. flv \in File BY FileFacts
<1>1. CASE B!OpenPlaylist
  <2>1. /\ b_pc = "start" /\ m3u8' = 0 /\ endlist' = FALSE /\ b_pc' = "ts_idx"
        /\ UNCHANGED <<flv, b_pos, b_switched, b_next_timestamp, b_conf, b_sps_pps_write,
                       b_counter, ts_index, flushed, avc_conf>>
    BY <1>1 DEF B!OpenPlaylist, B!loop
  <2>2. BLoop /\ b_pos \in 1..Stop(flv) BY <2>1, BFacts
  <2>3. BLoop' BY <2>1, <2>2 DEF BLoop
  <2>4. 0 \in 0..LastSeq(flv) BY <1>0, <2>2, LastFacts
  <2>5. FilesInv' BY <2>1, <2>4 DEF BInv, FilesInv, IsEntry
  <2> QED BY <2>1, <2>3, <2>5 DEF BInv
<1>2. CASE B!OpenIndex
  <2>1. /\ b_pc = "ts_idx" /\ flushed' = 0 /\ ts_index' = SubSeq(ts_index, 1, 0)
        /\ b_pc' = "parse"
        /\ UNCHANGED <<flv, b_pos, b_switched, b_next_timestamp, b_conf, b_sps_pps_write,
                       b_counter, m3u8, endlist, avc_conf>>
    BY <1>2 DEF B!OpenIndex, B!loop, B!Truncated
  <2>2. BLoop /\ b_pos \in 1..Stop(flv) /\ b_pos = 1 /\ m3u8 = 0 BY <2>1, BFacts DEF BLoop
  <2>3. ts_index' = <<>> /\ Len(ts_index') = 0 BY <2>1
  <2>4. Loop(flv)[b_pos].seq = 0 BY <1>0, <2>2, LoopSteps DEF LoopStart
  <2>5. ~ \E q \in Headers(flv) : q < b_pos BY <2>2, FileFacts DEF Headers
  <2>6. BLoop' BY <2>1, <2>2, <2>3, <2>4, <2>5 DEF BLoop
  <2>7. FilesInv'
    <3>1. \A S : <<>> \in Seq(S) OBVIOUS
    <3> QED BY <2>1, <2>3, <3>1 DEF BInv, FilesInv
  <2> QED BY <2>1, <2>6, <2>7 DEF BInv
<1> QED BY <1>1, <1>2

LEMMA WorkAfter ==
  ASSUME flv \in Files, BInv, restarts' = restarts,
         B!ParseError \/ B!Eos \/ B!EndList \/ B!Close
  PROVE  BInv' /\ flv' = flv
<1>0. flv \in File /\ (Len(ts_index) \in Nat /\ flushed \in 0..Len(ts_index))
  BY FileFacts DEF BInv, FilesInv
<1>1. CASE B!ParseError
  <2>1. /\ b_pc = "parse" /\ b_pc' = "failed" /\ flushed' = Len(ts_index)
        /\ UNCHANGED <<flv, b_pos, b_switched, b_next_timestamp, b_conf, b_sps_pps_write,
                       b_counter, ts_index, m3u8, endlist, avc_conf>>
    BY <1>1 DEF B!ParseError, B!loop, B!Return
  <2>2. BTypes' BY <2>1, BFacts DEF BTypes
  <2>3. FilesInv' BY <1>0, <2>1, FilesKept DEF BInv
  <2> QED BY <2>1, <2>2, <2>3, BHalts
<1>2. CASE B!Eos
  <2>1. /\ b_pc = "parse" /\ B!EosAfter(flv, b_pos) /\ b_pc' = "endlist"
        /\ ts_index' = Append(ts_index, B!Entry(b_pos)) /\ flushed' \in flushed..Len(ts_index')
        /\ UNCHANGED <<flv, b_pos, b_switched, b_next_timestamp, b_conf, b_sps_pps_write,
                       b_counter, m3u8, endlist, avc_conf>>
    BY <1>2 DEF B!Eos, B!loop
  <2>2. EosAfter(flv, b_pos) BY <2>1, SharedB
  <2>3. m3u8' \in 0..LastSeq(flv) BY <2>1 DEF BInv, FilesInv
  <2>4. FilesInv' /\ Len(ts_index') = Len(ts_index) + 1 BY <2>1, <2>2, <2>3, EntryWritten
  <2>5. BLoop' BY <2>1, <2>2, <2>4, BFacts DEF BLoop
  <2> QED BY <2>1, <2>4, <2>5 DEF BInv
<1>3. CASE B!EndList
  <2>1. /\ b_pc = "endlist" /\ endlist' = TRUE /\ b_pc' = "close"
        /\ UNCHANGED <<flv, b_pos, b_switched, b_next_timestamp, b_conf, b_sps_pps_write,
                       b_counter, ts_index, flushed, m3u8, avc_conf>>
    BY <1>3 DEF B!EndList, B!loop
  <2>2. FilesInv' BY <1>0, <2>1, FilesKept DEF BInv
  <2>3. BLoop' BY <2>1, BFacts DEF BLoop
  <2> QED BY <2>1, <2>2, <2>3 DEF BInv
<1>4. CASE B!Close
  <2>1. /\ b_pc = "close" /\ b_pc' = "done" /\ flushed' = Len(ts_index)
        /\ UNCHANGED <<flv, b_pos, b_switched, b_next_timestamp, b_conf, b_sps_pps_write,
                       b_counter, ts_index, m3u8, endlist, avc_conf>>
    BY <1>4 DEF B!Close, B!loop, B!Return
  <2>2. FilesInv' BY <1>0, <2>1, FilesKept DEF BInv
  <2>3. BLoop' BY <2>1, BFacts DEF BLoop
  <2> QED BY <2>1, <2>2, <2>3 DEF BInv
<1> QED BY <1>1, <1>2, <1>3, <1>4

\* A segment is cut, or not.
LEMMA WorkCut ==
  ASSUME flv \in Files, BInv, restarts' = restarts, B!Cut \/ B!NoCut
  PROVE  BInv' /\ flv' = flv
<1>0. flv \in File /\ (Len(ts_index) \in Nat /\ flushed \in 0..Len(ts_index))
  BY FileFacts DEF BInv, FilesInv
<1>1. PICK s : s = Loop(flv)[b_pos] OBVIOUS
<1>2. PICK t : t = flv.tags[b_pos] OBVIOUS
<1>3. b_pc = "parse" /\ B!TagAt(flv, b_pos) BY DEF B!Cut, B!NoCut, B!At
<1>4. TagAt(flv, b_pos) /\ BLoop /\ b_pos \in 1..Stop(flv) BY <1>3, SharedB, BFacts
<1>5. LoopOk(s) /\ t \in TagType BY <1>0, <1>1, <1>2, <1>4, AtPosition
<1>6. /\ b_switched = s.switched /\ b_next_timestamp = s.next_timestamp
      /\ b_conf = s.conf /\ b_sps_pps_write = s.sps_pps_write /\ b_counter = s.counter
      /\ Len(ts_index) = s.seq /\ m3u8 = s.seq
      /\ (\E q \in Headers(flv) : q < b_pos) => avc_conf # NoHeader
  BY <1>1, <1>3, <1>4 DEF BLoop
<1>7. B!Opens <=> Opens(s, t)
  <2>1. B!Due(t, s.next_timestamp) <=> Due(t, s.next_timestamp) BY SharedB
  <2> QED BY <1>2, <1>6, <2>1 DEF B!Opens, B!tag, Opens
<1>8. CASE B!Cut
  <2>1. /\ ts_index' = Append(ts_index, B!Entry(b_pos)) /\ flushed' \in flushed..Len(ts_index')
        /\ m3u8' = m3u8 + 1 /\ b_sps_pps_write' = FALSE /\ b_switched' = FALSE
        /\ b_next_timestamp' = B!NextTimestamp(B!tag.timestamp) /\ b_pc' = "tag"
        /\ UNCHANGED <<flv, b_pos, b_conf, b_counter, endlist, avc_conf>>
        /\ Opens(s, t)
    BY <1>7, <1>8 DEF B!Cut, B!CutPosition
  <2>2. SeqAt(s, t) = s.seq + 1 /\ s.seq \in Nat
    <3>1. 0 \in Nat OBVIOUS
    <3> QED BY <1>5, <2>1, <3>1, PrologueTypes, LoopStateFields
  <2>3. m3u8' = SeqAt(s, t) /\ m3u8' \in 0..LastSeq(flv)
    BY <1>0, <1>1, <1>2, <1>4, <1>6, <2>1, <2>2, LastFacts
  <2>4. FilesInv' /\ Len(ts_index') = Len(ts_index) + 1
    BY <1>1, <1>2, <1>3, <1>4, <2>1, <2>3, EntryWritten
  <2>5. b_next_timestamp' = NextTime(s, t)
    <3>1. B!NextTimestamp(t.timestamp) = NextTimestamp(t.timestamp) BY SharedB
    <3> QED BY <1>2, <2>1, <3>1 DEF NextTime, B!tag
  <2>6. WrittenAt(s, t) = FALSE BY <2>1 DEF WrittenAt
  <2>7. BLoop'
    BY <1>1, <1>2, <1>4, <1>6, <2>1, <2>2, <2>3, <2>4, <2>5, <2>6 DEF BLoop
  <2> QED BY <2>1, <2>4, <2>7 DEF BInv
<1>9. CASE B!NoCut
  <2>1. /\ b_pc' = "tag" /\ ~Opens(s, t)
        /\ UNCHANGED <<flv, b_pos, b_switched, b_next_timestamp, b_conf, b_sps_pps_write,
                       b_counter, ts_index, flushed, m3u8, endlist, avc_conf>>
    BY <1>7, <1>9 DEF B!NoCut, B!loop, B!files
  <2>2. SeqAt(s, t) = s.seq /\ NextTime(s, t) = s.next_timestamp /\ WrittenAt(s, t) = s.sps_pps_write
    BY <2>1 DEF SeqAt, NextTime, WrittenAt
  <2>3. s.switched = FALSE
    BY <1>5, <2>1, LoopStateFields DEF Opens
  <2>4. FilesInv' BY <1>0, <2>1, FilesKept DEF BInv
  <2>5. BLoop'
    BY <1>1, <1>2, <1>4, <1>6, <2>1, <2>2, <2>3 DEF BLoop
  <2> QED BY <2>1, <2>4, <2>5 DEF BInv
<1> QED BY <1>8, <1>9

\* The rest of a turn, behind the cut.
LEMMA WorkTag ==
  ASSUME flv \in Files, BInv, restarts' = restarts,
         B!Skip \/ B!Audio \/ B!Video \/ B!SequenceHeader \/ B!WriteConf
  PROVE  BInv' /\ flv' = flv
<1>0. flv \in File /\ (Len(ts_index) \in Nat /\ flushed \in 0..Len(ts_index))
  BY FileFacts DEF BInv, FilesInv
<1>s. PICK s : s = Loop(flv)[b_pos] OBVIOUS
<1>t. PICK t : t = flv.tags[b_pos] OBVIOUS
<1>v. PICK v : v = TurnOf(s, t, b_pos) OBVIOUS
<1>1. b_pc \in {"tag", "conf"}
  BY DEF B!Skip, B!Audio, B!Video, B!SequenceHeader, B!WriteConf, B!At
<1>2. BLoop /\ b_pos \in 1..Stop(flv) /\ TagAt(flv, b_pos) BY <1>1, BFacts DEF BLoop
<1>3. LoopOk(s) /\ t \in TagType /\ b_pos \in Nat BY <1>0, <1>s, <1>t, <1>2, AtPosition
<1>4. /\ b_switched = FALSE /\ b_next_timestamp = NextTime(s, t)
      /\ b_sps_pps_write = WrittenAt(s, t) /\ b_counter = s.counter
      /\ b_pc = "tag" => b_conf = s.conf
      /\ b_pc = "conf" => t.kind = "avc_config" /\ b_conf = ConfAfter(s, t)
  BY <1>1, <1>2, <1>s, <1>t DEF BLoop
<1>5. TurnSpec(s, t, b_pos, v) BY <1>3, <1>v, TurnFields
<1>6. v = TurnOf(Loop(flv)[b_pos], flv.tags[b_pos], b_pos) BY <1>s, <1>t, <1>v
<1>7. /\ v.switched = FALSE /\ v.next_timestamp = NextTime(s, t)
      /\ v.conf = IF t.kind = "avc_config" THEN ParseConf(s.conf, t.header) ELSE s.conf
  BY <1>5 DEF TurnSpec
<1>8. CASE B!Skip
  <2>1. /\ b_pc = "tag" /\ B!tag.kind \in B!SkippedKinds /\ b_pos' = b_pos + 1 /\ b_pc' = "parse"
        /\ UNCHANGED <<flv, b_switched, b_next_timestamp, b_conf, b_sps_pps_write, b_counter,
                       ts_index, flushed, m3u8, endlist, avc_conf>>
    BY <1>8 DEF B!Skip, B!At, B!loop, B!files
  <2>2. t.kind \in SkippedKinds BY <1>t, <2>1 DEF B!tag, B!SkippedKinds, SkippedKinds
  <2>3. t.kind \notin MediaKinds /\ t.kind # "avc_config" /\ t.kind # "nalu" /\ t.kind \notin UnsupportedKinds
    BY <2>2 DEF SkippedKinds, MediaKinds, UnsupportedKinds
  <2>4. Goes(flv, b_pos) BY <1>2, <1>t, <2>3 DEF Goes
  <2>5. v.counter = s.counter /\ v.sps_pps_write = WrittenAt(s, t) BY <1>5, <2>3 DEF TurnSpec
  <2>6. FilesInv' BY <1>0, <2>1, FilesKept DEF BInv
  <2>7. flv.tags[b_pos].kind # "avc_config" BY <1>t, <2>3
  <2> QED BY <1>4, <1>6, <1>7, <2>1, <2>3, <2>4, <2>5, <2>6, <2>7, BGoesOn
<1>9. CASE B!Audio
  <2>1. /\ b_pc = "tag" /\ B!tag.kind = "aac" /\ b_pos' = b_pos + 1 /\ b_pc' = "parse"
        /\ b_counter' = [b_counter EXCEPT !["audio"] = @ + B!AudioPackets(B!tag)]
        /\ UNCHANGED <<flv, b_switched, b_next_timestamp, b_conf, b_sps_pps_write,
                       ts_index, flushed, m3u8, endlist, avc_conf>>
    BY <1>9 DEF B!Audio, B!At, B!files
  <2>2. t.kind = "aac" /\ B!tag = t BY <1>t, <2>1 DEF B!tag
  <2>3. B!AudioPackets(t) = AudioPackets(t) BY SharedB
  <2>4. b_counter' = Added(s.counter, "audio", AudioPackets(t)) BY <1>4, <2>1, <2>2, <2>3 DEF Added
  <2>5. Goes(flv, b_pos) BY <1>2, <1>t, <2>2 DEF Goes, UnsupportedKinds
  <2>6. v.counter = b_counter' /\ v.sps_pps_write = WrittenAt(s, t)
    BY <1>5, <2>2, <2>4 DEF TurnSpec
  <2>7. FilesInv' BY <1>0, <2>1, FilesKept DEF BInv
  <2>8. flv.tags[b_pos].kind # "avc_config" BY <1>t, <2>2
  <2> QED BY <1>4, <1>6, <1>7, <2>1, <2>2, <2>5, <2>6, <2>7, <2>8, BGoesOn
<1>10. CASE B!Video
  <2>1. /\ b_pc = "tag" /\ B!tag.kind = "nalu" /\ B!Fits(B!tag, b_conf.width)
        /\ b_pos' = b_pos + 1 /\ b_pc' = "parse" /\ b_sps_pps_write' = TRUE
        /\ b_counter' = [b_counter EXCEPT !["video"] = @ + B!VideoPackets(B!tag, B!IndexedSets, b_conf.width)]
        /\ UNCHANGED <<flv, b_switched, b_next_timestamp, b_conf,
                       ts_index, flushed, m3u8, endlist, avc_conf>>
    BY <1>10 DEF B!Video, B!At, B!files
  <2>2. t.kind = "nalu" /\ B!tag = t BY <1>t, <2>1 DEF B!tag
  <2> DEFINE sets == SetsAt(s, t)
             w == s.conf.width
  <2>3. B!IndexedSets = sets
    <3>1. B!ParameterSets(s.conf) = ParameterSets(s.conf) BY SharedB
    <3>2. b_conf = s.conf /\ b_sps_pps_write = WrittenAt(s, t) BY <1>4, <2>1
    <3>3. B!IndexedSets = IF b_sps_pps_write THEN <<>> ELSE B!ParameterSets(s.conf)
      BY <3>2 DEF B!IndexedSets
    <3> QED BY <3>1, <3>2, <3>3 DEF SetsAt
  <2>4. b_conf.width = w BY <1>4, <2>1
  <2> HIDE DEF sets, w
  <2>5. B!VideoPackets(t, sets, w) = VideoPackets(t, sets, w) BY SharedB
  <2>6. b_counter' = Added(s.counter, "video", VideoPackets(t, sets, w))
    BY <1>4, <2>1, <2>2, <2>3, <2>5, <2>4 DEF Added
  <2>7. Goes(flv, b_pos)
    <3>1. B!Fits(t, w) BY <2>1, <2>2, <2>4
    <3>2. Fits(t, s.conf.width) BY <3>1, SharedB DEF w
    <3> QED BY <1>2, <1>s, <1>t, <2>2, <3>2 DEF Goes, UnsupportedKinds
  <2>8. v.counter = b_counter' /\ v.sps_pps_write = TRUE
    BY <1>5, <2>2, <2>6 DEF TurnSpec, sets, w
  <2>9. FilesInv' BY <1>0, <2>1, FilesKept DEF BInv
  <2>10. flv.tags[b_pos].kind # "avc_config" BY <1>t, <2>2
  <2> QED BY <1>4, <1>6, <1>7, <2>1, <2>2, <2>7, <2>8, <2>9, <2>10, BGoesOn
<1>11. CASE B!SequenceHeader
  <2>1. /\ b_pc = "tag" /\ B!tag.kind = "avc_config" /\ b_pc' = "conf"
        /\ b_conf' = B!ParseConf(b_conf, B!tag.header) /\ avc_conf' = NoHeader
        /\ UNCHANGED <<flv, b_pos, b_switched, b_next_timestamp, b_sps_pps_write, b_counter,
                       ts_index, flushed, m3u8, endlist>>
    BY <1>11 DEF B!SequenceHeader, B!At, B!NoHeader, NoHeader
  <2>2. t.kind = "avc_config" /\ B!tag = t BY <1>t, <2>1 DEF B!tag
  <2>3. B!ParseConf(s.conf, t.header) = ParseConf(s.conf, t.header) BY SharedB
  <2>4. b_conf' = ConfAfter(s, t) BY <1>4, <2>1, <2>2, <2>3 DEF ConfAfter
  <2>5. FilesInv' BY <2>1 DEF BInv, FilesInv, IsEntry
  <2>6. Len(ts_index) = SeqAt(s, t) /\ m3u8 = SeqAt(s, t)
    BY <1>1, <1>2, <1>s, <1>t DEF BLoop
  <2>7. BLoop'
    BY <1>2, <1>4, <1>s, <1>t, <2>1, <2>2, <2>4, <2>6 DEF BLoop
  <2> QED BY <2>1, <2>5, <2>7 DEF BInv
<1>12. CASE B!WriteConf
  <2>1. /\ b_pc = "conf" /\ avc_conf' = B!tag.header /\ b_pos' = b_pos + 1 /\ b_pc' = "parse"
        /\ UNCHANGED <<flv, b_switched, b_next_timestamp, b_conf, b_sps_pps_write, b_counter,
                       ts_index, flushed, m3u8, endlist>>
    BY <1>12 DEF B!WriteConf, B!loop
  <2>2. t.kind = "avc_config" /\ B!tag = t BY <1>4, <1>t, <2>1 DEF B!tag
  <2>3. b_conf = ParseConf(s.conf, t.header) BY <1>4, <2>1, <2>2 DEF ConfAfter
  <2>4. b_pos \in Headers(flv) /\ avc_conf' = flv.tags[b_pos].header
    BY <1>2, <1>t, <2>1, <2>2, <1>0, AtPosition DEF Headers
  <2>5. avc_conf' # NoHeader
    <3>1. t.header \in Header BY <1>3, <2>2, TagFields
    <3> QED BY <2>1, <2>2, <3>1, HeaderThere
  <2>6. Goes(flv, b_pos) BY <1>2, <1>t, <2>2 DEF Goes, UnsupportedKinds
  <2>7. v.counter = s.counter /\ v.sps_pps_write = WrittenAt(s, t)
    BY <1>5, <2>2 DEF TurnSpec, MediaKinds
  <2>8. FilesInv'
    <3>1. (\E q \in Headers(flv) : avc_conf = flv.tags[q].header)' BY <2>1, <2>4
    <3> QED BY <2>1, <3>1 DEF BInv, FilesInv, IsEntry
  <2>9. flv.tags[b_pos].kind = "avc_config" BY <1>t, <2>2
  <2> QED BY <1>4, <1>6, <1>7, <2>1, <2>2, <2>3, <2>5, <2>6, <2>7, <2>8, <2>9, BGoesOn
<1> QED BY <1>8, <1>9, <1>10, <1>11, <1>12

\* It stops in the middle.
LEMMA WorkStops ==
  ASSUME flv \in Files, BInv, restarts' = restarts,
         B!Unsupported \/ B!VideoWithoutConf \/ B!OpenError \/ B!ConfError
  PROVE  BInv' /\ flv' = flv
<1>0. flv \in File /\ (Len(ts_index) \in Nat /\ flushed \in 0..Len(ts_index))
  BY FileFacts DEF BInv, FilesInv
<1>1. CASE B!Unsupported \/ B!ConfError
  <2>1. /\ b_pc = "tag" /\ b_pos' = b_pos + 1 /\ b_pc' = "failed" /\ flushed' = Len(ts_index)
        /\ b_sps_pps_write' = b_sps_pps_write \/ b_sps_pps_write' \in BOOLEAN
        /\ UNCHANGED <<flv, b_switched, b_next_timestamp, b_counter,
                       ts_index, m3u8, endlist, avc_conf>>
    BY <1>1 DEF B!Unsupported, B!ConfError, B!At, B!Return, B!loop
  <2>2. BLoop /\ BTypes /\ b_pos \in 1..Stop(flv) BY <2>1, BFacts
  <2>3. TagAt(flv, b_pos) BY <2>1, <2>2 DEF BLoop
  <2>4. b_pos + 1 \in 1..Len(flv.tags)+1 BY <1>0, <2>2, <2>3, AtPosition
  <2>5. BTypes' BY <2>1, <2>2, <2>4 DEF BTypes
  <2>6. FilesInv' BY <1>0, <2>1, FilesKept DEF BInv
  <2> QED BY <2>1, <2>5, <2>6, BHalts
<1>2. CASE B!VideoWithoutConf
  <2>1. /\ b_pc = "tag" /\ b_pc' = "undefined"
        /\ UNCHANGED <<flv, b_pos, b_switched, b_next_timestamp, b_conf, b_sps_pps_write, b_counter,
                       ts_index, flushed, m3u8, endlist, avc_conf>>
    BY <1>2 DEF B!VideoWithoutConf, B!At, B!loop, B!files
  <2>2. BTypes' BY <2>1, BFacts DEF BTypes
  <2>3. FilesInv' BY <1>0, <2>1, FilesKept DEF BInv
  <2> QED BY <2>1, <2>2, <2>3, BHalts
<1>3. CASE B!OpenError
  <2>1. /\ b_pc \in {"start", "ts_idx", "parse"} /\ b_pc' = "failed" /\ flushed' = Len(ts_index)
        /\ UNCHANGED <<flv, b_pos, b_switched, b_next_timestamp, b_conf, b_sps_pps_write, b_counter,
                       ts_index, m3u8, endlist, avc_conf>>
    BY <1>3 DEF B!OpenError, B!Return, B!loop
  <2>2. BTypes' BY <2>1, BFacts DEF BTypes
  <2>3. FilesInv' BY <1>0, <2>1, FilesKept DEF BInv
  <2> QED BY <2>1, <2>2, <2>3, BHalts
<1> QED BY <1>1, <1>2, <1>3

\* A new process is in front of the first tag.
LEMMA Forgotten ==
  ASSUME flv \in Files, flv' = flv, B!Forget
  PROVE  BTypes' /\ b_pos' = 1 /\ 1 \in 1..Stop(flv)
         /\ b_switched' = Loop(flv)[1].switched /\ b_next_timestamp' = Loop(flv)[1].next_timestamp
         /\ b_conf' = Loop(flv)[1].conf /\ b_sps_pps_write' = Loop(flv)[1].sps_pps_write
         /\ b_counter' = Loop(flv)[1].counter
<1>1. flv \in File /\ Len(flv.tags) \in Nat BY FileFacts
<1>2. /\ b_pos' = 1 /\ b_switched' = TRUE /\ b_next_timestamp' = 0 /\ b_conf' = NoConf
      /\ b_sps_pps_write' = FALSE /\ b_counter' = [s \in Streams |-> 0]
  BY DEF B!Forget, B!NoConf, NoConf, B!NoSets, NoSets, B!Streams, Streams
<1>3. Loop(flv)[1] = LoopStart BY <1>1, LoopSteps
<1> DEFINE c == [s \in Streams |-> 0]
           l == Loop(flv)[1]
<1>4. BTypes'
  <2>1. c \in [Streams -> Nat] OBVIOUS
  <2>2. 0 \in 0..TimeMod-1 BY TimeModAssumption
  <2>3. 1 \in 1..Len(flv.tags)+1 BY <1>1
  <2> HIDE DEF c
  <2> QED BY <1>2, <2>1, <2>2, <2>3 DEF BTypes, c
<1>5. 1 \in 1..Stop(flv) BY <1>1, StopFacts
<1>6. /\ l.switched = TRUE /\ l.next_timestamp = 0 /\ l.conf = NoConf
      /\ l.sps_pps_write = FALSE /\ l.counter = c
  <2>1. l = [switched |-> TRUE, next_timestamp |-> 0, conf |-> NoConf, sps_pps_write |-> FALSE,
             due |-> 0, counter |-> c, count |-> 0, seq |-> 0, out |-> <<>>]
    BY <1>3 DEF LoopStart
  <2> HIDE DEF c, l
  <2> QED BY <2>1
<1> HIDE DEF c, l
<1>7. b_counter' = c BY <1>2 DEF c
<1>8. /\ b_switched' = l.switched /\ b_next_timestamp' = l.next_timestamp /\ b_conf' = l.conf
      /\ b_sps_pps_write' = l.sps_pps_write /\ b_counter' = l.counter
  BY <1>2, <1>6, <1>7
<1> QED BY <1>2, <1>4, <1>5, <1>8 DEF l

LEMMA KillStep ==
  ASSUME flv \in Files, BInv, restarts' = restarts, B!Kill
  PROVE  BInv' /\ flv' = flv
<1>0. /\ Len(ts_index) \in Nat /\ flushed \in 0..Len(ts_index)
      /\ ts_index \in Seq([pos: 1..Len(flv.tags)+1, audio: 0..15, video: 0..15])
  BY DEF BInv, FilesInv
<1>1. /\ b_pc' = "killed" /\ ts_index' = SubSeq(ts_index, 1, flushed) /\ B!Forget
      /\ UNCHANGED <<flv, flushed, m3u8, endlist, avc_conf>>
  BY DEF B!Kill
<1>2. BTypes' BY <1>1, Forgotten
<1>3. /\ Len(ts_index') = flushed /\ \A k \in 1..flushed : ts_index'[k] = ts_index[k]
      /\ ts_index' \in Seq([pos: 1..Len(flv.tags)+1, audio: 0..15, video: 0..15])
  <2> DEFINE E == [pos: 1..Len(flv.tags)+1, audio: 0..15, video: 0..15]
  <2> HIDE DEF E
  <2>1. ts_index \in Seq(E) BY <1>0 DEF E
  <2>2. ts_index' \in Seq(E) /\ Len(ts_index') = flushed
        /\ \A k \in 1..flushed : ts_index'[k] = ts_index[k]
    BY <1>0, <1>1, <2>1
  <2> QED BY <2>2 DEF E
<1>4. FilesInv'
  <2>1. \A k \in 1..Len(ts_index') : IsEntry(k - 1, ts_index'[k])
    <3> SUFFICES ASSUME NEW k \in 1..flushed PROVE IsEntry(k - 1, ts_index'[k])
      BY <1>3
    <3>1. k \in 1..Len(ts_index) BY <1>0
    <3> QED BY <1>3, <3>1 DEF BInv, FilesInv
  <2>2. (\A k \in 1..Len(ts_index) : IsEntry(k - 1, ts_index[k]))'
    BY <1>1, <2>1 DEF IsEntry
  <2>3. (m3u8 \in 0..LastSeq(flv))' /\ (flushed \in 0..Len(ts_index))'
        /\ (avc_conf = NoHeader \/ \E q \in Headers(flv) : avc_conf = flv.tags[q].header)'
    BY <1>0, <1>1, <1>3 DEF BInv, FilesInv
  <2> QED BY <1>1, <1>3, <2>2, <2>3 DEF FilesInv
<1>5. endlist' = endlist BY <1>1
<1> QED BY <1>1, <1>2, <1>4, <1>5, BHalts

LEMMA RestartStep ==
  ASSUME flv \in Files, BInv, B!Restart
  PROVE  BInv' /\ flv' = flv
<1>0. /\ Len(ts_index) \in Nat /\ flushed \in 0..Len(ts_index) /\ restarts \in 0..MaxRestarts
  BY DEF BInv, FilesInv
<1>1. /\ restarts < MaxRestarts /\ restarts' = restarts + 1 /\ b_pc' = "start" /\ B!Forget
      /\ UNCHANGED <<flv, ts_index, flushed, m3u8, endlist, avc_conf>>
  BY DEF B!Restart, B!files
<1>2. BLoop' BY <1>1, Forgotten DEF BLoop
<1>3. FilesInv' BY <1>0, <1>1, FilesKept DEF BInv
<1>4. restarts' \in 0..MaxRestarts BY <1>0, <1>1, RestartsAssumption
<1>5. endlist' \in BOOLEAN BY <1>1 DEF BInv
<1> QED BY <1>1, <1>2, <1>3, <1>4, <1>5 DEF BInv

----------------------------------------------------------------------------
(* A request.                                                              *)

\* What came of the tables, and of the payload of one tag.
Tabled(x, o, p) == IF x THEN Append(o, TablesUnit(p)) ELSE o

LEMMA MadeTables ==
  ASSUME NEW one \in BOOLEAN, NEW which, NEW o \in Seq(Unit), NEW us \in Seq(Unit),
         Made(one, which, o, us), NEW x \in BOOLEAN, NEW y \in BOOLEAN, NEW p \in Nat,
         (one /\ which = "getts" => x = y)
  PROVE  /\ Made(one, which, Tabled(x, o, p), Tabled(y, us, p))
         /\ Tabled(x, o, p) \in Seq(Unit) /\ Tabled(y, us, p) \in Seq(Unit)
<1> DEFINE u == TablesUnit(p)
           w == Tabled(x, o, p)
           vs == Tabled(y, us, p)
<1>1. u \in Unit /\ u.kind = "tables" BY TablesType
<1> HIDE DEF u
<1>2. /\ Media(Append(o, u)) = Media(o) /\ Media(Append(us, u)) = Media(us)
      /\ TagsOf(Append(o, u)) = TagsOf(o) /\ TagsOf(Append(us, u)) = TagsOf(us)
  BY <1>1, MediaAppend
<1>3. Media(w) = Media(o) /\ TagsOf(w) = TagsOf(o) BY <1>2 DEF u, Tabled
<1>4. Media(vs) = Media(us) /\ TagsOf(vs) = TagsOf(us) BY <1>2 DEF u, Tabled
<1>5. one /\ which = "getts" => vs = w BY DEF Made, Tabled
<1>6. vs \in Seq(Unit) /\ w \in Seq(Unit)
  <2>1. w = IF x THEN Append(o, u) ELSE o BY DEF u, Tabled
  <2>2. vs = IF y THEN Append(us, u) ELSE us BY DEF u, Tabled
  <2> QED BY <1>1, <2>1, <2>2
<1> HIDE DEF w, vs
<1>7. Made(one, which, w, vs) BY <1>3, <1>4, <1>5 DEF Made
<1> QED BY <1>6, <1>7 DEF w, vs

LEMMA MadeAppend ==
  ASSUME NEW one \in BOOLEAN, NEW which, NEW o \in Seq(Unit), NEW us \in Seq(Unit),
         Made(one, which, o, us), NEW u \in Unit, NEW w \in Unit,
         u.kind # "tables", w.kind # "tables", u.tag = w.tag, one => u = w
  PROVE  Made(one, which, Append(o, u), Append(us, w)) /\ Append(us, w) \in Seq(Unit)
<1>1. /\ Media(Append(o, u)) = Append(Media(o), u) /\ Media(Append(us, w)) = Append(Media(us), w)
      /\ TagsOf(Append(o, u)) = Append(TagsOf(o), u.tag)
      /\ TagsOf(Append(us, w)) = Append(TagsOf(us), w.tag)
  BY MediaAppend
<1>2. TagsOf(Append(o, u)) = TagsOf(Append(us, w)) BY <1>1 DEF Made
<1>3. one => Media(Append(o, u)) = Media(Append(us, w)) BY <1>1 DEF Made
<1>4. one /\ which = "getts" => Append(us, w) = Append(o, u) BY DEF Made
<1> QED BY <1>2, <1>3, <1>4 DEF Made

\* The entries that a request has read.
LEMMA EntryTypes ==
  ASSUME flv \in Files, NEW n, NEW e, e = G!NoEntry \/ IsEntry(n, e)
  PROVE  /\ e.pos \in 0..Len(flv.tags)+1 /\ e.audio \in 0..15 /\ e.video \in 0..15
         /\ e # G!NoEntry => e.pos > 0
         /\ e.pos > 0 => IsEntry(n, e)
<1>1. flv \in File /\ Len(flv.tags) \in Nat BY FileFacts
<1>2. CASE e = G!NoEntry BY <1>1, <1>2 DEF G!NoEntry
<1>3. CASE IsEntry(n, e)
  <2>1. /\ Begins(flv, n, e.pos) /\ e.audio = Loop(flv)[e.pos].counter["audio"] % 16
        /\ e.video = Loop(flv)[e.pos].counter["video"] % 16
    BY <1>3 DEF IsEntry
  <2>2. e.pos \in 1..Stop(flv) /\ e.pos \in 1..Len(flv.tags)+1 BY <1>1, <2>1, BeginsFacts
  <2>3. PICK s : s = Loop(flv)[e.pos] OBVIOUS
  <2>4. s.counter["audio"] \in Nat /\ s.counter["video"] \in Nat
    <3>1. LoopOk(s) BY <1>1, <2>2, <2>3, AtPosition
    <3> QED BY <3>1, LoopStateFields
  <2>5. \A k \in Nat : k % 16 \in 0..15 OBVIOUS
  <2>6. e.audio \in 0..15 /\ e.video \in 0..15 BY <2>1, <2>3, <2>4, <2>5
  <2> QED BY <1>1, <1>3, <2>2, <2>6
<1> QED BY <1>2, <1>3

\* Between, in one piece.
Cuts(f, n, a, b) ==
  /\ b \in 1..Stop(f) /\ n < LastSeq(f)
  /\ Opens(Loop(f)[a], f.tags[a]) /\ Loop(f)[a].seq = n
  /\ \A p \in a..b-1 : p \in 1..Stop(f) /\ Goes(f, p)
  /\ \A p \in a+1..b-1 : Loop(f)[p].seq = n + 1 /\ ~Opens(Loop(f)[p], f.tags[p])

LEMMA BetweenCuts ==
  ASSUME NEW f \in File, NEW n \in Nat, NEW a, NEW b, Begins(f, n, a), Begins(f, n + 1, b)
  PROVE  Cuts(f, n, a, b)
BY Between DEF Cuts

\* In front of a tag of the segment.
Inside(s, t) ==
  /\ s = Loop(flv)[g_pos] /\ t = flv.tags[g_pos] /\ LoopOk(s) /\ t \in TagType
  /\ g_pos \in 1..Stop(flv) /\ Goes(flv, g_pos) /\ sequence \in Nat
  /\ start_state # G!NoEntry /\ end_state # G!NoEntry
  /\ start_state.pos \in Nat /\ end_state.pos \in Nat
  /\ start_state.pos <= g_pos /\ g_pos < end_state.pos
  /\ SeqAt(s, t) = sequence + 1
  /\ g_pos = start_state.pos => Opens(s, t) /\ s.seq = sequence
  /\ g_pos # start_state.pos => ~Opens(s, t)

\* The number asked for, and 0 when there is no request.
LEMMA NumberAsked ==
  ASSUME GInv
  PROVE  sequence \in Nat
<1>1. sequence \in Sequences \cup {0} BY DEF GInv
<1> QED BY <1>1, SequencesAssumption

LEMMA InsideFacts ==
  ASSUME flv \in Files, GInv, g_pc = "tags", g_pos \in 1..Len(flv.tags), g_pos < end_state.pos,
         NEW s, s = Loop(flv)[g_pos], NEW t, t = flv.tags[g_pos]
  PROVE  Inside(s, t)
<1>0. flv \in File /\ sequence \in Nat BY FileFacts, NumberAsked
<1>1. flv \in File /\ EntriesInv /\ (AtStart \/ InSegment) /\ sequence \in Nat
  BY <1>0 DEF GInv, StreamInv
<1>2. start_state = G!NoEntry \/ IsEntry(sequence, start_state) BY <1>1 DEF EntriesInv
<1>3. end_state = G!NoEntry \/ IsEntry(sequence + 1, end_state) BY <1>1 DEF EntriesInv
<1>4. start_state.pos \in Nat /\ (start_state.pos > 0 => IsEntry(sequence, start_state))
  BY <1>2, EntryTypes
<1>5. end_state.pos \in Nat /\ (end_state.pos > 0 => IsEntry(sequence + 1, end_state))
  BY <1>3, EntryTypes
<1>6. start_state.pos <= g_pos /\ start_state.pos > 0 /\ g_pos \in Nat
  <2>1. CASE AtStart BY <2>1 DEF AtStart
  <2>2. CASE InSegment
    <3>1. start_state # G!NoEntry /\ start_state.pos < g_pos BY <2>2 DEF InSegment
    <3>2. start_state.pos > 0 BY <1>2, <3>1, EntryTypes
    <3> QED BY <1>4, <3>1, <3>2
  <2> QED BY <1>1, <2>1, <2>2
<1>7. end_state.pos > 0 BY <1>5, <1>6
<1>8. Begins(flv, sequence, start_state.pos) /\ Begins(flv, sequence + 1, end_state.pos)
  BY <1>4, <1>5, <1>6, <1>7 DEF IsEntry
<1>a. PICK a : a = start_state.pos OBVIOUS
<1>b. PICK b : b = end_state.pos OBVIOUS
<1>n. PICK n : n = sequence OBVIOUS
<1>9. /\ n \in Nat /\ a \in Nat /\ b \in Nat /\ a <= g_pos /\ g_pos < b
      /\ Begins(flv, n, a) /\ Begins(flv, n + 1, b)
  BY <1>1, <1>4, <1>5, <1>6, <1>8, <1>a, <1>b, <1>n
<1>10. start_state # G!NoEntry /\ end_state # G!NoEntry
  BY <1>6, <1>7 DEF G!NoEntry
<1>11. /\ Opens(Loop(flv)[a], flv.tags[a]) /\ Loop(flv)[a].seq = n
       /\ \A p \in a..b-1 : p \in 1..Stop(flv) /\ Goes(flv, p)
       /\ \A p \in a+1..b-1 : Loop(flv)[p].seq = n + 1 /\ ~Opens(Loop(flv)[p], flv.tags[p])
  <2>1. Cuts(flv, n, a, b) BY <1>1, <1>9, BetweenCuts
  <2> QED BY <2>1 DEF Cuts
<1>12. g_pos \in a..b-1 BY <1>6, <1>9, <1>a, <1>b
<1>13. g_pos \in 1..Stop(flv) /\ Goes(flv, g_pos) BY <1>11, <1>12
<1>14. LoopOk(s) /\ t \in TagType BY <1>1, <1>13, AtPosition
<1>15. s.seq \in Nat BY <1>14, LoopStateFields
<1>16. /\ g_pos = a => Opens(s, t) /\ s.seq = sequence
       /\ g_pos # a => ~Opens(s, t) /\ s.seq = sequence + 1
  <2>1. CASE g_pos = a BY <1>11, <1>n, <2>1
  <2>2. CASE g_pos # a
    <3>1. g_pos \in a+1..b-1 BY <1>6, <1>9, <2>2
    <3> QED BY <1>11, <1>n, <2>2, <3>1
  <2> QED BY <2>1, <2>2
<1>17. SeqAt(s, t) = sequence + 1 BY <1>15, <1>16 DEF SeqAt
<1> QED BY <1>1, <1>4, <1>6, <1>9, <1>10, <1>13, <1>14, <1>16, <1>17, <1>a, <1>b DEF Inside

\* Behind the tables of a turn.
NextDue == IF G!TablesDue THEN G!Count + PAT_PMT_INTERVAL ELSE g_next_prev_pat_pmt_output

Behind(s, t) ==
  /\ video_first = ~WrittenAt(s, t)
  /\ G!Units \in Seq(Unit) /\ G!Units # <<>> /\ G!Units[1] = TablesUnit(start_state.pos)
  /\ UnitsOf(OutAt(s, t, g_pos), sequence) \in Seq(Unit)
  /\ Made(OneConf(flv), program, UnitsOf(OutAt(s, t, g_pos), sequence), G!Units)
  /\ G!Count \in Nat /\ NextDue \in Nat /\ g_counter \in [Streams -> Nat]
  /\ OneConf(flv) =>
       /\ \A st \in Streams : g_counter[st] % 16 = s.counter[st] % 16
       /\ program = "getts" => NextDue - G!Count = DueAt(s, t) - CountAt(s, t)

LEMMA BehindStart ==
  ASSUME flv \in Files, GInv, AtStart, NEW s, NEW t, Inside(s, t)
  PROVE  Behind(s, t)
<1> DEFINE T == TablesUnit(g_pos)
<1>1. /\ s = Loop(flv)[g_pos] /\ LoopOk(s) /\ t \in TagType
      /\ g_pos \in 1..Stop(flv) /\ g_pos = start_state.pos /\ sequence \in Nat
      /\ SeqAt(s, t) = sequence + 1 /\ Opens(s, t) /\ s.seq = sequence
      /\ start_state # G!NoEntry
  BY DEF Inside, AtStart
<1>2. /\ units = <<T>> /\ video_first = TRUE /\ g_count = 2
      /\ g_next_prev_pat_pmt_output = 2 + PAT_PMT_INTERVAL
      /\ g_counter = [st \in Streams |-> IF st = "video" THEN start_state.video
                                                        ELSE start_state.audio]
  BY DEF AtStart
<1>3. flv \in File /\ g_pos \in 1..Len(flv.tags)+1 /\ g_pos \in Nat
  BY <1>1, FileFacts, AtPosition
<1>4. T \in Unit BY <1>3, TablesType
<1>5. ~G!TablesDue BY <1>2, IntervalAssumption DEF G!TablesDue
<1>6. G!Units = <<T>> /\ G!Count = 2 /\ NextDue = 2 + PAT_PMT_INTERVAL
  BY <1>2, <1>5 DEF G!Units, G!Count, NextDue
<1>7. TablesAt(s, t)
  <2>1. s.count \in Nat BY <1>1, LoopStateFields
  <2> QED BY <1>1, <2>1 DEF TablesAt, ForcedAt
<1>8. UnitsOf(s.out, sequence) = <<>>
  <2>1. Loop(flv)[g_pos].seq <= sequence BY <1>1
  <2> QED BY <1>1, <1>3, <2>1, NothingBefore
<1>9. UnitsOf(OutAt(s, t, g_pos), sequence) = <<T>>
  <2>1. UnitsOf(OutAt(s, t, g_pos), sequence) = Append(UnitsOf(s.out, sequence), T)
    <3>1. SeqAt(s, t) - 1 = sequence BY <1>1
    <3> QED BY <1>1, <1>3, <1>7, <3>1, TurnUnits
  <2> QED BY <1>8, <2>1
<1>10. DueAt(s, t) - CountAt(s, t) = PAT_PMT_INTERVAL
  <2>1. CountAt(s, t) \in Nat BY <1>1, <1>3, PrologueTypes
  <2> QED BY <1>7, <2>1, IntervalAssumption DEF DueAt
<1>11. g_counter \in [Streams -> Nat] BY DEF GInv, StreamInv
<1>12. \A st \in Streams : g_counter[st] % 16 = s.counter[st] % 16
  <2>1. IsEntry(sequence, start_state) BY <1>1 DEF GInv, EntriesInv
  <2>2. start_state.audio = s.counter["audio"] % 16 /\ start_state.video = s.counter["video"] % 16
    BY <1>1, <2>1 DEF IsEntry
  <2>3. s.counter["audio"] \in Nat /\ s.counter["video"] \in Nat BY <1>1, LoopStateFields
  <2>4. g_counter["audio"] = start_state.audio /\ g_counter["video"] = start_state.video
    BY <1>2 DEF Streams
  <2>5. \A k \in Nat : (k % 16) % 16 = k % 16 OBVIOUS
  <2>6. g_counter["audio"] % 16 = s.counter["audio"] % 16 BY <2>2, <2>3, <2>4, <2>5
  <2>7. g_counter["video"] % 16 = s.counter["video"] % 16 BY <2>2, <2>3, <2>4, <2>5
  <2> QED BY <2>6, <2>7 DEF Streams
<1>13. video_first = ~WrittenAt(s, t) BY <1>1, <1>2 DEF WrittenAt
<1>14. NextDue - G!Count = DueAt(s, t) - CountAt(s, t) /\ NextDue \in Nat
  BY <1>6, <1>10, IntervalAssumption
<1>15. Made(OneConf(flv), program, UnitsOf(OutAt(s, t, g_pos), sequence), G!Units)
  BY <1>6, <1>9 DEF Made
<1> HIDE DEF T
<1>16. <<T>> \in Seq(Unit) /\ <<T>> # <<>> /\ <<T>>[1] = T BY <1>4
<1>17. T = TablesUnit(start_state.pos) BY <1>1 DEF T
<1> QED BY <1>6, <1>9, <1>11, <1>12, <1>13, <1>14, <1>15, <1>16, <1>17 DEF Behind

LEMMA BehindInside ==
  ASSUME flv \in Files, GInv, InSegment, NEW s, NEW t, Inside(s, t)
  PROVE  Behind(s, t)
<1> DEFINE T == TablesUnit(g_pos)
           one == OneConf(flv)
           o == UnitsOf(s.out, sequence)
           w == UnitsOf(OutAt(s, t, g_pos), sequence)
           x == TablesAt(s, t)
           y == G!TablesDue
<1>1. /\ s = Loop(flv)[g_pos] /\ LoopOk(s) /\ t \in TagType /\ g_pos \in 1..Stop(flv)
      /\ SeqAt(s, t) - 1 = sequence /\ start_state # G!NoEntry
      /\ start_state.pos \in Nat
  BY DEF Inside
<1>2. /\ start_state.pos < g_pos /\ video_first = ~s.sps_pps_write
      /\ units \in Seq(Unit) /\ units # <<>> /\ Made(one, program, o, units)
      /\ InStep(one, program, s, g_counter, g_next_prev_pat_pmt_output, g_count)
  BY <1>1 DEF InSegment
<1>3. ~Opens(s, t) BY <1>1, <1>2 DEF Inside
<1>4. flv \in File /\ g_pos \in Nat BY <1>1, FileFacts, AtPosition
<1>5. s.count \in Nat /\ s.due \in Nat BY <1>1, LoopStateFields
<1>6. /\ g_counter \in [Streams -> Nat] /\ g_count \in Nat /\ g_next_prev_pat_pmt_output \in Nat
      /\ units[1] = TablesUnit(start_state.pos)
  BY <1>2 DEF GInv, StreamInv
<1>7. /\ x <=> s.due <= s.count
      /\ CountAt(s, t) = IF x THEN s.count + 2 ELSE s.count
      /\ DueAt(s, t) = IF x THEN CountAt(s, t) + PAT_PMT_INTERVAL ELSE s.due
      /\ WrittenAt(s, t) = s.sps_pps_write
  BY <1>3 DEF TablesAt, ForcedAt, CountAt, DueAt, WrittenAt
<1>8. /\ y <=> program = "getts" /\ g_next_prev_pat_pmt_output <= g_count
      /\ G!Count = IF y THEN g_count + 2 ELSE g_count
      /\ NextDue = IF y THEN G!Count + PAT_PMT_INTERVAL ELSE g_next_prev_pat_pmt_output
      /\ G!Units = IF y THEN Append(units, G!TablesUnit(g_pos)) ELSE units
  BY DEF G!TablesDue, G!Count, NextDue, G!Units
<1>9. G!TablesUnit(g_pos) = T BY SharedG
<1>10. /\ o \in Seq(Unit) /\ w = IF x THEN Append(o, T) ELSE o
  <2>1. /\ o \in Seq(Unit)
        /\ w = IF TablesAt(s, t) /\ SeqAt(s, t) - 1 = sequence THEN Append(o, T) ELSE o
    BY <1>1, <1>4, TurnUnits, Zenon
  <2> HIDE DEF o, w, T
  <2> QED BY <1>1, <2>1
<1>11. x \in BOOLEAN /\ y \in BOOLEAN /\ one \in BOOLEAN
  BY DEF TablesAt, G!TablesDue, OneConf
<1>12. one /\ program = "getts" =>
         g_next_prev_pat_pmt_output - g_count = s.due - s.count
  BY <1>2 DEF InStep
<1>13. one => \A st \in Streams : g_counter[st] % 16 = s.counter[st] % 16
  BY <1>2 DEF InStep
<1>14. T \in Unit BY <1>4, TablesType
<1> HIDE DEF one, o, w, x, y
<1>15. one /\ program = "getts" => x = y
  <2> SUFFICES ASSUME one, program = "getts" PROVE x = y
    OBVIOUS
  <2>1. g_next_prev_pat_pmt_output - g_count = s.due - s.count BY <1>12
  <2>2. g_next_prev_pat_pmt_output <= g_count <=> s.due <= s.count BY <1>5, <1>6, <2>1
  <2>3. y <=> g_next_prev_pat_pmt_output <= g_count BY <1>8
  <2>4. x <=> s.due <= s.count BY <1>7
  <2> QED BY <1>11, <2>2, <2>3, <2>4
<1>16. Made(one, program, w, G!Units) /\ G!Units \in Seq(Unit) /\ w \in Seq(Unit)
  <2>1. G!Units = IF y THEN Append(units, T) ELSE units BY <1>8, <1>9
  <2>2. PICK i, j, k : i = one /\ j = x /\ k = y OBVIOUS
  <2>3. PICK a, b, c, d : a = o /\ b = w /\ c = units /\ d = G!Units OBVIOUS
  <2>4. PICK which, p : which = program /\ p = g_pos OBVIOUS
  <2>5. /\ i \in BOOLEAN /\ j \in BOOLEAN /\ k \in BOOLEAN /\ a \in Seq(Unit) /\ c \in Seq(Unit)
        /\ Made(i, which, a, c) /\ (i /\ which = "getts" => j = k) /\ p \in Nat
    BY <1>2, <1>4, <1>10, <1>11, <1>15, <2>2, <2>3, <2>4
  <2>6. b = Tabled(j, a, p) BY <1>10, <2>2, <2>3, <2>4 DEF Tabled
  <2>7. d = Tabled(k, c, p) BY <2>1, <2>2, <2>3, <2>4 DEF Tabled
  <2>8. Made(i, which, b, d) /\ d \in Seq(Unit) /\ b \in Seq(Unit)
    BY <2>5, <2>6, <2>7, MadeTables
  <2> QED BY <2>2, <2>3, <2>4, <2>8
<1>17. G!Count \in Nat /\ NextDue \in Nat
  BY <1>6, <1>8, IntervalAssumption
<1>18. one /\ program = "getts" => NextDue - G!Count = DueAt(s, t) - CountAt(s, t)
  BY <1>5, <1>6, <1>7, <1>8, <1>12, <1>15, IntervalAssumption
<1>19. G!Units # <<>> /\ G!Units[1] = TablesUnit(start_state.pos)
  <2> HIDE DEF T
  <2>1. G!Units = IF y THEN Append(units, T) ELSE units BY <1>8, <1>9
  <2>2. /\ Len(units) \in Nat /\ Len(units) > 0 /\ Len(Append(units, T)) = Len(units) + 1
        /\ Append(units, T)[1] = units[1]
    BY <1>2, <1>14
  <2>3. Append(units, T) # <<>> BY <2>2
  <2> QED BY <1>2, <1>6, <2>1, <2>2, <2>3
<1>20. video_first = ~WrittenAt(s, t) BY <1>2, <1>7
<1> QED BY <1>6, <1>13, <1>16, <1>17, <1>18, <1>19, <1>20 DEF Behind, one, w

\* One tag further.
LEMMA GGoesOn ==
  ASSUME flv \in Files, GInv, g_pc = "tags", NEW s, NEW t, Inside(s, t), NEW v,
         v = TurnOf(s, t, g_pos), g_pc' = "tags", g_pos' = g_pos + 1,
         UNCHANGED <<flv, program, sequence, mapped_conf, g_conf, start_state, end_state>>,
         video_first' = ~v.sps_pps_write,
         units' \in Seq(Unit), units' # <<>>, units'[1] = TablesUnit(start_state.pos),
         Made(OneConf(flv), program, UnitsOf(v.out, sequence), units'),
         InStep(OneConf(flv), program, v, g_counter', g_next_prev_pat_pmt_output', g_count'),
         g_counter' \in [Streams -> Nat], g_count' \in Nat, g_next_prev_pat_pmt_output' \in Nat
  PROVE  GInv'
<1>1. /\ s = Loop(flv)[g_pos] /\ t = flv.tags[g_pos]
      /\ g_pos \in 1..Stop(flv) /\ Goes(flv, g_pos)
      /\ start_state # G!NoEntry /\ end_state # G!NoEntry
      /\ start_state.pos \in Nat /\ end_state.pos \in Nat
      /\ start_state.pos <= g_pos /\ g_pos < end_state.pos
  BY DEF Inside
<1>2. flv \in File /\ g_pos \in Nat BY <1>1, FileFacts, AtPosition
<1>3. Loop(flv)[g_pos+1] = v BY <1>1, <1>2, AtPosition
<1>4. start_state.pos < g_pos + 1 /\ g_pos + 1 <= end_state.pos BY <1>1, <1>2
<1>5. InSegment' BY <1>1, <1>3, <1>4 DEF InSegment, G!NoEntry
<1>6. StreamInv' BY <1>2, <1>5 DEF StreamInv
<1>7. ReadInv'
  <2>1. \E q \in Headers(flv) : g_conf = ParseConf(NoConf, flv.tags[q].header)
    BY DEF GInv, ReadInv
  <2> QED BY <2>1 DEF ReadInv
<1>8. EntriesInv' BY DEF GInv, EntriesInv, IsEntry, G!NoEntry
<1> QED BY <1>6, <1>7, <1>8 DEF GInv

\* The counters of both sides after as many packets more.
LEMMA SameModulus ==
  ASSUME NEW a \in Nat, NEW b \in Nat, NEW n \in Nat, a % 16 = b % 16
  PROVE  (a + n) % 16 = (b + n) % 16
OBVIOUS

LEMMA AddedInStep ==
  ASSUME NEW c \in [Streams -> Nat], NEW d \in [Streams -> Nat], NEW k \in Streams, NEW n \in Nat
  PROVE  /\ Added(c, k, n) \in [Streams -> Nat]
         /\ (\A st \in Streams : c[st] % 16 = d[st] % 16) =>
               \A st \in Streams : Added(c, k, n)[st] % 16 = Added(d, k, n)[st] % 16
<1>1. /\ \A st \in Streams : Added(c, k, n)[st] = IF st = k THEN c[st] + n ELSE c[st]
      /\ \A st \in Streams : Added(d, k, n)[st] = IF st = k THEN d[st] + n ELSE d[st]
      /\ Added(c, k, n) \in [Streams -> Nat]
  BY DEF Added
<1>2. ASSUME \A st \in Streams : c[st] % 16 = d[st] % 16, NEW st \in Streams
      PROVE  Added(c, k, n)[st] % 16 = Added(d, k, n)[st] % 16
  <2>1. PICK a, b : a = c[st] /\ b = d[st] OBVIOUS
  <2>2. a \in Nat /\ b \in Nat /\ a % 16 = b % 16 BY <1>2, <2>1
  <2>3. (a + n) % 16 = (b + n) % 16 BY <2>2, SameModulus
  <2> QED BY <1>1, <1>2, <2>1, <2>2, <2>3
<1> QED BY <1>1, <1>2

\* What a request does with a tag is what flv2ts does with it.
LEMMA GTag ==
  ASSUME flv \in Files, GInv, G!Skip \/ G!Audio \/ G!Video
  PROVE  GInv'
<1>s. PICK s : s = Loop(flv)[g_pos] OBVIOUS
<1>t. PICK t : t = flv.tags[g_pos] OBVIOUS
<1>v. PICK v : v = TurnOf(s, t, g_pos) OBVIOUS
<1>o. PICK o : o = UnitsOf(OutAt(s, t, g_pos), sequence) OBVIOUS
<1>u. PICK us : us = G!Units OBVIOUS
<1>e. PICK one : one = OneConf(flv) OBVIOUS
<1>1. /\ g_pc = "tags" /\ g_pos \in 1..Len(flv.tags) /\ g_pos < end_state.pos /\ g_pc' = "tags"
      /\ g_pos' = g_pos + 1 /\ g_next_prev_pat_pmt_output' = NextDue
      /\ UNCHANGED <<flv, program, sequence, mapped_conf, g_conf, start_state, end_state>>
  BY FileFacts DEF G!Skip, G!Audio, G!Video, G!AtTag, G!Turn, NextDue, G!inputs, G!maps, G!request
<1>2. Inside(s, t) BY <1>1, <1>s, <1>t, InsideFacts
<1>3. Behind(s, t)
  <2>1. AtStart \/ InSegment BY <1>1 DEF GInv, StreamInv
  <2> QED BY <1>2, <2>1, BehindStart, BehindInside
<1>4. /\ LoopOk(s) /\ t \in TagType /\ SeqAt(s, t) - 1 = sequence /\ g_pos \in Nat
      /\ Goes(flv, g_pos) /\ sequence \in Nat
  BY <1>1, <1>2 DEF Inside
<1>5. /\ video_first = ~WrittenAt(s, t)
      /\ us \in Seq(Unit) /\ us # <<>> /\ us[1] = TablesUnit(start_state.pos)
      /\ o \in Seq(Unit) /\ one \in BOOLEAN
      /\ Made(one, program, o, us)
      /\ G!Count \in Nat /\ NextDue \in Nat /\ g_counter \in [Streams -> Nat]
      /\ one => /\ \A st \in Streams : g_counter[st] % 16 = s.counter[st] % 16
                /\ program = "getts" => NextDue - G!Count = DueAt(s, t) - CountAt(s, t)
  BY <1>3, <1>e, <1>o, <1>u DEF Behind, OneConf
<1>6. TurnSpec(s, t, g_pos, v) BY <1>4, <1>v, TurnFields
<1>7. /\ v.due = DueAt(s, t) /\ DueAt(s, t) \in Nat /\ CountAt(s, t) \in Nat
      /\ s.counter \in [Streams -> Nat] /\ SetsAt(s, t) \in Seq(DOMAIN SetSize)
  BY <1>4, <1>6, PrologueTypes, LoopStateFields DEF TurnSpec
<1>8. UnitsOf(v.out, sequence) =
        IF t.kind \in MediaKinds THEN Append(o, UnitAt(s, t, g_pos)) ELSE o
  <2>1. UnitsOf(TurnOf(s, t, g_pos).out, sequence) =
          IF t.kind \in MediaKinds /\ SeqAt(s, t) - 1 = sequence
            THEN Append(UnitsOf(OutAt(s, t, g_pos), sequence), UnitAt(s, t, g_pos))
            ELSE UnitsOf(OutAt(s, t, g_pos), sequence)
    BY <1>4, TurnUnits
  <2> QED BY <1>4, <1>o, <1>v, <2>1
\* As many packets on both sides.
<1>9. ASSUME NEW n \in Nat, g_count' = G!Count + n, v.count = CountAt(s, t) + n, one,
             program = "getts"
      PROVE  g_next_prev_pat_pmt_output' - g_count' = v.due - v.count
  <2>1. NextDue - G!Count = DueAt(s, t) - CountAt(s, t) BY <1>5, <1>9
  <2>2. G!Count \in Nat /\ NextDue \in Nat BY <1>5
  <2>3. NextDue - (G!Count + n) = DueAt(s, t) - (CountAt(s, t) + n) BY <1>7, <2>1, <2>2
  <2> QED BY <1>1, <1>7, <1>9, <2>3
\* One unit more on both sides.
<1>10. ASSUME NEW u \in Unit, NEW w \in Unit, u.kind # "tables", w.kind # "tables", u.tag = w.tag,
              one => u = w, UnitsOf(v.out, sequence) = Append(o, u), units' = Append(us, w)
       PROVE  /\ units' \in Seq(Unit) /\ units' # <<>> /\ units'[1] = TablesUnit(start_state.pos)
              /\ Made(one, program, UnitsOf(v.out, sequence), units')
  <2>1. Made(one, program, Append(o, u), Append(us, w)) /\ Append(us, w) \in Seq(Unit)
    BY <1>5, <1>10, MadeAppend
  <2>2. /\ Len(us) \in Nat /\ Len(us) > 0 /\ Len(Append(us, w)) = Len(us) + 1
        /\ Append(us, w)[1] = us[1]
    BY <1>5
  <2> QED BY <1>5, <1>10, <2>1, <2>2
<1>11. CASE G!Skip
  <2>1. G!tag.kind \in G!SkippedKinds \cup {"avc_config"} /\ g_count' = G!Count /\ units' = us
        /\ g_counter' = g_counter /\ video_first' = video_first
    BY <1>11, <1>u DEF G!Skip, G!AtTag
  <2>2. t.kind \notin MediaKinds
    BY <1>t, <2>1 DEF G!tag, G!SkippedKinds, MediaKinds
  <2>3. v.counter = s.counter /\ v.count = CountAt(s, t) /\ v.sps_pps_write = WrittenAt(s, t)
    BY <1>6, <2>2 DEF TurnSpec
  <2>4. UnitsOf(v.out, sequence) = o BY <1>8, <2>2
  <2>5. InStep(one, program, v, g_counter', g_next_prev_pat_pmt_output', g_count')
    BY <1>1, <1>5, <1>7, <2>1, <2>3 DEF InStep
  <2> QED BY <1>1, <1>2, <1>5, <1>e, <1>v, <2>1, <2>3, <2>4, <2>5, GGoesOn
<1>12. CASE G!Audio
  <2>1. /\ G!tag.kind = "aac" /\ units' = Append(us, G!AudioUnit(g_pos, G!tag, g_counter))
        /\ g_counter' = [g_counter EXCEPT !["audio"] = @ + G!AudioPackets(G!tag)]
        /\ g_count' = G!Count + G!AudioPackets(G!tag) /\ video_first' = video_first
    BY <1>12, <1>u DEF G!Audio, G!AtTag
  <2>2. t.kind = "aac" /\ G!tag = t BY <1>t, <2>1 DEF G!tag
  <2>3. PICK n : n = AudioPackets(t) OBVIOUS
  <2>4. PICK u : u = AudioUnit(g_pos, t, s.counter) OBVIOUS
  <2>5. PICK w : w = AudioUnit(g_pos, t, g_counter) OBVIOUS
  <2>6. /\ G!AudioUnit(g_pos, t, g_counter) = AudioUnit(g_pos, t, g_counter)
        /\ G!AudioPackets(t) = AudioPackets(t)
    BY SharedG
  <2>7. units' = Append(us, w) /\ g_counter' = Added(g_counter, "audio", n) /\ g_count' = G!Count + n
    BY <2>1, <2>2, <2>3, <2>5, <2>6 DEF Added
  <2>8. /\ v.counter = Added(s.counter, "audio", n) /\ v.count = CountAt(s, t) + n
        /\ v.sps_pps_write = WrittenAt(s, t)
    BY <1>6, <2>2, <2>3 DEF TurnSpec
  <2>9. /\ u \in Unit /\ w \in Unit /\ n \in Nat
        /\ u.kind # "tables" /\ w.kind # "tables" /\ u.tag = w.tag
    <3>1. u \in Unit /\ w \in Unit /\ n \in Nat
      BY <1>4, <1>5, <1>7, <2>3, <2>4, <2>5, UnitTypes
    <3>2. u.kind = "audio" /\ w.kind = "audio" /\ u.tag = g_pos /\ w.tag = g_pos
      BY <2>4, <2>5 DEF AudioUnit
    <3> QED BY <3>1, <3>2
  <2>10. one => u = w
    <3>1. one => g_counter["audio"] % 16 = s.counter["audio"] % 16 BY <1>5 DEF Streams
    <3> QED BY <2>4, <2>5, <3>1 DEF AudioUnit
  <2>11. UnitsOf(v.out, sequence) = Append(o, u)
    BY <1>8, <2>2, <2>4 DEF MediaKinds, UnitAt
  <2>12. /\ units' \in Seq(Unit) /\ units' # <<>> /\ units'[1] = TablesUnit(start_state.pos)
         /\ Made(one, program, UnitsOf(v.out, sequence), units')
    BY <1>10, <2>7, <2>9, <2>10, <2>11
  <2>13. /\ g_counter' \in [Streams -> Nat]
         /\ one => \A st \in Streams : g_counter'[st] % 16 = v.counter[st] % 16
    <3>1. PICK c : c = g_counter OBVIOUS
    <3>2. PICK d : d = s.counter OBVIOUS
    <3>3. c \in [Streams -> Nat] /\ d \in [Streams -> Nat] /\ "audio" \in Streams
      BY <1>5, <1>7, <3>1, <3>2 DEF Streams
    <3>4. /\ Added(c, "audio", n) \in [Streams -> Nat]
          /\ (\A st \in Streams : c[st] % 16 = d[st] % 16) =>
               \A st \in Streams : Added(c, "audio", n)[st] % 16 = Added(d, "audio", n)[st] % 16
      BY <2>9, <3>3, AddedInStep
    <3>5. one => \A st \in Streams : c[st] % 16 = d[st] % 16 BY <1>5, <3>1, <3>2
    <3>6. g_counter' = Added(c, "audio", n) /\ (one => v.counter = Added(d, "audio", n))
      BY <2>7, <2>8, <3>1, <3>2
    <3> QED BY <3>4, <3>5, <3>6
  <2>14. InStep(one, program, v, g_counter', g_next_prev_pat_pmt_output', g_count')
    BY <1>9, <2>7, <2>8, <2>9, <2>13 DEF InStep
  <2>15. g_count' \in Nat /\ g_next_prev_pat_pmt_output' \in Nat BY <1>1, <1>5, <2>7, <2>9
  <2> QED BY <1>1, <1>2, <1>5, <1>e, <1>v, <2>1, <2>8, <2>12, <2>13, <2>14, <2>15, GGoesOn
<1>13. CASE G!Video
  <2>1. PICK x : x = (IF video_first THEN G!ParameterSets(g_conf) ELSE <<>>) OBVIOUS
  <2>a. PICK i : i = g_conf.width OBVIOUS
  <2>b. PICK j : j = s.conf.width OBVIOUS
  <2>2. /\ G!tag.kind = "nalu" /\ units' = Append(us, G!VideoUnit(g_pos, G!tag, g_counter, x, i))
        /\ g_counter' = [g_counter EXCEPT !["video"] = @ + G!VideoPackets(G!tag, x, i)]
        /\ g_count' = G!Count + G!VideoPackets(G!tag, x, i) /\ video_first' = FALSE
    BY <1>13, <1>u, <2>1, <2>a DEF G!Video, G!AtTag
  <2>3. t.kind = "nalu" /\ G!tag = t BY <1>t, <2>2 DEF G!tag
  <2>4. PICK q \in Headers(flv) : g_conf = ParseConf(NoConf, flv.tags[q].header)
    BY <1>1 DEF GInv, ReadInv
  <2>5. PICK y : y = flv.tags[q].header OBVIOUS
  <2>6. /\ y.sps \o y.pps \in Seq(DOMAIN SetSize) /\ G!ParameterSets(g_conf) = y.sps \o y.pps
        /\ i = y.width
    <3>1. flv.tags[q] \in TagType /\ flv.tags[q].kind = "avc_config"
      BY <2>4, FileFacts DEF Headers
    <3>2. y \in Header BY <2>5, <3>1, TagFields
    <3>3. y.sps \in Seq(DOMAIN SetSize) /\ y.pps \in Seq(DOMAIN SetSize) BY <3>2 DEF Header, Sets
    <3>4. y.sps \o y.pps \in Seq(DOMAIN SetSize)
      <4>1. PICK a, b : a = y.sps /\ b = y.pps OBVIOUS
      <4>2. a \o b \in Seq(DOMAIN SetSize) BY <3>3, <4>1
      <4> QED BY <4>1, <4>2
    <3>5. /\ ParameterSets(ParseConf(NoConf, y)) = y.sps \o y.pps
          /\ ParseConf(NoConf, y).width = y.width
      BY <3>2, SetsOfHeader
    <3>6. G!ParameterSets(ParseConf(NoConf, y)) = ParameterSets(ParseConf(NoConf, y)) BY SharedG
    <3> QED BY <2>4, <2>5, <2>a, <3>4, <3>5, <3>6
  <2>7. PICK z : z = SetsAt(s, t) OBVIOUS
  <2>8. x \in Seq(DOMAIN SetSize) /\ z \in Seq(DOMAIN SetSize)
    <3>1. <<>> \in Seq(DOMAIN SetSize) OBVIOUS
    <3> QED BY <1>7, <2>1, <2>6, <2>7, <3>1
  <2>9. one => x = z /\ i = j
    <3>1. s.conf.width # 0 BY <1>4, <1>s, <1>t, <2>3 DEF Goes, Fits
    <3>2. flv \in File /\ g_pos \in 1..Len(flv.tags)+1 BY <1>1, <1>4, FileFacts
    <3>3. one => ParameterSets(s.conf) = y.sps \o y.pps /\ s.conf.width = y.width
      BY <1>e, <1>s, <2>4, <2>5, <3>1, <3>2, SetsOfLoop
    <3> QED BY <1>5, <2>1, <2>6, <2>7, <2>b, <3>3 DEF SetsAt
  <2>10. PICK n, m : n = VideoPackets(t, x, i) /\ m = VideoPackets(t, z, j) OBVIOUS
  <2>11. PICK u : u = VideoUnit(g_pos, t, s.counter, z, j) OBVIOUS
  <2>12. PICK w : w = VideoUnit(g_pos, t, g_counter, x, i) OBVIOUS
  <2>13. /\ G!VideoUnit(g_pos, t, g_counter, x, i) = VideoUnit(g_pos, t, g_counter, x, i)
         /\ G!VideoPackets(t, x, i) = VideoPackets(t, x, i)
    BY SharedG
  <2>14. units' = Append(us, w) /\ g_counter' = Added(g_counter, "video", n) /\ g_count' = G!Count + n
    BY <2>2, <2>3, <2>10, <2>12, <2>13 DEF Added
  <2>15. /\ v.counter = Added(s.counter, "video", m) /\ v.count = CountAt(s, t) + m
         /\ v.sps_pps_write = TRUE
    BY <1>6, <2>3, <2>7, <2>10, <2>b DEF TurnSpec
  <2>16. one => n = m BY <2>9, <2>10
  <2>17. /\ u \in Unit /\ w \in Unit /\ n \in Nat
         /\ u.kind # "tables" /\ w.kind # "tables" /\ u.tag = w.tag
    <3>1. u \in Unit /\ w \in Unit /\ n \in Nat
      BY <1>4, <1>5, <1>7, <2>8, <2>10, <2>11, <2>12, UnitTypes
    <3>2. u.kind = "video" /\ w.kind = "video" /\ u.tag = g_pos /\ w.tag = g_pos
      BY <2>11, <2>12 DEF VideoUnit
    <3> QED BY <3>1, <3>2
  <2>18. one => u = w
    <3>1. one => g_counter["video"] % 16 = s.counter["video"] % 16 BY <1>5 DEF Streams
    <3> QED BY <2>9, <2>11, <2>12, <3>1 DEF VideoUnit
  <2>19. UnitsOf(v.out, sequence) = Append(o, u)
    BY <1>8, <2>3, <2>7, <2>11, <2>b DEF MediaKinds, UnitAt
  <2>20. /\ units' \in Seq(Unit) /\ units' # <<>> /\ units'[1] = TablesUnit(start_state.pos)
         /\ Made(one, program, UnitsOf(v.out, sequence), units')
    BY <1>10, <2>14, <2>17, <2>18, <2>19
  <2>21. /\ g_counter' \in [Streams -> Nat]
         /\ one => \A st \in Streams : g_counter'[st] % 16 = v.counter[st] % 16
    <3>1. PICK c : c = g_counter OBVIOUS
    <3>2. PICK d : d = s.counter OBVIOUS
    <3>3. c \in [Streams -> Nat] /\ d \in [Streams -> Nat] /\ "video" \in Streams
      BY <1>5, <1>7, <3>1, <3>2 DEF Streams
    <3>4. /\ Added(c, "video", n) \in [Streams -> Nat]
          /\ (\A st \in Streams : c[st] % 16 = d[st] % 16) =>
               \A st \in Streams : Added(c, "video", n)[st] % 16 = Added(d, "video", n)[st] % 16
      BY <2>17, <3>3, AddedInStep
    <3>5. one => \A st \in Streams : c[st] % 16 = d[st] % 16 BY <1>5, <3>1, <3>2
    <3>6. g_counter' = Added(c, "video", n) /\ (one => v.counter = Added(d, "video", n))
      BY <2>14, <2>15, <2>16, <3>1, <3>2
    <3> QED BY <3>4, <3>5, <3>6
  <2>22. InStep(one, program, v, g_counter', g_next_prev_pat_pmt_output', g_count')
    BY <1>9, <2>14, <2>15, <2>16, <2>17, <2>21 DEF InStep
  <2>23. g_count' \in Nat /\ g_next_prev_pat_pmt_output' \in Nat BY <1>1, <1>5, <2>14, <2>17
  <2>24. video_first' = ~v.sps_pps_write BY <2>2, <2>15
  <2> QED BY <1>1, <1>2, <1>5, <1>e, <1>v, <2>20, <2>21, <2>22, <2>23, <2>24, GGoesOn
<1> QED BY <1>11, <1>12, <1>13

\* Before the first tag and behind the last one.  Nothing but the stream, the
\* configuration or an entry changes at a time.
LEMMA GKept ==
  ASSUME GInv, flv' = flv, program' = program, sequence' = sequence,
         g_pc' \in {"conf", "parse_conf", "map_index", "start_state", "end_state",
                    "open", "unopened", "tags", "done", "failed", "undefined"},
         EntriesInv', ReadInv', StreamInv'
  PROVE  GInv'
BY DEF GInv

LEMMA FreshKept ==
  ASSUME GInv, g_pc \notin {"tags", "done", "failed"}, g_pc' \notin {"tags", "done"},
         UNCHANGED <<g_pos, g_counter, video_first, g_next_prev_pat_pmt_output, g_count, units>>
  PROVE  StreamInv'
<1>1. Fresh /\ units = <<>> /\ g_pos \in Nat /\ g_counter \in [Streams -> Nat] /\ g_count \in Nat
      /\ g_next_prev_pat_pmt_output \in Nat
  BY DEF GInv, StreamInv, Fresh
<1>2. Fresh' BY <1>1 DEF Fresh
<1>3. units' = <<>> BY <1>1
<1> QED BY <1>1, <1>2, <1>3 DEF StreamInv

LEMMA EntriesKept ==
  ASSUME GInv, UNCHANGED <<flv, sequence, start_state, end_state>>, g_pc' # "idle"
  PROVE  EntriesInv'
BY DEF GInv, EntriesInv, IsEntry, G!NoEntry

LEMMA GFirst ==
  ASSUME flv \in Files, BInv, GInv, G!MapConf \/ G!ReadConf \/ G!MapIndex
  PROVE  GInv'
<1>1. /\ UNCHANGED <<flv, program, sequence, start_state, end_state, g_pos, g_counter, video_first,
                     g_next_prev_pat_pmt_output, g_count, units>>
      /\ g_pc \in {"conf", "parse_conf", "map_index"}
      /\ g_pc' \in {"parse_conf", "map_index", "start_state", "failed", "undefined"}
  BY DEF G!MapConf, G!ReadConf, G!MapIndex, G!inputs, G!maps, G!request, G!stream
<1>2. EntriesInv' BY <1>1, EntriesKept
<1>3. StreamInv' BY <1>1, FreshKept
<1>4. ReadInv'
  <2>1. CASE G!MapConf
    <3>1. /\ g_pc = "conf" /\ mapped_conf' = avc_conf /\ g_conf' = g_conf
          /\ g_pc' = IF avc_conf = NoHeader THEN "failed" ELSE "parse_conf"
      BY <2>1 DEF G!MapConf, G!NoHeader, NoHeader
    <3> QED BY <3>1 DEF GInv, ReadInv
  <2>2. CASE G!ReadConf
    <3>1. /\ g_pc = "parse_conf"
          /\ \/ avc_conf = mapped_conf /\ g_pc' = "map_index" /\ g_conf' = G!ParseConf(g_conf, avc_conf)
             \/ g_pc' = "undefined" /\ g_conf' = g_conf
      BY <2>2 DEF G!ReadConf
    <3>2. g_conf = NoConf /\ mapped_conf # NoHeader BY <3>1 DEF GInv, ReadInv
    <3>3. CASE avc_conf = mapped_conf /\ g_pc' = "map_index" /\ g_conf' = G!ParseConf(g_conf, avc_conf)
      <4>1. PICK q \in Headers(flv) : avc_conf = flv.tags[q].header
        BY <3>2, <3>3 DEF BInv, FilesInv
      <4>2. G!ParseConf(NoConf, avc_conf) = ParseConf(NoConf, avc_conf) BY SharedG
      <4>3. g_conf' = ParseConf(NoConf, flv.tags[q].header) BY <3>2, <3>3, <4>1, <4>2
      <4>4. \E x \in Headers(flv) : g_conf' = ParseConf(NoConf, flv.tags[x].header) BY <4>3
      <4> QED BY <1>1, <3>3, <4>4 DEF ReadInv
    <3>4. CASE g_pc' = "undefined" /\ g_conf' = g_conf
      BY <3>4 DEF ReadInv
    <3> QED BY <3>1, <3>3, <3>4
  <2>3. CASE G!MapIndex
    <3>1. g_pc = "map_index" /\ g_conf' = g_conf /\ g_pc' \in {"failed", "start_state"}
      BY <2>3 DEF G!MapIndex
    <3>2. \E q \in Headers(flv) : g_conf = ParseConf(NoConf, flv.tags[q].header)
      BY <3>1 DEF GInv, ReadInv
    <3> QED BY <1>1, <3>1, <3>2 DEF ReadInv
  <2> QED BY <2>1, <2>2, <2>3
<1> QED BY <1>1, <1>2, <1>3, <1>4, GKept

\* An entry of the index that the request finds belongs to its number.
LEMMA EntryFound ==
  ASSUME BInv, NEW n \in Nat
  PROVE  G!EntryAt(n) = G!NoEntry \/ IsEntry(n, G!EntryAt(n))
<1>1. /\ flushed \in 0..Len(ts_index) /\ Len(ts_index) \in Nat
      /\ \A k \in 1..Len(ts_index) : IsEntry(k - 1, ts_index[k])
  BY DEF BInv, FilesInv
<1>2. CASE n < flushed
  <2>1. n + 1 \in 1..Len(ts_index) /\ (n + 1) - 1 = n BY <1>1, <1>2
  <2>2. IsEntry((n + 1) - 1, ts_index[n+1]) BY <1>1, <2>1
  <2> QED BY <1>2, <2>1, <2>2 DEF G!EntryAt
<1>3. CASE ~(n < flushed) BY <1>3 DEF G!EntryAt
<1> QED BY <1>2, <1>3

LEMMA GRead ==
  ASSUME flv \in Files, BInv, GInv, G!ReadStart \/ G!ReadEnd
  PROVE  GInv'
<1>1. /\ UNCHANGED <<flv, program, sequence, mapped_conf, g_conf, g_pos, g_counter, video_first,
                     g_next_prev_pat_pmt_output, g_count, units>>
      /\ g_pc \in {"start_state", "end_state"}
      /\ g_pc' \in {"end_state", "open", "undefined"}
  BY DEF G!ReadStart, G!ReadEnd, G!inputs, G!maps, G!request, G!stream
<1>2. StreamInv' BY <1>1, FreshKept
<1>3. ReadInv'
  <2>1. \E q \in Headers(flv) : g_conf = ParseConf(NoConf, flv.tags[q].header)
    BY <1>1 DEF GInv, ReadInv
  <2> QED BY <1>1, <2>1 DEF ReadInv
<1>4. EntriesInv'
  <2>1. /\ start_state' \in {start_state, G!EntryAt(sequence)}
        /\ end_state' \in {end_state, G!EntryAt(sequence + 1)}
    BY DEF G!ReadStart, G!ReadEnd
  <2>2. sequence \in Nat /\ sequence + 1 \in Nat BY NumberAsked
  <2>3. /\ start_state' = G!NoEntry \/ IsEntry(sequence, start_state')
        /\ end_state' = G!NoEntry \/ IsEntry(sequence + 1, end_state')
    BY <2>1, <2>2, EntryFound DEF GInv, EntriesInv
  <2> QED BY <1>1, <2>3 DEF EntriesInv, IsEntry, G!NoEntry
<1> QED BY <1>1, <1>2, <1>3, <1>4, GKept

LEMMA GOpenError ==
  ASSUME flv \in Files, GInv, G!OpenError
  PROVE  GInv'
<1>1. /\ UNCHANGED <<flv, program, sequence, mapped_conf, g_conf, start_state, end_state, g_pos,
                     g_counter, video_first, g_next_prev_pat_pmt_output, g_count, units>>
      /\ g_pc = "open" /\ g_pc' = "unopened"
  BY DEF G!OpenError, G!inputs, G!maps, G!request, G!stream
<1>2. EntriesInv' BY <1>1, EntriesKept
<1>3. StreamInv' BY <1>1, FreshKept
<1>4. ReadInv' BY <1>1 DEF ReadInv
<1> QED BY <1>1, <1>2, <1>3, <1>4, GKept

LEMMA GOpen ==
  ASSUME flv \in Files, GInv, G!Open
  PROVE  GInv'
<1>1. /\ UNCHANGED <<flv, program, sequence, mapped_conf, g_conf, start_state, end_state, video_first>>
      /\ g_pc = "open" /\ g_pc' \in {"tags", "failed"}
      /\ g_pc' = "failed" =>
           UNCHANGED <<g_pos, g_counter, g_next_prev_pat_pmt_output, g_count, units>>
      /\ g_pc' = "tags" =>
           /\ start_state.pos <= end_state.pos /\ g_pos' = start_state.pos
           /\ g_counter' = G!Restored /\ units' = Append(units, G!TablesUnit(start_state.pos))
           /\ g_count' = g_count + 2
           /\ g_next_prev_pat_pmt_output' = g_count + 2 + PAT_PMT_INTERVAL
  BY DEF G!Open, G!inputs, G!maps, G!request
<1>2. EntriesInv' BY <1>1, EntriesKept
<1>3. ReadInv'
  <2>1. \E q \in Headers(flv) : g_conf = ParseConf(NoConf, flv.tags[q].header)
    BY <1>1 DEF GInv, ReadInv
  <2> QED BY <1>1, <2>1 DEF ReadInv
<1>4. StreamInv'
  <2>1. CASE g_pc' = "failed" BY <1>1, <2>1, FreshKept
  <2>2. CASE g_pc' = "tags"
    <3>1. units = <<>> /\ video_first = TRUE /\ g_count = 0
      BY <1>1 DEF GInv, StreamInv, Fresh
    <3>2. G!TablesUnit(start_state.pos) = TablesUnit(start_state.pos) BY SharedG
    <3>3. units' = <<TablesUnit(start_state.pos)>> /\ units'[1] = TablesUnit(start_state.pos)
      BY <1>1, <2>2, <3>1, <3>2
    <3>4. g_counter' = [st \in Streams |-> IF st = "video" THEN start_state.video
                                                           ELSE start_state.audio]
      BY <1>1, <2>2 DEF G!Restored, G!Streams, Streams
    <3>5. start_state.audio \in Nat /\ start_state.video \in Nat /\ start_state.pos \in Nat
      <4>1. start_state = G!NoEntry \/ IsEntry(sequence, start_state) BY DEF GInv, EntriesInv
      <4>2. /\ start_state.audio \in 0..15 /\ start_state.video \in 0..15
            /\ start_state.pos \in 0..Len(flv.tags)+1
        BY <4>1, EntryTypes
      <4>3. PICK m : m = Len(flv.tags) + 1 OBVIOUS
      <4>4. m \in Nat BY <4>3, FileFacts
      <4>5. PICK e : e = start_state OBVIOUS
      <4>6. e.audio \in 0..15 /\ e.video \in 0..15 /\ e.pos \in 0..m BY <4>2, <4>3, <4>5
      <4>7. e.audio \in Nat /\ e.video \in Nat /\ e.pos \in Nat BY <4>4, <4>6
      <4> QED BY <4>5, <4>7
    <3>6. g_counter' \in [Streams -> Nat] BY <3>4, <3>5
    <3>7. g_count' = 2 /\ g_next_prev_pat_pmt_output' = 2 + PAT_PMT_INTERVAL
      BY <1>1, <2>2, <3>1, IntervalAssumption
    <3>8. AtStart' BY <1>1, <2>2, <3>1, <3>3, <3>4, <3>7 DEF AtStart
    <3> QED BY <1>1, <2>2, <3>3, <3>5, <3>6, <3>7, <3>8, IntervalAssumption DEF StreamInv
  <2> QED BY <1>1, <2>1, <2>2
<1> QED BY <1>1, <1>2, <1>3, <1>4, GKept

LEMMA GLast ==
  ASSUME flv \in Files, GInv, G!Finish \/ G!ParseError
  PROVE  GInv'
<1>1. /\ UNCHANGED <<flv, program, sequence, mapped_conf, g_conf, start_state, end_state, g_pos,
                     g_counter, video_first, g_next_prev_pat_pmt_output, g_count, units>>
      /\ g_pc = "tags"
      /\ \/ g_pc' = "done" /\ g_pos >= end_state.pos
         \/ g_pc' = "failed" /\ g_pos = 0
  BY DEF G!Finish, G!ParseError, G!inputs, G!maps, G!request, G!stream
<1>2. EntriesInv' BY <1>1, EntriesKept
<1>3. ReadInv'
  <2>1. \E q \in Headers(flv) : g_conf = ParseConf(NoConf, flv.tags[q].header)
    BY <1>1 DEF GInv, ReadInv
  <2> QED BY <1>1, <2>1 DEF ReadInv
<1>4. StreamInv'
  <2>1. /\ AtStart \/ InSegment
        /\ g_pos \in Nat
        /\ g_counter \in [Streams -> Nat] /\ g_count \in Nat /\ g_next_prev_pat_pmt_output \in Nat
        /\ units # <<>> => units[1] = TablesUnit(start_state.pos)
    BY <1>1 DEF GInv, StreamInv
  <2>2. AtStart' \/ InSegment'
    BY <1>1, <2>1 DEF AtStart, InSegment, G!NoEntry
  <2>3. g_pc' = "done" => g_pos' = end_state'.pos
    <3>1. start_state.pos \in Nat /\ end_state.pos \in Nat
      <4>1. start_state = G!NoEntry \/ IsEntry(sequence, start_state) BY DEF GInv, EntriesInv
      <4>2. end_state = G!NoEntry \/ IsEntry(sequence + 1, end_state) BY DEF GInv, EntriesInv
      <4>3. start_state.pos \in 0..Len(flv.tags)+1 /\ end_state.pos \in 0..Len(flv.tags)+1
        BY <4>1, <4>2, EntryTypes
      <4> QED BY <4>3
    <3>2. CASE AtStart BY <1>1, <3>1, <3>2 DEF AtStart
    <3>3. CASE InSegment
      <4>1. start_state.pos < g_pos /\ g_pos <= end_state.pos BY <3>3 DEF InSegment
      <4>2. g_pc' = "done" => g_pos >= end_state.pos BY <1>1
      <4> QED BY <1>1, <2>1, <3>1, <4>1, <4>2
    <3> QED BY <2>1, <3>2, <3>3
  <2>4. g_pc' = "failed" => AtStart' /\ g_pos' = 0
    <3>1. CASE AtStart BY <1>1, <3>1 DEF AtStart
    <3>2. CASE InSegment
      <4>1. start_state # G!NoEntry /\ start_state.pos < g_pos BY <3>2 DEF InSegment
      <4>2. start_state = G!NoEntry \/ IsEntry(sequence, start_state) BY DEF GInv, EntriesInv
      <4>3. start_state.pos > 0 /\ start_state.pos \in 0..Len(flv.tags)+1
        BY <4>1, <4>2, EntryTypes
      <4>4. g_pos # 0 BY <4>1, <4>3
      <4> QED BY <1>1, <4>4
    <3> QED BY <2>1, <3>1, <3>2
  <2> QED BY <1>1, <2>1, <2>2, <2>3, <2>4 DEF StreamInv
<1> QED BY <1>1, <1>2, <1>3, <1>4, GKept

\* A tag that getts gives up on: the tables may have been sent again, no more.
LEMMA GGiveUp ==
  ASSUME flv \in Files, GInv, G!GiveUp
  PROVE  GInv'
<1>s. PICK s : s = Loop(flv)[g_pos] OBVIOUS
<1>t. PICK t : t = flv.tags[g_pos] OBVIOUS
<1>o. PICK o : o = UnitsOf(s.out, sequence) OBVIOUS
<1>w. PICK w : w = UnitsOf(OutAt(s, t, g_pos), sequence) OBVIOUS
<1>1. /\ g_pc = "tags" /\ g_pos \in 1..Len(flv.tags) /\ g_pos < end_state.pos /\ g_pc' = "failed"
      /\ g_pos' = g_pos + 1 /\ g_next_prev_pat_pmt_output' = NextDue
      /\ g_count' = G!Count /\ units' = G!Units /\ g_counter' = g_counter
      /\ video_first' = (video_first /\ G!tag.kind # "nalu")
      /\ UNCHANGED <<flv, program, sequence, mapped_conf, g_conf, start_state, end_state>>
  BY FileFacts DEF G!GiveUp, G!AtTag, G!Turn, NextDue, G!inputs, G!maps, G!request
<1>2. Inside(s, t) BY <1>1, <1>s, <1>t, InsideFacts
<1>3. Behind(s, t)
  <2>1. AtStart \/ InSegment BY <1>1 DEF GInv, StreamInv
  <2> QED BY <1>2, <2>1, BehindStart, BehindInside
<1>4. /\ LoopOk(s) /\ t \in TagType /\ g_pos \in Nat /\ sequence \in Nat
      /\ start_state # G!NoEntry /\ end_state # G!NoEntry
      /\ start_state.pos \in Nat /\ start_state.pos <= g_pos
  BY <1>1, <1>2 DEF Inside
<1>5. /\ G!Units \in Seq(Unit) /\ G!Units # <<>> /\ G!Units[1] = TablesUnit(start_state.pos)
      /\ TagsOf(G!Units) = TagsOf(w)
      /\ G!Count \in Nat /\ NextDue \in Nat /\ g_counter \in [Streams -> Nat]
  BY <1>3, <1>w DEF Behind, Made
<1>6. TagsOf(w) = TagsOf(o)
  <2>1. PICK p : p = g_pos OBVIOUS
  <2>2. PICK T : T = TablesUnit(p) OBVIOUS
  <2>3. T \in Unit /\ T.kind = "tables" BY <1>4, <2>1, <2>2, TablesType
  <2>4. o \in Seq(Unit) /\ (w = Append(o, T) \/ w = o)
    BY <1>4, <1>o, <1>w, <2>1, <2>2, TurnUnits
  <2>5. TagsOf(Append(o, T)) = TagsOf(o) BY <2>3, <2>4, MediaAppend
  <2> QED BY <2>4, <2>5
<1>7. (g_pos + 1) - 1 = g_pos /\ g_pos + 1 \in Nat BY <1>4
<1>8. video_first' \in BOOLEAN
  <2>1. video_first \in BOOLEAN BY <1>3 DEF Behind
  <2> QED BY <1>1
<1>9. GaveUp'
  <2>1. TagsOf(units') = TagsOf(UnitsOf(Loop(flv)[g_pos].out, sequence))
    BY <1>1, <1>5, <1>6, <1>o, <1>s
  <2> QED BY <1>1, <1>4, <1>5, <1>7, <1>8, <2>1 DEF GaveUp, G!NoEntry
<1>10. StreamInv' BY <1>1, <1>5, <1>7, <1>9 DEF StreamInv
<1>11. EntriesInv' BY <1>1, EntriesKept
<1>12. ReadInv' BY <1>1 DEF ReadInv
<1> QED BY <1>1, <1>10, <1>11, <1>12, GKept

\* A request is made, and its process ends.
LEMMA GAsk ==
  ASSUME GInv, flv \in Files, NEW which \in {"getts", "libgetts"}, NEW n \in Sequences,
         G!Request(which, n)
  PROVE  GInv'
<1>1. /\ UNCHANGED <<flv, mapped_conf, g_conf, start_state, end_state, g_pos, g_counter, video_first,
                     g_next_prev_pat_pmt_output, g_count, units>>
      /\ g_pc = "idle" /\ g_pc' = "conf" /\ program' = which /\ sequence' = n
  BY DEF G!Request, G!inputs, G!maps, G!stream
<1>2. StreamInv' BY <1>1, FreshKept
<1>3. ReadInv' BY <1>1 DEF GInv, ReadInv
<1>4. EntriesInv' BY <1>1 DEF GInv, EntriesInv, G!NoEntry
<1> QED BY <1>1, <1>2, <1>3, <1>4 DEF GInv

LEMMA GLeave ==
  ASSUME GInv, G!Exit
  PROVE  GInv' /\ g_pc' = "idle" /\ flv' = flv
<1>1. /\ program' = "getts" /\ sequence' = 0 /\ g_pc' = "idle" /\ g_conf' = G!NoConf
      /\ start_state' = G!NoEntry /\ end_state' = G!NoEntry /\ g_pos' = 0
      /\ g_counter' = [st \in G!Streams |-> 0] /\ video_first' = TRUE
      /\ g_next_prev_pat_pmt_output' = 0 /\ g_count' = 0 /\ units' = <<>> /\ flv' = flv
  BY DEF G!Exit, G!inputs
<1>2. g_conf' = NoConf BY <1>1 DEF G!NoConf, NoConf, G!NoSets, NoSets
<1>3. g_counter' = [st \in Streams |-> 0] BY <1>1 DEF G!Streams, Streams
<1>4. g_counter' \in [Streams -> Nat] BY <1>3
<1>5. Fresh' BY <1>1, <1>3 DEF Fresh
<1>6. StreamInv' BY <1>1, <1>4, <1>5 DEF StreamInv
<1>7. ReadInv' BY <1>1, <1>2 DEF ReadInv
<1>8. EntriesInv' BY <1>1 DEF EntriesInv, G!NoEntry
<1> QED BY <1>1, <1>6, <1>7, <1>8 DEF GInv

\* Nothing that getts has changes under the other two.
LEMMA GAlone ==
  ASSUME GInv, flv' = flv, UNCHANGED g_vars
  PROVE  GInv'
<1>1. UNCHANGED <<program, sequence, g_pc, mapped_conf, g_conf, start_state, end_state, g_pos,
                  g_counter, video_first, g_next_prev_pat_pmt_output, g_count, units>>
  BY DEF g_vars
<1>2. EntriesInv' BY <1>1 DEF GInv, EntriesInv, IsEntry, G!NoEntry
<1>3. ReadInv' BY <1>1 DEF GInv, ReadInv
<1>4. StreamInv'
  <2>1. AtStart' <=> AtStart BY <1>1 DEF AtStart
  <2>2. InSegment' <=> InSegment BY <1>1 DEF InSegment, G!NoEntry
  <2>3. Fresh' <=> Fresh BY <1>1 DEF Fresh
  <2>4. GaveUp' <=> GaveUp BY <1>1 DEF GaveUp, G!NoEntry
  <2> QED BY <1>1, <2>1, <2>2, <2>3, <2>4 DEF GInv, StreamInv
<1> QED BY <1>1, <1>2, <1>3, <1>4 DEF GInv

----------------------------------------------------------------------------
(* A request that finds the playlist complete.                             *)

\* The pages of a file hold all of it.
LEMMA PagesHold ==
  ASSUME NEW e \in Nat
  PROVE  G!Pages(e) * PageEntries \in Nat /\ e <= G!Pages(e) * PageEntries
<1> DEFINE P == PageEntries
           x == e + P - 1
           q == x \div P
<1>1. P \in Nat /\ P > 0 BY PageAssumption
<1>2. x \in Nat BY <1>1
<1> HIDE DEF P, x
<1>3. q \in Nat /\ x % P \in 0..P-1 /\ x = P * q + (x % P)
  BY <1>1, <1>2
<1> HIDE DEF q
<1>4. x < P * q + P BY <1>1, <1>2, <1>3
<1>5. x = e + P - 1 BY DEF x
<1>6. P * q = q * P /\ P * q \in Nat BY <1>1, <1>3
<1>7. e <= q * P BY <1>1, <1>2, <1>4, <1>5, <1>6
<1>8. G!Pages(e) = q BY DEF G!Pages, P, x, q
<1> QED BY <1>6, <1>7, <1>8 DEF P

LEMMA CompleteFacts ==
  ASSUME flv \in Files, BInv, b_pc = "done"
  PROVE  /\ m3u8 \in Nat /\ flushed = m3u8 + 1 /\ Len(ts_index) = flushed
         /\ HasHeader => avc_conf # NoHeader
<1>1. flv \in File /\ Len(flv.tags) \in Nat BY FileFacts
<1>2. /\ b_pos \in 1..Stop(flv) /\ b_pos \in Nat /\ EosAfter(flv, b_pos)
      /\ Len(ts_index) = m3u8 + 1 /\ flushed = Len(ts_index)
      /\ (\E q \in Headers(flv) : q < b_pos) => avc_conf # NoHeader
  BY <1>1, BFacts DEF BLoop
<1>3. m3u8 \in Nat BY <1>1, <1>2, LastFacts DEF BInv, FilesInv
<1>4. ASSUME HasHeader PROVE \E q \in Headers(flv) : q < b_pos
  <2>1. PICK q \in 1..Len(flv.tags) : B!TagAt(flv, q) /\ flv.tags[q].kind = "avc_config"
    BY <1>4 DEF HasHeader
  <2>2. TagAt(flv, q) BY <2>1, SharedB
  <2>3. q < b_pos BY <1>1, <1>2, <2>1, <2>2 DEF TagAt, EosAfter
  <2> QED BY <2>1, <2>3 DEF Headers
<1> QED BY <1>2, <1>3, <1>4

\* With one width in the file no tag of a segment is given up.
LEMMA NeverRefused ==
  ASSUME flv \in Files, GInv, OneWidth, G!AtTag(Kinds), G!Refused
  PROVE  FALSE
<1>s. PICK s : s = Loop(flv)[g_pos] OBVIOUS
<1>t. PICK t : t = flv.tags[g_pos] OBVIOUS
<1>1. /\ g_pc = "tags" /\ g_pos \in 1..Len(flv.tags) /\ g_pos < end_state.pos
      /\ flv \in File /\ flv.tags \in Seq(TagType)
  <2>1. flv \in File /\ flv.tags \in Seq(TagType) BY FileFacts DEF File
  <2>2. g_pc = "tags" /\ g_pos \in DOMAIN flv.tags /\ g_pos < end_state.pos BY DEF G!AtTag
  <2>3. DOMAIN flv.tags = 1..Len(flv.tags) BY <2>1
  <2> QED BY <2>1, <2>2, <2>3
<1>2. Inside(s, t) BY <1>1, <1>s, <1>t, InsideFacts
<1>3. Goes(flv, g_pos) /\ g_pos \in 1..Len(flv.tags)+1 BY <1>1, <1>2, FileFacts DEF Inside
<1>4. t.kind \notin UnsupportedKinds /\ (t.kind = "nalu" => Fits(t, s.conf.width))
  BY <1>3, <1>s, <1>t DEF Goes
<1>5. t.kind = "nalu" /\ ~Fits(t, g_conf.width)
  <2>1. \/ t.kind \in G!UnsupportedKinds
        \/ t.kind = "nalu" /\ ~G!Fits(t, g_conf.width)
    BY <1>t DEF G!Refused, G!tag
  <2>2. G!Fits(t, g_conf.width) <=> Fits(t, g_conf.width) BY SharedG
  <2> QED BY <1>4, <2>1, <2>2 DEF G!UnsupportedKinds, UnsupportedKinds
<1>6. PICK q \in Headers(flv) : g_conf = ParseConf(NoConf, flv.tags[q].header)
  BY <1>1 DEF GInv, ReadInv
<1>7. g_conf.width = flv.tags[q].header.width
  <2>1. flv.tags[q] \in TagType /\ flv.tags[q].kind = "avc_config"
    BY FileFacts DEF Headers
  <2>2. flv.tags[q].header \in Header BY <2>1, TagFields
  <2> QED BY <1>6, <2>2, SetsOfHeader
<1>8. OneWidthOf(flv) BY DEF OneWidth, SequenceHeaders, OneWidthOf, Headers
<1>9. s.conf.width = flv.tags[q].header.width
  <2>1. Loop(flv)[g_pos].conf.width # 0 BY <1>4, <1>5, <1>s DEF Fits
  <2> QED BY <1>1, <1>3, <1>8, <1>s, <2>1, WidthOfLoop
<1> QED BY <1>4, <1>5, <1>7, <1>9

\* What a request for a segment of the playlist does next.
Bound(n) == n < m3u8 /\ HasHeader /\ OneWidth

LEMMA BoundServed ==
  ASSUME flv \in Files, BInv, GInv, b_pc = "done", Bound(sequence), G!Serve,
         g_pc \notin {"failed", "undefined"},
         g_pc = "parse_conf" => mapped_conf = avc_conf,
         g_pc \in {"start_state", "end_state"} => mapped_entries = flushed,
         g_pc \in {"end_state", "open", "tags", "done"} => start_state # G!NoEntry,
         g_pc \in {"open", "tags", "done"} => end_state # G!NoEntry
  PROVE  /\ g_pc' \notin {"failed", "undefined"}
         /\ g_pc' = "parse_conf" => mapped_conf' = avc_conf
         /\ g_pc' \in {"start_state", "end_state"} => mapped_entries' = flushed
         /\ g_pc' \in {"end_state", "open", "tags", "done"} => start_state' # G!NoEntry
         /\ g_pc' \in {"open", "tags", "done"} => end_state' # G!NoEntry
<1>1. /\ m3u8 \in Nat /\ flushed = m3u8 + 1 /\ Len(ts_index) = flushed
      /\ avc_conf # NoHeader
  BY CompleteFacts DEF Bound
<1>2. sequence \in Nat /\ sequence < m3u8 BY NumberAsked DEF Bound
<1>3. flv \in File /\ (start_state = G!NoEntry \/ IsEntry(sequence, start_state))
      /\ (end_state = G!NoEntry \/ IsEntry(sequence + 1, end_state))
  BY FileFacts DEF GInv, EntriesInv
<1>4. \A k \in 1..Len(ts_index) : IsEntry(k - 1, ts_index[k]) BY DEF BInv, FilesInv
<1>5. ASSUME NEW n \in Nat, n < flushed, mapped_entries = flushed
      PROVE  G!Readable(n) /\ G!EntryAt(n) # G!NoEntry
  <2>1. flushed \in Nat BY <1>1
  <2>2. n < G!Pages(flushed) * PageEntries BY <1>5, <2>1, PagesHold
  <2>3. n + 1 \in 1..Len(ts_index) /\ (n + 1) - 1 = n BY <1>1, <1>5
  <2>4. IsEntry((n + 1) - 1, ts_index[n+1]) BY <1>4, <2>3
  <2>5. IsEntry(n, ts_index[n+1]) BY <2>3, <2>4
  <2>6. ts_index[n+1].pos > 0 BY <1>3, <2>5, BeginsFacts DEF IsEntry
  <2>7. ts_index[n+1] # G!NoEntry BY <2>6 DEF G!NoEntry
  <2> QED BY <1>5, <2>2, <2>7 DEF G!Readable, G!EntryAt
<1>6. CASE G!MapConf BY <1>1, <1>6 DEF G!MapConf, G!inputs, G!NoHeader, NoHeader
<1>7. CASE G!ReadConf BY <1>1, <1>7 DEF G!ReadConf, G!inputs
<1>8. CASE G!MapIndex
  <2>1. flushed # 0 /\ sequence <= 2 * flushed BY <1>1, <1>2
  <2>2. G!InRange(sequence, flushed) BY <2>1 DEF G!InRange
  <2> QED BY <1>8, <2>1, <2>2 DEF G!MapIndex
<1>9. CASE G!ReadStart
  <2>1. g_pc = "start_state" /\ mapped_entries = flushed BY <1>9 DEF G!ReadStart
  <2>2. G!Readable(sequence) /\ G!EntryAt(sequence) # G!NoEntry BY <1>1, <1>2, <1>5, <2>1
  <2> QED BY <1>9, <2>1, <2>2 DEF G!ReadStart, G!maps
<1>10. CASE G!ReadEnd
  <2>1. g_pc = "end_state" /\ mapped_entries = flushed /\ start_state # G!NoEntry
    BY <1>10 DEF G!ReadEnd
  <2>2. sequence + 1 \in Nat /\ sequence + 1 < flushed BY <1>1, <1>2
  <2>3. G!Readable(sequence + 1) /\ G!EntryAt(sequence + 1) # G!NoEntry BY <1>5, <2>1, <2>2
  <2> QED BY <1>10, <2>1, <2>3 DEF G!ReadEnd
<1>11. CASE G!Open
  <2>1. g_pc = "open" /\ start_state # G!NoEntry /\ end_state # G!NoEntry BY <1>11 DEF G!Open
  <2>2. Begins(flv, sequence, start_state.pos) /\ Begins(flv, sequence + 1, end_state.pos)
    BY <1>3, <2>1 DEF IsEntry
  <2>3. start_state.pos <= end_state.pos
    <3>1. PICK a, b : a = start_state.pos /\ b = end_state.pos OBVIOUS
    <3>2. a \in Nat /\ b \in Nat /\ a < b BY <1>2, <1>3, <2>2, <3>1, Between
    <3> QED BY <3>1, <3>2
  <2> QED BY <1>11, <2>1, <2>3 DEF G!Open
<1>12. CASE G!ParseError
  <2>1. g_pc = "tags" /\ g_pos = 0 /\ start_state # G!NoEntry BY <1>12 DEF G!ParseError
  <2>2. start_state.pos \in Nat /\ start_state.pos > 0
    <3>1. PICK m : m = Len(flv.tags) + 1 OBVIOUS
    <3>2. m \in Nat BY <3>1, FileFacts
    <3>3. start_state.pos \in 0..m /\ start_state.pos > 0 BY <1>3, <2>1, <3>1, EntryTypes
    <3> QED BY <3>2, <3>3
  <2>3. AtStart \/ InSegment BY <2>1 DEF GInv, StreamInv
  <2>4. CASE AtStart BY <2>1, <2>2, <2>4 DEF AtStart
  <2>5. CASE InSegment BY <2>1, <2>2, <2>5 DEF InSegment
  <2> QED BY <2>3, <2>4, <2>5
<1>13. CASE G!Finish \/ G!Skip \/ G!Audio \/ G!Video
  <2>1. g_pc = "tags" /\ g_pc' \in {"tags", "done"} /\ start_state' = start_state
        /\ end_state' = end_state
    BY <1>13 DEF G!Finish, G!Skip, G!Audio, G!Video, G!AtTag, G!Turn
  <2> QED BY <2>1
<1>14. CASE G!OpenError BY <1>14 DEF G!OpenError, G!inputs
<1>15. CASE G!GiveUp
  <2>1. G!Kinds = Kinds
    BY DEF G!Kinds, Kinds, G!MediaKinds, MediaKinds, G!SkippedKinds, SkippedKinds,
       G!UnsupportedKinds, UnsupportedKinds
  <2>2. G!AtTag(Kinds) /\ G!Refused BY <1>15, <2>1 DEF G!GiveUp
  <2> QED BY <2>2, NeverRefused DEF Bound
<1> QED BY <1>6, <1>7, <1>8, <1>9, <1>10, <1>11, <1>12, <1>13, <1>14, <1>15 DEF G!Serve

LEMMA ServeServable ==
  ASSUME flv \in Files, BInv, GInv, ServableInv, G!Serve, flv' = flv, UNCHANGED b_vars,
         asked' = asked
  PROVE  ServableInv'
<1>1. /\ b_pc' = b_pc /\ m3u8' = m3u8 /\ avc_conf' = avc_conf /\ flushed' = flushed
      /\ sequence' = sequence
  BY DEF b_vars, G!Serve, G!MapConf, G!ReadConf, G!MapIndex, G!ReadStart, G!ReadEnd, G!OpenError,
     G!Open, G!Finish, G!ParseError, G!Skip, G!Audio, G!Video, G!GiveUp, G!Turn, G!request
<1>2. g_pc' # "idle"
  BY DEF G!Serve, G!MapConf, G!ReadConf, G!MapIndex, G!ReadStart, G!ReadEnd, G!OpenError, G!Open,
     G!Finish, G!ParseError, G!Skip, G!Audio, G!Video, G!GiveUp, G!AtTag
<1>3. (HasHeader' <=> HasHeader) /\ (OneWidth' <=> OneWidth)
  BY DEF HasHeader, OneWidth, SequenceHeaders
<1>4. ASSUME asked = "done", Bound(sequence)
      PROVE  /\ g_pc' \notin {"failed", "undefined"}
             /\ g_pc' = "parse_conf" => mapped_conf' = avc_conf
             /\ g_pc' \in {"start_state", "end_state"} => mapped_entries' = flushed
             /\ g_pc' \in {"end_state", "open", "tags", "done"} => start_state' # G!NoEntry
             /\ g_pc' \in {"open", "tags", "done"} => end_state' # G!NoEntry
  BY <1>4, BoundServed DEF ServableInv, Bound
<1> QED BY <1>1, <1>2, <1>3, <1>4 DEF ServableInv, Bound, G!NoEntry

\* The indexer has nothing left to do when it is done.
LEMMA DoneStays ==
  ASSUME B!Work \/ B!OpenError \/ B!ConfError \/ B!Kill
  PROVE  b_pc # "done"
BY DEF B!Work, B!OpenPlaylist, B!OpenIndex, B!ParseError, B!Eos, B!EndList, B!Close, B!Cut, B!NoCut,
   B!Skip, B!Unsupported, B!Audio, B!SequenceHeader, B!WriteConf, B!Video, B!VideoWithoutConf,
   B!OpenError, B!ConfError, B!Kill, B!At, B!Ended

----------------------------------------------------------------------------
(* The invariant holds in all states.                                      *)

LEMMA InitIInv == Init => IInv
<1> SUFFICES ASSUME Init PROVE IInv
  OBVIOUS
<1>1. F!Init /\ B!Init /\ G!Init /\ asked = "start" BY DEF Init
<1>2. flv \in Files BY <1>1 DEF F!Init
<1>3. flv \in File /\ Len(flv.tags) \in Nat BY <1>2, FileFacts
<1> DEFINE l == Loop(flv)[1]
           c == [s \in Streams |-> 0]
<1>4. /\ l.switched = TRUE /\ l.next_timestamp = 0 /\ l.conf = NoConf /\ l.sps_pps_write = FALSE
      /\ l.due = 0 /\ l.counter = c /\ l.count = 0 /\ l.seq = 0 /\ l.out = <<>>
  <2>1. l = [switched |-> TRUE, next_timestamp |-> 0, conf |-> NoConf, sps_pps_write |-> FALSE,
             due |-> 0, counter |-> c, count |-> 0, seq |-> 0, out |-> <<>>]
    BY <1>3, LoopSteps DEF LoopStart
  <2> HIDE DEF c, l
  <2> QED BY <2>1
<1>5. 1 \in 1..Stop(flv) BY <1>3, StopFacts
<1>6. FInv
  <2>1. /\ f_pos = 1 /\ f_status = "running" /\ f_switched = TRUE /\ f_next_timestamp = 0
        /\ f_conf = NoConf /\ f_sps_pps_write = FALSE /\ f_next_prev_pat_pmt_output = 0
        /\ f_counter = c /\ f_count = 0 /\ ts_seq = 0 /\ out = <<>>
    BY <1>1 DEF F!Init, F!NoConf, NoConf, F!NoSets, NoSets, F!Streams, Streams
  <2> HIDE DEF c
  <2> QED BY <1>4, <1>5, <2>1 DEF FInv
<1>7. /\ b_pos = 1 /\ b_pc = "start" /\ b_switched = TRUE /\ b_next_timestamp = 0
      /\ b_conf = NoConf /\ b_sps_pps_write = FALSE /\ b_counter = c
      /\ ts_index = <<>> /\ flushed = 0 /\ m3u8 = 0 /\ endlist = FALSE /\ restarts = 0
      /\ avc_conf = NoHeader
  BY <1>1 DEF B!Init, B!NoConf, NoConf, B!NoSets, NoSets, B!Streams, Streams, B!NoHeader, NoHeader
<1>8. BInv
  <2>1. BLoop
    <3> HIDE DEF c
    <3> QED BY <1>4, <1>5, <1>7 DEF BLoop
  <2>2. FilesInv
    <3>1. Loop(flv)[1].seq \in Nat /\ LastSeq(flv) \in Nat BY <1>3, <1>5, LastFacts
    <3>2. \A S : <<>> \in Seq(S) OBVIOUS
    <3> HIDE DEF c
    <3> QED BY <1>7, <3>1, <3>2 DEF FilesInv
  <2> HIDE DEF c
  <2>3. endlist \in BOOLEAN /\ restarts \in 0..MaxRestarts
    <3>1. endlist = FALSE /\ restarts = 0 BY <1>7
    <3>2. 0 \in 0..MaxRestarts BY RestartsAssumption
    <3> QED BY <3>1, <3>2
  <2> QED BY <1>7, <2>1, <2>2, <2>3 DEF BInv
<1>9. /\ program = "getts" /\ sequence = 0 /\ g_pc = "idle" /\ g_conf = NoConf
      /\ start_state = G!NoEntry /\ end_state = G!NoEntry /\ g_pos = 0
      /\ g_counter = c /\ video_first = TRUE
      /\ g_next_prev_pat_pmt_output = 0 /\ g_count = 0 /\ units = <<>>
  BY <1>1 DEF G!Init, G!NoConf, NoConf, G!NoSets, NoSets, G!Streams, Streams
<1>10. GInv
  <2>1. c \in [Streams -> Nat] OBVIOUS
  <2>2. Fresh BY <1>9 DEF Fresh
  <2> HIDE DEF c
  <2>3. StreamInv BY <1>9, <2>1, <2>2 DEF StreamInv
  <2>4. ReadInv BY <1>9 DEF ReadInv
  <2>5. EntriesInv BY <1>9 DEF EntriesInv
  <2> QED BY <1>9, <2>3, <2>4, <2>5 DEF GInv
<1>11. ServableInv BY <1>1 DEF ServableInv
<1> HIDE DEF c
<1> QED BY <1>2, <1>6, <1>7, <1>8, <1>9, <1>10, <1>11 DEF IInv

\* What the steps of one program leave of the others.
LEMMA FAlone ==
  ASSUME FInv, flv' = flv, UNCHANGED f_vars
  PROVE  FInv'
BY DEF FInv, f_vars

LEMMA BAlone ==
  ASSUME BInv, flv' = flv, UNCHANGED b_vars
  PROVE  BInv'
<1>1. UNCHANGED <<b_pos, b_pc, b_switched, b_next_timestamp, b_conf, b_sps_pps_write,
                  b_counter, ts_index, flushed, m3u8, endlist, avc_conf, restarts>>
  BY DEF b_vars
<1>2. FilesInv' BY <1>1, FilesKept DEF BInv, FilesInv
<1>3. BLoop' <=> BLoop BY <1>1 DEF BLoop
<1>4. BTypes' <=> BTypes BY <1>1 DEF BTypes
<1> QED BY <1>1, <1>2, <1>3, <1>4 DEF BInv

LEMMA WorkStep ==
  ASSUME flv \in Files, BInv,
         \/ (B!Work \/ B!OpenError \/ B!ConfError \/ B!Kill) /\ restarts' = restarts
         \/ B!Restart
  PROVE  BInv' /\ flv' = flv
<1>1. CASE B!Work /\ restarts' = restarts
  BY <1>1, WorkBefore, WorkAfter, WorkCut, WorkTag, WorkStops DEF B!Work
<1>2. CASE (B!OpenError \/ B!ConfError) /\ restarts' = restarts BY <1>2, WorkStops
<1>3. CASE B!Kill /\ restarts' = restarts BY <1>3, KillStep
<1>4. CASE B!Restart BY <1>4, RestartStep
<1> QED BY <1>1, <1>2, <1>3, <1>4

LEMMA ServeStep ==
  ASSUME flv \in Files, BInv, GInv, G!Serve
  PROVE  GInv' /\ flv' = flv
<1>1. GInv' BY GFirst, GRead, GOpenError, GOpen, GLast, GTag, GGiveUp DEF G!Serve
<1>2. flv' = flv
  BY DEF G!Serve, G!MapConf, G!ReadConf, G!MapIndex, G!ReadStart, G!ReadEnd, G!OpenError, G!Open,
     G!Finish, G!ParseError, G!Skip, G!Audio, G!Video, G!GiveUp, G!Turn, G!inputs
<1> QED BY <1>1, <1>2

LEMMA NextIInv == IInv /\ [Next]_vars => IInv'
<1> SUFFICES ASSUME IInv, [Next]_vars PROVE IInv'
  OBVIOUS
<1>1. /\ flv \in Files /\ FInv /\ BInv /\ GInv /\ ServableInv
      /\ f_status = "running" => b_pc = "start" /\ ts_index = <<>> /\ m3u8 = 0 /\ g_pc = "idle"
  BY DEF IInv
<1>2. CASE Segment
  <2>1. /\ F!Next /\ ~F!OpenError /\ UNCHANGED b_vars /\ UNCHANGED g_vars /\ asked' = asked
    BY <1>2 DEF Segment
  <2>2. FInv' /\ flv' = flv /\ f_status = "running" BY <1>1, <2>1, FStep
  <2>3. BInv' /\ GInv' BY <1>1, <2>1, <2>2, BAlone, GAlone
  <2>4. /\ b_pc' = b_pc /\ ts_index' = ts_index /\ m3u8' = m3u8 /\ g_pc' = g_pc
    BY <2>1 DEF b_vars, g_vars
  <2>5. ServableInv'
    <3>1. asked' = "start" BY <1>1, <2>1, <2>2 DEF ServableInv
    <3> QED BY <3>1 DEF ServableInv
  <2> QED BY <1>1, <2>2, <2>3, <2>4, <2>5 DEF IInv
<1>3. CASE BuildIndex \/ StopIndex \/ RebuildIndex
  <2>1. /\ \/ (B!Work \/ B!OpenError \/ B!ConfError \/ B!Kill) /\ restarts' = restarts
              /\ asked' = asked
           \/ B!Restart /\ asked' = "start"
        /\ f_status # "running" /\ UNCHANGED f_vars /\ UNCHANGED g_vars
    BY <1>3 DEF BuildIndex, StopIndex, RebuildIndex, Index
  <2>2. BInv' /\ flv' = flv BY <1>1, <2>1, WorkStep
  <2>3. FInv' /\ GInv' BY <1>1, <2>1, <2>2, FAlone, GAlone
  <2>4. f_status' = f_status /\ g_pc' = g_pc BY <2>1 DEF f_vars, g_vars
  <2>5. asked' # "done" /\ (g_pc' = "idle" => asked' = "start")
    <3>1. CASE B!Restart /\ asked' = "start" BY <3>1
    <3>2. CASE (B!Work \/ B!OpenError \/ B!ConfError \/ B!Kill) /\ asked' = asked
      BY <1>1, <2>4, <3>2, DoneStays DEF ServableInv
    <3> QED BY <2>1, <3>1, <3>2
  <2>6. ServableInv' BY <2>5 DEF ServableInv
  <2> QED BY <1>1, <2>1, <2>2, <2>3, <2>4, <2>6 DEF IInv
<1>4. CASE Ask
  <2>1. PICK which \in {"getts", "libgetts"}, n \in Sequences : G!Request(which, n)
    BY <1>4 DEF Ask
  <2>2. f_status # "running" /\ asked' = b_pc /\ UNCHANGED f_vars /\ UNCHANGED b_vars
    BY <1>4 DEF Ask
  <2>3. flv' = flv /\ g_pc' = "conf" BY <2>1 DEF G!Request, G!inputs
  <2>4. GInv' BY <1>1, <2>1, GAsk
  <2>5. FInv' /\ BInv' BY <1>1, <2>2, <2>3, FAlone, BAlone
  <2>6. f_status' = f_status /\ b_pc' = b_pc BY <2>2 DEF f_vars, b_vars
  <2>7. ServableInv' BY <2>2, <2>3, <2>6 DEF ServableInv
  <2> QED BY <1>1, <2>2, <2>3, <2>4, <2>5, <2>6, <2>7 DEF IInv
<1>5. CASE Serve
  <2>1. G!Serve /\ UNCHANGED f_vars /\ UNCHANGED b_vars /\ asked' = asked BY <1>5 DEF Serve
  <2>2. GInv' /\ flv' = flv BY <1>1, <2>1, ServeStep
  <2>3. FInv' /\ BInv' BY <1>1, <2>1, <2>2, FAlone, BAlone
  <2>4. ServableInv' BY <1>1, <2>1, <2>2, ServeServable
  <2>5. f_status # "running"
    <3>1. g_pc # "idle"
      BY <2>1 DEF G!Serve, G!MapConf, G!ReadConf, G!MapIndex, G!ReadStart, G!ReadEnd,
         G!OpenError, G!Open, G!Finish, G!ParseError, G!Skip, G!Audio, G!Video, G!GiveUp, G!AtTag
    <3> QED BY <1>1, <3>1
  <2>6. f_status' = f_status BY <2>1 DEF f_vars
  <2> QED BY <1>1, <2>2, <2>3, <2>4, <2>5, <2>6 DEF IInv
<1>6. CASE Leave
  <2>1. G!Exit /\ asked' = "start" /\ UNCHANGED f_vars /\ UNCHANGED b_vars BY <1>6 DEF Leave
  <2>2. GInv' /\ g_pc' = "idle" /\ flv' = flv BY <1>1, <2>1, GLeave
  <2>3. FInv' /\ BInv' BY <1>1, <2>1, <2>2, FAlone, BAlone
  <2>4. ServableInv' BY <2>1 DEF ServableInv
  <2>5. /\ f_status' = f_status /\ b_pc' = b_pc /\ ts_index' = ts_index /\ m3u8' = m3u8
    BY <2>1 DEF f_vars, b_vars
  <2> QED BY <1>1, <2>2, <2>3, <2>4, <2>5 DEF IInv
<1>7. CASE UNCHANGED vars
  <2>1. flv' = flv /\ UNCHANGED f_vars /\ UNCHANGED b_vars /\ UNCHANGED g_vars /\ asked' = asked
    BY <1>7 DEF vars
  <2>2. FInv' /\ BInv' /\ GInv' BY <1>1, <2>1, FAlone, BAlone, GAlone
  <2>3. /\ f_status' = f_status /\ b_pc' = b_pc /\ ts_index' = ts_index /\ m3u8' = m3u8
        /\ g_pc' = g_pc /\ sequence' = sequence /\ avc_conf' = avc_conf /\ flushed' = flushed
        /\ mapped_conf' = mapped_conf /\ mapped_entries' = mapped_entries
        /\ start_state' = start_state /\ end_state' = end_state
    BY <1>7 DEF vars, f_vars, b_vars, g_vars
  <2>4. (HasHeader' <=> HasHeader) /\ (OneWidth' <=> OneWidth)
    BY <2>1 DEF HasHeader, OneWidth, SequenceHeaders
  <2>5. ServableInv' BY <1>1, <2>1, <2>3, <2>4 DEF ServableInv, G!NoEntry
  <2> QED BY <1>1, <2>1, <2>2, <2>3, <2>5 DEF IInv
<1> QED BY <1>2, <1>3, <1>4, <1>5, <1>6, <1>7 DEF Next

----------------------------------------------------------------------------
(* The types.                                                              *)

\* The segment that is sent is at a position of the file.
LEMMA WithinFile ==
  ASSUME flv \in Files, GInv
  PROVE  g_pos \in 0..Len(flv.tags)+1 /\ video_first \in BOOLEAN
<1>1. PICK m : m = Len(flv.tags) + 1 OBVIOUS
<1>2. m \in Nat BY <1>1, FileFacts
<1>3. StreamInv /\ g_pos \in Nat BY DEF GInv, StreamInv
<1>4. start_state.pos \in 0..m BY <1>1, EntryTypes DEF GInv, EntriesInv
<1>5. end_state.pos \in 0..m BY <1>1, EntryTypes DEF GInv, EntriesInv
<1>6. Fresh \/ AtStart \/ InSegment \/ GaveUp BY <1>3 DEF StreamInv, GInv
<1>7. CASE Fresh BY <1>1, <1>2, <1>7 DEF Fresh
<1>8. CASE AtStart BY <1>1, <1>4, <1>8 DEF AtStart
<1>9. CASE InSegment
  <2>1. PICK w : w = Loop(flv)[g_pos].sps_pps_write OBVIOUS
  <2>2. g_pos <= end_state.pos /\ video_first = ~w BY <1>9, <2>1 DEF InSegment
  <2>3. video_first \in BOOLEAN BY <2>2
  <2>4. g_pos \in 0..m BY <1>2, <1>3, <1>5, <2>2
  <2> QED BY <1>1, <2>3, <2>4
<1>10. CASE GaveUp
  <2>1. g_pos - 1 < end_state.pos /\ video_first \in BOOLEAN BY <1>10 DEF GaveUp
  <2>2. g_pos \in 0..m BY <1>2, <1>3, <1>5, <2>1
  <2> QED BY <1>1, <2>1, <2>2
<1> QED BY <1>6, <1>7, <1>8, <1>9, <1>10

LEMMA IndexerTypes ==
  ASSUME flv \in Files, BInv
  PROVE  B!TypeOK
<1>1. flv \in File /\ Len(flv.tags) \in Nat BY FileFacts
<1>2. BTypes BY BFacts DEF BInv
<1>3. m3u8 \in Nat
  <2>1. 1 \in 1..Stop(flv) BY <1>1, StopFacts
  <2>2. LastSeq(flv) \in Nat BY <1>1, <2>1, LastFacts
  <2> QED BY <2>2 DEF BInv, FilesInv
<1>4. avc_conf \in B!Header \cup {B!NoHeader}
  <2>1. CASE avc_conf = NoHeader BY <2>1 DEF B!NoHeader, NoHeader
  <2>2. ASSUME NEW q \in Headers(flv), avc_conf = flv.tags[q].header
        PROVE  avc_conf \in B!Header
    <3>1. flv.tags[q] \in TagType /\ flv.tags[q].kind = "avc_config"
      BY <2>2, FileFacts DEF Headers
    <3>2. avc_conf \in Header BY <2>2, <3>1, TagFields
    <3> QED BY <3>2 DEF B!Header, Header, B!Sets, Sets
  <2> QED BY <2>1, <2>2 DEF BInv, FilesInv
<1>5. b_pc \in {"start", "ts_idx", "parse", "tag", "conf", "endlist", "close"} \cup B!Ended
  BY DEF BInv, B!Ended
<1>6. /\ ts_index \in Seq([pos: 1..Len(flv.tags)+1, audio: 0..15, video: 0..15])
      /\ flushed \in 0..Len(ts_index) /\ endlist \in BOOLEAN /\ restarts \in 0..MaxRestarts
  BY DEF BInv, FilesInv
<1> QED BY <1>2, <1>3, <1>4, <1>5, <1>6 DEF B!TypeOK, BTypes, B!Streams, Streams

\* The index has an entry for each segment and one for the end at most.
LEMMA IndexShort ==
  ASSUME IInv
  PROVE  Len(ts_index) <= ts_seq + 1 /\ m3u8 <= ts_seq
<1>1. flv \in File /\ 1 \in 1..Stop(flv) BY FileFacts, StopFacts DEF IInv
<1>2. FInv /\ FilesInv BY DEF IInv, BInv
<1>3. CASE f_status = "running"
  <2>1. f_pos \in 1..Stop(flv) /\ ts_seq = Loop(flv)[f_pos].seq BY <1>2, <1>3 DEF FInv
  <2>2. ts_seq \in Nat BY <1>1, <2>1, LastFacts
  <2>3. Len(ts_index) = 0 /\ m3u8 = 0 BY <1>3 DEF IInv
  <2> QED BY <2>2, <2>3
<1>4. CASE f_status # "running"
  <2>1. ts_seq = LastSeq(flv) BY <1>2, <1>4 DEF FInv
  <2>2. ts_seq \in Nat BY <1>1, <2>1, LastFacts
  <2>3. PICK k : k = Len(ts_index) OBVIOUS
  <2>4. k \in Nat BY <1>2, <2>3 DEF FilesInv
  <2>5. k > 0 => k - 1 <= ts_seq
    <3> SUFFICES ASSUME k > 0 PROVE k - 1 <= ts_seq
      OBVIOUS
    <3>1. IsEntry(k - 1, ts_index[k]) BY <1>2, <2>3, <2>4 DEF FilesInv
    <3>2. Begins(flv, k - 1, ts_index[k].pos) BY <3>1 DEF IsEntry
    <3> QED BY <1>1, <2>1, <3>2, BeginsFacts
  <2>6. m3u8 <= ts_seq
    <3>1. m3u8 \in 0..ts_seq BY <1>2, <2>1 DEF FilesInv
    <3> QED BY <2>2, <3>1
  <2> QED BY <2>2, <2>3, <2>4, <2>5, <2>6
<1> QED BY <1>3, <1>4

LEMMA IInvTypeOK == IInv => TypeOK
<1> SUFFICES ASSUME IInv PROVE TypeOK
  OBVIOUS
<1>1. flv \in Files /\ BInv /\ GInv BY DEF IInv
<1>2. B!TypeOK BY <1>1, IndexerTypes
<1>3. Len(ts_index) <= ts_seq + 1 /\ m3u8 <= ts_seq BY IndexShort
<1>4. G!TypeOK
  <2>1. g_pos \in 0..Len(flv.tags)+1 /\ video_first \in BOOLEAN BY <1>1, WithinFile
  <2>2. G!TablesUnit(start_state.pos) = TablesUnit(start_state.pos) BY SharedG
  <2>3. /\ g_counter \in [Streams -> Nat]
        /\ units # <<>> => units[1] = TablesUnit(start_state.pos)
    BY <1>1 DEF GInv, StreamInv
  <2> QED BY <1>1, <2>1, <2>2, <2>3 DEF GInv, G!TypeOK, G!Streams, Streams
<1> QED BY <1>2, <1>3, <1>4 DEF TypeOK

----------------------------------------------------------------------------
(* What is sent, and the segment.                                          *)

\* Both ends of the segment, when something of it is sent, up to tag p.
UpToTag(p) ==
  /\ start_state # G!NoEntry /\ end_state # G!NoEntry
  /\ start_state.pos <= p /\ p <= end_state.pos

LEMMA SegmentEnds ==
  ASSUME IInv, NEW p \in Nat, UpToTag(p)
  PROVE  /\ g_pc # "idle" /\ f_status # "running" /\ out = LastOut(flv) /\ ts_seq = LastSeq(flv)
         /\ flv \in File /\ sequence \in Nat /\ end_state.pos \in Nat
         /\ Begins(flv, sequence + 1, end_state.pos)
         /\ sequence < LastSeq(flv) /\ p \in 1..Stop(flv)
<1>0. flv \in File /\ sequence \in Nat BY FileFacts, NumberAsked DEF IInv
<1>1. flv \in File /\ EntriesInv /\ sequence \in Nat BY <1>0 DEF IInv, GInv
<1>2. /\ start_state # G!NoEntry /\ end_state # G!NoEntry
      /\ start_state.pos <= p /\ p <= end_state.pos
  BY DEF UpToTag
<1>3. Begins(flv, sequence, start_state.pos) /\ Begins(flv, sequence + 1, end_state.pos)
  BY <1>1, <1>2 DEF EntriesInv, IsEntry
<1>4. g_pc # "idle" BY <1>1, <1>2 DEF EntriesInv
<1>5. f_status # "running" BY <1>4 DEF IInv
<1>a. PICK a : a = start_state.pos OBVIOUS
<1>b. PICK b : b = end_state.pos OBVIOUS
<1>n. PICK n : n = sequence OBVIOUS
<1>6. n \in Nat /\ Begins(flv, n, a) /\ Begins(flv, n + 1, b)
  BY <1>1, <1>3, <1>a, <1>b, <1>n
<1>7. b \in 1..Stop(flv) /\ n < LastSeq(flv)
  <2>1. Cuts(flv, n, a, b) BY <1>1, <1>6, BetweenCuts
  <2> QED BY <2>1 DEF Cuts
<1>8. a \in 1..Stop(flv) /\ b \in Nat
  <2>1. Begins(flv, n, a) BY <1>6
  <2> QED BY <1>1, <1>6, <2>1, BeginsFacts DEF Begins
<1>9. p \in 1..Stop(flv)
  <2>1. Stop(flv) \in Nat
    <3>1. Len(flv.tags) \in Nat BY <1>1 DEF File
    <3> QED BY <1>1, <3>1, StopFacts
  <2> QED BY <1>2, <1>7, <1>8, <1>a, <1>b, <2>1
<1> QED BY <1>1, <1>3, <1>4, <1>5, <1>7, <1>8, <1>9, <1>b, <1>n DEF IInv, FInv

LEMMA TablesOnly ==
  ASSUME NEW p \in Nat
  PROVE  TagsOf(<<TablesUnit(p)>>) = <<>> /\ Media(<<TablesUnit(p)>>) = <<>>
<1> DEFINE u == TablesUnit(p)
           e == <<>>
<1>1. u \in Unit /\ u.kind = "tables" BY TablesType
<1>2. e \in Seq(Unit) /\ <<u>> = Append(e, u) OBVIOUS
<1> HIDE DEF u, e
<1>3. TagsOf(Append(e, u)) = TagsOf(e) /\ Media(Append(e, u)) = Media(e)
  BY <1>1, <1>2, MediaAppend
<1>4. TagsOf(e) = <<>> /\ Media(e) = <<>> BY NothingWritten DEF e
<1> QED BY <1>2, <1>3, <1>4 DEF u

\* The part of the segment that is there.
LEMMA SentSoFar ==
  ASSUME IInv, NEW p \in Nat, UpToTag(p),
         TagsOf(units) = TagsOf(UnitsOf(Loop(flv)[p].out, sequence))
  PROVE  LET sent == TagsOf(units)
             all  == TagsOf(SegmentFile(sequence))
         IN  Len(sent) <= Len(all) /\ sent = SubSeq(all, 1, Len(sent))
<1>1. flv \in File /\ out = LastOut(flv) /\ p \in 1..Stop(flv) BY SegmentEnds
<1>3. PICK n : n = sequence OBVIOUS
<1>4. TagsOf(units) = TagsOf(UnitsOf(Loop(flv)[p].out, n)) BY <1>3
<1>5. SegmentFile(n) = UnitsOf(LastOut(flv), n) BY <1>1 DEF SegmentFile
<1>6. LET sent == TagsOf(UnitsOf(Loop(flv)[p].out, n))
          all  == TagsOf(UnitsOf(LastOut(flv), n))
      IN  Len(sent) <= Len(all) /\ sent = SubSeq(all, 1, Len(sent))
  BY <1>1, TagsOfSegment
<1> QED BY <1>3, <1>4, <1>5, <1>6

LEMMA IInvNeverForeign == IInv => NeverForeign
<1> SUFFICES ASSUME IInv PROVE NeverForeign
  OBVIOUS
<1>1. flv \in Files /\ GInv /\ g_pos \in Nat /\ Len(flv.tags) \in Nat
  BY FileFacts DEF IInv, GInv, StreamInv
<1>2. OneWidth => ~(G!AtTag(Kinds) /\ G!Refused) BY <1>1, NeverRefused
<1>3. ASSUME TagsOf(units) # <<>>
      PROVE  \E p \in Nat : /\ UpToTag(p)
                            /\ TagsOf(units) = TagsOf(UnitsOf(Loop(flv)[p].out, sequence))
  <2>1. Fresh \/ AtStart \/ InSegment \/ GaveUp BY <1>1 DEF GInv, StreamInv
  <2>2. CASE Fresh BY <1>3, <2>2, NothingWritten DEF Fresh
  <2>3. CASE AtStart BY <1>1, <1>3, <2>3, TablesOnly DEF AtStart
  <2>4. start_state.pos \in Nat /\ end_state.pos \in Nat
    <3>1. start_state = G!NoEntry \/ IsEntry(sequence, start_state) BY <1>1 DEF GInv, EntriesInv
    <3>2. end_state = G!NoEntry \/ IsEntry(sequence + 1, end_state) BY <1>1 DEF GInv, EntriesInv
    <3>3. start_state.pos \in 0..Len(flv.tags)+1 /\ end_state.pos \in 0..Len(flv.tags)+1
      BY <1>1, <3>1, <3>2, EntryTypes
    <3> QED BY <3>3
  <2>5. CASE InSegment
    <3>1. UpToTag(g_pos) BY <1>1, <2>4, <2>5 DEF UpToTag, InSegment
    <3>2. TagsOf(units) = TagsOf(UnitsOf(Loop(flv)[g_pos].out, sequence))
      BY <2>5 DEF InSegment, Made
    <3> QED BY <1>1, <3>1, <3>2
  <2>6. CASE GaveUp
    <3>1. PICK p : p = g_pos - 1 OBVIOUS
    <3>2. /\ start_state # G!NoEntry /\ end_state # G!NoEntry
          /\ start_state.pos <= p /\ p < end_state.pos
          /\ TagsOf(units) = TagsOf(UnitsOf(Loop(flv)[p].out, sequence))
      BY <2>6, <3>1 DEF GaveUp
    <3>3. p \in Nat BY <1>1, <2>4, <3>1, <3>2
    <3>4. UpToTag(p) BY <2>4, <3>2, <3>3 DEF UpToTag
    <3> QED BY <3>2, <3>3, <3>4
  <2> QED BY <2>1, <2>2, <2>3, <2>5, <2>6
<1>4. \A p \in Nat : UpToTag(p) => sequence < ts_seq BY SegmentEnds
<1>5. \A p \in Nat :
        UpToTag(p) /\ TagsOf(units) = TagsOf(UnitsOf(Loop(flv)[p].out, sequence)) =>
          LET sent == TagsOf(units)
              all  == TagsOf(SegmentFile(sequence))
          IN  Len(sent) <= Len(all) /\ sent = SubSeq(all, 1, Len(sent))
  BY SentSoFar
<1> QED BY <1>2, <1>3, <1>4, <1>5 DEF NeverForeign

\* A request that is done and sent more than the tables made what the loop has
\* where the next segment begins, and that is the file.
LEMMA DoneMakesFile ==
  ASSUME IInv, g_pc = "done", start_state # G!NoEntry
  PROVE  Made(OneConf(flv), program, SegmentFile(sequence), units) /\ sequence < ts_seq
<1>0. flv \in File /\ sequence \in Nat BY FileFacts, NumberAsked DEF IInv
<1>1. flv \in File /\ EntriesInv /\ sequence \in Nat /\ (AtStart \/ InSegment)
      /\ g_pos = end_state.pos
  BY <1>0 DEF IInv, GInv, StreamInv
<1>2. InSegment
  <2> SUFFICES ASSUME AtStart PROVE FALSE
    BY <1>1
  <2>1. start_state.pos = end_state.pos BY <1>1 DEF AtStart
  <2>2. Begins(flv, sequence, start_state.pos) BY <1>1 DEF EntriesInv, IsEntry
  <2>3. start_state.pos > 0 BY <1>1, <2>2, BeginsFacts
  <2>4. end_state # G!NoEntry BY <2>1, <2>3 DEF G!NoEntry
  <2>5. Begins(flv, sequence + 1, end_state.pos) BY <1>1, <2>4 DEF EntriesInv, IsEntry
  <2>6. PICK a : a = start_state.pos OBVIOUS
  <2>7. PICK n : n = sequence OBVIOUS
  <2>8. n = Loop(flv)[a].seq /\ n + 1 = Loop(flv)[a].seq /\ n \in Nat
    BY <1>1, <2>1, <2>2, <2>5, <2>6, <2>7, BeginsFacts
  <2> QED BY <2>8
<1>3. out = LastOut(flv) /\ ts_seq = LastSeq(flv) /\ sequence < LastSeq(flv)
      /\ Begins(flv, sequence + 1, end_state.pos)
  <2>1. g_pos \in Nat BY DEF IInv, GInv, StreamInv
  <2>2. start_state.pos \in Nat /\ end_state # G!NoEntry
        /\ start_state.pos < g_pos /\ g_pos <= end_state.pos
    <3>1. start_state = G!NoEntry \/ IsEntry(sequence, start_state) BY <1>1 DEF EntriesInv
    <3>2. start_state.pos \in 0..Len(flv.tags)+1 BY <3>1, EntryTypes DEF IInv
    <3> QED BY <1>2, <3>2 DEF InSegment
  <2>3. UpToTag(g_pos) BY <2>1, <2>2 DEF UpToTag
  <2> QED BY <2>1, <2>3, SegmentEnds
<1>4. PICK b : b = end_state.pos OBVIOUS
<1>5. PICK n : n = sequence OBVIOUS
<1>6. UnitsOf(LastOut(flv), n) = UnitsOf(Loop(flv)[b].out, n)
  BY <1>1, <1>3, <1>4, <1>5, NothingBehind
<1>7. SegmentFile(n) = UnitsOf(Loop(flv)[b].out, n) BY <1>3, <1>6 DEF SegmentFile
<1>8. Made(OneConf(flv), program, UnitsOf(Loop(flv)[b].out, n), units)
  BY <1>1, <1>2, <1>4, <1>5 DEF InSegment
<1> QED BY <1>3, <1>5, <1>7, <1>8

LEMMA IInvSameSegment == IInv => SameSegment
<1> SUFFICES ASSUME IInv, g_pc = "done", OneConfiguration, units # <<TablesUnit(0)>>
             PROVE  /\ sequence < ts_seq
                    /\ program = "getts" => units = SegmentFile(sequence)
                    /\ program = "libgetts" => Media(units) = Media(SegmentFile(sequence))
  BY DEF SameSegment
<1>1. OneConf(flv) BY DEF OneConfiguration, SequenceHeaders, OneConf, Headers
<1>2. start_state # G!NoEntry
  <2> SUFFICES ASSUME start_state = G!NoEntry PROVE FALSE
    OBVIOUS
  <2>1. AtStart \/ InSegment BY DEF IInv, GInv, StreamInv
  <2>2. start_state.pos = 0 BY DEF G!NoEntry
  <2>3. CASE AtStart BY <2>2, <2>3 DEF AtStart
  <2>4. CASE InSegment BY <2>4 DEF InSegment
  <2> QED BY <2>1, <2>3, <2>4
<1>3. Made(OneConf(flv), program, SegmentFile(sequence), units) /\ sequence < ts_seq
  BY <1>2, DoneMakesFile
<1> QED BY <1>1, <1>3 DEF Made

LEMMA IInvServable == IInv => PlaylistServable
<1> SUFFICES ASSUME IInv, asked = "done", g_pc \in {"done", "failed", "undefined"},
                    sequence < m3u8, HasHeader, OneWidth
             PROVE  g_pc = "done" /\ TagsOf(units) = TagsOf(SegmentFile(sequence))
  BY DEF PlaylistServable
<1>1. g_pc = "done" /\ start_state # G!NoEntry BY DEF IInv, ServableInv
<1>2. Made(OneConf(flv), program, SegmentFile(sequence), units) BY <1>1, DoneMakesFile
<1> QED BY <1>1, <1>2 DEF Made

----------------------------------------------------------------------------
(* The theorems.                                                           *)

\* The three programs are, whenever they are between two steps, at a point of
\* the loop that the file alone determines.
THEOREM AlwaysIInv == Spec => []IInv
BY InitIInv, NextIInv, PTL DEF Spec

\* The variables of the main loops keep their ranges; the index has an entry
\* for each segment of flv2ts and one for the end at most, whatever was killed.
THEOREM PipelineTypes == Spec => []TypeOK
BY AlwaysIInv, IInvTypeOK, PTL

\* What getts has sent is at any time a beginning of the media tags of the
\* right segment; and while the sequence headers of the file have one length
\* width, it meets no tag that makes it give up in the middle.
THEOREM NothingForeign == Spec => []NeverForeign
BY AlwaysIInv, IInvNeverForeign, PTL

\* When the sequence headers of the file announce one configuration, a request
\* that succeeds has sent the packets of the file that flv2ts writes.
THEOREM SegmentsAgree == Spec => []SameSegment
BY AlwaysIInv, IInvSameSegment, PTL

\* When the request came after build-hls-index had returned 0, the playlist has
\* the segment, the FLV file can be mapped and its sequence headers have one
\* length width, getts sends all of it.
THEOREM PlaylistIsServed == Spec => []PlaylistServable
BY AlwaysIInv, IInvServable, PTL
=============================================================================
