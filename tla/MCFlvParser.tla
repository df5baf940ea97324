----------------------------- MODULE MCFlvParser -----------------------------
(***************************************************************************)
(* FlvParser on files of one or two tags of every kind, tags too short for *)
(* their own header among them, with file headers that are longer, not     *)
(* FLV, or have their data_offset behind the end, cut after any byte; and  *)
(* on files of up to MaxTags of the tags that a loop goes on behind, with  *)
(* and without the trailer.                                                *)
(***************************************************************************)
EXTENDS FlvParser

CONSTANT MaxTags

\* A tag: its type byte, its data, and what FlvTags says of it; the size of a
\* payload that starts behind the tag is 0.  "broken" tags are not parsed.
Tag(type, data, kind, size) == [type |-> type, data |-> data, kind |-> kind, size |-> size]

Conf(high, w, rest) == <<23, 0, 0, 0, 0, 1, high, 0, 30, 251 + w>> \o rest
Nalu(data) == Tag(9, <<39, 1, 0, 0, 0>> \o data, "nalu", Len(data))

NaluSet == { Nalu(<<9, 9>>), Nalu(<<0, 1, 7>>), Nalu(<<0, 0, 1, 7>>), Nalu(<<0, 0, 0, 1, 7>>) }

TagSet == NaluSet \cup
  { Tag(18, <<2>>, "script", 1),
    Tag(8, <<175, 0, 18>>, "aac_config", 1), Tag(8, <<175, 1, 33>>, "aac", 1),
    Tag(8, <<175>>, "aac_config", 0),
    Tag(8, <<47>>, "other_audio", 0), Tag(8, <<>>, "other_audio", 0),
    Tag(9, <<39, 1, 0>>, "nalu", 0),
    Tag(9, <<23, 2, 0, 0, 0>>, "avc_end", 0), Tag(9, <<23, 3, 0, 0, 0>>, "avc_unknown", 0),
    Tag(9, Conf(66, 1, <<225, 0, 1, 7, 1, 0, 1, 8>>), "avc_config", 13),
    Tag(9, Conf(66, 2, <<224, 0>>), "avc_config", 7),
    Tag(9, Conf(66, 3, <<224, 0>>), "avc_config", 7),
    Tag(9, Conf(66, 4, <<225, 0, 9, 7, 1, 0, 1, 8>>), "bad_config", 13),
    Tag(9, Conf(100, 4, <<224, 0, 252, 248, 248, 0>>), "avc_config", 11),
    Tag(9, Conf(100, 4, <<224, 0>>), "bad_config", 7),
    Tag(9, <<23>>, "bad_config", 0), Tag(9, <<>>, "other_video", 0),
    Tag(9, <<34, 0>>, "other_video", 1),
    Tag(41, <<39, 1>>, "broken", 0), Tag(15, <<0>>, "broken", 0) }

\* Where the bytes d of a NAL unit can be cut so that every piece is a length
\* on w bytes and as many bytes as that says.
LengthAt(d, c, w) == LET n[i \in 0..w] == IF i = 0 THEN 0 ELSE 256 * n[i-1] + d[c+i] IN n[w]
CutsAt(d, w) ==
  {C \in SUBSET (0..Len(d)) :
     /\ {0, Len(d)} \subseteq C
     /\ \A c \in C \ {Len(d)} : \E e \in C :
          /\ \A x \in C : x > c => x >= e
          /\ e >= c + w /\ e = c + w + LengthAt(d, c, w)}

\* What flv2ts has to find in a NALU behind a sequence header of that width:
\* its units, from where to where in the tag.
NaluTable ==
  [t \in NaluSet, w \in 1..4 |->
     LET d == SubSeq(t.data, 6, Len(t.data))
     IN  { {[from |-> c + w, to |-> c + w + LengthAt(d, c, w)] : c \in C \ {Len(d)}} :
             C \in CutsAt(d, w) }]

\* A loop goes on behind these.
GoOnSet == NaluSet \cup
  {t \in TagSet : t.kind \in {"aac", "avc_config"} \/ (t.kind = "nalu" /\ t.size = 0)}

Plain   == <<70, 76, 86, 1, 5, 0, 0, 0, 9>>
Headers == { Plain, <<70, 76, 86, 1, 5, 0, 0, 0, 11, 0, 0>>,
             <<70, 76, 86, 1, 5, 0, 0, 1, 0>>, <<70, 76, 83, 1, 5, 0, 0, 0, 9>> }

TagBytes(t) == <<t.type, 0, 0, Len(t.data), 0, 0, 7, 0, 0, 0, 0>> \o t.data

RECURSIVE Bytes(_, _)
Bytes(tags, prev) ==
  <<0, 0, 0, prev>> \o
  (IF tags = <<>> THEN <<>>
   ELSE TagBytes(Head(tags)) \o Bytes(Tail(tags), Len(TagBytes(Head(tags)))))

RECURSIVE Starts(_, _)
Starts(tags, p) ==
  <<p>> \o (IF tags = <<>> THEN <<>> ELSE Starts(Tail(tags), p + 15 + Len(Head(tags).data)))

\* The tags that lie whole in the first n bytes, up to a broken one, and how
\* the file goes on behind them.
Whole(tags, starts, n) ==
  CHOOSE k \in 0..Len(tags) :
    LET ok(j) == \A i \in 1..j : starts[i+1] <= n /\ tags[i].kind # "broken"
    IN  ok(k) /\ (k < Len(tags) => ~ok(k + 1))

\* The width in force at tag i: that of the last sequence header before it.
WidthAt(tags, i) ==
  LET confs == {j \in 1..i-1 : tags[j].kind = "avc_config"}
  IN  IF confs = {} THEN 0
      ELSE tags[CHOOSE j \in confs : \A k \in confs : k <= j].data[10] - 251

TagOfFile(tags, starts, i) ==
  LET t == tags[i]
      w == WidthAt(tags, i)
      u == IF t \in NaluSet /\ w > 0 THEN NaluTable[t, w] ELSE {{}}
  IN  [kind  |-> IF u = {} THEN "bad_nalu" ELSE t.kind, size |-> t.size,
       units |-> {[from |-> starts[i] + 20 + p.from, to |-> starts[i] + 20 + p.to] : p \in UNION u}]

Layout(tags, header, n) ==
  LET starts == Starts(tags, IF n < Len(header) THEN 9 ELSE Len(header))
      k      == Whole(tags, starts, n)
      end    == starts[k+1]
  IN  [tags   |-> [i \in 1..k |-> TagOfFile(tags, starts, i)],
       starts |-> SubSeq(starts, 1, k + 1),
       tail   |-> IF n = end THEN "none"
                  ELSE IF n = end + 4 THEN "trailer" ELSE "cut"]

\* A file cut after the bytes in lengths(n), n being all of them.
CutsOf(tags, header, lengths(_)) ==
  LET all == header \o Bytes(tags, 0)
  IN  {[bytes |-> SubSeq(all, 1, n), flv |-> Layout(tags, header, n)] : n \in lengths(Len(all))}

SeqsOf(k, S)  == UNION {[1..n -> S] : n \in 0..k}
Everywhere(n) == 1..n
Trailer(n)    == {n, n - 4}

Cuts == UNION ({CutsOf(tags, Plain, Everywhere) : tags \in SeqsOf(2, TagSet)}
                 \cup {CutsOf(tags, header, Everywhere) : tags \in SeqsOf(1, TagSet), header \in Headers}
                 \cup {CutsOf(tags, Plain, Trailer) : tags \in SeqsOf(MaxTags, GoOnSet)})

\* The files checked are files made of tags.
MCInit == (\E c \in Cuts : file = c.bytes /\ flv = c.flv) /\ Init
MCSpec == MCInit /\ [][Next]_vars
=============================================================================
