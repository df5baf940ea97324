------------------------------ MODULE MCFlv2ts ------------------------------
(***************************************************************************)
(* Flv2ts on all files of up to three tags from an alphabet that reaches   *)
(* every branch of the loop, and on longer ones that begin with a sequence *)
(* header.  The headers announce the widths 4 and 2, and the NALUs can be  *)
(* cut by both alike, by both differently, or by one of them only.         *)
(* Timestamps are 4-bit integers, -8 to 7, and Duration is 2.              *)
(***************************************************************************)
EXTENDS Flv2ts

Tag(kind, timestamp, size) ==
  [kind |-> kind, timestamp |-> timestamp, size |-> size, header |-> NoHeader,
   storage |-> [w \in 1..4 |-> -1]]
Nalu(timestamp, by2, by4) ==
  [Tag("nalu", timestamp, 0) EXCEPT !.storage[2] = by2, !.storage[4] = by4]
SequenceHeaderTag(timestamp, sps, pps, width) ==
  [Tag("avc_config", timestamp, 0) EXCEPT
     !.header = [sps |-> sps, pps |-> pps, width |-> width]]

MCSetSize == [a |-> 57, b |-> 30, c |-> 28]

\* With set "a" in front a 100-byte payload just leaves its packet full, with
\* "b" and "c" it needs a second one.
Nalus   == {Nalu(t, 100, 100) : t \in {-1, 2}}
             \cup {Nalu(0, 104, 100), Nalu(4, -1, 100), Nalu(1, 3000, 3000)}   \* 17 packets
Headers == {SequenceHeaderTag(0, <<"a">>, <<>>, 4), SequenceHeaderTag(1, <<"b">>, <<"c">>, 2)}
Frames  == {Tag("aac", 0, 100), Tag("aac", 3, 600)}
Others  == {Tag("script", 7, 0), Tag("aac_config", 0, 0), Tag("avc_end", 2, 0)}
Ends    == {Tag(kind, 4, 0) : kind \in UnsupportedKinds}

Good == Nalus \cup Headers \cup Frames \cup Others

UpTo(n, S) == UNION {[1..k -> S] : k \in 0..n}

MCFiles ==
       {[tags |-> s, tail |-> "trailer"] : s \in UpTo(3, Good)}
  \cup {[tags |-> s, tail |-> t] : s \in UpTo(2, Good), t \in Tails}
  \cup {[tags |-> s \o <<e>>, tail |-> "trailer"] : s \in UpTo(2, Good), e \in Ends}
  \cup {[tags |-> <<h>> \o s, tail |-> t] :
          h \in Headers, s \in UpTo(4, Nalus \cup Frames), t \in {"trailer", "none"}}
=============================================================================
