--------------------------- MODULE MCHlsPipeline ---------------------------
(***************************************************************************)
(* HlsPipeline on files that begin with a sequence header and go on with   *)
(* up to three tags, in one to four segments, and on some that end badly.  *)
(* A page holds three entries of the index, so that the end of a page is   *)
(* met.  Headers A and B announce the width 4 and C the width 2, and NALUs *)
(* can be cut by both, by both differently, or by one of them only.        *)
(* Timestamps are 4-bit integers and Duration is 2.                        *)
(***************************************************************************)
EXTENDS HlsPipeline

Tag(kind, timestamp, size) ==
  [kind |-> kind, timestamp |-> timestamp, size |-> size, header |-> NoHeader,
   storage |-> [w \in 1..4 |-> -1]]
HeaderTag(sps, pps, width) ==
  [Tag("avc_config", 0, 0) EXCEPT !.header = [sps |-> sps, pps |-> pps, width |-> width]]
Cut(timestamp, by2, by4) ==
  [Tag("nalu", timestamp, 0) EXCEPT !.storage[2] = by2, !.storage[4] = by4]

MCSetSize == [a |-> 57, b |-> 30, c |-> 28]

HeaderA == HeaderTag(<<"a">>, <<>>, 4)
HeaderB == HeaderTag(<<"b">>, <<"c">>, 4)
HeaderC == HeaderTag(<<"a">>, <<>>, 2)
Nalu(t) == Cut(t, -1, 120)   \* one packet more with its set
Both(t) == Cut(t, 130, 120)
Frame   == Tag("aac", 1, 600)
Config  == Tag("aac_config", 0, 0)
Script  == Tag("script", 0, 0)

File(s, t) == [tags |-> s, tail |-> t]

MCFiles ==
       {File(<<HeaderA>> \o s, "trailer") :
          s \in {<<Frame, Nalu(2), Nalu(4)>>, <<Frame, Frame, Nalu(2)>>}}
  \cup {File(<<HeaderA, body>>, "trailer") : body \in {HeaderB, Frame, Nalu(4)}}
  \cup {File(<<HeaderA, Nalu(2)>>, t) : t \in {"none", "cut"}}
  \cup {File(<<HeaderA, Nalu(0), HeaderB, Nalu(2)>>, "trailer"),
        File(<<HeaderA, HeaderB, Nalu(2)>>, "trailer"),
        File(<<HeaderA, Nalu(0), HeaderC, Both(2)>>, "trailer"),
        File(<<HeaderA, Both(0), HeaderC>>, "trailer"),
        File(<<HeaderA, Nalu(1), HeaderA, Nalu(3)>>, "trailer"),
        File(<<HeaderA, Frame, Nalu(0), Nalu(2), Nalu(3), Nalu(4)>>, "none")}
  \cup {File(<<HeaderA, Nalu(2), last>>, "trailer") :
          last \in {Tag("other_audio", 3, 0), Tag("bad_config", 3, 0), Cut(3, -1, -1)}}
  \cup {File(<<Script, Config, Frame, Tag("avc_end", 0, 0)>>, "trailer"),
        File(<<Nalu(0)>>, "trailer")}
=============================================================================
