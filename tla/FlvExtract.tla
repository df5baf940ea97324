----------------------------- MODULE FlvExtract -----------------------------
(***************************************************************************)
(* What the readers of FLV files promise, over the tags of FlvTags: they   *)
(* take the tags one by one, flv-extract copies the AAC frames or the NAL  *)
(* units, flv2ts takes both apart for its writers, and they stop where a   *)
(* file of these tags ends or is cut off.  A NALU comes with its units as  *)
(* the width in force cuts it; one that it does not cut is a "bad_nalu".   *)
(***************************************************************************)
EXTENDS FlvTags, FiniteSets

VARIABLES
  tool,     \* "audio" or "video": flv-extract; "parse": parse-flv; "flv2ts"
  flv, pos, \* the file and the tag that comes next, as in Flv2ts
  status,   \* "running", "done" (0), "failed" (1), "undefined"
  copied    \* the number of the tag of each piece handed on

vars == <<tool, flv, pos, status, copied>>

NaluKinds == {"nalu", "bad_nalu"}

Wanted ==
  [audio |-> {"aac"}, video |-> NaluKinds, parse |-> {}, flv2ts |-> MediaKinds][tool]
Turned ==
  [audio  |-> {"other_audio"}, video |-> {"other_video", "avc_unknown", "bad_config"},
   parse  |-> {}, flv2ts |-> UnsupportedKinds \cup {"bad_nalu"}][tool]

\* How many pieces a tag is handed on in.
Pieces(tag) ==
  IF tag.kind \notin Wanted THEN 0
  ELSE IF tool = "flv2ts" /\ tag.kind = "nalu" THEN Cardinality(tag.units) ELSE 1

\* flv2ts knows how to take a NAL unit apart from a sequence header on.
Unconfigured ==
  /\ tool = "flv2ts" /\ flv.tags[pos].kind \in NaluKinds
  /\ \A i \in 1..pos-1 : flv.tags[i].kind # "avc_config"

Init == pos = 1 /\ status = "running" /\ copied = <<>>

Stop(s) == status = "running" /\ status' = s /\ UNCHANGED <<tool, flv, pos, copied>>

OpenError  == pos = 1 /\ Stop("failed")
ParseError == ParseFails(flv, pos) /\ Stop("failed")
Eos        == EosAfter(flv, pos) /\ Stop("done")
Refuse     == TagAt(flv, pos) /\ flv.tags[pos].kind \in Turned /\ Stop("failed")

\* Only a tag without payload may have one of its own bytes missing.
Undefined ==
  /\ pos <= Len(flv.tags) /\ (flv.tags[pos].size = 0 \/ Unconfigured)
  /\ Stop("undefined")

Tag ==
  /\ status = "running" /\ TagAt(flv, pos)
  /\ flv.tags[pos].kind \notin Turned /\ ~Unconfigured
  /\ copied' = copied \o [i \in 1..Pieces(flv.tags[pos]) |-> pos]
  /\ pos' = pos + 1
  /\ UNCHANGED <<tool, flv, status>>

Next == OpenError \/ ParseError \/ Eos \/ Refuse \/ Undefined \/ Tag

Spec == Init /\ [][Next]_vars
=============================================================================
