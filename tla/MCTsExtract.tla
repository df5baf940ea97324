----------------------------- MODULE MCTsExtract -----------------------------
(***************************************************************************)
(* TsParser on every file of up to MaxPackets packets of the kinds below,  *)
(* as another multiplexer may write them: with the tables late, repeated   *)
(* or of two programs, with empty, full and overlong adaptation fields,    *)
(* packets without payload, null packets, tables of other kinds, program   *)
(* descriptors that are turned down or pass for streams, PES headers that  *)
(* do not fit in their packet, begin behind it or have bad time stamps,    *)
(* and a lost sync byte.                                                   *)
(***************************************************************************)
EXTENDS TsParser

CONSTANT MaxPackets

Pkt(pid, pusi, afe, af_length, section) ==
  [sync |-> TRUE, pid |-> pid, pusi |-> pusi, afe |-> afe, af_length |-> af_length,
   hlen |-> 5, stamps |-> TRUE, section |-> section]

\* A PMT with program descriptors.
Described(infos, info, passing, read) ==
  [PmtSection(infos) EXCEPT !.info_length = info, !.passes = passing, !.misread = read]

Both  == <<[type |-> STREAM_TYPE_VIDEO, pid |-> 256], [type |-> STREAM_TYPE_AUDIO, pid |-> 257]>>
Other == <<[type |-> STREAM_TYPE_VIDEO, pid |-> 258]>>

MCPackets ==
  { Pkt(PAT_PID, TRUE, 1, 0, PatSection(<<PMT_PID>>)),
    Pkt(PAT_PID, TRUE, 1, 0, PatSection(<<16, PMT_PID, 4097>>)),
    Pkt(16, TRUE, 1, 0, OtherSection),
    Pkt(PMT_PID, TRUE, 1, 0, PmtSection(Both)),
    Pkt(PMT_PID, TRUE, 1, 0, Described(Both, 6, FALSE, <<>>)),
    Pkt(PMT_PID, TRUE, 1, 0, Described(Both, 9, TRUE, Other)),
    Pkt(4097, TRUE, 1, 0, PmtSection(Other)),
    Pkt(256, TRUE, 3, 7, PesSection),
    Pkt(256, FALSE, 3, 0, OtherSection),
    Pkt(256, FALSE, 2, 183, OtherSection),
    Pkt(257, FALSE, 3, 184, OtherSection),
    Pkt(257, TRUE, 3, 184, PesSection),
    [Pkt(257, TRUE, 3, 7, PesSection) EXCEPT !.stamps = FALSE],
    Pkt(257, TRUE, 3, 172, PesSection),
    Pkt(257, FALSE, 3, 183, OtherSection),
    Pkt(258, TRUE, 1, 0, PesSection),
    Pkt(258, TRUE, 1, 0, OtherSection),
    Pkt(NULL_PID, TRUE, 1, 0, OtherSection),
    [Pkt(NULL_PID, TRUE, 1, 0, OtherSection) EXCEPT !.sync = FALSE] }

Init ==
  /\ file \in UNION {[1..n -> MCPackets] : n \in 0..MaxPackets}
  /\ ParserInit

Spec == Init /\ [][Parse]_parserVars
=============================================================================
