---------------------------- MODULE MCTsRoundTrip ----------------------------
(***************************************************************************)
(* TsRoundTrip on an empty payload, which is stuffed, and on two that fill *)
(* the first packet and leave 183 bytes, which take two more packets, or   *)
(* 184, which fill one.                                                    *)
(***************************************************************************)
EXTENDS TsRoundTrip

MCPayloadSizes == {0, 340, 341}
MCStart == [video |-> 0, audio |-> 15]
MCMod == 32
=============================================================================
