----------------------------- MODULE MCTsWrite -----------------------------
(***************************************************************************)
(* TsWrite on the payload sizes at which the writers change course: empty, *)
(* around the 157 bytes of a first packet, around the 184 of a further one *)
(* (with the 183 that need two packets), and one payload long enough for   *)
(* the 4-bit continuity counter to wrap within a call.                     *)
(***************************************************************************)
EXTENDS TsWrite

First == 157

MCPayloadSizes ==
  {0, First - 1, First, First + 1, First + 182, First + 183, First + 184,
   First + 17 * 184 + 183}

\* The last payload whose length fits in two bytes, and the first that does not.
MCLargeSizes == {65522, 65523}

MCStart == [video |-> 0, audio |-> 15]

MCMod == 32

=============================================================================
