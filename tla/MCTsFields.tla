----------------------------- MODULE MCTsFields -----------------------------
(***************************************************************************)
(* TsFields on two frames at the edges of its numbers.                     *)
(***************************************************************************)
EXTENDS TsFields

\* Zero, both sides of 2^32 ticks (47721858 ms), of 2^33 ticks (95443717 ms),
\* of the clock or of the 0.1 seconds behind it, the largest timestamp, and one
\* below zero by more than those 0.1 seconds and one by less.
MCTimestamps ==
  {0, 47721758, 47721859, 95443617, 95443618, 2147483647, -99, -101}

MCCompositionTimes == {0, 40, 8388607, -40}

\* Lengths of 13 bits on both sides of each byte of the field, and one too long.
MCFrameSizes == {0, 1, 248, 249, 2040, 2041, 8184, 8185}
=============================================================================
