--------------------------- MODULE MCMappedMemory ---------------------------
(***************************************************************************)
(* MappedMemory with three threads and five pages, an FLV file of two.     *)
(***************************************************************************)
EXTENDS MappedMemory, TLC

CONSTANTS t1, t2, t3

MCPagesOf == [f \in Files |-> IF f = "flv" THEN 2 ELSE 1]

Symmetry == Permutations({t1, t2, t3})
=============================================================================
