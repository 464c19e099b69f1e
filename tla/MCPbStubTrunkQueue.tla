------------------------- MODULE MCPbStubTrunkQueue -------------------------
(* Small instances of PbStubTrunkQueue for TLC. *)
EXTENDS PbStubTrunkQueue, TLC

Symmetry == Permutations(Producers) \cup Permutations(Item)
=============================================================================
