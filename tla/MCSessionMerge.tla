--------------------------- MODULE MCSessionMerge ---------------------------
(* Values and fields are only compared for equality.                        *)
EXTENDS SessionMerge, TLC
MergeSymmetry == Permutations(Fields) \cup Permutations(Values)
=============================================================================
