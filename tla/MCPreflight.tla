------------------------------ MODULE MCPreflight ------------------------------
(* Two runs over a project with one asset and one project file. *)
EXTENDS Preflight, TLC

CONSTANTS r1, r2, song, loop, old, new

MCRuns == {r1, r2}
MCKind == [f \in {song, loop} |-> IF f = song THEN "project" ELSE "audio"]
MCContents == {old, new}
MCSymmetry == Permutations(MCRuns) \cup Permutations(MCContents)
=============================================================================
