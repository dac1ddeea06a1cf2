---------------------------- MODULE MCSessionStore ----------------------------
(* Files are only compared for equality, so permuting them is a symmetry.    *)
EXTENDS SessionStore, TLC
FileSymmetry == Permutations(Files)
=============================================================================
