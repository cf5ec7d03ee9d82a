----------------------------- MODULE MCSession -----------------------------
(* The session for TLC; the configurations Session*.cfg give the bounds.   *)
EXTENDS SessionBranches, TLC

WriterSymmetry == Permutations(Writers)
=============================================================================
