------------------------------ MODULE MCIngest ------------------------------
(***************************************************************************)
(* Instances of Ingest for TLC.                                            *)
(***************************************************************************)
EXTENDS Ingest, TLC

ThreeArticles == 1..3
TwoArticles == 1..2
None == {}

Symmetry == Permutations(Polls) \cup Permutations(Companies)
=============================================================================
