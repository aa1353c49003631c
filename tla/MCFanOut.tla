------------------------------ MODULE MCFanOut ------------------------------
(***************************************************************************)
(* Instances of FanOut for TLC.                                            *)
(***************************************************************************)
EXTENDS FanOut, TLC

OneArticle == {1}
TwoArticles == 1..2

Symmetry == Permutations(Polls) \cup Permutations(Dispatchers) \cup Permutations(Companies)
=============================================================================
