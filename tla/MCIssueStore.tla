---------------------------- MODULE MCIssueStore ----------------------------
(* IssueStore for TLC. *)
EXTENDS IssueStore, TLC

CONSTANTS h1, a1, a2, i1, i2, i3

OneHost == {h1}
TwoArticles == {a1, a2}
ThreeIds == {i1, i2, i3}

\* Identifiers are random uuids, and articles alike.
Symmetry == Permutations(Ids) \cup Permutations(Articles)
=============================================================================
