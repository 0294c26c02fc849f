--------------------------- MODULE MCCrankerAuth ---------------------------
(* Small instances of CrankerAuth.                                         *)
EXTENDS CrankerAuth, TLC

CONSTANTS c1, c2, q1, q2

OneCranker == {c1}
TwoCalls == {q1, q2}
Alike == Permutations(Call)
=============================================================================
