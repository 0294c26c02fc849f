---------------------------- MODULE MCTcapReserve ----------------------------
(***************************************************************************)
(* Small instances of TcapReserve for TLC.                                 *)
(***************************************************************************)
EXTENDS TcapReserve, TLC

CONSTANTS d1, f1, t1, t2, l1, n1, n2

OneDepositor == {d1}
OneFunding == {f1}
OneTip == {t1}
TwoTips == {t1, t2}
OneLegacyTip == {l1}
TwoNonces == {n1, n2}
None == {}

OpenOrPaused == {Gate, Gate \ {"asset", "deposits", "funding", "reserve"}}  \* force_disable
AlwaysOpen == {Gate}

Alike == Permutations(TwoTips) \cup Permutations(TwoNonces)
AlikeNonces == Permutations(TwoNonces)
=============================================================================
