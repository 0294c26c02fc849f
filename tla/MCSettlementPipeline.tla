------------------------ MODULE MCSettlementPipeline ------------------------
(***************************************************************************)
(* Small instances of SettlementPipeline for TLC.  Two payments are enough *)
(* for one credit to make the other's proof stale, and two Crankers for    *)
(* work to change hands.                                                   *)
(***************************************************************************)
EXTENDS SettlementPipeline, TLC

CONSTANTS p1, p2, c1, c2

TwoPayments == {p1, p2}
OneCranker == {c1}
TwoCrankers == {c1, c2}

(* Payments are alike, and so are Crankers: for the safety run only.       *)
Alike == Permutations(TwoPayments) \cup Permutations(TwoCrankers)

NoFault == {}
(* What the Receiver's comments say the design survives.                   *)
CrankerFaults == {"crankerRequest", "crankerAnswer", "crankerCrash", "crankerRpc", "slow"}
=============================================================================
