-------------------------- MODULE MCEpochTreasury --------------------------
(***************************************************************************)
(* Small instances of EpochTreasury for TLC.                               *)
(***************************************************************************)
EXTENDS EpochTreasury, TLC

CONSTANTS s1, s2, c1, c2, f1, f2, k1, k2

OneSlot == {s1}
TwoSlots == {s1, s2}
OneCranker == {c1}
TwoCrankers == {c1, c2}
TwoFunders == {f1, f2}
OneSigner == {k1}
TwoSigners == {k1, k2}

FirstFunder == [c \in Cranker |-> f1]

(* Crankers, slots and keys are alike.                                     *)
Alike == Permutations(TwoSlots) \cup Permutations(TwoCrankers)
            \cup Permutations(TwoSigners)
=============================================================================
