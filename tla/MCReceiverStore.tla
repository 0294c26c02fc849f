--------------------------- MODULE MCReceiverStore ---------------------------
(* ReceiverStore on a small instance: one client id, two concurrent lease  *)
(* requests, one Node and two Crankers, queries cut off at one document.   *)
(* The requests and the Crankers are interchangeable.                      *)
EXTENDS ReceiverStore, TLC

AllKinds == {Kind}
Interchangeable == Permutations(Call) \cup Permutations(Cranker)
=============================================================================
