---------------------------- MODULE MCWorkLedger ----------------------------
(* WorkLedger on a small instance: one client id submitted with two        *)
(* payloads, one Node and two Crankers, four ticks (each lease lasts one)  *)
(* and two snapshot retries.                                               *)
EXTENDS WorkLedger
=============================================================================
