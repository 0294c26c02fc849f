----------------------------- MODULE MCClients ------------------------------
(* The clients of the protocol, one per behaviour: creating a TIN, opening  *)
(* and rewrapping its seed, private sessions, payment requests, and payouts *)
(* on another chain. They share no state, so each behaviour exercises one   *)
(* of them (focus) while the others rest in an initial state; the model     *)
(* values a1.. b2 are reused by all of them, which keeps their symmetries   *)
(* few.                                                                     *)
EXTENDS TinCreation, TinSeedAccess, PrivateSessions, PaymentRequests, CrossChain, TLC

CONSTANTS a1, a2, b1, b2

MCIssued == [t \in {a1, a2} |-> "owner"]
MCAmountOf == [s \in Settlement |-> 1]
\* 0.50 and 0.025 are exact, 12.3 has more digits than a number keeps, and 0.003
\* prints with an exponent
MCAmounts == {[units |-> 50, places |-> 2], [units |-> 25, places |-> 3],
              [units |-> 123, places |-> 1], [units |-> 3, places |-> 3]}

VARIABLE focus

Init ==
    /\ focus \in {"tin", "seed", "session", "payment", "payout"}
    /\ TinInit /\ AccessInit /\ SessInit /\ PayInit
    /\ focus # "seed" => stored = <<WalletOwned(RouteSeed, 1, 0)>>
    \* the phone is registered, which leaves a message more for what follows
    /\ \A p \in Phone : devices[p] # NoSession
    /\ IF focus = "payout" THEN CcInit ELSE lane = "message" /\ CcStart(NoRoute)

Next ==
    \/ focus = "tin" /\ TinNext /\ UNCHANGED <<focus, accessVars, sessVars, payVarsAll, ccVars>>
    \/ focus = "seed" /\ AccessNext /\ UNCHANGED <<focus, tinVars, sessVars, payVarsAll, ccVars>>
    \/ focus = "session" /\ SessNext /\ UNCHANGED <<focus, tinVars, accessVars, payVarsAll, ccVars>>
    \/ focus = "payment" /\ PayNext /\ UNCHANGED <<focus, tinVars, accessVars, sessVars, ccVars>>
    \/ focus = "payout" /\ CcNext /\ UNCHANGED <<focus, tinVars, accessVars, sessVars, payVarsAll>>

ClientsSpec == Init /\ [][Next]_<<focus, tinVars, accessVars, sessVars, payVarsAll, ccVars>>

Symmetry == Permutations({a1, a2}) \cup Permutations({b1, b2})
=============================================================================
