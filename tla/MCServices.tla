----------------------------- MODULE MCServices -----------------------------
(* The services beside the settlement: the gateway's requests and probes,   *)
(* its WebSockets, and the Receiver's file store. They share no state, so   *)
(* each behaviour exercises one of them (focus) while the others rest in    *)
(* their initial state; each keeps the fairness of its own specification.   *)
EXTENDS RpcGateway, GatewaySockets, LocalStore, TLC

CONSTANTS q1, q2

\* two providers, configured with one URL; a POST carries one entry or a batch
\* with an entry that is no request
MCUrls == <<"private", "private">>
MCPayloads == q1 :> {<<"invalid", "read">>} @@ q2 :> {<<"write">>, <<"invalid">>}

VARIABLE focus

vars == <<focus, gatewayVars, socketVars, storeVars>>

Init ==
    /\ focus \in {"gateway", "sockets", "store"}
    /\ GatewayInit /\ SocketInit /\ StoreInit
    /\ focus # "store" => file = {}

Next ==
    \/ focus = "gateway" /\ GatewayNext /\ UNCHANGED <<focus, socketVars, storeVars>>
    \/ focus = "sockets" /\ SocketNext /\ UNCHANGED <<focus, gatewayVars, storeVars>>
    \/ focus = "store" /\ StoreNext /\ UNCHANGED <<focus, gatewayVars, socketVars>>

\* In the other behaviours the clock of the file store stands still.
Fairness ==
    /\ GatewayFairness
    /\ SocketFairness
    /\ WF_storeVars(focus = "store" /\ StoreTick)
    /\ \A w \in Workers : WF_storeVars(StoreStep(w))

ServicesSpec == Init /\ [][Next]_vars /\ Fairness
=============================================================================
