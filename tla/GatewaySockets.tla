--------------------------- MODULE GatewaySockets ---------------------------
(***************************************************************************)
(* The gateway's WebSockets (tsn-rpc-gateway/server.mjs). An upgrade first  *)
(* connects upstream, one ranked provider after the other, and only then    *)
(* accepts the client; from there on the two sockets are a pair. A client   *)
(* can leave while the gateway still connects, either side can close or     *)
(* fail at any time, and a signal shuts the gateway down.                   *)
(***************************************************************************)
EXTENDS Naturals

CONSTANTS
    Sockets,         \* clients that ask for an upgrade
    Ranked           \* how many providers are tried

ASSUME SocketAssumption == Ranked \in Nat \ {0}

VARIABLES
    pairs,           \* each upgrade: the client's socket, the upstream's, and
                     \* the providers left to try
    gatewayUp        \* FALSE once shutdown has begun

socketVars == <<pairs, gatewayUp>>

NoPair == [client |-> "none", upstream |-> "none", left |-> 0]
Refused == [client |-> "closed", upstream |-> "closed", left |-> 0]

\* isAllowedOrigin and the path decide; a refused client is destroyed at once
Upgrade(c, allowed) ==
    /\ gatewayUp /\ pairs[c] = NoPair
    /\ pairs' = [pairs EXCEPT ![c] =
           IF allowed THEN [client |-> "waiting", upstream |-> "connecting", left |-> Ranked]
                      ELSE Refused]
    /\ UNCHANGED gatewayUp

\* the client leaves before it is accepted; nobody listens to its socket yet
ClientLeaves(c) ==
    /\ pairs[c].client = "waiting"
    /\ pairs' = [pairs EXCEPT ![c].client = "closed"]
    /\ UNCHANGED gatewayUp

\* the upstream opens: handleUpgrade accepts the client, if it is still there
\* and the server still runs, and installs the handlers; otherwise it drops the
\* client without a call back and the upstream stays as it is
UpstreamOpens(c) ==
    /\ pairs[c].upstream = "connecting"
    /\ LET accepted == gatewayUp /\ pairs[c].client = "waiting"
       IN  pairs' = [pairs EXCEPT ![c].client = IF accepted THEN "open" ELSE "closed",
                                  ![c].upstream = IF accepted THEN "open" ELSE "orphan"]
    /\ UNCHANGED gatewayUp

\* the upstream fails: the next provider, and after the last one a 502
UpstreamRefuses(c) ==
    /\ pairs[c].upstream = "connecting"
    /\ pairs' = [pairs EXCEPT ![c] =
           IF @.left > 1 THEN [@ EXCEPT !.left = pairs[c].left - 1] ELSE Refused]
    /\ UNCHANGED gatewayUp

\* closeSocketPair: a socket that is open begins to close
Closing(socket) == IF socket = "open" THEN "closing" ELSE socket
\* a mutant: only the client's side is told to close
ClosedPairOne(pair) == [pair EXCEPT !.client = Closing(@)]
ClosedPair(pair) == [pair EXCEPT !.client = Closing(@), !.upstream = Closing(@)]

\* a socket has closed, by itself, by an error, or because it was told to
ClientCloses(c) ==
    /\ pairs[c].client \in {"open", "closing"}
    /\ pairs' = [pairs EXCEPT ![c] = ClosedPair([@ EXCEPT !.client = "closed"])]
    /\ UNCHANGED gatewayUp

UpstreamCloses(c) ==
    /\ pairs[c].upstream \in {"open", "closing"}
    /\ pairs' = [pairs EXCEPT ![c] = ClosedPair([@ EXCEPT !.upstream = "closed"])]
    /\ UNCHANGED gatewayUp

\* shutdown terminates every client and lets the handlers do the rest
Shutdown ==
    /\ gatewayUp
    /\ gatewayUp' = FALSE
    /\ pairs' = [c \in Sockets |->
           IF pairs[c].client \in {"open", "closing"}
           THEN ClosedPair([pairs[c] EXCEPT !.client = "closed"]) ELSE pairs[c]]

SocketInit == pairs = [c \in Sockets |-> NoPair] /\ gatewayUp = TRUE

SocketNext ==
    \/ \E c \in Sockets, allowed \in BOOLEAN : Upgrade(c, allowed)
    \/ \E c \in Sockets : \/ ClientLeaves(c) \/ UpstreamOpens(c) \/ UpstreamRefuses(c)
                          \/ ClientCloses(c) \/ UpstreamCloses(c)
    \/ Shutdown

\* a socket that was told to close does, within the library's time limit
Closes(c) == \/ pairs[c].client = "closing" /\ ClientCloses(c)
             \/ pairs[c].upstream = "closing" /\ UpstreamCloses(c)

SocketFairness == \A c \in Sockets : WF_socketVars(Closes(c))

SocketSpec == SocketInit /\ [][SocketNext]_socketVars /\ SocketFairness

-----------------------------------------------------------------------------
(* Properties. *)

\* Once a client was accepted, neither side of the pair outlives the other:
\* when one socket has closed, the other closes too (server.mjs:112, 179).
HalfClosed(pair) ==
    \/ pair.client = "closed" /\ pair.upstream \in {"open", "closing"}
    \/ pair.upstream = "closed" /\ pair.client \in {"open", "closing"}
PairsCloseTogether ==
    \A c \in Sockets : HalfClosed(pairs[c])
        ~> pairs[c].client = "closed" /\ pairs[c].upstream = "closed"
=============================================================================
