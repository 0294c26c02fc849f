------------------------------ MODULE RpcGateway ------------------------------
(***************************************************************************)
(* The RPC gateway (services/tsn-rpc-gateway): one pool of upstream Solana *)
(* providers, JSON-RPC requests that fail over from one provider to the    *)
(* next, and probe rounds that measure all of them at once.                *)
(*                                                                         *)
(* A step ends where the JavaScript handler awaits.  Latencies are         *)
(* abstracted to the interval by which they can move a score.              *)
(***************************************************************************)
EXTENDS Integers, Sequences, SequencesExt

CONSTANTS
    ConfiguredUrls,  \* the URLs of the environment, in the order of its keys
    DefaultUrl,      \* the public endpoint that is always appended
    Requests,        \* HTTP requests of one or several JSON-RPC entries
    Scheduled,       \* TRUE when TSN_RPC_GATEWAY_PROBE_MODE is "scheduled"
    MaxClock,        \* bound on the time, in seconds
    MaxRounds,       \* bound on the scheduled probe rounds
    Payloads         \* the entries each POST can carry

VARIABLES
    gclock,   \* Date.now()
    stats,    \* health, cool-down and failure counters of each provider
    leader,   \* the index of leaderState.providerUrl, or 0
    unseen,   \* history: the leader failed since a leader was last chosen
    round,    \* the probe round: its start, its open probes, and the number of
              \* rounds up to MaxRounds
    request   \* the providers and entries each HTTP request has left to try

gatewayVars == <<gclock, stats, leader, unseen, round, request>>

\* The pool: the configured URLs and the default one, without repetition.
\* A provider is its place in the pool.
Upstreams == {ConfiguredUrls[i] : i \in DOMAIN ConfiguredUrls} \cup {DefaultUrl}

Providers == 1..Cardinality(Upstreams)

FreshStats ==
    [healthy |-> FALSE, cooldownUntil |-> 0, failures |-> 0, probeFailures |-> 0]

Smaller(a, b) == IF a < b THEN a ELSE b

-----------------------------------------------------------------------------
(* Ranking *)

\* What a latency and the capped success bonuses can add to a score: twice
\* 9999 and the bonuses in mode "fastest"; the other modes add less, and every
\* order they can give is among these.
LatencySpread == 20100

\* The score without its latency, for a class of methods.
Penalty(st, lead, p, kind) ==
      10 * (p - 1)
    + (IF st[p].healthy THEN 0 ELSE 50000)
    + (IF st[p].cooldownUntil > gclock THEN 25000 ELSE 0)
    + st[p].failures * (IF kind = "write" THEN 400 ELSE 250)
    + st[p].probeFailures * (IF kind = "write" THEN 650 ELSE 400)
    - (IF lead = p /\ st[p].healthy THEN 75 ELSE 0)

\* classifyMethod: a method that is in neither table is "mixed".
MethodKinds == {"read", "write", "mixed"}

ASSUME GatewayConstants ==
    /\ Scheduled \in BOOLEAN
    /\ MaxClock \in Nat /\ MaxRounds \in Nat
    /\ IsFiniteSet(DOMAIN ConfiguredUrls)
    /\ Payloads \in [Requests -> SUBSET Seq(MethodKinds \cup {"invalid"})]

\* The orders in which the pool can be sorted.
RankedProviders(st, lead, kind) ==
    {r \in SetToSeqs(Providers) :
        \A i, j \in Providers :
            i < j => Penalty(st, lead, r[i], kind)
                        <= Penalty(st, lead, r[j], kind) + LatencySpread}

\* chooseLeader: the first of the pool sorted for a read.
ChosenLeaders(st) == {r[1] : r \in RankedProviders(st, leader, "read")}

-----------------------------------------------------------------------------
(* Probe rounds *)

Probing == round.open # {}

\* A mutant: a failing leader starts no round.
RoundBegunNever == round

\* runProbeRound, skipped while a round is in flight.
RoundBegun ==
    IF Probing THEN round
    ELSE [start |-> gclock, open |-> Providers, number |-> Smaller(round.number + 1, MaxRounds)]

\* Scheduled probing: the first round and those of the interval timer.
TimerFires ==
    /\ Scheduled /\ ~Probing /\ round.number < MaxRounds
    /\ round' = RoundBegun
    /\ UNCHANGED <<gclock, stats, leader, unseen, request>>

\* fetchProbe: an HTTP 200 without a JSON-RPC error before the timeout, or not.
ProbeResults == {TRUE, FALSE}

\* The time a probe compares and writes is the one it read before its fetch.
ProbedStats(s, ok) ==
    IF ok
    THEN [s EXCEPT !.healthy = TRUE,
                   !.cooldownUntil = IF @ <= round.start THEN 0 ELSE @]
    ELSE [s EXCEPT !.healthy = FALSE,
                   !.probeFailures = @ + 1,
                   !.cooldownUntil =
                        round.start + Smaller(60, 3 * (s.probeFailures + 1))]

\* A probe answers or times out; the last one of a round chooses the leader
\* from the statistics as they are then.
ProbeAnswers(p, ok) ==
    /\ p \in round.open
    /\ stats' = [stats EXCEPT ![p] = ProbedStats(@, ok)]
    /\ round' = [round EXCEPT !.open = @ \ {p},
                              !.start = IF round.open = {p} THEN 0 ELSE @]
    /\ IF round.open = {p}
       THEN /\ leader' \in ChosenLeaders(stats')
            /\ unseen' = FALSE
       ELSE UNCHANGED <<leader, unseen>>
    /\ UNCHANGED <<gclock, request>>

-----------------------------------------------------------------------------
(* JSON-RPC requests *)

\* What an upstream does with a request.  "busyError" stands for the JSON-RPC
\* errors about rates, credentials and availability, "malformed" for account
\* data that is not base64; any other JSON-RPC error is a result.
Replies == {"unreachable", "notJson", "cutOff", "httpError", "busyError",
            "malformed", "result"}

\* What the attempt ends in.  A body that stops arriving rejects
\* response.text() outside the try block: that failure is not retryable.
OutcomeOf(reply) ==
    IF reply = "result" THEN "answer"
    ELSE IF reply = "cutOff" THEN "broken"
    ELSE "retryable"

Outcomes == {OutcomeOf(reply) : reply \in Replies}

\* recordOutcome: the statistics after an attempt at provider p.
RecordedStats(p, outcome) ==
    [stats EXCEPT ![p] =
        IF outcome = "answer"
        THEN [@ EXCEPT !.healthy = TRUE, !.cooldownUntil = 0]
        ELSE [@ EXCEPT !.healthy = FALSE,
                       !.failures = @ + 1,
                       !.cooldownUntil =
                            gclock + Smaller(60, 2 * (stats[p].failures + 1))]]

\* The first entry to forward and the order in which the pool is tried for
\* it; entries that are no JSON-RPC object are answered on the spot.
Forwarded(entries) == {i \in 1..Len(entries) : entries[i] # "invalid"}
RequestFrom(st, lead, entries) ==
    LET i == Min(Forwarded(entries))
    IN  IF Forwarded(entries) = {}
        THEN {[pc |-> "done", ranked |-> <<>>, entries |-> <<>>]}
        ELSE {[pc |-> "trying", ranked |-> r, entries |-> SubSeq(entries, i, Len(entries))] :
                r \in RankedProviders(st, lead, entries[i])}

\* A mutant: the loop over the pool does not end after its last provider.
LastProviderNever(q) == FALSE

\* The loop over the ranked providers is at its last one.
LastProvider(q) == Len(request[q].ranked) = 1

\* A POST arrives with one entry or a batch.
Receives(q, entries) ==
    /\ request[q].pc = "idle"
    /\ \E begun \in RequestFrom(stats, leader, entries) :
          request' = [request EXCEPT ![q] = begun]
    /\ UNCHANGED <<gclock, stats, leader, unseen, round>>

\* An attempt ends: its outcome is recorded, a leader that fails starts a
\* round, a retryable failure moves to the next provider, and anything else
\* ends the entry and ranks the pool again for the next one.
AttemptEnds(q, outcome) ==
    LET p == Head(request[q].ranked)
        ended == outcome # "retryable" \/ LastProvider(q)
    IN
    /\ request[q].pc = "trying" /\ request[q].ranked # <<>>
    /\ stats' = RecordedStats(p, outcome)
    /\ leader' = IF outcome = "answer" /\ leader = 0 THEN p ELSE leader
    /\ unseen' = (unseen \/ (outcome # "answer" /\ leader = p))
    /\ round' = IF outcome # "answer" /\ leader = p THEN RoundBegun ELSE round
    /\ IF ended
       THEN \E next \in RequestFrom(stats', leader', Tail(request[q].entries)) :
               request' = [request EXCEPT ![q] = next]
       ELSE request' = [request EXCEPT ![q].ranked = Tail(@)]
    /\ UNCHANGED <<gclock>>

-----------------------------------------------------------------------------
(* The specification *)

GatewayTick ==
    /\ gclock < MaxClock
    /\ gclock' = gclock + 1
    /\ UNCHANGED <<stats, leader, unseen, round, request>>

\* createRpcGatewayApp: nothing is known of the providers, nobody leads.
GatewayInit ==
    /\ gclock = 0
    /\ stats = [p \in Providers |-> FreshStats]
    /\ leader = 0
    /\ unseen = FALSE
    /\ round = [start |-> 0, open |-> {}, number |-> 0]
    /\ request = [q \in Requests |-> [pc |-> "idle", ranked |-> <<>>, entries |-> <<>>]]

GatewayNext ==
    \/ GatewayTick
    \/ TimerFires
    \/ \E p \in Providers, ok \in ProbeResults : ProbeAnswers(p, ok)
    \/ \E q \in Requests : \E e \in Payloads[q] : Receives(q, e)
    \/ \E q \in Requests, o \in Outcomes : AttemptEnds(q, o)

\* Every fetch answers or is aborted by its timeout signal.
GatewayFairness ==
    /\ \A p \in Providers : WF_gatewayVars(\E ok \in ProbeResults : ProbeAnswers(p, ok))
    /\ \A q \in Requests : WF_gatewayVars(\E o \in Outcomes : AttemptEnds(q, o))

GatewaySpec == GatewayInit /\ [][GatewayNext]_gatewayVars /\ GatewayFairness

-----------------------------------------------------------------------------
(* Properties *)

\* A failure of the leader is never ignored: a failure recorded while a round
\* is in flight starts no round of its own (provider-pool.mjs:288), but then
\* the running round ends with a choice that sees it.
LeaderFailureIsSeen == unseen => Probing

\* Every request that was received is answered, whatever its providers do
\* (gateway.mjs proxySinglePayload and proxyBatchPayload).
RequestsAreAnswered ==
    \A q \in Requests : request[q].pc = "trying" ~> request[q].pc = "done"

=============================================================================
