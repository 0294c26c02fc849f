----------------------------- MODULE CrossChain -----------------------------
(***************************************************************************)
(* Cross-chain payouts (tsn-crosschain, tsn-sdk cross-chain.ts). A client   *)
(* reads the route and its liquidity, asks the Node for an authorization,   *)
(* and a Cranker submits it to a hub on Creditcoin. The hub reserves        *)
(* capacity the registry has seen and either publishes a message that the   *)
(* destination's executor pays from its vault ("message"), or pays from a   *)
(* local vault at once ("direct").                                          *)
(*                                                                         *)
(* Proofs and signatures are honest. The Attestcoin relay and the event's   *)
(* emitter are external: a message can come late, twice or never.           *)
(***************************************************************************)
EXTENDS Naturals, Sequences, FiniteSetsExt, Functions

CONSTANTS
    Settlement,      \* settlements
    AmountOf,        \* what each pays
    CcCranker,       \* Crankers
    Executor,        \* destination executors
    MaxVault,        \* bound on the vault's balance
    MaxEvents,       \* bound on liquidity observations
    MaxRoutes,       \* bound on route changes
    MaxCcTime,       \* bound on the clock
    MaxCcFaults,     \* bound on lost answers and failing reads
    NoRoute          \* the zero address, and every absent value

ASSUME CrossChainAssumption ==
    /\ IsFiniteSet(Settlement) /\ AmountOf \in [Settlement -> Nat \ {0}]
    /\ \A b \in {MaxVault, MaxEvents, MaxRoutes, MaxCcTime, MaxCcFaults} : b \in Nat

VARIABLES
    lane,            \* which hub is deployed: "message" or "direct"
    ccClock,
    vault,           \* balance and executor of the payout vault
    liqEvents,       \* LiquidityAvailable events; an event's number is its nonce
    proving,         \* events a worker has a proof for and has not submitted
    liqRegistry,       \* route, latest observation, reservations
    hub,             \* settlements processed, and whether the hub is paused
    intents,         \* what the client has read and asked for
    auths,           \* authorizations the Node has signed
    leases,          \* the Cranker that holds each settlement's work
    ccRuns,          \* each Cranker's submission
    ccTx,            \* transactions on their way to the hub
    outbox,          \* messages published
    executed,        \* settlements whose nonce each executor has used
    payouts,         \* what left the vault for each settlement
    ccReports,       \* what the Receiver was told
    ccBudget         \* route changes and faults so far

liqVars == <<vault, liqEvents, proving>>
askVars == <<intents, auths>>
runVars == <<leases, ccRuns, ccTx, ccReports>>
payVars == <<hub, outbox, executed, payouts>>
envVars == <<lane, ccClock, ccBudget>>
ccVars  == <<liqRegistry, liqVars, askVars, runVars, payVars, envVars>>

\* names and hashes of the destination network
NetworkName == <<"base">>
Id(name)    == <<"id">> \o name
Network     == Id(NetworkName)

NoObservation == [available |-> 0, validUntil |-> 0, nonce |-> 0]
Idle == [pc |-> "idle", settlement |-> NoRoute, attempt |-> 0,
         route |-> NoRoute, active |-> NoRoute, liquidity |-> NoRoute]

-----------------------------------------------------------------------------
(* The registry. *)

\* isSettlementRouteActive; a direct route has no outbox
RouteActive == liqRegistry.enabled /\ liqRegistry.executor # NoRoute

\* isLiquidityAvailable
LiquidityAvailable(amount) ==
    /\ liqRegistry.enabled
    /\ liqRegistry.observation.validUntil >= ccClock
    /\ liqRegistry.observation.available >= liqRegistry.reservedAmount + amount

\* recordVerifiedLiquidity, observeLocalLiquidity
MayRecord(o) == /\ liqRegistry.enabled
                /\ o.validUntil > ccClock
                /\ o.nonce > liqRegistry.observation.nonce

\* reserveLiquidity
MayReserve(s) == liqRegistry.reservations[s] = 0 /\ LiquidityAvailable(AmountOf[s])
Reserved(s) == [liqRegistry EXCEPT !.reservations[s] = AmountOf[s], !.reservedAmount = @ + AmountOf[s]]

\* releaseLiquidity
ReleasedStale(s) == [liqRegistry EXCEPT !.reservedAmount = @ - AmountOf[s]]
Released(s) == [liqRegistry EXCEPT !.reservations[s] = 0, !.reservedAmount = @ - AmountOf[s]]

\* the owner frees capacity; only the message hub has a way to
ReleaseReservation(s) ==
    /\ lane = "message"
    /\ liqRegistry.reservations[s] = AmountOf[s] /\ liqRegistry.reservedAmount >= AmountOf[s]
    /\ liqRegistry' = Released(s)
    /\ UNCHANGED <<liqVars, askVars, runVars, payVars, envVars>>

\* configureRoute leaves the route without an executor, configureSettlementRoute
\* and the direct registry's configureRoute name one; reservations stay
ConfigureRoute(e, enabled) ==
    /\ ccBudget.routes < MaxRoutes
    /\ lane = "direct" => e # NoRoute
    /\ liqRegistry' = [liqRegistry EXCEPT !.executor = e, !.enabled = enabled]
    /\ ccBudget' = [ccBudget EXCEPT !.routes = @ + 1]
    /\ UNCHANGED <<lane, ccClock, liqVars, askVars, runVars, payVars>>

\* setPaused, of the message hub
SetPaused ==
    /\ lane = "message" /\ ccBudget.routes < MaxRoutes
    /\ hub' = [hub EXCEPT !.paused = ~@]
    /\ ccBudget' = [ccBudget EXCEPT !.routes = @ + 1]
    /\ UNCHANGED <<lane, ccClock, liqRegistry, outbox, executed, payouts, liqVars, askVars, runVars>>

-----------------------------------------------------------------------------
(* Liquidity: funding, withdrawal, observation, proof. *)

FundVault ==
    /\ vault.balance < MaxVault
    /\ vault' = [vault EXCEPT !.balance = @ + 1]
    /\ UNCHANGED <<liqEvents, proving, liqRegistry, askVars, runVars, payVars, envVars>>

WithdrawVault ==
    /\ vault.balance > 0
    /\ vault' = [vault EXCEPT !.balance = @ - 1]
    /\ UNCHANGED <<liqEvents, proving, liqRegistry, askVars, runVars, payVars, envVars>>

SetExecutor(e) ==
    /\ ccBudget.routes < MaxRoutes
    /\ vault' = [vault EXCEPT !.executor = e]
    /\ ccBudget' = [ccBudget EXCEPT !.routes = @ + 1]
    /\ UNCHANGED <<lane, ccClock, liqEvents, proving, liqRegistry, askVars, runVars, payVars>>

Observation == [available |-> vault.balance, validUntil |-> ccClock + 1, nonce |-> Len(liqEvents) + 1]

\* the emitter announces what the vault holds; on the direct lane the owner
\* records it in the same transaction
AnnounceLiquidity ==
    /\ Len(liqEvents) < MaxEvents
    /\ liqEvents' = Append(liqEvents, Observation)
    /\ lane = "direct" => MayRecord(Observation)
    /\ liqRegistry' = IF lane = "direct"
                      THEN [liqRegistry EXCEPT !.observation = Observation]
                      ELSE liqRegistry
    /\ UNCHANGED <<vault, proving, askVars, runVars, payVars, envVars>>

\* the worker waits for the event to be mined and attested, and gets its proof
ProveLiquidity(n) ==
    /\ lane = "message" /\ n \notin proving
    /\ proving' = proving \union {n}
    /\ UNCHANGED <<vault, liqEvents, liqRegistry, askVars, runVars, payVars, envVars>>

\* the ASC checks the event and the registry records it, or the call reverts; a
\* query that was processed has a nonce that is not newer
RecordLiquidity(n) ==
    /\ n \in proving
    /\ proving' = proving \ {n}
    /\ liqRegistry' = IF liqEvents[n].available > 0 /\ MayRecord(liqEvents[n])
                    THEN [liqRegistry EXCEPT !.observation = liqEvents[n]] ELSE liqRegistry
    /\ UNCHANGED <<vault, liqEvents, askVars, runVars, payVars, envVars>>

-----------------------------------------------------------------------------
(* The client and the Node. *)

\* CreditcoinRouteClient.readEvidence: the liquidity is fresh strictly before
\* its end, and reservations are not subtracted
Ready(active, route, liquidity) ==
    active /\ route.enabled /\ liquidity.validUntil > ccClock /\ liquidity.available > 0

\* loadCrossChainUiSnapshot
Preflight(s) ==
    /\ intents[s] = NoRoute
    /\ Ready(RouteActive, liqRegistry, liqRegistry.observation)
    /\ intents' = [intents EXCEPT ![s] = liqRegistry.executor]
    /\ UNCHANGED <<liqRegistry, auths, liqVars, runVars, payVars, envVars>>

\* submitDebitIntent posts the executor the client read, and the Node checks the
\* live route. The signature that follows is made outside this repository:
\* signCreditcoinPayout, the signer it offers, signs the hash of the field,
\* another may sign the field
SubmitDebitIntent(s, net, signed) ==
    /\ intents[s] # NoRoute /\ auths[s] = NoRoute
    /\ RouteActive /\ liqRegistry.executor = intents[s] /\ LiquidityAvailable(AmountOf[s])
    /\ auths' = [auths EXCEPT ![s] = [executor |-> intents[s], network |-> net, signed |-> signed,
                                      deadline |-> ccClock + 1]]
    /\ UNCHANGED <<liqRegistry, intents, liqVars, runVars, payVars, envVars>>

-----------------------------------------------------------------------------
(* The Cranker. *)

StopRun(c) == ccRuns' = [ccRuns EXCEPT ![c] = Idle]

\* the Receiver takes the holder's report and no other
ReportPayout(c, outcome) ==
    LET s == ccRuns[c].settlement
    IN  IF leases[s] = c /\ ccReports[s] = NoRoute
        THEN ccReports' = [ccReports EXCEPT ![s] = outcome] ELSE UNCHANGED ccReports

\* only a fault lets a payout be leased again: the count tells attempts apart
LeasePayout(c, s) ==
    /\ ccRuns[c].pc = "idle"
    /\ auths[s] # NoRoute /\ leases[s] = NoRoute /\ ccReports[s] = NoRoute
    /\ leases' = [leases EXCEPT ![s] = c]
    /\ ccRuns' = [ccRuns EXCEPT ![c] = [Idle EXCEPT !.pc = "reading", !.settlement = s,
                                                             !.attempt = ccBudget.faults]]
    /\ UNCHANGED <<liqRegistry, ccTx, ccReports, liqVars, askVars, payVars, envVars>>

\* the three reads of readEvidence come back in any order
ReadEvidence(c) ==
    /\ ccRuns[c].pc = "reading"
    /\ \/ /\ ccRuns[c].route = NoRoute
          /\ ccRuns' = [ccRuns EXCEPT ![c].route = Restrict(liqRegistry, {"enabled", "executor"})]
       \/ /\ ccRuns[c].liquidity = NoRoute
          /\ ccRuns' = [ccRuns EXCEPT ![c].liquidity = liqRegistry.observation]
       \/ /\ ccRuns[c].active = NoRoute
          /\ ccRuns' = [ccRuns EXCEPT ![c].active = IF RouteActive THEN "yes" ELSE "no"]
    /\ UNCHANGED <<liqRegistry, leases, ccTx, ccReports, liqVars, askVars, payVars, envVars>>

\* a read fails: readEvidence answers "blocked" or throws
ReadFails(c) ==
    /\ ccRuns[c].pc = "reading" /\ ccBudget.faults < MaxCcFaults
    /\ ReportPayout(c, "FAILED") /\ StopRun(c)
    /\ ccBudget' = [ccBudget EXCEPT !.faults = @ + 1]
    /\ UNCHANGED <<lane, ccClock, liqRegistry, leases, ccTx, liqVars, askVars, payVars>>

\* the checks of submit, and ethers' encoding of the network as bytes32
MaySend(r) ==
    /\ Ready(r.active = "yes", r.route, r.liquidity)
    /\ auths[r.settlement].executor = r.route.executor
    /\ AmountOf[r.settlement] <= r.liquidity.available
    /\ auths[r.settlement].deadline > ccClock
    /\ auths[r.settlement].network # NetworkName

Submit(c) ==
    /\ ccRuns[c].pc = "reading"
    /\ NoRoute \notin {ccRuns[c].route, ccRuns[c].liquidity, ccRuns[c].active}
    /\ IF MaySend(ccRuns[c])
       THEN /\ ccTx' = ccTx \union {[cranker |-> c, settlement |-> ccRuns[c].settlement,
                                          attempt |-> ccRuns[c].attempt]}
            /\ ccRuns' = [ccRuns EXCEPT ![c].pc = "sent"]
            /\ UNCHANGED ccReports
       ELSE ReportPayout(c, "FAILED") /\ StopRun(c) /\ UNCHANGED ccTx
    /\ UNCHANGED <<liqRegistry, leases, liqVars, askVars, payVars, envVars>>

\* tx.wait() gave up; the transaction may still be mined
LoseReceipt(c) ==
    /\ ccRuns[c].pc = "sent" /\ ccBudget.faults < MaxCcFaults
    /\ ReportPayout(c, "FAILED") /\ StopRun(c)
    /\ ccBudget' = [ccBudget EXCEPT !.faults = @ + 1]
    /\ UNCHANGED <<lane, ccClock, liqRegistry, leases, ccTx, liqVars, askVars, payVars>>

\* a receipt counts when it succeeded and has a SettlementMessagePublished log,
\* which the direct hub does not emit
ReceiptCounts(r) == r.pc = "published"

CheckReceipt(c) ==
    /\ ccRuns[c].pc \in {"published", "executed", "reverted"}
    /\ ReportPayout(c, IF ReceiptCounts(ccRuns[c]) THEN "CONFIRMED" ELSE "FAILED")
    /\ StopRun(c)
    /\ UNCHANGED <<liqRegistry, leases, ccTx, liqVars, askVars, payVars, envVars>>

\* the daemon stops, and its lease runs out
CrashCranker(c) ==
    /\ ccRuns[c].pc # "idle" /\ ccBudget.faults < MaxCcFaults
    /\ StopRun(c)
    /\ leases' = [s \in Settlement |-> IF leases[s] = c THEN NoRoute ELSE leases[s]]
    /\ ccBudget' = [ccBudget EXCEPT !.faults = @ + 1]
    /\ UNCHANGED <<lane, ccClock, liqRegistry, ccTx, ccReports, liqVars, askVars, payVars>>

\* a slow holder loses its lease and goes on
ExpirePayoutLease(s) ==
    /\ leases[s] # NoRoute /\ ccReports[s] = NoRoute /\ ccBudget.faults < MaxCcFaults
    /\ leases' = [leases EXCEPT ![s] = NoRoute]
    /\ ccBudget' = [ccBudget EXCEPT !.faults = @ + 1]
    /\ UNCHANGED <<lane, ccClock, liqRegistry, ccRuns, ccTx, ccReports, liqVars, askVars, payVars>>

-----------------------------------------------------------------------------
(* The hubs, the executors and the vault. *)

PaidFrom(v, s) == [v EXCEPT !.balance = @ - AmountOf[s]]

\* executeSettlement up to the reservation; a settlement stands for its nonce
HubAccepts(s) ==
    /\ ccClock <= auths[s].deadline
    /\ ~hub.paused /\ s \notin hub.processed
    /\ auths[s].signed = auths[s].network
    /\ RouteActive /\ auths[s].network = Network /\ auths[s].executor = liqRegistry.executor
    /\ MayReserve(s)

\* the direct hub pays in the same call, through the route's executor
PaysNow(s) == vault.executor = auths[s].executor /\ vault.balance >= AmountOf[s]

Mined(t, pc) ==
    ccRuns' = IF /\ ccRuns[t.cranker].pc = "sent" /\ ccRuns[t.cranker].settlement = t.settlement
                 /\ ccRuns[t.cranker].attempt = t.attempt
              THEN [ccRuns EXCEPT ![t.cranker].pc = pc] ELSE ccRuns

ExecuteSettlement(t) ==
    LET s == t.settlement
    IN  /\ ccTx' = ccTx \ {t}
        /\ \/ /\ HubAccepts(s) /\ lane = "message"
              /\ outbox' = outbox \union {s}
              /\ hub' = [hub EXCEPT !.processed = @ \union {s}] /\ liqRegistry' = Reserved(s)
              /\ Mined(t, "published")
              /\ UNCHANGED <<vault, payouts>>
           \/ /\ HubAccepts(s) /\ lane = "direct" /\ PaysNow(s)
              /\ vault' = PaidFrom(vault, s) /\ payouts' = [payouts EXCEPT ![s] = @ + AmountOf[s]]
              /\ hub' = [hub EXCEPT !.processed = @ \union {s}] /\ liqRegistry' = Reserved(s)
              /\ Mined(t, "executed")
              /\ UNCHANGED outbox
           \/ /\ ~HubAccepts(s) \/ (lane = "direct" /\ ~PaysNow(s))
              /\ Mined(t, "reverted")
              /\ UNCHANGED <<outbox, hub, liqRegistry, vault, payouts>>
    /\ UNCHANGED <<liqEvents, proving, leases, executed, ccReports, askVars, envVars>>

DropTransaction(t) ==
    /\ ccTx' = ccTx \ {t} /\ Mined(t, "reverted")
    /\ UNCHANGED <<liqRegistry, leases, ccReports, liqVars, askVars, payVars, envVars>>

\* TSNSettlementExecutor: the message names its executor, whose used nonces
\* are its own
ExecutorAcceptsAgain(s, e) ==
    /\ ccClock <= auths[s].deadline
    /\ auths[s].executor = e
ExecutorAccepts(s, e) ==
    /\ ccClock <= auths[s].deadline
    /\ auths[s].executor = e
    /\ s \notin executed[e]

\* a delivery of a message, the first or another; a vault that cannot pay
\* undoes it
DeliverMessage(s, e) ==
    /\ s \in outbox
    /\ ExecutorAccepts(s, e)
    /\ vault.executor = e /\ vault.balance >= AmountOf[s]
    /\ executed' = [executed EXCEPT ![e] = @ \union {s}]
    /\ vault' = PaidFrom(vault, s)
    /\ payouts' = [payouts EXCEPT ![s] = @ + AmountOf[s]]
    /\ UNCHANGED <<liqEvents, proving, liqRegistry, hub, outbox, askVars, runVars, envVars>>

CcTick ==
    /\ ccClock < MaxCcTime
    /\ ccClock' = ccClock + 1
    /\ UNCHANGED <<lane, liqRegistry, ccBudget, liqVars, askVars, runVars, payVars>>

-----------------------------------------------------------------------------

\* the vault starts full, with the executor the route names
CcStart(e) ==
    /\ ccClock = 0
    /\ vault = [balance |-> MaxVault, executor |-> e]
    /\ liqRegistry = [enabled |-> TRUE, executor |-> e, observation |-> NoObservation,
                      reservedAmount |-> 0, reservations |-> [s \in Settlement |-> 0]]
    /\ liqEvents = <<>> /\ proving = {} /\ ccTx = {} /\ outbox = {}
    /\ hub = [processed |-> {}, paused |-> FALSE]
    /\ intents = [s \in Settlement |-> NoRoute]
    /\ auths = intents /\ leases = intents /\ ccReports = intents
    /\ ccRuns = [c \in CcCranker |-> Idle]
    /\ executed = [x \in Executor |-> {}]
    /\ payouts = [s \in Settlement |-> 0]
    /\ ccBudget = [routes |-> 0, faults |-> 0]

CcInit == lane \in {"message", "direct"} /\ \E e \in Executor : CcStart(e)

CcNext ==
    \/ \E s \in Settlement : \/ ReleaseReservation(s) \/ Preflight(s) \/ ExpirePayoutLease(s)
                             \/ \E signed \in {Network, Id(Network)} :
                                    SubmitDebitIntent(s, Network, signed)
                             \/ SubmitDebitIntent(s, NetworkName, Network)
    \/ \E e \in Executor \union {NoRoute}, on \in BOOLEAN : ConfigureRoute(e, on)
    \/ SetPaused \/ FundVault \/ WithdrawVault \/ AnnounceLiquidity \/ CcTick
    \/ \E e \in Executor : SetExecutor(e) \/ \E s \in Settlement : DeliverMessage(s, e)
    \/ \E n \in DOMAIN liqEvents : ProveLiquidity(n) \/ RecordLiquidity(n)
    \/ \E c \in CcCranker : \/ \E s \in Settlement : LeasePayout(c, s)
                            \/ ReadEvidence(c) \/ ReadFails(c) \/ Submit(c) \/ LoseReceipt(c)
                            \/ CheckReceipt(c) \/ CrashCranker(c)
    \/ \E t \in ccTx : ExecuteSettlement(t) \/ DropTransaction(t)

CcSpec == CcInit /\ [][CcNext]_ccVars

-----------------------------------------------------------------------------

\* A settlement leaves the vault at most once and for its amount, whichever
\* Crankers submit it, however often its message is delivered and whatever
\* executor or route replaces another meanwhile, and only after the hub took
\* it (processedSettlements, usedNonces, the executor named in the message).
PaidOnceThroughHub ==
    \A s \in Settlement : payouts[s] # 0 => payouts[s] = AmountOf[s] /\ s \in hub.processed

\* The reserved amount of the route is the sum of its open reservations, and a
\* settlement that has a reservation is one the hub took: releasing capacity,
\* retries and reverted calls leave the accounting whole.
ReservationsAddUp ==
    /\ liqRegistry.reservedAmount = MapThenSumSet(LAMBDA s : liqRegistry.reservations[s], Settlement)
    /\ \A s \in Settlement : liqRegistry.reservations[s] # 0 => s \in hub.processed

=============================================================================
