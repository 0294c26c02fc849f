# TSN protocol: TLA+ models, checks and proofs

This directory is the verification project of the Trustlink Settlement Network: TLA+ modules that model the
parts of the system in which state is shared, moved or retried, the TLC configurations that check them on small
instances, and TLAPS proofs of what holds for every instance. `PROJECT.json` is the index: which definition models
which lines, what every run checks, and the mutants that show each property can fail.

## 1. The system

| Part | Where | State it keeps | Operations |
|---|---|---|---|
| Receiver | `services/tsn-receiver` | Firestore documents: one per work (status, version, leases, verification, authorization, result) | `receive`, `lease` (requeue, select, grant), `attachCrankerAuthorization`, `transition`, `retrySettlementSnapshot` |
| Receiver, access | `lib/cranker-auth.ts`, `lib/local-firestore.ts`, `lib/node-state-store.ts` | challenges, sessions with a counter, rate buckets; a JSON file behind a lock file; the Node's key-value buckets | create/consume a challenge, authenticate a request, read/modify/write under the lock, get/set/delete |
| TSN Node | `services/tsn-node` | consumed nonces, witness snapshots, intents and epochs | verification worker (lease, verify funding, prove a credit, report), settlement authorization and signature, epoch close |
| Cranker daemon | `services/tsn-cranker-op-daemon` | the job it holds | poll, submit the deposit, check the root, submit the credit, confirm, report |
| TCAP program | `programs/tcap-protocol` | vault, reserve counters, funding claims and root, one-time TIPs, balances, exit permits, governance registry | deposits, credits, consume, debit, payout, governance |
| TSNP escrow program | `programs/tsn/protocol` | mother escrow, epoch treasuries, claim slots, settlement DNA, Cranker vaults | fund, create DNA, pay out, refund, close, register, fund and withdraw a Cranker |
| TIN registrar | `programs/transfer-identity-protocol` | staged creations, registry, route root | stage, append chunk, finalize, close expired, advance the root |
| GPRU | `programs/gpru` | none of its own; keys, commitments, a circuit | prove and verify a hidden-head transition |
| Cross-chain | `services/tsn-crosschain` | routes, liquidity observations, reservations, messages, used nonces | configure, observe, reserve, release, attest, execute |
| RPC gateway | `services/tsn-rpc-gateway` | provider health, leader, cooldowns, probe state | probe round, rank, record outcome, proxy with retries |
| RPC gateway, WebSockets | `services/tsn-rpc-gateway/server.mjs` | pairs of a client's and an upstream socket | upgrade, connect upstream, close, shut down |
| TCAP operators' tool | `programs/tcap-protocol/scripts/tcap-asset-admin.mjs` | none between invocations | inspect, check, simulate, send, confirm, verify |
| SDK | `sdks/tsn-sdk` | fee cache; devices, sessions and nonces in the caller's stores | prepare, recover and rewrap a TIN; register devices, open sessions, verify requests; quote, sign and post a payment; cross-chain preflight |
| Cranker SDK, UI | `sdks/tsn-cranker-sdk`, `services/tsn-mempool-ui` | none | builders, encodings, presentation |

A payment starts in the SDK, which sends the Receiver an owner-signed deposit. The Receiver stores a funding work
and a settlement work. The Node leases received work, verifies it and reports; Crankers lease verified work, put it on
chain and report. A settlement waits until its funding is CONFIRMED. For a settlement the Node proves a credit on top
of TCAP's current shared root; a Cranker asks the Node to authorize and sign it and submits it. Every message can be
lost or repeated, every process can stop, leases last 60 seconds, and the shared root moves with every credit.

## 2. What is hard

The hazards, each at its line, are in `PROJECT.json`. The kinds that matter: reads before a transaction that are
used inside it (`lease`), reports that arrive after a lease has changed hands (`transition`), an HTTP call between
a lease and its authorization, one error path for every failure (`cranker.ts`), a proof that takes minutes while the
root moves (`server.py`), transactions prepared against accounts that have changed when they land (TCAP, the TIN
registrar, the hub on Creditcoin), a lock that is judged by its age (`local-firestore.ts`), nonces that are consumed
before or after the checks they belong to, probes that measure while requests fail over, amounts that pass through
JavaScript numbers, and work that nothing takes up again.

## 3. The modules and the code

### WorkLedger: what the Receiver promises

`work[w]` is the Firestore document of a work: a funding or TIN operation is named by its id, the settlement derived
from a funding by the pair of that id and the commitment. `clock` stands for the server's time. Every action is one
committed transaction of `services/tsn-receiver/lib/store.ts`.

| Action | Code |
|---|---|
| `Receive` | `receive` with the linked settlement it creates in the same transaction |
| `Requeue` | the first half of `lease`: an expired lease is dropped and the work goes back to its queue |
| `Grant` | the transaction at the end of `lease` |
| `Attach` | `attachCrankerAuthorization` |
| `NodeDecides`, `CrankerReports` | `transition`, one per actor |
| `RetrySnapshot` | `retrySettlementSnapshot` |

Names are data: commitments, signatures and workers are sets. The replay branch of `transition` writes nothing and is
therefore no step of this module.

### ReceiverStore: how the Receiver does it

Extends `WorkLedger` with the requests in progress. A lease request is five steps with other requests in between: query
expired leases (at most `QueryLimit`), requeue each in a transaction of its own, query candidates and read the funding
of each, lease one in a transaction that re-reads the status only, and, for a settlement, call the Node and attach its
authorization. `held` is the set of answers workers have, which is what they may report with at any time later.
`CallFails` ends a request at any point. The refinement mapping is the identity on `work` and `clock`: `LedgerSpec` is
the run's property and `StoreImplementsLedger` its proof.

### SettlementPipeline and PaymentMoney: a payment from end to end

The composition of Receiver, Node, Cranker daemons and the two Solana transactions. Here the Receiver's operations are
atomic (that they may be is what the two modules above show) and a lease is its holder. `node` is the worker
thread of `server.py` (wake, lease, verify or prove, report, back-off), `cranker[c]` the daemon's loop, `deposit` and
`flight` the transactions on their way, `root` TCAP's shared root as the sequence of credited payments. A proof
carries the roots it was made for, and `Executable` is the comparison that the Node makes when it authorizes and the
program makes when the credit lands.

What can go wrong is a fault of one of thirteen kinds: a lost wake; a request, or only its answer, lost between
the Node or a Cranker and the Receiver; a restart of either; an RPC error of either; a lease that expires under a slow
worker; a moved TIP root; a passed slot window; the witness directory lost. `MaxFaults` bounds their number. Leases that
expire with nobody working under them, transactions that are dropped or expire, and confirmations that time out
are ordinary steps and not faults.

`PaymentMoney` is the abstract specification: money enters the reserve at most once per payment, and is credited
at most once and only after that. It is checked as a refinement with `deposited` and `ledger` mapped to the chain state.

### TcapReserve: the reserve behind the credits

One asset of the TCAP program: vault, `TcapReserveStateV1`, funding claims, one-time TIPs, balances, exit permits and
the shared root. Transactions are prepared from the accounts as they are (`Prepare`) and executed later, in any order,
or never (`Land`, `Expire`); each `Land...` action is a whole instruction handler. `Gift` is a plain token transfer to
the vault, `Govern` moves the gates handlers test. Operators: `DepositAsset`, `LandFunding`, `LandMemo`, `LandCredit`,
`InitializeTip`, `InitializeTipLiability`, `InitializeLegacyLiability`, `LandConsume`, `LandDebit`, `Payout`.

The program keeps one reserve per asset, and one handler lets them touch: `debit_tcap_exit_v1` takes whatever
`reserve_state` it is given (line 15) and any mint in its arguments (line 27). A debit therefore carries `names`, which of
this asset's reserve and mint it names: a debit of a TIP of this asset may name those of another one, and
`DebitElsewhere` is the debit of a TIP of another asset that names ours. A permit keeps its `names`; `Payout` pays those of our mint, and
`PayoutElsewhere` is the payment of the others from another vault. The balances and vaults of the other assets are not in the module.

### EpochTreasury: payouts of the escrow program

One mint of the TSNP escrow: the epoch treasury with its ledger, settlement DNA, claim slots, the Cranker vaults and
the shares of their funders. Permits are signed for the DNA as it is and land at any later time, once, again or never.
A plain transfer to a Cranker's vault (a gift) makes its balance differ from its counter, and `withdraw_cranker_funds`
asks that they be equal (lines 62-65): `MayWithdraw` has that test. `deposited` and `received` are history variables; nothing
reads them but properties.

### CrankerAuth: sessions of the Crankers

The challenges, sessions and rate buckets of `cranker-auth.ts` and the daemon's `receiverRequest`. `call[q]` is a request
the Receiver serves: between its steps are the awaits of the code, so a prune deletes what it queried earlier, a request
is judged by the time it read earlier, and a bucket is counted in after its minute is over. Nonces and session ids are
positions in the sequence of everything ever made, which is what fresh random values are. A repeated message, a failed
fetch, a restart of the daemon and a handler that throws are faults, bounded by `MaxFaults`. `accepted`, `admitted`
and `served` are history. A request is accepted in `authenticateCrankerRequest`'s transaction; what its route does next
follows further awaits and is in no particular order.

### RpcGateway and GatewaySockets: the Solana endpoint of everyone else

`RpcGateway` is the pool of providers and the requests that go through it. A step ends where the JavaScript awaits:
`Receives` ranks the providers once per JSON-RPC entry, `AttemptEnds` records one outcome and goes on to the next provider or
the next entry, `ProbeAnswers` is one answer of a round, and the last one chooses the leader. Latencies are not numbers:
a score moves by at most `LatencySpread`, and `RankedProviders` is the set of orders that leaves possible. `unseen` is
history. `GatewaySockets` is `server.mjs`: an upgrade connects upstream first, a client may leave meanwhile, and from
acceptance on the two sockets are a pair that `closeSocketPair` ends.

### LocalStore: a JSON file behind a lock file

`lock` is the lock file and its age, `op[w]` what process `w` does; every call of the file system is a step of its own, so
two waiters may judge the same lock stale and each unlink what it finds. `Edited` is the function the Node's state
operations (`hset`, `consume_once`, `delete`) hand to `mutate`. A process may die anywhere and come back, and the file system may refuse a
call (`CallRefused`, at most `MaxRefusals` times): a refused unlink is swallowed, so a finished operation can leave its lock file
behind, and a waiter that could not unlink a stale one goes round its loop without testing its own limit. `intruded`
records that a lock was removed while its maker was inside, `winners` how often an item was consumed.

### TcapGovernance: the accounts that open and close an asset, and the tool that changes them

`config`, `entry`, `policy` and `infra` are the program's accounts for one asset; `Accepts` and `Execute` are the handlers of
`asset_governance.rs`. What `lib.rs` does not dispatch is no action: the version 1 handlers of an asset and the one that sets
`config.paused`. What they may have left behind, an entry without a policy or a paused protocol, is among the initial
states. `admins[a]` is one invocation of `tcap-asset-admin.mjs`: read and judge (`AlreadyDone`, `Blocked`), load the signer,
build the transaction from the accounts as they are by then, simulate, send, confirm, compare with `Postcondition`. Its
transaction lands or expires at any time after it was sent, also after the tool gave up. Deposits, payouts and donations move the
vault and its liabilities meanwhile, and with them the check that the assets cover the liabilities.

### TinCreation and TinSeedAccess: a TIN and its master seed

`TinCreation` goes from the SDK's prepared intent over the daemons' leases and transactions (direct, or stage, pieces,
finalize) to the registrar's accounts and what the owner's wallet finds there later (`Recovered`, `Resolved`,
`OpenedSeed`). Envelopes are records of what opens them and what they hold. The Receiver's documents are reduced to
status, holder and number of leases. A staging account takes pieces from any signer: what is in it are the bytes its owner signed
or others, a piece that differs from what is already there or runs past it is refused, and finalizing compares the
hash. Finding a TIN by its identity (`Resolved`) needs the lookup secret of the backend; the recovery record opens with the wallet.

`TinSeedAccess` is one existing TIN: a device opens the stored envelope with the wallet,
with its own key, or with a key that threshold nodes release (`ConsumeNonce` is the Node's endpoint, `ReleaseKey` the Lit
action with its test of the receipt, `ReceiptIsGood`), and may rewrap it. Storing the rewrapped envelope is the caller's
(`StoreRewrap` is external). Answers are lost, runs are repeated, two devices rewrap at once.

### PrivateSessions: devices, sessions and private requests

A signed message is one entry of `messages`, its copies are `deliveries`, and each verification goes through the awaits of
the code: find the session, check the proof and the session's times (`TimingIsValid`), find the device, consume the nonce, and, in a step of the
caller's, save or answer. Revocations come in between. The stores are parameters of the SDK's functions and are modelled
from their use: reading is atomic, consuming a nonce is atomic. The older functions of `device/index.ts` and
`sessions/index.ts` are not in the module: `validateDeviceAuthorization` consumes no nonce, and the others do only when they are given
a validator.

### PaymentRequests: from the quote to the Cranker's check

A decimal is its digits and its places, so that `ToNumber`, `Formatted`, `Represents` and `NodeParses` do what the SDK's and
the Node's conversions do: drop trailing zeros, lose digits beyond a double's precision, print an exponent for numbers
below a magnitude, refuse what is no whole number of base units. `Estimate` to `ReadConfig` is the cached fee quote; `Sign` and `Post` the
wallet's authorization and the two request builders; the `verifiers` are Node instances with leases that run out.
`SignRoute` is the message of a payment to another chain. The Node reads it in a branch of its own, with
`RouteDecimals` and without an asset entry, and the comparison of the deposit that follows therefore rejects every request of that kind
(`server.py:1763`, `2931-2944`). `IngressAccepts` and `AnswerIsForLease` are the Receiver's tests on the way in and of
the Node's answer. A payload is the function of its fields, and `Durable`, `Redacted`, `Kept`, `VerifiedPayload`, `ExecutionPayload`,
`Compacted`, `Diff` and `Rebuilt` are the projections that Node, Receiver and Cranker each make of it. What the Receiver keeps is
the redacted payload with the encrypted one: the difference is taken to one and applied to the other.

### CrossChain: payouts on another chain

The registry, the hub (`lane` says which of its two forms), the vault and executor of the destination, the attest worker, the
client's preflight and the Cranker's leg. Observations are announced and proved later, transactions are mined or
dropped later, messages are delivered late, twice or never, and owners reconfigure routes and executors at any time. The
digests that are signed and compared are kept as what goes into them. The repository only posts the intent to be authorized; who
signs a payout's authorization is outside it (`SubmitDebitIntent`).

### Left out of every module

Keys, hashes, signatures and zero-knowledge proofs are names, and honest parties produce genuine ones: the modules say
what an accepted message may do, not who can forge one. Amounts are small naturals, so the `checked_*` overflow
branches of u64 are not reached; underflow branches are, and the type invariants show they never fire.

## 4. The runs

| Run | Checks | Instance | Distinct states |
|---|---|---|---|
| `ledger` | a settlement never runs ahead of its funding; outcomes are final | 1 id, 2 commitments, 1 Node, 2 Crankers, leases of 1 tick, 4 ticks, 2 retries | 91 k |
| `store` | the interleaved Receiver implements the ledger; requests stay valid; an authorization goes to the lease it was made for | 1 id, 1 commitment, 2 Crankers, 2 concurrent requests, limit 1, 2 ticks, 1 retry | 0.6 M |
| `pipeline` | what is CONFIRMED is on chain, nothing is paid twice | 2 payments, 2 Crankers, all 13 faults, 2 of them per behaviour | 1.2 M |
| `pipeline_live` | fundings get an outcome, confirmed fundings settle, the root always has a witness | 2 payments, 1 Cranker, the 5 faults of a Cranker, 1 of them | 27 k |
| `pipeline_stranded` | a statement of the repository that the code does not keep (section 7) | as small as shows it | |
| `reserve` | every token is accounted for, and the vault falls short of what is owed only by what it paid for debits of other reserves; tokens leave by permits | 1 depositor, 1 TIP, 2 nonces, 2 tokens, 2 prepared transactions, 1 gift, 1 debit of another asset's TIP | 3.5 M |
| `reserve_accounts` | the settled counter against the accounts behind it | 2 TIPs, 1 legacy TIP, 1 funding, 1 prepared transaction, 1 debit of another asset's TIP | 2.9 M |
| `escrow` | treasury, claims, vaults, and what a funder may withdraw | 1 slot, 1 Cranker, 2 funders, 2 expiries, 2 permits, 3 ticks, 1 gift | 0.8 M |
| `authentication` | challenges, counters, rate limit and pruning | 1 Cranker, 2 concurrent requests, 2 challenges, 2 requests per session, idle limit 2, session 3, minute 2, 4 ticks, 1 fault | 3.2 M |
| `services` | a failed leader is followed by a choice, every request is answered, sockets close in pairs; store operations end, items are consumed once | 2 providers, 2 requests (a batch among them), 1 scheduled round; 1 upgrade, 2 providers to try; 2 processes, 1 item, 4 operations, 1 crash, 1 refused call | 0.35 M |
| `governance` | the tool's verdicts agree with the program; closed stays closed; a verified closing command has closed | 2 operators, 3 invocations, 2 donations or moves of the reserve | 3.3 M |
| `clients` | a registered TIN is what its owner signed, and recoverable; rewraps keep the seed, retried releases work; nonces work once, revoked devices get no answer; an authorization pays once, amounts are exact, verified work is executable; payouts once, reservations add up | 1 owner with 2 TINs, 2 attempts, 2 daemons; 2 devices, 2 calls, 2 rewraps; 1 phone, 3 messages, 1 copy; 2 payments on 1 authorization, with and without a route, 4 amounts, 2 Node instances; 2 settlements, 2 executors, 1 Cranker | 2.9 M |

`services` and `clients` each hold several components that share no state. A behaviour exercises one of them, chosen in the
initial state (`focus`), and the others rest; the states are the sum, not the product, of the components' states, and
every component has the behaviours of its own specification.

Why these bounds. The ledger's interesting cases are a lease that expires, is granted again and meets the report of
the first holder: that takes two Crankers, and four ticks allow each of the two kinds of lease to expire and be granted
again. Two commitments are needed for a conflicting second submission. Two concurrent requests are enough for a request to
be overtaken at each of its steps, and a query limit of one makes requeueing leave work behind. In the pipeline two
payments are needed for a proof to go stale, two Crankers for work done twice, and two faults for a fault while another
is being repaired. In the reserve two prepared transactions are what reordering needs, two tokens distinguish
amounts, and one debit from outside with those of its own TIP gives all ways in which a debit and its permit can name different assets. In the escrow the two expiries and two permits allow a permit to outlive its lease, and two funders are what
shares are about. For authentication the second challenge is what a refused session leads to, and four ticks let a
session go idle, expire, and a rate bucket end; one fault is a repeated message, a lost answer, a restart or a failed
handler. Counts are 30 per minute in the code and 1 in the model: the races are about forgetting a count. `MaxFailures`
(6 in the code) is 2 in the models: it matters that there is a limit and a retry before it.

In the gateway the failure that counts is one between the start and the end of a probe round, which one round and two
requests give; a batch with an entry that is no request is what could end without an answer. In the file store a waiter gives
up after 1 tick, a lock is stale after 2 and a holder may take 3, in the order of the code's limits, so a lock is also broken under
a slow holder; four operations let an item be consumed, deleted and contended again; one refused call is a lock left behind
or a stale one that stays. For governance two operators and three
invocations let one operator's closing command land between the other's check and transaction, and be followed by a third.
A TIN needs two attempts of one owner for the recovery account to be contended, two daemons and two leases for pieces to
repeat, and one fault for a transaction that lands after it was given up, or for a piece of another signer. Three messages are a session, a request in it and
one more registration; one copy is a replay. Four amounts are two that all formats keep, with 3 decimals and one of them
with the 2 of a routed payment, one with more digits than the (scaled) precision of a number, and one that prints with an exponent. Two settlements against capacity for one, two
executors and one route change are what reservations and messages can outlive. Symmetry is used for
interchangeable names only and never in a run with a liveness property.

Where deadlock is not checked (`ledger`, `store`, `escrow`, `authentication`, `services`, `governance`, `clients`) the clock stops
at its bound, or every budget is used, and the system may really stop; the pipeline and the reserve are checked for
deadlock.

Every property has a mutant in `PROJECT.json`: a definition changed as a plausible bug would, under which TLC refutes
the property. The operators that state the faults stand beside the definitions they change, with a comment `fault:`.

Some properties state a condition that the code does not enforce. `ConsumedOnce` holds unless a lock was removed while its maker was
inside (`intruded`): the stale-lock rule of `local-firestore.ts` does allow that, and then two processes are in the
file at once. `AcceptanceAgrees` is about a protocol that is not paused, since the tool never reads `config.paused`.
`FundersAreWhole` says that a funder may withdraw exactly its stake from a vault without gifts, and nothing at all from one that has
received a plain transfer. `ReserveBacked` and `SettledIsAccounted` hold with terms for the debits that named another asset
(`Outstanding`, `Misdirected`), which say exactly how far the counters can be off.

### Fairness

`pipeline_live` and `pipeline_stranded` (`Fairness` in `SettlementPipeline`):

- weak fairness of the Node's worker: its thread loops for ever and wakes on its event;
- weak fairness of each daemon once it has a job: the loop never stops, confirmations are awaited for 90 seconds, and a
  request that gets no answer ends by the default limits of `fetch`;
- weak fairness of the expiry of a lease nobody works under: time passes;
- strong fairness of a daemon leasing a particular work: a daemon polls every 2 seconds while a lease lasts 60, so work
  that becomes free again and again is found; `lease` selects the oldest, so no work is passed over for ever.

`services` (`GatewayFairness`, `SocketFairness`, `StoreFairness`):

- weak fairness of each attempt and each probe ending: both are fetches with `AbortSignal.timeout`;
- weak fairness of a socket that was told to close: the WebSocket library ends it after its close timeout. Nothing is assumed
  of a socket nobody closes;
- weak fairness of time, and of a live process's next step in the file store: it retries on a timer. A dead process
  need not come back. The file system refuses finitely many calls: with an unlink that always fails `OperationsEnd` is
  false of the code (section 7).

No fairness is assumed of the network, of transactions landing, of clients, or of any fault ending.

## 5. The proofs

All hold for every value of the constants that meets the named assumptions: any number of payments, Crankers, processes,
requests, settlements and messages, and any value of the bounds. Each is the usual argument: an inductive invariant, one
step per action, the properties as its consequences. Every property of a run is proved except those of section 6. The
invariants with parts that no run checks (`PipelineInv`, `AuthInv`, `GovInv`, those of `ClientsProofs` and of
`ServicesProofs`) were found with TLC on the runs' instances before they were proved.

Assumptions on the constants are stated by name in the module that declares them, and TLC evaluates them in every run. Three kinds
recur: bounds are naturals; the value that stands for an absent account, session or name (`NULL`, `NoTin`, `NoAccess`,
`"nobody"`) or for the Node is none of the others; and sets that are summed over or counted (nonces, TIPs, settlements,
configured URLs) are finite.

**ReceiverStoreProofs** (`WorkLedger` and `ReceiverStore`). `LedgerInv` is the type invariant, `DocumentOK` of every
document, `SettlementFollowsFunding`, and that an id never holds a settlement. `DocumentOK` is needed because `transition`
tests the lease and not the status: it ties status, the two leases, the verification, the authorization, the result and
the version of one document together. From it follow `LedgerTypeCorrect`, `LedgerSafe` (the lease, order and outcome
invariants), `LedgerVersioned` and `LedgerFinal`. Assumptions: leases last at least a tick, ids are not pairs of ids and
commitments. `StoreInv` adds `StoreTypeOK`, `RequestsStayValid` and that operators retry settlements only.
`StoreImplementsLedger` is the step simulation: a requeue or lease transaction decided on stale reads is a ledger step,
because what it does not re-read (a confirmed funding, the kind) cannot have changed. `HandedAuthorizationIsAlwaysOwn`
adds that the work of an answer exists, so its kind never changes again: an answer given for another kind of work is never
taken for a settlement's.

**SettlementPipelineProofs.** `PipelineInv` is `PipelineTypeOK` and that every record of a verified transition is `Sound`,
in the document, in the Node's hands, in a daemon's hands and in flight: its payment's deposit is in the reserve, the
root it builds on does not hold that payment, and the Node saved the witness of the root it makes. It also says that a
daemon about to report success has seen it on chain. None of this can be left out: the credit is checked where the proof
is made, and used four hands later. Theorems: `PipelineTypeCorrect`, `ConfirmedIsAlwaysTrue`,
`RootAlwaysHasWitness`, and `PipelineMovesMoneyOnce`, the refinement of `PaymentMoney` (initial state, and every step is a
deposit, a credit or a stutter).

`StrandedForGood` is the general form of what the run `pipeline_stranded` finds in one instance (section 7). A settlement is `Stranded` when
it is verified, its proof is outdated (the shared root grew, or TIP's root or the window moved) and no Cranker has been
authorized for it. Its deposit is then in the reserve, and no step ends that state or credits the payment. The argument: root, TIP's root
and window never go back (`StepAdvances`), so the Node refuses every authorization (`CrankerStaysOut`); expired leases
go back to the queue of verified work, never to the Node (`StepWaits`); and nothing in flight can succeed
(`FlightStaysOutdated`). TLC confirms that stranded states are reachable.

**CrankerAuthProofs.** `AuthInv` says what each handler of the Receiver carries from one await to the next. `OpensOnce`: a
consumed challenge without a session is in the hands of one handler. `AcceptedSound`: the accepted counters of a session
increase up to the one in its document. `RatesSound`: while its minute lasts, a bucket's document knows of every admission.
A prune is sound because what it queried stays old enough to delete. Theorems: `AuthTypeCorrect`, `ChallengesAlwaysUsedOnce`,
`AlwaysAcceptedInOrder` (the order of acceptance, not of execution), `RetryAlwaysGetsThrough`, `RateAlwaysHolds`.

**ClientsProofs** has one invariant per component, which share no state.

| Component | Invariant | Why it is needed | Theorems |
|---|---|---|---|
| `CrossChain` | `PayoutInv`: what is under way was authorized, and a paid settlement has its mark at the executor that may pay it | the hub's and the executor's marks are on different chains | `AlwaysPaidOnceThroughHub` |
| `CrossChain` | `ReservationInv`: the counter is the sum, open reservations were taken by the hub | a reservation is made with the hub's mark and freed much later, or never | `ReservationsAlwaysAddUp` |
| `PrivateSessions` | `SessInv`: a spent nonce has exactly one verification that passed (`SpentOnce`); a request past the device check saw the device allow it (`RequestsSound`) | a revocation, or a copy of the message, falls between two awaits | `NoncesAlwaysWorkOnce`, `AlwaysAnsweredWhenAllowed` |
| `PaymentRequests` | `PayInv`: the nonce of a verified work is held by one instance, and what the Receiver rebuilds has every attested field, though it rebuilds from another payload than the difference was taken to | instances lose their leases after consuming the nonce | `AlwaysOnePaymentPerAuthorization`, `VerifiedWorkIsAlwaysExecutable` |
| `PaymentRequests` | `ExactInv`: the amount of a wallet's request on this chain is a plain number that stands for what was signed | the SDK tests its numbers where it builds the request, and the Node parses them two hands later | `WalletRequestsAreAlwaysExact`, `SignedTextIsExact` |
| `TinCreation` | `TinInv`: transactions are about signed intents, daemons are at a step of their plan, registry, recovery record and route leaf of a TIN come from one attempt | pieces land late and twice, and other signers write to the stage | `AlwaysRegisteredAsSigned`, `OwnerAlwaysRecovers` |
| `TinSeedAccess` | `AccessInv`: what is stored was opened first, a nonce is consumed for one request, every run has the one receipt | runs of a request are repeated | `RouteAlwaysSurvives`, `RetriedReleaseAlwaysWorks` |

The two theorems about amounts hold for any number of a token's decimals. Powers of ten are a recursive function, `TenTo`, because
the backends do not interpret `^`; that it exists and that `TenTo[m + n] = TenTo[m] * TenTo[n]` is shown by an induction over a set of numbers,
as in `Sums`. On it rest what dropping zeros leaves alone (`ReducedKeeps`), that a number prints as the decimal it came
from (`NumberIsDecimal`) and that the Node reads back both a number and a formatted text (`NodeReadsBaseUnits`, `NodeReadsFormatted`).

**ServicesProofs.** For `RpcGateway`, that a failure of the leader which no choice has seen has a round in flight
(`LeaderFailureIsAlwaysSeen`); the invariant adds the types and that a request with providers left to try has a pool. A
request under way always has an entry and a provider to try, and never the same provider twice for one entry
(`RequestsAreAlwaysTriable`); every attempt leaves it less to try (`AttemptsAlwaysRunOut`), which is the safety half of
`RequestsAreAnswered`.

For `LocalStore`, as long as nobody intruded: who is inside owns the lock, what it loaded is what the file holds, and an item that was won
is in the file. From the first follows `AlwaysOneInside`, from all of them `AlwaysConsumedOnce` and `EditsAreAtomic`: the three steps
of a `mutate` are one operation on the file as it is. Nothing in `local-firestore.ts` keeps the condition: a holder may take longer
than the age at which its lock counts as stale.

For `GatewaySockets`, `PairsSound` lists the eight states a pair of sockets can be in. From it: the two are open together
(`PairsOpenTogether`), and a pair that is half closed can only become closed (`HalfClosedPairsEnd`, the safety half of
`PairsCloseTogether`).

**TcapProofs.** For the governance of an asset, `GovInv`: if there is a policy, the entry, the policy and the
deposit switch agree (`Governed`), and a closing command that was sent found a policy (`SentToPolicy`). Every one of the program's
commands keeps it (`ExecuteKeeps`, one case each), so a command that was simulated on other accounts does too. Theorems:
`AcceptanceAlwaysAgrees`, `ClosedStaysClosed`, `VerifiedIsAlwaysClosed`.

For the reserve, `ReserveShape` (types, and what a prepared transaction is made of) gives `TcapTypeCorrect` and
`TokensAlwaysLeaveByPermit`. The equations `ReserveBacked` and `SettledIsAccounted` are inductive with it once it is known how
each handler moves the sums behind them (`Outstanding`, `Misdirected`, `Available`, `Credited`). Both hold whatever reserve and mint the debits
name. `ReserveIsAlwaysBacked`
assumes `LegacyTip = {}`: `initialize_tcap_tip_liability_v2` opens a balance without a deposit, so the equation is about
reserves where governance did not use it. `SettledIsAlwaysAccounted` has no such condition. Two consequences about the handlers, each with the
condition that `debit_tcap_exit_v1` leaves to its callers: as long as the vault paid no permit that was debited from another asset's reserve, a payout
never finds it short of an unpaid permit of its own reserve (`PermitsAreAlwaysCovered`); and as long as no debit of another asset's TIP named this reserve, a debit the
TIP can afford is never refused by the reserve's counter (`AffordableDebitsAlwaysFit`). `FundingsAreAlwaysChained`: the funding root holds every claim once, at the
sequence number in the claim, and a nonce makes one claim; the invariant is the statement itself with the types.

**EpochTreasuryProofs.** `EscrowInv` is `EscrowTypeOK`, `TreasuryBacked`, `SlotsPaidOnce`, `VaultBacked` and `SharesAreTokens`: the
vault's shares are its counter, and what a funder put in is its principal and what it took out. `VaultBacked` needs the last
(the share price is one, so the two roundings are exact: lemmas `DivideProduct` and `DivideRoundUp`), `FundersAreWhole` follows from both, `EscrowTypeOK`
needs `TreasuryBacked` and `VaultBacked` (their equations are why no subtraction underflows), and `SlotsPaidOnce` needs
the DNA's status tied to the claim. Theorems: `EscrowTypeCorrect`, `TreasuryAlwaysBacked`, `SlotsAlwaysPaidOnce`,
`VaultsAlwaysBacked`, `FundersAlwaysWhole`.

**Sums.** What `TcapProofs` and `ReservationInv` need to know of sums. `SumFunction` and `MapThenSumSet` of the
community modules are folds by a function that is defined by recursion over subsets. The provers cannot use an
induction rule that has an operator as its parameter, so the induction is stated with sets: a set of numbers that holds 0 and, with a
number, its successor, holds them all (`NatStep`, from the library's well-foundedness of `<`). With it: the recursive
function exists (`PartialUnfolds`), the order of the elements does not matter (`PartialRemoves`), a sum changes by what
one value changes (`SumChanges`), grows by an added element (`SumExtends`), and is at least each of its parts (`SumBounds`).
`LeastExists`, a least element of a set of numbers, is what the gateway's first entry and the shortest decimal need.

## 6. What is model-checked only

Liveness (`FundingFinishes`, `ConfirmedFundingSettles`, `RequestsAreAnswered`, `OperationsEnd`, `PairsCloseTogether`) and
the refutation of `SettlementsAreNotStranded`: fairness and ENABLED are out of this prover's reach. For three of
them the safety part is a theorem: `AttemptsAlwaysRunOut`, `HalfClosedPairsEnd` and `StrandedForGood`.

The other way round, `LedgerTypeOK`, `LeaseMatchesStatus`, `NoExecutionBeforeVerification`, `OutcomesAreCurrent`,
`EveryChangeIsVersioned`, `PipelineTypeOK`, `AuthTypeOK`, `TcapTypeOK` and `EscrowTypeOK`, that one process is inside the file's
lock and edits it atomically, the exactness of every signed text, the two consequences of the reserve's
equations and the chain of the funding claims are proved for every instance and are not repeated in a run.

One thing the models show and no property states: a lease request that computes its rate bucket at the end of a minute
and counts when another request has deleted that bucket starts a new count, so a minute can get more leases than its limit.
`RateHolds` therefore counts the leases decided within their minute.

## 7. Where the code and its documentation disagree

`pipeline_stranded` is a run with a counterexample; the quotation is in `PROJECT.json`. A settlement whose proof went stale
while it was VERIFIED is leased, refused by the Node and requeued for ever; nothing sends it back to verification, though
requeueing is said to prevent stranding.

Others were met while modelling and have no run of their own; the models contain the behaviour:

- A confirmation that times out, or a report that gets no answer, is reported as FAILED although the transaction may be on
  chain (`cranker.ts:1103`). `ConfirmedIsTrue` is therefore about CONFIRMED only.
- `debit_tcap_exit_v1` ties neither the reserve nor the mint of the permit to the asset of the TIP it debits
  (`debit_tcap_exit_v1.rs:15`, `27`), while `debit_tcap_balance_v1.rs:39-41` does. `ReserveBacked` and `SettledIsAccounted` say
  by how much the books of one asset are then off.
- Two credit paths of TCAP compare only part of the liabilities with the assets.
- `reserved_liquidity` of a Cranker vault is documented as what leases keep from being withdrawn
  (`state/vault.rs:15`) and is never raised.
- A plain token transfer to a Cranker's vault blocks every later withdrawal: the balance must equal the counter, and nothing
  brings them together again (`withdraw_cranker_funds.rs:62-65`). `FundersAreWhole` has it as a case.
- A stale lock file that cannot be unlinked keeps a waiter in its loop: the failure is swallowed and `continue` skips the limit
  of 10 seconds (`local-firestore.ts:28`, `31`).
- Neither verdict of the operators' tool reads `config.paused`, which the deposit instructions test (`deposit_asset_v2.rs:15`).
- The Node rejects the deposit of every payment request with a cross-chain route: it reads the message with an empty asset entry and 6
  decimals (`server.py:1763`), and then compares these with the deposit (`2931-2944`).
- A Node instance that loses its lease after consuming a request's nonce leaves a retry that meets its own nonce and rejects
  the request for good; `OnePaymentPerAuthorization` holds at that price.
- `signCreditcoinPayout` signs the hash of the destination network's name while the Cranker sends the name itself
  (`settlement.ts:74`, `creditcoin-cranker.ts:106`), and the direct hub emits another event than the one the Cranker looks
  for, so a payout that succeeded is reported FAILED.
- A client that leaves while the gateway connects upstream leaves the upstream socket open (`server.mjs:165`).

## 8. What is not modelled

- Cryptography: GPRU's circuit, key derivation, sealing, the encodings of messages and instructions. No state, and
  nothing small that TLC could enumerate.
- The Node's intents, epochs and their archive in a Git repository; the registrar's route root.
- The escrow program's authorization wrappers and set-up scripts: signature checks followed by one call that
  `TcapReserve` has as an action. The stable faucet: one transaction of a test token.
- The SDK's older device and session functions (`device/index.ts`, `sessions/index.ts`), which keep no state and leave nonces to
  their callers.
- Instruction builders, recurring payments and receipts of the SDKs, the mempool UI: no shared state beyond what the
  Receiver keeps.

`PROJECT.json` lists every component with its status and reason.

## 9. Plan

The project keeps to about a dozen runs and forty properties: a new run takes the place of one that says less.

Every safety property of a run is proved. Proofs still worth having: that the operations of `LocalStore` run out of things to
wait for, as `AttemptsAlwaysRunOut` says of the gateway's requests.

Models still worth writing: `NodeEpochs` (intents, epochs and their close in `server.py`, over the Receiver's state store,
with restarts), the registrar's route root, and the accounts that the escrow wrappers check.
