-------------------------- MODULE PaymentRequests --------------------------
(***************************************************************************)
(* How a payment is quoted, signed, requested and verified. The SDK quotes  *)
(* a fee from the escrow's configuration, which it caches (send-estimate,   *)
(* quote); the wallet signs a message that carries the amounts in token     *)
(* units (payment-authorization, canonical-message); the request carries    *)
(* them again as JavaScript numbers; the Node converts both to base units,  *)
(* compares them, consumes the nonce and answers the Receiver.              *)
(*                                                                         *)
(* A payment to another chain is signed in a message of its own, which the  *)
(* Node reads in a branch of its own; its request is the same wallet's.      *)
(*                                                                         *)
(* A decimal is [units, places]: the digits, and how many of them follow    *)
(* the point. Amounts beyond u64, which every parser refuses, are left out. *)
(* Signatures are honest: an authorization is named by the payment it was   *)
(* first signed for, and that name is also its nonce.                       *)
(***************************************************************************)
EXTENDS Naturals, FiniteSetsExt, Functions

CONSTANTS
    Payment,         \* payment identifiers
    Signer,          \* the payments that are quoted and signed; the others reuse those
    Verifier,        \* Node instances
    UiAmount,        \* the amounts a sender types
    TokenDecimals,   \* decimals of the asset's registration
    RouteDecimals,   \* decimals of a message with a cross-chain route (6 in the code)
    FeeBps,          \* fee margins the escrow is configured with, in percent
    DefaultMargin,   \* the margin of an account that is too short to hold one
    NetworkFees,     \* what the network may charge, in base units
    DefaultFee,      \* DEFAULT_NETWORK_FEE_LAMPORTS, likewise
    MarginCap,       \* sendFeeMaxUsd in base units
    FeeCap,          \* sendFeeMaxUiAmount in base units
    Precision,       \* a JavaScript number keeps this many distinct digit strings
    PlainPlaces,     \* a number below 10^-PlainPlaces prints with an exponent (6)
    CacheLife,       \* FEE_CONFIG_CACHE_MS
    RpcTimeout,      \* DEFAULT_RPC_TIMEOUT_MS
    AuthLife,        \* life of an authorization
    MaxPayTime,      \* bound on the clock
    MaxPayChanges,   \* bound on changes of configuration, asset and name
    MaxPayFaults,    \* bound on lost answers, failed calls and expired leases
    NoPayment        \* every absent value

ASSUME PaymentAssumption ==
    /\ UiAmount \subseteq [units : Nat, places : Nat]
    /\ \A b \in {TokenDecimals, RouteDecimals, MarginCap, FeeCap, PlainPlaces, CacheLife, RpcTimeout,
                 AuthLife, MaxPayTime, MaxPayChanges, MaxPayFaults} : b \in Nat
    /\ Precision \in Nat \ {0}
    /\ FeeBps \cup {DefaultMargin, DefaultFee} \cup NetworkFees \subseteq Nat
    /\ DefaultMargin \notin FeeBps
    /\ Signer \subseteq Payment /\ NoPayment \notin Payment

VARIABLES
    payClock,
    payChain,        \* fee margin, since when margins are out of date, asset, name
    feeCache,        \* feeConfigCache
    quotes,          \* each payment's estimate
    payAuths,        \* the authorizations wallets have signed
    works,           \* the Receiver's work for each payment
    verifiers,       \* what each Node instance verifies
    consumedNonces,  \* nonces consumed
    payBudget        \* changes and faults so far

payVarsAll == <<payClock, payChain, feeCache, quotes, payAuths, works, verifiers,
                consumedNonces, payBudget>>

NoQuote  == [pc |-> "idle", startedAt |-> 0, margin |-> 0, fee |-> NoPayment]
NoWork   == [status |-> "NONE", version |-> 0, auth |-> NoPayment, path |-> "none", reason |-> "none",
             payload |-> NoPayment, delta |-> NoPayment, attested |-> NoPayment]
Sleeping == [pc |-> "idle", work |-> NoPayment, version |-> 0, reason |-> "none"]

-----------------------------------------------------------------------------
(* Amounts. *)

\* powers of ten, as a recursive function: the provers do not interpret ^
TenTo[n \in Nat] == IF n = 0 THEN 1 ELSE 10 * TenTo[n - 1]

\* the shortest decimal with the same value, which is how a number prints
Reduced(x) ==
    LET p == Min({q \in 0..x.places : x.units % TenTo[x.places - q] = 0})
    IN  [units |-> x.units \div TenTo[x.places - p], places |-> p]

\* Number(text): a value with too many digits becomes one with fewer
ToNumber(x) ==
    LET r == Reduced(x)
    IN  IF r.units < Precision THEN r ELSE Reduced([r EXCEPT !.units = (@ \div 10) * 10])

\* String(number) is a plain decimal
PrintsPlain(n) == n.units = 0 \/ n.units * TenTo[PlainPlaces] >= TenTo[n.places]

\* parseTokenAmountToBaseUnits for d decimals: what it accepts and returns
Parses(x, d)     == x.places <= d
ParsesPaid(x, d) == Parses(x, d) /\ x.units > 0
BaseUnits(x, d)  == x.units * TenTo[d - x.places]

\* formatTokenBaseUnits, formatUsdcBaseUnits: trailing zeros go, and a whole
\* amount gets two back
Formatted(units, d) ==
    LET r == Reduced([units |-> units, places |-> d])
    IN  IF d > 0 /\ r.places = 0 THEN [units |-> r.units * 100, places |-> 2] ELSE r

\* the Node's ui_amount_to_base_units and _parse_usdc_base_units
NodeParses(x, d) == (x.units * TenTo[d]) % TenTo[x.places] = 0
NodeUnits(x, d)  == (x.units * TenTo[d]) \div TenTo[x.places]

\* the request's number stands for the amount that was signed
RepresentsAlways(x) == TRUE
Represents(x) ==
    LET n == ToNumber(x)
    IN  /\ Parses(x, TokenDecimals) /\ PrintsPlain(n) /\ Parses(n, TokenDecimals)
        /\ BaseUnits(n, TokenDecimals) = BaseUnits(x, TokenDecimals)

-----------------------------------------------------------------------------
(* The quote. *)

\* quoteTransferFeeUiAmount at a token price of one: what the network takes
\* plus a margin, both capped, rounded up to the token's decimals
TransferFee(net, margin) ==
    LET part    == (net * margin + 99) \div 100
        covered == net + Min({part, MarginCap})
    IN  [units |-> IF net = 0 THEN 0 ELSE Min({covered, FeeCap}), places |-> TokenDecimals]

\* estimateNetworkFeeLamports, or the default when it fails
NetworkFee == NetworkFees \cup {DefaultFee}

CacheIsFresh == feeCache # NoPayment /\ feeCache.expiresAt > payClock

\* the estimate has its margin, and the fee for one of the network fees
Quoted(quote, margin) ==
    {[quote EXCEPT !.pc = "quoted", !.margin = margin, !.fee = ToNumber(TransferFee(net, margin))]
        : net \in NetworkFee}

\* estimateTsnSendCostFromChain asks for the configuration: from the cache,
\* or from the chain
Estimate(p) ==
    /\ quotes[p].pc \in {"idle", "quoted"}
    /\ LET quote == [NoQuote EXCEPT !.pc = "asking", !.startedAt = payClock]
       IN  \E q \in IF CacheIsFresh THEN Quoted(quote, feeCache.value) ELSE {quote} :
               quotes' = [quotes EXCEPT ![p] = q]
    /\ UNCHANGED <<payClock, payChain, feeCache, payAuths, works, verifiers, consumedNonces, payBudget>>

\* the RPC node reads the account
ServeConfig(p) ==
    /\ quotes[p].pc = "asking"
    /\ quotes' = [quotes EXCEPT ![p].pc = "served", ![p].margin = payChain.margin]
    /\ UNCHANGED <<payClock, payChain, feeCache, payAuths, works, verifiers, consumedNonces, payBudget>>

\* withTimeout: an answer counts until the timer fires
WithinTimeout(p)  == payClock <= quotes[p].startedAt + RpcTimeout
TimedOut(p) == payClock >= quotes[p].startedAt + RpcTimeout

\* fetchEscrowConfigFromChain has the account: its margin is cached, the
\* defaults for an account that is too short are not
ReadConfig(p) ==
    /\ quotes[p].pc = "served" /\ WithinTimeout(p)
    /\ \E q \in Quoted(quotes[p], quotes[p].margin) : quotes' = [quotes EXCEPT ![p] = q]
    /\ feeCache' = IF quotes[p].margin = DefaultMargin THEN feeCache
                   ELSE [value |-> quotes[p].margin, expiresAt |-> payClock + CacheLife]
    /\ UNCHANGED <<payClock, payChain, payAuths, works, verifiers, consumedNonces, payBudget>>

\* the timer fires, or the account cannot be read; the sender may ask again
QuoteFails(p) ==
    /\ quotes[p].pc \in {"asking", "served"}
    /\ TimedOut(p)
    /\ quotes' = [quotes EXCEPT ![p] = NoQuote]
    /\ UNCHANGED <<payClock, payChain, feeCache, payAuths, works, verifiers, consumedNonces, payBudget>>

-----------------------------------------------------------------------------
(* The authorization and the request. *)

\* resolveTcapGpruDepositAccounts refuses an asset that is closed
AssetIsOpen == payChain.active

\* createSenderPaymentAuthorizationMessage: both amounts must parse, and a
\* number that prints with an exponent does not
MayBeSigned(x, fee, d) == ParsesPaid(x, d) /\ PrintsPlain(fee) /\ Parses(fee, d)

\* createPaymentAuthorizationExpiry
Expiry == payClock + AuthLife

\* createPaymentAuthorization
Authorization(x, fee, routed) ==
    [amount |-> x, fee |-> fee, routed |-> routed, name |-> payChain.name,
     issuedAt |-> payClock, expires |-> Expiry]

\* the wallet signs what it was quoted
Signed(p, x, routed) ==
    /\ quotes[p].pc = "quoted"
    /\ MayBeSigned(x, quotes[p].fee, IF routed THEN RouteDecimals ELSE TokenDecimals)
    /\ payAuths' = [payAuths EXCEPT ![p] = Authorization(x, quotes[p].fee, routed)]
    /\ quotes' = [quotes EXCEPT ![p] = [NoQuote EXCEPT !.pc = "signed"]]
    /\ UNCHANGED <<payClock, payChain, feeCache, works, verifiers, consumedNonces, payBudget>>

\* createTcapAssetPaymentAuthorization
Sign(p, x) == AssetIsOpen /\ Signed(p, x, FALSE)

\* createCrossChainPaymentAuthorization, which resolves no asset; the message
\* names p
SignRoute(p, x) == Signed(p, x, TRUE)

\* buildPaymentIntentMessage: an amount as the message has it
SignedUnits(x, d) == Formatted(BaseUnits(x, d), d)

\* buildPaymentAuthorizationIntentRequest: the wallet's application
NumbersRepresent(a) == Represents(payAuths[a].amount) /\ Represents(payAuths[a].fee)
WalletRequest(a) == ~payAuths[a].routed /\ NumbersRepresent(a)
RouteRequest(a)  == payAuths[a].routed /\ NumbersRepresent(a)

\* verifyAuthorizedTsnPaymentRequest: an application's server rebuilds the
\* message, with neither name nor credentials, and then posts the amount as
\* the number it has (createTsnPaymentMempoolJobs)
BackendRequest(a) ==
    /\ ~payAuths[a].routed
    /\ payClock <= payAuths[a].issuedAt + AuthLife
    /\ payAuths[a].name = 0

\* buildCreateIntentRequest: the fields a request has; a server may leave the
\* expiry out
RequestFields == {"paymentId", "recipientHash", "recipientTin", "tokenMintAddress", "amount",
                  "senderWallet", "message", "signature", "nonce", "expiry", "deposit", "mode"}
Request(path) ==
    [f \in IF path = "backend" THEN RequestFields \ {"expiry"} ELSE RequestFields |-> "sent"]

\* receive: the Receiver keeps four fields, and the whole for the Node only
Durable(request) ==
    [f \in {"paymentId", "recipientHash", "tokenMintAddress", "amount", "envelope"} |->
        IF f = "envelope" THEN request ELSE request[f]]

\* assertAuthorizedFundingIngress
IngressAccepts(request) == RequestFields \ {"expiry"} \subseteq DOMAIN request

\* postIntent: a payment identifier has one work; the message does not name
\* it, so an authorization can come again under another identifier
Post(p, a, path) ==
    /\ works[p].status = "NONE"
    /\ payAuths[a] # NoPayment
    /\ \/ path = "wallet" /\ WalletRequest(a)
       \/ path = "route" /\ RouteRequest(a)
       \/ path = "backend" /\ BackendRequest(a)
    /\ IngressAccepts(Request(path))
    /\ works' = [works EXCEPT ![p] = [NoWork EXCEPT !.status = "RECEIVED", !.version = 1, !.auth = a,
                                        !.path = path, !.payload = Durable(Request(path))]]
    /\ UNCHANGED <<payClock, payChain, feeCache, quotes, payAuths, verifiers, consumedNonces, payBudget>>

-----------------------------------------------------------------------------
(* What the Node's evidence becomes: the Receiver redacts the payload, keeps *)
(* the difference to it, hands the Cranker a part of what it rebuilds from   *)
(* both, and the Cranker compares that with what the Node attested.          *)

\* the verified payload: the whole request, and what the Node resolved or
\* writes in its own way
NodeFields == {"recipientTin", "tokenMintAddress", "nonce", "expiry", "route", "tokenId"}
VerifiedPayload(request) ==
    [f \in RequestFields \cup NodeFields |->
        IF f \in {"expiry", "route", "tokenId"} THEN "node" ELSE request[f]]

\* crankerExecutionPayload, of which _sign_node_verification has a copy
ExecutionFields == {"deposit", "mode"}
ExecutionPayload(payload) == Restrict(payload, ExecutionFields \cap DOMAIN payload)

\* compactAuthorizedFundingVerification
CompactFieldsNoMode == {"paymentId", "recipientHash", "tokenMintAddress", "amount", "deposit"}
CompactFields == {"paymentId", "recipientHash", "tokenMintAddress", "amount", "deposit", "mode"}
Compacted(payload) == Restrict(payload, CompactFields \cap DOMAIN payload)

\* redactedPaymentPayload, and the payload once the Node has answered
Redacted(payload) == Restrict(payload, {"paymentId", "recipientHash"})
Kept(payload)     == Restrict(payload, {"paymentId", "recipientHash", "envelope"})

\* diffPayload
Diff(base, next) ==
    [set |-> Restrict(next, {f \in DOMAIN next : f \in DOMAIN base => base[f] # next[f]}),
     removed |-> DOMAIN base \ DOMAIN next]

\* verifiedPayloadForWork
Rebuilt(base, delta) ==
    [f \in (DOMAIN base \ delta.removed) \cup DOMAIN delta.set |->
        IF f \in DOMAIN delta.set THEN delta.set[f] ELSE base[f]]

\* verifyNodeAttestation: the Cranker looks at these of the fields it is given
AttestedFields == {"deposit", "mode", "transition", "recipientTin", "tokenMintAddress", "amount",
                   "senderWallet", "message", "signature", "nonce"}
CrankerAccepts(work) ==
    LET handed == ExecutionPayload(Rebuilt(work.payload, work.delta))
    IN  Restrict(handed, AttestedFields \cap DOMAIN handed) = work.attested

-----------------------------------------------------------------------------
(* The Node. *)

\* receiver_verification_worker leases work; a lease that ran out is one of
\* the faults
Lease(n, p) ==
    /\ verifiers[n].pc = "idle"
    /\ \/ works[p].status = "RECEIVED" /\ UNCHANGED payBudget
       \/ /\ works[p].status = "NODE_LEASED" /\ payBudget.faults < MaxPayFaults
          /\ payBudget' = [payBudget EXCEPT !.faults = @ + 1]
    /\ works' = [works EXCEPT ![p].status = "NODE_LEASED", ![p].version = @ + 1]
    /\ verifiers' = [verifiers EXCEPT ![n] =
           [pc |-> "fields", work |-> p, version |-> works[p].version + 1, reason |-> "none"]]
    /\ UNCHANGED <<payClock, payChain, feeCache, quotes, payAuths, consumedNonces>>

AuthOf(n) == payAuths[works[verifiers[n].work].auth]

\* a verifier goes on, or has decided to reject
Proceeds(n, pc)   == verifiers' = [verifiers EXCEPT ![n].pc = pc]
Rejects(n, reason) == verifiers' = [verifiers EXCEPT ![n].pc = "done", ![n].reason = reason]

\* the decimals the Node reads amounts with
DecimalsOf(auth) == IF auth.routed THEN RouteDecimals ELSE TokenDecimals

\* the request's numbers, and the message's texts, are the same base units
AmountsAgree(auth) ==
    LET d == DecimalsOf(auth)
    IN  \A x \in {auth.amount, auth.fee} :
            NodeParses(ToNumber(x), d) /\ NodeUnits(ToNumber(x), d) = NodeUnits(SignedUnits(x, d), d)

\* resolve_tcap_registered_asset, for a message without a route
AssetResolves(auth) == auth.routed \/ payChain.active

\* a message with a route names its payment
NamesPayment(n) == AuthOf(n).routed => works[verifiers[n].work].auth = verifiers[n].work

\* _verify_payment_authorization_from_signed_message up to the signature
CheckFields(n) ==
    LET auth == AuthOf(n)
    IN  /\ verifiers[n].pc = "fields"
        /\ \/ ~AssetResolves(auth) /\ Rejects(n, "asset")
           \/ AssetResolves(auth) /\ ~AmountsAgree(auth) /\ Rejects(n, "amount")
           \/ /\ AssetResolves(auth) /\ AmountsAgree(auth)
              /\ \/ auth.expires <= payClock /\ Rejects(n, "expired")
                 \/ auth.expires > payClock /\ ~NamesPayment(n) /\ Rejects(n, "intent")
                 \/ auth.expires > payClock /\ NamesPayment(n) /\ Proceeds(n, "identity")
        /\ UNCHANGED <<payClock, payChain, feeCache, quotes, payAuths, works, consumedNonces, payBudget>>

\* the signed name is the one the recipient has now; a message with a route
\* has none
CheckIdentity(n) ==
    /\ verifiers[n].pc = "identity"
    /\ IF AuthOf(n).routed \/ AuthOf(n).name = payChain.name THEN Proceeds(n, "nonce") ELSE Rejects(n, "name")
    /\ UNCHANGED <<payClock, payChain, feeCache, quotes, payAuths, works, consumedNonces, payBudget>>

\* consume_once refuses a nonce that is there
NonceIsFreeAlways(a) == TRUE
NonceIsFree(a) == a \notin consumedNonces

\* _assert_canonical_nonce_unused
ConsumePaymentNonce(n) ==
    LET a == works[verifiers[n].work].auth
    IN  /\ verifiers[n].pc = "nonce"
        /\ IF NonceIsFree(a) THEN Proceeds(n, "deposit") ELSE Rejects(n, "nonce")
        /\ consumedNonces' = consumedNonces \cup {a}
        /\ UNCHANGED <<payClock, payChain, feeCache, quotes, payAuths, works, payBudget>>

\* the deposit the wallet signed is into the asset's entry and for the
\* requested amount; for a message with a route the Node expects no entry
Deposited(auth) == [entry |-> "asset", amount |-> BaseUnits(auth.amount, TokenDecimals)]
ExpectedDeposit(auth) ==
    [entry |-> IF auth.routed THEN "none" ELSE "asset",
     amount |-> NodeUnits(ToNumber(auth.amount), DecimalsOf(auth))]
DepositAgrees(n) == Deposited(AuthOf(n)) = ExpectedDeposit(AuthOf(n))

\* _verify_receiver_work: the route to the other chain, if there is one, which
\* verify_destination_route may refuse, and the deposit, which an asset that
\* has closed refuses in simulation
CheckDeposit(n) ==
    /\ verifiers[n].pc = "deposit"
    /\ \/ AuthOf(n).routed /\ Rejects(n, "route")
       \/ ~DepositAgrees(n) /\ Rejects(n, "deposit")
       \/ DepositAgrees(n) /\ ~payChain.active /\ Rejects(n, "simulation")
       \/ DepositAgrees(n) /\ payChain.active /\ Proceeds(n, "done")
    /\ UNCHANGED <<payClock, payChain, feeCache, quotes, payAuths, works, consumedNonces, payBudget>>

\* any exception rejects the work, a failed call too
VerifierFails(n) ==
    /\ verifiers[n].pc \in {"fields", "identity", "nonce", "deposit"}
    /\ payBudget.faults < MaxPayFaults
    /\ payBudget' = [payBudget EXCEPT !.faults = @ + 1]
    /\ Rejects(n, "failed")
    /\ UNCHANGED <<payClock, payChain, feeCache, quotes, payAuths, works, consumedNonces>>

\* the work after the Node's verdict, with its evidence; the attestation is
\* the Node's own, so that its commitments are right
Completed(work, reason) ==
    LET verified == VerifiedPayload(work.payload["envelope"])
    IN  IF reason # "none"
        THEN [work EXCEPT !.status = "REJECTED", !.version = @ + 1, !.reason = reason,
                          !.payload = Kept(@)]
        ELSE [work EXCEPT !.status = "VERIFIED", !.version = @ + 1, !.payload = Kept(@),
                          !.delta = Diff(Redacted(work.payload), Compacted(verified)),
                          !.attested = ExecutionPayload(verified)]

\* assertNodeVerificationAttestation: the answer is for the lease the work has
AnswerIsForLease(n) ==
    LET work == works[verifiers[n].work]
    IN  work.status = "NODE_LEASED" /\ work.version = verifiers[n].version

\* the PATCH; the Receiver refuses an answer for another lease
Answer(n) ==
    LET p == verifiers[n].work
    IN  /\ verifiers[n].pc = "done"
        /\ works' = IF AnswerIsForLease(n)
                    THEN [works EXCEPT ![p] = Completed(@, verifiers[n].reason)] ELSE works
        /\ verifiers' = [verifiers EXCEPT ![n] = Sleeping]
        /\ UNCHANGED <<payClock, payChain, feeCache, quotes, payAuths, consumedNonces, payBudget>>

\* the Node stops, or its answer is lost, whatever it has done so far
VerifierStops(n) ==
    /\ verifiers[n].pc # "idle"
    /\ payBudget.faults < MaxPayFaults
    /\ payBudget' = [payBudget EXCEPT !.faults = @ + 1]
    /\ verifiers' = [verifiers EXCEPT ![n] = Sleeping]
    /\ UNCHANGED <<payClock, payChain, feeCache, quotes, payAuths, works, consumedNonces>>

-----------------------------------------------------------------------------
(* The surroundings. *)

\* the escrow's configuration, the asset's registration, the recipient's name
ChainChanges ==
    /\ payBudget.changes < MaxPayChanges
    /\ payBudget' = [payBudget EXCEPT !.changes = @ + 1]
    /\ \/ \E m \in (FeeBps \cup {DefaultMargin}) \ {payChain.margin} :
             payChain' = [payChain EXCEPT !.margin = m]
       \/ payChain' = [payChain EXCEPT !.active = ~@]
       \/ payChain' = [payChain EXCEPT !.name = 1 - @]
    /\ UNCHANGED <<payClock, feeCache, quotes, payAuths, works, verifiers, consumedNonces>>

PayTick ==
    /\ payClock < MaxPayTime
    /\ payClock' = payClock + 1
    /\ UNCHANGED <<payChain, feeCache, quotes, payAuths, works, verifiers, consumedNonces, payBudget>>

PayInit ==
    /\ payClock = 0
    /\ \E m \in FeeBps : payChain = [margin |-> m, active |-> TRUE, name |-> 0]
    /\ feeCache = NoPayment
    /\ quotes = [p \in Signer |-> NoQuote]
    /\ payAuths = [p \in Signer |-> NoPayment]
    /\ works = [p \in Payment |-> NoWork]
    /\ verifiers = [n \in Verifier |-> Sleeping]
    /\ consumedNonces = {}
    /\ payBudget = [changes |-> 0, faults |-> 0]

PayNext ==
    \/ \E p \in Signer : Estimate(p) \/ ServeConfig(p) \/ ReadConfig(p) \/ QuoteFails(p)
    \/ \E p \in Signer, x \in UiAmount : Sign(p, x) \/ SignRoute(p, x)
    \/ \E p \in Payment, a \in Signer, path \in {"wallet", "route", "backend"} : Post(p, a, path)
    \/ \E n \in Verifier, p \in Payment : Lease(n, p)
    \/ \E n \in Verifier : \/ CheckFields(n) \/ CheckIdentity(n) \/ ConsumePaymentNonce(n)
                           \/ CheckDeposit(n) \/ VerifierFails(n) \/ Answer(n) \/ VerifierStops(n)
    \/ ChainChanges
    \/ PayTick

PaySpec == PayInit /\ [][PayNext]_payVarsAll

-----------------------------------------------------------------------------
(* Properties. *)

\* An authorization is verified for one payment only, however often it is
\* posted, and by however many Node instances whose leases run out.
OnePaymentPerAuthorization ==
    \A p, q \in Payment :
        works[p].status = "VERIFIED" /\ works[q].status = "VERIFIED" /\ works[p].auth = works[q].auth
            => p = q

\* A request the SDK builds for a wallet's payment on this chain is never
\* rejected for its amounts or its deposit: what survives the SDK's conversions
\* survives the Node's. A request with a cross-chain route is not promised
\* that: the Node compares its deposit with no asset entry, and rejects it.
WalletRequestsAreExact ==
    \A p \in Payment :
        works[p].path = "wallet" => works[p].reason \notin {"amount", "deposit"}

\* A Cranker accepts the attestation of every work that is verified: the Node
\* attested only what survives the fields the Receiver drops and rebuilds,
\* although it rebuilds from another payload than it took the difference to.
VerifiedWorkIsExecutable ==
    \A p \in Payment : works[p].status = "VERIFIED" => CrankerAccepts(works[p])

====
