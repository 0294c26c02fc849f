---------------------------- MODULE TinSeedAccess ----------------------------
(***************************************************************************)
(* How the owner of an existing TIN gets at its master seed again           *)
(* (tsn-sdk tin-private-controller.ts): the stored envelope is opened with  *)
(* the wallet alone, with the device it was wrapped for, or with a key that  *)
(* a threshold network (the Lit action) releases after the Node recorded    *)
(* the request's nonce. A rewrap opens an envelope of any kind once and     *)
(* stores the same seed again under the wallet alone.                       *)
(*                                                                         *)
(* One TIN and one owner. A wallet's signature over a message is always the *)
(* same, so the key derived from it is the message's. A seed's route        *)
(* commitment determines the seed, and the seed of the TIN is RouteSeed.    *)
(***************************************************************************)
EXTENDS Naturals, Sequences

CONSTANTS
    Device,          \* devices of the owner
    MaxCalls,        \* bound on the accesses begun
    MaxRuns,         \* runs of one request at the threshold nodes, repetitions included
    MaxRewraps,      \* bound on the envelopes stored
    MaxAccessTime,   \* bound on the clock
    ProofLife,       \* validity of an access proof (5 minutes)
    NoAccess         \* the absent value

ASSUME AccessAssumption ==
    /\ MaxCalls \in Nat \ {0} /\ MaxRuns \in Nat \ {0} /\ MaxRewraps \in Nat
    /\ MaxAccessTime \in Nat /\ ProofLife \in Nat \ {0}
    /\ NoAccess \notin [nonce : Nat, request : Nat, consumedAt : Nat]

VARIABLES
    accessClock,
    stored,      \* the envelopes the TIN has had, the last one is current
    calls,       \* the accesses begun, one record each
    runs,        \* of each call, the runs of the action at the threshold nodes
    consumed     \* the Node's record of each nonce it accepted

accessVars == <<accessClock, stored, calls, runs, consumed>>

-----------------------------------------------------------------------------
(* Envelopes. *)

RouteSeed == "seed"

\* serializeTinMasterSeedWalletAuthorization
WalletMessage(version, resource, binding) == <<version, resource, binding>>

\* authorizeWalletOwner: the binding is constant, so any device can sign it again
OwnerMessage(version, resource) == WalletMessage(version, resource, "wallet-owner")

\* encryptTinMasterSeedLocally: the route version is authenticated with the seed
Sealed(seed, key, version) == [seed |-> seed, key |-> key, version |-> version]

\* decryptTinMasterSeedLocally
Unsealed(box, key, version) ==
    IF box.key = key /\ box.version = version THEN box.seed ELSE NoAccess

Envelope(provider, version, resource, box, keyFor) ==
    [provider |-> provider, version |-> version, resource |-> resource,
     box |-> box, keyFor |-> keyFor]

\* createTinPrivateIdentity
WalletOwned(seed, version, resource) ==
    Envelope("wallet", version, resource,
             Sealed(seed, OwnerMessage(version, resource), version), NoAccess)

\* what earlier versions stored: a key wrapped for one device, or kept by a
\* threshold network
DeviceOwned(d) ==
    Envelope("device", 1, 0, Sealed(RouteSeed, <<"device", d>>, 1), d)
ThresholdOwned(network) ==
    Envelope(network, 1, 0, Sealed(RouteSeed, <<"threshold", 0>>, 1), NoAccess)

-----------------------------------------------------------------------------
(* The client. A call's number stands for its random nonce.                 *)

\* several nodes run the action for one request, and the proxy in between may
\* have it run again
ToRun == [pc |-> "verify", receipt |-> NoAccess, released |-> NoAccess]

Call(d, op, e) ==
    [device |-> d, op |-> op, envelope |-> e, pc |-> "open", key |-> NoAccess,
     proof |-> NoAccess]

\* createTinDeviceAccessProof, over what authorize had the wallet sign
AccessProof(d, e, nonce) ==
    [nonce |-> nonce, device |-> d, resource |-> e.resource,
     wallet |-> WalletMessage(e.version, e.resource, d),
     issuedAt |-> accessClock, expiresAt |-> accessClock + ProofLife]

\* the key a provider has at once; LitSolanaTinMasterSeedProvider never gives one
LocalKey(d, e) ==
    CASE e.provider = "wallet" -> OwnerMessage(e.version, e.resource)
      [] e.provider = "device" /\ e.keyFor = d -> <<"device", d>>
      [] OTHER -> NoAccess

\* unlockTinPrivateRoute, rewrapTinPrivateIdentityForWalletOwner up to the first
\* answer they wait for; the envelope may be one read before a rewrap
BeginAccess(d, op, e) ==
    LET c == Call(d, op, e)
    IN  /\ Len(calls) < MaxCalls
        /\ calls' = Append(calls,
               IF LocalKey(d, e) # NoAccess
               THEN [c EXCEPT !.key = LocalKey(d, e)]
               ELSE IF e.provider = "lit-chipotle"
               THEN [c EXCEPT !.pc = "wait", !.proof = AccessProof(d, e, Len(calls) + 1)]
               ELSE [c EXCEPT !.pc = "failed"])
        /\ runs' = Append(runs, IF e.provider = "lit-chipotle"
                                  THEN [k \in 1 .. MaxRuns |-> ToRun] ELSE <<>>)
        /\ UNCHANGED <<accessClock, stored, consumed>>

\* verifyTinThresholdNonceReceipt and unwrapTinThresholdKeyOnDevice
AnswerIsGood(c, r) ==
    /\ r.receipt.nonce = c.proof.nonce
    /\ r.receipt.consumedAt >= c.proof.issuedAt
    /\ r.receipt.consumedAt < c.proof.expiresAt
    /\ accessClock < c.proof.expiresAt
    /\ r.released.wrappedFor = c.proof

ReceiveKey(i, k) ==
    /\ calls[i].pc = "wait"
    /\ runs[i][k].pc = "done"
    /\ calls' = [calls EXCEPT ![i] =
           IF AnswerIsGood(@, runs[i][k])
           THEN [@ EXCEPT !.pc = "open", !.key = runs[i][k].released.key]
           ELSE [@ EXCEPT !.pc = "failed"]]
    /\ UNCHANGED <<accessClock, stored, runs, consumed>>

\* the answer is an error or never comes
LoseKey(i) ==
    /\ calls[i].pc = "wait"
    /\ calls' = [calls EXCEPT ![i].pc = "failed"]
    /\ UNCHANGED <<accessClock, stored, runs, consumed>>

\* the seed is decrypted and its route compared with the registered one
OpenEnvelope(i) ==
    LET c == calls[i]
        seed == Unsealed(c.envelope.box, c.key, c.envelope.version)
    IN  /\ c.pc = "open"
        /\ calls' = [calls EXCEPT ![i].pc =
               IF seed # RouteSeed THEN "failed" ELSE IF c.op = "rewrap" THEN "rewrapped" ELSE "done"]
        /\ UNCHANGED <<accessClock, stored, runs, consumed>>

\* fault: the copy is locked with a message about the version it replaces
RewrappedStale(c, resource) ==
    Envelope("wallet", c.envelope.version + 1, resource,
             Sealed(Unsealed(c.envelope.box, c.key, c.envelope.version),
                    OwnerMessage(c.envelope.version, resource), c.envelope.version + 1), NoAccess)

\* the same seed, under a version after the one that was read
Rewrapped(c, resource) ==
    WalletOwned(Unsealed(c.envelope.box, c.key, c.envelope.version), c.envelope.version + 1, resource)

\* the caller stores it, perhaps after another device stored its own (nothing in
\* the repository does)
StoreRewrap(i) ==
    /\ calls[i].pc = "rewrapped"
    /\ Len(stored) <= MaxRewraps
    /\ stored' = Append(stored, Rewrapped(calls[i], i))
    /\ calls' = [calls EXCEPT ![i].pc = "done"]
    /\ UNCHANGED <<accessClock, runs, consumed>>

-----------------------------------------------------------------------------
(* The threshold network and the Node. *)

\* fault: a nonce seen before is refused whoever sent it
ReceiptForOnce(i) ==
    IF consumed[i] = NoAccess
    THEN [nonce |-> calls[i].proof.nonce, request |-> i, consumedAt |-> accessClock]
    ELSE NoAccess

\* consume_threshold_access_nonce: a repetition of the request that consumed
\* the nonce is given the receipt of the first
ReceiptFor(i) ==
    IF consumed[i] = NoAccess
    THEN [nonce |-> calls[i].proof.nonce, request |-> i, consumedAt |-> accessClock]
    ELSE IF consumed[i].request = i THEN consumed[i] ELSE NoAccess

\* verifyTinDeviceAccessRequest: what can go wrong with an honest proof is time
ProofIsCurrent(i) == accessClock < calls[i].proof.expiresAt

\* the Node's part of the run: consume_tin_threshold_nonce
ConsumeNonce(i, k) ==
    LET receipt == IF ProofIsCurrent(i) THEN ReceiptFor(i) ELSE NoAccess
    IN  /\ runs[i][k].pc = "verify"
        /\ runs' = [runs EXCEPT ![i][k].receipt = receipt,
                                ![i][k].pc = IF receipt # NoAccess THEN "release"
                                             ELSE IF ProofIsCurrent(i) THEN "refused" ELSE "expired"]
        /\ consumed' = IF receipt = NoAccess THEN consumed ELSE [consumed EXCEPT ![i] = receipt]
        /\ UNCHANGED <<accessClock, stored, calls>>

\* wrapForDevice
WrappedForDevice(key, proof) == [key |-> key, wrappedFor |-> proof]

\* verifyReceipt: the action checks what the Node answered
ReceiptIsGood(i, k) ==
    LET receipt == runs[i][k].receipt
        proof == calls[i].proof
    IN  /\ receipt.nonce = proof.nonce
        /\ receipt.consumedAt < proof.expiresAt
        /\ accessClock < proof.expiresAt

\* the rest of the action: the receipt is checked, the key decrypted and wrapped
ReleaseKey(i, k) ==
    /\ runs[i][k].pc = "release"
    /\ runs' = [runs EXCEPT ![i][k] =
           IF ReceiptIsGood(i, k)
           THEN [@ EXCEPT !.pc = "done", !.released =
                    WrappedForDevice(<<"threshold", calls[i].envelope.resource>>, calls[i].proof)]
           ELSE [@ EXCEPT !.pc = IF ProofIsCurrent(i) THEN "refused" ELSE "expired"]]
    /\ UNCHANGED <<accessClock, stored, calls, consumed>>

\* the Node's answer does not reach the action, or the node running it stops
DropRun(i, k) ==
    /\ runs[i][k].pc \in {"verify", "release"}
    /\ runs' = [runs EXCEPT ![i][k].pc = "lost"]
    /\ UNCHANGED <<accessClock, stored, calls, consumed>>

AccessTick ==
    /\ accessClock < MaxAccessTime
    /\ accessClock' = accessClock + 1
    /\ UNCHANGED <<stored, calls, runs, consumed>>

-----------------------------------------------------------------------------

AccessInit ==
    /\ accessClock = 0
    /\ \/ \E d \in Device : stored = <<DeviceOwned(d)>>
       \/ \E n \in {"lit-chipotle", "lit-datil"} : stored = <<ThresholdOwned(n)>>
       \/ stored = <<WalletOwned(RouteSeed, 1, 0)>>
    /\ calls = <<>> /\ runs = <<>>
    /\ consumed = [i \in 1 .. MaxCalls |-> NoAccess]

AccessNext ==
    \/ \E d \in Device, op \in {"unlock", "rewrap"}, v \in DOMAIN stored : BeginAccess(d, op, stored[v])
    \/ \E i \in DOMAIN calls : LoseKey(i) \/ OpenEnvelope(i) \/ StoreRewrap(i)
    \/ \E i \in DOMAIN calls : \E k \in DOMAIN runs[i] :
           ConsumeNonce(i, k) \/ ReleaseKey(i, k) \/ DropRun(i, k) \/ ReceiveKey(i, k)
    \/ AccessTick

AccessSpec == AccessInit /\ [][AccessNext]_accessVars

-----------------------------------------------------------------------------

(* Once a TIN has been rewrapped, its owner's wallet alone opens every      *)
(* envelope stored since, on any device and whichever of several concurrent *)
(* rewraps is looked at, and finds the seed of the registered route.        *)
RouteSurvives ==
    \A v \in DOMAIN stored : stored[v].provider = "wallet" =>
        \A d \in Device :
            Unsealed(stored[v].box, LocalKey(d, stored[v]), stored[v].version) = RouteSeed

(* Running a release again after its first run was lost is not mistaken for *)
(* a replay: a request is turned down only when its proof has expired, and  *)
(* every copy of the answer carries the one receipt and opens on the device *)
(* that asked, whose call ends in failure only if the answer is late.       *)
RetriedReleaseWorks ==
    \A i \in DOMAIN calls : \A k \in DOMAIN runs[i] :
        LET c == calls[i]
            run == runs[i][k]
        IN  /\ run.pc # "refused"
            /\ run.pc = "done" =>
                 /\ run.receipt = consumed[i]
                 /\ AnswerIsGood(c, run) \/ ~ ProofIsCurrent(i)
                 /\ Unsealed(c.envelope.box, run.released.key, c.envelope.version) = RouteSeed
=============================================================================
