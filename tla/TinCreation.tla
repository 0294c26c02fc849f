----------------------------- MODULE TinCreation -----------------------------
(***************************************************************************)
(* The creation of a TIN: the client prepares three encrypted envelopes and *)
(* a signed intent (tsn-sdk tins.ts, tin-private-controller.ts), Cranker   *)
(* daemons under a lease carry them to the chain in one transaction or in  *)
(* stages (cranker.ts), the TIN registrar program keeps the accounts, and  *)
(* the owner later finds the TIN and opens its seed on any device.         *)
(*                                                                         *)
(* An envelope is what it opens to. The random seed of attempt i is i, so   *)
(* are the keys derived from it. A wallet's signature over a message is     *)
(* always the same, so the key derived from it is the message's. The bytes  *)
(* in a staging account are those the owner signed or others, since anybody *)
(* may write there.                                                         *)
(***************************************************************************)
EXTENDS Naturals, Sequences, FiniteSets

CONSTANTS
    TinOwner,       \* wallets
    Tin,            \* TINs the Node issued, each to one wallet
    IssuedTo,       \* whom
    DisplayName,
    TinCranker,     \* daemons
    MaxAttempts,    \* bound on the intents signed
    MaxLeases,      \* bound on the leases of one intent
    MaxTinTime,     \* bound on the clock
    MaxTinFaults,   \* bound on crashes, timeouts, lost reports, overrun leases and
                    \* transactions of other signers
    Lifetime,       \* of an intent (900 seconds in the SDK)
    NoTin           \* the absent value

ASSUME TinAssumption ==
    /\ IssuedTo \in [Tin -> TinOwner]
    /\ MaxAttempts \in Nat \ {0} /\ MaxLeases \in Nat \ {0}
    /\ MaxTinTime \in Nat /\ MaxTinFaults \in Nat /\ Lifetime \in Nat
    /\ NoTin \notin [lockedBy : {"recover"} \X TinOwner, tin : Tin, name : DisplayName]

VARIABLES
    tinClock,
    attempts,   \* the intents signed so far, as prepared by the client
    tinWork,    \* the Receiver's document of each: status, holder, leases
    stages,     \* the program's staging account of each intent
    registry,   \* the registry account of each TIN
    recovery,   \* the owner-recovery account of each wallet
    routes,     \* the leaves of the shared route root
    crank,      \* what each daemon is doing
    tinTx,      \* transactions sent that have not landed, and perhaps never will
    tinFaults   \* faults so far

tinVars == <<tinClock, attempts, tinWork, stages, registry, recovery, routes, crank, tinTx, tinFaults>>

TinFault == tinFaults < MaxTinFaults /\ tinFaults' = tinFaults + 1

-----------------------------------------------------------------------------
(* The client. *)

AccessMessage(o, name, resource) == <<"create", o, name, resource>>

\* createTinV1OwnerSeedEnvelope: the seed is encrypted under the signature of
\* the access message, whose hash is kept in the envelope
SeedEnvelope(o, name, i) ==
    [tin |-> "tin-v1", resource |-> i, accessHash |-> AccessMessage(o, name, i),
     lockedBy |-> AccessMessage(o, name, i), seed |-> i]

RecoveryMessage(o) == <<"recover", o>>

RecoveryEnvelope(o, t, name) ==
    [lockedBy |-> RecoveryMessage(o), tin |-> t, name |-> name]

IdentityEnvelope(t, name) == [lockedBy |-> t, tin |-> t, name |-> name]

\* the hash of everything the owner approves; an attempt's number stands for it
IntentHash(i) == i

\* buildTinV1Creation: one prepared attempt, and whether it needs stages
Prepared(i, o, t, name, large) ==
    [owner |-> o, lookup |-> t, key |-> i, intentHash |-> IntentHash(i),
     identity |-> IdentityEnvelope(t, name), recovery |-> RecoveryEnvelope(o, t, name),
     seed |-> SeedEnvelope(o, name, i), expiry |-> tinClock + Lifetime, large |-> large]

Waiting == [status |-> "VERIFIED", holder |-> NoTin, leases |-> 0]

\* submitTinV1Creation, and the Node's verification of what it sends
SubmitTin(t, name, large) ==
    /\ Len(attempts) < MaxAttempts
    /\ attempts' = Append(attempts, Prepared(Len(attempts) + 1, IssuedTo[t], t, name, large))
    /\ tinWork' = Append(tinWork, Waiting)
    /\ stages' = Append(stages, NoTin)
    /\ UNCHANGED <<tinClock, registry, recovery, routes, crank, tinTx, tinFaults>>

-----------------------------------------------------------------------------
(* The registrar program. *)

Blobs == {"identity", "recovery", "seed"}
Length(k) == IF k = "seed" THEN 3 ELSE 1
PieceLength == 2                            \* at most 700 bytes in the code

\* the terms an intent was signed with, which a stage repeats
Terms(i) == [signed |-> TRUE, expiry |-> attempts[i].expiry]

\* bytes[k] is what has been written; the rest of the account is zero
EmptyStage(terms) == [terms |-> terms, bytes |-> [k \in Blobs |-> <<>>]]

\* stage: any signer may open the stage of an intent, with terms of its own
\* too; one that is open already must have the same
MayStage(i, terms) ==
    /\ tinClock <= terms.expiry
    /\ stages[i] # NoTin => stages[i].terms = terms

Staged(i, terms) == IF stages[i] = NoTin THEN EmptyStage(terms) ELSE stages[i]

Written(i, k) == Len(stages[i].bytes[k])

\* append_chunk: any signer, any bytes. They begin where the written part ends,
\* or repeat some of it exactly
MayAppend(i, k, offset, bytes) ==
    /\ stages[i] # NoTin
    /\ tinClock <= stages[i].terms.expiry
    /\ Len(bytes) \in 1 .. PieceLength
    /\ offset + Len(bytes) <= Length(k)
    /\ \/ offset = Written(i, k)
       \/ /\ offset + Len(bytes) <= Written(i, k)
          /\ SubSeq(stages[i].bytes[k], offset + 1, offset + Len(bytes)) = bytes

\* what is already there stays
Appended(i, k, offset, bytes) ==
    IF offset < Written(i, k) THEN stages[i]
    ELSE [stages[i] EXCEPT !.bytes[k] = @ \o bytes]

IsWritten(i) == \A k \in Blobs : Written(i, k) = Length(k)

\* other bytes in the place of an envelope open with no key
Garbled(envelope) == [envelope EXCEPT !.lockedBy = <<>>]

\* the envelope a stage holds in the place of the signed one
StagedBlob(i, k) ==
    IF \A n \in 1 .. Length(k) : stages[i].bytes[k][n] = "signed"
    THEN attempts[i][k] ELSE Garbled(attempts[i][k])

\* the creation that finalize reads from a stage; its owner and its intent hash
\* are those of the account's address, terms that were not signed name other keys
StagedCreation(i) ==
    [attempts[i] EXCEPT !.identity = StagedBlob(i, "identity"),
                        !.recovery = StagedBlob(i, "recovery"),
                        !.seed = StagedBlob(i, "seed"),
                        !.key = IF stages[i].terms.signed THEN @ ELSE 0,
                        !.expiry = stages[i].terms.expiry]

\* fault: the intent hash is not computed again from what is created
OwnerNamed(creation) == \E i \in DOMAIN attempts : attempts[i].intentHash = creation.intentHash

\* owner_intent_hash and verify_owner_intent: the owner signed the hash of
\* exactly this creation
OwnerSigned(creation) == \E i \in DOMAIN attempts : attempts[i] = creation

\* fault: an owner's second registry may replace the recovery record
MayCreateAgain(creation) ==
    /\ tinClock <= creation.expiry
    /\ registry[creation.lookup] = NoTin
    /\ OwnerSigned(creation)

\* create_tin_v1::apply: its checks, then the three accounts it creates
MayCreate(creation) ==
    /\ tinClock <= creation.expiry
    /\ registry[creation.lookup] = NoTin
    /\ OwnerSigned(creation)
    /\ recovery[creation.owner] = NoTin

RegistryAccount(creation) ==
    [owner |-> creation.owner, identity |-> creation.identity,
     seed |-> creation.seed, key |-> creation.key]

RouteLeaf(creation) == <<creation.lookup, creation.key>>

Created(creation) ==
    /\ registry' = [registry EXCEPT ![creation.lookup] = RegistryAccount(creation)]
    /\ recovery' = [recovery EXCEPT ![creation.owner] = creation.recovery]
    /\ routes' = Append(routes, RouteLeaf(creation))

MayFinalize(i) ==
    /\ stages[i] # NoTin
    /\ tinClock <= stages[i].terms.expiry
    /\ IsWritten(i)
    /\ MayCreate(StagedCreation(i))

\* an instruction of the program
StageStep(terms) == [step |-> "stage", terms |-> terms]
ChunkStep(k, offset, bytes) == [step |-> "chunk", kind |-> k, offset |-> offset, bytes |-> bytes]
FinalizeStep == [step |-> "finalize"]
CreateStep == [step |-> "create"]

\* what the program would do with instruction s now; also the preflight
Succeeds(i, s) ==
    \/ s.step = "stage" /\ MayStage(i, s.terms)
    \/ s.step = "chunk" /\ MayAppend(i, s.kind, s.offset, s.bytes)
    \/ s.step = "finalize" /\ MayFinalize(i)
    \/ s.step = "create" /\ MayCreate(attempts[i])

Executed(i, s) ==
    /\ stages' = [stages EXCEPT ![i] =
          CASE s.step = "stage" -> Staged(i, s.terms)
            [] s.step = "chunk" -> Appended(i, s.kind, s.offset, s.bytes)
            [] s.step = "finalize" -> NoTin
            [] s.step = "create" -> @]
    /\ CASE s.step = "finalize" -> Created(StagedCreation(i))
         [] s.step = "create" -> Created(attempts[i])
         [] OTHER -> UNCHANGED <<registry, recovery, routes>>

\* what any other signer may send about an intent, whose owner's signature is
\* public by then
OtherSteps(i) ==
    {StageStep(terms) : terms \in {Terms(i)} \cup [signed : {FALSE}, expiry : 0 .. MaxTinTime]}
    \cup {ChunkStep(k, offset, bytes) :
             k \in Blobs, offset \in 0 .. Length("seed") - 1,
             bytes \in UNION {[1 .. n -> {"signed", "other"}] : n \in 1 .. PieceLength}}
    \cup {FinalizeStep, CreateStep}

OtherSigner(i) ==
    /\ TinFault
    /\ \E s \in OtherSteps(i) : Succeeds(i, s) /\ Executed(i, s)
    /\ UNCHANGED <<tinClock, attempts, tinWork, crank, tinTx>>

\* anybody recovers the rent of a stage that expired
CloseExpired(i) ==
    /\ stages[i] # NoTin
    /\ tinClock > stages[i].terms.expiry
    /\ stages' = [stages EXCEPT ![i] = NoTin]
    /\ UNCHANGED <<tinClock, attempts, tinWork, registry, recovery, routes, crank, tinTx, tinFaults>>

-----------------------------------------------------------------------------
(* The daemons. *)

Resting == [pc |-> "idle", intent |-> 0, lease |-> 0, at |-> 0, sent |-> NoTin]

\* submitStagedTinV1Creation: the transactions in the order they are sent
StagedPlan(i) ==
    <<StageStep(Terms(i)),
      ChunkStep("identity", 0, <<"signed">>),
      ChunkStep("recovery", 0, <<"signed">>),
      ChunkStep("seed", 0, <<"signed", "signed">>),
      ChunkStep("seed", 2, <<"signed">>),
      FinalizeStep>>

DirectPlan == <<CreateStep>>

\* the packet limit decides
Plan(i) == IF attempts[i].large THEN StagedPlan(i) ELSE DirectPlan

LeaseTin(c, i) ==
    /\ crank[c] = Resting
    /\ tinWork[i].status = "VERIFIED"
    /\ tinWork[i].leases < MaxLeases
    /\ tinWork' = [tinWork EXCEPT ![i] =
                       [status |-> "CRANKER_LEASED", holder |-> c, leases |-> @.leases + 1]]
    /\ crank' = [crank EXCEPT ![c] = [Resting EXCEPT !.pc = "send", !.intent = i, !.at = 1,
                                                      !.lease = tinWork[i].leases + 1]]
    /\ UNCHANGED <<tinClock, attempts, stages, registry, recovery, routes, tinTx, tinFaults>>

Transaction(c) ==
    [by |-> c, lease |-> crank[c].lease, intent |-> crank[c].intent,
     does |-> Plan(crank[c].intent)[crank[c].at]]

\* sendTransaction: the preflight refuses what would fail
SendTin(c) ==
    /\ crank[c].pc = "send"
    /\ IF Succeeds(crank[c].intent, Transaction(c).does)
       THEN /\ tinTx' = tinTx \cup {Transaction(c)}
            /\ crank' = [crank EXCEPT ![c].pc = "await", ![c].sent = Transaction(c)]
       ELSE /\ crank' = [crank EXCEPT ![c].pc = "fail"]
            /\ UNCHANGED tinTx
    /\ UNCHANGED <<tinClock, attempts, tinWork, stages, registry, recovery, routes, tinFaults>>

\* the sender of x still waits for it and learns how it went; a failed staged
\* transaction is an error, a failed direct one is not noticed here
Learnt(x, ok) ==
    [c \in TinCranker |->
        IF crank[c].pc # "await" \/ crank[c].sent # x THEN crank[c]
        ELSE IF ~ ok /\ x.does.step # "create" THEN [crank[c] EXCEPT !.pc = "fail", !.sent = NoTin]
        ELSE IF crank[c].at < Len(Plan(x.intent))
             THEN [crank[c] EXCEPT !.pc = "send", !.at = @ + 1, !.sent = NoTin]
             ELSE [crank[c] EXCEPT !.pc = "check", !.sent = NoTin]]

LandTin(x) ==
    /\ tinTx' = tinTx \ {x}
    /\ IF Succeeds(x.intent, x.does) THEN Executed(x.intent, x.does)
       ELSE UNCHANGED <<stages, registry, recovery, routes>>
    /\ crank' = Learnt(x, Succeeds(x.intent, x.does))
    /\ UNCHANGED <<tinClock, attempts, tinWork, tinFaults>>

\* no confirmation in time: the transaction may still land
GiveUpTin(c) ==
    /\ crank[c].pc = "await"
    /\ crank' = [crank EXCEPT ![c].pc = "fail", ![c].sent = NoTin]
    /\ TinFault
    /\ UNCHANGED <<tinClock, attempts, tinWork, stages, registry, recovery, routes, tinTx>>

\* the account read back after the last transaction
RegistryIsThere(i) == registry[attempts[i].lookup] # NoTin

CheckTin(c) ==
    /\ crank[c].pc = "check"
    /\ crank' = [crank EXCEPT ![c].pc = IF RegistryIsThere(crank[c].intent) THEN "confirm" ELSE "fail"]
    /\ UNCHANGED <<tinClock, attempts, tinWork, stages, registry, recovery, routes, tinTx, tinFaults>>

HoldsTin(c) ==
    /\ crank[c] # Resting
    /\ LET w == tinWork[crank[c].intent]
       IN  w.status = "CRANKER_LEASED" /\ w.holder = c /\ w.leases = crank[c].lease

\* a report; the Receiver refuses it once the lease is another's. A report of
\* success that gets no answer becomes one of failure, and that one is not repeated
ReportTin(c, arrives, answered) ==
    /\ crank[c].pc \in {"confirm", "fail"}
    /\ tinWork' = IF arrives /\ HoldsTin(c)
                  THEN [tinWork EXCEPT ![crank[c].intent].status =
                           IF crank[c].pc = "confirm" THEN "CONFIRMED" ELSE "FAILED"]
                  ELSE tinWork
    /\ crank' = [crank EXCEPT ![c] =
           IF crank[c].pc = "confirm" /\ ~ (arrives /\ answered /\ HoldsTin(c))
           THEN [@ EXCEPT !.pc = "fail"]
           ELSE Resting]
    /\ IF arrives /\ answered THEN UNCHANGED tinFaults ELSE TinFault
    /\ UNCHANGED <<tinClock, attempts, stages, registry, recovery, routes, tinTx>>

CrashTin(c) ==
    /\ crank[c] # Resting
    /\ crank' = [crank EXCEPT ![c] = Resting]
    /\ TinFault
    /\ UNCHANGED <<tinClock, attempts, tinWork, stages, registry, recovery, routes, tinTx>>

ExpireTinLease(i) ==
    /\ tinWork[i].status = "CRANKER_LEASED"
    /\ tinWork[i].leases < MaxLeases
    /\ tinWork' = [tinWork EXCEPT ![i].status = "VERIFIED", ![i].holder = NoTin]
    \* while its holder is at work this is an overrun
    /\ IF HoldsTin(tinWork[i].holder) THEN TinFault ELSE UNCHANGED tinFaults
    /\ UNCHANGED <<tinClock, attempts, stages, registry, recovery, routes, crank, tinTx>>

TinTick ==
    /\ tinClock < MaxTinTime
    /\ tinClock' = tinClock + 1
    /\ UNCHANGED <<attempts, tinWork, stages, registry, recovery, routes, crank, tinTx, tinFaults>>

-----------------------------------------------------------------------------
(* The owner on any device: find the TIN, resolve it, open the seed.        *)

\* decryptTinV1OwnerRecoveryEnvelope
Recovered(o) ==
    IF recovery[o] = NoTin \/ recovery[o].lockedBy # RecoveryMessage(o) THEN NoTin ELSE recovery[o]

\* resolveTinV1Identity, which derives the account's address from the TIN with the
\* lookup secret: a service of the backend, asked for the TIN the wallet recovered
Resolved(t) ==
    IF registry[t] = NoTin \/ registry[t].identity.tin # t THEN NoTin ELSE registry[t]

\* withTinOwnerMasterSeed: the message is built again from the name the owner has
OpenedSeed(account, o, name) ==
    LET message == AccessMessage(o, name, account.seed.resource)
    IN  IF message = account.seed.accessHash /\ message = account.seed.lockedBy
        THEN account.seed.seed ELSE NoTin

-----------------------------------------------------------------------------

TinInit ==
    /\ tinClock = 0
    /\ attempts = <<>> /\ tinWork = <<>> /\ stages = <<>>
    /\ registry = [t \in Tin |-> NoTin]
    /\ recovery = [o \in TinOwner |-> NoTin]
    /\ routes = <<>>
    /\ crank = [c \in TinCranker |-> Resting]
    /\ tinTx = {}
    /\ tinFaults = 0

TinNext ==
    \/ \E t \in Tin, name \in DisplayName, large \in BOOLEAN : SubmitTin(t, name, large)
    \/ \E i \in DOMAIN attempts : CloseExpired(i) \/ ExpireTinLease(i) \/ OtherSigner(i)
    \/ \E c \in TinCranker, i \in DOMAIN attempts : LeaseTin(c, i)
    \/ \E c \in TinCranker : SendTin(c) \/ GiveUpTin(c) \/ CheckTin(c) \/ CrashTin(c)
    \/ \E c \in TinCranker, arrives, answered \in BOOLEAN : ReportTin(c, arrives, answered)
    \/ \E x \in tinTx : LandTin(x)
    \/ TinTick

TinSpec == TinInit /\ [][TinNext]_tinVars

-----------------------------------------------------------------------------

(* What is registered is what its owner signed: the registry account, the   *)
(* owner's recovery record and the one route leaf of a TIN come from the    *)
(* same intent, though anybody may open its stage with other terms or write *)
(* other bytes to it, and daemons write over each other's pieces after      *)
(* restarts and timeouts. (A stage spoilt that way is refused until it      *)
(* expires.)                                                                *)
RegisteredAsSigned ==
    \A t \in Tin : registry[t] # NoTin =>
        \E i \in DOMAIN attempts :
            /\ attempts[i].lookup = t
            /\ registry[t] = RegistryAccount(attempts[i])
            /\ recovery[attempts[i].owner] = attempts[i].recovery
            /\ \E n \in DOMAIN routes :
                   /\ routes[n] = RouteLeaf(attempts[i])
                   /\ \A m \in DOMAIN routes : routes[m][1] = t => m = n

(* Every registered TIN can be recovered by its owner on a new device: the  *)
(* recovery record, which the wallet's signature opens, names this TIN, and *)
(* in the account resolved from it the name in that record opens the seed   *)
(* the registered keys come from, however many attempts of the same owner   *)
(* were under way, failed, or were reported failed and landed all the same. *)
OwnerRecovers ==
    \A t \in Tin : registry[t] # NoTin =>
        LET o == registry[t].owner
        IN  /\ Recovered(o) # NoTin
            /\ Recovered(o).tin = t
            /\ Resolved(t) # NoTin
            /\ OpenedSeed(Resolved(t), o, Recovered(o).name) = registry[t].key

=============================================================================
