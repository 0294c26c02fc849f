----------------------------- MODULE WorkLedger -----------------------------
(***************************************************************************)
(* The durable work records of the TSN Receiver and the transactions that  *)
(* change them (services/tsn-receiver/lib/store.ts).                       *)
(*                                                                         *)
(* This is the abstract specification of the Receiver: every operation is  *)
(* one atomic step and a worker's report is decided against the version it *)
(* changes.  ReceiverStore has the same records with the code's own steps  *)
(* (reads outside the transaction, requests in flight) and implements this *)
(* module.                                                                 *)
(*                                                                         *)
(* Abstractions.  A payload is its commitment.  A lease id is the work id  *)
(* (store.ts 245-246) and is left out.  Time is a counter: a lease lasts   *)
(* LeaseTTL ticks, the code's 60 seconds.  updatedAt and the wording of    *)
(* reasons are left out, except whether a rejection may be retried.  The   *)
(* wake hints sent after a commit change no record and are left out.       *)
(***************************************************************************)
EXTENDS Naturals, Sequences, FiniteSets

CONSTANTS
    Id,          \* work ids clients choose
    Commitment,  \* commitments of the payloads they submit
    Node,        \* Node ids that lease verification work
    Cranker,     \* operator keys that lease execution work
    Signature,   \* chain transaction signatures a report may carry
    NULL,        \* the null of the stored document
    LeaseTTL,    \* lifetime of a lease, in ticks
    MaxClock,    \* bound: the clock stops here
    MaxRetries   \* bound: snapshot retries recorded per settlement

VARIABLES
    work,        \* work[w]: the document with id w
    clock        \* the Receiver's Date.now()

ledgerVars == <<work, clock>>

ASSUME TTLAssumption == LeaseTTL \in Nat \ {0}
ASSUME BoundAssumption == MaxClock \in Nat /\ MaxRetries \in Nat

-----------------------------------------------------------------------------
(* Documents.                                                              *)

ExternalKind == {"AUTHORIZED_FUNDING", "TIN_OPERATION"}
Kind == ExternalKind \cup {"SETTLEMENT"}
Actor == {"node", "cranker"}
Status == {"ABSENT", "RECEIVED", "NODE_VERIFYING", "VERIFIED", "REJECTED",
           "CRANKER_LEASED", "SUBMITTED", "CONFIRMED", "FAILED"}

(* The settlement's id is a hash of the funding's id and commitment.       *)
SettlementId(id, c) == <<id, c>>
FundingOf(w) == w[1]
Settlements == Id \X Commitment
WorkId == Id \cup Settlements

ASSUME IdAssumption == Id \cap Settlements = {}

Lease == [owner : Node \cup Cranker, expiresAt : Nat, version : Nat]
Verification == [decision : {"VERIFIED", "REJECTED"}, leaseVersion : Nat,
                 retryable : BOOLEAN]
(* seen is history: the stateVersion of the work the reporter was handed.  *)
Result == [signature : Signature \cup {NULL}, seen : Nat]
Authorization == [leaseVersion : Nat, leaseExpiresAt : Nat, expiresAtTs : Nat]
RetryEntry == [rejectedStateVersion : Nat, fundingSignature : Signature]

ASSUME NullAssumption ==
    /\ NULL \notin Lease
    /\ NULL \notin Verification
    /\ NULL \notin Result
    /\ NULL \notin Authorization
    /\ NULL \notin Signature
    /\ NULL \notin Commitment
    /\ NULL \notin Kind

Record == [kind : Kind \cup {NULL},
           status : Status,
           stateVersion : Nat,
           payloadCommitment : Commitment \cup {NULL},
           receivedAt : Nat,
           nodeLease : Lease \cup {NULL},
           crankerLease : Lease \cup {NULL},
           verification : Verification \cup {NULL},
           result : Result \cup {NULL},
           authorization : Authorization \cup {NULL},
           retryHistory : Seq(RetryEntry)]

Absent == [kind |-> NULL, status |-> "ABSENT", stateVersion |-> 0,
           payloadCommitment |-> NULL, receivedAt |-> 0,
           nodeLease |-> NULL, crankerLease |-> NULL, verification |-> NULL,
           result |-> NULL, authorization |-> NULL, retryHistory |-> <<>>]

(* A settlement's own payload only names its funding, so the funding's     *)
(* commitment stands for the commitment of that payload.                   *)
ReceivedWork(kind, c) ==
    [Absent EXCEPT !.kind = kind, !.status = "RECEIVED", !.stateVersion = 1,
                   !.payloadCommitment = c, !.receivedAt = clock]

Exists(w) == work[w].status # "ABSENT"
Unexpired(lease) == clock < lease.expiresAt

-----------------------------------------------------------------------------
(* What one transaction writes into the document it updates.               *)

QueueStatus(actor) == IF actor = "node" THEN "RECEIVED" ELSE "VERIFIED"
LeasedStatus(actor) == IF actor = "node" THEN "NODE_VERIFYING" ELSE "CRANKER_LEASED"
LeaseOf(r, actor) == IF actor = "node" THEN r.nodeLease ELSE r.crankerLease

NewLease(r, owner) ==
    [owner |-> owner, expiresAt |-> clock + LeaseTTL, version |-> r.stateVersion + 1]

LeasePatch(r, actor, owner) ==
    IF actor = "node"
    THEN [r EXCEPT !.status = "NODE_VERIFYING", !.stateVersion = @ + 1,
                   !.nodeLease = NewLease(r, owner)]
    ELSE [r EXCEPT !.status = "CRANKER_LEASED", !.stateVersion = @ + 1,
                   !.crankerLease = NewLease(r, owner)]

RequeuePatch(r, actor) ==
    [r EXCEPT !.status = QueueStatus(actor), !.stateVersion = @ + 1,
              !.nodeLease = NULL, !.crankerLease = NULL]

NodePatch(r, verification) ==
    [r EXCEPT !.status = verification.decision, !.stateVersion = @ + 1,
              !.verification = verification, !.nodeLease = NULL]

CrankerPatch(r, status, result) ==
    [r EXCEPT !.status = status, !.stateVersion = @ + 1,
              !.result = result, !.crankerLease = NULL,
              !.authorization = IF status = "CONFIRMED" /\ r.kind = "SETTLEMENT"
                                THEN NULL ELSE @]

AuthorizationPatch(r, authorization) ==
    [r EXCEPT !.authorization = authorization, !.stateVersion = @ + 1]

RetryPatch(r, fundingSignature) ==
    [r EXCEPT !.status = "RECEIVED", !.stateVersion = @ + 1,
              !.verification = NULL, !.nodeLease = NULL, !.crankerLease = NULL,
              !.authorization = NULL,
              !.retryHistory = Append(@, [rejectedStateVersion |-> r.stateVersion,
                                          fundingSignature |-> fundingSignature])]

-----------------------------------------------------------------------------
(* The settlement of a funding is leased only once the funding has been    *)
(* executed and its transaction confirmed.                                 *)
FundingConfirmed(w) ==
    /\ work[FundingOf(w)].kind = "AUTHORIZED_FUNDING"
    /\ work[FundingOf(w)].status = "CONFIRMED"

LedgerInit ==
    /\ work = [w \in WorkId |-> Absent]
    /\ clock = 0

(* Operators marked "fault" are variants of the definition below them with *)
(* one plausible mistake; nothing uses them but the tests of the           *)
(* properties.                                                             *)
ReceiveAnyPayload(id, kind, c) ==   \* fault: no test of the commitment
    /\ \/ ~Exists(id)
       \/ work[id].kind = kind
    /\ work' = [w \in WorkId |->
                  CASE w = id /\ ~Exists(w) -> ReceivedWork(kind, c)
                    [] /\ kind = "AUTHORIZED_FUNDING"
                       /\ w = SettlementId(id, c)
                       /\ ~Exists(w) -> ReceivedWork("SETTLEMENT", c)
                    [] OTHER -> work[w]]
    /\ UNCHANGED clock

(* receive: create the work, and with a funding its settlement.  A repeat  *)
(* of the same submission changes nothing that is already there, and a     *)
(* different one under the same id is refused (IDEMPOTENCY_CONFLICT).      *)
Receive(id, kind, c) ==
    /\ \/ ~Exists(id)
       \/ work[id].payloadCommitment = c /\ work[id].kind = kind
    /\ work' = [w \in WorkId |->
                  CASE w = id /\ ~Exists(w) -> ReceivedWork(kind, c)
                    [] /\ kind = "AUTHORIZED_FUNDING"
                       /\ w = SettlementId(id, c)
                       /\ ~Exists(w) -> ReceivedWork("SETTLEMENT", c)
                    [] OTHER -> work[w]]
    /\ UNCHANGED clock

(* lease, first half: an expired lease goes back to the queue it came from *)
Requeue(actor, w) ==
    /\ work[w].status = LeasedStatus(actor)
    /\ ~Unexpired(LeaseOf(work[w], actor))
    /\ work' = [work EXCEPT ![w] = RequeuePatch(@, actor)]
    /\ UNCHANGED clock

(* lease, second half: queued work is given to one worker.                 *)
Grant(actor, owner, w) ==
    /\ work[w].status = QueueStatus(actor)
    /\ work[w].kind = "SETTLEMENT" => FundingConfirmed(w)
    /\ work' = [work EXCEPT ![w] = LeasePatch(@, actor, owner)]
    /\ UNCHANGED clock

(* attachCrankerAuthorization: the Node's permission to execute, valid for *)
(* the lease under which it was asked for.  Its one caller passes the      *)
(* version that lease returned, so a lease is authorized at most once.     *)
Attach(w) ==
    LET lease == work[w].crankerLease IN
    /\ work[w].status = "CRANKER_LEASED"
    /\ work[w].stateVersion = lease.version
    /\ \E ts \in (clock + 1)..lease.expiresAt :
         work' = [work EXCEPT ![w] = AuthorizationPatch(@,
                    [leaseVersion |-> lease.version,
                     leaseExpiresAt |-> lease.expiresAt, expiresAtTs |-> ts])]
    /\ UNCHANGED clock

(* transition by a Node: only the holder of an unexpired lease decides,    *)
(* and its attestation names that lease.                                   *)
NodeDecides(w, decision, retryable) ==
    /\ work[w].nodeLease # NULL
    /\ Unexpired(work[w].nodeLease)
    /\ decision = "VERIFIED" => ~retryable
    /\ work' = [work EXCEPT ![w] = NodePatch(@,
                  [decision |-> decision, retryable |-> retryable,
                   leaseVersion |-> work[w].nodeLease.version])]
    /\ UNCHANGED clock

(* transition by a Cranker: only the holder of an unexpired lease reports, *)
(* about the version of the work that is stored.                           *)
CrankerReports(w, status, sig) ==
    /\ work[w].crankerLease # NULL
    /\ Unexpired(work[w].crankerLease)
    /\ work' = [work EXCEPT ![w] = CrankerPatch(@, status,
                  [signature |-> sig, seen |-> work[w].stateVersion])]
    /\ UNCHANGED clock

RetrySnapshotAnyStatus(w) ==   \* fault: the status is not tested
    /\ work[w].verification # NULL
    /\ FundingConfirmed(w)
    /\ work[FundingOf(w)].result.signature # NULL
    /\ Len(work[w].retryHistory) < MaxRetries
    /\ work' = [work EXCEPT ![w] = RetryPatch(@, work[FundingOf(w)].result.signature)]
    /\ UNCHANGED clock

(* retrySettlementSnapshot: an operator requeues a settlement that the     *)
(* Node rejected for a repairable reason.  The last conjuncts are          *)
(* snapshotRetryPatch's refusals.                                          *)
RetrySnapshot(w) ==
    LET funding == work[FundingOf(w)] IN
    /\ work[w].status = "REJECTED"
    /\ work[w].verification.retryable
    /\ work[w].nodeLease = NULL /\ work[w].crankerLease = NULL
    /\ work[w].authorization = NULL /\ work[w].result = NULL
    /\ FundingConfirmed(w)
    /\ funding.result # NULL /\ funding.result.signature # NULL
    /\ Len(work[w].retryHistory) < MaxRetries
    /\ work' = [work EXCEPT ![w] = RetryPatch(@, funding.result.signature)]
    /\ UNCHANGED clock

Tick == clock < MaxClock /\ clock' = clock + 1 /\ UNCHANGED work

OwnerOf(actor) == IF actor = "node" THEN Node ELSE Cranker
ReportStatus == {"SUBMITTED", "CONFIRMED", "FAILED"}

LedgerNext ==
    \/ \E id \in Id, kind \in ExternalKind, c \in Commitment : Receive(id, kind, c)
    \/ \E actor \in Actor, w \in WorkId : Requeue(actor, w)
    \/ \E actor \in Actor, w \in WorkId : \E owner \in OwnerOf(actor) : Grant(actor, owner, w)
    \/ \E w \in Settlements : Attach(w)
    \/ \E w \in WorkId, decision \in {"VERIFIED", "REJECTED"}, retryable \in BOOLEAN :
          NodeDecides(w, decision, retryable)
    \/ \E w \in WorkId, status \in ReportStatus, sig \in Signature \cup {NULL} :
          CrankerReports(w, status, sig)
    \/ \E w \in Settlements : RetrySnapshot(w)
    \/ Tick

LedgerSpec == LedgerInit /\ [][LedgerNext]_ledgerVars
-----------------------------------------------------------------------------
(* Type invariant of the stored documents and the clock.                   *)
LedgerTypeOK ==
    /\ work \in [WorkId -> Record]
    /\ clock \in Nat

(* A document carries a Node lease exactly while the Node verifies it and  *)
(* a Cranker lease exactly while a Cranker executes it, never both, and    *)
(* nothing but an authorization happens to the document during a lease.    *)
(* transition checks the lease and never the status, so this is what keeps *)
(* a report from moving work that is not being worked on.                  *)
LeaseMatchesStatus ==
    \A w \in WorkId, actor \in Actor :
        LET lease == LeaseOf(work[w], actor) IN
        /\ lease # NULL <=> work[w].status = LeasedStatus(actor)
        /\ lease # NULL => lease.owner \in OwnerOf(actor)
        /\ lease # NULL => \/ work[w].stateVersion = lease.version
                           \/ /\ actor = "cranker"
                              /\ work[w].authorization # NULL
                              /\ work[w].stateVersion = lease.version + 1

(* A settlement exists only beside the funding it was derived from, with   *)
(* the commitment that funding was accepted with, so a funding never has   *)
(* two settlements; and once the settlement has left RECEIVED its funding  *)
(* is CONFIRMED (receive's linked creation, lease's eligibility test).     *)
SettlementFollowsFunding ==
    \A w \in Settlements : Exists(w) =>
        /\ work[w].kind = "SETTLEMENT"
        /\ work[FundingOf(w)].kind = "AUTHORIZED_FUNDING"
        /\ work[FundingOf(w)].payloadCommitment = w[2]
        /\ work[w].status # "RECEIVED" => FundingConfirmed(w)

(* Work that is still to be verified, or was rejected, has never been in   *)
(* execution: no authorization, result or Cranker lease.  So a retry never *)
(* meets SETTLEMENT_RETRY_HAS_EXECUTION_STATE, and a retried settlement    *)
(* was not already paid.                                                   *)
NoExecutionBeforeVerification ==
    \A w \in WorkId :
        work[w].status \in {"RECEIVED", "NODE_VERIFYING", "REJECTED"} =>
            /\ work[w].crankerLease = NULL
            /\ work[w].authorization = NULL
            /\ work[w].result = NULL

(* A Cranker only ever sees work whose stored verification is a VERIFIED   *)
(* decision, taken under a Node lease older than the document's version;   *)
(* the stored final report was decided on the very version it replaced.    *)
OutcomesAreCurrent ==
    \A w \in WorkId :
        LET r == work[w] IN
        /\ r.status \in {"VERIFIED", "CRANKER_LEASED", "SUBMITTED", "CONFIRMED", "FAILED"} =>
              /\ r.verification # NULL
              /\ r.verification.decision = "VERIFIED"
              /\ r.verification.leaseVersion < r.stateVersion
        /\ r.status = "REJECTED" =>
              /\ r.verification # NULL
              /\ r.verification.decision = "REJECTED"
              /\ r.stateVersion = r.verification.leaseVersion + 1
        /\ r.status \in ReportStatus =>
              r.result # NULL /\ r.stateVersion = r.result.seen + 1

(* Every update of an existing document raises stateVersion by one, so a   *)
(* version identifies one content of the document and can be used as the   *)
(* fencing token that transition and attachCrankerAuthorization use.       *)
EveryChangeIsVersioned ==
    [][\A w \in WorkId : work'[w] # work[w] =>
          \/ ~Exists(w) /\ work'[w].stateVersion = 1
          \/ work'[w].stateVersion = work[w].stateVersion + 1]_ledgerVars

(* A reported outcome is final, and a rejection is left only by a retry of *)
(* a settlement.                                                           *)
OutcomesAreFinal ==
    [][\A w \in WorkId :
          /\ work[w].status \in ReportStatus => work'[w] = work[w]
          /\ work[w].status = "REJECTED" /\ work'[w] # work[w] =>
                /\ work[w].kind = "SETTLEMENT"
                /\ work'[w].status = "RECEIVED"
                /\ Len(work'[w].retryHistory) = Len(work[w].retryHistory) + 1]_ledgerVars

=============================================================================
