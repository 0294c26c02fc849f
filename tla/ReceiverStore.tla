---------------------------- MODULE ReceiverStore ----------------------------
(***************************************************************************)
(* The Receiver as its handlers run: services/tsn-receiver/lib/store.ts    *)
(* behind the routes app/api/work, internal/node/work and cranker/work.    *)
(*                                                                         *)
(* A lease request is not one transaction.  It queries the expired leases, *)
(* requeues them one transaction each, queries the queue, reads the        *)
(* funding of a settlement outside any transaction, and only then leases   *)
(* in a transaction that re-reads nothing but the status.  A Cranker's     *)
(* request for a settlement goes on to ask the Node for an authorization   *)
(* and attaches it in one more transaction.  Requests run concurrently,    *)
(* may die between any two steps, and the answer they return is used by    *)
(* the worker at any later time, more than once, or never.                 *)
(*                                                                         *)
(* The module extends WorkLedger: its transactions write the same patches, *)
(* and LedgerSpec is the specification it implements.                      *)
(***************************************************************************)
EXTENDS WorkLedger

CONSTANTS
    Call,        \* lease requests the Receiver may be serving at a time
    QueryLimit,  \* documents a query returns at most (50 in the code)
    KindFilter   \* the supportedKinds sets a worker may ask for

VARIABLES
    call,        \* call[c]: the local state of request c
    held         \* work handed to a worker, or read by an operator

storeVars == <<work, clock, call, held>>

ASSUME LimitAssumption == QueryLimit \in Nat \ {0}
ASSUME KindAssumption == KindFilter \subseteq SUBSET Kind

Phase == {"idle", "requeue", "select", "commit", "authorize", "attach"}

Idle == [phase |-> "idle", actor |-> NULL, owner |-> NULL, kinds |-> {},
         stale |-> {}, candidates |-> {}, pick |-> NULL, version |-> 0,
         authorization |-> NULL]

CallState ==
    [phase : Phase, actor : Actor \cup {NULL}, owner : Node \cup Cranker \cup {NULL},
     kinds : SUBSET Kind, stale : SUBSET WorkId, candidates : SUBSET WorkId,
     pick : WorkId \cup {NULL}, version : Nat,
     authorization : Authorization \cup {NULL}]

Answer ==
    [role : Actor \cup {"operator"}, owner : Node \cup Cranker \cup {NULL},
     work : WorkId, version : Nat, leaseVersion : Nat,
     authorization : Authorization \cup {NULL}]

(* The answer a worker acts on: the work's id and the version it was given *)
(* at; leaseVersion is the version in the lease that comes with it.        *)
Handed(role, owner, w, version, leaseVersion, authorization) ==
    [role |-> role, owner |-> owner, work |-> w, version |-> version,
     leaseVersion |-> leaseVersion, authorization |-> authorization]

(* A query with a limit returns some of the matching documents, all of     *)
(* them when they are few.  The store orders them by document id, which    *)
(* the model does not interpret.                                           *)
Limited(S) ==
    IF Cardinality(S) <= QueryLimit THEN {S}
    ELSE {T \in SUBSET S : Cardinality(T) = QueryLimit}

WithStatus(status) == {w \in WorkId : work[w].status = status}

-----------------------------------------------------------------------------
(* lease(): the query for leases that look expired.                        *)
LeaseStart(c, actor, owner, kinds) ==
    /\ call[c].phase = "idle"
    /\ \E docs \in Limited(WithStatus(LeasedStatus(actor))) :
         call' = [call EXCEPT ![c] =
                    [Idle EXCEPT !.phase = "requeue", !.actor = actor,
                       !.owner = owner, !.kinds = kinds,
                       !.stale = {w \in docs :
                                    /\ LeaseOf(work[w], actor) # NULL
                                    /\ ~Unexpired(LeaseOf(work[w], actor))}]]
    /\ UNCHANGED <<work, clock, held>>

RequeueTransactionStale(c, w) ==   \* fault: the queried expiry is trusted
    /\ call[c].phase = "requeue" /\ w \in call[c].stale
    /\ call' = [call EXCEPT ![c].stale = @ \ {w}]
    /\ work' = IF work[w].status # LeasedStatus(call[c].actor) THEN work
               ELSE [work EXCEPT ![w] = RequeuePatch(@, call[c].actor)]
    /\ UNCHANGED <<clock, held>>

(* lease(): the transaction that requeues one of them.  Status and expiry  *)
(* are read again inside it, since the work may have moved on meanwhile.   *)
RequeueTransaction(c, w) ==
    LET actor == call[c].actor
        lease == LeaseOf(work[w], actor)
        moved == work[w].status # LeasedStatus(actor)
        live  == lease # NULL /\ Unexpired(lease)
    IN
    /\ call[c].phase = "requeue" /\ w \in call[c].stale
    /\ call' = [call EXCEPT ![c].stale = @ \ {w}]
    /\ work' = IF moved \/ live THEN work
               ELSE [work EXCEPT ![w] = RequeuePatch(@, actor)]
    /\ UNCHANGED <<clock, held>>

(* lease(): the query for queued work.                                     *)
QueryCandidates(c) ==
    /\ call[c].phase = "requeue" /\ call[c].stale = {}
    /\ \E docs \in Limited(WithStatus(QueueStatus(call[c].actor))) :
         call' = [call EXCEPT ![c].phase = "select", ![c].candidates = docs]
    /\ UNCHANGED <<work, clock, held>>

(* The candidates are tried oldest first.                                  *)
Oldest(S) == {w \in S : \A v \in S : work[w].receivedAt <= work[v].receivedAt}

SelectCandidateUnfunded(c, w) ==   \* fault: the funding is not looked up
    /\ call[c].phase = "select" /\ w \in Oldest(call[c].candidates)
    /\ call' = [call EXCEPT ![c].candidates = @ \ {w},
                            ![c].phase = "commit", ![c].pick = w]
    /\ UNCHANGED <<work, clock, held>>

(* lease(): a candidate of another kind, or a settlement whose funding is  *)
(* not confirmed at this moment, is passed over.  Kind, payload and        *)
(* receivedAt never change, so the queried copy of them is current.        *)
SelectCandidate(c, w) ==
    LET eligible == /\ work[w].kind \in call[c].kinds
                    /\ work[w].kind = "SETTLEMENT" => FundingConfirmed(w)
    IN
    /\ call[c].phase = "select" /\ w \in Oldest(call[c].candidates)
    /\ call' = [call EXCEPT ![c].candidates = @ \ {w},
                            ![c].phase = IF eligible THEN "commit" ELSE "select",
                            ![c].pick = IF eligible THEN w ELSE NULL]
    /\ UNCHANGED <<work, clock, held>>

(* lease(): no candidate is left and the worker is answered with no work.  *)
NoWork(c) ==
    /\ call[c].phase = "select" /\ call[c].candidates = {}
    /\ call' = [call EXCEPT ![c] = Idle]
    /\ UNCHANGED <<work, clock, held>>

(* lease(): the transaction that gives the work to the caller if it is     *)
(* still queued.  A Node, and a Cranker for work other than a settlement,  *)
(* is answered at once.  (leaseForNode reads a settlement's document again *)
(* to give its payload to the Node; the lease it reports is this one.)     *)
LeaseTransaction(c) ==
    LET w == call[c].pick
        actor == call[c].actor
        owner == call[c].owner
        version == work[w].stateVersion + 1
        authorizes == actor = "cranker" /\ work[w].kind = "SETTLEMENT"
    IN
    /\ call[c].phase = "commit"
    /\ UNCHANGED clock
    /\ \/ /\ work[w].status # QueueStatus(actor)
          /\ call' = [call EXCEPT ![c].phase = "select", ![c].pick = NULL]
          /\ UNCHANGED <<work, held>>
       \/ /\ work[w].status = QueueStatus(actor)
          /\ work' = [work EXCEPT ![w] = LeasePatch(@, actor, owner)]
          /\ call' = IF authorizes
                     THEN [call EXCEPT ![c].phase = "authorize", ![c].version = version]
                     ELSE [call EXCEPT ![c] = Idle]
          /\ held' = IF authorizes THEN held
                     ELSE held \cup {Handed(actor, owner, w, version, version, NULL)}

(* cranker/work POST: the Node reads the lease and authorizes it.  The     *)
(* lease it found may already be a later one.  (Its other tests are        *)
(* modelled by the call failing.)                                          *)
AuthorizeCall(c) ==
    LET w == call[c].pick
        lease == work[w].crankerLease
    IN
    /\ call[c].phase = "authorize"
    /\ work[w].status = "CRANKER_LEASED"
    /\ lease.owner = call[c].owner /\ Unexpired(lease)
    /\ call' = [call EXCEPT ![c].phase = "attach",
                  ![c].authorization = [leaseVersion |-> lease.version,
                                        leaseExpiresAt |-> lease.expiresAt,
                                        expiresAtTs |-> lease.expiresAt]]
    /\ UNCHANGED <<work, clock, held>>

MayAttachAnyVersion(w, owner, expected, authorization) ==   \* fault: no version test
    LET lease == work[w].crankerLease IN
    /\ work[w].status = "CRANKER_LEASED"
    /\ lease # NULL
    /\ lease.owner = owner
    /\ Unexpired(lease)
    /\ clock < authorization.expiresAtTs

(* attachCrankerAuthorization's refusals; each ends the request with an    *)
(* error and leaves the lease where it is.                                 *)
MayAttach(w, owner, expected, authorization) ==
    LET lease == work[w].crankerLease IN
    /\ work[w].status = "CRANKER_LEASED"
    /\ lease # NULL
    /\ lease.owner = owner
    /\ work[w].stateVersion = expected
    /\ Unexpired(lease)
    /\ authorization.leaseVersion = lease.version
    /\ authorization.leaseExpiresAt = lease.expiresAt
    /\ clock < authorization.expiresAtTs
    /\ authorization.expiresAtTs <= lease.expiresAt

(* cranker/work POST: the authorization is attached and the Cranker is     *)
(* answered with the updated document.                                     *)
AttachTransaction(c) ==
    LET w == call[c].pick
        auth == call[c].authorization
        version == work[w].stateVersion + 1
    IN
    /\ call[c].phase = "attach"
    /\ MayAttach(w, call[c].owner, call[c].version, auth)
    /\ work' = [work EXCEPT ![w] = AuthorizationPatch(@, auth)]
    /\ held' = held \cup {Handed("cranker", call[c].owner, w, version,
                                 work[w].crankerLease.version, auth)}
    /\ call' = [call EXCEPT ![c] = Idle]
    /\ UNCHANGED clock

(* A request that fails, or whose process dies, at any step: nothing it    *)
(* committed is undone.                                                    *)
CallFails(c) ==
    /\ call[c].phase # "idle"
    /\ call' = [call EXCEPT ![c] = Idle]
    /\ UNCHANGED <<work, clock, held>>

-----------------------------------------------------------------------------
(* transition(): what a report must satisfy to be applied.                 *)
HoldsLease(lease, owner) ==
    lease # NULL /\ lease.owner = owner /\ Unexpired(lease)

(* transition() by a Node, with the attestation of assertNodeVerification- *)
(* Attestation: it names the lease version the Node was handed.            *)
NodeReport(h, decision, retryable) ==
    LET r == work[h.work] IN
    /\ h.role = "node"
    /\ HoldsLease(r.nodeLease, h.owner)
    /\ r.stateVersion = h.version
    /\ h.leaseVersion = r.nodeLease.version
    /\ decision = "VERIFIED" => ~retryable
    /\ work' = [work EXCEPT ![h.work] = NodePatch(@,
                  [decision |-> decision, retryable |-> retryable,
                   leaseVersion |-> h.leaseVersion])]
    /\ UNCHANGED <<clock, call, held>>

(* transition() by a Cranker.  The replay of a report that is already      *)
(* stored changes nothing, so it is a stuttering step.                     *)
CrankerReport(h, status, sig) ==
    LET r == work[h.work] IN
    /\ h.role = "cranker"
    /\ HoldsLease(r.crankerLease, h.owner)
    /\ r.stateVersion = h.version
    /\ work' = [work EXCEPT ![h.work] = CrankerPatch(@, status,
                  [signature |-> sig, seen |-> h.version])]
    /\ UNCHANGED <<clock, call, held>>

(* An operator looks a rejected settlement up ...                          *)
ReadRejected(w) ==
    /\ work[w].status = "REJECTED"
    /\ held' = held \cup {Handed("operator", NULL, w, work[w].stateVersion, 0, NULL)}
    /\ UNCHANGED <<work, clock, call>>

(* ... and asks for the retry of what was read, now or much later.         *)
Retry(h) ==
    /\ h.role = "operator"
    /\ work[h.work].stateVersion = h.version
    /\ RetrySnapshot(h.work)
    /\ UNCHANGED <<call, held>>

-----------------------------------------------------------------------------
StoreInit ==
    /\ LedgerInit
    /\ call = [c \in Call |-> Idle]
    /\ held = {}

LeaseStep(c) ==
    \/ \E actor \in Actor, kinds \in KindFilter :
          \E owner \in OwnerOf(actor) : LeaseStart(c, actor, owner, kinds)
    \/ \E w \in WorkId : RequeueTransaction(c, w)
    \/ QueryCandidates(c)
    \/ \E w \in WorkId : SelectCandidate(c, w)
    \/ NoWork(c)
    \/ LeaseTransaction(c)
    \/ AuthorizeCall(c)
    \/ AttachTransaction(c)
    \/ CallFails(c)

StoreNext ==
    \/ /\ \E id \in Id, kind \in ExternalKind, k \in Commitment : Receive(id, kind, k)
       /\ UNCHANGED <<call, held>>
    \/ \E c \in Call : LeaseStep(c)
    \/ \E h \in held, decision \in {"VERIFIED", "REJECTED"}, retryable \in BOOLEAN :
          NodeReport(h, decision, retryable)
    \/ \E h \in held, status \in ReportStatus, sig \in Signature \cup {NULL} :
          CrankerReport(h, status, sig)
    \/ \E w \in Settlements : ReadRejected(w)
    \/ \E h \in held : Retry(h)
    \/ Tick /\ UNCHANGED <<call, held>>

StoreSpec == StoreInit /\ [][StoreNext]_storeVars

-----------------------------------------------------------------------------
(* Type invariant of the requests and answers beside the documents.        *)
StoreTypeOK ==
    /\ LedgerTypeOK
    /\ call \in [Call -> CallState]
    /\ held \subseteq Answer

(* What a request relies on between its steps, though it re-reads none of  *)
(* it: a settlement picked for leasing keeps its confirmed funding, and    *)
(* the lease it was granted is still the current one if the version is.    *)
RequestOK(c) ==
    LET w == call[c].pick IN
    /\ call[c].phase # "idle" =>
          call[c].actor \in Actor /\ call[c].owner \in OwnerOf(call[c].actor)
    /\ call[c].phase = "commit" =>
          /\ w \in WorkId
          /\ Exists(w)
          /\ work[w].kind = "SETTLEMENT" => FundingConfirmed(w)
    /\ call[c].phase \in {"authorize", "attach"} =>
          /\ w \in Settlements
          /\ call[c].actor = "cranker"
          /\ call[c].version <= work[w].stateVersion
          /\ call[c].version = work[w].stateVersion =>
                /\ work[w].crankerLease # NULL
                /\ work[w].crankerLease.version = call[c].version
    /\ call[c].phase = "attach" => call[c].authorization \in Authorization

(* Every request that lease() and the cranker/work route are serving is    *)
(* still entitled to its next transaction: see RequestOK.                  *)
RequestsStayValid == \A c \in Call : RequestOK(c)

(* A Cranker is handed a settlement only together with an authorization    *)
(* for the lease it was handed under: the authorization a previous lease   *)
(* left in the document (a requeue does not clear it) never reaches the    *)
(* next Cranker, though the two leases may have the same owner.            *)
HandedAuthorizationIsOwn ==
    \A h \in held :
        h.role = "cranker" /\ work[h.work].kind = "SETTLEMENT" =>
            /\ h.authorization # NULL
            /\ h.authorization.leaseVersion = h.leaseVersion
            /\ h.version = h.leaseVersion + 1
=============================================================================
