------------------------ MODULE ReceiverStoreProofs ------------------------
(***************************************************************************)
(* Proofs about the Receiver.  WorkLedger keeps its promises, for every    *)
(* set of ids, payloads and workers and every lease lifetime and bound;    *)
(* and ReceiverStore, with its reads outside transactions and its answers  *)
(* used at any later time, implements WorkLedger, for every number of      *)
(* requests and workers and every query limit.                             *)
(***************************************************************************)
EXTENDS ReceiverStore, TLAPS

-----------------------------------------------------------------------------
(* The ledger of work documents.                                           *)

(* What LeaseMatchesStatus, NoExecutionBeforeVerification and              *)
(* OutcomesAreCurrent say of one document; one that does not exist has no  *)
(* kind.                                                                   *)
DocumentOK(r) ==
    /\ r.status = "ABSENT" => r.kind = NULL /\ r.stateVersion = 0
    /\ r.nodeLease # NULL <=> r.status = "NODE_VERIFYING"
    /\ r.nodeLease # NULL => /\ r.nodeLease.owner \in Node
                             /\ r.stateVersion = r.nodeLease.version
    /\ r.crankerLease # NULL <=> r.status = "CRANKER_LEASED"
    /\ r.crankerLease # NULL => /\ r.crankerLease.owner \in Cranker
                                /\ \/ r.stateVersion = r.crankerLease.version
                                   \/ /\ r.authorization # NULL
                                      /\ r.stateVersion = r.crankerLease.version + 1
    /\ r.status \in {"RECEIVED", "NODE_VERIFYING", "REJECTED"} =>
          r.authorization = NULL /\ r.result = NULL
    /\ r.status \in {"VERIFIED", "CRANKER_LEASED", "SUBMITTED", "CONFIRMED", "FAILED"} =>
          /\ r.verification # NULL
          /\ r.verification.decision = "VERIFIED"
          /\ r.verification.leaseVersion < r.stateVersion
    /\ r.status = "REJECTED" =>
          /\ r.verification # NULL
          /\ r.verification.decision = "REJECTED"
          /\ r.stateVersion = r.verification.leaseVersion + 1
    /\ r.status \in ReportStatus =>
          r.result # NULL /\ r.stateVersion = r.result.seen + 1

(* The inductive invariant.  SettlementFollowsFunding is kept because a    *)
(* CONFIRMED funding has no lease, hence nothing moves it; DocumentOK is   *)
(* kept because a lease names the version the document has reached.        *)
LedgerInv ==
    /\ LedgerTypeOK
    /\ \A w \in WorkId : DocumentOK(work[w])
    /\ \A id \in Id : work[id].kind # "SETTLEMENT"
    /\ SettlementFollowsFunding

-----------------------------------------------------------------------------
(* Each patch of the store writes a well-formed document.                  *)

LEMMA AbsentType == Absent \in Record
  BY NullAssumption DEF Absent, Record, Status, Kind

LEMMA ReceivedWorkType ==
  ASSUME NEW kind \in Kind, NEW c \in Commitment, clock \in Nat
  PROVE  ReceivedWork(kind, c) \in Record
  BY AbsentType DEF ReceivedWork, Record, Absent, Status

LEMMA NextVersionType ==
  ASSUME NEW r \in Record
  PROVE  r.stateVersion + 1 \in Nat
  BY DEF Record

LEMMA LeasePatchType ==
  ASSUME NEW r \in Record, NEW actor \in Actor, NEW owner \in OwnerOf(actor),
         clock \in Nat
  PROVE  LeasePatch(r, actor, owner) \in Record
<1>1. NewLease(r, owner) \in Lease
  BY TTLAssumption DEF NewLease, Lease, Record, OwnerOf, Actor
<1> QED
  BY <1>1, NextVersionType, ZenonT(40) DEF LeasePatch, Record, Status

LEMMA RequeuePatchType ==
  ASSUME NEW r \in Record, NEW actor \in Actor
  PROVE  RequeuePatch(r, actor) \in Record
  BY NextVersionType, ZenonT(40) DEF RequeuePatch, Record, Status, QueueStatus

LEMMA NodePatchType ==
  ASSUME NEW r \in Record, NEW v \in Verification
  PROVE  NodePatch(r, v) \in Record
<1>1. v.decision \in Status
  BY DEF Verification, Status
<1> QED
  BY <1>1, NextVersionType, Zenon DEF NodePatch, Record

LEMMA CrankerPatchType ==
  ASSUME NEW r \in Record, NEW status \in ReportStatus, NEW result \in Result
  PROVE  CrankerPatch(r, status, result) \in Record
<1>1. status \in Status
  BY DEF ReportStatus, Status
<1> QED
  BY <1>1, NextVersionType, ZenonT(40) DEF CrankerPatch, Record

LEMMA AuthorizationPatchType ==
  ASSUME NEW r \in Record, NEW a \in Authorization
  PROVE  AuthorizationPatch(r, a) \in Record
  BY NextVersionType, Zenon DEF AuthorizationPatch, Record

LEMMA RetryPatchType ==
  ASSUME NEW r \in Record, NEW sig \in Signature
  PROVE  RetryPatch(r, sig) \in Record
<1> DEFINE entry == [rejectedStateVersion |-> r.stateVersion, fundingSignature |-> sig]
<1>1. entry \in RetryEntry
  BY DEF RetryEntry, Record
<1>2. Append(r.retryHistory, entry) \in Seq(RetryEntry)
  BY <1>1 DEF Record
<1> QED
  BY <1>2, NextVersionType, Zenon DEF RetryPatch, Record, Status
(* Each patch keeps DocumentOK, under what its action requires.            *)

LEMMA ReceivedWorkOK ==
  ASSUME NEW kind \in Kind, NEW c \in Commitment
  PROVE  /\ DocumentOK(ReceivedWork(kind, c))
         /\ ReceivedWork(kind, c).kind = kind
         /\ ReceivedWork(kind, c).status = "RECEIVED"
         /\ ReceivedWork(kind, c).stateVersion = 1
         /\ ReceivedWork(kind, c).payloadCommitment = c
  BY DEF ReceivedWork, Absent, DocumentOK, ReportStatus

LEMMA AbsentOK == DocumentOK(Absent)
  BY DEF Absent, DocumentOK, ReportStatus

LEMMA LeasePatchOK ==
  ASSUME NEW r \in Record, DocumentOK(r), NEW actor \in Actor,
         NEW owner \in OwnerOf(actor), clock \in Nat,
         r.status = QueueStatus(actor)
  PROVE  LET p == LeasePatch(r, actor, owner) IN
         /\ DocumentOK(p)
         /\ p.kind = r.kind
         /\ p.payloadCommitment = r.payloadCommitment
         /\ p.status = LeasedStatus(actor)
         /\ p.stateVersion = r.stateVersion + 1
<1>1. NewLease(r, owner) # NULL
  BY NullAssumption, TTLAssumption DEF NewLease, Lease, Record, OwnerOf, Actor
<1>2. CASE actor = "node"
  <2>1. r.status = "RECEIVED" /\ owner \in Node
    BY <1>2 DEF QueueStatus, OwnerOf
  <2> QED
    BY <1>1, <1>2, <2>1 DEF LeasePatch, NewLease, Record, DocumentOK, LeasedStatus, ReportStatus
<1>3. CASE actor = "cranker"
  <2>1. r.status = "VERIFIED" /\ owner \in Cranker
    BY <1>3 DEF QueueStatus, OwnerOf
  <2> QED
    BY <1>1, <1>3, <2>1 DEF LeasePatch, NewLease, Record, DocumentOK, LeasedStatus, ReportStatus,
                            Verification
<1> QED
  BY <1>2, <1>3 DEF Actor

LEMMA RequeuePatchOK ==
  ASSUME NEW r \in Record, DocumentOK(r), NEW actor \in Actor,
         r.status = LeasedStatus(actor)
  PROVE  LET p == RequeuePatch(r, actor) IN
         /\ DocumentOK(p)
         /\ p.kind = r.kind
         /\ p.payloadCommitment = r.payloadCommitment
         /\ p.status = QueueStatus(actor)
         /\ p.stateVersion = r.stateVersion + 1
  BY DEF RequeuePatch, Record, DocumentOK, LeasedStatus, QueueStatus, ReportStatus, Actor, Verification

LEMMA NodePatchOK ==
  ASSUME NEW r \in Record, DocumentOK(r), NEW v \in Verification,
         r.nodeLease # NULL, v.leaseVersion = r.nodeLease.version
  PROVE  LET p == NodePatch(r, v) IN
         /\ DocumentOK(p)
         /\ p.kind = r.kind
         /\ p.payloadCommitment = r.payloadCommitment
         /\ p.status = v.decision
         /\ p.stateVersion = r.stateVersion + 1
  BY NullAssumption DEF NodePatch, Record, DocumentOK, Verification, ReportStatus, Lease

LEMMA CrankerPatchOK ==
  ASSUME NEW r \in Record, DocumentOK(r), NEW status \in ReportStatus,
         NEW result \in Result,
         r.crankerLease # NULL, result.seen = r.stateVersion
  PROVE  LET p == CrankerPatch(r, status, result) IN
         /\ DocumentOK(p)
         /\ p.kind = r.kind
         /\ p.payloadCommitment = r.payloadCommitment
         /\ p.status = status
         /\ p.stateVersion = r.stateVersion + 1
  BY NullAssumption DEF CrankerPatch, Record, DocumentOK, Verification, ReportStatus

LEMMA AuthorizationPatchOK ==
  ASSUME NEW r \in Record, DocumentOK(r), NEW a \in Authorization,
         r.status = "CRANKER_LEASED", r.stateVersion = r.crankerLease.version
  PROVE  LET p == AuthorizationPatch(r, a) IN
         /\ DocumentOK(p)
         /\ p.kind = r.kind
         /\ p.payloadCommitment = r.payloadCommitment
         /\ p.status = r.status
         /\ p.stateVersion = r.stateVersion + 1
  BY NullAssumption DEF AuthorizationPatch, Record, DocumentOK, Verification, ReportStatus

LEMMA RetryPatchOK ==
  ASSUME NEW r \in Record, DocumentOK(r), NEW sig \in Signature,
         r.status = "REJECTED"
  PROVE  LET p == RetryPatch(r, sig) IN
         /\ DocumentOK(p)
         /\ p.kind = r.kind
         /\ p.payloadCommitment = r.payloadCommitment
         /\ p.status = "RECEIVED"
         /\ p.stateVersion = r.stateVersion + 1
         /\ Len(p.retryHistory) = Len(r.retryHistory) + 1
  BY DEF RetryPatch, Record, DocumentOK, ReportStatus
-----------------------------------------------------------------------------
(* The step of one document, and why it keeps the invariant.               *)

(* work' differs from work at w only, where it is a well-formed document   *)
(* of the same kind and commitment that the step may write.                *)
UpdatesOne(w, p) ==
    /\ work' = [work EXCEPT ![w] = p]
    /\ clock' \in Nat
    /\ p \in Record
    /\ DocumentOK(p)
    /\ p.kind = work[w].kind
    /\ p.payloadCommitment = work[w].payloadCommitment
    /\ work[w].status \notin {"ABSENT", "CONFIRMED"}
    /\ w \in Settlements /\ p.status # "RECEIVED" =>
          work[w].status # "RECEIVED" \/ FundingConfirmed(w)

LEMMA SettlementIds ==
  ASSUME NEW w \in Settlements
  PROVE  /\ w \in WorkId
         /\ FundingOf(w) \in Id
         /\ FundingOf(w) \in WorkId
         /\ w \notin Id
  BY IdAssumption DEF Settlements, WorkId, FundingOf

LEMMA UpdateKeepsInv ==
  ASSUME LedgerInv, NEW w \in WorkId, NEW p, UpdatesOne(w, p)
  PROVE  LedgerInv'
<1>1. LedgerTypeOK'
  BY DEF UpdatesOne, LedgerInv, LedgerTypeOK
<1>2. \A v \in WorkId : work'[v] = IF v = w THEN p ELSE work[v]
  BY DEF UpdatesOne, LedgerInv, LedgerTypeOK
<1>3. (\A v \in WorkId : DocumentOK(work[v]))'
  <2>1. ASSUME NEW v \in WorkId PROVE DocumentOK(work'[v])
    BY <1>2 DEF UpdatesOne, LedgerInv
  <2> QED
    BY <2>1 DEF DocumentOK, ReportStatus
<1>4. SettlementFollowsFunding'
  <2> SUFFICES ASSUME NEW s \in Settlements, Exists(s)'
               PROVE  /\ work'[s].kind = "SETTLEMENT"
                      /\ work'[FundingOf(s)].kind = "AUTHORIZED_FUNDING"
                      /\ work'[FundingOf(s)].payloadCommitment = s[2]
                      /\ work'[s].status # "RECEIVED" => FundingConfirmed(s)'
    BY DEF SettlementFollowsFunding, FundingOf
  <2>1. s \in WorkId /\ FundingOf(s) \in WorkId
    BY SettlementIds
  <2>2. Exists(s)
    BY <1>2, <2>1 DEF Exists, UpdatesOne
  <2>3. /\ work[s].kind = "SETTLEMENT"
        /\ work[FundingOf(s)].kind = "AUTHORIZED_FUNDING"
        /\ work[FundingOf(s)].payloadCommitment = s[2]
        /\ work[s].status # "RECEIVED" => FundingConfirmed(s)
    BY <2>2 DEF LedgerInv, SettlementFollowsFunding
  <2>4. /\ work'[s].kind = work[s].kind
        /\ work'[FundingOf(s)].kind = work[FundingOf(s)].kind
        /\ work'[FundingOf(s)].payloadCommitment = work[FundingOf(s)].payloadCommitment
    BY <1>2, <2>1 DEF UpdatesOne
  <2>5. FundingConfirmed(s) => FundingConfirmed(s)'
    <3>1. FundingConfirmed(s) => work'[FundingOf(s)].status = "CONFIRMED"
      BY <1>2, <2>1 DEF UpdatesOne, FundingConfirmed
    <3> QED
      BY <3>1, <2>3, <2>4 DEF FundingConfirmed, FundingOf
  <2>6. work'[s].status # "RECEIVED" => FundingConfirmed(s)
    BY <1>2, <2>1, <2>3 DEF UpdatesOne
  <2> QED
    BY <2>3, <2>4, <2>5, <2>6
<1>5. \A id \in Id : work'[id].kind # "SETTLEMENT"
  BY <1>2 DEF UpdatesOne, LedgerInv, WorkId
<1> QED
  BY <1>1, <1>3, <1>4, <1>5 DEF LedgerInv
LEMMA ReceiveKeepsInv ==
  ASSUME LedgerInv, NEW id \in Id, NEW kind \in ExternalKind, NEW c \in Commitment,
         Receive(id, kind, c)
  PROVE  LedgerInv'
<1> DEFINE s == SettlementId(id, c)
<1>1. /\ s \in Settlements /\ s \in WorkId /\ id \in WorkId /\ s # id
      /\ FundingOf(s) = id /\ s[2] = c
  BY IdAssumption DEF SettlementId, Settlements, WorkId, FundingOf
<1>2. kind \in Kind /\ "SETTLEMENT" \in Kind
  BY DEF Kind
<1>3. \A w \in WorkId :
         \/ work'[w] = work[w]
         \/ w = id /\ ~Exists(w) /\ work'[w] = ReceivedWork(kind, c)
         \/ /\ w = s /\ ~Exists(w) /\ kind = "AUTHORIZED_FUNDING"
            /\ work'[w] = ReceivedWork("SETTLEMENT", c)
  BY DEF Receive
<1>4. LedgerTypeOK'
  <2>1. work' \in [WorkId -> Record]
    <3>1. work' = [w \in WorkId |-> work'[w]]
      BY DEF Receive
    <3>2. \A w \in WorkId : work'[w] \in Record
      BY <1>2, <1>3, ReceivedWorkType DEF LedgerInv, LedgerTypeOK
    <3> QED
      BY <3>1, <3>2
  <2> QED
    BY <2>1 DEF LedgerTypeOK, LedgerInv, Receive
<1>5. (\A w \in WorkId : DocumentOK(work[w]))'
  <2>1. ASSUME NEW w \in WorkId PROVE DocumentOK(work'[w])
    BY <1>2, <1>3, ReceivedWorkOK DEF LedgerInv
  <2> QED
    BY <2>1 DEF DocumentOK, ReportStatus
<1>6. SettlementFollowsFunding'
  <2> SUFFICES ASSUME NEW t \in Settlements, Exists(t)'
               PROVE  /\ work'[t].kind = "SETTLEMENT"
                      /\ work'[FundingOf(t)].kind = "AUTHORIZED_FUNDING"
                      /\ work'[FundingOf(t)].payloadCommitment = t[2]
                      /\ work'[t].status # "RECEIVED" => FundingConfirmed(t)'
    BY DEF SettlementFollowsFunding, FundingOf
  <2>1. t \in WorkId /\ FundingOf(t) \in WorkId /\ t \notin Id
    BY SettlementIds
  <2>2. CASE Exists(t)
    <3>1. /\ work[t].kind = "SETTLEMENT"
          /\ work[FundingOf(t)].kind = "AUTHORIZED_FUNDING"
          /\ work[FundingOf(t)].payloadCommitment = t[2]
          /\ work[t].status # "RECEIVED" => FundingConfirmed(t)
      BY <2>2 DEF LedgerInv, SettlementFollowsFunding
    <3>2. Exists(FundingOf(t))
      BY <2>1, <3>1, NullAssumption DEF Exists, LedgerInv, DocumentOK, Kind, ExternalKind
    <3>3. work'[t] = work[t] /\ work'[FundingOf(t)] = work[FundingOf(t)]
      BY <1>3, <2>1, <2>2, <3>2, SettlementIds
    <3> QED
      BY <3>1, <3>3 DEF FundingConfirmed, FundingOf
  <2>3. CASE ~Exists(t)
    <3>1. t = s /\ kind = "AUTHORIZED_FUNDING" /\ work'[t] = ReceivedWork("SETTLEMENT", c)
      BY <1>3, <2>1, <2>3 DEF Exists
    <3>2. work'[id].kind = kind /\ work'[id].payloadCommitment = c
      BY <1>1, <1>2, <1>3, ReceivedWorkOK DEF Receive
    <3> QED
      BY <1>1, <1>2, <3>1, <3>2, ReceivedWorkOK
  <2> QED
    BY <2>2, <2>3
<1>7. \A i \in Id : work'[i].kind # "SETTLEMENT"
  <2> SUFFICES ASSUME NEW i \in Id PROVE work'[i].kind # "SETTLEMENT"
    OBVIOUS
  <2>1. i \in WorkId /\ i # s
    BY <1>1, SettlementIds DEF WorkId
  <2> QED
    BY <1>2, <1>3, <2>1, ReceivedWorkOK DEF LedgerInv, ExternalKind
<1> QED
  BY <1>4, <1>5, <1>6, <1>7 DEF LedgerInv
LEMMA InitEstablishesInv ==
  ASSUME LedgerInit
  PROVE  LedgerInv
<1>1. \A w \in WorkId : work[w] = Absent
  BY DEF LedgerInit
<1>2. LedgerTypeOK
  BY AbsentType DEF LedgerInit, LedgerTypeOK
<1>3. SettlementFollowsFunding
  <2>1. \A w \in Settlements : ~Exists(w)
    BY <1>1, SettlementIds DEF Exists, Absent
  <2> QED
    BY <2>1 DEF SettlementFollowsFunding
<1>4. \A id \in Id : work[id].kind # "SETTLEMENT"
  BY <1>1, NullAssumption DEF Absent, WorkId, Kind
<1> QED
  BY <1>1, <1>2, <1>3, <1>4, AbsentOK DEF LedgerInv

(* Every action but Receive and Tick rewrites one existing document.       *)

LEMMA RequeueUpdates ==
  ASSUME LedgerInv, NEW actor \in Actor, NEW w \in WorkId, Requeue(actor, w)
  PROVE  UpdatesOne(w, RequeuePatch(work[w], actor))
<1>1. work[w] \in Record /\ DocumentOK(work[w]) /\ work[w].status = LeasedStatus(actor)
  BY DEF LedgerInv, LedgerTypeOK, Requeue
<1>2. work[w].status \notin {"ABSENT", "CONFIRMED", "RECEIVED"}
  BY <1>1 DEF LeasedStatus
<1> QED
  BY <1>1, <1>2, RequeuePatchType, RequeuePatchOK
     DEF UpdatesOne, Requeue, LedgerInv, LedgerTypeOK

LEMMA GrantUpdates ==
  ASSUME LedgerInv, NEW actor \in Actor, NEW w \in WorkId, NEW owner \in OwnerOf(actor),
         Grant(actor, owner, w)
  PROVE  UpdatesOne(w, LeasePatch(work[w], actor, owner))
<1>1. work[w] \in Record /\ DocumentOK(work[w]) /\ work[w].status = QueueStatus(actor)
      /\ clock \in Nat
  BY DEF LedgerInv, LedgerTypeOK, Grant
<1>2. work[w].status \notin {"ABSENT", "CONFIRMED"}
  BY <1>1 DEF QueueStatus
<1>3. w \in Settlements => work[w].kind = "SETTLEMENT"
  BY <1>2 DEF LedgerInv, SettlementFollowsFunding, Exists
<1> QED
  BY <1>1, <1>2, <1>3, LeasePatchType, LeasePatchOK
     DEF UpdatesOne, Grant

LEMMA AttachUpdates ==
  ASSUME LedgerInv, NEW w \in Settlements, Attach(w)
  PROVE  \E a \in Authorization :
            /\ work[w].status = "CRANKER_LEASED"
            /\ work[w].stateVersion = work[w].crankerLease.version
            /\ UpdatesOne(w, AuthorizationPatch(work[w], a))
<1> DEFINE lease == work[w].crankerLease
<1>1. w \in WorkId
  BY SettlementIds
<1>2. work[w] \in Record /\ DocumentOK(work[w]) /\ work[w].status = "CRANKER_LEASED"
      /\ work[w].stateVersion = lease.version /\ clock \in Nat
  BY <1>1 DEF LedgerInv, LedgerTypeOK, Attach
<1>3. lease \in Lease
  BY <1>2 DEF DocumentOK, Record
<1>4. PICK ts \in (clock + 1)..lease.expiresAt :
         work' = [work EXCEPT ![w] = AuthorizationPatch(@,
                    [leaseVersion |-> lease.version,
                     leaseExpiresAt |-> lease.expiresAt, expiresAtTs |-> ts])]
  BY DEF Attach
<1> DEFINE a == [leaseVersion |-> lease.version, leaseExpiresAt |-> lease.expiresAt,
                 expiresAtTs |-> ts]
<1>5. a \in Authorization
  BY <1>2, <1>3, <1>4 DEF Authorization, Lease
<1>6. UpdatesOne(w, AuthorizationPatch(work[w], a))
  BY <1>1, <1>2, <1>4, <1>5, AuthorizationPatchType, AuthorizationPatchOK
     DEF UpdatesOne, Attach, LedgerInv, LedgerTypeOK
<1> QED
  BY <1>2, <1>5, <1>6

LEMMA NodeDecidesUpdates ==
  ASSUME LedgerInv, NEW w \in WorkId, NEW decision \in {"VERIFIED", "REJECTED"},
         NEW retryable \in BOOLEAN, NodeDecides(w, decision, retryable)
  PROVE  \E v \in Verification :
            /\ work[w].nodeLease # NULL
            /\ v.leaseVersion = work[w].nodeLease.version
            /\ UpdatesOne(w, NodePatch(work[w], v))
<1> DEFINE v == [decision |-> decision, retryable |-> retryable,
                 leaseVersion |-> work[w].nodeLease.version]
<1>1. work[w] \in Record /\ DocumentOK(work[w]) /\ work[w].nodeLease # NULL
  BY DEF LedgerInv, LedgerTypeOK, NodeDecides
<1>2. work[w].nodeLease \in Lease /\ work[w].status = "NODE_VERIFYING"
  BY <1>1 DEF DocumentOK, Record
<1>3. v \in Verification
  BY <1>2 DEF Verification, Lease
<1>4. UpdatesOne(w, NodePatch(work[w], v))
  BY <1>1, <1>2, <1>3, NodePatchType, NodePatchOK
     DEF UpdatesOne, NodeDecides, LedgerInv, LedgerTypeOK
<1> QED
  BY <1>1, <1>3, <1>4

LEMMA CrankerReportsUpdates ==
  ASSUME LedgerInv, NEW w \in WorkId, NEW status \in ReportStatus,
         NEW sig \in Signature \cup {NULL}, CrankerReports(w, status, sig)
  PROVE  \E result \in Result :
            /\ work[w].crankerLease # NULL
            /\ result.seen = work[w].stateVersion
            /\ UpdatesOne(w, CrankerPatch(work[w], status, result))
<1> DEFINE result == [signature |-> sig, seen |-> work[w].stateVersion]
<1>1. work[w] \in Record /\ DocumentOK(work[w]) /\ work[w].crankerLease # NULL
  BY DEF LedgerInv, LedgerTypeOK, CrankerReports
<1>2. work[w].status = "CRANKER_LEASED"
  BY <1>1 DEF DocumentOK
<1>3. result \in Result
  BY <1>1 DEF Result, Record
<1>4. UpdatesOne(w, CrankerPatch(work[w], status, result))
  BY <1>1, <1>2, <1>3, CrankerPatchType, CrankerPatchOK
     DEF UpdatesOne, CrankerReports, LedgerInv, LedgerTypeOK
<1> QED
  BY <1>1, <1>3, <1>4

LEMMA RetrySnapshotUpdates ==
  ASSUME LedgerInv, NEW w \in Settlements, RetrySnapshot(w)
  PROVE  \E sig \in Signature :
            /\ work[w].status = "REJECTED"
            /\ UpdatesOne(w, RetryPatch(work[w], sig))
<1> DEFINE sig == work[FundingOf(w)].result.signature
<1>1. w \in WorkId /\ FundingOf(w) \in WorkId
  BY SettlementIds
<1>2. /\ work[w] \in Record /\ DocumentOK(work[w]) /\ work[w].status = "REJECTED"
      /\ work[FundingOf(w)] \in Record
  BY <1>1 DEF LedgerInv, LedgerTypeOK, RetrySnapshot
<1>3. sig \in Signature
  BY <1>2 DEF RetrySnapshot, Record, Result
<1>4. UpdatesOne(w, RetryPatch(work[w], sig))
  BY <1>1, <1>2, <1>3, RetryPatchType, RetryPatchOK
     DEF UpdatesOne, RetrySnapshot, LedgerInv, LedgerTypeOK
<1> QED
  BY <1>2, <1>3, <1>4

LEMMA NextKeepsInv ==
  ASSUME LedgerInv, [LedgerNext]_ledgerVars
  PROVE  LedgerInv'
<1>1. ASSUME NEW id \in Id, NEW kind \in ExternalKind, NEW c \in Commitment,
             Receive(id, kind, c)
      PROVE  LedgerInv'
  BY <1>1, ReceiveKeepsInv
<1>2. ASSUME NEW actor \in Actor, NEW w \in WorkId, Requeue(actor, w)
      PROVE  LedgerInv'
  BY <1>2, RequeueUpdates, UpdateKeepsInv
<1>3. ASSUME NEW actor \in Actor, NEW w \in WorkId, NEW owner \in OwnerOf(actor),
             Grant(actor, owner, w)
      PROVE  LedgerInv'
  BY <1>3, GrantUpdates, UpdateKeepsInv
<1>4. ASSUME NEW w \in Settlements, Attach(w)
      PROVE  LedgerInv'
  BY <1>4, AttachUpdates, UpdateKeepsInv, SettlementIds
<1>5. ASSUME NEW w \in WorkId, NEW decision \in {"VERIFIED", "REJECTED"},
             NEW retryable \in BOOLEAN, NodeDecides(w, decision, retryable)
      PROVE  LedgerInv'
  BY <1>5, NodeDecidesUpdates, UpdateKeepsInv
<1>6. ASSUME NEW w \in WorkId, NEW status \in ReportStatus,
             NEW sig \in Signature \cup {NULL}, CrankerReports(w, status, sig)
      PROVE  LedgerInv'
  BY <1>6, CrankerReportsUpdates, UpdateKeepsInv
<1>7. ASSUME NEW w \in Settlements, RetrySnapshot(w)
      PROVE  LedgerInv'
  BY <1>7, RetrySnapshotUpdates, UpdateKeepsInv, SettlementIds
<1>8. CASE Tick \/ UNCHANGED ledgerVars
  <2>1. work' = work /\ clock' \in Nat
    BY <1>8 DEF Tick, ledgerVars, LedgerInv, LedgerTypeOK
  <2>2. LedgerTypeOK' /\ SettlementFollowsFunding'
    BY <2>1 DEF LedgerInv, LedgerTypeOK, SettlementFollowsFunding, Exists, FundingConfirmed, FundingOf
  <2>3. (\A w \in WorkId : DocumentOK(work[w]))'
    BY <2>1 DEF LedgerInv, DocumentOK, ReportStatus
  <2>4. \A id \in Id : work'[id].kind # "SETTLEMENT"
    BY <2>1 DEF LedgerInv
  <2> QED
    BY <2>2, <2>3, <2>4 DEF LedgerInv
<1> QED
  BY <1>1, <1>2, <1>3, <1>4, <1>5, <1>6, <1>7, <1>8 DEF LedgerNext
-----------------------------------------------------------------------------
(* The invariant implies what the runs check.                              *)

LEMMA InvImplies ==
  ASSUME LedgerInv
  PROVE  /\ LeaseMatchesStatus
         /\ NoExecutionBeforeVerification
         /\ OutcomesAreCurrent
<1>1. \A w \in WorkId : DocumentOK(work[w])
  BY DEF LedgerInv
<1>2. LeaseMatchesStatus
  BY <1>1 DEF DocumentOK, LeaseMatchesStatus, LeaseOf, LeasedStatus, Actor, OwnerOf
<1>3. NoExecutionBeforeVerification
  BY <1>1 DEF DocumentOK, NoExecutionBeforeVerification
<1>4. OutcomesAreCurrent
  BY <1>1 DEF DocumentOK, OutcomesAreCurrent
<1> QED
  BY <1>2, <1>3, <1>4

(* The Receiver's documents stay well-formed.                              *)
THEOREM LedgerTypeCorrect == LedgerSpec => []LedgerTypeOK
<1>1. LedgerInit => LedgerInv
  BY InitEstablishesInv
<1>2. LedgerInv /\ [LedgerNext]_ledgerVars => LedgerInv'
  BY NextKeepsInv
<1>3. LedgerInv => LedgerTypeOK
  BY DEF LedgerInv
<1> QED
  BY <1>1, <1>2, <1>3, PTL DEF LedgerSpec

(* All of the state invariants of the ledger, for every instance: a lease  *)
(* exactly in the leased states, no settlement ahead of its funding, no    *)
(* execution state before verification, outcomes decided on the version    *)
(* they replaced.                                                          *)
THEOREM LedgerSafe ==
  LedgerSpec => [](/\ LeaseMatchesStatus
                   /\ SettlementFollowsFunding
                   /\ NoExecutionBeforeVerification
                   /\ OutcomesAreCurrent)
<1>1. LedgerInit => LedgerInv
  BY InitEstablishesInv
<1>2. LedgerInv /\ [LedgerNext]_ledgerVars => LedgerInv'
  BY NextKeepsInv
<1>3. LedgerInv => /\ LeaseMatchesStatus
                   /\ SettlementFollowsFunding
                   /\ NoExecutionBeforeVerification
                   /\ OutcomesAreCurrent
  BY InvImplies DEF LedgerInv
<1> QED
  BY <1>1, <1>2, <1>3, PTL DEF LedgerSpec

-----------------------------------------------------------------------------
(* The action properties.                                                  *)

(* What a step does to a document that exists: nothing, or one of the      *)
(* store's patches.                                                        *)
LEMMA StepOfDocument ==
  ASSUME LedgerInv, LedgerNext, NEW w \in WorkId, work'[w] # work[w]
  PROVE  \/ ~Exists(w) /\ work'[w].stateVersion = 1
         \/ /\ work'[w].stateVersion = work[w].stateVersion + 1
            /\ work'[w].kind = work[w].kind
            /\ work'[w].status # "ABSENT"
            /\ work[w].status \notin ReportStatus
            /\ work[w].status = "REJECTED" =>
                  /\ w \in Settlements
                  /\ work'[w].status = "RECEIVED"
                  /\ Len(work'[w].retryHistory) = Len(work[w].retryHistory) + 1
<1> DEFINE Goal == \/ ~Exists(w) /\ work'[w].stateVersion = 1
                   \/ /\ work'[w].stateVersion = work[w].stateVersion + 1
                      /\ work'[w].kind = work[w].kind
                      /\ work'[w].status # "ABSENT"
                      /\ work[w].status \notin ReportStatus
                      /\ work[w].status = "REJECTED" =>
                            /\ w \in Settlements
                            /\ work'[w].status = "RECEIVED"
                            /\ Len(work'[w].retryHistory) = Len(work[w].retryHistory) + 1
<1>a. ASSUME NEW v \in WorkId, NEW p, UpdatesOne(v, p)
      PROVE  v = w /\ work'[w] = p
  BY <1>a DEF UpdatesOne, LedgerInv, LedgerTypeOK
<1>b. work[w] \in Record /\ DocumentOK(work[w]) /\ clock \in Nat
  BY DEF LedgerInv, LedgerTypeOK
<1>1. ASSUME NEW id \in Id, NEW kind \in ExternalKind, NEW c \in Commitment,
             Receive(id, kind, c)
      PROVE  Goal
  <2>1. kind \in Kind /\ "SETTLEMENT" \in Kind
    BY DEF Kind
  <2> QED
    BY <1>1, <2>1, ReceivedWorkOK DEF Receive
<1>2. ASSUME NEW actor \in Actor, NEW v \in WorkId, Requeue(actor, v)
      PROVE  Goal
  <2>1. v = w /\ work'[w] = RequeuePatch(work[w], actor)
    BY <1>2, <1>a, RequeueUpdates
  <2>2. work[w].status \in {"NODE_VERIFYING", "CRANKER_LEASED"}
    BY <1>2, <2>1 DEF Requeue, LeasedStatus
  <2> QED
    BY <1>2, <1>b, <2>1, <2>2, RequeuePatchOK DEF Requeue, ReportStatus, QueueStatus
<1>3. ASSUME NEW actor \in Actor, NEW v \in WorkId, NEW owner \in OwnerOf(actor),
             Grant(actor, owner, v)
      PROVE  Goal
  <2>1. v = w /\ work'[w] = LeasePatch(work[w], actor, owner)
    BY <1>3, <1>a, GrantUpdates
  <2>2. work[w].status \in {"RECEIVED", "VERIFIED"}
    BY <1>3, <2>1 DEF Grant, QueueStatus
  <2> QED
    BY <1>3, <1>b, <2>1, <2>2, LeasePatchOK DEF Grant, ReportStatus, LeasedStatus
<1>4. ASSUME NEW v \in Settlements, Attach(v)
      PROVE  Goal
  <2>0. v \in WorkId
    BY SettlementIds
  <2>1. PICK a \in Authorization : /\ work[v].status = "CRANKER_LEASED"
                                   /\ work[v].stateVersion = work[v].crankerLease.version
                                   /\ UpdatesOne(v, AuthorizationPatch(work[v], a))
    BY <1>4, <2>0, AttachUpdates
  <2>2. v = w /\ work'[w] = AuthorizationPatch(work[w], a)
    BY <1>a, <2>0, <2>1
  <2> QED
    BY <1>b, <2>1, <2>2, AuthorizationPatchOK DEF ReportStatus
<1>5. ASSUME NEW v \in WorkId, NEW decision \in {"VERIFIED", "REJECTED"},
             NEW retryable \in BOOLEAN, NodeDecides(v, decision, retryable)
      PROVE  Goal
  <2>1. PICK x \in Verification : /\ work[v].nodeLease # NULL
                                  /\ x.leaseVersion = work[v].nodeLease.version
                                  /\ UpdatesOne(v, NodePatch(work[v], x))
    BY <1>5, NodeDecidesUpdates
  <2>2. v = w /\ work'[w] = NodePatch(work[w], x)
    BY <1>a, <2>1
  <2>3. work[w].status = "NODE_VERIFYING"
    BY <1>b, <2>1, <2>2 DEF DocumentOK
  <2> QED
    BY <1>b, <2>1, <2>2, <2>3, NodePatchOK DEF ReportStatus, Verification
<1>6. ASSUME NEW v \in WorkId, NEW status \in ReportStatus,
             NEW sig \in Signature \cup {NULL}, CrankerReports(v, status, sig)
      PROVE  Goal
  <2>1. PICK x \in Result : /\ work[v].crankerLease # NULL
                            /\ x.seen = work[v].stateVersion
                            /\ UpdatesOne(v, CrankerPatch(work[v], status, x))
    BY <1>6, CrankerReportsUpdates
  <2>2. v = w /\ work'[w] = CrankerPatch(work[w], status, x)
    BY <1>a, <2>1
  <2>3. work[w].status = "CRANKER_LEASED"
    BY <1>b, <2>1, <2>2 DEF DocumentOK
  <2> QED
    BY <1>b, <2>1, <2>2, <2>3, CrankerPatchOK DEF ReportStatus
<1>7. ASSUME NEW v \in Settlements, RetrySnapshot(v)
      PROVE  Goal
  <2>0. v \in WorkId
    BY SettlementIds
  <2>1. PICK sig \in Signature : /\ work[v].status = "REJECTED"
                                 /\ UpdatesOne(v, RetryPatch(work[v], sig))
    BY <1>7, RetrySnapshotUpdates
  <2>2. v = w /\ work'[w] = RetryPatch(work[w], sig)
    BY <1>a, <2>0, <2>1
  <2> QED
    BY <1>7, <1>b, <2>1, <2>2, RetryPatchOK DEF ReportStatus
<1>8. ASSUME Tick PROVE Goal
  BY <1>8 DEF Tick
<1> QED
  BY <1>1, <1>2, <1>3, <1>4, <1>5, <1>6, <1>7, <1>8 DEF LedgerNext
(* Every update of an existing document raises its version by one, so the  *)
(* version is a fencing token for transition and the attach.               *)
THEOREM LedgerVersioned == LedgerSpec => EveryChangeIsVersioned
<1>1. LedgerInit => LedgerInv
  BY InitEstablishesInv
<1>2. LedgerInv /\ [LedgerNext]_ledgerVars => LedgerInv'
  BY NextKeepsInv
<1>3. LedgerInv /\ [LedgerNext]_ledgerVars =>
        [\A w \in WorkId : work'[w] # work[w] =>
            \/ ~Exists(w) /\ work'[w].stateVersion = 1
            \/ work'[w].stateVersion = work[w].stateVersion + 1]_ledgerVars
  BY StepOfDocument
<1> QED
  BY <1>1, <1>2, <1>3, PTL DEF LedgerSpec, EveryChangeIsVersioned

(* A reported outcome is final and a rejection is left only by a retry of  *)
(* a settlement.                                                           *)
THEOREM LedgerFinal == LedgerSpec => OutcomesAreFinal
<1>1. LedgerInit => LedgerInv
  BY InitEstablishesInv
<1>2. LedgerInv /\ [LedgerNext]_ledgerVars => LedgerInv'
  BY NextKeepsInv
<1>3. LedgerInv /\ [LedgerNext]_ledgerVars =>
        [\A w \in WorkId :
            /\ work[w].status \in ReportStatus => work'[w] = work[w]
            /\ work[w].status = "REJECTED" /\ work'[w] # work[w] =>
                  /\ work[w].kind = "SETTLEMENT"
                  /\ work'[w].status = "RECEIVED"
                  /\ Len(work'[w].retryHistory) = Len(work[w].retryHistory) + 1]_ledgerVars
  <2> SUFFICES ASSUME LedgerInv, LedgerNext, NEW w \in WorkId, work'[w] # work[w]
               PROVE  /\ work[w].status \notin ReportStatus
                      /\ work[w].status = "REJECTED" =>
                            /\ work[w].kind = "SETTLEMENT"
                            /\ work'[w].status = "RECEIVED"
                            /\ Len(work'[w].retryHistory) = Len(work[w].retryHistory) + 1
    BY DEF ledgerVars
  <2>1. work[w].status = "REJECTED" /\ w \in Settlements => work[w].kind = "SETTLEMENT"
    BY DEF LedgerInv, SettlementFollowsFunding, Exists
  <2> QED
    BY <2>1, StepOfDocument DEF Exists, ReportStatus
<1> QED
  BY <1>1, <1>2, <1>3, PTL DEF LedgerSpec, OutcomesAreFinal
(* The same, in the form the proofs about ReceiverStore use.               *)
LEMMA StepFacts ==
  ASSUME LedgerInv, [LedgerNext]_ledgerVars, NEW w \in WorkId
  PROVE  /\ work[w].stateVersion \in Nat /\ work'[w].stateVersion \in Nat
         /\ \/ work'[w] = work[w]
            \/ work'[w].stateVersion = work[w].stateVersion + 1
         /\ Exists(w) => work'[w].kind = work[w].kind /\ Exists(w)'
         /\ work[w].status = "CONFIRMED" => work'[w] = work[w]
<1>1. work[w] \in Record /\ work'[w] \in Record /\ DocumentOK(work[w])
  BY NextKeepsInv DEF LedgerInv, LedgerTypeOK
<1>2. CASE work'[w] = work[w]
  BY <1>1, <1>2 DEF Record, Exists
<1>3. CASE work'[w] # work[w]
  <2>1. LedgerNext
    BY <1>3 DEF ledgerVars
  <2>2. ~Exists(w) => work[w].stateVersion = 0
    BY <1>1 DEF DocumentOK, Exists
  <2> QED
    BY <1>1, <1>3, <2>1, <2>2, StepOfDocument DEF Record, Exists, ReportStatus
<1> QED
  BY <1>2, <1>3

LEMMA FundingStaysConfirmed ==
  ASSUME LedgerInv, [LedgerNext]_ledgerVars, NEW w \in Settlements, FundingConfirmed(w)
  PROVE  FundingConfirmed(w)'
<1>1. work'[FundingOf(w)] = work[FundingOf(w)]
  BY SettlementIds, StepFacts DEF FundingConfirmed
<1> QED
  BY <1>1 DEF FundingConfirmed, FundingOf

-----------------------------------------------------------------------------
(* The store that implements it.                                           *)

(* The inductive invariant: what the ledger keeps, what a request relies   *)
(* on between its steps, and that only settlements are offered for retry.  *)
StoreInv ==
    /\ StoreTypeOK
    /\ LedgerInv
    /\ RequestsStayValid
    /\ \A h \in held : h.role = "operator" => h.work \in Settlements

LEMMA IdleType == Idle \in CallState
  BY DEF Idle, CallState, Phase

LEMMA HandedType ==
  ASSUME NEW role \in Actor \cup {"operator"}, NEW owner \in Node \cup Cranker \cup {NULL},
         NEW w \in WorkId, NEW version \in Nat, NEW leaseVersion \in Nat,
         NEW authorization \in Authorization \cup {NULL}
  PROVE  Handed(role, owner, w, version, leaseVersion, authorization) \in Answer
  BY DEF Handed, Answer

-----------------------------------------------------------------------------
(* Each step of the store is a step of the ledger or leaves it alone.      *)

LEMMA RequeueRefines ==
  ASSUME StoreInv, NEW c \in Call, NEW w \in WorkId, RequeueTransaction(c, w)
  PROVE  [LedgerNext]_ledgerVars
<1> DEFINE actor == call[c].actor
<1>1. actor \in Actor
  BY DEF StoreInv, RequestsStayValid, RequestOK, RequeueTransaction
<1>2. CASE UNCHANGED work
  BY <1>2 DEF RequeueTransaction, ledgerVars
<1>3. CASE ~UNCHANGED work
  <2>1. Requeue(actor, w)
    <3>1. work[w].status = LeasedStatus(actor)
      BY <1>3 DEF RequeueTransaction
    <3>2. LeaseOf(work[w], actor) # NULL
      BY <1>1, <3>1 DEF StoreInv, LedgerInv, DocumentOK, LeaseOf, LeasedStatus, Actor
    <3> QED
      BY <1>3, <3>1, <3>2 DEF RequeueTransaction, Requeue
  <2> QED
    BY <1>1, <2>1 DEF LedgerNext
<1> QED
  BY <1>2, <1>3

LEMMA LeaseRefines ==
  ASSUME StoreInv, NEW c \in Call, LeaseTransaction(c)
  PROVE  [LedgerNext]_ledgerVars
<1> DEFINE actor == call[c].actor
           owner == call[c].owner
           w == call[c].pick
<1>1. /\ actor \in Actor /\ owner \in OwnerOf(actor) /\ w \in WorkId
      /\ work[w].kind = "SETTLEMENT" => FundingConfirmed(w)
  BY DEF StoreInv, RequestsStayValid, RequestOK, LeaseTransaction
<1>2. CASE work[w].status # QueueStatus(actor)
  BY <1>2 DEF LeaseTransaction, ledgerVars
<1>3. CASE work[w].status = QueueStatus(actor)
  <2>1. Grant(actor, owner, w)
    BY <1>1, <1>3 DEF LeaseTransaction, Grant
  <2> QED
    BY <1>1, <2>1 DEF LedgerNext
<1> QED
  BY <1>2, <1>3

LEMMA AttachRefines ==
  ASSUME StoreInv, NEW c \in Call, AttachTransaction(c)
  PROVE  [LedgerNext]_ledgerVars
<1> DEFINE w == call[c].pick
           auth == call[c].authorization
           lease == work[w].crankerLease
<1>1. /\ w \in Settlements /\ auth \in Authorization
      /\ call[c].version = work[w].stateVersion
      /\ lease # NULL /\ lease.version = call[c].version
  BY DEF StoreInv, RequestsStayValid, RequestOK, AttachTransaction, MayAttach
<1>2. /\ work[w] \in Record /\ clock \in Nat
  BY <1>1, SettlementIds DEF StoreInv, LedgerInv, LedgerTypeOK
<1>3. lease \in Lease
  BY <1>1, <1>2 DEF Record
<1>4. auth = [leaseVersion |-> lease.version, leaseExpiresAt |-> lease.expiresAt,
              expiresAtTs |-> auth.expiresAtTs]
  BY <1>1 DEF AttachTransaction, MayAttach, Authorization
<1>5. auth.expiresAtTs \in (clock + 1)..lease.expiresAt
  BY <1>1, <1>2, <1>3 DEF AttachTransaction, MayAttach, Authorization, Lease
<1>6. Attach(w)
  <2>1. work' = [work EXCEPT ![w] = AuthorizationPatch(@, auth)]
    BY DEF AttachTransaction
  <2> QED
    BY <1>1, <1>4, <1>5, <2>1 DEF Attach, AttachTransaction, MayAttach
<1> QED
  BY <1>1, <1>6 DEF LedgerNext

LEMMA NodeReportRefines ==
  ASSUME StoreInv, NEW h \in held, NEW decision \in {"VERIFIED", "REJECTED"},
         NEW retryable \in BOOLEAN, NodeReport(h, decision, retryable)
  PROVE  [LedgerNext]_ledgerVars
<1>1. h.work \in WorkId
  BY DEF StoreInv, StoreTypeOK, Answer
<1>2. NodeDecides(h.work, decision, retryable)
  BY DEF NodeReport, NodeDecides, HoldsLease
<1> QED
  BY <1>1, <1>2 DEF LedgerNext

LEMMA CrankerReportRefines ==
  ASSUME StoreInv, NEW h \in held, NEW status \in ReportStatus,
         NEW sig \in Signature \cup {NULL}, CrankerReport(h, status, sig)
  PROVE  [LedgerNext]_ledgerVars
<1>1. h.work \in WorkId
  BY DEF StoreInv, StoreTypeOK, Answer
<1>2. CrankerReports(h.work, status, sig)
  BY DEF CrankerReport, CrankerReports, HoldsLease
<1> QED
  BY <1>1, <1>2 DEF LedgerNext

LEMMA StepRefines ==
  ASSUME StoreInv, [StoreNext]_storeVars
  PROVE  [LedgerNext]_ledgerVars
<1>1. ASSUME NEW id \in Id, NEW kind \in ExternalKind, NEW k \in Commitment,
             Receive(id, kind, k)
      PROVE  [LedgerNext]_ledgerVars
  BY <1>1 DEF LedgerNext
<1>2. ASSUME NEW c \in Call, LeaseStep(c)
      PROVE  [LedgerNext]_ledgerVars
  <2>1. \/ \E w \in WorkId : RequeueTransaction(c, w)
        \/ LeaseTransaction(c)
        \/ AttachTransaction(c)
        \/ UNCHANGED <<work, clock>>
    BY <1>2 DEF LeaseStep, LeaseStart, QueryCandidates, SelectCandidate, NoWork,
                AuthorizeCall, CallFails
  <2> QED
    BY <2>1, RequeueRefines, LeaseRefines, AttachRefines DEF ledgerVars
<1>3. ASSUME NEW h \in held, NEW decision \in {"VERIFIED", "REJECTED"},
             NEW retryable \in BOOLEAN, NodeReport(h, decision, retryable)
      PROVE  [LedgerNext]_ledgerVars
  BY <1>3, NodeReportRefines
<1>4. ASSUME NEW h \in held, NEW status \in ReportStatus, NEW sig \in Signature \cup {NULL},
             CrankerReport(h, status, sig)
      PROVE  [LedgerNext]_ledgerVars
  BY <1>4, CrankerReportRefines
<1>5. ASSUME NEW w \in Settlements, ReadRejected(w)
      PROVE  [LedgerNext]_ledgerVars
  BY <1>5 DEF ReadRejected, ledgerVars
<1>6. ASSUME NEW h \in held, Retry(h)
      PROVE  [LedgerNext]_ledgerVars
  BY <1>6 DEF Retry, StoreInv, LedgerNext
<1>7. CASE Tick
  BY <1>7 DEF LedgerNext
<1>8. CASE UNCHANGED storeVars
  BY <1>8 DEF storeVars, ledgerVars
<1> QED
  BY <1>1, <1>2, <1>3, <1>4, <1>5, <1>6, <1>7, <1>8 DEF StoreNext
-----------------------------------------------------------------------------
(* The steps keep the types of requests and answers.                       *)

LEMMA CallTypeKept ==
  ASSUME StoreInv, NEW c \in Call, LeaseStep(c)
  PROVE  /\ call' \in [Call -> CallState]
         /\ held' \subseteq Answer
         /\ \A h \in held' : h.role = "operator" => h.work \in Settlements
<1>0. /\ call \in [Call -> CallState] /\ held \subseteq Answer
      /\ work \in [WorkId -> Record] /\ clock \in Nat
      /\ call[c] \in CallState
      /\ \A h \in held : h.role = "operator" => h.work \in Settlements
  BY DEF StoreInv, StoreTypeOK, LedgerTypeOK
<1>a. ASSUME NEW s \in CallState, call' = [call EXCEPT ![c] = s]
      PROVE  call' \in [Call -> CallState]
  BY <1>0, <1>a
<1>1. ASSUME NEW actor \in Actor, NEW kinds \in KindFilter, NEW owner \in OwnerOf(actor),
             LeaseStart(c, actor, owner, kinds)
      PROVE  call' \in [Call -> CallState]
  <2>1. PICK docs \in Limited(WithStatus(LeasedStatus(actor))) :
           call' = [call EXCEPT ![c] =
                    [Idle EXCEPT !.phase = "requeue", !.actor = actor,
                       !.owner = owner, !.kinds = kinds,
                       !.stale = {w \in docs :
                                    /\ LeaseOf(work[w], actor) # NULL
                                    /\ ~Unexpired(LeaseOf(work[w], actor))}]]
    BY <1>1 DEF LeaseStart
  <2>2. docs \subseteq WorkId
    BY <2>1 DEF Limited, WithStatus
  <2>3. owner \in Node \cup Cranker \cup {NULL} /\ kinds \in SUBSET Kind
        /\ actor \in Actor \cup {NULL}
    BY KindAssumption DEF OwnerOf
  <2>4. {w \in docs : LeaseOf(work[w], actor) # NULL /\ ~Unexpired(LeaseOf(work[w], actor))}
           \in SUBSET WorkId
    BY <2>2
  <2> DEFINE st == {w \in docs : LeaseOf(work[w], actor) # NULL
                                 /\ ~Unexpired(LeaseOf(work[w], actor))}
  <2> HIDE DEF st
  <2>5. [Idle EXCEPT !.phase = "requeue", !.actor = actor, !.owner = owner,
                     !.kinds = kinds, !.stale = st] \in CallState
    BY <2>3, <2>4, IdleType, Zenon DEF CallState, Phase, st
  <2> QED
    BY <1>a, <2>1, <2>5 DEF st
<1>2. ASSUME NEW w \in WorkId, RequeueTransaction(c, w)
      PROVE  call' \in [Call -> CallState]
  <2>1. call[c].stale \ {w} \in SUBSET WorkId
    BY <1>0 DEF CallState
  <2>2. [call[c] EXCEPT !.stale = call[c].stale \ {w}] \in CallState
    BY <1>0, <2>1, Zenon DEF CallState
  <2>3. call' = [call EXCEPT ![c] = [call[c] EXCEPT !.stale = call[c].stale \ {w}]]
    BY <1>0, <1>2, Zenon DEF RequeueTransaction
  <2> QED
    BY <1>a, <2>2, <2>3
<1>3. ASSUME QueryCandidates(c)
      PROVE  call' \in [Call -> CallState]
  <2>1. PICK docs \in Limited(WithStatus(QueueStatus(call[c].actor))) :
           call' = [call EXCEPT ![c].phase = "select", ![c].candidates = docs]
    BY <1>3 DEF QueryCandidates
  <2>2. docs \in SUBSET WorkId
    BY <2>1 DEF Limited, WithStatus
  <2>3. [call[c] EXCEPT !.phase = "select", !.candidates = docs] \in CallState
    BY <1>0, <2>2, Zenon DEF CallState, Phase
  <2>4. call' = [call EXCEPT ![c] = [call[c] EXCEPT !.phase = "select", !.candidates = docs]]
    BY <1>0, <2>1
  <2> QED
    BY <1>a, <2>3, <2>4
<1>4. ASSUME NEW w \in WorkId, SelectCandidate(c, w)
      PROVE  call' \in [Call -> CallState]
  <2>1. PICK e \in BOOLEAN :
           call' = [call EXCEPT ![c].candidates = @ \ {w},
                                ![c].phase = IF e THEN "commit" ELSE "select",
                                ![c].pick = IF e THEN w ELSE NULL]
    BY <1>4 DEF SelectCandidate
  <2>2. /\ call[c].candidates \ {w} \in SUBSET WorkId
        /\ (IF e THEN "commit" ELSE "select") \in Phase
        /\ (IF e THEN w ELSE NULL) \in WorkId \cup {NULL}
    BY <1>0 DEF CallState, Phase
  <2> DEFINE ph == IF e THEN "commit" ELSE "select"
             pk == IF e THEN w ELSE NULL
             cs == call[c].candidates \ {w}
  <2>3. call' = [call EXCEPT ![c] = [call[c] EXCEPT !.candidates = cs, !.phase = ph, !.pick = pk]]
    BY <1>0, <2>1
  <2> HIDE DEF ph, pk, cs
  <2>4. [call[c] EXCEPT !.candidates = cs, !.phase = ph, !.pick = pk] \in CallState
    BY <1>0, <2>2, Zenon DEF CallState, ph, pk, cs
  <2> QED
    BY <1>a, <2>3, <2>4
<1>5. ASSUME NoWork(c) \/ CallFails(c)
      PROVE  call' \in [Call -> CallState]
  BY <1>a, <1>5, IdleType DEF NoWork, CallFails
<1>6. ASSUME LeaseTransaction(c)
      PROVE  /\ call' \in [Call -> CallState]
             /\ held' \subseteq Answer
             /\ \A h \in held' : h.role = "operator" => h.work \in Settlements
  <2> DEFINE w == call[c].pick
             actor == call[c].actor
             owner == call[c].owner
             version == work[w].stateVersion + 1
  <2>1. actor \in Actor /\ owner \in OwnerOf(actor) /\ w \in WorkId
    BY <1>6 DEF StoreInv, RequestsStayValid, RequestOK, LeaseTransaction
  <2>2. version \in Nat
    BY <1>0, <2>1, NextVersionType
  <2>3. [call[c] EXCEPT !.phase = "authorize", !.version = version] \in CallState
    <3> HIDE DEF version
    <3> QED
      BY <1>0, <2>2, Zenon DEF CallState, Phase
  <2>4. [call[c] EXCEPT !.phase = "select", !.pick = NULL] \in CallState
    BY <1>0, Zenon DEF CallState, Phase
  <2>5. \/ call' = [call EXCEPT ![c] = [call[c] EXCEPT !.phase = "authorize", !.version = version]]
        \/ call' = [call EXCEPT ![c] = [call[c] EXCEPT !.phase = "select", !.pick = NULL]]
        \/ call' = [call EXCEPT ![c] = Idle]
    BY <1>0, <1>6 DEF LeaseTransaction
  <2>6. \/ held' = held
        \/ held' = held \cup {Handed(actor, owner, w, version, version, NULL)}
    BY <1>6 DEF LeaseTransaction
  <2>7. Handed(actor, owner, w, version, version, NULL) \in Answer
    BY <2>1, <2>2, HandedType DEF OwnerOf
  <2>8. Handed(actor, owner, w, version, version, NULL).role # "operator"
    BY <2>1 DEF Handed, Actor
  <2> HIDE DEF w, actor, owner, version
  <2> QED
    BY <1>0, <1>a, <2>3, <2>4, <2>5, <2>6, <2>7, <2>8, IdleType
<1>7. ASSUME AuthorizeCall(c)
      PROVE  call' \in [Call -> CallState]
  <2> DEFINE lease == work[call[c].pick].crankerLease
             auth == [leaseVersion |-> lease.version, leaseExpiresAt |-> lease.expiresAt,
                      expiresAtTs |-> lease.expiresAt]
  <2>1. call[c].pick \in WorkId
    BY <1>7, SettlementIds DEF StoreInv, RequestsStayValid, RequestOK, AuthorizeCall
  <2>2. lease \in Lease
    BY <1>0, <1>7, <2>1 DEF AuthorizeCall, StoreInv, LedgerInv, DocumentOK, Record
  <2>3. auth \in Authorization
    BY <2>2 DEF Authorization, Lease
  <2>4. call' = [call EXCEPT ![c] = [call[c] EXCEPT !.phase = "attach", !.authorization = auth]]
    BY <1>0, <1>7 DEF AuthorizeCall
  <2>5. [call[c] EXCEPT !.phase = "attach", !.authorization = auth] \in CallState
    <3> HIDE DEF auth
    <3> QED
      BY <1>0, <2>3, Zenon DEF CallState, Phase
  <2> QED
    BY <1>a, <2>4, <2>5
<1>8. ASSUME AttachTransaction(c)
      PROVE  /\ call' \in [Call -> CallState]
             /\ held' \subseteq Answer
             /\ \A h \in held' : h.role = "operator" => h.work \in Settlements
  <2> DEFINE w == call[c].pick
             lease == work[w].crankerLease
             a == Handed("cranker", call[c].owner, w, work[w].stateVersion + 1,
                         lease.version, call[c].authorization)
  <2>1. /\ w \in WorkId /\ call[c].owner \in OwnerOf("cranker")
        /\ call[c].authorization \in Authorization /\ lease # NULL
    BY <1>8, SettlementIds
       DEF StoreInv, RequestsStayValid, RequestOK, AttachTransaction, MayAttach
  <2>2. lease.version \in Nat /\ work[w].stateVersion + 1 \in Nat
    BY <1>0, <2>1, NextVersionType DEF Record, Lease
  <2>3. a \in Answer
    BY <2>1, <2>2, HandedType DEF OwnerOf, Actor
  <2>4. a.role # "operator"
    BY DEF Handed
  <2>5. held' = held \cup {a} /\ call' = [call EXCEPT ![c] = Idle]
    BY <1>8 DEF AttachTransaction
  <2> HIDE DEF a
  <2> QED
    BY <1>0, <1>a, <2>3, <2>4, <2>5, IdleType
<1>9. \/ LeaseTransaction(c) \/ AttachTransaction(c) \/ UNCHANGED held
  BY DEF LeaseStep, LeaseStart, RequeueTransaction, QueryCandidates, SelectCandidate,
         NoWork, AuthorizeCall, CallFails
<1>10. call' \in [Call -> CallState]
  BY <1>1, <1>2, <1>3, <1>4, <1>5, <1>6, <1>7, <1>8 DEF LeaseStep
<1> QED
  BY <1>0, <1>6, <1>8, <1>9, <1>10
-----------------------------------------------------------------------------
(* What a request relies on is kept by the steps of the others ...         *)

LEMMA RequestStable ==
  ASSUME StoreInv, [LedgerNext]_ledgerVars, NEW c \in Call, call'[c] = call[c]
  PROVE  RequestOK(c)'
<1> DEFINE w == call[c].pick
<1>0. RequestOK(c) /\ LedgerInv
  BY DEF StoreInv, RequestsStayValid
<1>1. call[c].phase = "commit" =>
         /\ w \in WorkId
         /\ Exists(w)'
         /\ work'[w].kind = "SETTLEMENT" => FundingConfirmed(w)'
  <2> SUFFICES ASSUME call[c].phase = "commit"
               PROVE  /\ w \in WorkId
                      /\ Exists(w)'
                      /\ work'[w].kind = "SETTLEMENT" => FundingConfirmed(w)'
    OBVIOUS
  <2>1. w \in WorkId /\ Exists(w) /\ (work[w].kind = "SETTLEMENT" => FundingConfirmed(w))
    BY <1>0 DEF RequestOK
  <2>2. Exists(w)' /\ work'[w].kind = work[w].kind
    BY <1>0, <2>1, StepFacts
  <2>3. work[w].kind = "SETTLEMENT" => w \in Settlements
    BY <1>0, <2>1 DEF LedgerInv, WorkId
  <2>4. work[w].kind = "SETTLEMENT" => FundingConfirmed(w)'
    BY <1>0, <2>1, <2>3, FundingStaysConfirmed
  <2> QED
    BY <2>1, <2>2, <2>4
<1>2. call[c].phase \in {"authorize", "attach"} =>
         /\ w \in Settlements
         /\ call[c].actor = "cranker"
         /\ call[c].version <= work'[w].stateVersion
         /\ call[c].version = work'[w].stateVersion =>
               /\ work'[w].crankerLease # NULL
               /\ work'[w].crankerLease.version = call[c].version
  <2> SUFFICES ASSUME call[c].phase \in {"authorize", "attach"}
               PROVE  /\ w \in Settlements
                      /\ call[c].actor = "cranker"
                      /\ call[c].version <= work'[w].stateVersion
                      /\ call[c].version = work'[w].stateVersion =>
                            /\ work'[w].crankerLease # NULL
                            /\ work'[w].crankerLease.version = call[c].version
    OBVIOUS
  <2>1. /\ w \in Settlements /\ w \in WorkId
        /\ call[c].actor = "cranker"
        /\ call[c].version <= work[w].stateVersion
        /\ call[c].version = work[w].stateVersion =>
              /\ work[w].crankerLease # NULL
              /\ work[w].crankerLease.version = call[c].version
    BY <1>0, SettlementIds DEF RequestOK
  <2>2. call[c].version \in Nat
    BY DEF StoreInv, StoreTypeOK, CallState
  <2> QED
    BY <1>0, <2>1, <2>2, StepFacts
<1> QED
  BY <1>0, <1>1, <1>2 DEF RequestOK, Exists, FundingConfirmed, FundingOf

(* ... and by its own.                                                     *)

LEMMA RequestAdvances ==
  ASSUME StoreInv, NEW c \in Call, LeaseStep(c)
  PROVE  RequestOK(c)'
<1>0. /\ call \in [Call -> CallState] /\ call[c] \in CallState
      /\ RequestOK(c) /\ LedgerInv
      /\ work \in [WorkId -> Record] /\ clock \in Nat
  BY DEF StoreInv, StoreTypeOK, LedgerTypeOK, RequestsStayValid
<1>1. ASSUME call'[c].phase = "idle"
      PROVE  RequestOK(c)'
  BY <1>1 DEF RequestOK
<1>2. ASSUME NEW actor \in Actor, NEW kinds \in KindFilter, NEW owner \in OwnerOf(actor),
             LeaseStart(c, actor, owner, kinds)
      PROVE  RequestOK(c)'
  <2>1. call'[c].phase = "requeue" /\ call'[c].actor = actor /\ call'[c].owner = owner
    BY <1>0, <1>2 DEF LeaseStart, Idle
  <2> QED
    BY <2>1 DEF RequestOK
<1>3. ASSUME \/ \E w \in WorkId : RequeueTransaction(c, w)
             \/ QueryCandidates(c)
      PROVE  RequestOK(c)'
  <2>1. /\ call'[c].phase \in {"requeue", "select"} /\ call[c].phase = "requeue"
        /\ call'[c].actor = call[c].actor /\ call'[c].owner = call[c].owner
    BY <1>0, <1>3 DEF RequeueTransaction, QueryCandidates, CallState
  <2> QED
    BY <1>0, <2>1 DEF RequestOK
<1>4. ASSUME NEW w \in WorkId, SelectCandidate(c, w)
      PROVE  RequestOK(c)'
  <2>1. /\ call[c].phase = "select"
        /\ call'[c].actor = call[c].actor /\ call'[c].owner = call[c].owner
        /\ \/ call'[c].phase = "select"
           \/ /\ call'[c].phase = "commit" /\ call'[c].pick = w
              /\ work[w].kind \in call[c].kinds
              /\ work[w].kind = "SETTLEMENT" => FundingConfirmed(w)
        /\ work' = work
    BY <1>0, <1>4 DEF SelectCandidate, CallState
  <2>2. work[w].kind \in call[c].kinds => Exists(w)
    BY <1>0, NullAssumption DEF LedgerInv, DocumentOK, Exists, CallState
  <2> QED
    BY <1>0, <2>1, <2>2 DEF RequestOK, Exists, FundingConfirmed, FundingOf
<1>5. ASSUME LeaseTransaction(c)
      PROVE  RequestOK(c)'
  <2> DEFINE w == call[c].pick
             actor == call[c].actor
             owner == call[c].owner
  <2>1. /\ actor \in Actor /\ owner \in OwnerOf(actor) /\ w \in WorkId
        /\ call[c].phase = "commit"
    BY <1>0, <1>5 DEF RequestOK, LeaseTransaction
  <2>2. CASE call'[c].phase # "authorize"
    <3>1. /\ call'[c].phase \in {"idle", "select"}
          /\ call'[c].phase = "select" => call'[c].actor = actor /\ call'[c].owner = owner
      BY <1>0, <1>5, <2>2 DEF LeaseTransaction, CallState, Idle
    <3> QED
      BY <2>1, <3>1 DEF RequestOK
  <2>3. CASE call'[c].phase = "authorize"
    <3>1. /\ actor = "cranker" /\ work[w].kind = "SETTLEMENT"
          /\ work' = [work EXCEPT ![w] = LeasePatch(@, actor, owner)]
          /\ call'[c].actor = actor /\ call'[c].owner = owner /\ call'[c].pick = w
          /\ call'[c].version = work[w].stateVersion + 1
      BY <1>0, <1>5, <2>3 DEF LeaseTransaction, CallState, Idle
    <3>2. w \in Settlements
      BY <1>0, <2>1, <3>1 DEF LedgerInv, WorkId
    <3>3. work[w] \in Record /\ NewLease(work[w], owner) # NULL
      BY <1>0, <2>1, NullAssumption, TTLAssumption
         DEF NewLease, Lease, Record, OwnerOf, Actor
    <3>4. /\ work'[w].stateVersion = work[w].stateVersion + 1
          /\ work'[w].crankerLease = NewLease(work[w], owner)
      BY <1>0, <2>1, <3>1, <3>3 DEF LeasePatch, Record
    <3>5. NewLease(work[w], owner).version = work[w].stateVersion + 1
      BY DEF NewLease
    <3>6. work[w].stateVersion + 1 <= work[w].stateVersion + 1
      BY <3>3 DEF Record
    <3> QED
      BY <2>1, <2>3, <3>1, <3>2, <3>3, <3>4, <3>5, <3>6 DEF RequestOK
  <2> QED
    BY <2>2, <2>3
<1>6. ASSUME AuthorizeCall(c)
      PROVE  RequestOK(c)'
  <2> DEFINE lease == work[call[c].pick].crankerLease
             auth == [leaseVersion |-> lease.version, leaseExpiresAt |-> lease.expiresAt,
                      expiresAtTs |-> lease.expiresAt]
  <2>1. call[c].pick \in WorkId
    BY <1>0, <1>6, SettlementIds DEF RequestOK, AuthorizeCall
  <2>2. lease \in Lease
    BY <1>0, <1>6, <2>1 DEF AuthorizeCall, LedgerInv, DocumentOK, Record
  <2>3. auth \in Authorization
    BY <2>2 DEF Authorization, Lease
  <2>4. /\ call[c].phase = "authorize" /\ call'[c].phase = "attach"
        /\ call'[c].authorization = auth
        /\ call'[c].actor = call[c].actor /\ call'[c].owner = call[c].owner
        /\ call'[c].pick = call[c].pick /\ call'[c].version = call[c].version
        /\ work' = work
    BY <1>0, <1>6 DEF AuthorizeCall, CallState
  <2> QED
    BY <1>0, <2>3, <2>4 DEF RequestOK
<1>7. ASSUME NoWork(c) \/ CallFails(c) \/ AttachTransaction(c)
      PROVE  RequestOK(c)'
  BY <1>0, <1>1, <1>7 DEF NoWork, CallFails, AttachTransaction, Idle
<1> QED
  BY <1>2, <1>3, <1>4, <1>5, <1>6, <1>7 DEF LeaseStep

-----------------------------------------------------------------------------
(* The invariant is inductive.                                             *)

(* Before the first request the store holds nothing.                       *)
LEMMA StoreInitInv ==
  ASSUME StoreInit
  PROVE  StoreInv
<1>1. LedgerInv
  BY InitEstablishesInv DEF StoreInit
<1>2. LedgerTypeOK
  BY <1>1 DEF LedgerInv
<1>3. call \in [Call -> CallState] /\ held = {} /\ \A c \in Call : call[c] = Idle
  BY IdleType DEF StoreInit
<1>4. RequestsStayValid
  BY <1>3 DEF RequestsStayValid, RequestOK, Idle
<1> QED
  BY <1>1, <1>2, <1>3, <1>4 DEF StoreInv, StoreTypeOK

(* A step of one request leaves the others where they are.                 *)
LEMMA OthersWait ==
  ASSUME StoreInv, NEW c \in Call, LeaseStep(c), NEW d \in Call, d # c
  PROVE  call'[d] = call[d]
<1>1. call \in [Call -> CallState]
  BY DEF StoreInv, StoreTypeOK
<1> QED
  BY <1>1 DEF LeaseStep, LeaseStart, RequeueTransaction, QueryCandidates, SelectCandidate,
              NoWork, LeaseTransaction, AuthorizeCall, AttachTransaction, CallFails

(* Every step of the store keeps StoreInv.                                 *)
LEMMA StoreNextInv ==
  ASSUME StoreInv, [StoreNext]_storeVars
  PROVE  StoreInv'
<1>0. [LedgerNext]_ledgerVars /\ LedgerInv'
  BY StepRefines, NextKeepsInv DEF StoreInv
<1>1. LedgerTypeOK'
  BY <1>0 DEF LedgerInv
<1>2. ASSUME NEW c \in Call, LeaseStep(c)
      PROVE  StoreInv'
  <2>1. \A d \in Call : RequestOK(d)'
    BY <1>0, <1>2, OthersWait, RequestStable, RequestAdvances
  <2>2. RequestsStayValid'
    BY <2>1 DEF RequestsStayValid
  <2> QED
    BY <1>0, <1>1, <1>2, <2>2, CallTypeKept DEF StoreInv, StoreTypeOK
<1>3. ASSUME UNCHANGED call, held' \subseteq Answer,
             \A h \in held' : h.role = "operator" => h.work \in Settlements
      PROVE  StoreInv'
  <2>1. \A d \in Call : RequestOK(d)'
    BY <1>0, <1>3, RequestStable
  <2>2. RequestsStayValid'
    BY <2>1 DEF RequestsStayValid
  <2> QED
    BY <1>0, <1>1, <1>3, <2>2 DEF StoreInv, StoreTypeOK
<1>4. ASSUME UNCHANGED <<call, held>>
      PROVE  StoreInv'
  BY <1>3, <1>4 DEF StoreInv, StoreTypeOK
<1>5. ASSUME NEW w \in Settlements, ReadRejected(w)
      PROVE  StoreInv'
  <2>1. w \in WorkId /\ work[w] \in Record
    BY SettlementIds DEF StoreInv, StoreTypeOK, LedgerTypeOK
  <2>2. Handed("operator", NULL, w, work[w].stateVersion, 0, NULL) \in Answer
    BY <2>1, HandedType DEF Record
  <2>3. held' \subseteq Answer
    BY <1>5, <2>2 DEF ReadRejected, StoreInv, StoreTypeOK
  <2>4. \A h \in held' : h.role = "operator" => h.work \in Settlements
    BY <1>5 DEF ReadRejected, StoreInv, Handed
  <2> QED
    BY <1>3, <1>5, <2>3, <2>4 DEF ReadRejected
<1>6. CASE StoreNext
  <2>1. \/ UNCHANGED <<call, held>>
        \/ \E c \in Call : LeaseStep(c)
        \/ \E w \in Settlements : ReadRejected(w)
    BY <1>6 DEF StoreNext, NodeReport, CrankerReport, Retry
  <2> QED
    BY <1>2, <1>4, <1>5, <2>1
<1>7. CASE UNCHANGED storeVars
  BY <1>4, <1>7 DEF storeVars
<1> QED
  BY <1>6, <1>7

(* The Receiver as its handlers run implements the ledger: for any number  *)
(* of concurrent requests and any query limit, with requests that die      *)
(* between transactions and answers used late or twice, the documents go   *)
(* through steps of the atomic ledger only.                                *)
THEOREM StoreImplementsLedger == StoreSpec => LedgerSpec
<1>1. StoreInit => StoreInv
  BY StoreInitInv
<1>2. StoreInv /\ [StoreNext]_storeVars => StoreInv'
  BY StoreNextInv
<1>3. StoreInv /\ [StoreNext]_storeVars => [LedgerNext]_ledgerVars
  BY StepRefines
<1>4. StoreInit => LedgerInit
  BY DEF StoreInit
<1> QED
  BY <1>1, <1>2, <1>3, <1>4, PTL DEF StoreSpec, LedgerSpec

(* A request is entitled to its next transaction although it re-reads only *)
(* the status there: the funding it read stays confirmed, and the lease it *)
(* was granted is the current one while the version is.                    *)
THEOREM StoreRequestsValid == StoreSpec => [](StoreTypeOK /\ RequestsStayValid)
<1>1. StoreInit => StoreInv
  BY StoreInitInv
<1>2. StoreInv /\ [StoreNext]_storeVars => StoreInv'
  BY StoreNextInv
<1>3. StoreInv => StoreTypeOK /\ RequestsStayValid
  BY DEF StoreInv
<1> QED
  BY <1>1, <1>2, <1>3, PTL DEF StoreSpec

-----------------------------------------------------------------------------
(* The answers.                                                            *)

(* What HandedAuthorizationIsOwn says of one answer; its document exists,  *)
(* so its kind will not change any more.                                   *)
AnswerOK(h) ==
    /\ Exists(h.work)
    /\ h.role = "cranker" /\ work[h.work].kind = "SETTLEMENT" =>
          /\ h.authorization # NULL
          /\ h.authorization.leaseVersion = h.leaseVersion
          /\ h.version = h.leaseVersion + 1

AnswersOK == \A h \in held : AnswerOK(h)

(* An answer stays right while its document moves on.                      *)
LEMMA AnswerStays ==
  ASSUME StoreInv, [StoreNext]_storeVars, NEW h \in held, AnswerOK(h)
  PROVE  AnswerOK(h)'
<1>1. h.work \in WorkId
  BY DEF StoreInv, StoreTypeOK, Answer
<1>2. work'[h.work].kind = work[h.work].kind /\ Exists(h.work)'
  BY <1>1, StepRefines, StepFacts DEF StoreInv, AnswerOK
<1> QED
  BY <1>2 DEF AnswerOK

(* The answer of lease() itself goes to a Node, or to a Cranker for work   *)
(* that is not a settlement.                                               *)
LEMMA LeaseAnswer ==
  ASSUME StoreInv, [StoreNext]_storeVars, NEW c \in Call, LeaseTransaction(c)
  PROVE  \A h \in held' : h \in held \/ AnswerOK(h)'
<1>1. PICK w \in WorkId : w = call[c].pick /\ Exists(w)
  BY DEF StoreInv, RequestsStayValid, RequestOK, LeaseTransaction
<1> DEFINE actor == call[c].actor
           owner == call[c].owner
           version == work[w].stateVersion + 1
           new == Handed(actor, owner, w, version, version, NULL)
<1>2. work'[w].kind = work[w].kind /\ Exists(w)'
  BY <1>1, StepRefines, StepFacts DEF StoreInv
<1>3. \/ held' = held
      \/ held' = held \cup {new} /\ ~(actor = "cranker" /\ work[w].kind = "SETTLEMENT")
  BY <1>1 DEF LeaseTransaction
<1>4. new.work = w /\ new.role = actor
  BY DEF Handed
<1> HIDE DEF new
<1> QED
  BY <1>2, <1>3, <1>4 DEF AnswerOK, Exists

(* The answer of the cranker/work route carries the authorization of the   *)
(* lease that attachCrankerAuthorization found current.                    *)
LEMMA AttachAnswer ==
  ASSUME StoreInv, [StoreNext]_storeVars, NEW c \in Call, AttachTransaction(c)
  PROVE  \A h \in held' : h \in held \/ AnswerOK(h)'
<1>0. PICK w \in Settlements : w = call[c].pick
  BY DEF StoreInv, RequestsStayValid, RequestOK, AttachTransaction
<1> DEFINE auth == call[c].authorization
           lease == work[w].crankerLease
           new == Handed("cranker", call[c].owner, w, work[w].stateVersion + 1, lease.version, auth)
<1>1. /\ auth \in Authorization
      /\ call[c].version = work[w].stateVersion => lease.version = call[c].version
  BY <1>0 DEF StoreInv, RequestsStayValid, RequestOK, AttachTransaction
<1>2. /\ work[w].status = "CRANKER_LEASED" /\ auth.leaseVersion = lease.version
      /\ work[w].stateVersion = call[c].version
  BY <1>0 DEF AttachTransaction, MayAttach
<1>3. w \in WorkId /\ Exists(w)
  BY <1>1, <1>2, SettlementIds DEF Exists
<1>4. Exists(w)'
  BY <1>3, StepRefines, StepFacts DEF StoreInv
<1>5. held' = held \cup {new}
  BY <1>0 DEF AttachTransaction
<1>6. /\ new.work = w /\ new.authorization = auth /\ new.leaseVersion = lease.version
      /\ new.version = lease.version + 1
  BY <1>1, <1>2 DEF Handed
<1>7. auth # NULL
  BY <1>1, NullAssumption
<1> HIDE DEF new
<1> QED
  BY <1>2, <1>4, <1>5, <1>6, <1>7 DEF AnswerOK, Exists

(* Every step adds only such answers.                                      *)
LEMMA AnswersStep ==
  ASSUME StoreInv, AnswersOK, [StoreNext]_storeVars
  PROVE  AnswersOK'
<1>1. \A h \in held : AnswerOK(h)'
  BY AnswerStays DEF AnswersOK
<1>2. ASSUME NEW c \in Call, LeaseStep(c)
      PROVE  \A h \in held' : h \in held \/ AnswerOK(h)'
  <2>1. LeaseTransaction(c) \/ AttachTransaction(c) \/ held' = held
    BY <1>2 DEF LeaseStep, LeaseStart, RequeueTransaction, QueryCandidates, SelectCandidate,
                NoWork, AuthorizeCall, CallFails
  <2> QED
    BY <2>1, LeaseAnswer, AttachAnswer
<1>3. ASSUME NEW w \in Settlements, ReadRejected(w)
      PROVE  \A h \in held' : h \in held \/ AnswerOK(h)'
  <2> DEFINE new == Handed("operator", NULL, w, work[w].stateVersion, 0, NULL)
  <2>1. held' = held \cup {new} /\ work' = work /\ Exists(w)
    BY <1>3 DEF ReadRejected, Exists
  <2>2. new.work = w /\ new.role = "operator"
    BY DEF Handed
  <2> HIDE DEF new
  <2> QED
    BY <2>1, <2>2 DEF AnswerOK, Exists
<1>4. \/ UNCHANGED held
      \/ \E c \in Call : LeaseStep(c)
      \/ \E w \in Settlements : ReadRejected(w)
  BY DEF StoreNext, NodeReport, CrankerReport, Retry, storeVars
<1> QED
  BY <1>1, <1>2, <1>3, <1>4 DEF AnswersOK

(* A Cranker is handed a settlement only with the authorization of the     *)
(* very lease it was granted, for any number of requests that interleave,  *)
(* die or are answered late (cranker/work POST,                            *)
(* attachCrankerAuthorization).                                            *)
THEOREM HandedAuthorizationIsAlwaysOwn == StoreSpec => []HandedAuthorizationIsOwn
<1>1. StoreInit => StoreInv /\ AnswersOK
  BY StoreInitInv DEF StoreInit, AnswersOK
<1>2. StoreInv /\ AnswersOK /\ [StoreNext]_storeVars => StoreInv' /\ AnswersOK'
  BY StoreNextInv, AnswersStep
<1>3. AnswersOK => HandedAuthorizationIsOwn
  BY DEF AnswersOK, AnswerOK, HandedAuthorizationIsOwn
<1> QED
  BY <1>1, <1>2, <1>3, PTL DEF StoreSpec
=============================================================================
