------------------------- MODULE SettlementPipeline -------------------------
(***************************************************************************)
(* A wallet-to-TIN payment from submission to credit: the Receiver's       *)
(* records, the Node's verification worker (services/tsn-node/server.py),  *)
(* the Cranker daemon (services/tsn-cranker-op-daemon/scripts/cranker.ts)  *)
(* and the two transactions on Solana.                                     *)
(*                                                                         *)
(* A payment is a funding work, whose owner-signed deposit a Cranker       *)
(* submits unchanged, and a settlement work, for which the Node proves a   *)
(* credit on top of TCAP's current shared root; the root moves with every  *)
(* credit, so a proof is good for one root.                                *)
(*                                                                         *)
(* Abstractions.  The Receiver's operations are atomic and a work has a    *)
(* lease holder instead of a version: WorkLedger and ReceiverStore deal    *)
(* with those.  A worker is sequential, so it holds at most one job and a  *)
(* lease with its name is the one it was last given.  The shared root is   *)
(* the sequence of the payments credited: the order and the nullifiers,    *)
(* without the blinding.  Payments are well formed; everything else that   *)
(* can go wrong is a fault, and a bound limits their number.               *)
(***************************************************************************)
EXTENDS Naturals, Sequences, FiniteSets

CONSTANTS
    Payment,     \* the payments clients submit
    Cranker,     \* Cranker operators
    NULL,
    FaultKind,   \* the kinds of fault that may happen, see AllFaults
    MaxFaults,   \* bound: faults that happen in one behaviour
    MaxFailures  \* failures in a row after which the Node sleeps (6)

VARIABLES
    doc,         \* doc[w]: the Receiver's record of work w
    node,        \* the Node's worker: where it is, and its job
    wake,        \* the Node's wake event
    nonces,      \* payments whose authorization nonce is consumed
    snapshots,   \* the roots, TCAP's and TIP's, the Node has a witness of
    cranker,     \* cranker[c]: where the daemon is, and its job
    deposit,     \* deposit[p]: the owner-signed deposit transaction
    flight,      \* credits sent and not yet decided, with the sender
    root,        \* TCAP's shared root
    tip,         \* TIP's route root: how often it has moved
    window,      \* the slot window: how many have passed
    faults       \* faults so far

vars == <<doc, node, wake, nonces, snapshots, cranker, deposit, flight, root, tip,
          window, faults>>
receiverVars == <<doc, wake>>
nodeVars == <<node, nonces, snapshots>>
chainVars == <<deposit, flight, root, tip, window>>

(* A lost wake; a request, or only its answer, lost on the way to the      *)
(* Receiver; a restart; an RPC error; a lease that expires under a slow    *)
(* worker; what makes a proof useless; the witness directory lost.         *)
AllFaults == {"wake", "nodeRequest", "nodeAnswer", "nodeCrash", "nodeRpc",
              "crankerRequest", "crankerAnswer", "crankerCrash", "crankerRpc",
              "slow", "tip", "window", "snapshot"}
ASSUME FaultAssumption == FaultKind \subseteq AllFaults
ASSUME NameAssumption == "node" \notin Cranker
ASSUME CountAssumption == MaxFaults \in Nat /\ MaxFailures \in Nat \ {0}

Fault(kind) ==
    /\ kind \in FaultKind
    /\ faults < MaxFaults
    /\ faults' = faults + 1

-----------------------------------------------------------------------------
(* The Receiver.                                                           *)

Work == Payment \X {"FUNDING", "SETTLEMENT"}
FundingOf(w) == <<w[1], "FUNDING">>
IsSettlement(w) == w[2] = "SETTLEMENT"

Root == Seq(Payment)
Transition == [payment : Payment, prev : Root, tip : Nat, window : Nat]
Optional(S) == S \cup {NULL}

(* owner and live are the lease; transition is the verified payload of a   *)
(* settlement; retryable says the reason of a rejection is repairable.     *)
Absent == [status |-> "ABSENT", owner |-> NULL, live |-> FALSE,
           transition |-> NULL, retryable |-> FALSE]
Document ==
    [status : {"ABSENT", "RECEIVED", "NODE_VERIFYING", "VERIFIED", "REJECTED",
               "CRANKER_LEASED", "CONFIRMED", "FAILED"},
     owner : Cranker \cup {"node", NULL}, live : BOOLEAN,
     transition : Optional(Transition), retryable : BOOLEAN]

Holds(w, owner) == doc[w].owner = owner /\ doc[w].live

(* Mutant: an expired lease is left as it is.                              *)
RequeuedNever(leased, queue) == doc

(* lease(): first every expired lease of the actor goes back to its queue. *)
Requeued(leased, queue) ==
    [w \in Work |-> IF doc[w].status = leased /\ ~doc[w].live
                    THEN [doc[w] EXCEPT !.status = queue, !.owner = NULL]
                    ELSE doc[w]]

(* lease(): work an actor may be given; a settlement waits for its funding *)
Eligible(docs, queue) ==
    {w \in Work : /\ docs[w].status = queue
                  /\ IsSettlement(w) => docs[FundingOf(w)].status = "CONFIRMED"}

Leased(docs, w, status, owner) ==
    [docs EXCEPT ![w].status = status, ![w].owner = owner, ![w].live = TRUE]

(* transition(): the report ends the lease.                                *)
Finished(w, status) ==
    [doc EXCEPT ![w].status = status, ![w].owner = NULL, ![w].live = FALSE]

(* wakeTsnNode: the hint may be lost, and nothing sends it again.          *)
WakeNode ==
    \/ wake' = TRUE /\ UNCHANGED faults
    \/ Fault("wake") /\ UNCHANGED wake

(* receive(): the funding and its settlement are created together.         *)
Receive(p) ==
    /\ doc[<<p, "FUNDING">>].status = "ABSENT"
    /\ doc' = [doc EXCEPT ![<<p, "FUNDING">>].status = "RECEIVED",
                          ![<<p, "SETTLEMENT">>].status = "RECEIVED"]
    /\ WakeNode
    /\ UNCHANGED <<nodeVars, cranker, chainVars>>

(* Sixty seconds pass: for a lease nobody works under, as they will, or    *)
(* while its holder is at work.                                            *)
AtWork(w) == node.work = w \/ \E c \in Cranker : cranker[c].work = w

LeaseExpires(w) ==
    /\ doc[w].live
    /\ IF AtWork(w) THEN Fault("slow") ELSE UNCHANGED faults
    /\ doc' = [doc EXCEPT ![w].live = FALSE]
    /\ UNCHANGED <<nodeVars, wake, cranker, chainVars>>

(* retrySettlementSnapshot, for a rejection whose reason is repairable.    *)
RetrySnapshot(p) ==
    LET w == <<p, "SETTLEMENT">> IN
    /\ doc[w].status = "REJECTED" /\ doc[w].retryable
    /\ doc[FundingOf(w)].status = "CONFIRMED"
    /\ doc' = [doc EXCEPT ![w].status = "RECEIVED", ![w].retryable = FALSE]
    /\ WakeNode
    /\ UNCHANGED <<nodeVars, cranker, chainVars>>

-----------------------------------------------------------------------------
(* The Node's worker, receiver_verification_worker.                        *)

NodePC == {"asleep", "drain", "verify", "prove", "report"}
NodeState ==
    [pc : NodePC, work : Optional(Work), transition : Optional(Transition),
     decision : {"VERIFIED", "REJECTED"}, retryable : BOOLEAN, failures : Nat]

Asleep == [pc |-> "asleep", work |-> NULL, transition |-> NULL,
           decision |-> "REJECTED", retryable |-> FALSE, failures |-> 0]

Drain(failures) == [Asleep EXCEPT !.pc = "drain", !.failures = failures]

(* One more failure: try again after a delay, or go back to sleep.         *)
NodeBackoff ==
    node' = IF node.failures + 1 >= MaxFailures THEN Asleep ELSE Drain(node.failures + 1)

NodeWakes ==
    /\ node.pc = "asleep" /\ wake
    /\ wake' = FALSE
    /\ node' = Drain(0)
    /\ UNCHANGED <<doc, nonces, snapshots, cranker, chainVars, faults>>

(* The request for work is answered, or lost, or answered to nobody.       *)
NodeLeases(w) ==
    LET docs == Requeued("NODE_VERIFYING", "RECEIVED") IN
    /\ node.pc = "drain"
    /\ w \in Eligible(docs, "RECEIVED")
    /\ doc' = Leased(docs, w, "NODE_VERIFYING", "node")
    /\ \/ /\ node' = [node EXCEPT !.pc = "verify", !.work = w]
          /\ UNCHANGED faults
       \/ Fault("nodeAnswer") /\ NodeBackoff
    /\ UNCHANGED <<wake, nonces, snapshots, cranker, chainVars>>

NodeRequestFails ==
    /\ node.pc = "drain"
    /\ Fault("nodeRequest") /\ NodeBackoff
    /\ UNCHANGED <<receiverVars, nonces, snapshots, cranker, chainVars>>

NodeDrained ==
    LET docs == Requeued("NODE_VERIFYING", "RECEIVED") IN
    /\ node.pc = "drain"
    /\ Eligible(docs, "RECEIVED") = {}
    /\ doc' = docs
    /\ node' = Asleep
    /\ UNCHANGED <<wake, nonces, snapshots, cranker, chainVars, faults>>

Decide(decision, retryable) ==
    node' = [node EXCEPT !.pc = "report", !.decision = decision, !.retryable = retryable]

(* The three questions about a payment's own deposit: whether its nonce is *)
(* new, whether it would succeed now, whether it did.                      *)
NonceUnused(p) == p \notin nonces
DepositSimulates(p) == deposit[p] = "signed"
DepositConfirmed(p) == deposit[p] = "landed"

(* _verify_receiver_work, funding: the nonce is consumed on the way to the *)
(* decision, and the deposit is simulated after that.                      *)
VerifyFunding ==
    LET p == node.work[1]
        valid == NonceUnused(p) /\ DepositSimulates(p)
    IN
    /\ node.pc = "verify" /\ ~IsSettlement(node.work)
    /\ \/ /\ nonces' = nonces \cup {p}
          /\ Decide(IF valid THEN "VERIFIED" ELSE "REJECTED", FALSE)
          /\ UNCHANGED faults
       \/ /\ Fault("nodeRpc")
          /\ nonces' \in {nonces, nonces \cup {p}}
          /\ Decide("REJECTED", FALSE)
    /\ UNCHANGED <<receiverVars, snapshots, cranker, chainVars>>

Credited == {root[i] : i \in DOMAIN root}
Witnessed == root \in snapshots.tcap /\ tip \in snapshots.tip

(* _construct_verified_tcap_transition, first half: the deposit is looked  *)
(* up on chain, the roots are read and their snapshots opened; a nullifier *)
(* that was used is in the snapshot.  The code reads the route, the root,  *)
(* the proof accounts and the slot one after the other; the witness is     *)
(* looked up by the root and the TIP that were read, so reads of different *)
(* moments end like a witness that is missing.                             *)
ReadRoots ==
    LET p == node.work[1]
        payable == Witnessed /\ DepositConfirmed(p) /\ p \notin Credited
    IN
    /\ node.pc = "verify" /\ IsSettlement(node.work)
    /\ \/ /\ payable
          /\ node' = [node EXCEPT !.pc = "prove",
                 !.transition = [payment |-> p, prev |-> root, tip |-> tip, window |-> window]]
          /\ UNCHANGED faults
       \/ ~payable /\ Decide("REJECTED", ~Witnessed) /\ UNCHANGED faults
       \/ Fault("nodeRpc") /\ Decide("REJECTED", FALSE)
    /\ UNCHANGED <<receiverVars, nonces, snapshots, cranker, chainVars>>

(* What the Node and the programs test about a proof: it is for the roots  *)
(* of now, in its slot window.                                             *)
Executable(t) == t.prev = root /\ t.tip = tip /\ t.window = window

Successor(t) == Append(t.prev, t.payment)

(* Mutant: the candidate is not saved.                                     *)
ProveCreditUnsaved ==
    /\ node.pc = "prove"
    /\ Decide(IF Executable(node.transition) THEN "VERIFIED" ELSE "REJECTED", FALSE)
    /\ UNCHANGED <<receiverVars, nonces, snapshots, cranker, chainVars, faults>>

(* Second half, after the proof: nothing may have moved.  The snapshot of  *)
(* the root the credit would produce is kept as a candidate.               *)
ProveCredit ==
    /\ node.pc = "prove"
    /\ \/ /\ Executable(node.transition)
          /\ Decide("VERIFIED", FALSE)
          /\ snapshots' = [snapshots EXCEPT !.tcap = @ \cup {Successor(node.transition)}]
          /\ UNCHANGED faults
       \/ /\ ~Executable(node.transition)
          /\ Decide("REJECTED", FALSE)
          /\ UNCHANGED <<snapshots, faults>>
       \/ Fault("nodeRpc") /\ Decide("REJECTED", FALSE) /\ UNCHANGED snapshots
    /\ UNCHANGED <<receiverVars, nonces, cranker, chainVars>>

(* The decision is applied if the lease is still held.  The document keeps *)
(* the transition of a verified settlement.                                *)
NodeDecision ==
    LET w == node.work IN
    [Finished(w, node.decision) EXCEPT
        ![w].retryable = node.retryable,
        ![w].transition = IF node.decision = "VERIFIED" THEN node.transition ELSE NULL]

NodeReports ==
    /\ node.pc = "report"
    /\ \/ /\ Holds(node.work, "node")
          /\ doc' = NodeDecision
          /\ \/ node' = Drain(0) /\ UNCHANGED faults
             \/ Fault("nodeAnswer") /\ NodeBackoff
       \/ /\ ~Holds(node.work, "node")
          /\ NodeBackoff
          /\ UNCHANGED <<doc, faults>>
       \/ Fault("nodeRequest") /\ NodeBackoff /\ UNCHANGED doc
    /\ UNCHANGED <<wake, nonces, snapshots, cranker, chainVars>>

(* The process restarts: lifespan sets the wake event once.                *)
NodeRestarts ==
    /\ Fault("nodeCrash")
    /\ node' = Asleep
    /\ wake' = TRUE
    /\ UNCHANGED <<doc, nonces, snapshots, cranker, chainVars>>

(* An operator provides the witnesses of the roots that are on chain, or   *)
(* the Node's directory is lost.                                           *)
ProvideSnapshots ==
    /\ ~Witnessed
    /\ snapshots' = [tcap |-> snapshots.tcap \cup {root}, tip |-> snapshots.tip \cup {tip}]
    /\ UNCHANGED <<receiverVars, node, nonces, cranker, chainVars, faults>>

LoseSnapshots ==
    /\ Fault("snapshot")
    /\ snapshots' = [tcap |-> {}, tip |-> {}]
    /\ UNCHANGED <<receiverVars, node, nonces, cranker, chainVars>>

-----------------------------------------------------------------------------
(* The Cranker daemon: main and the work it does for a job.                *)

CrankerPC == {"idle", "submit", "confirm", "authorize", "check", "sign", "confirmCredit",
              "report", "fail"}
CrankerState == [pc : CrankerPC, work : Optional(Work), transition : Optional(Transition)]

Idle == [pc |-> "idle", work |-> NULL, transition |-> NULL]

Goto(c, pc) == cranker' = [cranker EXCEPT ![c].pc = pc]

(* lease(): a settlement is authorized before the Cranker sees it.         *)
CrankerLeases(c, w) ==
    LET docs == Requeued("CRANKER_LEASED", "VERIFIED") IN
    /\ cranker[c].pc = "idle"
    /\ w \in Eligible(docs, "VERIFIED")
    /\ doc' = Leased(docs, w, "CRANKER_LEASED", c)
    /\ \/ /\ cranker' = [cranker EXCEPT ![c] =
                  [Idle EXCEPT !.pc = IF IsSettlement(w) THEN "authorize" ELSE "submit",
                               !.work = w]]
          /\ UNCHANGED faults
       \/ Fault("crankerAnswer") /\ UNCHANGED cranker
    /\ UNCHANGED <<nodeVars, wake, chainVars>>

(* A poll that finds nothing still requeues expired leases.                *)
CrankerPolls(c) ==
    LET docs == Requeued("CRANKER_LEASED", "VERIFIED") IN
    /\ cranker[c].pc = "idle"
    /\ Eligible(docs, "VERIFIED") = {}
    /\ doc' = docs
    /\ UNCHANGED <<nodeVars, wake, cranker, chainVars, faults>>

(* processAuthorizedFunding: the owner's transaction is sent unchanged.    *)
(* If it was processed before, only its status is left to be confirmed,    *)
(* unless its blockhash is too old for the RPC to say so.                  *)
SubmitDeposit(c) ==
    LET p == cranker[c].work[1] IN
    /\ cranker[c].pc = "submit"
    /\ \/ /\ deposit[p] # "expired"
          /\ deposit' = [deposit EXCEPT ![p] = IF @ = "signed" THEN "sent" ELSE @]
          /\ \/ Goto(c, "confirm") /\ UNCHANGED faults
             \/ Fault("crankerRpc") /\ Goto(c, "fail")
       \/ /\ deposit[p] \in {"expired", "landed"}
          /\ Goto(c, "fail")
          /\ UNCHANGED <<deposit, faults>>
       \/ Fault("crankerRpc") /\ Goto(c, "fail") /\ UNCHANGED deposit
    /\ UNCHANGED <<receiverVars, nodeVars, flight, root, tip, window>>

(* Mutant: an unknown status is taken for a confirmation.                  *)
ConfirmDepositUnknown(c) ==
    /\ cranker[c].pc = "confirm"
    /\ Goto(c, "report")
    /\ UNCHANGED <<receiverVars, nodeVars, chainVars, faults>>

(* confirmSignatureViaRpc: poll until it is on chain, or give up while it  *)
(* may still get there.                                                    *)
ConfirmDeposit(c) ==
    LET p == cranker[c].work[1] IN
    /\ cranker[c].pc = "confirm"
    /\ \/ deposit[p] = "landed" /\ Goto(c, "report") /\ UNCHANGED faults
       \/ deposit[p] # "landed" /\ Goto(c, "fail") /\ UNCHANGED faults
       \/ Fault("crankerRpc") /\ Goto(c, "fail")
    /\ UNCHANGED <<receiverVars, nodeVars, chainVars>>

(* What the Node asks before it authorizes or signs a transition for the   *)
(* Cranker: the lease is its own and alive, and nothing has moved.         *)
LeaseIsCurrent(w, c) == doc[w].status = "CRANKER_LEASED" /\ Holds(w, c)
Authorized(w, c, t) == LeaseIsCurrent(w, c) /\ Executable(t)

(* cranker/work POST: the Node authorizes the stored transition for this   *)
(* lease, or the request fails and the lease is left to expire.            *)
Authorize(c) ==
    LET w == cranker[c].work IN
    /\ cranker[c].pc = "authorize"
    /\ \/ /\ Authorized(w, c, doc[w].transition)
          /\ cranker' = [cranker EXCEPT ![c].pc = "check",
                                        ![c].transition = doc[w].transition]
          /\ UNCHANGED faults
       \/ /\ ~Authorized(w, c, doc[w].transition)
          /\ cranker' = [cranker EXCEPT ![c] = Idle]
          /\ UNCHANGED faults
       \/ Fault("crankerRequest") /\ cranker' = [cranker EXCEPT ![c] = Idle]
    /\ UNCHANGED <<receiverVars, nodeVars, chainVars>>

(* processSettlement: the root before the transaction.                     *)
CheckRoot(c) ==
    /\ cranker[c].pc = "check"
    /\ \/ /\ Goto(c, IF cranker[c].transition.prev = root THEN "sign" ELSE "fail")
          /\ UNCHANGED faults
       \/ Fault("crankerRpc") /\ Goto(c, "fail")
    /\ UNCHANGED <<receiverVars, nodeVars, chainVars>>

(* sign_settlement_transaction: the Node co-signs after the same tests.    *)
CoSigned(c) == Authorized(cranker[c].work, c, cranker[c].transition)

(* sendMotherNodeCoSignedInstruction: the co-signed transaction is sent.   *)
SignCredit(c) ==
    /\ cranker[c].pc = "sign"
    /\ \/ /\ CoSigned(c)
          /\ flight' = flight \cup {<<c, cranker[c].transition>>}
          /\ \/ Goto(c, "confirmCredit") /\ UNCHANGED faults
             \/ Fault("crankerRpc") /\ Goto(c, "fail")
       \/ ~CoSigned(c) /\ Goto(c, "fail") /\ UNCHANGED <<flight, faults>>
       \/ Fault("crankerRequest") /\ Goto(c, "fail") /\ UNCHANGED flight
    /\ UNCHANGED <<receiverVars, nodeVars, deposit, root, tip, window>>

(* The confirmation, and the root after the transaction: it must be the    *)
(* one this credit produced and no later one.                              *)
ConfirmCredit(c) ==
    /\ cranker[c].pc = "confirmCredit"
    /\ \/ /\ Goto(c, IF root = Successor(cranker[c].transition) THEN "report" ELSE "fail")
          /\ UNCHANGED faults
       \/ Fault("crankerRpc") /\ Goto(c, "fail")
    /\ UNCHANGED <<receiverVars, nodeVars, chainVars>>

(* The job after a report: a report of CONFIRMED that was not answered is  *)
(* followed by one of FAILED, which is given up whatever happens to it.    *)
Unanswered(c) ==
    cranker' = [cranker EXCEPT ![c] = IF @.pc = "report" THEN [@ EXCEPT !.pc = "fail"] ELSE Idle]

(* Mutant: a confirmed funding wakes nobody.                               *)
CrankerReportsNoWake(c) ==
    LET w == cranker[c].work IN
    /\ cranker[c].pc \in {"report", "fail"}
    /\ \/ /\ Holds(w, c)
          /\ doc' = Finished(w, IF cranker[c].pc = "report" THEN "CONFIRMED" ELSE "FAILED")
          /\ cranker' = [cranker EXCEPT ![c] = Idle]
       \/ ~Holds(w, c) /\ Unanswered(c) /\ UNCHANGED doc
    /\ UNCHANGED <<wake, nodeVars, chainVars, faults>>

(* report(): CONFIRMED, or FAILED after any error on the way.              *)
CrankerReports(c) ==
    LET w == cranker[c].work
        status == IF cranker[c].pc = "report" THEN "CONFIRMED" ELSE "FAILED"
        funded == status = "CONFIRMED" /\ ~IsSettlement(w)
    IN
    /\ cranker[c].pc \in {"report", "fail"}
    /\ \/ /\ Holds(w, c)
          /\ doc' = Finished(w, status)
          /\ \/ /\ cranker' = [cranker EXCEPT ![c] = Idle]
                /\ IF funded THEN WakeNode ELSE UNCHANGED <<wake, faults>>
             \/ /\ Fault("crankerAnswer")
                /\ Unanswered(c)
                /\ wake' = (wake \/ funded)
       \/ ~Holds(w, c) /\ Unanswered(c) /\ UNCHANGED <<receiverVars, faults>>
       \/ Fault("crankerRequest") /\ Unanswered(c) /\ UNCHANGED receiverVars
    /\ UNCHANGED <<nodeVars, chainVars>>

CrankerCrashes(c) ==
    /\ cranker[c].pc # "idle"
    /\ Fault("crankerCrash")
    /\ cranker' = [cranker EXCEPT ![c] = Idle]
    /\ UNCHANGED <<receiverVars, nodeVars, chainVars>>

-----------------------------------------------------------------------------
(* The chain.                                                              *)

(* A sent deposit is processed, or dropped by the network, or its          *)
(* blockhash expires; one the owner signed may expire before it is sent.   *)
DepositBecomes(p, state) ==
    /\ deposit' = [deposit EXCEPT ![p] = state]
    /\ UNCHANGED <<receiverVars, nodeVars, cranker, flight, root, tip, window, faults>>

DepositLands(p) == deposit[p] = "sent" /\ DepositBecomes(p, "landed")
DepositDropped(p) == deposit[p] = "sent" /\ DepositBecomes(p, "signed")
DepositExpires(p) == deposit[p] \in {"signed", "sent"} /\ DepositBecomes(p, "expired")

(* Mutant: the programs do not compare the previous root.                  *)
CreditLandsAnyRoot(tx) ==
    /\ tx[2].tip = tip /\ tx[2].window = window
    /\ root' = Append(root, tx[2].payment)
    /\ flight' = flight \ {tx}
    /\ UNCHANGED <<receiverVars, nodeVars, cranker, deposit, tip, window, faults>>

(* register_tcap_credit_authorization_v2, credit_gpru_memo_v1 and GPRU's   *)
(* verification, as one transaction: it succeeds on the root it was proved *)
(* for and moves it on, or it has no effect.                               *)
CreditLands(tx) ==
    /\ Executable(tx[2])
    /\ root' = Append(root, tx[2].payment)
    /\ flight' = flight \ {tx}
    /\ UNCHANGED <<receiverVars, nodeVars, cranker, deposit, tip, window, faults>>

CreditDropped(tx) ==
    /\ flight' = flight \ {tx}
    /\ UNCHANGED <<receiverVars, nodeVars, cranker, deposit, root, tip, window, faults>>

(* Another identity is registered, so TIP's route root moves; or the slots *)
(* pass in which the proofs of now are good.                               *)
TipMoves ==
    /\ Fault("tip")
    /\ tip' = tip + 1
    /\ UNCHANGED <<receiverVars, nodeVars, cranker, deposit, flight, root, window>>

WindowPasses ==
    /\ Fault("window")
    /\ window' = window + 1
    /\ UNCHANGED <<receiverVars, nodeVars, cranker, deposit, flight, root, tip>>

-----------------------------------------------------------------------------
Init ==
    /\ doc = [w \in Work |-> Absent]
    /\ node = Asleep /\ wake = TRUE
    /\ nonces = {}
    /\ snapshots = [tcap |-> {<<>>}, tip |-> {0}]
    /\ cranker = [c \in Cranker |-> Idle]
    /\ deposit = [p \in Payment |-> "signed"]
    /\ flight = {} /\ root = <<>> /\ tip = 0 /\ window = 0
    /\ faults = 0

NodeWorks ==
    \/ NodeWakes \/ NodeDrained \/ VerifyFunding \/ ReadRoots \/ ProveCredit \/ NodeReports
    \/ \E w \in Work : NodeLeases(w)

CrankerWorks(c) ==
    \/ SubmitDeposit(c) \/ ConfirmDeposit(c) \/ Authorize(c) \/ CheckRoot(c)
    \/ SignCredit(c) \/ ConfirmCredit(c) \/ CrankerReports(c)

Next ==
    \/ \E p \in Payment : Receive(p) \/ RetrySnapshot(p)
    \/ \E w \in Work : LeaseExpires(w)
    \/ NodeWorks
    \/ NodeRequestFails \/ NodeRestarts \/ ProvideSnapshots \/ LoseSnapshots
    \/ \E c \in Cranker :
          \/ CrankerWorks(c) \/ CrankerPolls(c) \/ CrankerCrashes(c)
          \/ \E w \in Work : CrankerLeases(c, w)
    \/ \E p \in Payment : DepositLands(p) \/ DepositDropped(p) \/ DepositExpires(p)
    \/ \E tx \in flight : CreditLands(tx) \/ CreditDropped(tx)
    \/ TipMoves \/ WindowPasses

Spec == Init /\ [][Next]_vars

(* The Node's loop and each daemon's loop go on; a lease nobody works      *)
(* under expires and is noticed by the next poll.  A daemon polls every    *)
(* two seconds and a lease lasts sixty, so work that is free again and     *)
(* again between leases of other work is leased: strong fairness.          *)
Fairness ==
    /\ WF_vars(NodeWorks)
    /\ \A w \in Work : WF_vars(~AtWork(w) /\ LeaseExpires(w))
    /\ \A c \in Cranker :
          /\ WF_vars(CrankerWorks(c))
          /\ \A w \in Work : SF_vars(CrankerLeases(c, w))

FairSpec == Spec /\ Fairness

-----------------------------------------------------------------------------
(* The Receiver's records, the workers and the chain have their types, and *)
(* no more faults happen than the bound allows.                            *)
PipelineTypeOK ==
    /\ doc \in [Work -> Document]
    /\ node \in NodeState /\ wake \in BOOLEAN
    /\ nonces \subseteq Payment
    /\ snapshots \in [tcap : SUBSET Root, tip : SUBSET Nat]
    /\ cranker \in [Cranker -> CrankerState]
    /\ deposit \in [Payment -> {"signed", "sent", "landed", "expired"}]
    /\ flight \subseteq Cranker \X Transition
    /\ root \in Root /\ tip \in Nat /\ window \in Nat
    /\ faults \in 0..MaxFaults

(* What the Receiver calls CONFIRMED happened on chain, whatever the       *)
(* Cranker that reported it went through: lost leases, lost answers, work  *)
(* done twice (processAuthorizedFunding, processSettlement, transition).   *)
ConfirmedIsTrue ==
    \A p \in Payment :
        /\ doc[<<p, "FUNDING">>].status = "CONFIRMED" => deposit[p] = "landed"
        /\ doc[<<p, "SETTLEMENT">>].status = "CONFIRMED" => p \in Credited

(* The payment moves money as PaymentMoney says: into the reserve at most  *)
(* once, to the recipient at most once and only after that, and the root   *)
(* never drops a credit (credit_gpru_memo_v1, deposit_asset_v2).           *)
Money == INSTANCE PaymentMoney
    WITH deposited <- {p \in Payment : deposit[p] = "landed"}, ledger <- root
MovesMoneyOnce == Money!MoneySpec

(* An accepted funding gets an outcome although Crankers crash and their   *)
(* RPC and their requests fail (store.ts lease, cranker.ts main).          *)
FundingFinishes ==
    \A p \in Payment :
        doc[<<p, "FUNDING">>].status = "RECEIVED"
            ~> doc[<<p, "FUNDING">>].status \in {"CONFIRMED", "FAILED", "REJECTED"}

(* The settlement of a confirmed funding gets an outcome, unless its proof *)
(* goes stale because another credit moves the root first (store.ts        *)
(* transition wakes the Node, lease requeues, processSettlement).          *)
ConfirmedFundingSettles ==
    \A p \in Payment : LET w == <<p, "SETTLEMENT">> IN
        doc[<<p, "FUNDING">>].status = "CONFIRMED"
            ~> \/ doc[w].status \in {"CONFIRMED", "FAILED", "REJECTED"}
               \/ doc[w].transition # NULL /\ doc[w].transition.prev # root

(* store.ts:190-192 says that requeueing leases prevents an authorization  *)
(* failure from stranding settlement work for ever.                        *)
SettlementsAreNotStranded ==
    \A p \in Payment : LET w == <<p, "SETTLEMENT">> IN
        doc[w].status = "VERIFIED" ~> doc[w].status \in {"CONFIRMED", "FAILED", "REJECTED"}

(* The Node always has the witness of the shared root on chain: the        *)
(* candidate is saved before anybody can execute the credit                *)
(* (hidden_head_witness.py save_candidate).  Losing the directory is the   *)
(* one exception.                                                          *)
RootHasWitness == "snapshot" \in FaultKind \/ root \in snapshots.tcap
=============================================================================
