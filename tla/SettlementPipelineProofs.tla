---------------------- MODULE SettlementPipelineProofs ----------------------
(***************************************************************************)
(* Proofs about SettlementPipeline, for every set of payments and          *)
(* Crankers, every set of faults and every bound.                          *)
(***************************************************************************)
EXTENDS SettlementPipeline, TLAPS

(* A transition that may be executed: its payment's deposit is in the      *)
(* reserve and not credited by the root it builds on; and, unless the      *)
(* directory may be lost, the Node has the witness of the root it makes.   *)
Payments(s) == {s[i] : i \in DOMAIN s}
Backed(t) == deposit[t.payment] = "landed" /\ t.payment \notin Payments(t.prev)
Recorded(t) == "snapshot" \in FaultKind \/ Successor(t) \in snapshots.tcap
Sound(t, w) == t \in Transition /\ t.payment = w[1] /\ Backed(t) /\ Recorded(t)

(* Every record of a verified transition, from the Node's worker to the    *)
(* chain, holds a sound one, and a daemon about to report success has seen *)
(* what it reports.                                                        *)
DocumentsSound ==
    \A w \in Work :
        IsSettlement(w) /\ doc[w].status \in {"VERIFIED", "CRANKER_LEASED"}
            => Sound(doc[w].transition, w)

NodeSound ==
    /\ node.pc \in {"verify", "prove", "report"} => node.work \in Work
    /\ node.pc = "prove" =>
          /\ IsSettlement(node.work)
          /\ node.transition \in Transition
          /\ node.transition.payment = node.work[1]
          /\ Backed(node.transition)
    /\ node.pc = "report" /\ node.decision = "VERIFIED" /\ IsSettlement(node.work) =>
          Sound(node.transition, node.work)

Seen(w) == IF IsSettlement(w) THEN w[1] \in Credited ELSE deposit[w[1]] = "landed"

JobSound(j) ==
    /\ j.pc # "idle" => j.work \in Work
    /\ j.pc \in {"submit", "confirm"} => ~IsSettlement(j.work)
    /\ j.pc \in {"authorize", "check", "sign", "confirmCredit"} => IsSettlement(j.work)
    /\ j.pc \in {"check", "sign", "confirmCredit"} => Sound(j.transition, j.work)
    /\ j.pc = "report" => Seen(j.work)
CrankersSound == \A c \in Cranker : JobSound(cranker[c])

FlightSound == \A tx \in flight : Backed(tx[2]) /\ Recorded(tx[2])

PipelineInv ==
    /\ PipelineTypeOK
    /\ DocumentsSound /\ NodeSound /\ CrankersSound /\ FlightSound
    /\ ConfirmedIsTrue /\ RootHasWitness

-----------------------------------------------------------------------------
(* Types.                                                                  *)

LEMMA AbsentType == Absent \in Document
  BY DEF Absent, Document, Optional

LEMMA AsleepType == Asleep \in NodeState
  BY DEF Asleep, NodeState, NodePC, Optional

LEMMA DrainType ==
  ASSUME NEW n \in Nat
  PROVE  Drain(n) \in NodeState
  BY DEF Drain, Asleep, NodeState, NodePC, Optional

LEMMA IdleType == Idle \in CrankerState
  BY DEF Idle, CrankerState, CrankerPC, Optional

LEMMA RequeuedType ==
  ASSUME doc \in [Work -> Document], NEW leased,
         NEW queue \in {"RECEIVED", "VERIFIED"}
  PROVE  Requeued(leased, queue) \in [Work -> Document]
<1> SUFFICES ASSUME NEW w \in Work
             PROVE  [doc[w] EXCEPT !.status = queue, !.owner = NULL] \in Document
  BY DEF Requeued
<1> QED
  BY DEF Document

LEMMA LeasedType ==
  ASSUME NEW docs \in [Work -> Document], NEW w \in Work,
         NEW status \in {"NODE_VERIFYING", "CRANKER_LEASED"},
         NEW owner \in Cranker \cup {"node"}
  PROVE  Leased(docs, w, status, owner) \in [Work -> Document]
<1>1. [docs[w] EXCEPT !.status = status, !.owner = owner, !.live = TRUE] \in Document
  BY DEF Document
<1> QED
  BY <1>1 DEF Leased

LEMMA FinishedType ==
  ASSUME doc \in [Work -> Document], NEW w \in Work,
         NEW status \in {"VERIFIED", "REJECTED", "CONFIRMED", "FAILED"}
  PROVE  Finished(w, status) \in [Work -> Document]
<1>1. [doc[w] EXCEPT !.status = status, !.owner = NULL, !.live = FALSE] \in Document
  BY DEF Document
<1> QED
  BY <1>1 DEF Finished

LEMMA DecisionType ==
  ASSUME NEW r \in Document, NEW b \in BOOLEAN, NEW t \in Optional(Transition)
  PROVE  [r EXCEPT !.retryable = b, !.transition = t] \in Document
  BY Zenon DEF Document

LEMMA BackoffType ==
  ASSUME node \in NodeState, NodeBackoff
  PROVE  node' \in NodeState
<1>1. node.failures + 1 \in Nat
  BY DEF NodeState
<1> QED
  BY <1>1, AsleepType, DrainType DEF NodeBackoff

LEMMA DecideType ==
  ASSUME node \in NodeState, NEW d \in {"VERIFIED", "REJECTED"}, NEW r \in BOOLEAN,
         Decide(d, r)
  PROVE  node' \in NodeState
  BY DEF Decide, NodeState, NodePC

LEMMA GotoType ==
  ASSUME cranker \in [Cranker -> CrankerState], NEW c \in Cranker,
         NEW pc \in CrankerPC, Goto(c, pc)
  PROVE  cranker' \in [Cranker -> CrankerState]
<1>1. [cranker[c] EXCEPT !.pc = pc] \in CrankerState
  BY DEF CrankerState
<1> QED
  BY <1>1 DEF Goto

LEMMA UnansweredType ==
  ASSUME cranker \in [Cranker -> CrankerState], NEW c \in Cranker, Unanswered(c)
  PROVE  cranker' \in [Cranker -> CrankerState]
<1>1. [cranker[c] EXCEPT !.pc = "fail"] \in CrankerState
  BY DEF CrankerState, CrankerPC
<1> QED
  BY <1>1, IdleType DEF Unanswered

LEMMA FaultType ==
  ASSUME faults \in 0..MaxFaults, NEW kind, Fault(kind)
  PROVE  faults' \in 0..MaxFaults /\ kind \in FaultKind
  BY CountAssumption DEF Fault

LEMMA WakeType ==
  ASSUME faults \in 0..MaxFaults, wake \in BOOLEAN, WakeNode
  PROVE  faults' \in 0..MaxFaults /\ wake' \in BOOLEAN
  BY FaultType DEF WakeNode

LEMMA WorkParts ==
  ASSUME NEW w \in Work
  PROVE  /\ w[1] \in Payment /\ w[2] \in {"FUNDING", "SETTLEMENT"}
         /\ w = <<w[1], w[2]>>
         /\ FundingOf(w) \in Work
  BY DEF Work, FundingOf

(* What the Receiver's operations make of the documents.                   *)
LEMMA ReceiverType ==
  ASSUME PipelineTypeOK, NEW p \in Payment, NEW w \in Work,
         Receive(p) \/ RetrySnapshot(p) \/ LeaseExpires(w)
  PROVE  PipelineTypeOK'
<1>1. <<p, "FUNDING">> \in Work /\ <<p, "SETTLEMENT">> \in Work
  BY DEF Work
<1>2. CASE Receive(p)
  <2>1. \A v \in Work : [doc[v] EXCEPT !.status = "RECEIVED"] \in Document
    BY DEF PipelineTypeOK, Document
  <2>2. doc' \in [Work -> Document]
    BY <1>1, <1>2, <2>1 DEF Receive, PipelineTypeOK
  <2> QED
    BY <1>2, <2>2, WakeType DEF Receive, PipelineTypeOK, nodeVars, chainVars
<1>3. CASE RetrySnapshot(p)
  <2>1. \A v \in Work :
            [doc[v] EXCEPT !.status = "RECEIVED", !.retryable = FALSE] \in Document
    BY DEF PipelineTypeOK, Document
  <2>2. doc' \in [Work -> Document]
    BY <1>1, <1>3, <2>1 DEF RetrySnapshot, PipelineTypeOK
  <2> QED
    BY <1>3, <2>2, WakeType DEF RetrySnapshot, PipelineTypeOK, nodeVars, chainVars
<1>4. CASE LeaseExpires(w)
  <2>1. [doc[w] EXCEPT !.live = FALSE] \in Document
    BY ZenonT(40) DEF PipelineTypeOK, Document
  <2>2. doc' \in [Work -> Document]
    BY <1>4, <2>1 DEF LeaseExpires, PipelineTypeOK
  <2>3. faults' \in 0..MaxFaults
    BY <1>4, FaultType DEF LeaseExpires, PipelineTypeOK
  <2> QED
    BY <1>4, <2>2, <2>3 DEF LeaseExpires, PipelineTypeOK, nodeVars, chainVars
<1> QED
  BY <1>2, <1>3, <1>4

(* The Node's steps.                                                       *)
LEMMA NodeType ==
  ASSUME PipelineInv, NodeWorks
  PROVE  PipelineTypeOK'
<1> USE DEF PipelineInv
<1>1. CASE NodeWakes
  BY <1>1, DrainType DEF NodeWakes, PipelineTypeOK, chainVars
<1>2. CASE NodeDrained
  BY <1>2, AsleepType, RequeuedType DEF NodeDrained, PipelineTypeOK, chainVars
<1>3. CASE VerifyFunding
  <2>1. node.work[1] \in Payment
    BY <1>3, WorkParts DEF VerifyFunding, NodeSound
  <2>2. node' \in NodeState
    BY <1>3, DecideType DEF VerifyFunding, PipelineTypeOK
  <2>3. nonces' \subseteq Payment
    BY <1>3, <2>1 DEF VerifyFunding, PipelineTypeOK
  <2>4. faults' \in 0..MaxFaults
    BY <1>3, FaultType DEF VerifyFunding, PipelineTypeOK
  <2> QED
    BY <1>3, <2>2, <2>3, <2>4 DEF VerifyFunding, PipelineTypeOK, receiverVars, chainVars
<1>4. CASE ReadRoots
  <2>1. node.work[1] \in Payment
    BY <1>4, WorkParts DEF ReadRoots, NodeSound
  <2>2. [payment |-> node.work[1], prev |-> root, tip |-> tip, window |-> window] \in Transition
    BY <2>1 DEF PipelineTypeOK, Transition
  <2>3. node' \in NodeState
    BY <1>4, <2>2, DecideType DEF ReadRoots, PipelineTypeOK, NodeState, NodePC, Optional, Witnessed
  <2>4. faults' \in 0..MaxFaults
    BY <1>4, FaultType DEF ReadRoots, PipelineTypeOK
  <2> QED
    BY <1>4, <2>3, <2>4 DEF ReadRoots, PipelineTypeOK, receiverVars, chainVars
<1>5. CASE ProveCredit
  <2>1. Successor(node.transition) \in Root
    BY <1>5 DEF ProveCredit, NodeSound, Successor, Transition, Root
  <2>2. node' \in NodeState
    BY <1>5, DecideType DEF ProveCredit, PipelineTypeOK
  <2>3. snapshots' \in [tcap : SUBSET Root, tip : SUBSET Nat]
    BY <1>5, <2>1, ZenonT(40) DEF ProveCredit, PipelineTypeOK
  <2>4. faults' \in 0..MaxFaults
    BY <1>5, FaultType DEF ProveCredit, PipelineTypeOK
  <2> QED
    BY <1>5, <2>2, <2>3, <2>4 DEF ProveCredit, PipelineTypeOK, receiverVars, chainVars
<1>6. CASE NodeReports
  <2>1. node.work \in Work
    BY <1>6 DEF NodeReports, NodeSound
  <2>2. NodeDecision \in [Work -> Document]
    <3> DEFINE docs == Finished(node.work, node.decision)
               t == IF node.decision = "VERIFIED" THEN node.transition ELSE NULL
    <3>1. docs \in [Work -> Document]
      BY <2>1, FinishedType DEF PipelineTypeOK, NodeState
    <3>2. t \in Optional(Transition) /\ node.retryable \in BOOLEAN
      BY DEF PipelineTypeOK, NodeState, Optional
    <3> HIDE DEF docs, t
    <3>3. [docs[node.work] EXCEPT !.retryable = node.retryable, !.transition = t] \in Document
      BY <2>1, <3>1, <3>2, DecisionType
    <3>4. NodeDecision = [docs EXCEPT ![node.work] =
                              [@ EXCEPT !.retryable = node.retryable, !.transition = t]]
      BY <2>1, <3>1 DEF NodeDecision, docs, t
    <3> QED
      BY <2>1, <3>1, <3>3, <3>4
  <2>3. node' \in NodeState
    BY <1>6, BackoffType, DrainType DEF NodeReports, PipelineTypeOK
  <2>4. faults' \in 0..MaxFaults
    BY <1>6, FaultType DEF NodeReports, PipelineTypeOK
  <2> QED
    BY <1>6, <2>2, <2>3, <2>4 DEF NodeReports, PipelineTypeOK, chainVars
<1>7. ASSUME NEW w \in Work, NodeLeases(w)
      PROVE  PipelineTypeOK'
  <2>1. doc' \in [Work -> Document]
    BY <1>7, RequeuedType, LeasedType DEF NodeLeases, PipelineTypeOK
  <2>2. node' \in NodeState
    BY <1>7, BackoffType DEF NodeLeases, PipelineTypeOK, NodeState, NodePC, Optional
  <2>3. faults' \in 0..MaxFaults
    BY <1>7, FaultType DEF NodeLeases, PipelineTypeOK
  <2> QED
    BY <1>7, <2>1, <2>2, <2>3 DEF NodeLeases, PipelineTypeOK, chainVars
<1> QED
  BY <1>1, <1>2, <1>3, <1>4, <1>5, <1>6, <1>7 DEF NodeWorks

LEMMA NodeFaultType ==
  ASSUME PipelineTypeOK,
         NodeRequestFails \/ NodeRestarts \/ ProvideSnapshots \/ LoseSnapshots
  PROVE  PipelineTypeOK'
<1>1. CASE NodeRequestFails
  BY <1>1, BackoffType, FaultType DEF NodeRequestFails, PipelineTypeOK, receiverVars, chainVars
<1>2. CASE NodeRestarts
  BY <1>2, AsleepType, FaultType DEF NodeRestarts, PipelineTypeOK, chainVars
<1>3. CASE ProvideSnapshots
  BY <1>3 DEF ProvideSnapshots, PipelineTypeOK, receiverVars, chainVars
<1>4. CASE LoseSnapshots
  BY <1>4, FaultType DEF LoseSnapshots, PipelineTypeOK, receiverVars, chainVars
<1> QED
  BY <1>1, <1>2, <1>3, <1>4

(* The daemons' steps.                                                     *)
LEMMA CrankerType ==
  ASSUME PipelineInv, NEW c \in Cranker, CrankerWorks(c)
  PROVE  PipelineTypeOK'
<1> USE DEF PipelineInv
<1>0. {"idle", "submit", "confirm", "authorize", "check", "sign", "confirmCredit",
       "report", "fail"} = CrankerPC
  BY DEF CrankerPC
<1>1. CASE SubmitDeposit(c)
  <2>1. cranker[c].work[1] \in Payment
    BY <1>1, WorkParts DEF SubmitDeposit, CrankersSound, JobSound
  <2>2. cranker' \in [Cranker -> CrankerState]
    BY <1>0, <1>1, GotoType DEF SubmitDeposit, PipelineTypeOK
  <2>3. deposit' \in [Payment -> {"signed", "sent", "landed", "expired"}]
    BY <1>1, <2>1 DEF SubmitDeposit, PipelineTypeOK
  <2>4. faults' \in 0..MaxFaults
    BY <1>1, FaultType DEF SubmitDeposit, PipelineTypeOK
  <2> QED
    BY <1>1, <2>2, <2>3, <2>4 DEF SubmitDeposit, PipelineTypeOK, receiverVars, nodeVars
<1>2. CASE ConfirmDeposit(c)
  <2>1. cranker' \in [Cranker -> CrankerState]
    BY <1>0, <1>2, GotoType DEF ConfirmDeposit, PipelineTypeOK
  <2>2. faults' \in 0..MaxFaults
    BY <1>2, FaultType DEF ConfirmDeposit, PipelineTypeOK
  <2> QED
    BY <1>2, <2>1, <2>2 DEF ConfirmDeposit, PipelineTypeOK, receiverVars, nodeVars, chainVars
<1>3. CASE Authorize(c)
  <2>1. doc[cranker[c].work].transition \in Optional(Transition)
    BY <1>3 DEF Authorize, CrankersSound, JobSound, PipelineTypeOK, Document
  <2>2. [cranker[c] EXCEPT !.pc = "check", !.transition = doc[cranker[c].work].transition]
            \in CrankerState
    BY <1>0, <2>1 DEF PipelineTypeOK, CrankerState
  <2>3. cranker' \in [Cranker -> CrankerState]
    BY <1>3, <2>2, IdleType DEF Authorize, PipelineTypeOK
  <2>4. faults' \in 0..MaxFaults
    BY <1>3, FaultType DEF Authorize, PipelineTypeOK
  <2> QED
    BY <1>3, <2>3, <2>4 DEF Authorize, PipelineTypeOK, receiverVars, nodeVars, chainVars
<1>4. CASE CheckRoot(c)
  <2>1. cranker' \in [Cranker -> CrankerState]
    BY <1>0, <1>4, GotoType DEF CheckRoot, PipelineTypeOK
  <2>2. faults' \in 0..MaxFaults
    BY <1>4, FaultType DEF CheckRoot, PipelineTypeOK
  <2> QED
    BY <1>4, <2>1, <2>2 DEF CheckRoot, PipelineTypeOK, receiverVars, nodeVars, chainVars
<1>5. CASE SignCredit(c)
  <2>1. cranker[c].transition \in Transition
    BY <1>5 DEF SignCredit, CrankersSound, JobSound, Sound
  <2>2. cranker' \in [Cranker -> CrankerState]
    BY <1>0, <1>5, GotoType DEF SignCredit, PipelineTypeOK
  <2>3. flight' \subseteq Cranker \X Transition
    BY <1>5, <2>1 DEF SignCredit, PipelineTypeOK
  <2>4. faults' \in 0..MaxFaults
    BY <1>5, FaultType DEF SignCredit, PipelineTypeOK
  <2> QED
    BY <1>5, <2>2, <2>3, <2>4 DEF SignCredit, PipelineTypeOK, receiverVars, nodeVars
<1>6. CASE ConfirmCredit(c)
  <2>1. cranker' \in [Cranker -> CrankerState]
    BY <1>0, <1>6, GotoType DEF ConfirmCredit, PipelineTypeOK
  <2>2. faults' \in 0..MaxFaults
    BY <1>6, FaultType DEF ConfirmCredit, PipelineTypeOK
  <2> QED
    BY <1>6, <2>1, <2>2 DEF ConfirmCredit, PipelineTypeOK, receiverVars, nodeVars, chainVars
<1>7. CASE CrankerReports(c)
  <2>1. cranker[c].work \in Work
    BY <1>7 DEF CrankerReports, CrankersSound, JobSound
  <2>2. cranker' \in [Cranker -> CrankerState]
    BY <1>7, UnansweredType, IdleType DEF CrankerReports, PipelineTypeOK
  <2>3. doc' \in [Work -> Document]
    BY <1>7, <2>1, FinishedType DEF CrankerReports, PipelineTypeOK, receiverVars
  <2>4. faults' \in 0..MaxFaults /\ wake' \in BOOLEAN
    BY <1>7, FaultType, WakeType DEF CrankerReports, PipelineTypeOK, receiverVars
  <2> QED
    BY <1>7, <2>2, <2>3, <2>4 DEF CrankerReports, PipelineTypeOK, nodeVars, chainVars
<1> QED
  BY <1>1, <1>2, <1>3, <1>4, <1>5, <1>6, <1>7 DEF CrankerWorks

LEMMA CrankerLeaseType ==
  ASSUME PipelineTypeOK, NEW c \in Cranker,
         CrankerPolls(c) \/ CrankerCrashes(c) \/ \E w \in Work : CrankerLeases(c, w)
  PROVE  PipelineTypeOK'
<1>1. CASE CrankerPolls(c)
  BY <1>1, RequeuedType DEF CrankerPolls, PipelineTypeOK, nodeVars, chainVars
<1>2. CASE CrankerCrashes(c)
  BY <1>2, FaultType, IdleType DEF CrankerCrashes, PipelineTypeOK, receiverVars, nodeVars, chainVars
<1>3. ASSUME NEW w \in Work, CrankerLeases(c, w)
      PROVE  PipelineTypeOK'
  <2>1. doc' \in [Work -> Document]
    BY <1>3, RequeuedType, LeasedType DEF CrankerLeases, PipelineTypeOK
  <2> DEFINE job == [Idle EXCEPT !.pc = IF IsSettlement(w) THEN "authorize" ELSE "submit",
                                 !.work = w]
  <2>0. job \in CrankerState
    BY DEF Idle, CrankerState, CrankerPC, Optional
  <2>2. cranker' \in [Cranker -> CrankerState]
    BY <1>3, <2>0 DEF CrankerLeases, PipelineTypeOK
  <2>3. faults' \in 0..MaxFaults
    BY <1>3, FaultType DEF CrankerLeases, PipelineTypeOK
  <2> QED
    BY <1>3, <2>1, <2>2, <2>3 DEF CrankerLeases, PipelineTypeOK, nodeVars, chainVars
<1> QED
  BY <1>1, <1>2, <1>3

LEMMA ChainType ==
  ASSUME PipelineTypeOK,
         \/ \E p \in Payment : DepositLands(p) \/ DepositDropped(p) \/ DepositExpires(p)
         \/ \E tx \in flight : CreditLands(tx) \/ CreditDropped(tx)
         \/ TipMoves \/ WindowPasses
  PROVE  PipelineTypeOK'
<1>1. ASSUME NEW p \in Payment, DepositLands(p) \/ DepositDropped(p) \/ DepositExpires(p)
      PROVE  PipelineTypeOK'
  BY <1>1 DEF DepositLands, DepositDropped, DepositExpires, DepositBecomes, PipelineTypeOK,
              receiverVars, nodeVars
<1>2. ASSUME NEW tx \in flight, CreditLands(tx) \/ CreditDropped(tx)
      PROVE  PipelineTypeOK'
  <2>1. tx[2].payment \in Payment
    BY DEF PipelineTypeOK, Transition
  <2>2. Append(root, tx[2].payment) \in Root
    BY <2>1 DEF PipelineTypeOK, Root
  <2> QED
    BY <1>2, <2>2 DEF CreditLands, CreditDropped, PipelineTypeOK, receiverVars, nodeVars
<1>3. CASE TipMoves \/ WindowPasses
  BY <1>3, FaultType DEF TipMoves, WindowPasses, PipelineTypeOK, receiverVars, nodeVars
<1> QED
  BY <1>1, <1>2, <1>3

-----------------------------------------------------------------------------
(* What is on chain stays, and so do the Node's witnesses.                 *)

Keeps ==
    /\ \A p \in Payment : deposit[p] = "landed" => deposit'[p] = "landed"
    /\ Credited \subseteq Credited'
    /\ "snapshot" \in FaultKind \/ snapshots.tcap \subseteq snapshots'.tcap

LEMMA AppendAdds ==
  ASSUME NEW s \in Root, NEW p \in Payment
  PROVE  Payments(Append(s, p)) = Payments(s) \cup {p}
<1>1. Append(s, p) \in Seq(Payment) /\ Len(Append(s, p)) = Len(s) + 1
  BY DEF Root
<1>2. \A i \in 1..Len(s) : Append(s, p)[i] = s[i]
  BY DEF Root
<1>3. Append(s, p)[Len(s) + 1] = p
  BY DEF Root
<1>4. Len(s) \in Nat /\ DOMAIN s = 1..Len(s) /\ DOMAIN Append(s, p) = 1..(Len(s) + 1)
  BY <1>1 DEF Root
<1>5. ASSUME NEW x
      PROVE  x \in Payments(Append(s, p)) <=> x \in Payments(s) \cup {p}
  BY <1>2, <1>3, <1>4 DEF Payments
<1> QED
  BY <1>5

LEMMA FrameKeeps ==
  ASSUME UNCHANGED <<deposit, root, snapshots>>
  PROVE  Keeps
  BY DEF Keeps, Credited

LEMMA StepKeeps ==
  ASSUME PipelineInv, Next
  PROVE  Keeps
<1>1. CASE UNCHANGED <<deposit, root, snapshots>>
  BY <1>1, FrameKeeps
<1>2. CASE ProveCredit
  BY <1>2 DEF ProveCredit, Keeps, Credited, chainVars, PipelineInv, PipelineTypeOK
<1>3. CASE ProvideSnapshots
  BY <1>3 DEF ProvideSnapshots, Keeps, Credited, chainVars
<1>4. CASE LoseSnapshots
  BY <1>4 DEF LoseSnapshots, Keeps, Credited, chainVars, Fault
<1>5. ASSUME NEW c \in Cranker, SubmitDeposit(c)
      PROVE  Keeps
  <2>1. cranker[c].work[1] \in Payment
    BY <1>5, WorkParts DEF SubmitDeposit, PipelineInv, CrankersSound, JobSound
  <2> QED
    BY <1>5, <2>1 DEF SubmitDeposit, Keeps, Credited, nodeVars, PipelineInv, PipelineTypeOK
<1>6. ASSUME NEW p \in Payment, DepositLands(p) \/ DepositDropped(p) \/ DepositExpires(p)
      PROVE  Keeps
  BY <1>6 DEF DepositLands, DepositDropped, DepositExpires, DepositBecomes, Keeps, Credited,
              nodeVars, PipelineInv, PipelineTypeOK
<1>7. ASSUME NEW tx \in flight, CreditLands(tx)
      PROVE  Keeps
  <2>1. tx[2].payment \in Payment
    BY DEF PipelineInv, PipelineTypeOK, Transition
  <2>2. Payments(root) \subseteq Payments(root')
    BY <1>7, <2>1, AppendAdds DEF CreditLands, PipelineInv, PipelineTypeOK
  <2> QED
    BY <1>7, <2>2 DEF CreditLands, Keeps, Credited, Payments, nodeVars
<1>8. \/ UNCHANGED <<deposit, root, snapshots>>
      \/ ProveCredit \/ ProvideSnapshots \/ LoseSnapshots
      \/ \E c \in Cranker : SubmitDeposit(c)
      \/ \E p \in Payment : DepositLands(p) \/ DepositDropped(p) \/ DepositExpires(p)
      \/ \E tx \in flight : CreditLands(tx)
  <2>1. ASSUME NEW p \in Payment, Receive(p) \/ RetrySnapshot(p)
        PROVE  UNCHANGED <<deposit, root, snapshots>>
    BY <2>1 DEF Receive, RetrySnapshot, nodeVars, chainVars
  <2>2. ASSUME NEW w \in Work, LeaseExpires(w) \/ NodeLeases(w)
        PROVE  UNCHANGED <<deposit, root, snapshots>>
    BY <2>2 DEF LeaseExpires, NodeLeases, nodeVars, chainVars
  <2>3. ASSUME NodeWakes \/ NodeDrained \/ VerifyFunding \/ ReadRoots \/ NodeReports
                 \/ NodeRequestFails \/ NodeRestarts
        PROVE  UNCHANGED <<deposit, root, snapshots>>
    BY <2>3 DEF NodeWakes, NodeDrained, VerifyFunding, ReadRoots, NodeReports,
                NodeRequestFails, NodeRestarts, chainVars
  <2>4. ASSUME NEW c \in Cranker, NEW w \in Work,
               \/ ConfirmDeposit(c) \/ Authorize(c) \/ CheckRoot(c) \/ SignCredit(c)
               \/ ConfirmCredit(c) \/ CrankerReports(c) \/ CrankerPolls(c)
               \/ CrankerCrashes(c) \/ CrankerLeases(c, w)
        PROVE  UNCHANGED <<deposit, root, snapshots>>
    BY <2>4 DEF ConfirmDeposit, Authorize, CheckRoot, SignCredit, ConfirmCredit,
                CrankerReports, CrankerPolls, CrankerCrashes, CrankerLeases, nodeVars, chainVars
  <2>5. ASSUME NEW tx \in flight, CreditDropped(tx)
        PROVE  UNCHANGED <<deposit, root, snapshots>>
    BY <2>5 DEF CreditDropped, nodeVars
  <2>6. ASSUME TipMoves \/ WindowPasses
        PROVE  UNCHANGED <<deposit, root, snapshots>>
    BY <2>6 DEF TipMoves, WindowPasses, nodeVars
  <2>7. \A c \in Cranker :
            ConfirmDeposit(c) \/ Authorize(c) \/ CheckRoot(c) \/ SignCredit(c) \/ ConfirmCredit(c)
              \/ CrankerReports(c) \/ CrankerPolls(c) \/ CrankerCrashes(c)
            => UNCHANGED <<deposit, root, snapshots>>
    BY DEF ConfirmDeposit, Authorize, CheckRoot, SignCredit, ConfirmCredit,
           CrankerReports, CrankerPolls, CrankerCrashes, nodeVars, chainVars
  <2> QED
    BY <2>1, <2>2, <2>3, <2>4, <2>5, <2>6, <2>7, Zenon DEF Next, NodeWorks, CrankerWorks
<1> QED
  BY <1>1, <1>2, <1>3, <1>4, <1>5, <1>6, <1>7, <1>8

LEMMA BackedKept ==
  ASSUME Keeps, NEW t \in Transition, Backed(t)
  PROVE  Backed(t)'
<1>1. t.payment \in Payment
  BY DEF Transition
<1> QED
  BY <1>1 DEF Keeps, Backed, Payments

LEMMA RecordedKept ==
  ASSUME Keeps, NEW t, Recorded(t)
  PROVE  Recorded(t)'
  BY DEF Keeps, Recorded, Successor

LEMMA SoundKept ==
  ASSUME Keeps, NEW t, NEW w, Sound(t, w)
  PROVE  Sound(t, w)'
  BY BackedKept, RecordedKept DEF Sound

(* Parts of the invariant that a step leaves alone.                        *)
LEMMA NodeFrame ==
  ASSUME PipelineInv, Keeps, node' = node
  PROVE  NodeSound'
  BY BackedKept, SoundKept DEF PipelineInv, NodeSound, IsSettlement

LEMMA JobKept ==
  ASSUME Keeps, NEW j, JobSound(j)
  PROVE  JobSound(j)'
<1>1. j.pc = "report" => Seen(j.work)'
  BY WorkParts DEF JobSound, Seen, Keeps, IsSettlement
<1> QED
  BY <1>1, SoundKept DEF JobSound, IsSettlement

LEMMA CrankersFrame ==
  ASSUME PipelineInv, Keeps, cranker' = cranker
  PROVE  CrankersSound'
  BY JobKept DEF PipelineInv, CrankersSound

LEMMA FlightFrame ==
  ASSUME PipelineInv, Keeps, flight' \subseteq flight
  PROVE  FlightSound'
<1>1. \A tx \in flight : tx[2] \in Transition
  BY DEF PipelineInv, PipelineTypeOK
<1> QED
  BY <1>1, BackedKept, RecordedKept DEF PipelineInv, FlightSound

LEMMA RootFrame ==
  ASSUME PipelineInv, Keeps, root' = root
  PROVE  RootHasWitness'
  BY DEF PipelineInv, RootHasWitness, Keeps

(* A step that verifies and confirms nothing new.                          *)
LEMMA DocumentsFrame ==
  ASSUME PipelineInv, Keeps,
         \A w \in Work :
            /\ doc'[w].status \in {"VERIFIED", "CRANKER_LEASED"} =>
                  /\ doc[w].status \in {"VERIFIED", "CRANKER_LEASED"}
                  /\ doc'[w].transition = doc[w].transition
            /\ doc'[w].status = "CONFIRMED" => doc[w].status = "CONFIRMED"
  PROVE  DocumentsSound' /\ ConfirmedIsTrue'
<1>1. DocumentsSound'
  BY SoundKept DEF PipelineInv, DocumentsSound, IsSettlement
<1>2. \A p \in Payment : <<p, "FUNDING">> \in Work /\ <<p, "SETTLEMENT">> \in Work
  BY DEF Work
<1> QED
  BY <1>1, <1>2 DEF PipelineInv, ConfirmedIsTrue, Keeps

-----------------------------------------------------------------------------
(* The invariant, action by action.                                        *)

LEMMA ReceiverStep ==
  ASSUME PipelineInv, Keeps, NEW p \in Payment, NEW w \in Work,
         Receive(p) \/ RetrySnapshot(p) \/ LeaseExpires(w)
  PROVE  PipelineInv'
<1>1. PipelineTypeOK'
  BY ReceiverType DEF PipelineInv
<1>2. UNCHANGED <<node, cranker, flight, root>>
  BY DEF Receive, RetrySnapshot, LeaseExpires, nodeVars, chainVars
<1>3. NodeSound' /\ CrankersSound' /\ FlightSound' /\ RootHasWitness'
  BY <1>2, NodeFrame, CrankersFrame, FlightFrame, RootFrame
<1>4. <<p, "FUNDING">> \in Work /\ <<p, "SETTLEMENT">> \in Work
  BY DEF Work
<1>5. \A v \in Work :
          /\ doc'[v].status \in {doc[v].status, "RECEIVED"}
          /\ doc'[v].transition = doc[v].transition
  BY <1>4 DEF Receive, RetrySnapshot, LeaseExpires, PipelineInv, PipelineTypeOK, Document
<1>6. DocumentsSound' /\ ConfirmedIsTrue'
  BY <1>5, DocumentsFrame
<1> QED
  BY <1>1, <1>3, <1>6 DEF PipelineInv

(* Requeueing returns expired leases to the queue they came from.          *)
LEMMA RequeuedParts ==
  ASSUME doc \in [Work -> Document], NEW leased, NEW queue, NEW v \in Work
  PROVE  /\ Requeued(leased, queue)[v].transition = doc[v].transition
         /\ \/ Requeued(leased, queue)[v].status = doc[v].status
            \/ doc[v].status = leased /\ Requeued(leased, queue)[v].status = queue
  BY DEF Requeued, Document

LEMMA LeasedParts ==
  ASSUME NEW docs \in [Work -> Document], NEW w \in Work, NEW v \in Work, NEW status, NEW owner
  PROVE  /\ Leased(docs, w, status, owner)[v].transition = docs[v].transition
         /\ Leased(docs, w, status, owner)[v].status
                = IF v = w THEN status ELSE docs[v].status
  BY DEF Leased, Document

LEMMA FinishedParts ==
  ASSUME doc \in [Work -> Document], NEW w \in Work, NEW v \in Work, NEW status
  PROVE  /\ Finished(w, status)[v].transition = doc[v].transition
         /\ Finished(w, status)[v].status = IF v = w THEN status ELSE doc[v].status
  BY DEF Finished, Document

(* The Node's worker starts over without a job.                            *)
LEMMA NodeIdle ==
  ASSUME NEW n, node' = Asleep \/ node' = Drain(n)
  PROVE  NodeSound'
<1>1. Asleep.pc = "asleep" /\ Drain(n).pc = "drain"
  BY DEF Asleep, Drain
<1> QED
  BY <1>1 DEF NodeSound, IsSettlement

LEMMA BackoffIdle ==
  ASSUME NodeBackoff
  PROVE  NodeSound'
  BY NodeIdle DEF NodeBackoff

LEMMA NodeStep ==
  ASSUME PipelineInv, Keeps, NodeWorks
  PROVE  PipelineInv'
<1> USE DEF PipelineInv
<1>1. PipelineTypeOK'
  BY NodeType
<1>2. UNCHANGED <<cranker, flight, root, deposit>>
  BY DEF NodeWorks, NodeWakes, NodeDrained, VerifyFunding, ReadRoots, ProveCredit, NodeReports,
         NodeLeases, chainVars
<1>3. CrankersSound' /\ FlightSound' /\ RootHasWitness'
  BY <1>2, CrankersFrame, FlightFrame, RootFrame
<1>4. doc \in [Work -> Document]
  BY DEF PipelineTypeOK
<1>5. CASE NodeWakes
  <2>1. NodeSound'
    BY <1>5, NodeIdle DEF NodeWakes
  <2>2. DocumentsSound' /\ ConfirmedIsTrue'
    BY <1>5, DocumentsFrame DEF NodeWakes
  <2> QED
    BY <1>1, <1>3, <2>1, <2>2
<1>6. CASE NodeDrained
  <2>1. NodeSound'
    BY <1>6, NodeIdle DEF NodeDrained
  <2>2. DocumentsSound' /\ ConfirmedIsTrue'
    BY <1>4, <1>6, RequeuedParts, DocumentsFrame DEF NodeDrained
  <2> QED
    BY <1>1, <1>3, <2>1, <2>2
<1>7. CASE VerifyFunding
  <2>1. node.pc = "verify" /\ node.work \in Work /\ ~IsSettlement(node.work)
    BY <1>7 DEF VerifyFunding, NodeSound
  <2>2. node'.pc = "report" /\ node'.work = node.work
    BY <1>7 DEF VerifyFunding, Decide, PipelineTypeOK, NodeState
  <2>3. NodeSound'
    BY <2>1, <2>2 DEF NodeSound, IsSettlement
  <2>4. DocumentsSound' /\ ConfirmedIsTrue'
    BY <1>7, DocumentsFrame DEF VerifyFunding, receiverVars
  <2> QED
    BY <1>1, <1>3, <2>3, <2>4
<1>8. CASE ReadRoots
  <2>1. node.pc = "verify" /\ node.work \in Work /\ IsSettlement(node.work)
    BY <1>8 DEF ReadRoots, NodeSound
  <2>2. node'.work = node.work
    BY <1>8 DEF ReadRoots, Decide, PipelineTypeOK, NodeState
  <2>3. ASSUME node'.pc = "report" /\ node'.decision = "REJECTED"
        PROVE  NodeSound'
    BY <2>1, <2>2, <2>3 DEF NodeSound, IsSettlement
  <2> DEFINE t == [payment |-> node.work[1], prev |-> root, tip |-> tip, window |-> window]
  <2>4. ASSUME node'.pc = "prove", node'.transition = t, DepositConfirmed(node.work[1]),
               node.work[1] \notin Credited
        PROVE  NodeSound'
    <3>1. t \in Transition
      BY <2>1, WorkParts DEF PipelineTypeOK, Transition
    <3>2. Backed(node.transition)'
      BY <1>2, <2>4 DEF Backed, DepositConfirmed, Credited, Payments
    <3> QED
      BY <2>1, <2>2, <2>4, <3>1, <3>2 DEF NodeSound, IsSettlement
  <2>5. NodeSound'
    BY <1>8, <2>3, <2>4 DEF ReadRoots, Decide, PipelineTypeOK, NodeState
  <2>6. DocumentsSound' /\ ConfirmedIsTrue'
    BY <1>8, DocumentsFrame DEF ReadRoots, receiverVars
  <2> QED
    BY <1>1, <1>3, <2>5, <2>6
<1>9. CASE ProveCredit
  <2>1. /\ node.pc = "prove" /\ node.work \in Work /\ node.transition \in Transition
        /\ node.transition.payment = node.work[1] /\ Backed(node.transition)
    BY <1>9 DEF ProveCredit, NodeSound
  <2>2. /\ node'.pc = "report" /\ node'.work = node.work
        /\ node'.transition = node.transition
    BY <1>9 DEF ProveCredit, Decide, PipelineTypeOK, NodeState
  <2>3. ASSUME node'.decision = "REJECTED"
        PROVE  NodeSound'
    BY <2>1, <2>2, <2>3 DEF NodeSound, IsSettlement
  <2>4. ASSUME Successor(node.transition) \in snapshots'.tcap
        PROVE  NodeSound'
    <3>1. Recorded(node.transition)'
      BY <2>2, <2>4 DEF Recorded, Successor
    <3>2. Backed(node.transition)'
      BY <2>1, <2>2, BackedKept DEF Backed
    <3> QED
      BY <2>1, <2>2, <3>1, <3>2 DEF NodeSound, Sound
  <2>5. node'.decision = "REJECTED" \/ Successor(node.transition) \in snapshots'.tcap
    <3>1. \A d, r : Decide(d, r) => node'.decision = d
      BY DEF Decide, PipelineTypeOK, NodeState
    <3>2. \A s : snapshots' = [snapshots EXCEPT !.tcap = @ \cup {s}] => s \in snapshots'.tcap
      BY DEF PipelineTypeOK
    <3> QED
      BY <1>9, <3>1, <3>2 DEF ProveCredit
  <2>7. NodeSound'
    BY <2>3, <2>4, <2>5
  <2>6. DocumentsSound' /\ ConfirmedIsTrue'
    BY <1>9, DocumentsFrame DEF ProveCredit, receiverVars
  <2> QED
    BY <1>1, <1>3, <2>6, <2>7
<1>10. CASE NodeReports
  <2>1. NodeSound'
    BY <1>10, NodeIdle, BackoffIdle DEF NodeReports
  <2>2. CASE doc' = doc
    BY <1>1, <1>3, <2>1, <2>2, DocumentsFrame
  <2>3. CASE doc' = NodeDecision
    <3>1. node.pc = "report" /\ node.work \in Work
      BY <1>10 DEF NodeReports, NodeSound
    <3>2. node.decision \in {"VERIFIED", "REJECTED"}
      BY DEF PipelineTypeOK, NodeState
    <3>3. \A v \in Work : v # node.work => doc'[v] = doc[v]
      BY <1>4, <2>3, <3>1 DEF NodeDecision, Finished
    <3>4. doc'[node.work].status = node.decision
      BY <1>4, <2>3, <3>1 DEF NodeDecision, Finished, Document
    <3>5. node.decision = "VERIFIED" => doc'[node.work].transition = node.transition
      BY <1>4, <2>3, <3>1 DEF NodeDecision, Finished, Document
    <3>6. DocumentsSound'
      BY <3>1, <3>2, <3>3, <3>4, <3>5, SoundKept DEF DocumentsSound, NodeSound, IsSettlement
    <3>7. ConfirmedIsTrue'
      <4>1. \A p \in Payment : <<p, "FUNDING">> \in Work /\ <<p, "SETTLEMENT">> \in Work
        BY DEF Work
      <4>2. \A v \in Work : doc'[v].status = "CONFIRMED" => doc[v].status = "CONFIRMED"
        BY <3>2, <3>3, <3>4
      <4> QED
        BY <4>1, <4>2 DEF ConfirmedIsTrue, Keeps
    <3> QED
      BY <1>1, <1>3, <2>1, <3>6, <3>7
  <2> QED
    BY <1>10, <2>2, <2>3 DEF NodeReports
<1>11. ASSUME NEW w \in Work, NodeLeases(w)
       PROVE  PipelineInv'
  <2>1. ASSUME NodeBackoff
        PROVE  NodeSound'
    BY <2>1, BackoffIdle
  <2>2. ASSUME node' = [node EXCEPT !.pc = "verify", !.work = w]
        PROVE  NodeSound'
    <3>1. node'.pc = "verify" /\ node'.work = w
      BY <2>2 DEF PipelineTypeOK, NodeState
    <3> QED
      BY <3>1 DEF NodeSound, IsSettlement
  <2>3. NodeSound'
    BY <1>11, <2>1, <2>2 DEF NodeLeases
  <2>4. DocumentsSound' /\ ConfirmedIsTrue'
    <3> DEFINE docs == Requeued("NODE_VERIFYING", "RECEIVED")
    <3>1. docs \in [Work -> Document]
      BY <1>4, RequeuedType
    <3>2. \A v \in Work :
            /\ doc'[v].transition = docs[v].transition
            /\ doc'[v].status = IF v = w THEN "NODE_VERIFYING" ELSE docs[v].status
      BY <1>11, <3>1, LeasedParts DEF NodeLeases
    <3> QED
      BY <1>4, <3>2, RequeuedParts, DocumentsFrame
  <2> QED
    BY <1>1, <1>3, <2>3, <2>4
<1> QED
  BY <1>5, <1>6, <1>7, <1>8, <1>9, <1>10, <1>11 DEF NodeWorks

LEMMA NodeFaultStep ==
  ASSUME PipelineInv, Keeps,
         NodeRequestFails \/ NodeRestarts \/ ProvideSnapshots \/ LoseSnapshots
  PROVE  PipelineInv'
<1>1. PipelineTypeOK'
  BY NodeFaultType DEF PipelineInv
<1>2. UNCHANGED <<doc, cranker, flight, root>>
  BY DEF NodeRequestFails, NodeRestarts, ProvideSnapshots, LoseSnapshots, receiverVars, chainVars
<1>3. CrankersSound' /\ FlightSound' /\ RootHasWitness' /\ DocumentsSound' /\ ConfirmedIsTrue'
  BY <1>2, CrankersFrame, FlightFrame, RootFrame, DocumentsFrame
<1>4. NodeSound'
  BY NodeFrame, NodeIdle, BackoffIdle
     DEF NodeRequestFails, NodeRestarts, ProvideSnapshots, LoseSnapshots
<1> QED
  BY <1>1, <1>3, <1>4 DEF PipelineInv

(* A daemon's new job is sound, and so are the others'.                    *)
LEMMA NewJob ==
  ASSUME PipelineInv, Keeps, NEW c \in Cranker, NEW j, JobSound(j)',
         cranker' = [cranker EXCEPT ![c] = j]
  PROVE  CrankersSound'
<1> SUFFICES ASSUME NEW d \in Cranker
             PROVE  JobSound(cranker[d])'
  BY DEF CrankersSound
<1>1. CASE d = c
  BY <1>1 DEF PipelineInv, PipelineTypeOK
<1>2. CASE d # c
  <2>1. cranker'[d] = cranker[d]
    BY <1>2 DEF PipelineInv, PipelineTypeOK
  <2> QED
    BY <2>1, JobKept DEF PipelineInv, CrankersSound
<1> QED
  BY <1>1, <1>2

LEMMA IdleJob == JobSound(Idle)'
  BY DEF JobSound, Idle

(* Going on to a place at which nothing new is known.                      *)
LEMMA GotoSound ==
  ASSUME PipelineInv, Keeps, NEW c \in Cranker, NEW pc, Goto(c, pc),
         JobSound([cranker[c] EXCEPT !.pc = pc])
  PROVE  CrankersSound'
<1> DEFINE j == [cranker[c] EXCEPT !.pc = pc]
<1>1. cranker' = [cranker EXCEPT ![c] = j]
  BY DEF Goto
<1>2. JobSound(j)
  OBVIOUS
<1> HIDE DEF j
<1>3. \A k : k = j => JobSound(k)'
  BY <1>2, JobKept
<1> QED
  BY <1>1, <1>3, NewJob

LEMMA GotoFail ==
  ASSUME PipelineInv, Keeps, NEW c \in Cranker, cranker[c].pc # "idle", Goto(c, "fail")
  PROVE  CrankersSound'
<1>1. cranker[c].work \in Work
  BY DEF PipelineInv, CrankersSound, JobSound
<1>2. /\ [cranker[c] EXCEPT !.pc = "fail"].pc = "fail"
      /\ [cranker[c] EXCEPT !.pc = "fail"].work = cranker[c].work
  BY DEF PipelineInv, PipelineTypeOK, CrankerState
<1>3. JobSound([cranker[c] EXCEPT !.pc = "fail"])
  BY <1>1, <1>2 DEF JobSound, IsSettlement
<1> QED
  BY <1>3, GotoSound

LEMMA UnansweredSound ==
  ASSUME PipelineInv, Keeps, NEW c \in Cranker, cranker[c].pc \in {"report", "fail"},
         Unanswered(c)
  PROVE  CrankersSound'
<1>1. CASE cranker[c].pc = "report"
  <2>1. Goto(c, "fail")
    BY <1>1 DEF Unanswered, Goto
  <2> QED
    BY <1>1, <2>1, GotoFail
<1>2. CASE cranker[c].pc = "fail"
  <2>1. cranker' = [cranker EXCEPT ![c] = Idle]
    BY <1>2 DEF Unanswered
  <2> QED
    BY <2>1, NewJob, IdleJob
<1> QED
  BY <1>1, <1>2

LEMMA CrankerStep ==
  ASSUME PipelineInv, Keeps, NEW c \in Cranker, CrankerWorks(c)
  PROVE  PipelineInv'
<1> USE DEF PipelineInv
<1> DEFINE j == cranker[c]
<1>1. PipelineTypeOK'
  BY CrankerType
<1>2. UNCHANGED <<node, root>>
  BY DEF CrankerWorks, SubmitDeposit, ConfirmDeposit, Authorize, CheckRoot, SignCredit,
         ConfirmCredit, CrankerReports, nodeVars, chainVars
<1>3. NodeSound' /\ RootHasWitness'
  BY <1>2, NodeFrame, RootFrame
<1>4. j \in CrankerState /\ JobSound(j)
  BY DEF PipelineTypeOK, CrankersSound
<1>5. \A pc : /\ [j EXCEPT !.pc = pc].pc = pc
              /\ [j EXCEPT !.pc = pc].work = j.work
              /\ [j EXCEPT !.pc = pc].transition = j.transition
  BY <1>4 DEF CrankerState
<1>6. CASE SubmitDeposit(c)
  <2>1. UNCHANGED <<doc, flight>> /\ j.pc = "submit"
    BY <1>6 DEF SubmitDeposit, receiverVars
  <2>2. JobSound([j EXCEPT !.pc = "confirm"])
    BY <1>4, <1>5, <2>1 DEF JobSound
  <2>3. CrankersSound'
    BY <1>6, <2>1, <2>2, GotoFail, GotoSound DEF SubmitDeposit
  <2> QED
    BY <1>1, <1>3, <2>1, <2>3, DocumentsFrame, FlightFrame
<1>7. CASE ConfirmDeposit(c)
  <2>1. UNCHANGED <<doc, flight>> /\ j.pc = "confirm"
    BY <1>7 DEF ConfirmDeposit, receiverVars, chainVars
  <2>2. deposit[j.work[1]] = "landed" => JobSound([j EXCEPT !.pc = "report"])
    BY <1>4, <1>5, <2>1 DEF JobSound, Seen
  <2>3. CrankersSound'
    BY <1>7, <2>1, <2>2, GotoFail, GotoSound DEF ConfirmDeposit
  <2> QED
    BY <1>1, <1>3, <2>1, <2>3, DocumentsFrame, FlightFrame
<1>8. CASE Authorize(c)
  <2>1. UNCHANGED <<doc, flight>> /\ j.pc = "authorize"
    BY <1>8 DEF Authorize, receiverVars, chainVars
  <2>2. CASE cranker' = [cranker EXCEPT ![c] = Idle]
    BY <1>1, <1>3, <2>1, <2>2, NewJob, IdleJob, DocumentsFrame, FlightFrame
  <2>3. CASE /\ Authorized(j.work, c, doc[j.work].transition)
             /\ cranker' = [cranker EXCEPT ![c].pc = "check",
                                           ![c].transition = doc[j.work].transition]
    <3>1. j.work \in Work /\ IsSettlement(j.work)
      BY <1>4, <2>1 DEF JobSound
    <3>2. Sound(doc[j.work].transition, j.work)
      BY <2>3, <3>1 DEF Authorized, LeaseIsCurrent, DocumentsSound
    <3> DEFINE k == [j EXCEPT !.pc = "check", !.transition = doc[j.work].transition]
    <3>3. k.pc = "check" /\ k.work = j.work /\ k.transition = doc[j.work].transition
      BY <1>4 DEF CrankerState
    <3>4. JobSound(k)
      BY <3>1, <3>2, <3>3 DEF JobSound
    <3>5. cranker' = [cranker EXCEPT ![c] = k]
      BY <2>3
    <3> HIDE DEF k
    <3>6. \A x : x = k => JobSound(x)'
      BY <3>4, JobKept
    <3>7. CrankersSound'
      BY <3>5, <3>6, NewJob
    <3> QED
      BY <1>1, <1>3, <2>1, <3>7, DocumentsFrame, FlightFrame
  <2> QED
    BY <1>8, <2>2, <2>3 DEF Authorize
<1>9. CASE CheckRoot(c)
  <2>1. UNCHANGED <<doc, flight>> /\ j.pc = "check"
    BY <1>9 DEF CheckRoot, receiverVars, chainVars
  <2>2. JobSound([j EXCEPT !.pc = "sign"])
    BY <1>4, <1>5, <2>1 DEF JobSound
  <2>3. CrankersSound'
    BY <1>9, <2>1, <2>2, GotoFail, GotoSound DEF CheckRoot
  <2> QED
    BY <1>1, <1>3, <2>1, <2>3, DocumentsFrame, FlightFrame
<1>10. CASE SignCredit(c)
  <2>1. UNCHANGED doc /\ j.pc = "sign"
    BY <1>10 DEF SignCredit, receiverVars
  <2>2. JobSound([j EXCEPT !.pc = "confirmCredit"])
    BY <1>4, <1>5, <2>1 DEF JobSound
  <2>3. CrankersSound'
    BY <1>10, <2>1, <2>2, GotoFail, GotoSound DEF SignCredit
  <2>4. Sound(j.transition, j.work)
    BY <1>4, <2>1 DEF JobSound
  <2>5. \A t : t = j.transition => Backed(t)' /\ Recorded(t)'
    BY <2>4, BackedKept, RecordedKept DEF Sound
  <2>6. \A tx \in flight : Backed(tx[2])' /\ Recorded(tx[2])'
    BY BackedKept, RecordedKept DEF FlightSound, PipelineTypeOK
  <2>7. \A tx \in flight' : tx \in flight \/ tx = <<c, j.transition>>
    BY <1>10 DEF SignCredit
  <2>8. FlightSound'
    BY <2>5, <2>6, <2>7 DEF FlightSound
  <2> QED
    BY <1>1, <1>3, <2>1, <2>3, <2>8, DocumentsFrame
<1>11. CASE ConfirmCredit(c)
  <2>1. UNCHANGED <<doc, flight>> /\ j.pc = "confirmCredit"
    BY <1>11 DEF ConfirmCredit, receiverVars, chainVars
  <2>2. root = Successor(j.transition) => JobSound([j EXCEPT !.pc = "report"])
    <3> SUFFICES ASSUME root = Successor(j.transition)
                 PROVE  JobSound([j EXCEPT !.pc = "report"])
      OBVIOUS
    <3>1. j.work \in Work /\ IsSettlement(j.work) /\ Sound(j.transition, j.work)
      BY <1>4, <2>1 DEF JobSound
    <3>2. j.transition.prev \in Root /\ j.transition.payment \in Payment
      BY <3>1 DEF Sound, Transition
    <3>3. j.work[1] \in Payments(root)
      BY <3>1, <3>2, AppendAdds DEF Successor, Sound
    <3> QED
      BY <1>5, <3>1, <3>3 DEF JobSound, Seen, Credited, Payments
  <2>3. CrankersSound'
    BY <1>11, <2>1, <2>2, GotoFail, GotoSound DEF ConfirmCredit
  <2> QED
    BY <1>1, <1>3, <2>1, <2>3, DocumentsFrame, FlightFrame
<1>12. CASE CrankerReports(c)
  <2>1. UNCHANGED <<flight, deposit, root>> /\ j.pc \in {"report", "fail"} /\ j.work \in Work
    BY <1>4, <1>12 DEF CrankerReports, JobSound, chainVars
  <2>2. CrankersSound'
    BY <1>12, <2>1, UnansweredSound, NewJob, IdleJob DEF CrankerReports
  <2>3. CASE doc' = doc
    BY <1>1, <1>3, <2>1, <2>2, <2>3, DocumentsFrame, FlightFrame
  <2>4. CASE doc' = Finished(j.work, "FAILED")
    <3>1. DocumentsSound' /\ ConfirmedIsTrue'
      BY <2>1, <2>4, FinishedParts, DocumentsFrame DEF PipelineTypeOK
    <3> QED
      BY <1>1, <1>3, <2>1, <2>2, <3>1, FlightFrame
  <2>5. CASE j.pc = "report" /\ doc' = Finished(j.work, "CONFIRMED")
    <3>1. \A v \in Work :
            /\ doc'[v].transition = doc[v].transition
            /\ doc'[v].status = IF v = j.work THEN "CONFIRMED" ELSE doc[v].status
      BY <2>1, <2>5, FinishedParts DEF PipelineTypeOK
    <3>2. DocumentsSound'
      BY <3>1, SoundKept DEF DocumentsSound, IsSettlement
    <3>3. Seen(j.work)
      BY <1>4, <2>5 DEF JobSound
    <3>4. ASSUME NEW p \in Payment
          PROVE  /\ doc'[<<p, "FUNDING">>].status = "CONFIRMED" => deposit'[p] = "landed"
                 /\ doc'[<<p, "SETTLEMENT">>].status = "CONFIRMED" => p \in Credited'
      <4>1. <<p, "FUNDING">> \in Work /\ <<p, "SETTLEMENT">> \in Work
        BY DEF Work
      <4>2. j.work = <<p, "FUNDING">> => deposit[p] = "landed"
        BY <3>3 DEF Seen, IsSettlement
      <4>3. j.work = <<p, "SETTLEMENT">> => p \in Credited
        BY <3>3 DEF Seen, IsSettlement
      <4> QED
        BY <3>1, <4>1, <4>2, <4>3 DEF ConfirmedIsTrue, Keeps
    <3>5. ConfirmedIsTrue'
      BY <3>4 DEF ConfirmedIsTrue
    <3> QED
      BY <1>1, <1>3, <2>1, <2>2, <3>2, <3>5, FlightFrame
  <2> QED
    BY <1>12, <2>1, <2>3, <2>4, <2>5 DEF CrankerReports, receiverVars
<1> QED
  BY <1>6, <1>7, <1>8, <1>9, <1>10, <1>11, <1>12 DEF CrankerWorks

LEMMA CrankerLeaseStep ==
  ASSUME PipelineInv, Keeps, NEW c \in Cranker,
         CrankerPolls(c) \/ CrankerCrashes(c) \/ \E w \in Work : CrankerLeases(c, w)
  PROVE  PipelineInv'
<1> USE DEF PipelineInv
<1> DEFINE docs == Requeued("CRANKER_LEASED", "VERIFIED")
<1>1. PipelineTypeOK'
  BY CrankerLeaseType
<1>2. UNCHANGED <<node, root, flight>>
  BY DEF CrankerPolls, CrankerCrashes, CrankerLeases, nodeVars, chainVars
<1>3. NodeSound' /\ RootHasWitness' /\ FlightSound'
  BY <1>2, NodeFrame, RootFrame, FlightFrame
<1>4. docs \in [Work -> Document]
  BY RequeuedType DEF PipelineTypeOK
<1>5. \A v \in Work :
          /\ docs[v].transition = doc[v].transition
          /\ \/ docs[v].status = doc[v].status
             \/ doc[v].status = "CRANKER_LEASED" /\ docs[v].status = "VERIFIED"
  BY RequeuedParts DEF PipelineTypeOK
<1> HIDE DEF docs
<1>6. CASE CrankerPolls(c)
  <2>1. doc' = docs /\ cranker' = cranker
    BY <1>6 DEF CrankerPolls, docs
  <2>2. DocumentsSound' /\ ConfirmedIsTrue'
    BY <1>5, <2>1, DocumentsFrame
  <2> QED
    BY <1>1, <1>3, <2>1, <2>2, CrankersFrame
<1>7. CASE CrankerCrashes(c)
  <2>1. doc' = doc /\ cranker' = [cranker EXCEPT ![c] = Idle]
    BY <1>7 DEF CrankerCrashes, receiverVars
  <2> QED
    BY <1>1, <1>3, <2>1, DocumentsFrame, NewJob, IdleJob
<1>8. ASSUME NEW w \in Work, CrankerLeases(c, w)
      PROVE  PipelineInv'
  <2>1. doc' = Leased(docs, w, "CRANKER_LEASED", c) /\ docs[w].status = "VERIFIED"
    BY <1>8 DEF CrankerLeases, Eligible, docs
  <2>2. \A v \in Work :
            /\ doc'[v].transition = docs[v].transition
            /\ doc'[v].status = IF v = w THEN "CRANKER_LEASED" ELSE docs[v].status
    BY <1>4, <2>1, LeasedParts
  <2>3. DocumentsSound' /\ ConfirmedIsTrue'
    BY <1>5, <2>1, <2>2, DocumentsFrame
  <2> DEFINE k == [Idle EXCEPT !.pc = IF IsSettlement(w) THEN "authorize" ELSE "submit",
                               !.work = w]
  <2>4. k.work = w /\ k.pc = IF IsSettlement(w) THEN "authorize" ELSE "submit"
    BY DEF Idle
  <2>5. JobSound(k)'
    BY <2>4 DEF JobSound, IsSettlement
  <2>6. cranker' = cranker \/ cranker' = [cranker EXCEPT ![c] = k]
    BY <1>8 DEF CrankerLeases
  <2> HIDE DEF k
  <2>7. CrankersSound'
    BY <2>5, <2>6, NewJob, CrankersFrame
  <2> QED
    BY <1>1, <1>3, <2>3, <2>7
<1> QED
  BY <1>6, <1>7, <1>8

LEMMA ChainStep ==
  ASSUME PipelineInv, Keeps,
         \/ \E p \in Payment : DepositLands(p) \/ DepositDropped(p) \/ DepositExpires(p)
         \/ \E tx \in flight : CreditLands(tx) \/ CreditDropped(tx)
         \/ TipMoves \/ WindowPasses
  PROVE  PipelineInv'
<1> USE DEF PipelineInv
<1>1. PipelineTypeOK'
  BY ChainType
<1>2. UNCHANGED <<doc, node, cranker, snapshots>> /\ flight' \subseteq flight
  BY DEF DepositLands, DepositDropped, DepositExpires, DepositBecomes, CreditLands,
         CreditDropped, TipMoves, WindowPasses, receiverVars, nodeVars
<1>3. DocumentsSound' /\ ConfirmedIsTrue' /\ NodeSound' /\ CrankersSound' /\ FlightSound'
  BY <1>2, DocumentsFrame, NodeFrame, CrankersFrame, FlightFrame
<1>4. root' = root \/ \E tx \in flight : CreditLands(tx)
  BY DEF DepositLands, DepositDropped, DepositExpires, DepositBecomes, CreditDropped,
         TipMoves, WindowPasses
<1>5. ASSUME NEW tx \in flight, CreditLands(tx)
      PROVE  RootHasWitness'
  <2>1. root' = Successor(tx[2])
    BY <1>5 DEF CreditLands, Executable, Successor
  <2>2. Recorded(tx[2])
    BY DEF FlightSound
  <2> QED
    BY <1>2, <2>1, <2>2 DEF Recorded, RootHasWitness
<1>6. RootHasWitness'
  BY <1>4, <1>5, RootFrame
<1> QED
  BY <1>1, <1>3, <1>6

LEMMA InitInv ==
  ASSUME Init
  PROVE  PipelineInv
<1>1. doc \in [Work -> Document]
  BY AbsentType DEF Init
<1>2. cranker \in [Cranker -> CrankerState]
  BY IdleType DEF Init
<1>3. <<>> \in Root
  BY DEF Root
<1>4. snapshots \in [tcap : SUBSET Root, tip : SUBSET Nat]
  BY <1>3 DEF Init
<1>5. PipelineTypeOK
  BY <1>1, <1>2, <1>3, <1>4, AsleepType, CountAssumption DEF Init, PipelineTypeOK
<1>6. \A w \in Work : doc[w].status = "ABSENT"
  BY DEF Init, Absent
<1>7. DocumentsSound
  BY <1>6 DEF DocumentsSound
<1>8. \A p \in Payment : <<p, "FUNDING">> \in Work /\ <<p, "SETTLEMENT">> \in Work
  BY DEF Work
<1>9. ConfirmedIsTrue
  BY <1>6, <1>8 DEF ConfirmedIsTrue
<1>10. NodeSound
  BY DEF Init, Asleep, NodeSound
<1>11. CrankersSound
  BY DEF Init, Idle, CrankersSound, JobSound
<1> QED
  BY <1>5, <1>7, <1>9, <1>10, <1>11 DEF Init, PipelineInv, FlightSound, RootHasWitness

(* No step breaks the invariant.                                           *)
LEMMA NextInv ==
  ASSUME PipelineInv, [Next]_vars
  PROVE  PipelineInv'
<1>1. CASE UNCHANGED vars
  <2>1. UNCHANGED <<doc, node, cranker, flight, root, deposit, snapshots>>
    BY <1>1 DEF vars
  <2>2. PipelineTypeOK'
    BY <1>1 DEF vars, PipelineInv, PipelineTypeOK
  <2> QED
    BY <2>1, <2>2, FrameKeeps, DocumentsFrame, NodeFrame, CrankersFrame, FlightFrame, RootFrame
       DEF PipelineInv
<1>2. CASE Next
  <2>1. Keeps
    BY <1>2, StepKeeps
  <2>2. ASSUME NEW p \in Payment, Receive(p) \/ RetrySnapshot(p)
        PROVE  PipelineInv'
    <3>1. <<p, "FUNDING">> \in Work
      BY DEF Work
    <3> QED
      BY <2>1, <2>2, <3>1, ReceiverStep
  <2>3. ASSUME NEW w \in Work, LeaseExpires(w)
        PROVE  PipelineInv'
    BY <2>1, <2>3, ReceiverStep, WorkParts
  <2>4. CASE NodeWorks
    BY <2>1, <2>4, NodeStep
  <2>5. CASE NodeRequestFails \/ NodeRestarts \/ ProvideSnapshots \/ LoseSnapshots
    BY <2>1, <2>5, NodeFaultStep
  <2>6. ASSUME NEW c \in Cranker, CrankerWorks(c)
        PROVE  PipelineInv'
    BY <2>1, <2>6, CrankerStep
  <2>7. ASSUME NEW c \in Cranker, CrankerCrashes(c) \/ CrankerPolls(c)
        PROVE  PipelineInv'
    BY <2>1, <2>7, CrankerLeaseStep
  <2>8. ASSUME NEW c \in Cranker, NEW w \in Work, CrankerLeases(c, w)
        PROVE  PipelineInv'
    BY <2>1, <2>8, CrankerLeaseStep
  <2>9. ASSUME NEW p \in Payment, DepositLands(p) \/ DepositDropped(p) \/ DepositExpires(p)
        PROVE  PipelineInv'
    BY <2>1, <2>9, ChainStep
  <2>10. ASSUME NEW tx \in flight, CreditLands(tx) \/ CreditDropped(tx)
         PROVE  PipelineInv'
    BY <2>1, <2>10, ChainStep
  <2>11. CASE TipMoves \/ WindowPasses
    BY <2>1, <2>11, ChainStep
  <2> QED
    BY <1>2, <2>2, <2>3, <2>4, <2>5, <2>6, <2>7, <2>8, <2>9, <2>10, <2>11 DEF Next
<1> QED
  BY <1>1, <1>2

-----------------------------------------------------------------------------
(* The theorems.                                                           *)

(* The records, the workers and the chain keep their types: in particular  *)
(* the Node's worker never decides about a job it does not have, and only  *)
(* well-formed transitions are signed and sent.                            *)
THEOREM PipelineTypeCorrect == Spec => []PipelineTypeOK
<1>1. Init => PipelineInv
  BY InitInv
<1>2. PipelineInv /\ [Next]_vars => PipelineInv'
  BY NextInv
<1>3. PipelineInv => PipelineTypeOK
  BY DEF PipelineInv
<1> QED
  BY <1>1, <1>2, <1>3, PTL DEF Spec

(* What the Receiver calls CONFIRMED happened on chain, for any number of  *)
(* Crankers and any faults: leases that expire under a worker, reports     *)
(* that are lost or repeated, restarts (store.ts transition, cranker.ts    *)
(* processAuthorizedFunding and processSettlement).                        *)
THEOREM ConfirmedIsAlwaysTrue == Spec => []ConfirmedIsTrue
<1>1. Init => PipelineInv
  BY InitInv
<1>2. PipelineInv /\ [Next]_vars => PipelineInv'
  BY NextInv
<1>3. PipelineInv => ConfirmedIsTrue
  BY DEF PipelineInv
<1> QED
  BY <1>1, <1>2, <1>3, PTL DEF Spec

(* As long as its directory is not lost, the Node has the witness of the   *)
(* shared root on chain, whoever executed the last credit and whether its  *)
(* report arrived or not (hidden_head_witness.py save_candidate).          *)
THEOREM RootAlwaysHasWitness == Spec => []RootHasWitness
<1>1. Init => PipelineInv
  BY InitInv
<1>2. PipelineInv /\ [Next]_vars => PipelineInv'
  BY NextInv
<1>3. PipelineInv => RootHasWitness
  BY DEF PipelineInv
<1> QED
  BY <1>1, <1>2, <1>3, PTL DEF Spec

(* A step that is not a deposit or a credit leaves the money alone.        *)
LEMMA MoneyFrame ==
  ASSUME Next
  PROVE  \/ UNCHANGED <<deposit, root>>
         \/ \E c \in Cranker : SubmitDeposit(c)
         \/ \E p \in Payment : DepositLands(p) \/ DepositDropped(p) \/ DepositExpires(p)
         \/ \E tx \in flight : CreditLands(tx)
<1>1. ASSUME NEW p \in Payment, Receive(p) \/ RetrySnapshot(p)
      PROVE  UNCHANGED <<deposit, root>>
  BY <1>1 DEF Receive, RetrySnapshot, chainVars
<1>2. ASSUME NEW w \in Work, LeaseExpires(w)
      PROVE  UNCHANGED <<deposit, root>>
  BY <1>2 DEF LeaseExpires, chainVars
<1>3. ASSUME NodeWorks
      PROVE  UNCHANGED <<deposit, root>>
  BY <1>3 DEF NodeWorks, NodeWakes, NodeDrained, VerifyFunding, ReadRoots, ProveCredit,
              NodeReports, NodeLeases, chainVars
<1>4. ASSUME NodeRequestFails \/ NodeRestarts \/ ProvideSnapshots \/ LoseSnapshots
      PROVE  UNCHANGED <<deposit, root>>
  BY <1>4 DEF NodeRequestFails, NodeRestarts, ProvideSnapshots, LoseSnapshots, chainVars
<1>5. ASSUME NEW c \in Cranker,
             \/ ConfirmDeposit(c) \/ Authorize(c) \/ CheckRoot(c) \/ SignCredit(c)
             \/ ConfirmCredit(c) \/ CrankerReports(c) \/ CrankerPolls(c) \/ CrankerCrashes(c)
             \/ \E w \in Work : CrankerLeases(c, w)
      PROVE  UNCHANGED <<deposit, root>>
  BY <1>5 DEF ConfirmDeposit, Authorize, CheckRoot, SignCredit, ConfirmCredit, CrankerReports,
              CrankerPolls, CrankerCrashes, CrankerLeases, chainVars
<1>6. ASSUME NEW tx \in flight, CreditDropped(tx)
      PROVE  UNCHANGED <<deposit, root>>
  BY <1>6 DEF CreditDropped
<1>7. ASSUME TipMoves \/ WindowPasses
      PROVE  UNCHANGED <<deposit, root>>
  BY <1>7 DEF TipMoves, WindowPasses
<1> QED
  BY <1>1, <1>2, <1>3, <1>4, <1>5, <1>6, <1>7 DEF Next, CrankerWorks

(* Every step deposits one payment that was not, credits one that was      *)
(* deposited and not credited, or leaves the money alone.                  *)
LEMMA MoneyStep ==
  ASSUME PipelineInv, [Next]_vars
  PROVE  [Money!MoneyNext]_(Money!moneyVars)
<1> DEFINE landed == {p \in Payment : deposit[p] = "landed"}
<1>1. deposit \in [Payment -> {"signed", "sent", "landed", "expired"}]
  BY DEF PipelineInv, PipelineTypeOK
<1>2. ASSUME landed' = landed, root' = root
      PROVE  [Money!MoneyNext]_(Money!moneyVars)
  BY <1>2 DEF Money!moneyVars
<1>3. CASE UNCHANGED <<deposit, root>>
  BY <1>2, <1>3
<1>4. ASSUME NEW c \in Cranker, SubmitDeposit(c)
      PROVE  [Money!MoneyNext]_(Money!moneyVars)
  <2>1. cranker[c].work[1] \in Payment
    BY <1>4, WorkParts DEF SubmitDeposit, PipelineInv, CrankersSound, JobSound
  <2>2. landed' = landed /\ root' = root
    BY <1>1, <1>4, <2>1 DEF SubmitDeposit
  <2> QED
    BY <1>2, <2>2
<1>5. ASSUME NEW p \in Payment, DepositDropped(p) \/ DepositExpires(p)
      PROVE  [Money!MoneyNext]_(Money!moneyVars)
  <2>1. landed' = landed /\ root' = root
    BY <1>1, <1>5 DEF DepositDropped, DepositExpires, DepositBecomes
  <2> QED
    BY <1>2, <2>1
<1>6. ASSUME NEW p \in Payment, DepositLands(p)
      PROVE  [Money!MoneyNext]_(Money!moneyVars)
  <2>1. p \notin landed /\ landed' = landed \cup {p} /\ root' = root
    BY <1>1, <1>6 DEF DepositLands, DepositBecomes
  <2>2. Money!Deposit(p)
    BY <2>1 DEF Money!Deposit
  <2> QED
    BY <2>2 DEF Money!MoneyNext
<1>7. ASSUME NEW tx \in flight, CreditLands(tx)
      PROVE  [Money!MoneyNext]_(Money!moneyVars)
  <2> DEFINE p == tx[2].payment
  <2>1. p \in Payment /\ tx[2].prev = root /\ Backed(tx[2])
    BY <1>7 DEF CreditLands, Executable, PipelineInv, PipelineTypeOK, FlightSound, Transition
  <2>2. p \in landed /\ p \notin {root[i] : i \in DOMAIN root}
    BY <2>1 DEF Backed, Payments
  <2>3. root' = Append(root, p) /\ landed' = landed
    BY <1>7 DEF CreditLands
  <2>4. Money!Credit(p)
    BY <2>2, <2>3 DEF Money!Credit, Money!Pending, Money!CreditedIn
  <2> QED
    BY <2>1, <2>4 DEF Money!MoneyNext
<1>8. CASE UNCHANGED vars
  BY <1>3, <1>8 DEF vars
<1> QED
  BY <1>3, <1>4, <1>5, <1>6, <1>7, <1>8, MoneyFrame

(* The pipeline implements PaymentMoney: over all payments and Crankers a  *)
(* payment enters the reserve at most once, is credited at most once and   *)
(* only after that, and no credit is dropped from the shared root, although *)
(* work is leased, proved, signed and sent again (deposit_asset_v2,        *)
(* credit_gpru_memo_v1, sign_settlement_transaction).                      *)
THEOREM PipelineMovesMoneyOnce == Spec => MovesMoneyOnce
<1>1. Init => PipelineInv
  BY InitInv
<1>2. PipelineInv /\ [Next]_vars => PipelineInv'
  BY NextInv
<1>3. Init => Money!MoneyInit
  BY DEF Init, Money!MoneyInit
<1>4. PipelineInv /\ [Next]_vars => [Money!MoneyNext]_(Money!moneyVars)
  BY MoneyStep
<1> QED
  BY <1>1, <1>2, <1>3, <1>4, PTL DEF Spec, MovesMoneyOnce, Money!MoneySpec

-----------------------------------------------------------------------------
(* Settlements that no report ends.  A proof that is outdated stays so,    *)
(* since the root only grows and neither TIP's root nor the window goes    *)
(* back.  The Node refuses to authorize it, which leaves the work to its   *)
(* lease and the lease to its queue; the Node itself, which could prove it *)
(* again, is given received work only.                                     *)

Outdated(t) == Len(t.prev) < Len(root) \/ t.tip < tip \/ t.window < window
Waiting(w) == doc[w].status \in {"VERIFIED", "CRANKER_LEASED"}
NotAuthorized(w, j) == j.pc \in {"idle", "authorize"} \/ j.work # w

(* A verified settlement with an outdated proof, which no Cranker has been *)
(* authorized for and of which nothing is in flight that could succeed.    *)
Stranded(p) ==
    LET w == <<p, "SETTLEMENT">> IN
    /\ Waiting(w)
    /\ Outdated(doc[w].transition)
    /\ \A c \in Cranker : NotAuthorized(w, cranker[c])
    /\ \A tx \in flight : tx[2].payment = p => Outdated(tx[2])

(* The lease of verified work, if it has one, is a Cranker's, and what was *)
(* not received has none; a funding is received with its settlement.       *)
LeaseSound(d) ==
    /\ d.status = "ABSENT" => ~d.live
    /\ d.status = "VERIFIED" => ~d.live
    /\ d.status = "CRANKER_LEASED" => d.owner \in Cranker
LeasesSound == \A w \in Work : LeaseSound(doc[w])
ReceivedTogether ==
    \A p \in Payment :
        doc[<<p, "FUNDING">>].status = "ABSENT" => doc[<<p, "SETTLEMENT">>].status = "ABSENT"

Advances == Len(root) <= Len(root') /\ tip <= tip' /\ window <= window'

LEMMA StepAdvances ==
  ASSUME PipelineInv, Next
  PROVE  Advances
<1>1. Len(root) \in Nat /\ tip \in Nat /\ window \in Nat
  BY DEF PipelineInv, PipelineTypeOK, Root
<1>2. CASE UNCHANGED <<root, tip, window>>
  BY <1>1, <1>2 DEF Advances
<1>3. ASSUME NEW p \in Payment, Receive(p) \/ RetrySnapshot(p)
      PROVE  UNCHANGED <<root, tip, window>>
  BY <1>3 DEF Receive, RetrySnapshot, chainVars
<1>4. ASSUME NEW w \in Work, LeaseExpires(w)
      PROVE  UNCHANGED <<root, tip, window>>
  BY <1>4 DEF LeaseExpires, chainVars
<1>5. ASSUME NodeWorks
      PROVE  UNCHANGED <<root, tip, window>>
  BY <1>5 DEF NodeWorks, NodeWakes, NodeDrained, VerifyFunding, ReadRoots, ProveCredit,
              NodeReports, NodeLeases, chainVars
<1>6. ASSUME NodeRequestFails \/ NodeRestarts \/ ProvideSnapshots \/ LoseSnapshots
      PROVE  UNCHANGED <<root, tip, window>>
  BY <1>6 DEF NodeRequestFails, NodeRestarts, ProvideSnapshots, LoseSnapshots, chainVars
<1>7. ASSUME NEW c \in Cranker,
             \/ CrankerWorks(c) \/ CrankerPolls(c) \/ CrankerCrashes(c)
             \/ \E w \in Work : CrankerLeases(c, w)
      PROVE  UNCHANGED <<root, tip, window>>
  BY <1>7 DEF CrankerWorks, SubmitDeposit, ConfirmDeposit, Authorize, CheckRoot, SignCredit,
              ConfirmCredit, CrankerReports, CrankerPolls, CrankerCrashes, CrankerLeases, chainVars
<1>8. ASSUME NEW p \in Payment, DepositLands(p) \/ DepositDropped(p) \/ DepositExpires(p)
      PROVE  UNCHANGED <<root, tip, window>>
  BY <1>8 DEF DepositLands, DepositDropped, DepositExpires, DepositBecomes
<1>9. ASSUME NEW tx \in flight, CreditLands(tx)
      PROVE  Advances
  <2>1. tx[2].payment \in Payment
    BY DEF PipelineInv, PipelineTypeOK, Transition
  <2>2. Len(Append(root, tx[2].payment)) = Len(root) + 1
    BY <2>1 DEF PipelineInv, PipelineTypeOK, Root
  <2> QED
    BY <1>1, <1>9, <2>2 DEF CreditLands, Advances
<1>10. ASSUME NEW tx \in flight, CreditDropped(tx)
       PROVE  UNCHANGED <<root, tip, window>>
  BY <1>10 DEF CreditDropped
<1>11. ASSUME TipMoves \/ WindowPasses
       PROVE  Advances
  BY <1>1, <1>11 DEF TipMoves, WindowPasses, Advances
<1> QED
  BY <1>2, <1>3, <1>4, <1>5, <1>6, <1>7, <1>8, <1>9, <1>10, <1>11 DEF Next

LEMMA OutdatedForGood ==
  ASSUME PipelineInv, Advances, PipelineTypeOK', NEW t \in Transition, Outdated(t)
  PROVE  Len(t.prev) < Len(root') \/ t.tip < tip' \/ t.window < window'
<1>1. Len(root) \in Nat /\ tip \in Nat /\ window \in Nat
  BY DEF PipelineInv, PipelineTypeOK, Root
<1>2. Len(root') \in Nat /\ tip' \in Nat /\ window' \in Nat
  BY DEF PipelineTypeOK, Root
<1>3. Len(t.prev) \in Nat /\ t.tip \in Nat /\ t.window \in Nat
  BY DEF Transition, Root
<1> QED
  BY <1>1, <1>2, <1>3 DEF Outdated, Advances

LEMMA OutdatedFails ==
  ASSUME PipelineInv, NEW t \in Transition, Outdated(t)
  PROVE  ~Executable(t)
<1>1. Len(root) \in Nat /\ tip \in Nat /\ window \in Nat
  BY DEF PipelineInv, PipelineTypeOK, Root
<1> QED
  BY <1>1 DEF Outdated, Executable

(* What a step may do to a document: its lease stays sound, and verified   *)
(* work that no Cranker was authorized for keeps waiting with its proof.   *)
Pending(d) == d.status \in {"VERIFIED", "CRANKER_LEASED"}
Waits(d, e) ==
    /\ LeaseSound(e)
    /\ d.status = "ABSENT" <=> e.status = "ABSENT"
    /\ Pending(d) => Pending(e) /\ e.transition = d.transition
KeepsWaiting(w) ==
    /\ LeaseSound(doc'[w])
    /\ doc[w].status = "ABSENT" <=> doc'[w].status = "ABSENT"
    /\ Waiting(w) /\ (\A c \in Cranker : NotAuthorized(w, cranker[c]))
          => Pending(doc'[w]) /\ doc'[w].transition = doc[w].transition

LEMMA WaitsKeepsWaiting ==
  ASSUME NEW w \in Work, Waits(doc[w], doc'[w])
  PROVE  KeepsWaiting(w)
  BY DEF Waits, KeepsWaiting, Waiting, Pending

LEMMA RequeuedWaits ==
  ASSUME doc \in [Work -> Document], NEW w \in Work, LeaseSound(doc[w]),
         NEW leased, NEW queue,
         \/ leased = "NODE_VERIFYING" /\ queue = "RECEIVED"
         \/ leased = "CRANKER_LEASED" /\ queue = "VERIFIED"
  PROVE  Waits(doc[w], Requeued(leased, queue)[w])
<1>1. CASE doc[w].status = leased /\ ~doc[w].live
  <2>1. Requeued(leased, queue)[w] = [doc[w] EXCEPT !.status = queue, !.owner = NULL]
    BY <1>1 DEF Requeued
  <2>2. doc[w] \in Document
    OBVIOUS
  <2>3. /\ Requeued(leased, queue)[w].status = queue
        /\ Requeued(leased, queue)[w].live = doc[w].live
        /\ Requeued(leased, queue)[w].transition = doc[w].transition
    BY <2>1, <2>2 DEF Document
  <2> QED
    BY <1>1, <2>3 DEF Waits, Pending, LeaseSound
<1>2. CASE ~(doc[w].status = leased /\ ~doc[w].live)
  <2>1. Requeued(leased, queue)[w] = doc[w]
    BY <1>2 DEF Requeued
  <2> QED
    BY <2>1 DEF Waits, Pending
<1> QED
  BY <1>1, <1>2

LEMMA LeasedDocument ==
  ASSUME NEW docs \in [Work -> Document], NEW w \in Work, NEW v \in Work, NEW status, NEW owner
  PROVE  LET d == Leased(docs, w, status, owner)[v]
         IN  IF v = w
             THEN d.status = status /\ d.owner = owner /\ d.transition = docs[w].transition
             ELSE d = docs[v]
  BY DEF Leased, Document

LEMMA FinishedDocument ==
  ASSUME doc \in [Work -> Document], NEW w \in Work, NEW v \in Work, NEW status
  PROVE  LET d == Finished(w, status)[v]
         IN  IF v = w THEN d.status = status /\ ~d.live ELSE d = doc[v]
  BY DEF Finished, Document

LEMMA ReceiverWaits ==
  ASSUME PipelineInv, LeasesSound, NEW p \in Payment, NEW u \in Work, NEW w \in Work,
         RetrySnapshot(p) \/ LeaseExpires(u)
  PROVE  Waits(doc[w], doc'[w])
<1> USE DEF PipelineInv, PipelineTypeOK
<1>1. doc[w] \in Document /\ LeaseSound(doc[w])
  BY DEF LeasesSound
<1>2. <<p, "FUNDING">> \in Work /\ <<p, "SETTLEMENT">> \in Work
  BY DEF Work
<1>4. CASE RetrySnapshot(p)
  <2>1. doc'[w] = doc[w] \/ (doc[w].status = "REJECTED" /\ doc'[w].status = "RECEIVED")
    BY <1>1, <1>2, <1>4 DEF RetrySnapshot, Document
  <2> QED
    BY <1>1, <2>1 DEF Waits, Pending, LeaseSound
<1>5. CASE LeaseExpires(u)
  <2>1. /\ doc'[w].status = doc[w].status
        /\ doc'[w].owner = doc[w].owner
        /\ doc'[w].transition = doc[w].transition
        /\ doc'[w] = doc[w] \/ ~doc'[w].live
    BY <1>1, <1>5 DEF LeaseExpires, Document
  <2> QED
    BY <1>1, <2>1 DEF Waits, Pending, LeaseSound
<1> QED
  BY <1>4, <1>5

LEMMA ReceiveWaits ==
  ASSUME PipelineInv, LeasesSound, ReceivedTogether, NEW p \in Payment, Receive(p)
  PROVE  /\ \A w \in Work : LeaseSound(doc'[w]) /\ (Pending(doc[w]) => doc'[w] = doc[w])
         /\ \A q \in Payment : doc'[<<q, "FUNDING">>].status = "ABSENT" =>
                                  doc'[<<q, "SETTLEMENT">>].status = "ABSENT"
<1> USE DEF PipelineInv, PipelineTypeOK
<1>1. \A q \in Payment : <<q, "FUNDING">> \in Work /\ <<q, "SETTLEMENT">> \in Work
  BY DEF Work
<1>2. doc[<<p, "FUNDING">>].status = "ABSENT" /\ doc[<<p, "SETTLEMENT">>].status = "ABSENT"
  BY DEF Receive, ReceivedTogether
<1>3. ASSUME NEW w \in Work
      PROVE  IF w \in {<<p, "FUNDING">>, <<p, "SETTLEMENT">>}
             THEN doc'[w].status = "RECEIVED" /\ doc[w].status = "ABSENT"
             ELSE doc'[w] = doc[w]
  BY <1>1, <1>2 DEF Receive, Document
<1>4. \A w \in Work : LeaseSound(doc'[w]) /\ (Pending(doc[w]) => doc'[w] = doc[w])
  BY <1>3 DEF LeasesSound, LeaseSound, Pending
<1>5. ASSUME NEW q \in Payment, doc'[<<q, "FUNDING">>].status = "ABSENT"
      PROVE  doc'[<<q, "SETTLEMENT">>].status = "ABSENT"
  <2>1. CASE q = p
    BY <1>1, <1>3, <1>5, <2>1
  <2>2. CASE q # p
    <3>1. /\ <<q, "FUNDING">> \notin {<<p, "FUNDING">>, <<p, "SETTLEMENT">>}
          /\ <<q, "SETTLEMENT">> \notin {<<p, "FUNDING">>, <<p, "SETTLEMENT">>}
      BY <2>2
    <3> QED
      BY <1>1, <1>3, <1>5, <3>1 DEF ReceivedTogether
  <2> QED
    BY <2>1, <2>2
<1> QED
  BY <1>4, <1>5

LEMMA NodeWaits ==
  ASSUME PipelineInv, LeasesSound, NodeWorks, NEW w \in Work
  PROVE  Waits(doc[w], doc'[w])
<1> USE DEF PipelineInv, PipelineTypeOK
<1>1. doc[w] \in Document /\ LeaseSound(doc[w])
  BY DEF LeasesSound
<1>2. CASE UNCHANGED doc
  BY <1>1, <1>2 DEF Waits, Pending
<1>3. CASE NodeDrained
  BY <1>1, <1>3, RequeuedWaits DEF NodeDrained
<1>4. ASSUME NEW u \in Work, NodeLeases(u)
      PROVE  Waits(doc[w], doc'[w])
  <2> DEFINE docs == Requeued("NODE_VERIFYING", "RECEIVED")
  <2>1. docs \in [Work -> Document]
    BY RequeuedType
  <2>2. Waits(doc[w], docs[w])
    BY <1>1, RequeuedWaits
  <2>3. docs[u].status = "RECEIVED" /\ doc' = Leased(docs, u, "NODE_VERIFYING", "node")
    BY <1>4 DEF NodeLeases, Eligible
  <2> HIDE DEF docs
  <2>4. CASE w # u
    BY <2>1, <2>2, <2>3, <2>4, LeasedDocument
  <2>5. CASE w = u
    <3>1. doc'[w].status = "NODE_VERIFYING"
      BY <2>1, <2>3, <2>5, LeasedDocument
    <3> QED
      BY <2>2, <2>3, <2>5, <3>1 DEF Waits, Pending, LeaseSound
  <2> QED
    BY <2>4, <2>5
<1>5. CASE NodeReports
  <2>1. CASE Holds(node.work, "node") /\ doc' = NodeDecision
    <3> DEFINE u == node.work
    <3>1. u \in Work
      BY <1>5 DEF NodeReports, NodeSound
    <3>2. ~Pending(doc[u]) /\ doc[u].status # "ABSENT"
      BY <2>1, <3>1, NameAssumption DEF Holds, LeasesSound, LeaseSound, Pending
    <3> DEFINE f == Finished(u, node.decision)
    <3>3. f \in [Work -> Document]
      BY <3>1, FinishedType DEF NodeState
    <3>4. CASE w # u
      <4>1. doc'[w] = f[w]
        BY <2>1, <3>3, <3>4 DEF NodeDecision
      <4> QED
        BY <1>1, <3>1, <3>4, <4>1, FinishedDocument DEF Waits, Pending
    <3>5. CASE w = u
      <4>1. doc'[u].live = f[u].live /\ doc'[u].status = f[u].status
        BY <2>1, <3>1, <3>3 DEF NodeDecision, Document
      <4>2. ~doc'[u].live /\ doc'[u].status \in {"VERIFIED", "REJECTED"}
        BY <3>1, <4>1, FinishedDocument DEF NodeState
      <4> QED
        BY <3>2, <3>5, <4>2 DEF Waits, LeaseSound
    <3> QED
      BY <3>4, <3>5
  <2> QED
    BY <1>2, <1>5, <2>1 DEF NodeReports
<1>6. CASE NodeWakes \/ VerifyFunding \/ ReadRoots \/ ProveCredit
  BY <1>2, <1>6 DEF NodeWakes, VerifyFunding, ReadRoots, ProveCredit, receiverVars
<1> QED
  BY <1>3, <1>4, <1>5, <1>6 DEF NodeWorks

LEMMA CrankerWaits ==
  ASSUME PipelineInv, LeasesSound, NEW c \in Cranker, NEW w \in Work,
         \/ CrankerWorks(c) \/ CrankerPolls(c) \/ CrankerCrashes(c)
         \/ \E u \in Work : CrankerLeases(c, u)
  PROVE  KeepsWaiting(w)
<1> USE DEF PipelineInv, PipelineTypeOK
<1>1. doc[w] \in Document /\ LeaseSound(doc[w])
  BY DEF LeasesSound
<1>2. CASE UNCHANGED doc
  BY <1>1, <1>2 DEF KeepsWaiting, Pending, Waiting
<1>3. CASE CrankerPolls(c)
  BY <1>1, <1>3, RequeuedWaits, WaitsKeepsWaiting DEF CrankerPolls
<1>4. ASSUME NEW u \in Work, CrankerLeases(c, u)
      PROVE  KeepsWaiting(w)
  <2> DEFINE docs == Requeued("CRANKER_LEASED", "VERIFIED")
  <2>1. docs \in [Work -> Document]
    BY RequeuedType
  <2>2. Waits(doc[w], docs[w])
    BY <1>1, RequeuedWaits
  <2>3. docs[u].status = "VERIFIED" /\ doc' = Leased(docs, u, "CRANKER_LEASED", c)
    BY <1>4 DEF CrankerLeases, Eligible
  <2> HIDE DEF docs
  <2>4. CASE w # u
    BY <2>1, <2>2, <2>3, <2>4, LeasedDocument, WaitsKeepsWaiting
  <2>5. CASE w = u
    <3>1. /\ doc'[w].status = "CRANKER_LEASED" /\ doc'[w].owner = c
          /\ doc'[w].transition = docs[w].transition
      BY <2>1, <2>3, <2>5, LeasedDocument
    <3> QED
      BY <2>2, <2>3, <2>5, <3>1, WaitsKeepsWaiting DEF Waits, Pending, LeaseSound
  <2> QED
    BY <2>4, <2>5
<1>5. CASE CrankerReports(c)
  <2>1. CASE Holds(cranker[c].work, c) /\ ~UNCHANGED doc
    <3> DEFINE u == cranker[c].work
    <3>1. PICK status \in {"CONFIRMED", "FAILED"} : doc' = Finished(u, status)
      BY <1>5, <2>1 DEF CrankerReports, receiverVars
    <3>2. u \in Work /\ cranker[c].pc \in {"report", "fail"}
      BY <1>5 DEF CrankerReports, CrankersSound, JobSound
    <3>3. CASE w # u
      BY <1>1, <3>1, <3>2, <3>3, FinishedDocument DEF KeepsWaiting, Pending, Waiting
    <3>4. CASE w = u
      <4>1. ~NotAuthorized(w, cranker[c])
        BY <3>2, <3>4 DEF NotAuthorized
      <4>2. doc'[w].status = status /\ ~doc'[w].live
        BY <3>1, <3>2, <3>4, FinishedDocument
      <4>3. doc[w].status # "ABSENT"
        BY <1>1, <2>1, <3>4 DEF Holds, LeaseSound
      <4> QED
        BY <3>1, <4>1, <4>2, <4>3 DEF KeepsWaiting, LeaseSound
    <3> QED
      BY <3>3, <3>4
  <2> QED
    BY <1>2, <1>5, <2>1 DEF CrankerReports, receiverVars
<1>6. CASE \/ SubmitDeposit(c) \/ ConfirmDeposit(c) \/ Authorize(c) \/ CheckRoot(c)
           \/ SignCredit(c) \/ ConfirmCredit(c) \/ CrankerCrashes(c)
  BY <1>2, <1>6 DEF SubmitDeposit, ConfirmDeposit, Authorize, CheckRoot, SignCredit,
                    ConfirmCredit, CrankerCrashes, receiverVars
<1> QED
  BY <1>3, <1>4, <1>5, <1>6 DEF CrankerWorks

(* No step ends the wait of verified work, and leases stay sound.          *)
LEMMA StepWaits ==
  ASSUME PipelineInv, LeasesSound, ReceivedTogether, Next
  PROVE  /\ LeasesSound' /\ ReceivedTogether'
         /\ \A w \in Work : Waiting(w) /\ (\A c \in Cranker : NotAuthorized(w, cranker[c]))
                => Waiting(w)' /\ doc'[w].transition = doc[w].transition
<1> DEFINE Goal ==
      /\ LeasesSound' /\ ReceivedTogether'
      /\ \A w \in Work : Waiting(w) /\ (\A c \in Cranker : NotAuthorized(w, cranker[c]))
             => Waiting(w)' /\ doc'[w].transition = doc[w].transition
<1> SUFFICES Goal
  OBVIOUS
<1>1. ASSUME \A w \in Work : KeepsWaiting(w)
      PROVE  Goal
  <2>1. \A p \in Payment : <<p, "FUNDING">> \in Work /\ <<p, "SETTLEMENT">> \in Work
    BY DEF Work
  <2>2. LeasesSound'
    BY <1>1 DEF KeepsWaiting, LeasesSound, LeaseSound
  <2>3. ReceivedTogether'
    BY <1>1, <2>1 DEF KeepsWaiting, ReceivedTogether
  <2> QED
    BY <1>1, <2>2, <2>3 DEF KeepsWaiting, Waiting, Pending
<1>2. ASSUME \A w \in Work : Waits(doc[w], doc'[w])
      PROVE  Goal
  BY <1>1, <1>2, WaitsKeepsWaiting
<1>3. ASSUME UNCHANGED doc
      PROVE  Goal
  BY <1>2, <1>3 DEF Waits, Pending, LeasesSound
<1>4. ASSUME NEW p \in Payment, Receive(p)
      PROVE  Goal
  <2>1. LeasesSound' /\ ReceivedTogether'
    BY <1>4, ReceiveWaits DEF LeasesSound, LeaseSound, ReceivedTogether
  <2> QED
    BY <1>4, <2>1, ReceiveWaits DEF Waiting, Pending
<1>5. ASSUME NEW p \in Payment, RetrySnapshot(p)
      PROVE  Goal
  <2>1. <<p, "FUNDING">> \in Work
    BY DEF Work
  <2> QED
    BY <1>2, <1>5, <2>1, ReceiverWaits
<1>6. ASSUME NEW u \in Work, LeaseExpires(u)
      PROVE  Goal
  BY <1>2, <1>6, ReceiverWaits, WorkParts
<1>7. CASE NodeWorks
  BY <1>2, <1>7, NodeWaits
<1>8. CASE NodeRequestFails \/ NodeRestarts \/ ProvideSnapshots \/ LoseSnapshots
  BY <1>3, <1>8 DEF NodeRequestFails, NodeRestarts, ProvideSnapshots, LoseSnapshots, receiverVars
<1>9. ASSUME NEW c \in Cranker,
             \/ CrankerWorks(c) \/ CrankerPolls(c) \/ CrankerCrashes(c)
             \/ \E u \in Work : CrankerLeases(c, u)
      PROVE  Goal
  BY <1>1, <1>9, CrankerWaits
<1>10. ASSUME NEW p \in Payment, DepositLands(p) \/ DepositDropped(p) \/ DepositExpires(p)
       PROVE  Goal
  BY <1>3, <1>10 DEF DepositLands, DepositDropped, DepositExpires, DepositBecomes, receiverVars
<1>11. ASSUME NEW tx \in flight, CreditLands(tx) \/ CreditDropped(tx)
       PROVE  Goal
  BY <1>3, <1>11 DEF CreditLands, CreditDropped, receiverVars
<1>12. CASE TipMoves \/ WindowPasses
  BY <1>3, <1>12 DEF TipMoves, WindowPasses, receiverVars
<1> HIDE DEF Goal
<1> QED
  BY <1>4, <1>5, <1>6, <1>7, <1>8, <1>9, <1>10, <1>11, <1>12 DEF Next

LEMMA StrandedParts ==
  ASSUME PipelineInv, NEW p \in Payment, Stranded(p)
  PROVE  LET w == <<p, "SETTLEMENT">>
         IN  /\ w \in Work /\ IsSettlement(w) /\ Waiting(w)
             /\ doc[w].transition \in Transition /\ Outdated(doc[w].transition)
             /\ \A c \in Cranker : NotAuthorized(w, cranker[c])
<1> DEFINE w == <<p, "SETTLEMENT">>
<1>1. w \in Work /\ IsSettlement(w)
  BY DEF Work, IsSettlement
<1>2. /\ Waiting(w) /\ Outdated(doc[w].transition)
      /\ \A c \in Cranker : NotAuthorized(w, cranker[c])
  BY DEF Stranded
<1>3. doc[w].transition \in Transition
  BY <1>1, <1>2 DEF Waiting, PipelineInv, DocumentsSound, Sound
<1> QED
  BY <1>1, <1>2, <1>3

(* The Node authorizes nobody for an outdated proof.                       *)
LEMMA CrankerStaysOut ==
  ASSUME PipelineInv, NEW p \in Payment, Stranded(p), NEW c \in Cranker,
         \/ CrankerWorks(c) \/ CrankerPolls(c) \/ CrankerCrashes(c)
         \/ \E u \in Work : CrankerLeases(c, u),
         NEW d \in Cranker
  PROVE  NotAuthorized(<<p, "SETTLEMENT">>, cranker'[d])
<1> DEFINE w == <<p, "SETTLEMENT">>
<1>1. /\ w \in Work /\ IsSettlement(w)
      /\ doc[w].transition \in Transition /\ Outdated(doc[w].transition)
      /\ NotAuthorized(w, cranker[c]) /\ NotAuthorized(w, cranker[d])
  BY StrandedParts
<1>2. cranker \in [Cranker -> CrankerState]
  BY DEF PipelineInv, PipelineTypeOK
<1> SUFFICES NotAuthorized(w, cranker'[d])
  OBVIOUS
<1> HIDE DEF w
<1>3. ASSUME cranker'[d] = Idle
      PROVE  NotAuthorized(w, cranker'[d])
  BY <1>3 DEF NotAuthorized, Idle
<1>4. ASSUME cranker'[d] = cranker[d]
      PROVE  NotAuthorized(w, cranker'[d])
  BY <1>1, <1>4
<1>5. ASSUME cranker[d].work # w, cranker'[d].work = cranker[d].work
      PROVE  NotAuthorized(w, cranker'[d])
  BY <1>5 DEF NotAuthorized
<1>6. ASSUME NEW u \in Work, CrankerLeases(c, u)
      PROVE  NotAuthorized(w, cranker'[d])
  <2>1. CASE UNCHANGED cranker \/ d # c
    BY <1>2, <1>4, <1>6, <2>1 DEF CrankerLeases
  <2>2. CASE ~UNCHANGED cranker /\ d = c
    <3>1. cranker'[c] = [Idle EXCEPT !.pc = IF IsSettlement(u) THEN "authorize" ELSE "submit",
                                     !.work = u]
      BY <1>2, <1>6, <2>2 DEF CrankerLeases
    <3>2. cranker'[c].work = u /\ (IsSettlement(u) => cranker'[c].pc = "authorize")
      BY <3>1 DEF Idle
    <3> QED
      BY <1>1, <2>2, <3>2 DEF NotAuthorized
  <2> QED
    BY <2>1, <2>2
<1>7. CASE CrankerPolls(c)
  BY <1>4, <1>7 DEF CrankerPolls
<1>8. CASE CrankerCrashes(c)
  BY <1>2, <1>3, <1>4, <1>8 DEF CrankerCrashes
<1>9. CASE Authorize(c)
  <2>1. CASE d # c
    BY <1>2, <1>4, <1>9, <2>1 DEF Authorize
  <2>2. CASE d = c /\ cranker[c].work = w
    <3>1. ~Authorized(w, c, doc[w].transition)
      BY <1>1, OutdatedFails DEF Authorized
    <3>2. cranker' = [cranker EXCEPT ![c] = Idle]
      BY <1>9, <2>2, <3>1 DEF Authorize
    <3> QED
      BY <1>2, <1>3, <2>2, <3>2
  <2>3. CASE d = c /\ cranker[c].work # w
    <3>1. cranker'[c] = Idle \/ cranker'[c].work = cranker[c].work
      BY <1>2, <1>9 DEF Authorize, CrankerState
    <3> QED
      BY <1>3, <1>5, <2>3, <3>1
  <2> QED
    BY <2>1, <2>2, <2>3
<1>10. CASE \/ SubmitDeposit(c) \/ ConfirmDeposit(c) \/ CheckRoot(c)
            \/ SignCredit(c) \/ ConfirmCredit(c)
  <2>1. cranker[c].work # w
    BY <1>1, <1>10 DEF SubmitDeposit, ConfirmDeposit, CheckRoot, SignCredit, ConfirmCredit,
                       NotAuthorized
  <2>2. PICK pc : cranker' = [cranker EXCEPT ![c].pc = pc]
    BY <1>10 DEF SubmitDeposit, ConfirmDeposit, CheckRoot, SignCredit, ConfirmCredit, Goto
  <2>3. cranker'[d].work = cranker[d].work /\ (d # c => cranker'[d] = cranker[d])
    BY <1>2, <2>2 DEF CrankerState
  <2> QED
    BY <1>4, <1>5, <2>1, <2>3
<1>11. CASE CrankerReports(c)
  <2>1. cranker[c].work # w
    BY <1>1, <1>11 DEF CrankerReports, NotAuthorized
  <2>2. CASE cranker' = [cranker EXCEPT ![c] = Idle]
    BY <1>2, <1>3, <1>4, <2>2
  <2>3. CASE Unanswered(c)
    <3>1. CASE d # c
      BY <1>2, <1>4, <2>3, <3>1 DEF Unanswered
    <3>2. CASE d = c
      <4>1. cranker'[c] = Idle \/ cranker'[c] = [cranker[c] EXCEPT !.pc = "fail"]
        BY <1>2, <2>3 DEF Unanswered
      <4>2. cranker'[c] = Idle \/ cranker'[c].work = cranker[c].work
        BY <1>2, <4>1 DEF CrankerState
      <4> QED
        BY <1>3, <1>5, <2>1, <3>2, <4>2
    <3> QED
      BY <3>1, <3>2
  <2> QED
    BY <1>11, <2>2, <2>3 DEF CrankerReports
<1> QED
  BY <1>6, <1>7, <1>8, <1>9, <1>10, <1>11 DEF CrankerWorks

(* Nothing that could still succeed is sent, and what is credited is       *)
(* another payment.                                                        *)
LEMMA FlightStaysOutdated ==
  ASSUME PipelineInv, NEW p \in Payment, Stranded(p), Next
  PROVE  /\ \A tx \in flight' : tx[2].payment = p => tx \in flight
         /\ p \in Credited' => p \in Credited
<1> DEFINE w == <<p, "SETTLEMENT">>
           Goal == /\ \A tx \in flight' : tx[2].payment = p => tx \in flight
                   /\ p \in Credited' => p \in Credited
<1> SUFFICES Goal
  OBVIOUS
<1>1. ASSUME UNCHANGED <<flight, root>>
      PROVE  Goal
  BY <1>1 DEF Credited
<1>2. ASSUME NEW c \in Cranker, SignCredit(c)
      PROVE  Goal
  <2> DEFINE t == cranker[c].transition
  <2>1. UNCHANGED root /\ flight' \subseteq flight \cup {<<c, t>>}
    BY <1>2 DEF SignCredit
  <2>2. /\ cranker[c].work \in Work /\ IsSettlement(cranker[c].work)
        /\ t.payment = cranker[c].work[1]
    BY <1>2 DEF SignCredit, PipelineInv, CrankersSound, JobSound, Sound
  <2>3. cranker[c].work # w
    BY <1>2, StrandedParts DEF SignCredit, NotAuthorized
  <2>4. t.payment # p
    BY <2>2, <2>3, WorkParts DEF IsSettlement
  <2>5. <<c, t>>[2] = t
    OBVIOUS
  <2> HIDE DEF t
  <2> QED
    BY <2>1, <2>4, <2>5 DEF Credited
<1>3. ASSUME NEW tx \in flight, CreditDropped(tx)
      PROVE  Goal
  BY <1>3 DEF CreditDropped, Credited
<1>4. ASSUME NEW tx \in flight, CreditLands(tx)
      PROVE  Goal
  <2>1. tx[2] \in Transition /\ tx[2].payment \in Payment /\ root \in Root
    BY DEF PipelineInv, PipelineTypeOK, Transition
  <2>2. tx[2].payment # p
    BY <1>4, <2>1, OutdatedFails DEF CreditLands, Stranded
  <2>3. Payments(root') = Payments(root) \cup {tx[2].payment}
    BY <1>4, <2>1, AppendAdds DEF CreditLands
  <2>4. Credited = Payments(root) /\ Credited' = Payments(root')
    BY DEF Credited, Payments
  <2> QED
    BY <1>4, <2>2, <2>3, <2>4 DEF CreditLands
<1>5. ASSUME NEW q \in Payment, Receive(q) \/ RetrySnapshot(q)
      PROVE  Goal
  BY <1>1, <1>5 DEF Receive, RetrySnapshot, chainVars
<1>6. ASSUME NEW u \in Work, LeaseExpires(u)
      PROVE  Goal
  BY <1>1, <1>6 DEF LeaseExpires, chainVars
<1>7. CASE NodeWorks
  BY <1>1, <1>7 DEF NodeWorks, NodeWakes, NodeDrained, VerifyFunding, ReadRoots, ProveCredit,
                    NodeReports, NodeLeases, chainVars
<1>8. CASE NodeRequestFails \/ NodeRestarts \/ ProvideSnapshots \/ LoseSnapshots
  BY <1>1, <1>8 DEF NodeRequestFails, NodeRestarts, ProvideSnapshots, LoseSnapshots, chainVars
<1>9. ASSUME NEW c \in Cranker,
             \/ SubmitDeposit(c) \/ ConfirmDeposit(c) \/ Authorize(c) \/ CheckRoot(c)
             \/ ConfirmCredit(c) \/ CrankerReports(c) \/ CrankerPolls(c) \/ CrankerCrashes(c)
             \/ \E u \in Work : CrankerLeases(c, u)
      PROVE  Goal
  BY <1>1, <1>9 DEF SubmitDeposit, ConfirmDeposit, Authorize, CheckRoot, ConfirmCredit,
                    CrankerReports, CrankerPolls, CrankerCrashes, CrankerLeases, chainVars
<1>10. ASSUME NEW q \in Payment, DepositLands(q) \/ DepositDropped(q) \/ DepositExpires(q)
       PROVE  Goal
  BY <1>1, <1>10 DEF DepositLands, DepositDropped, DepositExpires, DepositBecomes
<1>11. CASE TipMoves \/ WindowPasses
  BY <1>1, <1>11 DEF TipMoves, WindowPasses
<1> HIDE DEF Goal
<1> QED
  BY <1>2, <1>3, <1>4, <1>5, <1>6, <1>7, <1>8, <1>9, <1>10, <1>11 DEF Next, CrankerWorks

(* The daemons change their state in steps of their own only.              *)
LEMMA CrankersMove ==
  ASSUME Next
  PROVE  \/ UNCHANGED cranker
         \/ \E c \in Cranker :
               \/ CrankerWorks(c) \/ CrankerPolls(c) \/ CrankerCrashes(c)
               \/ \E w \in Work : CrankerLeases(c, w)
<1>1. ASSUME NEW p \in Payment,
             \/ Receive(p) \/ RetrySnapshot(p)
             \/ DepositLands(p) \/ DepositDropped(p) \/ DepositExpires(p)
      PROVE  UNCHANGED cranker
  BY <1>1 DEF Receive, RetrySnapshot, DepositLands, DepositDropped, DepositExpires, DepositBecomes
<1>2. ASSUME NEW w \in Work, LeaseExpires(w)
      PROVE  UNCHANGED cranker
  BY <1>2 DEF LeaseExpires
<1>3. ASSUME NodeWorks
      PROVE  UNCHANGED cranker
  BY <1>3 DEF NodeWorks, NodeWakes, NodeDrained, VerifyFunding, ReadRoots, ProveCredit,
              NodeReports, NodeLeases
<1>4. ASSUME \/ NodeRequestFails \/ NodeRestarts \/ ProvideSnapshots \/ LoseSnapshots
             \/ TipMoves \/ WindowPasses
      PROVE  UNCHANGED cranker
  BY <1>4 DEF NodeRequestFails, NodeRestarts, ProvideSnapshots, LoseSnapshots, TipMoves,
              WindowPasses
<1>5. ASSUME NEW tx \in flight, CreditLands(tx) \/ CreditDropped(tx)
      PROVE  UNCHANGED cranker
  BY <1>5 DEF CreditLands, CreditDropped
<1> QED
  BY <1>1, <1>2, <1>3, <1>4, <1>5 DEF Next

(* A stranded settlement stays stranded, and its payment uncredited.       *)
StrandedStays ==
    \A p \in Payment :
        Stranded(p) => Stranded(p)' /\ (p \in Credited' => p \in Credited)

LEMMA StrandedStep ==
  ASSUME PipelineInv, LeasesSound, ReceivedTogether, Next, NEW p \in Payment, Stranded(p)
  PROVE  Stranded(p)' /\ (p \in Credited' => p \in Credited)
<1> DEFINE w == <<p, "SETTLEMENT">>
<1>1. PipelineTypeOK' /\ Advances
  BY NextInv, StepAdvances DEF PipelineInv
<1>2. /\ w \in Work /\ Waiting(w)
      /\ doc[w].transition \in Transition /\ Outdated(doc[w].transition)
      /\ \A c \in Cranker : NotAuthorized(w, cranker[c])
  BY StrandedParts
<1>3. Waiting(w)' /\ doc'[w].transition = doc[w].transition
  BY <1>2, StepWaits
<1>4. Outdated(doc[w].transition)'
  BY <1>1, <1>2, <1>3, OutdatedForGood DEF Outdated
<1>5. ASSUME NEW c \in Cranker
      PROVE  NotAuthorized(w, cranker'[c])
  BY <1>2, CrankersMove, CrankerStaysOut
<1>6. /\ \A tx \in flight' : tx[2].payment = p => tx \in flight
      /\ p \in Credited' => p \in Credited
  BY FlightStaysOutdated
<1>7. ASSUME NEW tx \in flight', tx[2].payment = p
      PROVE  Len(tx[2].prev) < Len(root') \/ tx[2].tip < tip' \/ tx[2].window < window'
  <2>1. tx \in flight /\ Outdated(tx[2])
    BY <1>6, <1>7 DEF Stranded
  <2>2. tx[2] \in Transition
    BY <2>1 DEF PipelineInv, PipelineTypeOK
  <2> QED
    BY <1>1, <2>1, <2>2, OutdatedForGood
<1>8. Stranded(p)'
  BY <1>3, <1>4, <1>5, <1>7 DEF Stranded, Outdated, NotAuthorized
<1> QED
  BY <1>6, <1>8

(* No requeueing rescues it: once a verified settlement's proof is         *)
(* outdated and no Cranker has been authorized for it, no lease, poll,     *)
(* retry, restart or credit ever gives it an outcome, and its payment,     *)
(* whose deposit is in the reserve, is never credited.  This is why        *)
(* SettlementsAreNotStranded fails (store.ts lease and transition,         *)
(* _construct_verified_tcap_transition).                                   *)
THEOREM StrandedForGood ==
    Spec => [](\A p \in Payment : Stranded(p) => deposit[p] = "landed") /\ [][StrandedStays]_vars
<1> DEFINE I == PipelineInv /\ LeasesSound /\ ReceivedTogether
<1>1. Init => I
  <2> SUFFICES ASSUME Init PROVE I
    OBVIOUS
  <2>1. \A u \in Work : doc[u].status = "ABSENT" /\ doc[u].live = FALSE
    BY DEF Init, Absent
  <2>2. \A p \in Payment : <<p, "FUNDING">> \in Work /\ <<p, "SETTLEMENT">> \in Work
    BY DEF Work
  <2> QED
    BY <2>1, <2>2, InitInv DEF LeasesSound, LeaseSound, ReceivedTogether
<1>2. I /\ [Next]_vars => I'
  <2>1. ASSUME I, UNCHANGED vars PROVE LeasesSound' /\ ReceivedTogether'
    BY <2>1 DEF vars, LeasesSound, LeaseSound, ReceivedTogether
  <2> QED
    BY <2>1, NextInv, StepWaits
<1>3. I /\ [Next]_vars => [StrandedStays]_vars
  BY StrandedStep DEF StrandedStays
<1>4. I => \A p \in Payment : Stranded(p) => deposit[p] = "landed"
  <2> SUFFICES ASSUME I, NEW p \in Payment, Stranded(p) PROVE deposit[p] = "landed"
    OBVIOUS
  <2> DEFINE w == <<p, "SETTLEMENT">>
  <2>1. w \in Work /\ IsSettlement(w) /\ Waiting(w)
    BY StrandedParts
  <2>2. Sound(doc[w].transition, w)
    BY <2>1 DEF Waiting, PipelineInv, DocumentsSound
  <2> QED
    BY <2>2 DEF Sound, Backed
<1> HIDE DEF I
<1> QED
  BY <1>1, <1>2, <1>3, <1>4, PTL DEF Spec
=============================================================================
