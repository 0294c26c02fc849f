---------------------------- MODULE TcapReserve ----------------------------
(***************************************************************************)
(* The TCAP program's reserve of one asset (programs/tcap-protocol): the   *)
(* token vault, the liability counters of TcapReserveStateV1, the funding  *)
(* claims, the one-time TIPs with their balances and the exit permits.     *)
(*                                                                         *)
(* An instruction is atomic, but its arguments were computed from accounts *)
(* read earlier, and the transaction that carries it may arrive late, not  *)
(* at all or again: Prepare puts one in the outbox and Land executes it.   *)
(*                                                                         *)
(* Abstractions.  Keys and hashes are names.  Authorizations are genuine:  *)
(* who may sign is not modelled, what a signed transaction may do is.  The *)
(* shared root is the sequence of memo credits it commits to.  Amounts are *)
(* bounded by MaxAssets, so u64 does not overflow.  transfer_pending and   *)
(* the withdrawal and refund liabilities have no entry in the module: the  *)
(* instructions that would raise them are closed by their proof gate, so   *)
(* they stay 0, and credit_one_time_tip_transfer, which needs              *)
(* transfer_pending, cannot execute.  The seals of a TIP are left out.     *)
(*                                                                         *)
(* The program keeps one such reserve per asset.  The module shows one of  *)
(* them and the only place where another asset reaches it: an exit debit   *)
(* takes whatever reserve_state it is given and any mint in its arguments, *)
(* so a debit of a TIP of this asset may name the reserve or the mint of   *)
(* another one, and a debit of another asset's TIP may name ours.          *)
(***************************************************************************)
EXTENDS Integers, Sequences, FiniteSets, Functions

CONSTANTS
    Depositor,    \* wallets that deposit
    FundingId,    \* funding identifiers
    Tip,          \* one-time TIPs, named by their first commitment
    LegacyTip,    \* TIN TIPs governance gives an opening balance
    Nonce,        \* nonces, nullifiers and permit nonces
    GateState,    \* the gate settings governance goes through
    NULL,
    MaxAssets,    \* bound: tokens in the vault
    MaxSequence,  \* bound: moves of a TIP, and memo credits
    MaxPrepared,  \* bound: transactions prepared at a time
    MaxGifts,     \* bound: tokens sent to the vault directly
    MaxForeign    \* bound: exit debits of other assets' TIPs that reach this one

ASSUME BoundAssumption ==
    /\ MaxAssets \in Nat /\ MaxSequence \in Nat /\ MaxPrepared \in Nat /\ MaxGifts \in Nat
    /\ MaxForeign \in Nat

VARIABLES
    vault,        \* balance of the vault's token account
    reserve,      \* TcapReserveStateV1's counters
    claims,       \* claims[f]: the FundingClaimV1 of identifier f
    nonces,       \* nonces[d]: next_nonce of depositor d
    fundingRoot,  \* FundingRootV1: the commitments it chains
    tips,         \* tips[t]: the TcapOneTimeTip t
    liability,    \* liability[t]: TcapTipLiabilityV2 of t
    permits,      \* permits[n]: the TcapExitPermitV1 of nonce n
    root,         \* the shared root: the memo credits in it
    gates,        \* what governance leaves open
    outbox,       \* transactions prepared and still valid
    gifts         \* tokens that reached the vault by a plain transfer

fundingVars == <<claims, nonces, fundingRoot>>
tipVars == <<tips, liability>>
vars == <<vault, reserve, fundingVars, tipVars, permits, root, gates, outbox, gifts>>

Amount == 1..MaxAssets
Optional(S) == S \cup {NULL}

(* protocol: !config.paused.  asset: the entry is active, approved, not    *)
(* paused and not deprecated.  deposits: deposits_enabled.  funding:       *)
(* funding_enabled of the reserve.  reserve and root: not paused.          *)
(* registry: not frozen.                                                   *)
Gate == {"protocol", "asset", "deposits", "funding", "reserve", "root", "registry"}
ASSUME GateAssumption == GateState \subseteq SUBSET Gate

Reserve == [actual_assets : Nat, pending : Nat, settled : Nat]
Claim == [depositor : Depositor, amount : Amount, nonce : Nat, sequence : Nat]
OneTimeTip == [commitment : Tip, sequence : Nat, nullifier : Optional(Nonce), consumed : BOOLEAN]
Balance == [available : Nat, spent : Nat]
(* What an exit debit names of this asset: its reserve_state, its mint.    *)
Names == SUBSET {"reserve", "mint"}
(* tip is NULL when the TIP is of another asset.  The account records only *)
(* the mint; that the debit named this reserve is history.                 *)
Permit == [tip : Optional(Tip), amount : Amount, names : Names, consumed : BOOLEAN]
Memo == [nullifier : Nonce, amount : Amount]

(* An account that does not exist is none of the accounts, and there are   *)
(* finitely many of them.                                                  *)
ASSUME AbsentAssumption ==
    /\ NULL \notin Claim /\ NULL \notin OneTimeTip /\ NULL \notin Balance /\ NULL \notin Permit
    /\ NULL \notin Tip
ASSUME FiniteAssumption == IsFiniteSet(Nonce) /\ IsFiniteSet(Tip \cup LegacyTip)

TotalLiabilities == reserve.pending + reserve.settled

-----------------------------------------------------------------------------
(* Deposits.                                                               *)

DepositsOpen ==
    /\ {"protocol", "asset", "deposits", "funding", "reserve"} \subseteq gates
    /\ reserve.actual_assets = vault

(* deposit_asset_v2 *)
DepositAsset(a) ==
    /\ DepositsOpen
    /\ vault + a <= MaxAssets
    /\ vault' = vault + a
    /\ reserve' = [reserve EXCEPT !.actual_assets = vault + a, !.pending = @ + a]
    /\ UNCHANGED <<fundingVars, tipVars, permits, root, gates, outbox, gifts>>

(* next_reserve_funding_accounting *)
FundedReserve(a) == [reserve EXCEPT !.actual_assets = @ + a, !.pending = @ + a]
Solvent(r) == r.actual_assets >= r.pending

(* deposit_with_funding_commitment_v2: a claim per identifier, the next    *)
(* nonce of the depositor and the next link of the funding root.           *)
LandFunding(tx) ==
    /\ DepositsOpen /\ "registry" \in gates
    /\ claims[tx.id] = NULL
    /\ tx.nonce = nonces[tx.by]
    /\ Solvent(FundedReserve(tx.amount))
    /\ vault + tx.amount <= MaxAssets
    /\ vault' = vault + tx.amount
    /\ reserve' = FundedReserve(tx.amount)
    /\ fundingRoot' = Append(fundingRoot, tx.id)
    /\ claims' = [claims EXCEPT ![tx.id] =
          [depositor |-> tx.by, amount |-> tx.amount, nonce |-> tx.nonce,
           sequence |-> Len(fundingRoot) + 1]]
    /\ nonces' = [nonces EXCEPT ![tx.by] = tx.nonce + 1]
    /\ UNCHANGED <<tipVars, permits, root, gates, outbox, gifts>>

-----------------------------------------------------------------------------
(* Credits.                                                                *)

Settle(a) == [reserve EXCEPT !.pending = @ - a, !.settled = @ + a]

(* credit_gpru_memo_v1: on the root the proof was made for.                *)
LandMemo(tx) ==
    /\ {"protocol", "asset", "reserve", "root"} \subseteq gates
    /\ tx.prev = root
    /\ reserve.pending >= tx.amount
    /\ reserve.actual_assets >= TotalLiabilities
    /\ reserve' = Settle(tx.amount)
    /\ root' = Append(root, [nullifier |-> tx.nonce, amount |-> tx.amount])
    /\ UNCHANGED <<vault, fundingVars, tipVars, permits, gates, outbox, gifts>>

MovedTip(tx, commitment) ==
    [tips[tx.tip] EXCEPT !.commitment = commitment, !.sequence = tx.sequence,
                         !.nullifier = tx.nonce]

MayCredit(tx) ==
    /\ {"protocol", "asset"} \subseteq gates
    /\ tips[tx.tip] # NULL /\ liability[tx.tip] # NULL
    /\ tx.previous = tips[tx.tip].commitment
    /\ tx.nonce # tips[tx.tip].nullifier
    /\ reserve.pending >= tx.amount
    /\ reserve.actual_assets >= reserve.settled + tx.amount

CreditTip(tx) ==
    /\ tips' = [tips EXCEPT ![tx.tip] = [MovedTip(tx, tx.next) EXCEPT !.consumed = FALSE]]
    /\ reserve' = Settle(tx.amount)
    /\ UNCHANGED <<vault, fundingVars, permits, root, gates, outbox, gifts>>

(* Mutant: the balance of the TIP is not raised.                           *)
LandCreditUnrecorded(tx) ==
    /\ MayCredit(tx)
    /\ tx.sequence = tips[tx.tip].sequence + 1
    /\ CreditTip(tx)
    /\ UNCHANGED liability

(* credit_one_time_tip *)
LandCredit(tx) ==
    /\ MayCredit(tx)
    /\ tx.sequence = tips[tx.tip].sequence + 1
    /\ CreditTip(tx)
    /\ liability' = [liability EXCEPT ![tx.tip].available = @ + tx.amount]

-----------------------------------------------------------------------------
(* TIPs and their balances.                                                *)

NewTip(t, sequence) ==
    [commitment |-> t, sequence |-> sequence, nullifier |-> NULL, consumed |-> FALSE]

(* initialize_one_time_tip *)
InitializeTip(t) ==
    /\ tips[t] = NULL
    /\ tips' = [tips EXCEPT ![t] = NewTip(t, 0)]
    /\ UNCHANGED <<vault, reserve, fundingVars, liability, permits, root, gates, outbox, gifts>>

(* initialize_one_time_tip_liability *)
InitializeTipLiability(t) ==
    /\ {"protocol", "asset"} \subseteq gates
    /\ tips[t] # NULL /\ liability[t] = NULL
    /\ liability' = [liability EXCEPT ![t] = [available |-> 0, spent |-> 0]]
    /\ UNCHANGED <<vault, reserve, fundingVars, tips, permits, root, gates, outbox, gifts>>

(* initialize_tcap_tip_liability_v2: governance opens the account of a TIN *)
(* TIP with a balance.                                                     *)
InitializeLegacyLiability(t, a) ==
    /\ "protocol" \in gates
    /\ liability[t] = NULL
    /\ reserve.actual_assets >= reserve.settled + a
    /\ liability' = [liability EXCEPT ![t] = [available |-> a, spent |-> 0]]
    /\ reserve' = [reserve EXCEPT !.settled = @ + a]
    /\ UNCHANGED <<vault, fundingVars, tips, permits, root, gates, outbox, gifts>>

(* consume_one_time_tip: t is spent and its successor opened.              *)
LandConsume(tx) ==
    /\ "protocol" \in gates
    /\ tips[tx.tip] # NULL /\ tips[tx.next] = NULL
    /\ ~tips[tx.tip].consumed
    /\ tx.sequence = tips[tx.tip].sequence + 1
    /\ tx.nonce # tips[tx.tip].nullifier
    /\ tips' = [tips EXCEPT ![tx.tip] = [MovedTip(tx, tx.next) EXCEPT !.consumed = TRUE],
                            ![tx.next] = NewTip(tx.next, tx.sequence)]
    /\ UNCHANGED <<vault, reserve, fundingVars, liability, permits, root, gates, outbox, gifts>>

-----------------------------------------------------------------------------
(* Exits.                                                                  *)

MayDebit(tx, names) ==
    /\ "protocol" \in gates
    /\ tips[tx.tip] # NULL /\ liability[tx.tip] # NULL
    /\ permits[tx.nonce] = NULL
    /\ tx.sequence = tips[tx.tip].sequence + 1
    /\ liability[tx.tip].available >= tx.amount
    /\ "reserve" \in names => reserve.settled >= tx.amount

NewPermit(tip, a, names) ==
    [tip |-> tip, amount |-> a, names |-> names, consumed |-> FALSE]

(* The settled counter of the reserve that was named is the one reduced.   *)
Taken(names, a) == IF "reserve" \in names THEN [reserve EXCEPT !.settled = @ - a] ELSE reserve

DebitTip(tx, names) ==
    /\ permits' = [permits EXCEPT ![tx.nonce] = NewPermit(tx.tip, tx.amount, names)]
    /\ tips' = [tips EXCEPT ![tx.tip] = MovedTip(tx, tips[tx.tip].commitment)]
    /\ liability' = [liability EXCEPT ![tx.tip].available = @ - tx.amount,
                                      ![tx.tip].spent = @ + tx.amount]
    /\ UNCHANGED <<vault, fundingVars, root, gates, outbox, gifts>>

(* Mutant: the amount stays settled.                                       *)
LandDebitKeepsSettled(tx, names) ==
    /\ MayDebit(tx, names)
    /\ DebitTip(tx, names)
    /\ UNCHANGED reserve

(* debit_tcap_exit_v1: the balance becomes a permit.  Its mint and         *)
(* destination commitment are only checked when it is paid.  A debit lands *)
(* once, so what it names of this asset is chosen when it does.            *)
LandDebit(tx, names) ==
    /\ MayDebit(tx, names)
    /\ DebitTip(tx, names)
    /\ reserve' = Taken(names, tx.amount)

(* debit_tcap_exit_v1 of another asset's TIP, as far as it reaches here.   *)
DebitElsewhere(n, a, names) ==
    /\ Cardinality({m \in Nonce : permits[m] # NULL /\ permits[m].tip = NULL}) < MaxForeign
    /\ "protocol" \in gates
    /\ permits[n] = NULL
    /\ names # {}
    /\ "reserve" \in names => reserve.settled >= a
    /\ permits' = [permits EXCEPT ![n] = NewPermit(NULL, a, names)]
    /\ reserve' = Taken(names, a)
    /\ UNCHANGED <<vault, fundingVars, tipVars, root, gates, outbox, gifts>>

MayPay(n) ==
    /\ permits[n] # NULL
    /\ "mint" \in permits[n].names /\ ~permits[n].consumed
    /\ vault >= permits[n].amount

(* Mutant: the permit is not marked.                                       *)
PayoutUnmarked(n) ==
    /\ MayPay(n)
    /\ vault' = vault - permits[n].amount
    /\ reserve' = [reserve EXCEPT !.actual_assets = vault - permits[n].amount]
    /\ UNCHANGED <<fundingVars, tipVars, permits, root, gates, outbox, gifts>>
(* payout_tcap_exit_v1: open even while the protocol is paused.            *)
Payout(n) ==
    /\ MayPay(n)
    /\ vault' = vault - permits[n].amount
    /\ reserve' = [reserve EXCEPT !.actual_assets = vault - permits[n].amount]
    /\ permits' = [permits EXCEPT ![n].consumed = TRUE]
    /\ UNCHANGED <<fundingVars, tipVars, root, gates, outbox, gifts>>

(* payout_tcap_exit_v1 of a permit with another asset's mint, from that    *)
(* asset's vault.                                                          *)
PayoutElsewhere(n) ==
    /\ permits[n] # NULL
    /\ "mint" \notin permits[n].names /\ ~permits[n].consumed
    /\ permits' = [permits EXCEPT ![n].consumed = TRUE]
    /\ UNCHANGED <<vault, reserve, fundingVars, tipVars, root, gates, outbox, gifts>>

-----------------------------------------------------------------------------
(* The world around the program.                                           *)

(* Clients build transactions from the accounts as they are: the nonce,    *)
(* the sequence number, the commitment and the root they read.             *)
FundingTx == {[kind |-> "fund", by |-> d, id |-> f, amount |-> a, nonce |-> nonces[d]] :
                 d \in Depositor, f \in FundingId, a \in Amount}
LiveTip == {t \in Tip : tips[t] # NULL}
CreditTx == {[kind |-> "credit", tip |-> t, amount |-> a, nonce |-> n,
              sequence |-> tips[t].sequence + 1, previous |-> tips[t].commitment, next |-> c] :
                 t \in LiveTip, a \in Amount, n \in Nonce, c \in Tip}
ConsumeTx == {[kind |-> "consume", tip |-> t, nonce |-> n,
               sequence |-> tips[t].sequence + 1, next |-> c] :
                 t \in LiveTip, n \in Nonce, c \in Tip}
DebitTx == {[kind |-> "debit", tip |-> t, amount |-> a, nonce |-> n,
             sequence |-> tips[t].sequence + 1] :
                 t \in LiveTip, a \in Amount, n \in Nonce}
(* A proof exists for a nullifier that is not in the root.                 *)
MemoTx == {[kind |-> "memo", amount |-> a, nonce |-> n, prev |-> root] :
                 a \in Amount, n \in Nonce \ {root[i].nullifier : i \in DOMAIN root}}

Within(tx) ==
    CASE tx.kind = "fund" -> TRUE
      [] tx.kind = "memo" -> Len(tx.prev) < MaxSequence
      [] OTHER -> tx.sequence <= MaxSequence

Prepare ==
    /\ Cardinality(outbox) < MaxPrepared
    /\ \E tx \in FundingTx \cup CreditTx \cup ConsumeTx \cup DebitTx \cup MemoTx :
          /\ Within(tx)
          /\ outbox' = outbox \cup {tx}
    /\ UNCHANGED <<vault, reserve, fundingVars, tipVars, permits, root, gates, gifts>>

(* Its slot window passes, or nobody sends it any more.                    *)
Expire ==
    /\ \E tx \in outbox : outbox' = outbox \ {tx}
    /\ UNCHANGED <<vault, reserve, fundingVars, tipVars, permits, root, gates, gifts>>

(* A plain token transfer to the vault, which no instruction sees.         *)
Gift ==
    /\ gifts < MaxGifts /\ vault < MaxAssets
    /\ gifts' = gifts + 1
    /\ vault' = vault + 1
    /\ UNCHANGED <<reserve, fundingVars, tipVars, permits, root, gates, outbox>>

(* The governance instructions (TcapGovernance), as far as these handlers  *)
(* see them.                                                               *)
Govern ==
    /\ gates' \in GateState
    /\ UNCHANGED <<vault, reserve, fundingVars, tipVars, permits, root, outbox, gifts>>

(* A transaction that landed stays in the outbox: it may be sent again.    *)
Land(tx) ==
    \/ tx.kind = "fund" /\ LandFunding(tx)
    \/ tx.kind = "memo" /\ LandMemo(tx)
    \/ tx.kind = "credit" /\ LandCredit(tx)
    \/ tx.kind = "consume" /\ LandConsume(tx)
    \/ tx.kind = "debit" /\ \E names \in Names : LandDebit(tx, names)

TcapInit ==
    /\ vault = 0
    /\ reserve = [actual_assets |-> 0, pending |-> 0, settled |-> 0]
    /\ claims = [f \in FundingId |-> NULL]
    /\ nonces = [d \in Depositor |-> 0]
    /\ fundingRoot = <<>>
    /\ tips = [t \in Tip |-> NULL]
    /\ liability = [t \in Tip \cup LegacyTip |-> NULL]
    /\ permits = [n \in Nonce |-> NULL]
    /\ root = <<>>
    /\ gates = Gate
    /\ outbox = {}
    /\ gifts = 0

TcapNext ==
    \/ \E a \in Amount : DepositAsset(a)
    \/ \E t \in Tip : InitializeTip(t) \/ InitializeTipLiability(t)
    \/ \E t \in LegacyTip, a \in Amount : InitializeLegacyLiability(t, a)
    \/ \E tx \in outbox : Land(tx)
    \/ \E n \in Nonce : Payout(n) \/ PayoutElsewhere(n)
    \/ \E n \in Nonce, a \in Amount, names \in Names : DebitElsewhere(n, a, names)
    \/ Prepare
    \/ Expire
    \/ Gift
    \/ Govern

TcapSpec == TcapInit /\ [][TcapNext]_vars

-----------------------------------------------------------------------------
(* Properties.                                                             *)

(* The accounts hold what their Rust types can hold; no counter underflows *)
(* (every checked_sub of the handlers succeeds).                           *)
TcapTypeOK ==
    /\ vault \in Nat /\ gifts \in Nat
    /\ reserve \in Reserve
    /\ claims \in [FundingId -> Optional(Claim)]
    /\ nonces \in [Depositor -> Nat]
    /\ fundingRoot \in Seq(FundingId)
    /\ tips \in [Tip -> Optional(OneTimeTip)]
    /\ liability \in [Tip \cup LegacyTip -> Optional(Balance)]
    /\ permits \in [Nonce -> Optional(Permit)]
    /\ root \in Seq(Memo)
    /\ gates \subseteq Gate

(* What the permit p still has to take from the vault, negative when the   *)
(* vault paid it although another reserve was debited; and what a TIP of   *)
(* this asset gave up for it without the settled counter, or the reverse.  *)
Counted(condition, amount) == IF condition THEN amount ELSE 0
Owed(p) == Counted("reserve" \in p.names, p.amount)
              - Counted(p.consumed /\ "mint" \in p.names, p.amount)
Diverted(p) == Counted(p.tip # NULL, p.amount) - Counted("reserve" \in p.names, p.amount)

Outstanding == SumFunction([n \in Nonce |-> IF permits[n] = NULL THEN 0 ELSE Owed(permits[n])])
Misdirected == SumFunction([n \in Nonce |->
                   IF permits[n] = NULL THEN 0 ELSE Diverted(permits[n])])
Available == SumFunction([t \in DOMAIN liability |->
                 IF liability[t] = NULL THEN 0 ELSE liability[t].available])
Credited == SumFunction([i \in DOMAIN root |-> root[i].amount])

(* Conservation: every token in the vault was never deposited, is pending, *)
(* is settled, or is outstanding: taken off the settled counter by a debit *)
(* and not paid.  A permit that was debited from another asset's reserve   *)
(* and paid from this vault (debit_tcap_exit_v1 does not tie the two)      *)
(* lowers what is outstanding by its amount: exactly by that the vault may *)
(* fall short of the liabilities, and by nothing else, in whatever order   *)
(* deposits, credits, debits and payouts land.  Governance's opening       *)
(* balances, which bring no token, are outside (LegacyTip = {}).           *)
ReserveBacked == vault = gifts + TotalLiabilities + Outstanding

(* The settled counter is the sum of what is behind it, the TIPs' balances *)
(* and the memo credits of the shared root, but for the debits that named  *)
(* the reserve of another asset than their TIP's: those of our TIPs leave  *)
(* too much here, those of other TIPs take what is behind our balances.    *)
SettledIsAccounted == reserve.settled = Available + Credited + Misdirected

(* Tokens leave the vault only for an exit permit, once, in its amount,    *)
(* and a paid permit is never paid, changed or reopened again.             *)
TokensLeaveByPermit ==
    [][/\ vault' < vault => \E n \in Nonce :
             /\ permits[n] # NULL /\ ~permits[n].consumed /\ permits'[n].consumed
             /\ vault' = vault - permits[n].amount
       /\ \A n \in Nonce : permits[n] # NULL =>
             permits'[n] \in {permits[n], [permits[n] EXCEPT !.consumed = TRUE]}]_vars

=============================================================================
