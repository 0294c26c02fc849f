--------------------------- MODULE EpochTreasury ---------------------------
(***************************************************************************)
(* Private payouts of the TSNP escrow program (programs/tsn/protocol): the *)
(* epoch treasury of one mint with its ledger, the settlement DNA that     *)
(* leases a slot to a Cranker, the claim slots, and the Cranker vaults     *)
(* that pay recipients first and are reimbursed by the treasury.           *)
(*                                                                         *)
(* A payout or refund carries a permit the Node signed for the DNA as it   *)
(* was; the transaction may arrive after the DNA was leased again, after   *)
(* another permit for the slot, or after the treasury was closed and       *)
(* opened anew.  epoch_id never changes in the program, so there is one    *)
(* treasury per mint.                                                      *)
(*                                                                         *)
(* Abstractions.  The digest, nonce, nullifier and recipient of a slot are *)
(* part of the slot.  SOL for rent, the Cranker's statistics and the claim *)
(* fee, which is counted and never paid, are left out; reserved_liquidity  *)
(* is never assigned after it is set to 0 and is left out too.  Amounts    *)
(* are bounded, so u64 does not overflow.                                  *)
(***************************************************************************)
EXTENDS Naturals, FiniteSets, Functions

CONSTANTS
    Slot,       \* claim slots
    Cranker,    \* Crankers
    Funder,     \* liquidity providers
    OperatorOf, \* OperatorOf[c]: the wallet that operates c
    Policy,     \* the values of allow_external_funding operators set
    Signer,     \* keys that sign permits
    Version,    \* lease versions the authority uses
    Expiry,     \* expiry times of leases and permits
    NULL,
    MaxTokens,  \* bound: tokens funded to the treasury, or by a funder to a vault
    MaxClock,   \* bound: the clock stops here
    MaxGifts,   \* bound: tokens sent to the accounts directly
    MaxPermits  \* bound: permits signed

ASSUME BoundAssumption ==
    MaxTokens \in Nat /\ MaxClock \in Nat /\ MaxGifts \in Nat /\ MaxPermits \in Nat

ASSUME ExpiryAssumption == Expiry \subseteq Nat

ASSUME FunderAssumption == IsFiniteSet(Funder)

ASSUME CrankerAssumption == OperatorOf \in [Cranker -> Funder] /\ Policy \subseteq BOOLEAN

VARIABLES
    treasury,   \* EpochTreasury with its EpochSettlementLedger, or NULL
    tokens,     \* balance of the treasury's token account
    dna,        \* dna[s]: the SettlementDna of slot s
    claim,      \* claim[s]: the EpochClaimSlot of slot s
    received,   \* received[s]: tokens that left for the slot's recipient or sender
    config,     \* PrivateSettlementConfig
    allowed,    \* allowed[c]: allow_external_funding of the Cranker account of c
    vault,      \* vault[c]: the CrankerVault of c
    vaultTokens,\* vaultTokens[c]: balance of its token account
    position,   \* position[c][f]: LiquidityPosition of f in c's vault
    deposited,  \* history: deposited[c][f], tokens f put into c's vault
    permits,    \* permits signed
    gifts,      \* tokens sent to the treasury's account, to c's account, directly
    now         \* the clock

payoutVars == <<dna, claim, received>>
vaultVars == <<allowed, vault, vaultTokens, position, deposited>>
vars == <<treasury, tokens, payoutVars, config, vaultVars, permits, gifts, now>>

Amount == 1..MaxTokens
Optional(S) == S \cup {NULL}

Treasury == [total_funded : Nat, pending_liability : Nat, settled_total : Nat,
             refunded_total : Nat, reimbursed_total : Nat,
             ledger_pending : Nat, ledger_settled : Nat, ledger_refunded : Nat,
             slot_count : Nat]
Lease == [cranker : Cranker, amount : Amount, lease_version : Version,
          lease_expiry_ts : Expiry, authorization_expiry_ts : Expiry]
Dna == [lease : Lease, status : {"Active", "Consumed"}]
Claim == [amount : Amount, status : {"Settled", "Refunded"}]
Vault == [total_liquidity : Nat, total_shares : Nat, total_withdrawn : Nat]
Position == [principal_amount : Nat, withdrawn_amount : Nat]

ASSUME NullAssumption ==
    /\ NULL \notin Treasury
    /\ NULL \notin Dna
    /\ NULL \notin Claim
    /\ NULL \notin Vault
    /\ NULL \notin BOOLEAN

Permit == [kind : {"payout", "refund"}, slot : Slot, lease : Lease, signer : Signer,
           expires : Expiry]

-----------------------------------------------------------------------------
(* The treasury.                                                           *)

EmptyTreasury ==
    [total_funded |-> 0, pending_liability |-> 0, settled_total |-> 0,
     refunded_total |-> 0, reimbursed_total |-> 0,
     ledger_pending |-> 0, ledger_settled |-> 0, ledger_refunded |-> 0, slot_count |-> 0]

(* init_if_needed: the accounts are made when they are missing.            *)
Opened == IF treasury = NULL THEN EmptyTreasury ELSE treasury

(* fund_epoch_treasury *)
FundTreasury(a) ==
    /\ Opened.total_funded + a <= MaxTokens
    /\ tokens' = tokens + a
    /\ treasury' = [Opened EXCEPT !.total_funded = @ + a, !.pending_liability = @ + a,
                                  !.ledger_pending = @ + a]
    /\ UNCHANGED <<payoutVars, config, vaultVars, permits, gifts, now>>

(* close_epoch_treasury: the accounts are deleted.                         *)
CloseTreasury ==
    /\ treasury # NULL
    /\ treasury.pending_liability = 0
    /\ treasury.reimbursed_total = treasury.settled_total
    /\ tokens = 0
    /\ treasury' = NULL
    /\ UNCHANGED <<tokens, payoutVars, config, vaultVars, permits, gifts, now>>

(* configure_private_settlement *)
Configure(signer, enabled) ==
    /\ config' = [signer |-> signer, enabled |-> enabled]
    /\ UNCHANGED <<treasury, tokens, payoutVars, vaultVars, permits, gifts, now>>

-----------------------------------------------------------------------------
(* Slots.                                                                  *)

(* create_settlement_dna: a slot is leased when it is new, or active and   *)
(* its lease over.                                                         *)
CreateDna(s, lease) ==
    /\ lease.authorization_expiry_ts > now
    /\ lease.authorization_expiry_ts <= lease.lease_expiry_ts
    /\ \/ dna[s] = NULL
       \/ dna[s] # NULL /\ dna[s].status = "Active" /\ now > dna[s].lease.lease_expiry_ts
    /\ dna' = [dna EXCEPT ![s] = [lease |-> lease, status |-> "Active"]]
    /\ UNCHANGED <<treasury, tokens, claim, received, config, vaultVars, permits, gifts, now>>

(* Mutant: neither the slot nor the DNA is looked at for an earlier claim. *)
MayClaimAgain(p) ==
    /\ config.enabled /\ p.signer = config.signer
    /\ treasury # NULL
    /\ now <= p.expires
    /\ dna[p.slot] # NULL
    /\ treasury.pending_liability >= p.lease.amount
    /\ treasury.ledger_pending >= p.lease.amount

(* Enabled, a slot nobody has claimed and enough pending liability: what   *)
(* execute_private_payout and refund_epoch_claim both ask for.             *)
MayClaim(p) ==
    /\ config.enabled /\ p.signer = config.signer
    /\ treasury # NULL
    /\ now <= p.expires
    /\ claim[p.slot] = NULL
    /\ dna[p.slot] # NULL /\ dna[p.slot].status = "Active"
    /\ treasury.pending_liability >= p.lease.amount
    /\ treasury.ledger_pending >= p.lease.amount

Claimed(p, status) ==
    /\ claim' = [claim EXCEPT ![p.slot] = [amount |-> p.lease.amount, status |-> status]]
    /\ dna' = [dna EXCEPT ![p.slot].status = "Consumed"]
    /\ received' = [received EXCEPT ![p.slot] = @ + p.lease.amount]
    /\ tokens' = tokens - p.lease.amount

Settled(a) ==
    [treasury EXCEPT !.pending_liability = @ - a, !.settled_total = @ + a,
                     !.reimbursed_total = @ + a,
                     !.ledger_pending = @ - a, !.ledger_settled = @ + a, !.slot_count = @ + 1]

(* Mutant: the refund leaves the ledger's pending total as it was.         *)
RefundedLedgerKept(a) ==
    [treasury EXCEPT !.pending_liability = @ - a, !.refunded_total = @ + a,
                     !.ledger_refunded = @ + a, !.slot_count = @ + 1]

Refunded(a) ==
    [treasury EXCEPT !.pending_liability = @ - a, !.refunded_total = @ + a,
                     !.ledger_pending = @ - a, !.ledger_refunded = @ + a, !.slot_count = @ + 1]

(* Mutant: the Cranker's vault is not reimbursed.                          *)
PayoutUnreimbursed(p) ==
    LET c == p.lease.cranker a == p.lease.amount
    IN  /\ MayClaim(p)
        /\ p.lease = dna[p.slot].lease /\ p.expires = p.lease.authorization_expiry_ts
        /\ vault[c] # NULL
        /\ vaultTokens[c] >= a /\ vault[c].total_liquidity >= a
        /\ tokens >= a
        /\ Claimed(p, "Settled")
        /\ treasury' = Settled(a)
        /\ vaultTokens' = [vaultTokens EXCEPT ![c] = @ - a]
        /\ UNCHANGED <<config, allowed, vault, position, deposited, permits, gifts, now>>

(* execute_private_payout: the vault pays the recipient and the treasury   *)
(* pays the vault, under the lease the DNA has now.                        *)
Payout(p) ==
    LET c == p.lease.cranker a == p.lease.amount
    IN  /\ MayClaim(p)
        /\ p.lease = dna[p.slot].lease /\ p.expires = p.lease.authorization_expiry_ts
        /\ vault[c] # NULL
        /\ vaultTokens[c] >= a /\ vault[c].total_liquidity >= a
        /\ tokens >= a
        /\ Claimed(p, "Settled")
        /\ treasury' = Settled(a)
        /\ vaultTokens' = [vaultTokens EXCEPT ![c] = (@ - a) + a]
        /\ UNCHANGED <<config, allowed, vault, position, deposited, permits, gifts, now>>

(* refund_epoch_claim: of the lease only the version and the amount are    *)
(* compared with the DNA.                                                  *)
Refund(p) ==
    /\ MayClaim(p)
    /\ now <= dna[p.slot].lease.authorization_expiry_ts
    /\ p.expires <= dna[p.slot].lease.authorization_expiry_ts
    /\ p.lease.amount = dna[p.slot].lease.amount
    /\ p.lease.lease_version = dna[p.slot].lease.lease_version
    /\ tokens >= p.lease.amount
    /\ Claimed(p, "Refunded")
    /\ treasury' = Refunded(p.lease.amount)
    /\ UNCHANGED <<config, vaultVars, permits, gifts, now>>

-----------------------------------------------------------------------------
(* Vaults.                                                                 *)

(* register_cranker *)
RegisterCranker(c) ==
    /\ allowed[c] = NULL
    /\ allowed' = [allowed EXCEPT ![c] = TRUE]
    /\ UNCHANGED <<treasury, tokens, payoutVars, config, vault, vaultTokens, position,
                   deposited, permits, gifts, now>>

(* set_cranker_funding_policy *)
SetFundingPolicy(c, b) ==
    /\ allowed[c] # NULL
    /\ allowed' = [allowed EXCEPT ![c] = b]
    /\ UNCHANGED <<treasury, tokens, payoutVars, config, vault, vaultTokens, position,
                   deposited, permits, gifts, now>>

(* initialize_cranker_vault *)
InitializeVault(c) ==
    /\ allowed[c] # NULL /\ vault[c] = NULL
    /\ vault' = [vault EXCEPT ![c] = [total_liquidity |-> 0, total_shares |-> 0,
                                      total_withdrawn |-> 0]]
    /\ UNCHANGED <<treasury, tokens, payoutVars, config, allowed, vaultTokens, position,
                   deposited, permits, gifts, now>>

(* Mutant: the price is taken after the deposit.                           *)
MintedSharesLate(v, a) ==
    IF v.total_shares = 0 THEN a
    ELSE (a * v.total_shares) \div (v.total_liquidity + a)

(* fund_cranker: shares at the current price.                              *)
MintedShares(v, a) ==
    IF v.total_shares = 0 THEN a
    ELSE (a * v.total_shares) \div v.total_liquidity

FundVault(c, f, a) ==
    LET v == vault[c] shares == MintedShares(v, a)
    IN  /\ v # NULL
        /\ allowed[c] \/ f = OperatorOf[c]
        /\ v.total_shares = 0 <=> v.total_liquidity = 0
        /\ shares > 0
        /\ deposited[c][f] + a <= MaxTokens
        /\ vaultTokens' = [vaultTokens EXCEPT ![c] = @ + a]
        /\ vault' = [vault EXCEPT ![c].total_liquidity = @ + a, ![c].total_shares = @ + shares]
        /\ position' = [position EXCEPT ![c][f].principal_amount = @ + shares]
        /\ deposited' = [deposited EXCEPT ![c][f] = @ + a]
        /\ UNCHANGED <<treasury, tokens, payoutVars, config, allowed, permits, gifts, now>>

Withdrawable(v, shares) == (shares * v.total_liquidity) \div v.total_shares
SharesToBurn(v, a) == (a * v.total_shares + v.total_liquidity - 1) \div v.total_liquidity

(* withdraw_cranker_funds: refused while the token account holds anything  *)
(* the vault did not count.                                                *)
MayWithdraw(c, f, a) ==
    LET v == vault[c] shares == position[c][f].principal_amount
    IN  /\ v # NULL
        /\ vaultTokens[c] = v.total_liquidity
        /\ v.total_shares > 0
        /\ a <= Withdrawable(v, shares)
        /\ a <= v.total_liquidity
        /\ SharesToBurn(v, a) <= shares

WithdrawVault(c, f, a) ==
    LET v == vault[c]
    IN  /\ MayWithdraw(c, f, a)
        /\ vaultTokens' = [vaultTokens EXCEPT ![c] = @ - a]
        /\ vault' = [vault EXCEPT ![c].total_liquidity = @ - a,
                                  ![c].total_shares = @ - SharesToBurn(v, a),
                                  ![c].total_withdrawn = @ + a]
        /\ position' = [position EXCEPT ![c][f].principal_amount = @ - SharesToBurn(v, a),
                                        ![c][f].withdrawn_amount = @ + a]
        /\ UNCHANGED <<treasury, tokens, payoutVars, config, allowed, deposited, permits,
                       gifts, now>>

-----------------------------------------------------------------------------
(* The world around the program.                                           *)

(* The Node signs permits for an active DNA.                               *)
SignPermit ==
    /\ Cardinality(permits) < MaxPermits
    /\ \E s \in Slot, kind \in {"payout", "refund"}, key \in Signer, expires \in Expiry :
          /\ dna[s] # NULL /\ dna[s].status = "Active"
          /\ kind = "payout" => expires = dna[s].lease.authorization_expiry_ts
          /\ permits' = permits \cup {[kind |-> kind, slot |-> s, lease |-> dna[s].lease,
                                       signer |-> key, expires |-> expires]}
    /\ UNCHANGED <<treasury, tokens, payoutVars, config, vaultVars, gifts, now>>

(* Plain token transfers, which no instruction sees; anybody may create    *)
(* the treasury's associated token account.                                *)
Gifts == gifts.treasury + SumFunction(gifts.vault)

GiftToTreasury ==
    /\ Gifts < MaxGifts
    /\ tokens' = tokens + 1
    /\ gifts' = [gifts EXCEPT !.treasury = @ + 1]
    /\ UNCHANGED <<treasury, payoutVars, config, vaultVars, permits, now>>

GiftToVault(c) ==
    /\ vault[c] # NULL /\ Gifts < MaxGifts
    /\ vaultTokens' = [vaultTokens EXCEPT ![c] = @ + 1]
    /\ gifts' = [gifts EXCEPT !.vault[c] = @ + 1]
    /\ UNCHANGED <<treasury, tokens, payoutVars, config, allowed, vault, position, deposited,
                   permits, now>>

Tick ==
    /\ now < MaxClock
    /\ now' = now + 1
    /\ UNCHANGED <<treasury, tokens, payoutVars, config, vaultVars, permits, gifts>>

EscrowInit ==
    /\ treasury = NULL /\ tokens = 0
    /\ dna = [s \in Slot |-> NULL]
    /\ claim = [s \in Slot |-> NULL]
    /\ received = [s \in Slot |-> 0]
    /\ config \in [signer : Signer, enabled : {TRUE}]
    /\ allowed = [c \in Cranker |-> NULL]
    /\ vault = [c \in Cranker |-> NULL]
    /\ vaultTokens = [c \in Cranker |-> 0]
    /\ position = [c \in Cranker |-> [f \in Funder |->
                      [principal_amount |-> 0, withdrawn_amount |-> 0]]]
    /\ deposited = [c \in Cranker |-> [f \in Funder |-> 0]]
    /\ permits = {}
    /\ gifts = [treasury |-> 0, vault |-> [c \in Cranker |-> 0]]
    /\ now = 0

TreasuryStep ==
    \/ \E a \in Amount : FundTreasury(a)
    \/ CloseTreasury
    \/ \E key \in Signer, b \in BOOLEAN : Configure(key, b)
    \/ GiftToTreasury

SlotStep ==
    \/ \E s \in Slot, lease \in Lease : CreateDna(s, lease)
    \/ SignPermit
    \/ \E p \in permits : \/ p.kind = "payout" /\ Payout(p)
                          \/ p.kind = "refund" /\ Refund(p)
    \/ Tick

VaultStep ==
    \E c \in Cranker :
        \/ RegisterCranker(c)
        \/ \E b \in Policy : SetFundingPolicy(c, b)
        \/ InitializeVault(c)
        \/ GiftToVault(c)
        \/ \E f \in Funder, a \in Amount : FundVault(c, f, a) \/ WithdrawVault(c, f, a)

EscrowNext == TreasuryStep \/ SlotStep \/ VaultStep

EscrowSpec == EscrowInit /\ [][EscrowNext]_vars

-----------------------------------------------------------------------------
(* Properties.                                                             *)

(* The accounts hold what their Rust types can hold; no counter underflows *)
(* (the unchecked subtractions of refund_epoch_claim included).            *)
EscrowTypeOK ==
    /\ treasury \in Optional(Treasury)
    /\ tokens \in Nat
    /\ dna \in [Slot -> Optional(Dna)]
    /\ claim \in [Slot -> Optional(Claim)]
    /\ received \in [Slot -> Nat]
    /\ config \in [signer : Signer, enabled : BOOLEAN]
    /\ allowed \in [Cranker -> Optional(BOOLEAN)]
    /\ vault \in [Cranker -> Optional(Vault)]
    /\ vaultTokens \in [Cranker -> Nat]
    /\ position \in [Cranker -> [Funder -> Position]]
    /\ deposited \in [Cranker -> [Funder -> Nat]]
    /\ permits \subseteq Permit
    /\ gifts \in [treasury : Nat, vault : [Cranker -> Nat]]
    /\ now \in Nat

(* The treasury owes exactly what it holds, tokens nobody deposited apart, *)
(* and its two accounts tell the same story: fund, pay, refund, close and  *)
(* reopen in any order.  No token is left behind by a closed treasury.     *)
TreasuryBacked ==
    IF treasury = NULL THEN tokens = gifts.treasury
    ELSE /\ tokens = gifts.treasury + treasury.pending_liability
         /\ treasury.total_funded =
               treasury.pending_liability + treasury.settled_total + treasury.refunded_total
         /\ treasury.reimbursed_total = treasury.settled_total
         /\ treasury.ledger_pending = treasury.pending_liability
         /\ treasury.ledger_settled = treasury.settled_total
         /\ treasury.ledger_refunded = treasury.refunded_total

(* A slot is paid out or refunded once and never both, however often it    *)
(* was leased, however many permits were signed and whatever happened to   *)
(* the treasury in between: what left for it is what its claim records.    *)
SlotsPaidOnce ==
    \A s \in Slot :
        /\ received[s] = IF claim[s] = NULL THEN 0 ELSE claim[s].amount
        /\ claim[s] # NULL <=> dna[s] # NULL /\ dna[s].status = "Consumed"

(* A payout costs the Cranker's vault nothing: its account holds the       *)
(* liquidity it counts and what was sent to it directly.                   *)
VaultBacked ==
    \A c \in Cranker :
        vaultTokens[c] = gifts.vault[c] + (IF vault[c] = NULL THEN 0 ELSE vault[c].total_liquidity)

(* What withdraw_cranker_funds would accept, after any deposits, payouts   *)
(* and withdrawals of all funders: exactly what the funder put in and has  *)
(* not taken out, whatever the rounding of the share price, unless tokens  *)
(* reached the vault by a plain transfer.  Then it accepts nothing, for    *)
(* nothing lowers the balance or raises the counter by the difference.     *)
FundersAreWhole ==
    \A c \in Cranker, f \in Funder, a \in Amount :
        MayWithdraw(c, f, a) <=>
            /\ vault[c] # NULL /\ gifts.vault[c] = 0
            /\ a + position[c][f].withdrawn_amount <= deposited[c][f]

Leased(c) == {s \in Slot : /\ dna[s] # NULL /\ dna[s].status = "Active"
                           /\ dna[s].lease.cranker = c /\ now <= dna[s].lease.lease_expiry_ts}

=============================================================================
