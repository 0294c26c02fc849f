------------------------ MODULE EpochTreasuryProofs ------------------------
(***************************************************************************)
(* Theorems about EpochTreasury, for any number of slots, Crankers,        *)
(* funders and permits and for any bounds.                                 *)
(***************************************************************************)
EXTENDS EpochTreasury, Sums, TLAPS

(* A share is worth one token.                                             *)
SharesAreTokens ==
    \A c \in Cranker :
        /\ vault[c] # NULL => vault[c].total_shares = vault[c].total_liquidity
        /\ \A f \in Funder : deposited[c][f] =
              position[c][f].principal_amount + position[c][f].withdrawn_amount

(* The parts depend on each other: the counters do not underflow because   *)
(* the ledger agrees with the treasury, the token account is not overdrawn *)
(* because it backs the liability, and shares burn one for one because the *)
(* share supply is the liquidity.                                          *)
EscrowInv ==
    /\ EscrowTypeOK
    /\ TreasuryBacked
    /\ SlotsPaidOnce
    /\ VaultBacked
    /\ SharesAreTokens

-----------------------------------------------------------------------------
(* Arithmetic of shares at the price of one.                               *)

(* A product divided by one of its factors is the other factor.            *)
LEMMA DivideProduct ==
    ASSUME NEW a \in Nat, NEW n \in Nat, n > 0
    PROVE  (a * n) \div n = a
  OBVIOUS

(* Rounding up a quotient that is exact changes nothing.                   *)
LEMMA DivideRoundUp ==
    ASSUME NEW a \in Nat, NEW n \in Nat, n > 0
    PROVE  (a * n + n - 1) \div n = a
  OBVIOUS

(* The counters of a treasury and of its ledger are naturals.              *)
LEMMA TreasuryFields ==
    ASSUME NEW t \in Treasury
    PROVE  /\ t.total_funded \in Nat /\ t.pending_liability \in Nat
           /\ t.settled_total \in Nat /\ t.refunded_total \in Nat
           /\ t.reimbursed_total \in Nat /\ t.slot_count \in Nat
           /\ t.ledger_pending \in Nat /\ t.ledger_settled \in Nat
           /\ t.ledger_refunded \in Nat
  BY DEF Treasury

-----------------------------------------------------------------------------
(* The initial state.                                                      *)

(* Nothing is deposited, leased or claimed at first.                       *)
LEMMA InitEscrowInv == EscrowInit => EscrowInv
<1> SUFFICES ASSUME EscrowInit PROVE EscrowInv
  OBVIOUS
<1>1. EscrowTypeOK
  BY DEF EscrowInit, EscrowTypeOK, Optional, Position
<1>2. TreasuryBacked /\ SlotsPaidOnce
  BY DEF EscrowInit, TreasuryBacked, SlotsPaidOnce
<1>3. VaultBacked
  BY DEF EscrowInit, VaultBacked
<1>4. SharesAreTokens
  BY DEF EscrowInit, SharesAreTokens
<1> QED
  BY <1>1, <1>2, <1>3, <1>4 DEF EscrowInv

-----------------------------------------------------------------------------
(* The treasury's instructions.                                            *)

(* fund_epoch_treasury keeps the invariant: deposit and liability grow     *)
(* together, in the treasury, in its ledger and in the token account.      *)
LEMMA FundTreasuryInv ==
    ASSUME EscrowInv, NEW a \in Amount, FundTreasury(a)
    PROVE  EscrowInv'
<1> USE DEF EscrowInv
<1>1. a \in Nat
  BY BoundAssumption DEF Amount
<1>2. Opened \in Treasury
  BY DEF Opened, EmptyTreasury, Treasury, EscrowTypeOK, Optional
<1>3. treasury' \in Treasury
  <2>1. /\ Opened.total_funded + a \in Nat
        /\ Opened.pending_liability + a \in Nat
        /\ Opened.ledger_pending + a \in Nat
    BY <1>1, <1>2, TreasuryFields
  <2> QED
    BY <1>2, <2>1, Zenon DEF FundTreasury, Treasury
<1>4. EscrowTypeOK'
  BY <1>1, <1>3 DEF FundTreasury, EscrowTypeOK, Optional, payoutVars, vaultVars
<1>5. TreasuryBacked'
  <2>1. treasury' # NULL
    BY <1>3, NullAssumption
  <2>2. CASE treasury = NULL
    BY <1>1, <2>1, <2>2 DEF FundTreasury, TreasuryBacked, Opened, EmptyTreasury, EscrowTypeOK
  <2>3. CASE treasury # NULL
    BY <1>1, <2>1, <2>3 DEF FundTreasury, TreasuryBacked, Opened, EscrowTypeOK, Optional, Treasury
  <2> QED
    BY <2>2, <2>3
<1>6. (SlotsPaidOnce /\ VaultBacked /\ SharesAreTokens)'
  BY DEF FundTreasury, SlotsPaidOnce, VaultBacked, SharesAreTokens, payoutVars, vaultVars
<1> QED
  BY <1>4, <1>5, <1>6

(* close_epoch_treasury keeps the invariant: it deletes accounts that owe  *)
(* nothing and hold nothing.                                               *)
LEMMA CloseTreasuryInv ==
    ASSUME EscrowInv, CloseTreasury
    PROVE  EscrowInv'
<1> USE DEF EscrowInv
<1>1. EscrowTypeOK'
  BY DEF CloseTreasury, EscrowTypeOK, Optional, payoutVars, vaultVars
<1>2. TreasuryBacked'
  BY DEF CloseTreasury, TreasuryBacked, EscrowTypeOK, Optional, Treasury
<1>3. (SlotsPaidOnce /\ VaultBacked /\ SharesAreTokens)'
  BY DEF CloseTreasury, SlotsPaidOnce, VaultBacked, SharesAreTokens, payoutVars, vaultVars
<1> QED
  BY <1>1, <1>2, <1>3

(* configure_private_settlement keeps the invariant.                       *)
LEMMA ConfigureInv ==
    ASSUME EscrowInv, NEW key \in Signer, NEW b \in BOOLEAN, Configure(key, b)
    PROVE  EscrowInv'
<1> USE DEF EscrowInv
<1>1. EscrowTypeOK'
  BY DEF Configure, EscrowTypeOK, payoutVars, vaultVars
<1>2. (TreasuryBacked /\ SlotsPaidOnce /\ VaultBacked /\ SharesAreTokens)'
  BY DEF Configure, TreasuryBacked, SlotsPaidOnce, VaultBacked, SharesAreTokens,
         payoutVars, vaultVars
<1> QED
  BY <1>1, <1>2

(* A plain transfer to the treasury's token account keeps the invariant.   *)
LEMMA GiftToTreasuryInv ==
    ASSUME EscrowInv, GiftToTreasury
    PROVE  EscrowInv'
<1> USE DEF EscrowInv
<1>1. EscrowTypeOK'
  <2>1. gifts.treasury + 1 \in Nat
    BY DEF EscrowTypeOK
  <2>2. gifts' \in [treasury : Nat, vault : [Cranker -> Nat]]
    BY <2>1, Zenon DEF GiftToTreasury, EscrowTypeOK
  <2>3. tokens' \in Nat
    BY DEF GiftToTreasury, EscrowTypeOK
  <2>4. UNCHANGED <<treasury, payoutVars, config, vaultVars, permits, now>>
    BY DEF GiftToTreasury
  <2> QED
    BY <2>2, <2>3, <2>4 DEF EscrowTypeOK, payoutVars, vaultVars
<1>2. TreasuryBacked'
  <2>1. gifts'.treasury = gifts.treasury + 1 /\ gifts.treasury \in Nat
    BY DEF GiftToTreasury, EscrowTypeOK
  <2>2. tokens' = tokens + 1 /\ treasury' = treasury
    BY DEF GiftToTreasury
  <2>3. treasury # NULL => treasury.pending_liability \in Nat
    BY TreasuryFields DEF EscrowTypeOK, Optional
  <2> QED
    BY <2>1, <2>2, <2>3 DEF TreasuryBacked
<1>3. (SlotsPaidOnce /\ VaultBacked /\ SharesAreTokens)'
  BY DEF GiftToTreasury, SlotsPaidOnce, VaultBacked, SharesAreTokens, EscrowTypeOK,
         payoutVars, vaultVars
<1> QED
  BY <1>1, <1>2, <1>3

-----------------------------------------------------------------------------
(* Slots and permits.                                                      *)

(* create_settlement_dna keeps the invariant: a consumed DNA is never      *)
(* replaced, so a claimed slot stays consumed.                             *)
LEMMA CreateDnaInv ==
    ASSUME EscrowInv, NEW s \in Slot, NEW lease \in Lease, CreateDna(s, lease)
    PROVE  EscrowInv'
<1> USE DEF EscrowInv
<1>1. [lease |-> lease, status |-> "Active"] \in Dna
  BY DEF Dna
<1>2. EscrowTypeOK'
  BY <1>1 DEF CreateDna, EscrowTypeOK, Optional, vaultVars
<1>3. SlotsPaidOnce'
  <2> SUFFICES ASSUME NEW t \in Slot
               PROVE  /\ received'[t] = IF claim'[t] = NULL THEN 0 ELSE claim'[t].amount
                      /\ claim'[t] # NULL <=> dna'[t] # NULL /\ dna'[t].status = "Consumed"
    BY DEF SlotsPaidOnce
  <2>1. CASE t = s
    <3>1. claim[s] = NULL /\ received[s] = 0
      BY DEF SlotsPaidOnce, CreateDna
    <3>2. dna'[s] = [lease |-> lease, status |-> "Active"]
      BY DEF CreateDna, EscrowTypeOK
    <3> QED
      BY <2>1, <3>1, <3>2 DEF CreateDna
  <2>2. CASE t # s
    <3>1. dna'[t] = dna[t] /\ claim'[t] = claim[t] /\ received'[t] = received[t]
      BY <2>2 DEF CreateDna, EscrowTypeOK
    <3> QED
      BY <3>1 DEF SlotsPaidOnce
  <2> QED
    BY <2>1, <2>2
<1>4. (TreasuryBacked /\ VaultBacked /\ SharesAreTokens)'
  BY DEF CreateDna, TreasuryBacked, VaultBacked, SharesAreTokens, vaultVars
<1> QED
  BY <1>2, <1>3, <1>4

(* Signing permits keeps the invariant.                                    *)
LEMMA SignPermitInv ==
    ASSUME EscrowInv, SignPermit
    PROVE  EscrowInv'
<1> USE DEF EscrowInv
<1>1. permits' \subseteq Permit
  <2>1. PICK s \in Slot, kind \in {"payout", "refund"}, key \in Signer, expires \in Expiry :
           /\ dna[s] # NULL
           /\ permits' = permits \cup {[kind |-> kind, slot |-> s, lease |-> dna[s].lease,
                                        signer |-> key, expires |-> expires]}
    BY DEF SignPermit
  <2>2. dna[s].lease \in Lease
    BY <2>1 DEF EscrowTypeOK, Optional, Dna
  <2>3. [kind |-> kind, slot |-> s, lease |-> dna[s].lease, signer |-> key,
         expires |-> expires] \in Permit
    BY <2>2 DEF Permit
  <2> QED
    BY <2>1, <2>3 DEF EscrowTypeOK
<1>2. EscrowTypeOK'
  BY <1>1 DEF SignPermit, EscrowTypeOK, payoutVars, vaultVars
<1>3. (TreasuryBacked /\ SlotsPaidOnce /\ VaultBacked /\ SharesAreTokens)'
  BY DEF SignPermit, TreasuryBacked, SlotsPaidOnce, VaultBacked, SharesAreTokens,
         payoutVars, vaultVars
<1> QED
  BY <1>2, <1>3

(* Time passing keeps the invariant.                                       *)
LEMMA TickInv ==
    ASSUME EscrowInv, Tick
    PROVE  EscrowInv'
<1> USE DEF EscrowInv
<1>1. EscrowTypeOK'
  BY DEF Tick, EscrowTypeOK, payoutVars, vaultVars
<1>2. (TreasuryBacked /\ SlotsPaidOnce /\ VaultBacked /\ SharesAreTokens)'
  BY DEF Tick, TreasuryBacked, SlotsPaidOnce, VaultBacked, SharesAreTokens,
         payoutVars, vaultVars
<1> QED
  BY <1>1, <1>2

(* A permit's amount and slot have their types.                            *)
LEMMA PermitFacts ==
    ASSUME NEW p \in Permit
    PROVE  /\ p.slot \in Slot /\ p.lease.cranker \in Cranker
           /\ p.lease.amount \in Amount /\ p.lease.amount \in Nat /\ p.lease.amount > 0
<1>1. p.slot \in Slot /\ p.lease \in Lease
  BY DEF Permit
<1>2. p.lease.cranker \in Cranker /\ p.lease.amount \in Amount
  BY <1>1 DEF Lease
<1> QED
  BY <1>1, <1>2, BoundAssumption DEF Amount

(* What a payout and a refund have in common: a slot without a claim gets  *)
(* one, its DNA is consumed, and what left for it is what the claim says.  *)
LEMMA ClaimedSlots ==
    ASSUME EscrowInv, NEW p \in Permit, NEW status \in {"Settled", "Refunded"},
           MayClaim(p), Claimed(p, status)
    PROVE  /\ dna' \in [Slot -> Optional(Dna)]
           /\ claim' \in [Slot -> Optional(Claim)]
           /\ received' \in [Slot -> Nat]
           /\ SlotsPaidOnce'
<1> DEFINE s == p.slot
           a == p.lease.amount
<1> USE DEF EscrowInv
<1>1. s \in Slot /\ a \in Amount /\ a \in Nat
  BY PermitFacts
<1>2. dna[s] \in Dna
  BY <1>1 DEF MayClaim, EscrowTypeOK, Optional
<1>3. /\ dna' = [dna EXCEPT ![s] = [lease |-> dna[s].lease, status |-> "Consumed"]]
      /\ [lease |-> dna[s].lease, status |-> "Consumed"] \in Dna
  <2>1. [dna[s] EXCEPT !.status = "Consumed"] = [lease |-> dna[s].lease, status |-> "Consumed"]
    BY <1>2 DEF Dna
  <2>2. dna' = [dna EXCEPT ![s] = [dna[s] EXCEPT !.status = "Consumed"]]
    BY DEF Claimed
  <2> QED
    BY <1>2, <2>1, <2>2 DEF Dna
<1>4. dna' \in [Slot -> Optional(Dna)]
  BY <1>1, <1>3 DEF EscrowTypeOK, Optional
<1>5. [amount |-> a, status |-> status] \in Claim
  BY <1>1 DEF Claim
<1>6. claim' \in [Slot -> Optional(Claim)]
  BY <1>1, <1>5 DEF Claimed, EscrowTypeOK, Optional
<1>7. received' \in [Slot -> Nat]
  BY <1>1 DEF Claimed, EscrowTypeOK
<1>8. SlotsPaidOnce'
  <2> SUFFICES ASSUME NEW t \in Slot
               PROVE  /\ received'[t] = IF claim'[t] = NULL THEN 0 ELSE claim'[t].amount
                      /\ claim'[t] # NULL <=> dna'[t] # NULL /\ dna'[t].status = "Consumed"
    BY DEF SlotsPaidOnce
  <2>1. CASE t = s
    <3>1. received[s] = 0
      BY <1>1 DEF MayClaim, SlotsPaidOnce
    <3>2. received'[s] = a
      BY <1>1, <3>1 DEF Claimed, EscrowTypeOK
    <3>3. claim'[s] = [amount |-> a, status |-> status]
      BY <1>1 DEF Claimed, EscrowTypeOK
    <3>4. claim'[s] # NULL
      BY <1>5, <3>3, NullAssumption
    <3>5. dna'[s] = [lease |-> dna[s].lease, status |-> "Consumed"]
      BY <1>1, <1>3 DEF EscrowTypeOK
    <3>6. dna'[s] # NULL
      BY <1>3, <3>5, NullAssumption
    <3> QED
      BY <2>1, <3>2, <3>3, <3>4, <3>5, <3>6
  <2>2. CASE t # s
    <3>1. dna'[t] = dna[t] /\ claim'[t] = claim[t] /\ received'[t] = received[t]
      BY <1>1, <1>3, <2>2 DEF Claimed, EscrowTypeOK
    <3> QED
      BY <3>1 DEF SlotsPaidOnce
  <2> QED
    BY <2>1, <2>2
<1> HIDE DEF s, a
<1> QED
  BY <1>4, <1>6, <1>7, <1>8

(* execute_private_payout keeps the invariant: the treasury's liability,   *)
(* its ledger and its tokens fall together and the vault gets back what it *)
(* paid.                                                                   *)
LEMMA PayoutInv ==
    ASSUME EscrowInv, NEW p \in permits, Payout(p)
    PROVE  EscrowInv'
<1> DEFINE c == p.lease.cranker
           a == p.lease.amount
<1> USE DEF EscrowInv
<1>1. p \in Permit
  BY DEF EscrowTypeOK
<1>2. MayClaim(p) /\ Claimed(p, "Settled")
  BY DEF Payout
<1>3. c \in Cranker /\ a \in Nat
  BY <1>1, PermitFacts
<1>4. /\ treasury \in Treasury
      /\ treasury.pending_liability >= a
      /\ treasury.ledger_pending >= a
  BY <1>2 DEF MayClaim, EscrowTypeOK, Optional
<1>5. treasury' \in Treasury
  <2>1. /\ treasury.pending_liability - a \in Nat
        /\ treasury.settled_total + a \in Nat
        /\ treasury.reimbursed_total + a \in Nat
        /\ treasury.ledger_pending - a \in Nat
        /\ treasury.ledger_settled + a \in Nat
        /\ treasury.slot_count + 1 \in Nat
    BY <1>3, <1>4, TreasuryFields
  <2> QED
    BY <1>4, <2>1, Zenon DEF Payout, Settled, Treasury
<1>6. tokens' = tokens - a /\ tokens' \in Nat
  BY <1>3 DEF Payout, Claimed, EscrowTypeOK
<1>7. vaultTokens' = vaultTokens
  BY <1>3 DEF Payout, EscrowTypeOK
<1>8. EscrowTypeOK'
  <2>1. /\ dna' \in [Slot -> Optional(Dna)]
        /\ claim' \in [Slot -> Optional(Claim)]
        /\ received' \in [Slot -> Nat]
    BY <1>1, <1>2, ClaimedSlots
  <2> QED
    BY <1>5, <1>6, <1>7, <2>1 DEF Payout, EscrowTypeOK, Optional
<1>9. TreasuryBacked'
  <2>1. treasury' # NULL
    BY <1>5, NullAssumption
  <2>2. /\ treasury'.pending_liability = treasury.pending_liability - a
        /\ treasury'.settled_total = treasury.settled_total + a
        /\ treasury'.reimbursed_total = treasury.reimbursed_total + a
        /\ treasury'.ledger_pending = treasury.ledger_pending - a
        /\ treasury'.ledger_settled = treasury.ledger_settled + a
        /\ treasury'.refunded_total = treasury.refunded_total
        /\ treasury'.ledger_refunded = treasury.ledger_refunded
        /\ treasury'.total_funded = treasury.total_funded
    BY <1>4 DEF Payout, Settled, Treasury
  <2>3. gifts' = gifts /\ gifts.treasury \in Nat /\ treasury # NULL
    BY <1>4, NullAssumption DEF Payout, EscrowTypeOK
  <2> QED
    BY <1>3, <1>4, <1>6, <2>1, <2>2, <2>3, TreasuryFields DEF TreasuryBacked, EscrowTypeOK
<1>10. SlotsPaidOnce'
  BY <1>1, <1>2, ClaimedSlots
<1>11. (VaultBacked /\ SharesAreTokens)'
  BY <1>7 DEF Payout, VaultBacked, SharesAreTokens
<1> HIDE DEF c, a
<1> QED
  BY <1>8, <1>9, <1>10, <1>11

(* refund_epoch_claim keeps the invariant; its unchecked subtractions do   *)
(* not underflow.                                                          *)
LEMMA RefundInv ==
    ASSUME EscrowInv, NEW p \in permits, Refund(p)
    PROVE  EscrowInv'
<1> DEFINE a == p.lease.amount
<1> USE DEF EscrowInv
<1>1. p \in Permit
  BY DEF EscrowTypeOK
<1>2. MayClaim(p) /\ Claimed(p, "Refunded")
  BY DEF Refund
<1>3. a \in Nat
  BY <1>1, PermitFacts
<1>4. /\ treasury \in Treasury
      /\ treasury.pending_liability >= a
      /\ treasury.ledger_pending >= a
  BY <1>2 DEF MayClaim, EscrowTypeOK, Optional
<1>5. treasury' \in Treasury
  <2>1. /\ treasury.pending_liability - a \in Nat
        /\ treasury.refunded_total + a \in Nat
        /\ treasury.ledger_pending - a \in Nat
        /\ treasury.ledger_refunded + a \in Nat
        /\ treasury.slot_count + 1 \in Nat
    BY <1>3, <1>4, TreasuryFields
  <2> QED
    BY <1>4, <2>1, Zenon DEF Refund, Refunded, Treasury
<1>6. tokens' = tokens - a /\ tokens' \in Nat
  BY <1>3 DEF Refund, Claimed, EscrowTypeOK
<1>7. EscrowTypeOK'
  <2>1. /\ dna' \in [Slot -> Optional(Dna)]
        /\ claim' \in [Slot -> Optional(Claim)]
        /\ received' \in [Slot -> Nat]
    BY <1>1, <1>2, ClaimedSlots
  <2> QED
    BY <1>5, <1>6, <2>1 DEF Refund, EscrowTypeOK, Optional, vaultVars
<1>8. TreasuryBacked'
  <2>1. treasury' # NULL
    BY <1>5, NullAssumption
  <2>2. /\ treasury'.pending_liability = treasury.pending_liability - a
        /\ treasury'.refunded_total = treasury.refunded_total + a
        /\ treasury'.ledger_pending = treasury.ledger_pending - a
        /\ treasury'.ledger_refunded = treasury.ledger_refunded + a
        /\ treasury'.settled_total = treasury.settled_total
        /\ treasury'.ledger_settled = treasury.ledger_settled
        /\ treasury'.total_funded = treasury.total_funded
        /\ treasury'.reimbursed_total = treasury.reimbursed_total
    BY <1>4 DEF Refund, Refunded, Treasury
  <2>3. gifts' = gifts /\ gifts.treasury \in Nat /\ treasury # NULL
    BY <1>4, NullAssumption DEF Refund, EscrowTypeOK
  <2> QED
    BY <1>3, <1>4, <1>6, <2>1, <2>2, <2>3, TreasuryFields DEF TreasuryBacked, EscrowTypeOK
<1>9. SlotsPaidOnce'
  BY <1>1, <1>2, ClaimedSlots
<1>10. (VaultBacked /\ SharesAreTokens)'
  BY DEF Refund, VaultBacked, SharesAreTokens, vaultVars
<1> HIDE DEF a
<1> QED
  BY <1>7, <1>8, <1>9, <1>10

-----------------------------------------------------------------------------
(* Vaults.                                                                 *)

(* register_cranker keeps the invariant.                                   *)
LEMMA RegisterCrankerInv ==
    ASSUME EscrowInv, NEW c \in Cranker, RegisterCranker(c)
    PROVE  EscrowInv'
<1> USE DEF EscrowInv
<1>1. EscrowTypeOK'
  BY DEF RegisterCranker, EscrowTypeOK, Optional, payoutVars
<1>2. (TreasuryBacked /\ SlotsPaidOnce /\ VaultBacked /\ SharesAreTokens)'
  BY DEF RegisterCranker, TreasuryBacked, SlotsPaidOnce, VaultBacked, SharesAreTokens, payoutVars
<1> QED
  BY <1>1, <1>2

(* set_cranker_funding_policy keeps the invariant.                         *)
LEMMA SetFundingPolicyInv ==
    ASSUME EscrowInv, NEW c \in Cranker, NEW b \in Policy, SetFundingPolicy(c, b)
    PROVE  EscrowInv'
<1> USE DEF EscrowInv
<1>1. EscrowTypeOK'
  BY CrankerAssumption DEF SetFundingPolicy, EscrowTypeOK, Optional, payoutVars
<1>2. (TreasuryBacked /\ SlotsPaidOnce /\ VaultBacked /\ SharesAreTokens)'
  BY DEF SetFundingPolicy, TreasuryBacked, SlotsPaidOnce, VaultBacked, SharesAreTokens, payoutVars
<1> QED
  BY <1>1, <1>2

(* initialize_cranker_vault keeps the invariant: a new vault counts        *)
(* nothing and its token account is new.                                   *)
LEMMA InitializeVaultInv ==
    ASSUME EscrowInv, NEW c \in Cranker, InitializeVault(c)
    PROVE  EscrowInv'
<1> DEFINE new == [total_liquidity |-> 0, total_shares |-> 0, total_withdrawn |-> 0]
<1> USE DEF EscrowInv
<1>1. new \in Vault /\ new # NULL
  BY NullAssumption DEF Vault
<1>2. vault' = [vault EXCEPT ![c] = new] /\ vault[c] = NULL
  BY DEF InitializeVault
<1>3. /\ vault' \in [Cranker -> Optional(Vault)]
      /\ \A d \in Cranker : vault'[d] = IF d = c THEN new ELSE vault[d]
  BY <1>1, <1>2 DEF EscrowTypeOK, Optional
<1>4. UNCHANGED <<treasury, tokens, payoutVars, config, allowed, vaultTokens, position,
                  deposited, permits, gifts, now>>
  BY DEF InitializeVault
<1>5. EscrowTypeOK'
  BY <1>3, <1>4 DEF EscrowTypeOK, payoutVars
<1>6. (TreasuryBacked /\ SlotsPaidOnce)'
  BY <1>4 DEF TreasuryBacked, SlotsPaidOnce, payoutVars
<1>7. VaultBacked'
  BY <1>1, <1>2, <1>3, <1>4 DEF VaultBacked
<1>8. SharesAreTokens'
  BY <1>1, <1>2, <1>3, <1>4 DEF SharesAreTokens
<1> QED
  BY <1>5, <1>6, <1>7, <1>8

(* A plain transfer to a vault's token account keeps the invariant.        *)
LEMMA GiftToVaultInv ==
    ASSUME EscrowInv, NEW c \in Cranker, GiftToVault(c)
    PROVE  EscrowInv'
<1> USE DEF EscrowInv
<1>1. /\ gifts.treasury \in Nat
      /\ gifts.vault \in [Cranker -> Nat]
      /\ vaultTokens \in [Cranker -> Nat]
  BY DEF EscrowTypeOK
<1>2. UNCHANGED <<treasury, tokens, payoutVars, config, allowed, vault, position, deposited,
                  permits, now>>
  BY DEF GiftToVault
<1>3. gifts' = [gifts EXCEPT !.vault = [gifts.vault EXCEPT ![c] = gifts.vault[c] + 1]]
  BY DEF GiftToVault
<1>4. [gifts.vault EXCEPT ![c] = gifts.vault[c] + 1] \in [Cranker -> Nat]
  BY <1>1
<1>5. /\ gifts' \in [treasury : Nat, vault : [Cranker -> Nat]]
      /\ gifts'.treasury = gifts.treasury
      /\ gifts'.vault = [gifts.vault EXCEPT ![c] = gifts.vault[c] + 1]
  BY <1>3, <1>4, Zenon DEF EscrowTypeOK
<1>6. vaultTokens' = [vaultTokens EXCEPT ![c] = vaultTokens[c] + 1]
  BY DEF GiftToVault
<1>7. vaultTokens' \in [Cranker -> Nat]
  BY <1>1, <1>6
<1>8. EscrowTypeOK'
  BY <1>2, <1>5, <1>7 DEF EscrowTypeOK, payoutVars
<1>9. (TreasuryBacked /\ SlotsPaidOnce /\ SharesAreTokens)'
  BY <1>2, <1>5 DEF TreasuryBacked, SlotsPaidOnce, SharesAreTokens, payoutVars
<1>10. VaultBacked'
  <2> SUFFICES ASSUME NEW d \in Cranker
               PROVE  vaultTokens'[d] =
                         gifts'.vault[d] + (IF vault[d] = NULL THEN 0 ELSE vault[d].total_liquidity)
    BY <1>2 DEF VaultBacked
  <2>1. vault[d] # NULL => vault[d].total_liquidity \in Nat
    BY DEF EscrowTypeOK, Optional, Vault
  <2>2. vaultTokens[d] =
           gifts.vault[d] + (IF vault[d] = NULL THEN 0 ELSE vault[d].total_liquidity)
    BY DEF VaultBacked
  <2> QED
    BY <1>1, <1>5, <1>6, <2>1, <2>2
<1> QED
  BY <1>8, <1>9, <1>10

(* What the invariant says about one vault and one position.               *)
LEMMA VaultFacts ==
    ASSUME EscrowInv, NEW c \in Cranker, NEW f \in Funder, vault[c] # NULL
    PROVE  /\ vault[c] \in Vault
           /\ vault[c].total_liquidity \in Nat /\ vault[c].total_withdrawn \in Nat
           /\ vault[c].total_shares = vault[c].total_liquidity
           /\ position[c][f] \in Position
           /\ position[c][f].principal_amount \in Nat
           /\ position[c][f].withdrawn_amount \in Nat
           /\ deposited[c][f] \in Nat
           /\ vaultTokens[c] \in Nat /\ gifts.vault[c] \in Nat
           /\ vaultTokens[c] = gifts.vault[c] + vault[c].total_liquidity
           /\ deposited[c][f] = position[c][f].principal_amount + position[c][f].withdrawn_amount
<1> USE DEF EscrowInv
<1>1. vault[c] \in Vault
  BY DEF EscrowTypeOK, Optional
<1>2. vault[c].total_liquidity \in Nat /\ vault[c].total_withdrawn \in Nat
  BY <1>1 DEF Vault
<1>3. position[c][f] \in Position
  BY DEF EscrowTypeOK
<1>4. position[c][f].principal_amount \in Nat /\ position[c][f].withdrawn_amount \in Nat
  BY <1>3 DEF Position
<1>5. deposited[c][f] \in Nat /\ vaultTokens[c] \in Nat /\ gifts.vault[c] \in Nat
  BY DEF EscrowTypeOK
<1>6. /\ vault[c].total_shares = vault[c].total_liquidity
      /\ deposited[c][f] = position[c][f].principal_amount + position[c][f].withdrawn_amount
  BY DEF SharesAreTokens
<1>7. vaultTokens[c] = gifts.vault[c] + vault[c].total_liquidity
  BY DEF VaultBacked
<1> QED
  BY <1>1, <1>2, <1>3, <1>4, <1>5, <1>6, <1>7

(* A step that changes one vault and one position, and nothing else of the *)
(* escrow, keeps the invariant when the new values agree.                  *)
LEMMA VaultUpdate ==
    ASSUME EscrowInv, NEW c \in Cranker, NEW f \in Funder,
           NEW v \in Vault, NEW q \in Position, NEW t \in Nat, NEW d \in Nat,
           vault' = [vault EXCEPT ![c] = v],
           vaultTokens' = [vaultTokens EXCEPT ![c] = t],
           position' = [position EXCEPT ![c] = [position[c] EXCEPT ![f] = q]],
           deposited' = [deposited EXCEPT ![c] = [deposited[c] EXCEPT ![f] = d]],
           UNCHANGED <<treasury, tokens, payoutVars, config, allowed, permits, gifts, now>>,
           v.total_shares = v.total_liquidity,
           t = gifts.vault[c] + v.total_liquidity,
           d = q.principal_amount + q.withdrawn_amount
    PROVE  EscrowInv'
<1> USE DEF EscrowInv
<1>1. v # NULL
  BY NullAssumption
<1>2. /\ vault' \in [Cranker -> Optional(Vault)]
      /\ \A e \in Cranker : vault'[e] = IF e = c THEN v ELSE vault[e]
  BY DEF EscrowTypeOK, Optional
<1>3. /\ vaultTokens' \in [Cranker -> Nat]
      /\ \A e \in Cranker : vaultTokens'[e] = IF e = c THEN t ELSE vaultTokens[e]
  BY DEF EscrowTypeOK
<1>4. /\ position' \in [Cranker -> [Funder -> Position]]
      /\ \A e \in Cranker, g \in Funder :
            position'[e][g] = IF e = c /\ g = f THEN q ELSE position[e][g]
  <2>1. position[c] \in [Funder -> Position]
    BY DEF EscrowTypeOK
  <2>2. [position[c] EXCEPT ![f] = q] \in [Funder -> Position]
    BY <2>1
  <2> QED
    BY <2>1, <2>2 DEF EscrowTypeOK
<1>5. /\ deposited' \in [Cranker -> [Funder -> Nat]]
      /\ \A e \in Cranker, g \in Funder :
            deposited'[e][g] = IF e = c /\ g = f THEN d ELSE deposited[e][g]
  <2>1. deposited[c] \in [Funder -> Nat]
    BY DEF EscrowTypeOK
  <2>2. [deposited[c] EXCEPT ![f] = d] \in [Funder -> Nat]
    BY <2>1
  <2> QED
    BY <2>1, <2>2 DEF EscrowTypeOK
<1>6. EscrowTypeOK'
  BY <1>2, <1>3, <1>4, <1>5 DEF EscrowTypeOK, payoutVars
<1>7. (TreasuryBacked /\ SlotsPaidOnce)'
  BY DEF TreasuryBacked, SlotsPaidOnce, payoutVars
<1>8. VaultBacked'
  BY <1>1, <1>2, <1>3 DEF VaultBacked
<1>9. SharesAreTokens'
  BY <1>1, <1>2, <1>4, <1>5 DEF SharesAreTokens
<1> QED
  BY <1>6, <1>7, <1>8, <1>9

(* At the price of one fund_cranker mints one share per token.             *)
LEMMA MintsOneForOne ==
    ASSUME EscrowInv, NEW c \in Cranker, NEW f \in Funder, NEW a \in Amount, vault[c] # NULL
    PROVE  MintedShares(vault[c], a) = a
<1> DEFINE v == vault[c]
<1>1. a \in Nat
  BY BoundAssumption DEF Amount
<1>2. v.total_liquidity \in Nat /\ v.total_shares = v.total_liquidity
  BY VaultFacts
<1>3. CASE v.total_shares = 0
  BY <1>3 DEF MintedShares
<1>4. CASE v.total_shares # 0
  <2>1. v.total_shares > 0
    BY <1>2, <1>4
  <2>2. (a * v.total_liquidity) \div v.total_liquidity = a
    BY <1>1, <1>2, <2>1, DivideProduct
  <2> QED
    BY <1>2, <1>4, <2>2 DEF MintedShares
<1> QED
  BY <1>3, <1>4

(* And withdraw_cranker_funds pays and burns one for one, the rounding up  *)
(* included.                                                               *)
LEMMA BurnsOneForOne ==
    ASSUME EscrowInv, NEW c \in Cranker, NEW f \in Funder, NEW a \in Amount,
           vault[c] # NULL, vault[c].total_shares > 0
    PROVE  /\ SharesToBurn(vault[c], a) = a
           /\ Withdrawable(vault[c], position[c][f].principal_amount)
                = position[c][f].principal_amount
<1> DEFINE v == vault[c]
<1>1. a \in Nat
  BY BoundAssumption DEF Amount
<1>2. /\ v.total_liquidity \in Nat /\ v.total_shares = v.total_liquidity
      /\ position[c][f].principal_amount \in Nat
  BY VaultFacts
<1>3. (a * v.total_liquidity + v.total_liquidity - 1) \div v.total_liquidity = a
  BY <1>1, <1>2, DivideRoundUp
<1>4. (position[c][f].principal_amount * v.total_liquidity) \div v.total_liquidity
        = position[c][f].principal_amount
  BY <1>2, DivideProduct
<1> QED
  BY <1>2, <1>3, <1>4 DEF SharesToBurn, Withdrawable

(* fund_cranker keeps the invariant: at the price of one the shares minted *)
(* are the tokens deposited.                                               *)
LEMMA FundVaultInv ==
    ASSUME EscrowInv, NEW c \in Cranker, NEW f \in Funder, NEW a \in Amount,
           FundVault(c, f, a)
    PROVE  EscrowInv'
<1> DEFINE v == vault[c]
           v2 == [v EXCEPT !.total_liquidity = v.total_liquidity + a,
                           !.total_shares = v.total_shares + a]
           q == position[c][f]
           q2 == [q EXCEPT !.principal_amount = q.principal_amount + a]
           d == deposited[c][f]
<1>1. a \in Nat
  BY BoundAssumption DEF Amount
<1>2. v # NULL
  BY DEF FundVault
<1>3. /\ v \in Vault /\ v.total_liquidity \in Nat
      /\ v.total_withdrawn \in Nat /\ v.total_shares = v.total_liquidity
      /\ q \in Position /\ q.principal_amount \in Nat /\ q.withdrawn_amount \in Nat
      /\ d \in Nat /\ d = q.principal_amount + q.withdrawn_amount
      /\ vaultTokens[c] \in Nat /\ gifts.vault[c] \in Nat
      /\ vaultTokens[c] = gifts.vault[c] + v.total_liquidity
  BY <1>2, VaultFacts
<1>4. MintedShares(v, a) = a
  BY <1>2, MintsOneForOne
<1>5. /\ vaultTokens' = [vaultTokens EXCEPT ![c] = vaultTokens[c] + a]
      /\ vault' = [vault EXCEPT ![c] = v2]
      /\ position' = [position EXCEPT ![c] = [position[c] EXCEPT ![f] = q2]]
      /\ deposited' = [deposited EXCEPT ![c] = [deposited[c] EXCEPT ![f] = d + a]]
      /\ UNCHANGED <<treasury, tokens, payoutVars, config, allowed, permits, gifts, now>>
  BY <1>4, Zenon DEF FundVault
<1>6. v2 \in Vault
  <2>1. v.total_liquidity + a \in Nat /\ v.total_shares + a \in Nat
    BY <1>1, <1>3
  <2> QED
    BY <1>3, <2>1, Zenon DEF Vault
<1>7. q2 \in Position
  <2>1. q.principal_amount + a \in Nat
    BY <1>1, <1>3
  <2> QED
    BY <1>3, <2>1, Zenon DEF Position
<1>8. v2.total_liquidity = v.total_liquidity + a /\ v2.total_shares = v.total_shares + a
  BY <1>3 DEF Vault
<1>9. q2.principal_amount = q.principal_amount + a /\ q2.withdrawn_amount = q.withdrawn_amount
  BY <1>3 DEF Position
<1> HIDE DEF v2, q2, v, q, d
<1>10. /\ v2.total_shares = v2.total_liquidity
       /\ vaultTokens[c] + a = gifts.vault[c] + v2.total_liquidity
       /\ d + a = q2.principal_amount + q2.withdrawn_amount
       /\ vaultTokens[c] + a \in Nat /\ d + a \in Nat
  BY <1>1, <1>3, <1>8, <1>9
<1> QED
  BY <1>5, <1>6, <1>7, <1>10, VaultUpdate

(* withdraw_cranker_funds keeps the invariant: at the price of one it      *)
(* burns one share for every token, the rounding up included.              *)
LEMMA WithdrawVaultInv ==
    ASSUME EscrowInv, NEW c \in Cranker, NEW f \in Funder, NEW a \in Amount,
           WithdrawVault(c, f, a)
    PROVE  EscrowInv'
<1> DEFINE v == vault[c]
           v2 == [v EXCEPT !.total_liquidity = v.total_liquidity - a,
                           !.total_shares = v.total_shares - a,
                           !.total_withdrawn = v.total_withdrawn + a]
           q == position[c][f]
           q2 == [q EXCEPT !.principal_amount = q.principal_amount - a,
                           !.withdrawn_amount = q.withdrawn_amount + a]
           d == deposited[c][f]
<1>1. a \in Nat
  BY BoundAssumption DEF Amount
<1>2. v # NULL
  BY DEF WithdrawVault, MayWithdraw
<1>3. /\ v \in Vault /\ v.total_liquidity \in Nat
      /\ v.total_withdrawn \in Nat /\ v.total_shares = v.total_liquidity
      /\ q \in Position /\ q.principal_amount \in Nat /\ q.withdrawn_amount \in Nat
      /\ d \in Nat /\ d = q.principal_amount + q.withdrawn_amount
      /\ vaultTokens[c] \in Nat /\ gifts.vault[c] \in Nat
      /\ vaultTokens[c] = gifts.vault[c] + v.total_liquidity
  BY <1>2, VaultFacts
<1>4. v.total_shares > 0 /\ a <= v.total_liquidity
  BY DEF WithdrawVault, MayWithdraw
<1>5. SharesToBurn(v, a) = a
  BY <1>2, <1>4, BurnsOneForOne
<1>6. a <= q.principal_amount
  BY <1>5 DEF WithdrawVault, MayWithdraw
<1>7. /\ vaultTokens' = [vaultTokens EXCEPT ![c] = vaultTokens[c] - a]
      /\ vault' = [vault EXCEPT ![c] = v2]
      /\ position' = [position EXCEPT ![c] = [position[c] EXCEPT ![f] = q2]]
      /\ UNCHANGED deposited
      /\ UNCHANGED <<treasury, tokens, payoutVars, config, allowed, permits, gifts, now>>
  BY <1>5, Zenon DEF WithdrawVault, MayWithdraw
<1>8. deposited' = [deposited EXCEPT ![c] = [deposited[c] EXCEPT ![f] = d]]
  BY <1>7 DEF EscrowInv, EscrowTypeOK
<1>9. v2 \in Vault
  <2>1. /\ v.total_liquidity - a \in Nat /\ v.total_shares - a \in Nat
        /\ v.total_withdrawn + a \in Nat
    BY <1>1, <1>3, <1>4
  <2> QED
    BY <1>3, <2>1, Zenon DEF Vault
<1>10. q2 \in Position
  <2>1. q.principal_amount - a \in Nat /\ q.withdrawn_amount + a \in Nat
    BY <1>1, <1>3, <1>6
  <2> QED
    BY <1>3, <2>1, Zenon DEF Position
<1>11. v2.total_liquidity = v.total_liquidity - a /\ v2.total_shares = v.total_shares - a
  BY <1>3 DEF Vault
<1>12. /\ q2.principal_amount = q.principal_amount - a
       /\ q2.withdrawn_amount = q.withdrawn_amount + a
  BY <1>3 DEF Position
<1> HIDE DEF v2, q2, v, q, d
<1>13. /\ v2.total_shares = v2.total_liquidity
       /\ vaultTokens[c] - a = gifts.vault[c] + v2.total_liquidity
       /\ d = q2.principal_amount + q2.withdrawn_amount
       /\ vaultTokens[c] - a \in Nat
  BY <1>1, <1>3, <1>4, <1>11, <1>12
<1> QED
  BY <1>3, <1>7, <1>8, <1>9, <1>10, <1>13, VaultUpdate

-----------------------------------------------------------------------------
(* The theorems.                                                           *)

(* EscrowInv holds in every reachable state.                               *)
LEMMA EscrowInvariance == EscrowSpec => []EscrowInv
<1>1. EscrowInv /\ [EscrowNext]_vars => EscrowInv'
  <2> SUFFICES ASSUME EscrowInv, [EscrowNext]_vars PROVE EscrowInv'
    OBVIOUS
  <2>1. CASE TreasuryStep
    BY <2>1, FundTreasuryInv, CloseTreasuryInv, ConfigureInv, GiftToTreasuryInv
    DEF TreasuryStep
  <2>2. CASE SlotStep
    BY <2>2, CreateDnaInv, SignPermitInv, PayoutInv, RefundInv, TickInv DEF SlotStep
  <2>3. CASE VaultStep
    BY <2>3, RegisterCrankerInv, SetFundingPolicyInv, InitializeVaultInv, GiftToVaultInv,
       FundVaultInv, WithdrawVaultInv
    DEF VaultStep
  <2>4. CASE UNCHANGED vars
    BY <2>4 DEF EscrowInv, EscrowTypeOK, TreasuryBacked, SlotsPaidOnce, VaultBacked,
                SharesAreTokens, vars, payoutVars, vaultVars
  <2> QED
    BY <2>1, <2>2, <2>3, <2>4 DEF EscrowNext
<1> QED
  BY <1>1, InitEscrowInv, PTL DEF EscrowSpec

(* Whatever the order of funding, leasing, paying, refunding, closing and  *)
(* withdrawing, the accounts keep their types: no counter underflows.      *)
THEOREM EscrowTypeCorrect == EscrowSpec => []EscrowTypeOK
  BY EscrowInvariance, PTL DEF EscrowInv

(* The treasury owes what its token account holds, and its two accounts    *)
(* agree.                                                                  *)
THEOREM TreasuryAlwaysBacked == EscrowSpec => []TreasuryBacked
  BY EscrowInvariance, PTL DEF EscrowInv

(* No slot is paid or refunded twice, for any number of permits and leases *)
(* and however late they are used.                                         *)
THEOREM SlotsAlwaysPaidOnce == EscrowSpec => []SlotsPaidOnce
  BY EscrowInvariance, PTL DEF EscrowInv

(* A Cranker's vault holds the liquidity it counts: payouts are always     *)
(* reimbursed in full.                                                     *)
THEOREM VaultsAlwaysBacked == EscrowSpec => []VaultBacked
  BY EscrowInvariance, PTL DEF EscrowInv

(* The shares of the funders add up to the vault's supply.                 *)
Shares(c) == [f \in Funder |-> position[c][f].principal_amount]
Supply(v) == IF v = NULL THEN 0 ELSE v.total_shares
SharesAddUp == \A c \in Cranker : SumOver(Shares(c), Funder) = Supply(vault[c])

(* A position and the supply that change by the same number of shares.     *)
LEMMA SharesChange ==
    ASSUME EscrowInv, SharesAddUp, NEW c \in Cranker, NEW f \in Funder, NEW n \in Int,
           NEW v, vault' = [vault EXCEPT ![c] = v], v # NULL, vault[c] # NULL,
           v.total_shares = vault[c].total_shares + n,
           NEW q, position' = [position EXCEPT ![c] = [position[c] EXCEPT ![f] = q]],
           q.principal_amount = position[c][f].principal_amount + n
    PROVE  SharesAddUp'
<1> SUFFICES ASSUME NEW d \in Cranker
             PROVE  SumOver(Shares(d)', Funder) = Supply(vault'[d])
  BY DEF SharesAddUp
<1>1. /\ position \in [Cranker -> [Funder -> Position]]
      /\ vault \in [Cranker -> Optional(Vault)]
  BY DEF EscrowInv, EscrowTypeOK
<1>2. SumOver(Shares(d), Funder) = Supply(vault[d])
  BY DEF SharesAddUp
<1>3. CASE d # c
  <2>1. position'[d] = position[d] /\ vault'[d] = vault[d]
    BY <1>1, <1>3
  <2>2. Shares(d)' = Shares(d)
    BY <2>1 DEF Shares
  <2> QED
    BY <1>2, <2>1, <2>2
<1>4. CASE d = c
  <2> DEFINE old == Shares(c)
             new == Shares(c)'
  <2>1. old \in [Funder -> Int]
    BY <1>1 DEF Shares, Position
  <2>2. \A g \in Funder : position'[c][g] = IF g = f THEN q ELSE position[c][g]
    BY <1>1
  <2>3. /\ new = [g \in Funder |-> position'[c][g].principal_amount]
        /\ old[f] = position[c][f].principal_amount
        /\ new[f] = old[f] + n
        /\ \A g \in Funder \ {f} : new[g] = old[g]
    BY <2>2 DEF Shares
  <2>4. new \in [Funder -> Int]
    <3>1. \A g \in Funder : new[g] \in Int
      BY <2>1, <2>3
    <3> QED
      BY <2>3, <3>1
  <2>5. vault[c].total_shares \in Int
    BY <1>1 DEF Optional, Vault
  <2>6. old[f] \in Int
    BY <2>1
  <2> HIDE DEF old, new
  <2>7. SumOver(new, Funder) = SumOver(old, Funder) - old[f] + new[f]
    BY <2>1, <2>3, <2>4, FunderAssumption, SumChanges
  <2>8. SumOver(old, Funder) = vault[c].total_shares
    BY <1>2, <1>4 DEF old, Supply
  <2>9. vault'[c] = v
    BY <1>1
  <2>10. SumOver(new, Funder) = Supply(vault'[c])
    BY <2>3, <2>5, <2>6, <2>7, <2>8, <2>9 DEF Supply
  <2> QED
    BY <1>4, <2>10 DEF new
<1> QED
  BY <1>3, <1>4

(* Every step keeps the supply the sum of the shares.                      *)
LEMMA SharesAddUpInv ==
    ASSUME EscrowInv, SharesAddUp, [EscrowNext]_vars
    PROVE  SharesAddUp'
<1>1. CASE UNCHANGED <<vault, position>>
  <2>1. \A c \in Cranker : Shares(c)' = Shares(c) /\ Supply(vault[c])' = Supply(vault[c])
    BY <1>1 DEF Shares, Supply
  <2> QED
    BY <2>1 DEF SharesAddUp
<1>2. ASSUME NEW c \in Cranker, InitializeVault(c) PROVE SharesAddUp'
  <2>1. /\ vault[c] = NULL /\ position' = position
        /\ vault' = [vault EXCEPT ![c] = [total_liquidity |-> 0, total_shares |-> 0,
                                          total_withdrawn |-> 0]]
    BY <1>2 DEF InitializeVault
  <2>2. \A d \in Cranker : Shares(d)' = Shares(d)
    BY <2>1 DEF Shares
  <2>3. \A d \in Cranker : Supply(vault'[d]) = Supply(vault[d])
    BY <2>1 DEF Supply, EscrowInv, EscrowTypeOK
  <2> QED
    BY <2>2, <2>3 DEF SharesAddUp
<1>3. ASSUME NEW c \in Cranker, NEW f \in Funder, NEW a \in Amount, FundVault(c, f, a)
      PROVE  SharesAddUp'
  <2> DEFINE v == vault[c]
             v2 == [v EXCEPT !.total_liquidity = v.total_liquidity + a,
                             !.total_shares = v.total_shares + a]
             q2 == [position[c][f] EXCEPT !.principal_amount = position[c][f].principal_amount + a]
  <2>1. a \in Int /\ v # NULL
    BY <1>3, BoundAssumption DEF Amount, FundVault
  <2>2. MintedShares(v, a) = a /\ v \in Vault /\ position[c][f] \in Position
    BY <2>1, MintsOneForOne, VaultFacts
  <2>3. /\ vault' = [vault EXCEPT ![c] = v2]
        /\ position' = [position EXCEPT ![c] = [position[c] EXCEPT ![f] = q2]]
    BY <1>3, <2>2, Zenon DEF FundVault
  <2>4. v2.total_shares = v.total_shares + a
    BY <2>2 DEF Vault
  <2>5. v2 # NULL
    <3>1. v2 \in Vault
      <4>1. v.total_liquidity + a \in Nat /\ v.total_shares + a \in Nat
        BY <2>2, BoundAssumption DEF Vault, Amount
      <4> QED
        BY <2>2, <4>1, Zenon DEF Vault
    <3> QED
      BY <3>1, NullAssumption
  <2>6. q2.principal_amount = position[c][f].principal_amount + a
    BY <2>2 DEF Position
  <2> HIDE DEF v2, q2
  <2> QED
    BY <2>1, <2>3, <2>4, <2>5, <2>6, SharesChange
<1>4. ASSUME NEW c \in Cranker, NEW f \in Funder, NEW a \in Amount, WithdrawVault(c, f, a)
      PROVE  SharesAddUp'
  <2> DEFINE v == vault[c]
             p == position[c][f]
             v2 == [v EXCEPT !.total_liquidity = v.total_liquidity - a,
                             !.total_shares = v.total_shares - a,
                             !.total_withdrawn = v.total_withdrawn + a]
             q2 == [p EXCEPT !.principal_amount = p.principal_amount - a,
                             !.withdrawn_amount = p.withdrawn_amount + a]
  <2>1. a \in Int /\ v # NULL /\ v.total_shares > 0 /\ a <= v.total_liquidity
    BY <1>4, BoundAssumption DEF Amount, WithdrawVault, MayWithdraw
  <2>2. /\ SharesToBurn(v, a) = a /\ v \in Vault /\ p \in Position
        /\ v.total_shares = v.total_liquidity
    BY <2>1, BurnsOneForOne, VaultFacts
  <2>3. /\ vault' = [vault EXCEPT ![c] = v2]
        /\ position' = [position EXCEPT ![c] = [position[c] EXCEPT ![f] = q2]]
    BY <1>4, <2>2, Zenon DEF WithdrawVault
  <2>4. v2.total_shares = v.total_shares + (0 - a)
    BY <2>1, <2>2 DEF Vault
  <2>5. v2 # NULL
    <3>1. v2 \in Vault
      <4>1. /\ v.total_liquidity - a \in Nat /\ v.total_shares - a \in Nat
            /\ v.total_withdrawn + a \in Nat
        BY <2>1, <2>2, BoundAssumption DEF Vault, Amount
      <4> QED
        BY <2>2, <4>1, Zenon DEF Vault
    <3> QED
      BY <3>1, NullAssumption
  <2>6. q2.principal_amount = p.principal_amount + (0 - a)
    BY <2>1, <2>2 DEF Position
  <2>7. 0 - a \in Int
    BY <2>1
  <2> HIDE DEF v2, q2
  <2> QED
    BY <2>1, <2>3, <2>4, <2>5, <2>6, <2>7, SharesChange
<1>5. CASE TreasuryStep
  BY <1>1, <1>5 DEF TreasuryStep, FundTreasury, CloseTreasury, Configure, GiftToTreasury, vaultVars
<1>6. CASE SlotStep
  BY <1>1, <1>6 DEF SlotStep, CreateDna, SignPermit, Payout, Refund, Tick, vaultVars
<1>7. CASE VaultStep
  BY <1>1, <1>2, <1>3, <1>4, <1>7 DEF VaultStep, RegisterCranker, SetFundingPolicy, GiftToVault
<1>8. CASE UNCHANGED vars
  BY <1>1, <1>8 DEF vars, vaultVars
<1> QED
  BY <1>5, <1>6, <1>7, <1>8 DEF EscrowNext

(* At the price of one, the test of the instruction is the funder's stake. *)
LEMMA WholeFunders ==
    ASSUME EscrowInv, SharesAddUp
    PROVE  FundersAreWhole
<1> SUFFICES ASSUME NEW c \in Cranker, NEW f \in Funder, NEW a \in Amount
             PROVE  MayWithdraw(c, f, a) <=>
                        /\ vault[c] # NULL /\ gifts.vault[c] = 0
                        /\ a + position[c][f].withdrawn_amount <= deposited[c][f]
  BY DEF FundersAreWhole
<1>0. CASE vault[c] = NULL
  BY <1>0 DEF MayWithdraw
<1>1. CASE vault[c] # NULL
  <2> DEFINE v == vault[c]
             p == position[c][f]
  <2>1. /\ v.total_liquidity \in Nat /\ v.total_shares = v.total_liquidity
        /\ p.principal_amount \in Nat /\ p.withdrawn_amount \in Nat
        /\ deposited[c][f] = p.principal_amount + p.withdrawn_amount
        /\ gifts.vault[c] \in Nat /\ vaultTokens[c] = gifts.vault[c] + v.total_liquidity
    BY <1>1, VaultFacts
  <2>2. p.principal_amount <= v.total_liquidity
    <3>1. Shares(c) \in [Funder -> Nat] /\ Shares(c)[f] = p.principal_amount
      <4>1. \A g \in Funder : position[c][g].principal_amount \in Nat
        BY DEF EscrowInv, EscrowTypeOK, Position
      <4> QED
        BY <4>1 DEF Shares
    <3>2. Shares(c)[f] <= SumOver(Shares(c), Funder)
      BY <3>1, FunderAssumption, SumBounds
    <3> QED
      BY <1>1, <2>1, <3>1, <3>2 DEF SharesAddUp, Supply
  <2>3. a \in Nat /\ a > 0
    BY BoundAssumption DEF Amount
  <2>4. CASE v.total_shares > 0
    <3>1. SharesToBurn(v, a) = a /\ Withdrawable(v, p.principal_amount) = p.principal_amount
      BY <1>1, <2>4, BurnsOneForOne
    <3>2. MayWithdraw(c, f, a) <=> /\ vaultTokens[c] = v.total_liquidity
                                   /\ a <= p.principal_amount /\ a <= v.total_liquidity
      BY <1>1, <2>4, <3>1 DEF MayWithdraw
    <3> HIDE DEF v, p
    <3> QED
      BY <1>1, <2>1, <2>2, <2>3, <3>2 DEF p
  <2>5. CASE ~(v.total_shares > 0)
    <3>1. p.principal_amount = 0
      BY <2>1, <2>2, <2>5
    <3>2. ~(a + p.withdrawn_amount <= deposited[c][f])
      BY <2>1, <2>3, <3>1
    <3> QED
      BY <2>5, <3>2 DEF MayWithdraw
  <2> QED
    BY <2>4, <2>5
<1> QED
  BY <1>0, <1>1

(* However funders deposit and withdraw, a funder may withdraw exactly its *)
(* stake, in the whole or in part, unless somebody sent tokens to the      *)
(* vault by a plain transfer.                                              *)
THEOREM FundersAlwaysWhole == EscrowSpec => []FundersAreWhole
<1>1. EscrowInit => SharesAddUp
  <2> SUFFICES ASSUME EscrowInit, NEW c \in Cranker
               PROVE  SumOver(Shares(c), Funder) = 0 /\ vault[c] = NULL
    BY DEF SharesAddUp, Supply
  <2>1. Shares(c) \in [Funder -> Int] /\ \A f \in Funder : Shares(c)[f] = 0
    <3>1. \A f \in Funder : position[c][f].principal_amount = 0
      BY DEF EscrowInit
    <3> QED
      BY <3>1 DEF Shares
  <2> QED
    BY <2>1, FunderAssumption, SumType DEF EscrowInit
<1>2. EscrowInv /\ SharesAddUp /\ [EscrowNext]_vars => SharesAddUp'
  BY SharesAddUpInv
<1>3. EscrowInv /\ SharesAddUp => FundersAreWhole
  BY WholeFunders
<1> QED
  BY <1>1, <1>2, <1>3, EscrowInvariance, PTL DEF EscrowSpec
=============================================================================
