---------------------------- MODULE PaymentMoney ----------------------------
(***************************************************************************)
(* What a wallet-to-TIN payment promises about money: it leaves the wallet *)
(* for the TCAP reserve at most once, is credited to the recipient from    *)
(* the reserve at most once, and never goes back.  Credits are totally     *)
(* ordered by TCAP's shared root.                                          *)
(***************************************************************************)
EXTENDS Naturals, Sequences

CONSTANT Payment

VARIABLES
    deposited,   \* payments whose deposit is in the reserve
    ledger       \* the credits, in the order of the shared root

moneyVars == <<deposited, ledger>>

CreditedIn(s) == {s[i] : i \in DOMAIN s}

(* Value held for recipients that are not credited yet.                    *)
Pending == deposited \ CreditedIn(ledger)

MoneyInit == deposited = {} /\ ledger = <<>>

(* The deposit of a payment enters the reserve.                            *)
Deposit(p) ==
    /\ p \notin deposited
    /\ deposited' = deposited \cup {p}
    /\ UNCHANGED ledger

(* A payment that is pending is credited.                                  *)
Credit(p) ==
    /\ p \in Pending
    /\ ledger' = Append(ledger, p)
    /\ UNCHANGED deposited

MoneyNext == \E p \in Payment : Deposit(p) \/ Credit(p)

MoneySpec == MoneyInit /\ [][MoneyNext]_moneyVars
=============================================================================
