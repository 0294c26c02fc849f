---------------------------- MODULE ClientsProofs ----------------------------
(***************************************************************************)
(* Theorems about the clients of the protocol, for any number of owners,    *)
(* devices, messages, payments, Node instances, Crankers and executors, and *)
(* any values of the bounds. The components share no state, so each part    *)
(* below has its own inductive invariant.                                   *)
(***************************************************************************)
EXTENDS TinCreation, TinSeedAccess, PrivateSessions, PaymentRequests, CrossChain,
        Sums, SequenceTheorems, TLAPS

-----------------------------------------------------------------------------
(* Cross-chain payouts. What keeps a settlement from being paid twice is    *)
(* spread over the chains: the hub takes it once, and a message can be paid *)
(* only by the executor its authorization names, which never changes once   *)
(* a Cranker holds it. So the first payment leaves a mark exactly where     *)
(* every later one would look.                                              *)

RunFields == {"pc", "settlement", "attempt", "route", "active", "liquidity"}

\* what the payout contracts and the Crankers' runs are made of
PayoutTypeOK ==
    /\ lane \in {"message", "direct"}
    /\ hub \in [processed : SUBSET Settlement, paused : BOOLEAN]
    /\ executed \in [Executor -> SUBSET Settlement]
    /\ payouts \in [Settlement -> Nat]
    /\ DOMAIN auths = Settlement
    /\ DOMAIN ccRuns = CcCranker
    /\ \A c \in CcCranker : DOMAIN ccRuns[c] = RunFields

\* what is under way is about a settlement that was authorized
AuthorizedFirst ==
    /\ \A c \in CcCranker : ccRuns[c].pc # "idle" =>
           ccRuns[c].settlement \in Settlement /\ auths[ccRuns[c].settlement] # NoRoute
    /\ \A t \in ccTx : /\ t.cranker \in CcCranker
                       /\ t.settlement \in Settlement
                       /\ auths[t.settlement] # NoRoute
    /\ \A s \in hub.processed : auths[s] # NoRoute
    /\ outbox \subseteq hub.processed
    /\ lane = "direct" => outbox = {}

\* a settlement that was paid has its mark at the executor that may pay it
PaidIsMarked ==
    \A s \in Settlement : payouts[s] # 0 =>
        /\ payouts[s] = AmountOf[s]
        /\ s \in hub.processed
        /\ lane = "message" =>
               \A e \in Executor : auths[s].executor = e => s \in executed[e]

PayoutInv == PayoutTypeOK /\ AuthorizedFirst /\ PaidIsMarked

LEMMA PayoutInitially == CcInit => PayoutInv
<1> SUFFICES ASSUME CcInit PROVE PayoutInv
  OBVIOUS
<1>1. lane \in {"message", "direct"}
  BY DEF CcInit
<1>2. PICK e \in Executor : CcStart(e)
  BY DEF CcInit
<1>3. PayoutTypeOK
  BY <1>1, <1>2 DEF CcStart, PayoutTypeOK, Idle, RunFields
<1>4. AuthorizedFirst
  BY <1>2 DEF CcStart, AuthorizedFirst, Idle
<1>5. PaidIsMarked
  BY <1>2 DEF CcStart, PaidIsMarked
<1> QED
  BY <1>3, <1>4, <1>5 DEF PayoutInv

LEMMA PayoutStep == PayoutInv /\ [CcNext]_ccVars => PayoutInv'
<1> SUFFICES ASSUME PayoutInv, [CcNext]_ccVars PROVE PayoutInv'
  OBVIOUS
<1> USE DEF PayoutInv
<1>0. AmountOf \in [Settlement -> Nat \ {0}]
  BY CrossChainAssumption
\* when nothing that was paid, taken or published changes
<1>1. ASSUME UNCHANGED <<lane, payVars>>,
             \A s \in Settlement : auths[s] # NoRoute => auths'[s] = auths[s],
             DOMAIN auths' = Settlement,
             DOMAIN ccRuns' = CcCranker,
             \A c \in CcCranker : DOMAIN ccRuns'[c] = RunFields,
             \A c \in CcCranker : ccRuns'[c].pc # "idle" =>
                 /\ ccRuns'[c].settlement \in Settlement
                 /\ auths[ccRuns'[c].settlement] # NoRoute,
             \A t \in ccTx' : t \in ccTx \/ ( /\ t.cranker \in CcCranker
                                             /\ t.settlement \in Settlement
                                             /\ auths[t.settlement] # NoRoute )
      PROVE  PayoutInv'
  <2>1. PayoutTypeOK'
    BY <1>1 DEF PayoutTypeOK, payVars
  <2>2. AuthorizedFirst'
    BY <1>1 DEF AuthorizedFirst, PayoutTypeOK, payVars
  <2>3. PaidIsMarked'
    BY <1>1 DEF AuthorizedFirst, PayoutTypeOK, PaidIsMarked, payVars
  <2> QED
    BY <2>1, <2>2, <2>3
<1>2. ASSUME UNCHANGED <<lane, payVars, auths, ccTx, ccRuns>> PROVE PayoutInv'
  BY <1>1, <1>2 DEF PayoutTypeOK, AuthorizedFirst
<1>3. ASSUME NEW c \in CcCranker, StopRun(c), UNCHANGED <<lane, payVars, auths>>, ccTx' \subseteq ccTx
      PROVE  PayoutInv'
  <2>1. /\ DOMAIN ccRuns' = CcCranker
        /\ \A d \in CcCranker : ccRuns'[d] = IF d = c THEN Idle ELSE ccRuns[d]
    BY <1>3 DEF StopRun, PayoutTypeOK
  <2>2. DOMAIN Idle = RunFields /\ Idle.pc = "idle"
    BY DEF Idle, RunFields
  <2> QED
    BY <1>1, <1>3, <2>1, <2>2 DEF PayoutTypeOK, AuthorizedFirst
\* a run goes on with its settlement
<1>4. ASSUME UNCHANGED <<lane, payVars, auths>>, ccTx' \subseteq ccTx,
             DOMAIN ccRuns' = CcCranker,
             \A d \in CcCranker : /\ DOMAIN ccRuns'[d] = RunFields
                                  /\ ccRuns'[d].settlement = ccRuns[d].settlement
                                  /\ ccRuns[d].pc = "idle" => ccRuns'[d].pc = "idle"
      PROVE  PayoutInv'
  BY <1>1, <1>4 DEF PayoutTypeOK, AuthorizedFirst
<1>5. CASE UNCHANGED ccVars
  BY <1>2, <1>5 DEF ccVars, askVars, runVars, envVars
<1>6. ASSUME NEW s \in Settlement,
             ReleaseReservation(s) \/ Preflight(s) \/ ExpirePayoutLease(s)
      PROVE  PayoutInv'
  BY <1>2, <1>6
     DEF ReleaseReservation, Preflight, ExpirePayoutLease, askVars, runVars, envVars, payVars
<1>7. ASSUME NEW s \in Settlement, NEW net, NEW signed, SubmitDebitIntent(s, net, signed)
      PROVE  PayoutInv'
  <2>1. /\ DOMAIN auths' = Settlement
        /\ \A x \in Settlement : auths[x] # NoRoute => auths'[x] = auths[x]
    BY <1>7 DEF SubmitDebitIntent, PayoutTypeOK
  <2> QED
    BY <1>1, <1>7, <2>1 DEF SubmitDebitIntent, PayoutTypeOK, AuthorizedFirst, runVars, envVars
<1>8. ASSUME NEW e, NEW on, ConfigureRoute(e, on) PROVE PayoutInv'
  BY <1>2, <1>8 DEF ConfigureRoute, askVars, runVars
<1>9. CASE SetPaused
  <2>1. hub' \in [processed : SUBSET Settlement, paused : BOOLEAN] /\ hub'.processed = hub.processed
    BY <1>9 DEF SetPaused, PayoutTypeOK
  <2> QED
    BY <1>9, <2>1 DEF SetPaused, PayoutTypeOK, AuthorizedFirst, PaidIsMarked, askVars, runVars
<1>10. CASE FundVault \/ WithdrawVault \/ AnnounceLiquidity
  BY <1>2, <1>10 DEF FundVault, WithdrawVault, AnnounceLiquidity, askVars, runVars, envVars
<1>11. CASE CcTick
  BY <1>2, <1>11 DEF CcTick, askVars, runVars
<1>12. ASSUME NEW e, SetExecutor(e) PROVE PayoutInv'
  BY <1>2, <1>12 DEF SetExecutor, askVars, runVars
<1>13. ASSUME NEW n, ProveLiquidity(n) \/ RecordLiquidity(n) PROVE PayoutInv'
  BY <1>2, <1>13 DEF ProveLiquidity, RecordLiquidity, askVars, runVars, envVars
<1>14. ASSUME NEW c \in CcCranker, NEW s \in Settlement, LeasePayout(c, s) PROVE PayoutInv'
  <2>1. /\ DOMAIN ccRuns' = CcCranker
        /\ \A d \in CcCranker : IF d = c
              THEN DOMAIN ccRuns'[d] = RunFields /\ ccRuns'[d].settlement = s
              ELSE ccRuns'[d] = ccRuns[d]
    BY <1>14 DEF LeasePayout, PayoutTypeOK, Idle, RunFields
  <2> QED
    BY <1>1, <1>14, <2>1 DEF LeasePayout, PayoutTypeOK, AuthorizedFirst, askVars, envVars
<1>15. ASSUME NEW c \in CcCranker, ReadEvidence(c) PROVE PayoutInv'
  <2>1. /\ DOMAIN ccRuns' = CcCranker
        /\ \A d \in CcCranker : /\ DOMAIN ccRuns'[d] = RunFields
                                /\ ccRuns'[d].settlement = ccRuns[d].settlement
                                /\ ccRuns'[d].pc = ccRuns[d].pc
    BY <1>15 DEF ReadEvidence, PayoutTypeOK, RunFields
  <2> QED
    BY <1>4, <1>15, <2>1 DEF ReadEvidence, askVars, envVars
<1>16. ASSUME NEW c \in CcCranker, ReadFails(c) \/ LoseReceipt(c) \/ CheckReceipt(c) \/ CrashCranker(c)
       PROVE  PayoutInv'
  BY <1>3, <1>16 DEF ReadFails, LoseReceipt, CheckReceipt, CrashCranker, askVars, envVars
<1>17. ASSUME NEW c \in CcCranker, Submit(c) PROVE PayoutInv'
  <2>1. CASE MaySend(ccRuns[c])
    <3>1. /\ DOMAIN ccRuns' = CcCranker
          /\ \A d \in CcCranker : /\ DOMAIN ccRuns'[d] = RunFields
                                  /\ ccRuns'[d].settlement = ccRuns[d].settlement
                                  /\ ccRuns[d].pc = "idle" => ccRuns'[d].pc = "idle"
      BY <1>17, <2>1 DEF Submit, PayoutTypeOK, RunFields
    <3>2. \A t \in ccTx' : t \in ccTx \/ ( /\ t.cranker \in CcCranker
                                           /\ t.settlement \in Settlement
                                           /\ auths[t.settlement] # NoRoute )
      BY <1>17, <2>1 DEF Submit, AuthorizedFirst
    <3> QED
      BY <1>1, <1>17, <3>1, <3>2 DEF Submit, PayoutTypeOK, AuthorizedFirst, askVars, envVars
  <2>2. CASE ~ MaySend(ccRuns[c])
    BY <1>3, <1>17, <2>2 DEF Submit, askVars, envVars
  <2> QED
    BY <2>1, <2>2
\* a mined transaction wakes its run, which goes on with its settlement
<1>18. ASSUME NEW t \in ccTx, NEW pc, Mined(t, pc)
       PROVE  /\ DOMAIN ccRuns' = CcCranker
              /\ \A d \in CcCranker : /\ DOMAIN ccRuns'[d] = RunFields
                                      /\ ccRuns'[d].settlement = ccRuns[d].settlement
                                      /\ ccRuns[d].pc = "idle" => ccRuns'[d].pc = "idle"
  BY <1>18 DEF Mined, PayoutTypeOK, RunFields
<1>19. ASSUME NEW t \in ccTx, DropTransaction(t) PROVE PayoutInv'
  <2>1. Mined(t, "reverted")
    BY <1>19 DEF DropTransaction
  <2> QED
    BY <1>4, <1>18, <1>19, <2>1 DEF DropTransaction, askVars, envVars
<1>20. ASSUME NEW t \in ccTx, ExecuteSettlement(t) PROVE PayoutInv'
  <2> DEFINE s == t.settlement
  <2>0. s \in Settlement /\ auths[s] # NoRoute /\ UNCHANGED <<auths, lane, executed>> /\ ccTx' \subseteq ccTx
    BY <1>20 DEF ExecuteSettlement, AuthorizedFirst, askVars, envVars
  <2>1. ASSUME UNCHANGED <<outbox, hub, payouts>>, Mined(t, "reverted") PROVE PayoutInv'
    BY <1>4, <1>18, <2>0, <2>1 DEF payVars
  \* the hub takes it
  <2>2. ASSUME HubAccepts(s), hub' = [hub EXCEPT !.processed = @ \union {s}],
               NEW pc, Mined(t, pc)
        PROVE  /\ hub' \in [processed : SUBSET Settlement, paused : BOOLEAN]
               /\ hub'.processed = hub.processed \union {s}
               /\ s \notin hub.processed
               /\ payouts[s] = 0
               /\ \A c \in CcCranker : ccRuns'[c].pc # "idle" =>
                     ccRuns'[c].settlement \in Settlement /\ auths'[ccRuns'[c].settlement] # NoRoute
    <3>1. s \notin hub.processed
      BY <2>2 DEF HubAccepts
    <3>2. payouts[s] = 0
      BY <3>1, <2>0 DEF PaidIsMarked, PayoutTypeOK
    <3>3. hub' \in [processed : SUBSET Settlement, paused : BOOLEAN] /\ hub'.processed = hub.processed \union {s}
      BY <2>0, <2>2 DEF PayoutTypeOK
    <3> QED
      BY <1>18, <2>0, <2>2, <3>1, <3>2, <3>3 DEF AuthorizedFirst
  <2>3. CASE /\ HubAccepts(s) /\ lane = "message" /\ outbox' = outbox \union {s}
             /\ hub' = [hub EXCEPT !.processed = @ \union {s}]
             /\ Mined(t, "published") /\ UNCHANGED payouts
    <3>1. PayoutTypeOK'
      BY <1>18, <2>0, <2>2, <2>3 DEF PayoutTypeOK
    <3>2. AuthorizedFirst'
      BY <2>0, <2>2, <2>3 DEF AuthorizedFirst, PayoutTypeOK
    <3>3. PaidIsMarked'
      BY <2>0, <2>2, <2>3 DEF PaidIsMarked
    <3> QED
      BY <3>1, <3>2, <3>3
  <2>4. CASE /\ HubAccepts(s) /\ lane = "direct" /\ UNCHANGED outbox
             /\ hub' = [hub EXCEPT !.processed = @ \union {s}]
             /\ Mined(t, "executed") /\ payouts' = [payouts EXCEPT ![s] = @ + AmountOf[s]]
    <3>0. payouts' \in [Settlement -> Nat]
          /\ \A x \in Settlement : payouts'[x] = IF x = s THEN AmountOf[s] ELSE payouts[x]
      BY <1>0, <2>0, <2>2, <2>4 DEF PayoutTypeOK
    <3>1. PayoutTypeOK'
      BY <1>18, <2>0, <2>2, <2>4, <3>0 DEF PayoutTypeOK
    <3>2. AuthorizedFirst'
      BY <2>0, <2>2, <2>4 DEF AuthorizedFirst, PayoutTypeOK
    <3>3. PaidIsMarked'
      BY <2>0, <2>2, <2>4, <3>0 DEF PaidIsMarked
    <3> QED
      BY <3>1, <3>2, <3>3
  <2> QED
    BY <1>20, <2>1, <2>3, <2>4 DEF ExecuteSettlement
\* a message is paid by the executor its authorization names, once
<1>21. ASSUME NEW e \in Executor, NEW s \in Settlement, DeliverMessage(s, e) PROVE PayoutInv'
  <2>1. /\ s \in hub.processed /\ lane = "message"
        /\ auths[s].executor = e /\ s \notin executed[e]
    BY <1>21 DEF DeliverMessage, ExecutorAccepts, AuthorizedFirst, PayoutTypeOK
  <2>2. payouts[s] = 0
    BY <2>1 DEF PaidIsMarked
  <2>3. /\ payouts' \in [Settlement -> Nat]
        /\ \A x \in Settlement : payouts'[x] = IF x = s THEN AmountOf[s] ELSE payouts[x]
    BY <1>0, <1>21, <2>2 DEF DeliverMessage, PayoutTypeOK
  <2>4. /\ executed' \in [Executor -> SUBSET Settlement]
        /\ s \in executed'[e]
        /\ \A x \in Executor : executed[x] \subseteq executed'[x]
    BY <1>21 DEF DeliverMessage, PayoutTypeOK
  <2>5. UNCHANGED <<lane, auths, hub, outbox, ccRuns, ccTx>>
    BY <1>21 DEF DeliverMessage, askVars, runVars, envVars
  <2>6. PayoutTypeOK'
    BY <2>3, <2>4, <2>5 DEF PayoutTypeOK
  <2>7. AuthorizedFirst'
    BY <2>5 DEF AuthorizedFirst
  <2>8. PaidIsMarked'
    BY <2>1, <2>3, <2>4, <2>5 DEF PaidIsMarked
  <2> QED
    BY <2>6, <2>7, <2>8
<1> QED
  BY <1>5, <1>6, <1>7, <1>8, <1>9, <1>10, <1>11, <1>12, <1>13, <1>14, <1>15, <1>16, <1>17, <1>19,
     <1>20, <1>21 DEF CcNext

\* A settlement leaves the vault at most once and for its amount, and only
\* after the hub took it (TSNSettlementHub.executeSettlement,
\* TSNSettlementExecutor, TSNPayoutVault), whatever the Crankers, the relay
\* and the owner's changes of route and executor do.
THEOREM AlwaysPaidOnceThroughHub == CcSpec => []PaidOnceThroughHub
<1>1. CcSpec => []PayoutInv
  BY PayoutInitially, PayoutStep, PTL DEF CcSpec
<1>2. PayoutInv => PaidOnceThroughHub
  BY DEF PayoutInv, PaidIsMarked, PaidOnceThroughHub
<1> QED
  BY <1>1, <1>2, PTL

\* The registry's accounting. A reservation is made by the hub in the step
\* that marks the settlement, and freed once: the counter follows the sum.
RegistryTypeOK ==
    /\ DOMAIN liqRegistry =
           {"enabled", "executor", "observation", "reservedAmount", "reservations"}
    /\ liqRegistry.reservedAmount \in Nat
    /\ liqRegistry.reservations \in [Settlement -> Nat]

LEMMA ReservedIsSum ==
    MapThenSumSet(LAMBDA s : liqRegistry.reservations[s], Settlement)
        = SumOver(liqRegistry.reservations, Settlement)
BY DEF MapThenSumSet, MapThenFoldSet, SumOver, Partial, Pick

\* the same, of what the reservations add up to
AddsUp ==
    /\ liqRegistry.reservedAmount = SumOver(liqRegistry.reservations, Settlement)
    /\ \A s \in Settlement : liqRegistry.reservations[s] # 0 => s \in hub.processed

LEMMA AddsUpIsReservationsAddUp == AddsUp <=> ReservationsAddUp
BY ReservedIsSum DEF AddsUp, ReservationsAddUp

ReservationInv == PayoutInv /\ RegistryTypeOK /\ AddsUp

LEMMA ReservationInitially == CcInit => ReservationInv
<1> SUFFICES ASSUME CcInit PROVE ReservationInv
  OBVIOUS
<1>1. PICK e \in Executor : CcStart(e)
  BY DEF CcInit
<1>2. RegistryTypeOK
  BY <1>1 DEF CcStart, RegistryTypeOK
<1>3. /\ liqRegistry.reservations \in [Settlement -> Int]
      /\ \A s \in Settlement : liqRegistry.reservations[s] = 0
      /\ liqRegistry.reservedAmount = 0
  BY <1>1 DEF CcStart
<1>4. SumOver(liqRegistry.reservations, Settlement) = 0
  BY <1>3, SumType, CrossChainAssumption
<1> QED
  BY <1>2, <1>3, <1>4, PayoutInitially DEF ReservationInv, AddsUp

LEMMA ReservationStep == ReservationInv /\ [CcNext]_ccVars => ReservationInv'
<1> SUFFICES ASSUME ReservationInv, [CcNext]_ccVars PROVE ReservationInv'
  OBVIOUS
<1>0. /\ PayoutInv' /\ AmountOf \in [Settlement -> Nat \ {0}] /\ IsFiniteSet(Settlement)
  BY PayoutStep, CrossChainAssumption DEF ReservationInv
<1> DEFINE Fields == {"enabled", "executor", "observation", "reservedAmount", "reservations"}
\* no reservation is made or freed
<1>1. ASSUME DOMAIN liqRegistry' = Fields,
             liqRegistry'.reservedAmount = liqRegistry.reservedAmount,
             liqRegistry'.reservations = liqRegistry.reservations,
             hub.processed \subseteq hub'.processed
      PROVE  ReservationInv'
  BY <1>0, <1>1 DEF ReservationInv, RegistryTypeOK, AddsUp
<1>2. ASSUME liqRegistry' = liqRegistry, hub.processed \subseteq hub'.processed
      PROVE  ReservationInv'
  BY <1>1, <1>2 DEF ReservationInv, RegistryTypeOK
\* the reservation of one settlement changes, and the counter with it
<1>3. ASSUME NEW s \in Settlement, NEW r \in Nat, NEW n \in Nat,
             liqRegistry' = [liqRegistry EXCEPT !.reservations[s] = r, !.reservedAmount = n],
             n = liqRegistry.reservedAmount - liqRegistry.reservations[s] + r,
             hub.processed \subseteq hub'.processed, r # 0 => s \in hub'.processed
      PROVE  ReservationInv'
  <2>1. /\ DOMAIN liqRegistry = Fields /\ liqRegistry.reservations \in [Settlement -> Nat]
        /\ liqRegistry.reservedAmount = SumOver(liqRegistry.reservations, Settlement)
        /\ \A x \in Settlement : liqRegistry.reservations[x] # 0 => x \in hub.processed
    BY DEF ReservationInv, RegistryTypeOK, AddsUp
  <2> DEFINE new == [liqRegistry.reservations EXCEPT ![s] = r]
  <2>2. /\ DOMAIN liqRegistry' = Fields /\ liqRegistry'.reservations = new
        /\ liqRegistry'.reservedAmount = n
    BY <1>3, <2>1
  <2>3. /\ new \in [Settlement -> Nat] /\ new[s] = r
        /\ \A x \in Settlement \ {s} : new[x] = liqRegistry.reservations[x]
    BY <2>1
  <2> HIDE DEF new
  <2>4. new \in [Settlement -> Int] /\ liqRegistry.reservations \in [Settlement -> Int]
    BY <2>1, <2>3
  <2>5. SumOver(new, Settlement)
           = SumOver(liqRegistry.reservations, Settlement) - liqRegistry.reservations[s] + new[s]
    BY <1>0, <2>3, <2>4, SumChanges
  <2>6. n = SumOver(new, Settlement)
    BY <1>3, <2>1, <2>3, <2>5
  <2>7. \A x \in Settlement : new[x] # 0 => x \in hub'.processed
    BY <1>3, <2>1, <2>3
  <2> QED
    BY <1>0, <2>2, <2>3, <2>6, <2>7 DEF ReservationInv, RegistryTypeOK, AddsUp
<1>4. ASSUME NEW s \in Settlement, ReleaseReservation(s) PROVE ReservationInv'
  <2>1. /\ liqRegistry.reservations[s] = AmountOf[s] /\ AmountOf[s] \in Nat
        /\ liqRegistry.reservedAmount >= AmountOf[s] /\ liqRegistry.reservedAmount \in Nat
        /\ hub' = hub
    BY <1>0, <1>4 DEF ReleaseReservation, ReservationInv, RegistryTypeOK, payVars
  <2>2. /\ liqRegistry.reservedAmount - AmountOf[s] \in Nat
        /\ liqRegistry.reservedAmount - AmountOf[s]
               = liqRegistry.reservedAmount - liqRegistry.reservations[s] + 0
    BY <2>1
  <2>3. liqRegistry' = [liqRegistry EXCEPT !.reservations[s] = 0,
                                           !.reservedAmount = liqRegistry.reservedAmount - AmountOf[s]]
    BY <1>4 DEF ReleaseReservation, Released, ReservationInv, RegistryTypeOK
  <2> QED
    BY <1>3, <2>1, <2>2, <2>3
<1>5. ASSUME NEW t \in ccTx, ExecuteSettlement(t) PROVE ReservationInv'
  <2>1. t.settlement \in Settlement
    BY DEF ReservationInv, PayoutInv, AuthorizedFirst
  <2>2. CASE liqRegistry' = liqRegistry /\ hub' = hub
    BY <1>2, <2>2
  <2>3. CASE /\ HubAccepts(t.settlement)
             /\ hub' = [hub EXCEPT !.processed = @ \union {t.settlement}]
             /\ liqRegistry' = Reserved(t.settlement)
    <3>1. hub'.processed = hub.processed \union {t.settlement}
      BY <2>3 DEF ReservationInv, PayoutInv, PayoutTypeOK
    <3>2. /\ liqRegistry.reservations[t.settlement] = 0 /\ AmountOf[t.settlement] \in Nat
          /\ liqRegistry.reservedAmount \in Nat
      BY <1>0, <2>1, <2>3 DEF HubAccepts, MayReserve, ReservationInv, RegistryTypeOK
    <3>3. /\ liqRegistry.reservedAmount + AmountOf[t.settlement] \in Nat
          /\ liqRegistry.reservedAmount + AmountOf[t.settlement]
                 = liqRegistry.reservedAmount - liqRegistry.reservations[t.settlement]
                   + AmountOf[t.settlement]
      BY <3>2
    <3>4. liqRegistry' =
             [liqRegistry EXCEPT
                 !.reservations[t.settlement] = AmountOf[t.settlement],
                 !.reservedAmount = liqRegistry.reservedAmount + AmountOf[t.settlement]]
      BY <2>3 DEF Reserved, ReservationInv, RegistryTypeOK
    <3> QED
      BY <1>3, <2>1, <3>1, <3>2, <3>3, <3>4
  <2> QED
    BY <1>5, <2>2, <2>3 DEF ExecuteSettlement
<1>6. ASSUME NEW e, NEW on, ConfigureRoute(e, on) PROVE ReservationInv'
  <2>1. /\ DOMAIN liqRegistry' = Fields
        /\ liqRegistry'.reservedAmount = liqRegistry.reservedAmount
        /\ liqRegistry'.reservations = liqRegistry.reservations /\ hub' = hub
    BY <1>6 DEF ConfigureRoute, ReservationInv, RegistryTypeOK, payVars
  <2> QED
    BY <1>1, <2>1
<1>7. CASE SetPaused
  BY <1>2, <1>7 DEF SetPaused, ReservationInv, PayoutInv, PayoutTypeOK
<1>8. CASE AnnounceLiquidity
  <2>1. CASE lane = "direct"
    <3>1. /\ DOMAIN liqRegistry' = Fields
          /\ liqRegistry'.reservedAmount = liqRegistry.reservedAmount
          /\ liqRegistry'.reservations = liqRegistry.reservations /\ hub' = hub
      BY <1>8, <2>1 DEF AnnounceLiquidity, ReservationInv, RegistryTypeOK, payVars
    <3> QED
      BY <1>1, <3>1
  <2> QED
    BY <1>2, <1>8, <2>1 DEF AnnounceLiquidity, payVars
<1>9. ASSUME NEW n, RecordLiquidity(n) PROVE ReservationInv'
  <2>1. /\ DOMAIN liqRegistry' = Fields
        /\ liqRegistry'.reservedAmount = liqRegistry.reservedAmount
        /\ liqRegistry'.reservations = liqRegistry.reservations /\ hub' = hub
    BY <1>9 DEF RecordLiquidity, ReservationInv, RegistryTypeOK, payVars
  <2> QED
    BY <1>1, <2>1
<1>10. ASSUME NEW c \in CcCranker,
              \/ \E s \in Settlement : LeasePayout(c, s)
              \/ ReadEvidence(c) \/ ReadFails(c) \/ Submit(c) \/ LoseReceipt(c)
              \/ CheckReceipt(c) \/ CrashCranker(c)
       PROVE  ReservationInv'
  BY <1>2, <1>10 DEF LeasePayout, ReadEvidence, ReadFails, Submit, LoseReceipt, CheckReceipt,
                     CrashCranker, payVars
<1>11. ASSUME NEW s \in Settlement,
              \/ Preflight(s) \/ ExpirePayoutLease(s)
              \/ \E net, signed : SubmitDebitIntent(s, net, signed)
              \/ \E e : DeliverMessage(s, e)
       PROVE  ReservationInv'
  BY <1>2, <1>11 DEF Preflight, ExpirePayoutLease, SubmitDebitIntent, DeliverMessage, payVars
<1>12. CASE \/ FundVault \/ WithdrawVault \/ CcTick \/ (\E e : SetExecutor(e))
            \/ (\E n : ProveLiquidity(n)) \/ (\E t : DropTransaction(t)) \/ UNCHANGED ccVars
  BY <1>2, <1>12 DEF FundVault, WithdrawVault, CcTick, SetExecutor, ProveLiquidity,
                     DropTransaction, ccVars, payVars
<1> QED
  BY <1>4, <1>5, <1>6, <1>7, <1>8, <1>9, <1>10, <1>11, <1>12 DEF CcNext

\* The reserved amount is the sum of the open reservations, and only a
\* settlement the hub took has one (reserveLiquidity, releaseLiquidity),
\* for any finite number of settlements, Crankers and executors.
THEOREM ReservationsAlwaysAddUp == CcSpec => []ReservationsAddUp
<1>1. ReservationInv => ReservationsAddUp
  BY AddsUpIsReservationsAddUp DEF ReservationInv
<1> QED
  BY <1>1, ReservationInitially, ReservationStep, PTL DEF CcSpec

-----------------------------------------------------------------------------
(* Devices and private sessions. A nonce is spent in the step that lets its *)
(* message through. A request that may still be answered carries the memory that *)
(* its device allowed it, or its device does not allow it now; only the     *)
(* second kind can be refused, and a registration turns it into the first.  *)

Permission == Scope \cup {"create"}
PhoneRecord == [status : {"active", "revoked"}, scopes : SUBSET Permission]
SessionRecord ==
    [device : Phone, scopes : SUBSET Permission, expiresAt : Nat, status : {"active", "revoked"}]
MessageRecord ==
    [kind : {"register", "session", "request"}, device : Phone, scopes : SUBSET Permission,
     session : Nat \cup {NoSession}, issuedAt : Nat, expiresAt : Nat, until : Nat]
Delivery ==
    [pc : {"arrived", "device", "consume", "passed", "accepted", "rejected"},
     session : SessionRecord \cup {NoSession}, wasAllowed : BOOLEAN]

\* what the stores and the verifications of PrivateSessions are made of
SessTypeOK ==
    /\ sessClock \in Nat
    /\ devices \in [Phone -> PhoneRecord \cup {NoSession}]
    /\ sessions \in Seq(SessionRecord)
    /\ messages \in Seq(MessageRecord)
    /\ deliveries \in Seq(Seq(Delivery))
    /\ Len(deliveries) = Len(messages) /\ usedNonces \subseteq 1 .. Len(messages)

\* a verification that consumed the nonce
Through(d) == d.pc \in {"passed", "accepted"}

\* NoncesWorkOnce, verification by verification
SpentOnce ==
    \A i \in DOMAIN messages :
        /\ \A j, k \in DOMAIN deliveries[i] :
               Through(deliveries[i][j]) /\ Through(deliveries[i][k]) => j = k
        /\ i \in usedNonces <=> \E k \in DOMAIN deliveries[i] : Through(deliveries[i][k])

\* the device of session s allows what message m asks for, now
AllowsNow(m, s) ==
    /\ devices[s.device] # NoSession
    /\ devices[s.device].status = "active"
    /\ m.scopes \subseteq devices[s.device].scopes

\* what a verification of request m knows
RequestSound(m, d) ==
    /\ d.pc \in {"device", "consume"} => d.session \in SessionRecord
    /\ d.pc = "device" /\ AllowsNow(m, d.session) => d.wasAllowed
    /\ d.pc \in {"consume", "passed", "accepted"} => d.wasAllowed

RequestsSound ==
    \A i \in DOMAIN messages : messages[i].kind = "request" =>
        /\ messages[i].session \in DOMAIN sessions
        /\ \A k \in DOMAIN deliveries[i] : RequestSound(messages[i], deliveries[i][k])

SessInv == SessTypeOK /\ SpentOnce /\ RequestsSound

LEMMA SessInitially == SessInit => SessInv
<1> SUFFICES ASSUME SessInit PROVE SessInv
  OBVIOUS
<1>1. SessTypeOK
  <2>1. [status |-> "active", scopes |-> Scope \cup {"create"}] \in PhoneRecord
    BY DEF PhoneRecord, Permission
  <2> QED
    BY <2>1, EmptySeq DEF SessInit, SessTypeOK
<1>2. SpentOnce /\ RequestsSound
  BY DEF SessInit, SpentOnce, RequestsSound
<1> QED
  BY <1>1, <1>2 DEF SessInv

\* no verification gets through, or is forgotten
LEMMA SpentKeeps ==
    ASSUME SpentOnce, UNCHANGED <<messages, usedNonces>>,
           \A j \in DOMAIN messages :
               /\ DOMAIN deliveries'[j] = DOMAIN deliveries[j]
               /\ \A l \in DOMAIN deliveries[j] :
                     Through(deliveries'[j][l]) <=> Through(deliveries[j][l])
    PROVE  SpentOnce'
<1> SUFFICES ASSUME NEW i \in DOMAIN messages
             PROVE  /\ \A j, k \in DOMAIN deliveries'[i] :
                           Through(deliveries'[i][j]) /\ Through(deliveries'[i][k]) => j = k
                    /\ i \in usedNonces <=> \E k \in DOMAIN deliveries'[i] : Through(deliveries'[i][k])
  BY DEF SpentOnce, Through
<1>1. /\ \A j, k \in DOMAIN deliveries[i] :
            Through(deliveries[i][j]) /\ Through(deliveries[i][k]) => j = k
      /\ i \in usedNonces <=> \E k \in DOMAIN deliveries[i] : Through(deliveries[i][k])
  BY DEF SpentOnce
<1>2. DOMAIN deliveries'[i] = DOMAIN deliveries[i]
  OBVIOUS
<1>3. \A l \in DOMAIN deliveries[i] : Through(deliveries'[i][l]) <=> Through(deliveries[i][l])
  OBVIOUS
<1> QED
  BY <1>1, <1>2, <1>3

\* one verification becomes d, the others stay
LEMMA OneDelivery ==
    ASSUME SessTypeOK, NEW i \in DOMAIN messages, NEW k \in DOMAIN deliveries[i], NEW d \in Delivery
    PROVE  LET ds == [deliveries EXCEPT ![i][k] = d]
           IN  /\ ds \in Seq(Seq(Delivery)) /\ Len(ds) = Len(deliveries)
               /\ \A j \in DOMAIN messages :
                     /\ DOMAIN ds[j] = DOMAIN deliveries[j]
                     /\ \A l \in DOMAIN deliveries[j] :
                           ds[j][l] = IF j = i /\ l = k THEN d ELSE deliveries[j][l]
<1>1. i \in 1 .. Len(deliveries) /\ DOMAIN messages = 1 .. Len(deliveries)
  BY DEF SessTypeOK
<1>2. deliveries[i] \in Seq(Delivery) /\ k \in 1 .. Len(deliveries[i])
  BY <1>1 DEF SessTypeOK
<1> DEFINE e == [deliveries[i] EXCEPT ![k] = d]
<1>3. /\ e \in Seq(Delivery) /\ Len(e) = Len(deliveries[i])
      /\ \A l \in 1 .. Len(deliveries[i]) : e[l] = IF l = k THEN d ELSE deliveries[i][l]
  BY <1>2, ExceptSeq
<1> HIDE DEF e
<1> DEFINE ds == [deliveries EXCEPT ![i] = e]
<1>4. /\ ds \in Seq(Seq(Delivery)) /\ Len(ds) = Len(deliveries)
      /\ \A j \in 1 .. Len(deliveries) : ds[j] = IF j = i THEN e ELSE deliveries[j]
  BY <1>1, <1>3, ExceptSeq DEF SessTypeOK
<1> HIDE DEF ds
<1>5. \A j \in DOMAIN messages :
         /\ DOMAIN ds[j] = DOMAIN deliveries[j]
         /\ \A l \in DOMAIN deliveries[j] :
               ds[j][l] = IF j = i /\ l = k THEN d ELSE deliveries[j][l]
  <2> TAKE j \in DOMAIN messages
  <2>1. CASE j = i
    <3>1. ds[j] = e
      BY <1>1, <1>4, <2>1
    <3>2. DOMAIN e = 1 .. Len(e) /\ DOMAIN deliveries[i] = 1 .. Len(deliveries[i])
      BY <1>2, <1>3
    <3> QED
      BY <1>3, <2>1, <3>1, <3>2
  <2>2. CASE j # i
    BY <1>1, <1>4, <2>2
  <2> QED
    BY <2>1, <2>2
<1> QED
  BY <1>4, <1>5 DEF ds, e

\* a verification goes on to pc, and nothing else changes
LEMMA Moved ==
    ASSUME SessTypeOK, NEW i \in DOMAIN messages, NEW k \in DOMAIN deliveries[i],
           NEW pc \in {"arrived", "device", "consume", "passed", "rejected"}, Move(i, k, pc)
    PROVE  /\ deliveries' \in Seq(Seq(Delivery)) /\ Len(deliveries') = Len(deliveries)
           /\ \A j \in DOMAIN messages :
                 /\ DOMAIN deliveries'[j] = DOMAIN deliveries[j]
                 /\ \A l \in DOMAIN deliveries[j] :
                       ~ (j = i /\ l = k) => deliveries'[j][l] = deliveries[j][l]
           /\ deliveries'[i][k].pc = pc
           /\ deliveries'[i][k].session = deliveries[i][k].session
           /\ deliveries'[i][k].wasAllowed = deliveries[i][k].wasAllowed
<1> DEFINE d == [deliveries[i][k] EXCEPT !.pc = pc]
<1>1. deliveries[i][k] \in Delivery
  BY DEF SessTypeOK
<1>2. d \in Delivery
  BY <1>1 DEF Delivery
<1>3. d.pc = pc /\ d.session = deliveries[i][k].session /\ d.wasAllowed = deliveries[i][k].wasAllowed
  BY <1>1 DEF Delivery
<1>4. deliveries' = [deliveries EXCEPT ![i][k] = d]
  BY DEF Move
<1> HIDE DEF d
<1>5. LET e == [deliveries EXCEPT ![i][k] = d]
      IN  /\ e \in Seq(Seq(Delivery)) /\ Len(e) = Len(deliveries)
          /\ \A j \in DOMAIN messages :
                /\ DOMAIN e[j] = DOMAIN deliveries[j]
                /\ \A l \in DOMAIN deliveries[j] :
                      e[j][l] = IF j = i /\ l = k THEN d ELSE deliveries[j][l]
  BY <1>2, OneDelivery
<1> QED
  BY <1>3, <1>4, <1>5

\* a step that only moves one verification, to a place its request may be at
LEMMA MoveKeeps ==
    ASSUME SessInv, NEW i \in DOMAIN messages, NEW k \in DOMAIN deliveries[i],
           NEW pc \in {"arrived", "device", "consume", "rejected"},
           Move(i, k, pc), ~ Through(deliveries[i][k]),
           UNCHANGED <<sessClock, devices, sessions, messages, usedNonces>>,
           messages[i].kind = "request" =>
               \A d : /\ d.pc = pc /\ d.session = deliveries[i][k].session
                      /\ d.wasAllowed = deliveries[i][k].wasAllowed
                      => RequestSound(messages[i], d)
    PROVE  SessInv'
<1>0. SessTypeOK /\ SpentOnce /\ RequestsSound
  BY DEF SessInv
<1>1. /\ deliveries' \in Seq(Seq(Delivery)) /\ Len(deliveries') = Len(deliveries)
      /\ \A j \in DOMAIN messages :
            /\ DOMAIN deliveries'[j] = DOMAIN deliveries[j]
            /\ \A l \in DOMAIN deliveries[j] :
                  ~ (j = i /\ l = k) => deliveries'[j][l] = deliveries[j][l]
      /\ deliveries'[i][k].pc = pc
      /\ deliveries'[i][k].session = deliveries[i][k].session
      /\ deliveries'[i][k].wasAllowed = deliveries[i][k].wasAllowed
  BY <1>0, Moved
<1>2. SessTypeOK'
  BY <1>0, <1>1 DEF SessTypeOK
<1>3. SpentOnce'
  <2>1. ~ Through(deliveries'[i][k])
    BY <1>1 DEF Through
  <2>2. \A j \in DOMAIN messages : \A l \in DOMAIN deliveries[j] :
           Through(deliveries'[j][l]) <=> Through(deliveries[j][l])
    BY <1>1, <2>1 DEF Through
  <2> QED
    BY <1>0, <1>1, <2>2, SpentKeeps
<1>4. RequestsSound'
  <2> SUFFICES ASSUME NEW j \in DOMAIN messages, messages[j].kind = "request"
               PROVE  /\ messages[j].session \in DOMAIN sessions
                      /\ \A l \in DOMAIN deliveries'[j] : RequestSound(messages[j], deliveries[j][l])'
    BY DEF RequestsSound
  <2>1. messages[j].session \in DOMAIN sessions
    BY <1>0 DEF RequestsSound
  <2>2. ASSUME NEW l \in DOMAIN deliveries'[j] PROVE RequestSound(messages[j], deliveries[j][l])'
    <3>1. CASE j = i /\ l = k
      <4>1. RequestSound(messages[i], deliveries'[i][k])
        BY <1>1, <3>1
      <4> QED
        BY <3>1, <4>1 DEF RequestSound, AllowsNow
    <3>2. CASE ~ (j = i /\ l = k)
      <4>1. RequestSound(messages[j], deliveries[j][l]) /\ deliveries'[j][l] = deliveries[j][l]
        BY <1>0, <1>1, <2>2, <3>2 DEF RequestsSound
      <4> QED
        BY <4>1 DEF RequestSound, AllowsNow
    <3> QED
      BY <3>1, <3>2
  <2> QED
    BY <2>1, <2>2
<1> QED
  BY <1>2, <1>3, <1>4 DEF SessInv

\* a message is signed and sent
LEMMA SignKeeps ==
    ASSUME SessInv, NEW m \in MessageRecord, SignMessage(m),
           m.kind = "request" => m.session \in DOMAIN sessions
    PROVE  SessInv'
<1> DEFINE n == Len(messages)
<1>0. SessTypeOK /\ SpentOnce /\ RequestsSound
  BY DEF SessInv
<1>1. Arriving \in Delivery /\ Arriving.pc = "arrived"
  BY DEF Arriving, Delivery
<1>2. <<Arriving>> \in Seq(Delivery) /\ DOMAIN <<Arriving>> = {1} /\ <<Arriving>>[1] = Arriving
  BY <1>1
<1>3. /\ messages' \in Seq(MessageRecord) /\ Len(messages') = n + 1
      /\ \A j \in 1 .. n : messages'[j] = messages[j]
      /\ messages'[n + 1] = m
  BY <1>0, AppendProperties DEF SignMessage, SessTypeOK
<1>4. /\ deliveries' \in Seq(Seq(Delivery)) /\ Len(deliveries') = n + 1
      /\ \A j \in 1 .. n : deliveries'[j] = deliveries[j]
      /\ deliveries'[n + 1] = <<Arriving>>
  BY <1>0, <1>2, AppendProperties DEF SignMessage, SessTypeOK
<1>6. /\ n \in Nat /\ DOMAIN messages = 1 .. n /\ DOMAIN messages' = 1 .. n + 1
      /\ UNCHANGED <<sessClock, devices, sessions, usedNonces>>
  BY <1>0, <1>3 DEF SignMessage, SessTypeOK
<1>7. SessTypeOK'
  BY <1>0, <1>3, <1>4, <1>6 DEF SessTypeOK
<1>8. SpentOnce'
  <2> SUFFICES ASSUME NEW j \in 1 .. n + 1
               PROVE  /\ \A x, y \in DOMAIN deliveries'[j] :
                             Through(deliveries'[j][x]) /\ Through(deliveries'[j][y]) => x = y
                      /\ j \in usedNonces <=> \E x \in DOMAIN deliveries'[j] : Through(deliveries'[j][x])
    BY <1>6 DEF SpentOnce, Through
  <2>1. CASE j \in 1 .. n
    BY <1>0, <1>4, <1>6, <2>1 DEF SpentOnce
  <2>2. CASE j = n + 1
    <3>1. DOMAIN deliveries'[j] = {1} /\ ~ Through(deliveries'[j][1])
      BY <1>1, <1>2, <1>4, <2>2 DEF Through
    <3>2. j \notin usedNonces
      BY <1>0, <1>6, <2>2 DEF SessTypeOK
    <3> QED
      BY <3>1, <3>2
  <2> QED
    BY <1>6, <2>1, <2>2
<1>9. RequestsSound'
  <2> SUFFICES ASSUME NEW j \in 1 .. n + 1, messages'[j].kind = "request"
               PROVE  /\ messages'[j].session \in DOMAIN sessions
                      /\ \A l \in DOMAIN deliveries'[j] : RequestSound(messages[j], deliveries[j][l])'
    BY <1>6 DEF RequestsSound
  <2>1. CASE j \in 1 .. n
    <3>1. messages'[j] = messages[j] /\ deliveries'[j] = deliveries[j]
      BY <1>3, <1>4, <2>1
    <3> QED
      BY <1>0, <1>6, <2>1, <3>1 DEF RequestsSound, RequestSound, AllowsNow
  <2>2. CASE j = n + 1
    <3>1. messages'[j] = m /\ DOMAIN deliveries'[j] = {1} /\ deliveries'[j][1] = Arriving
      BY <1>2, <1>3, <1>4, <2>2
    <3> QED
      BY <1>1, <3>1 DEF RequestSound
  <2> QED
    BY <1>6, <2>1, <2>2
<1> QED
  BY <1>7, <1>8, <1>9 DEF SessInv

\* a message arrives once more
LEMMA DuplicateKeeps ==
    ASSUME SessInv, NEW i \in DOMAIN messages, Duplicate(i) PROVE SessInv'
<1> DEFINE e == Append(deliveries[i], Arriving)
<1>0. SessTypeOK /\ SpentOnce /\ RequestsSound
  BY DEF SessInv
<1>1. Arriving \in Delivery /\ Arriving.pc = "arrived"
  BY DEF Arriving, Delivery
<1>2. deliveries[i] \in Seq(Delivery) /\ i \in 1 .. Len(deliveries)
  BY <1>0 DEF SessTypeOK
<1>3. /\ e \in Seq(Delivery) /\ Len(e) = Len(deliveries[i]) + 1
      /\ \A l \in 1 .. Len(deliveries[i]) : e[l] = deliveries[i][l]
      /\ e[Len(deliveries[i]) + 1] = Arriving
  BY <1>1, <1>2, AppendProperties
<1>4. deliveries' = [deliveries EXCEPT ![i] = e]
  BY DEF Duplicate
<1> HIDE DEF e
<1>5. /\ deliveries' \in Seq(Seq(Delivery)) /\ Len(deliveries') = Len(deliveries)
      /\ \A j \in 1 .. Len(deliveries) : deliveries'[j] = IF j = i THEN e ELSE deliveries[j]
  BY <1>0, <1>2, <1>3, <1>4, ExceptSeq DEF SessTypeOK
<1>6. UNCHANGED <<sessClock, devices, sessions, messages, usedNonces>>
  BY DEF Duplicate
<1>7. SessTypeOK'
  BY <1>0, <1>5, <1>6 DEF SessTypeOK
<1>8. SpentOnce'
  <2> SUFFICES ASSUME NEW j \in DOMAIN messages
               PROVE  /\ \A x, y \in DOMAIN deliveries'[j] :
                             Through(deliveries'[j][x]) /\ Through(deliveries'[j][y]) => x = y
                      /\ j \in usedNonces <=> \E x \in DOMAIN deliveries'[j] : Through(deliveries'[j][x])
    BY <1>6 DEF SpentOnce, Through
  <2>0. /\ \A x, y \in DOMAIN deliveries[j] :
              Through(deliveries[j][x]) /\ Through(deliveries[j][y]) => x = y
        /\ j \in usedNonces <=> \E x \in DOMAIN deliveries[j] : Through(deliveries[j][x])
    BY <1>0 DEF SpentOnce
  <2>1. CASE j # i
    <3>1. deliveries'[j] = deliveries[j]
      BY <1>0, <1>5, <2>1 DEF SessTypeOK
    <3> QED
      BY <2>0, <3>1
  <2>2. CASE j = i
    <3>1. /\ DOMAIN deliveries[i] = 1 .. Len(deliveries[i])
          /\ Len(deliveries[i]) \in Nat
          /\ DOMAIN deliveries'[i] = 1 .. Len(deliveries[i]) + 1
          /\ deliveries'[i] = e
      BY <1>2, <1>3, <1>5
    <3>2. ~ Through(deliveries'[i][Len(deliveries[i]) + 1])
      BY <1>1, <1>3, <3>1 DEF Through
    <3>3. \A l \in DOMAIN deliveries[i] : deliveries'[i][l] = deliveries[i][l]
      BY <1>3, <3>1
    <3> QED
      BY <2>0, <2>2, <3>1, <3>2, <3>3
  <2> QED
    BY <2>1, <2>2
<1>9. RequestsSound'
  <2> SUFFICES ASSUME NEW j \in DOMAIN messages, messages[j].kind = "request"
               PROVE  /\ messages[j].session \in DOMAIN sessions
                      /\ \A l \in DOMAIN deliveries'[j] : RequestSound(messages[j], deliveries[j][l])'
    BY <1>6 DEF RequestsSound
  <2>1. CASE j # i
    <3>1. deliveries'[j] = deliveries[j]
      BY <1>0, <1>5, <2>1 DEF SessTypeOK
    <3> QED
      BY <1>0, <1>6, <3>1 DEF RequestsSound, RequestSound, AllowsNow
  <2>2. CASE j = i
    <3>1. /\ DOMAIN deliveries[i] = 1 .. Len(deliveries[i])
          /\ Len(deliveries[i]) \in Nat
          /\ DOMAIN deliveries'[i] = 1 .. Len(deliveries[i]) + 1
          /\ deliveries'[i] = e
      BY <1>2, <1>3, <1>5
    <3>2. messages[j].session \in DOMAIN sessions
      BY <1>0 DEF RequestsSound
    <3>3. ASSUME NEW l \in DOMAIN deliveries'[j] PROVE RequestSound(messages[j], deliveries[j][l])'
      <4>1. CASE l \in 1 .. Len(deliveries[i])
        <5>1. deliveries'[j][l] = deliveries[j][l] /\ RequestSound(messages[j], deliveries[j][l])
          BY <1>0, <1>3, <2>2, <3>1, <4>1 DEF RequestsSound
        <5> QED
          BY <1>6, <5>1 DEF RequestSound, AllowsNow
      <4>2. CASE l = Len(deliveries[i]) + 1
        <5>1. deliveries'[j][l] = Arriving
          BY <1>3, <2>2, <3>1, <4>2
        <5> QED
          BY <1>1, <5>1 DEF RequestSound
      <4> QED
        BY <2>2, <3>1, <3>3, <4>1, <4>2
    <3> QED
      BY <3>2, <3>3
  <2> QED
    BY <2>1, <2>2
<1> QED
  BY <1>7, <1>8, <1>9 DEF SessInv

\* the nonce is new, and this verification consumes it
LEMMA ConsumeKeeps ==
    ASSUME SessInv, NEW i \in DOMAIN messages, NEW k \in DOMAIN deliveries[i],
           Consume(i, k), NonceIsNew(i)
    PROVE  SessInv'
<1>0. SessTypeOK /\ SpentOnce /\ RequestsSound
  BY DEF SessInv
<1>1. /\ deliveries[i][k].pc = "consume" /\ i \notin usedNonces
      /\ usedNonces' = usedNonces \cup {i} /\ Move(i, k, "passed")
      /\ UNCHANGED <<sessClock, devices, sessions, messages>>
  BY DEF Consume, NonceIsNew
<1>2. /\ deliveries' \in Seq(Seq(Delivery)) /\ Len(deliveries') = Len(deliveries)
      /\ \A j \in DOMAIN messages :
            /\ DOMAIN deliveries'[j] = DOMAIN deliveries[j]
            /\ \A l \in DOMAIN deliveries[j] :
                  ~ (j = i /\ l = k) => deliveries'[j][l] = deliveries[j][l]
      /\ deliveries'[i][k].pc = "passed"
      /\ deliveries'[i][k].wasAllowed = deliveries[i][k].wasAllowed
  BY <1>0, <1>1, Moved
<1>3. SessTypeOK'
  <2>1. i \in 1 .. Len(messages)
    BY <1>0 DEF SessTypeOK
  <2>2. usedNonces' \subseteq 1 .. Len(messages)
    BY <1>0, <1>1, <2>1 DEF SessTypeOK
  <2> QED
    BY <1>0, <1>1, <1>2, <2>2 DEF SessTypeOK
<1>4. SpentOnce'
  <2> SUFFICES ASSUME NEW j \in DOMAIN messages
               PROVE  /\ \A x, y \in DOMAIN deliveries'[j] :
                             Through(deliveries'[j][x]) /\ Through(deliveries'[j][y]) => x = y
                      /\ j \in usedNonces' <=> \E x \in DOMAIN deliveries'[j] : Through(deliveries'[j][x])
    BY <1>1 DEF SpentOnce, Through
  <2>0. /\ \A x, y \in DOMAIN deliveries[j] :
              Through(deliveries[j][x]) /\ Through(deliveries[j][y]) => x = y
        /\ j \in usedNonces <=> \E x \in DOMAIN deliveries[j] : Through(deliveries[j][x])
    BY <1>0 DEF SpentOnce
  <2>1. CASE j # i
    <3>1. DOMAIN deliveries'[j] = DOMAIN deliveries[j]
      BY <1>2
    <3>2. \A l \in DOMAIN deliveries[j] : deliveries'[j][l] = deliveries[j][l]
      BY <1>2, <2>1
    <3> QED
      BY <1>1, <2>0, <2>1, <3>1, <3>2
  <2>2. CASE j = i
    <3>1. \A l \in DOMAIN deliveries[i] : ~ Through(deliveries[i][l])
      BY <1>1, <2>0, <2>2
    <3>2. Through(deliveries'[i][k])
      BY <1>2 DEF Through
    <3>3. DOMAIN deliveries'[i] = DOMAIN deliveries[i]
      BY <1>2
    <3>4. \A l \in DOMAIN deliveries[i] : l # k => ~ Through(deliveries'[i][l])
      BY <1>2, <3>1
    <3> QED
      BY <1>1, <2>2, <3>2, <3>3, <3>4
  <2> QED
    BY <2>1, <2>2
<1>5. RequestsSound'
  <2> SUFFICES ASSUME NEW j \in DOMAIN messages, messages[j].kind = "request"
               PROVE  /\ messages[j].session \in DOMAIN sessions
                      /\ \A l \in DOMAIN deliveries'[j] : RequestSound(messages[j], deliveries[j][l])'
    BY <1>1 DEF RequestsSound
  <2>1. messages[j].session \in DOMAIN sessions
    BY <1>0 DEF RequestsSound
  <2>2. ASSUME NEW l \in DOMAIN deliveries'[j] PROVE RequestSound(messages[j], deliveries[j][l])'
    <3>0. l \in DOMAIN deliveries[j] /\ RequestSound(messages[j], deliveries[j][l])
      BY <1>0, <1>2, <2>2 DEF RequestsSound
    <3>1. CASE j = i /\ l = k
      <4>1. deliveries[i][k].wasAllowed
        BY <1>1, <3>0, <3>1 DEF RequestSound
      <4>2. deliveries'[i][k].wasAllowed
        BY <1>2, <4>1, Zenon
      <4> QED
        BY <1>2, <3>1, <4>2 DEF RequestSound
    <3>2. CASE ~ (j = i /\ l = k)
      <4>1. deliveries'[j][l] = deliveries[j][l]
        BY <1>2, <3>0, <3>2
      <4> QED
        BY <1>1, <3>0, <4>1 DEF RequestSound, AllowsNow
    <3> QED
      BY <3>1, <3>2
  <2> QED
    BY <2>1, <2>2
<1> QED
  BY <1>3, <1>4, <1>5 DEF SessInv

\* what the caller saves is a device and a session of their types
LEMMA SavedTypes ==
    ASSUME SessTypeOK, NEW i \in DOMAIN messages, NEW k \in DOMAIN deliveries[i], Save(i, k)
    PROVE  /\ devices' \in [Phone -> PhoneRecord \cup {NoSession}]
           /\ sessions' \in Seq(SessionRecord) /\ DOMAIN sessions \subseteq DOMAIN sessions'
<1> DEFINE m == messages[i]
<1>1. m \in MessageRecord
  BY DEF SessTypeOK
<1>2. m.device \in Phone /\ m.scopes \in SUBSET Permission /\ m.until \in Nat
  BY <1>1 DEF MessageRecord
<1>3. devices' \in [Phone -> PhoneRecord \cup {NoSession}]
  <2>1. [status |-> "active", scopes |-> m.scopes] \in PhoneRecord
    BY <1>2 DEF PhoneRecord
  <2> QED
    BY <1>2, <2>1 DEF Save, SessTypeOK
<1>4. sessions' \in Seq(SessionRecord) /\ DOMAIN sessions \subseteq DOMAIN sessions'
  <2>1. NewSession(m) \in SessionRecord
    BY <1>2 DEF NewSession, SessionRecord
  <2>2. CASE sessions' = sessions
    BY <2>2 DEF SessTypeOK
  <2>3. CASE sessions' = Append(sessions, NewSession(m))
    <3>1. sessions' \in Seq(SessionRecord) /\ Len(sessions') = Len(sessions) + 1
      BY <2>1, <2>3, AppendProperties DEF SessTypeOK
    <3> QED
      BY <3>1 DEF SessTypeOK
  <2> QED
    BY <2>2, <2>3 DEF Save
<1> QED
  BY <1>3, <1>4

\* what was verified is saved, and the verifications in progress note what
\* the device allows now
LEMMA SaveKeeps ==
    ASSUME SessInv, NEW i \in DOMAIN messages, NEW k \in DOMAIN deliveries[i], Save(i, k)
    PROVE  SessInv'
<1> DEFINE d  == [deliveries[i][k] EXCEPT !.pc = "accepted"]
           ds == [deliveries EXCEPT ![i][k] = d]
<1>0. SessTypeOK /\ SpentOnce /\ RequestsSound
  BY DEF SessInv
<1>1. /\ deliveries[i][k].pc = "passed"
      /\ deliveries' = Noted(ds)
      /\ UNCHANGED <<sessClock, messages, usedNonces>>
  BY DEF Save
<1>2. /\ devices' \in [Phone -> PhoneRecord \cup {NoSession}]
      /\ sessions' \in Seq(SessionRecord) /\ DOMAIN sessions \subseteq DOMAIN sessions'
  BY <1>0, SavedTypes
<1>3. /\ deliveries[i][k] \in Delivery /\ d \in Delivery
      /\ d.pc = "accepted" /\ d.wasAllowed = deliveries[i][k].wasAllowed
  <2>1. deliveries[i][k] \in Delivery
    BY <1>0 DEF SessTypeOK
  <2> QED
    BY <2>1 DEF Delivery
<1> HIDE DEF d
<1>4. /\ ds \in Seq(Seq(Delivery)) /\ Len(ds) = Len(deliveries)
      /\ \A j \in DOMAIN messages :
            /\ DOMAIN ds[j] = DOMAIN deliveries[j]
            /\ \A l \in DOMAIN deliveries[j] :
                  ds[j][l] = IF j = i /\ l = k THEN d ELSE deliveries[j][l]
  BY <1>0, <1>3, OneDelivery
<1> HIDE DEF ds
<1> DEFINE Open(j, l) == messages[j].kind = "request" /\ ds[j][l].pc \in {"device", "consume"}
           Now(j, l) == LET r == devices'[ds[j][l].session.device]
                        IN  r # NoSession /\ r.status = "active" /\ messages[j].scopes \subseteq r.scopes
           After(j, l) == IF Open(j, l)
                          THEN [ds[j][l] EXCEPT !.wasAllowed = ds[j][l].wasAllowed \/ Now(j, l)]
                          ELSE ds[j][l]
<1>5. deliveries' = [j \in DOMAIN ds |-> [l \in DOMAIN ds[j] |-> After(j, l)]]
  BY <1>1 DEF Noted
<1>6. DOMAIN ds = DOMAIN messages /\ DOMAIN ds = 1 .. Len(messages) /\ Len(messages) \in Nat
  BY <1>0, <1>4 DEF SessTypeOK
<1>7. ASSUME NEW j \in DOMAIN ds, NEW l \in DOMAIN ds[j]
      PROVE  /\ After(j, l) \in Delivery
             /\ After(j, l).pc = ds[j][l].pc /\ After(j, l).session = ds[j][l].session
             /\ ds[j][l].wasAllowed => After(j, l).wasAllowed
             /\ Open(j, l) /\ Now(j, l) => After(j, l).wasAllowed
  <2>1. ds[j][l] \in Delivery
    BY <1>4, <1>6
  <2>2. CASE ~ Open(j, l)
    BY <2>1, <2>2
  <2>3. CASE Open(j, l)
    <3> DEFINE b == ds[j][l].wasAllowed \/ Now(j, l)
    <3>1. b \in BOOLEAN
      OBVIOUS
    <3>2. After(j, l) = [ds[j][l] EXCEPT !.wasAllowed = b]
      BY <2>3
    <3>3. (ds[j][l].wasAllowed => b) /\ (Now(j, l) => b)
      OBVIOUS
    <3> HIDE DEF b, Now, After, Open
    <3>4. /\ After(j, l) \in Delivery /\ After(j, l).wasAllowed = b
          /\ After(j, l).pc = ds[j][l].pc /\ After(j, l).session = ds[j][l].session
      BY <2>1, <3>1, <3>2 DEF Delivery
    <3> QED
      BY <3>3, <3>4
  <2> QED
    BY <2>2, <2>3
<1> HIDE DEF After
<1>8. deliveries' \in Seq(Seq(Delivery)) /\ Len(deliveries') = Len(messages)
  <2>1. ASSUME NEW j \in DOMAIN ds PROVE [l \in DOMAIN ds[j] |-> After(j, l)] \in Seq(Delivery)
    <3>1. DOMAIN ds[j] = 1 .. Len(ds[j]) /\ Len(ds[j]) \in Nat
      BY <1>4, <1>6
    <3> QED
      BY <1>7, <3>1
  <2> QED
    BY <1>5, <1>6, <2>1
<1>9. SessTypeOK'
  BY <1>0, <1>1, <1>2, <1>8 DEF SessTypeOK
<1>11. SpentOnce'
  <2> SUFFICES ASSUME NEW j \in DOMAIN messages
               PROVE  /\ DOMAIN deliveries'[j] = DOMAIN deliveries[j]
                      /\ \A l \in DOMAIN deliveries[j] :
                            Through(deliveries'[j][l]) <=> Through(deliveries[j][l])
    BY <1>0, <1>1, SpentKeeps
  <2>1. DOMAIN deliveries'[j] = DOMAIN deliveries[j] /\ DOMAIN ds[j] = DOMAIN deliveries[j] /\ j \in DOMAIN ds
    BY <1>4, <1>5, <1>6
  <2>2. ASSUME NEW l \in DOMAIN deliveries[j]
        PROVE  Through(deliveries'[j][l]) <=> Through(deliveries[j][l])
    <3>1. deliveries'[j][l].pc = ds[j][l].pc
      BY <1>5, <1>7, <2>1
    <3>2. CASE j = i /\ l = k
      BY <1>1, <1>3, <1>4, <3>1, <3>2 DEF Through
    <3>3. CASE ~ (j = i /\ l = k)
      <4>1. ds[j][l] = deliveries[j][l]
        BY <1>4, <3>3
      <4> QED
        BY <3>1, <4>1 DEF Through
    <3> QED
      BY <3>2, <3>3
  <2> QED
    BY <2>1, <2>2
<1>10. RequestsSound'
  <2> SUFFICES ASSUME NEW j \in DOMAIN messages, messages[j].kind = "request"
               PROVE  /\ messages[j].session \in DOMAIN sessions'
                      /\ \A l \in DOMAIN deliveries'[j] : RequestSound(messages[j], deliveries[j][l])'
    BY <1>1 DEF RequestsSound
  <2>1. messages[j].session \in DOMAIN sessions'
    BY <1>0, <1>2 DEF RequestsSound
  <2>2. ASSUME NEW l \in DOMAIN deliveries'[j] PROVE RequestSound(messages[j], deliveries[j][l])'
    <3>1. j \in DOMAIN ds /\ l \in DOMAIN ds[j] /\ l \in DOMAIN deliveries[j] /\ deliveries'[j][l] = After(j, l)
      BY <1>4, <1>5, <1>6, <2>2
    <3>2. RequestSound(messages[j], deliveries[j][l])
      BY <1>0, <3>1 DEF RequestsSound
    <3>3. CASE j = i /\ l = k
      <4>1. ds[j][l] = d /\ deliveries[j][l].wasAllowed
        BY <1>1, <1>4, <3>1, <3>2, <3>3 DEF RequestSound
      <4>2. After(j, l).pc = "accepted" /\ After(j, l).wasAllowed
        BY <1>3, <1>7, <3>1, <3>3, <4>1
      <4> QED
        BY <3>1, <4>2 DEF RequestSound
    <3>4. CASE ~ (j = i /\ l = k)
      <4>1. ds[j][l] = deliveries[j][l]
        BY <1>4, <3>1, <3>4
      <4>2. /\ After(j, l).pc = ds[j][l].pc /\ After(j, l).session = ds[j][l].session
            /\ ds[j][l].wasAllowed => After(j, l).wasAllowed
            /\ Open(j, l) /\ Now(j, l) => After(j, l).wasAllowed
        BY <1>7, <3>1
      <4> QED
        BY <1>1, <3>1, <3>2, <4>1, <4>2 DEF RequestSound, AllowsNow
    <3> QED
      BY <3>3, <3>4
  <2> QED
    BY <2>1, <2>2
<1> QED
  BY <1>9, <1>10, <1>11 DEF SessInv

\* the session of a request is found, and what its device allows is noted
LEMMA FindSessionKeeps ==
    ASSUME SessInv, NEW i \in DOMAIN messages, NEW k \in DOMAIN deliveries[i], FindSession(i, k)
    PROVE  SessInv'
<1> DEFINE m == messages[i]
           s == sessions[m.session]
           found == s.status = "active" /\ m.scopes \subseteq s.scopes
           ok == \A x \in m.scopes : Allows(s.device, x)
           d == IF found THEN [pc |-> "device", session |-> s, wasAllowed |-> ok]
                ELSE [deliveries[i][k] EXCEPT !.pc = "rejected"]
<1>0. SessTypeOK /\ SpentOnce /\ RequestsSound
  BY DEF SessInv
<1>1. /\ m.kind = "request" /\ deliveries[i][k].pc = "arrived"
      /\ deliveries' = [deliveries EXCEPT ![i][k] = d]
      /\ UNCHANGED <<sessClock, devices, sessions, messages, usedNonces>>
  BY DEF FindSession
<1>2. s \in SessionRecord /\ deliveries[i][k] \in Delivery
  BY <1>0, <1>1 DEF SessTypeOK, RequestsSound
<1>3. AllowsNow(m, s) => ok
  BY DEF AllowsNow, Allows
<1>4. /\ d \in Delivery
      /\ d.pc \in {"device", "rejected"}
      /\ d.pc = "device" => d.session = s /\ (ok => d.wasAllowed)
  <2>1. ok \in BOOLEAN
    OBVIOUS
  <2> HIDE DEF ok, s, found
  <2>2. CASE found
    <3>1. d = [pc |-> "device", session |-> s, wasAllowed |-> ok]
      BY <2>2
    <3>2. d \in Delivery
      BY <1>2, <2>1, <3>1 DEF Delivery
    <3>3. d.pc = "device" /\ d.session = s /\ d.wasAllowed = ok
      BY <3>1
    <3> QED
      BY <3>2, <3>3
  <2>3. CASE ~ found
    BY <1>2, <2>3 DEF Delivery
  <2> QED
    BY <2>2, <2>3
<1> HIDE DEF d
<1>5. LET ds == [deliveries EXCEPT ![i][k] = d]
      IN  /\ ds \in Seq(Seq(Delivery)) /\ Len(ds) = Len(deliveries)
          /\ \A j \in DOMAIN messages :
                /\ DOMAIN ds[j] = DOMAIN deliveries[j]
                /\ \A l \in DOMAIN deliveries[j] :
                      ds[j][l] = IF j = i /\ l = k THEN d ELSE deliveries[j][l]
  BY <1>0, <1>4, OneDelivery
<1>6. SessTypeOK'
  BY <1>0, <1>1, <1>5 DEF SessTypeOK
<1>7. SpentOnce'
  <2>1. /\ deliveries'[i][k] = d /\ ~ Through(d) /\ ~ Through(deliveries[i][k])
    BY <1>1, <1>4, <1>5 DEF Through
  <2>2. \A j \in DOMAIN messages :
            /\ DOMAIN deliveries'[j] = DOMAIN deliveries[j]
            /\ \A l \in DOMAIN deliveries[j] :
                  ~ (j = i /\ l = k) => deliveries'[j][l] = deliveries[j][l]
    BY <1>1, <1>5
  <2>3. \A j \in DOMAIN messages : \A l \in DOMAIN deliveries[j] :
           Through(deliveries'[j][l]) <=> Through(deliveries[j][l])
    BY <2>1, <2>2
  <2> QED
    BY <1>0, <1>1, <2>2, <2>3, SpentKeeps
<1>8. RequestsSound'
  <2> SUFFICES ASSUME NEW j \in DOMAIN messages, messages[j].kind = "request"
               PROVE  /\ messages[j].session \in DOMAIN sessions
                      /\ \A l \in DOMAIN deliveries'[j] : RequestSound(messages[j], deliveries[j][l])'
    BY <1>1 DEF RequestsSound
  <2>1. messages[j].session \in DOMAIN sessions
    BY <1>0 DEF RequestsSound
  <2>2. ASSUME NEW l \in DOMAIN deliveries'[j] PROVE RequestSound(messages[j], deliveries[j][l])'
    <3>1. CASE j = i /\ l = k
      <4>1. deliveries'[j][l] = d
        BY <1>1, <1>5, <2>2, <3>1
      <4> QED
        BY <1>1, <1>2, <1>3, <1>4, <3>1, <4>1 DEF RequestSound, AllowsNow
    <3>2. CASE ~ (j = i /\ l = k)
      <4>1. RequestSound(messages[j], deliveries[j][l]) /\ deliveries'[j][l] = deliveries[j][l]
        BY <1>0, <1>1, <1>5, <2>2, <3>2 DEF RequestsSound
      <4> QED
        BY <1>1, <4>1 DEF RequestSound, AllowsNow
    <3> QED
      BY <3>1, <3>2
  <2> QED
    BY <2>1, <2>2
<1> QED
  BY <1>6, <1>7, <1>8 DEF SessInv

LEMMA SessStep == SessInv /\ [SessNext]_sessVars => SessInv'
<1> SUFFICES ASSUME SessInv, [SessNext]_sessVars PROVE SessInv'
  OBVIOUS
<1>0. SessTypeOK /\ SpentOnce /\ RequestsSound
  BY DEF SessInv
\* nothing a request depends on is gained
<1>1. ASSUME UNCHANGED <<messages, deliveries, usedNonces>>,
             sessClock' \in Nat,
             devices' \in [Phone -> PhoneRecord \cup {NoSession}],
             sessions' \in Seq(SessionRecord), DOMAIN sessions \subseteq DOMAIN sessions',
             \A p \in Phone : devices'[p] = devices[p] \/ devices'[p].status # "active"
      PROVE  SessInv'
  <2>1. SessTypeOK'
    BY <1>0, <1>1 DEF SessTypeOK
  <2>2. SpentOnce'
    BY <1>0, <1>1, SpentKeeps
  <2>3. RequestsSound'
    <3> SUFFICES ASSUME NEW j \in DOMAIN messages, messages[j].kind = "request",
                        NEW l \in DOMAIN deliveries[j]
                 PROVE  RequestSound(messages[j], deliveries[j][l])'
      BY <1>0, <1>1 DEF RequestsSound
    <3>1. RequestSound(messages[j], deliveries[j][l])
      BY <1>0 DEF RequestsSound
    <3>2. deliveries[j][l].pc = "device" => deliveries[j][l].session.device \in Phone
      BY <3>1 DEF RequestSound, SessionRecord
    <3> QED
      BY <1>1, <3>1, <3>2 DEF RequestSound, AllowsNow
  <2> QED
    BY <2>1, <2>2, <2>3 DEF SessInv
<1>2. CASE UNCHANGED sessVars
  BY <1>0, <1>1, <1>2 DEF sessVars, SessTypeOK
<1>3. ASSUME NEW kind \in {"register", "session", "request"}, NEW d \in Phone,
             NEW scopes \in SUBSET Permission, NEW s \in Nat \cup {NoSession}, NEW life \in Nat
      PROVE  /\ Message(kind, d, scopes, s, life) \in MessageRecord
             /\ Message(kind, d, scopes, s, life).kind = kind
             /\ Message(kind, d, scopes, s, life).session = s
  BY <1>0, SessionAssumption DEF Message, MessageRecord, SessTypeOK
<1>4. ASSUME NEW d \in Phone, NEW scopes \in SUBSET Scope, AuthorizePhone(d, scopes \cup {"create"})
      PROVE  SessInv'
  <2>1. scopes \cup {"create"} \in SUBSET Permission
    BY DEF Permission
  <2> QED
    BY <1>3, <1>4, <2>1, SignKeeps DEF AuthorizePhone
<1>5. ASSUME NEW d \in Phone, NEW scopes \in SUBSET Scope, NEW life \in 1 .. SessionLife + 1,
             AskForSession(d, scopes, life)
      PROVE  SessInv'
  <2>1. scopes \in SUBSET Permission /\ life \in Nat
    BY SessionAssumption DEF Permission
  <2> QED
    BY <1>3, <1>5, <2>1, SignKeeps DEF AskForSession
<1>7. ASSUME NEW s \in DOMAIN sessions, NEW scope \in Scope, AskInSession(s, scope) PROVE SessInv'
  <2>1. {scope} \in SUBSET Permission /\ s \in Nat /\ sessions[s] \in SessionRecord
    BY <1>0 DEF Permission, SessTypeOK
  <2>2. sessions[s].device \in Phone
    BY <2>1 DEF SessionRecord
  <2> QED
    BY <1>3, <1>7, <2>1, <2>2, SignKeeps DEF AskInSession
<1>8. ASSUME NEW d \in Phone, RevokePhone(d) PROVE SessInv'
  <2>1. devices[d] \in PhoneRecord
    BY <1>0, <1>8 DEF RevokePhone, Allows, SessTypeOK
  <2>2. [devices[d] EXCEPT !.status = "revoked"] \in PhoneRecord
        /\ [devices[d] EXCEPT !.status = "revoked"].status = "revoked"
    BY <2>1 DEF PhoneRecord
  <2>3. devices' = [devices EXCEPT ![d] = [devices[d] EXCEPT !.status = "revoked"]]
    BY <1>8 DEF RevokePhone
  <2>4. devices' \in [Phone -> PhoneRecord \cup {NoSession}]
    BY <1>0, <2>2, <2>3 DEF SessTypeOK
  <2>5. \A p \in Phone : devices'[p] = devices[p] \/ devices'[p].status # "active"
    BY <1>0, <2>2, <2>3 DEF SessTypeOK
  <2> QED
    BY <1>0, <1>1, <1>8, <2>4, <2>5 DEF RevokePhone, SessTypeOK
<1>9. ASSUME NEW s \in DOMAIN sessions, RevokeSession(s) PROVE SessInv'
  <2>1. sessions[s] \in SessionRecord /\ s \in 1 .. Len(sessions)
    BY <1>0 DEF SessTypeOK
  <2> DEFINE r == [sessions[s] EXCEPT !.status = "revoked"]
  <2>2. r \in SessionRecord
    BY <2>1 DEF SessionRecord
  <2>3. sessions' = [sessions EXCEPT ![s] = r]
    BY <1>9 DEF RevokeSession
  <2> HIDE DEF r
  <2>4. sessions' \in Seq(SessionRecord) /\ Len(sessions') = Len(sessions)
    BY <1>0, <2>1, <2>2, <2>3, ExceptSeq DEF SessTypeOK
  <2> QED
    BY <1>0, <1>1, <1>9, <2>4 DEF RevokeSession, SessTypeOK
<1>10. CASE SessTick
  BY <1>0, <1>1, <1>10 DEF SessTick, SessTypeOK
<1>11. ASSUME NEW i \in DOMAIN messages, Duplicate(i) PROVE SessInv'
  BY <1>11, DuplicateKeeps
<1>12. ASSUME NEW i \in DOMAIN messages, NEW k \in DOMAIN deliveries[i],
              VerifyRegistration(i, k) \/ VerifyCreation(i, k)
       PROVE  SessInv'
  <2>1. PICK pc \in {"consume", "rejected"} : Move(i, k, pc)
    BY <1>12 DEF VerifyRegistration, VerifyCreation
  <2> QED
    BY <1>12, <2>1, MoveKeeps DEF VerifyRegistration, VerifyCreation, Through
<1>13. ASSUME NEW i \in DOMAIN messages, NEW k \in DOMAIN deliveries[i], FindDevice(i, k)
       PROVE  SessInv'
  <2> DEFINE m == messages[i]
             s == deliveries[i][k].session
  <2>0. RequestSound(m, deliveries[i][k]) /\ deliveries[i][k].pc = "device"
    BY <1>0, <1>13 DEF FindDevice, RequestsSound
  <2>1. CASE Move(i, k, "rejected")
    <3>1. \A d : d.pc = "rejected" => RequestSound(m, d)
      BY DEF RequestSound
    <3> QED
      BY <1>13, <2>1, <3>1, MoveKeeps DEF FindDevice, Through
  <2>2. CASE Move(i, k, "consume") /\ AllowsNow(m, s)
    <3>1. deliveries[i][k].wasAllowed /\ s \in SessionRecord
      BY <2>0, <2>2 DEF RequestSound
    <3>2. ASSUME NEW d, d.pc = "consume", d.session = s,
                 d.wasAllowed = deliveries[i][k].wasAllowed
          PROVE  RequestSound(m, d)
      <4>1. d.wasAllowed
        BY <3>1, <3>2, Zenon
      <4> QED
        BY <3>1, <3>2, <4>1 DEF RequestSound
    <3> QED
      BY <1>13, <2>2, <3>2, MoveKeeps DEF FindDevice, Through
  <2> QED
    BY <1>13, <2>1, <2>2 DEF FindDevice, ProofIsValid, AllowsNow
<1>14. ASSUME NEW i \in DOMAIN messages, NEW k \in DOMAIN deliveries[i], Consume(i, k)
       PROVE  SessInv'
  <2>1. CASE NonceIsNew(i)
    BY <1>14, <2>1, ConsumeKeeps
  <2>2. CASE ~ NonceIsNew(i)
    <3>1. \A d : d.pc = "rejected" => RequestSound(messages[i], d)
      BY DEF RequestSound
    <3> QED
      BY <1>14, <2>2, <3>1, MoveKeeps DEF Consume, Through
  <2> QED
    BY <2>1, <2>2
<1>15. ASSUME NEW i \in DOMAIN messages, NEW k \in DOMAIN deliveries[i], Save(i, k)
       PROVE  SessInv'
  BY <1>15, SaveKeeps
<1>16. ASSUME NEW i \in DOMAIN messages, NEW k \in DOMAIN deliveries[i], FindSession(i, k)
       PROVE  SessInv'
  BY <1>16, FindSessionKeeps
<1> QED
  BY <1>2, <1>4, <1>5, <1>7, <1>8, <1>9, <1>10, <1>11, <1>12, <1>13, <1>14, <1>15, <1>16
     DEF SessNext

LEMMA SessSound == SessSpec => []SessInv
  BY SessInitially, SessStep, PTL DEF SessSpec

\* However often a signed message arrives and however the verifications of its
\* copies interleave, at most one passes, and only a verification that passes
\* spends the nonce (verifyTsnDeviceRegistration, verifyTsnPrivateSessionCreation
\* and verifyTsnAuthorizedPrivateRequest consume it last).
THEOREM NoncesAlwaysWorkOnce == SessSpec => []NoncesWorkOnce
<1>1. SessInv => NoncesWorkOnce
  <2> SUFFICES ASSUME SessInv, NEW i \in DOMAIN messages
               PROVE  LET through == {k \in DOMAIN deliveries[i] :
                                         deliveries[i][k].pc \in {"passed", "accepted"}}
                      IN  (\A j, k \in through : j = k) /\ (i \in usedNonces <=> through # {})
    BY DEF NoncesWorkOnce
  <2> QED
    BY DEF SessInv, SpentOnce, Through
<1> QED
  BY <1>1, SessSound, PTL

\* A private request is answered only if its device was active and held the
\* permission after the request arrived, although sessions outlive the
\* revocation of their device (verifyTsnAuthorizedPrivateRequest reads the
\* device again for each request).
THEOREM AlwaysAnsweredWhenAllowed == SessSpec => []AnsweredWhenAllowed
<1>1. SessInv => AnsweredWhenAllowed
  BY DEF SessInv, RequestsSound, RequestSound, AnsweredWhenAllowed
<1> QED
  BY <1>1, SessSound, PTL

-----------------------------------------------------------------------------
(* Payment requests. A nonce is held by at most one of: a Node instance     *)
(* that consumed it and has not answered, and a work that was verified.     *)
(* Neither the versions of the leases nor their number is needed for that.  *)

WorkFields == {"status", "version", "auth", "path", "reason", "payload", "delta", "attested"}
VerifierFields == {"pc", "work", "version", "reason"}

\* what the Receiver's works and the Node instances are made of
PayShape ==
    /\ DOMAIN works = Payment /\ \A p \in Payment : DOMAIN works[p] = WorkFields
    /\ DOMAIN verifiers = Verifier /\ \A n \in Verifier : DOMAIN verifiers[n] = VerifierFields

\* instance n consumed the nonce of what it verifies and may yet accept it
Passed(n) ==
    \/ verifiers[n].pc = "deposit"
    \/ verifiers[n].pc = "done" /\ verifiers[n].reason = "none"

NonceOf(n) == works[verifiers[n].work].auth

\* what is being verified was posted
VerifiersSound ==
    \A n \in Verifier : verifiers[n].pc # "idle" =>
        verifiers[n].work \in Payment /\ works[verifiers[n].work].status # "NONE"

NonceHeldOnce ==
    /\ \A n \in Verifier : Passed(n) => NonceOf(n) \in consumedNonces
    /\ \A n, m \in Verifier : Passed(n) /\ Passed(m) /\ NonceOf(n) = NonceOf(m) => n = m
    /\ \A p \in Payment : works[p].status = "VERIFIED" => works[p].auth \in consumedNonces
    /\ \A n \in Verifier, p \in Payment :
          Passed(n) /\ works[p].status = "VERIFIED" => NonceOf(n) # works[p].auth
    /\ OnePaymentPerAuthorization

PayInv == PayShape /\ VerifiersSound /\ NonceHeldOnce /\ VerifiedWorkIsExecutable

\* the Cranker is handed exactly what the Node attested: the fields that matter
\* are in neither the payload the difference was taken to nor the one it is
\* applied to, so that the difference has them
LEMMA AttestationSurvives ==
    ASSUME NEW work, NEW payload, NEW request,
           work.payload = Kept(payload),
           work.delta = Diff(Redacted(payload), Compacted(VerifiedPayload(request))),
           work.attested = ExecutionPayload(VerifiedPayload(request))
    PROVE  CrankerAccepts(work)
<1> DEFINE verified == VerifiedPayload(request)
           next == Compacted(verified)
           rebuilt == Rebuilt(work.payload, work.delta)
<1>1. DOMAIN verified = RequestFields \cup NodeFields
  BY DEF VerifiedPayload
<1>2. work.delta = Diff(Redacted(payload), next) /\ work.attested = ExecutionPayload(verified)
  OBVIOUS
<1> HIDE DEF verified
<1>3. CompactFields \cap DOMAIN verified = CompactFields
  BY <1>1 DEF CompactFields, RequestFields
<1>4. next = [f \in CompactFields |-> verified[f]]
  BY <1>3 DEF Compacted, Restrict
<1> HIDE DEF next
<1>5. \A f \in ExecutionFields : /\ f \in CompactFields /\ f \in RequestFields
                                 /\ f \notin DOMAIN Redacted(payload)
  BY DEF ExecutionFields, CompactFields, RequestFields, Redacted, Restrict
<1>6. \A f \in ExecutionFields : f \in DOMAIN work.delta.set /\ work.delta.set[f] = verified[f]
  BY <1>2, <1>4, <1>5 DEF Diff, Restrict
<1>7. \A f \in ExecutionFields : f \in DOMAIN rebuilt /\ rebuilt[f] = verified[f]
  BY <1>6 DEF Rebuilt
<1> HIDE DEF rebuilt
<1> DEFINE handed == [f \in ExecutionFields |-> verified[f]]
<1>8. ExecutionFields \cap DOMAIN rebuilt = ExecutionFields
  BY <1>7
<1>9. ExecutionPayload(rebuilt) = handed
  BY <1>7, <1>8 DEF ExecutionPayload, Restrict
<1>10. ExecutionFields \cap DOMAIN verified = ExecutionFields
  BY <1>1, <1>5
<1>11. work.attested = handed
  BY <1>2, <1>10 DEF ExecutionPayload, Restrict
<1>12. AttestedFields \cap DOMAIN handed = ExecutionFields
  BY DEF AttestedFields, ExecutionFields
<1>13. Restrict(handed, AttestedFields \cap DOMAIN handed) = handed
  BY <1>12 DEF Restrict
<1> QED
  BY <1>9, <1>11, <1>13 DEF CrankerAccepts, rebuilt

LEMMA PayInitially == PayInit => PayInv
<1> SUFFICES ASSUME PayInit PROVE PayInv
  OBVIOUS
<1>1. /\ DOMAIN works = Payment /\ \A p \in Payment : works[p] = NoWork
      /\ DOMAIN verifiers = Verifier /\ \A n \in Verifier : verifiers[n] = Sleeping
  BY DEF PayInit
<1>2. NoWork.status = "NONE" /\ DOMAIN NoWork = WorkFields
  BY DEF NoWork, WorkFields
<1>3. Sleeping.pc = "idle" /\ DOMAIN Sleeping = VerifierFields
  BY DEF Sleeping, VerifierFields
<1> QED
  BY <1>1, <1>2, <1>3
     DEF PayInv, PayShape, VerifiersSound, NonceHeldOnce, Passed, OnePaymentPerAuthorization,
         VerifiedWorkIsExecutable

LEMMA PayStep == PayInv /\ [PayNext]_payVarsAll => PayInv'
<1> SUFFICES ASSUME PayInv, [PayNext]_payVarsAll PROVE PayInv'
  OBVIOUS
<1>0. PayShape /\ VerifiersSound /\ NonceHeldOnce /\ VerifiedWorkIsExecutable
  BY DEF PayInv
<1>1. ASSUME UNCHANGED <<works, verifiers, consumedNonces>> PROVE PayInv'
  BY <1>0, <1>1 DEF PayInv, PayShape, VerifiersSound, NonceHeldOnce, Passed, NonceOf,
     OnePaymentPerAuthorization, VerifiedWorkIsExecutable, CrankerAccepts
\* the works of a step that verifies none of them
<1>2. ASSUME UNCHANGED consumedNonces,
             DOMAIN works' = Payment, \A p \in Payment : DOMAIN works'[p] = WorkFields,
             \A p \in Payment : works[p].status # "NONE" =>
                 works'[p].status # "NONE" /\ works'[p].auth = works[p].auth,
             \A p \in Payment : works'[p].status = "VERIFIED" => works'[p] = works[p],
             DOMAIN verifiers' = Verifier, \A n \in Verifier : DOMAIN verifiers'[n] = VerifierFields,
             \A n \in Verifier : verifiers'[n] = verifiers[n]
                 \/ /\ verifiers'[n].pc # "idle" =>
                          verifiers'[n].work \in Payment /\ works'[verifiers'[n].work].status # "NONE"
                    /\ Passed(n)' => Passed(n) /\ verifiers'[n].work = verifiers[n].work
      PROVE  PayInv'
  <2>1. PayShape'
    BY <1>2 DEF PayShape
  <2>2. VerifiersSound'
    BY <1>0, <1>2 DEF VerifiersSound
  <2>3. \A n \in Verifier : Passed(n)' => Passed(n) /\ NonceOf(n)' = NonceOf(n)
    BY <1>0, <1>2 DEF VerifiersSound, Passed, NonceOf
  <2>4. NonceHeldOnce'
    BY <1>0, <1>2, <2>3 DEF NonceHeldOnce, OnePaymentPerAuthorization
  <2>5. VerifiedWorkIsExecutable'
    BY <1>0, <1>2 DEF VerifiedWorkIsExecutable, CrankerAccepts
  <2> QED
    BY <2>1, <2>2, <2>4, <2>5 DEF PayInv
<1>3. CASE UNCHANGED payVarsAll
  BY <1>1, <1>3 DEF payVarsAll
<1>4. ASSUME NEW p \in Signer, Estimate(p) \/ ServeConfig(p) \/ ReadConfig(p) \/ QuoteFails(p)
      PROVE  PayInv'
  BY <1>1, <1>4 DEF Estimate, ServeConfig, ReadConfig, QuoteFails
<1>5. ASSUME NEW p \in Signer, NEW x \in UiAmount, Sign(p, x) \/ SignRoute(p, x) PROVE PayInv'
  BY <1>1, <1>5 DEF Sign, SignRoute, Signed
<1>6. CASE ChainChanges \/ PayTick
  BY <1>1, <1>6 DEF ChainChanges, PayTick
<1>7. ASSUME NEW p \in Payment, NEW a, NEW path, Post(p, a, path) PROVE PayInv'
  <2>1. /\ DOMAIN works' = Payment
        /\ \A q \in Payment : q # p => works'[q] = works[q]
        /\ DOMAIN works'[p] = WorkFields /\ works'[p].status = "RECEIVED"
    BY <1>0, <1>7 DEF Post, PayShape, NoWork, WorkFields
  <2>2. works[p].status = "NONE" /\ UNCHANGED <<verifiers, consumedNonces>>
    BY <1>7 DEF Post
  <2> QED
    BY <1>0, <1>2, <2>1, <2>2 DEF PayShape
<1>8. ASSUME NEW n \in Verifier, NEW p \in Payment, Lease(n, p) PROVE PayInv'
  <2>1. works[p].status \in {"RECEIVED", "NODE_LEASED"} /\ UNCHANGED consumedNonces
    BY <1>8 DEF Lease
  <2>2. /\ DOMAIN works' = Payment
        /\ \A q \in Payment : q # p => works'[q] = works[q]
        /\ DOMAIN works'[p] = WorkFields /\ works'[p].status = "NODE_LEASED"
        /\ works'[p].auth = works[p].auth
    BY <1>0, <1>8 DEF Lease, PayShape, WorkFields
  <2>3. /\ DOMAIN verifiers' = Verifier
        /\ \A m \in Verifier : m # n => verifiers'[m] = verifiers[m]
        /\ DOMAIN verifiers'[n] = VerifierFields
        /\ verifiers'[n].pc = "fields" /\ verifiers'[n].work = p
    BY <1>0, <1>8 DEF Lease, PayShape, VerifierFields
  <2> QED
    BY <1>0, <1>2, <2>1, <2>2, <2>3 DEF PayShape, Passed
\* a verification goes on, is refused or ends
<1>9. ASSUME NEW n \in Verifier, NEW pc, Proceeds(n, pc)
      PROVE  /\ DOMAIN verifiers' = Verifier
             /\ \A m \in Verifier : m # n => verifiers'[m] = verifiers[m]
             /\ DOMAIN verifiers'[n] = VerifierFields /\ verifiers'[n].pc = pc
             /\ verifiers'[n].work = verifiers[n].work /\ verifiers'[n].reason = verifiers[n].reason
  BY <1>0, <1>9 DEF Proceeds, PayShape, VerifierFields
<1>10. ASSUME NEW n \in Verifier, NEW reason, Rejects(n, reason)
       PROVE  /\ DOMAIN verifiers' = Verifier
              /\ \A m \in Verifier : m # n => verifiers'[m] = verifiers[m]
              /\ DOMAIN verifiers'[n] = VerifierFields /\ verifiers'[n].pc = "done"
              /\ verifiers'[n].work = verifiers[n].work /\ verifiers'[n].reason = reason
  BY <1>0, <1>10 DEF Rejects, PayShape, VerifierFields
<1>11. ASSUME NEW n \in Verifier, verifiers[n].pc # "idle", UNCHANGED <<works, consumedNonces>>,
              NEW reason, reason # "none", Rejects(n, reason)
       PROVE  PayInv'
  BY <1>0, <1>2, <1>10, <1>11 DEF PayShape, VerifiersSound, Passed
<1>12. ASSUME NEW n \in Verifier, verifiers[n].pc # "idle", UNCHANGED <<works, consumedNonces>>,
              NEW pc \in {"identity", "nonce"}, Proceeds(n, pc)
       PROVE  PayInv'
  BY <1>0, <1>2, <1>9, <1>12 DEF PayShape, VerifiersSound, Passed
<1>13. ASSUME NEW n \in Verifier, CheckFields(n) \/ CheckIdentity(n) PROVE PayInv'
  BY <1>11, <1>12, <1>13 DEF CheckFields, CheckIdentity
<1>14. ASSUME NEW n \in Verifier, ConsumePaymentNonce(n) PROVE PayInv'
  <2> DEFINE a == works[verifiers[n].work].auth
  <2>0. /\ verifiers[n].pc = "nonce" /\ consumedNonces' = consumedNonces \cup {a} /\ UNCHANGED works
        /\ verifiers[n].work \in Payment /\ works[verifiers[n].work].status # "NONE"
    BY <1>0, <1>14 DEF ConsumePaymentNonce, VerifiersSound
  <2>1. /\ DOMAIN verifiers' = Verifier
        /\ \A m \in Verifier : m # n => verifiers'[m] = verifiers[m]
        /\ DOMAIN verifiers'[n] = VerifierFields /\ verifiers'[n].pc # "idle"
        /\ verifiers'[n].work = verifiers[n].work
        /\ Passed(n)' => a \notin consumedNonces
    <3>1. CASE NonceIsFree(a) /\ Proceeds(n, "deposit")
      BY <1>9, <3>1 DEF NonceIsFree
    <3>2. CASE Rejects(n, "nonce")
      BY <1>10, <3>2 DEF Passed
    <3> QED
      BY <1>14, <3>1, <3>2 DEF ConsumePaymentNonce
  <2>2. PayShape'
    BY <1>0, <2>0, <2>1 DEF PayShape
  <2>3. VerifiersSound'
    BY <1>0, <2>0, <2>1 DEF VerifiersSound
  <2>4. \A m \in Verifier : NonceOf(m)' = NonceOf(m) /\ (m # n => (Passed(m)' <=> Passed(m)))
    BY <2>0, <2>1 DEF NonceOf, Passed
  <2>5. NonceOf(n) = a
    BY DEF NonceOf
  <2>6. NonceHeldOnce'
    BY <1>0, <2>0, <2>1, <2>4, <2>5 DEF NonceHeldOnce, OnePaymentPerAuthorization
  <2>7. VerifiedWorkIsExecutable'
    BY <1>0, <2>0 DEF VerifiedWorkIsExecutable, CrankerAccepts
  <2> QED
    BY <2>2, <2>3, <2>6, <2>7 DEF PayInv
<1>15. ASSUME NEW n \in Verifier, CheckDeposit(n) PROVE PayInv'
  <2>1. CASE Proceeds(n, "done")
    BY <1>0, <1>2, <1>9, <1>15, <2>1 DEF CheckDeposit, PayShape, VerifiersSound, Passed
  <2> QED
    BY <1>11, <1>15, <2>1 DEF CheckDeposit
<1>16. ASSUME NEW n \in Verifier, VerifierFails(n) PROVE PayInv'
  BY <1>11, <1>16 DEF VerifierFails
\* an instance that sleeps holds nothing
<1>17. ASSUME NEW n \in Verifier, verifiers' = [verifiers EXCEPT ![n] = Sleeping]
       PROVE  /\ DOMAIN verifiers' = Verifier
              /\ \A m \in Verifier : m # n => verifiers'[m] = verifiers[m]
              /\ DOMAIN verifiers'[n] = VerifierFields /\ verifiers'[n].pc = "idle"
  BY <1>0, <1>17 DEF PayShape, Sleeping, VerifierFields
<1>18. ASSUME NEW n \in Verifier, VerifierStops(n) PROVE PayInv'
  BY <1>0, <1>2, <1>17, <1>18 DEF VerifierStops, PayShape, Passed
<1>19. ASSUME NEW n \in Verifier, Answer(n) PROVE PayInv'
  <2> DEFINE p == verifiers[n].work
  <2>0. /\ verifiers[n].pc = "done" /\ p \in Payment /\ works[p].status # "NONE"
        /\ UNCHANGED consumedNonces
        /\ verifiers' = [verifiers EXCEPT ![n] = Sleeping]
    BY <1>0, <1>19 DEF Answer, VerifiersSound
  <2>1. CASE works' = works
    BY <1>0, <1>2, <1>17, <2>0, <2>1 DEF PayShape, Passed
  <2>2. CASE /\ works[p].status = "NODE_LEASED" /\ verifiers[n].reason # "none"
             /\ works' = [works EXCEPT ![p] = Completed(@, verifiers[n].reason)]
    <3>1. /\ DOMAIN works' = Payment
          /\ \A q \in Payment : q # p => works'[q] = works[q]
          /\ DOMAIN works'[p] = WorkFields /\ works'[p].status = "REJECTED"
          /\ works'[p].auth = works[p].auth
      BY <1>0, <2>0, <2>2 DEF Completed, PayShape, WorkFields
    <3> QED
      BY <1>0, <1>2, <1>17, <2>0, <3>1 DEF PayShape, Passed
  <2>3. CASE /\ works[p].status = "NODE_LEASED" /\ verifiers[n].reason = "none"
             /\ works' = [works EXCEPT ![p] = Completed(@, verifiers[n].reason)]
    <3>1. /\ DOMAIN works' = Payment
          /\ \A q \in Payment : q # p => works'[q] = works[q]
          /\ DOMAIN works'[p] = WorkFields /\ works'[p].status = "VERIFIED"
          /\ works'[p].auth = works[p].auth
          /\ works'[p].payload = Kept(works[p].payload)
          /\ works'[p].delta = Diff(Redacted(works[p].payload),
                                    Compacted(VerifiedPayload(works[p].payload["envelope"])))
          /\ works'[p].attested = ExecutionPayload(VerifiedPayload(works[p].payload["envelope"]))
      BY <1>0, <2>0, <2>3 DEF Completed, PayShape, WorkFields
    <3>2. PayShape'
      BY <1>0, <1>17, <2>0, <3>1 DEF PayShape
    <3>3. VerifiersSound'
      BY <1>0, <1>17, <2>0, <3>1, ZenonT(40) DEF VerifiersSound
    <3>4. Passed(n) /\ NonceOf(n) = works[p].auth /\ ~ Passed(n)'
      BY <1>17, <2>0, <2>3 DEF Passed, NonceOf
    <3>5. \A m \in Verifier : Passed(m)' => m # n /\ Passed(m) /\ NonceOf(m)' = NonceOf(m)
      BY <1>0, <1>17, <2>0, <3>1, ZenonT(40) DEF Passed, NonceOf, VerifiersSound
    <3>6. NonceHeldOnce'
      BY <1>0, <2>0, <3>1, <3>4, <3>5 DEF NonceHeldOnce, OnePaymentPerAuthorization
    <3>7. CrankerAccepts(works'[p])
      BY <3>1, AttestationSurvives
    <3>8. VerifiedWorkIsExecutable'
      BY <1>0, <3>1, <3>7 DEF VerifiedWorkIsExecutable, CrankerAccepts
    <3> QED
      BY <3>2, <3>3, <3>6, <3>8 DEF PayInv
  <2> QED
    BY <1>19, <2>1, <2>2, <2>3 DEF Answer, AnswerIsForLease
<1> QED
  BY <1>3, <1>4, <1>5, <1>6, <1>7, <1>8, <1>13, <1>14, <1>15, <1>16, <1>18, <1>19 DEF PayNext

LEMMA PaySound == PaySpec => []PayInv
  BY PayInitially, PayStep, PTL DEF PaySpec

\* An authorization is verified for one payment only, however often it is
\* posted under other identifiers and by however many Node instances whose
\* leases run out (consume_once in _assert_canonical_nonce_unused).
THEOREM AlwaysOnePaymentPerAuthorization == PaySpec => []OnePaymentPerAuthorization
<1>1. PayInv => OnePaymentPerAuthorization
  BY DEF PayInv, NonceHeldOnce
<1> QED
  BY <1>1, PaySound, PTL

\* A Cranker accepts the attestation of every verified work: what the Receiver
\* compacts, stores as a difference and rebuilds still holds every field the
\* Node attested (diffPayload, verifiedPayloadForWork, verifyNodeAttestation).
THEOREM VerifiedWorkIsAlwaysExecutable == PaySpec => []VerifiedWorkIsExecutable
<1>1. PayInv => VerifiedWorkIsExecutable
  BY DEF PayInv
<1> QED
  BY <1>1, PaySound, PTL

-----------------------------------------------------------------------------
(* Powers of ten.                                                           *)

\* A function that follows the recursion up to n.
RecursUpTo(g, n) == \A m \in Nat : m <= n => g[m] = IF m = 0 THEN 1 ELSE 10 * g[m - 1]

\* Two functions that follow the recursion up to n agree there.
LEMMA PowersAgree ==
    ASSUME NEW n \in Nat, NEW g, NEW h, RecursUpTo(g, n), RecursUpTo(h, n)
    PROVE  g[n] = h[n]
<1> DEFINE Q == {m \in Nat : m <= n => g[m] = h[m]}
<1>1. 0 \in Q
  BY DEF RecursUpTo
<1>2. ASSUME NEW m \in Nat, m \in Q PROVE m + 1 \in Q
  <2> SUFFICES ASSUME m + 1 <= n PROVE g[m + 1] = h[m + 1]
    OBVIOUS
  <2>1. g[m] = h[m] /\ m + 1 \in Nat /\ m + 1 # 0 /\ (m + 1) - 1 = m
    BY <1>2
  <2>2. g[m + 1] = 10 * g[m] /\ h[m + 1] = 10 * h[m]
    BY <2>1 DEF RecursUpTo
  <2> QED
    BY <2>1, <2>2
<1>3. Nat \subseteq Q
  <2> HIDE DEF Q
  <2> QED
    BY <1>1, <1>2, NatStep
<1> QED
  BY <1>3

\* For every n there is one, with positive values.
LEMMA PowersUpTo ==
    \A n \in Nat : \E g \in [Nat -> Nat \ {0}] : RecursUpTo(g, n)
<1> DEFINE N == {n \in Nat : \E g \in [Nat -> Nat \ {0}] : RecursUpTo(g, n)}
<1>1. 0 \in N
  <2> DEFINE g == [m \in Nat |-> 1]
  <2>1. g \in [Nat -> Nat \ {0}] /\ RecursUpTo(g, 0)
    BY DEF RecursUpTo
  <2> QED
    BY <2>1
<1>2. ASSUME NEW n \in Nat, n \in N PROVE n + 1 \in N
  <2>1. PICK g \in [Nat -> Nat \ {0}] : RecursUpTo(g, n)
    BY <1>2
  <2> DEFINE h == [m \in Nat |-> IF m = 0 THEN 1 ELSE 10 * g[m - 1]]
  <2>2. h \in [Nat -> Nat \ {0}]
    OBVIOUS
  <2>3. ASSUME NEW m \in Nat, m <= n + 1
        PROVE  h[m] = IF m = 0 THEN 1 ELSE 10 * h[m - 1]
    <3>1. CASE m = 0
      BY <3>1
    <3>2. CASE m # 0
      <4>1. m - 1 \in Nat /\ m - 1 <= n
        BY <2>3, <3>2
      <4>2. h[m - 1] = g[m - 1]
        BY <2>1, <4>1 DEF RecursUpTo
      <4> QED
        BY <3>2, <4>2
    <3> QED
      BY <3>1, <3>2
  <2>4. RecursUpTo(h, n + 1)
    BY <2>3 DEF RecursUpTo
  <2> HIDE DEF h
  <2> QED
    BY <2>2, <2>4
<1>3. Nat \subseteq N
  <2> HIDE DEF N
  <2> QED
    BY <1>1, <1>2, NatStep
<1> QED
  BY <1>3

\* The recursive function exists, so it satisfies its equation.
LEMMA TenToUnfolds ==
    /\ TenTo \in [Nat -> Nat \ {0}]
    /\ TenTo[0] = 1
    /\ \A n \in Nat : TenTo[n + 1] = 10 * TenTo[n]
<1> DEFINE G(n) == CHOOSE g \in [Nat -> Nat \ {0}] : RecursUpTo(g, n)
           h == [n \in Nat |-> G(n)[n]]
<1>1. \A n \in Nat : G(n) \in [Nat -> Nat \ {0}] /\ RecursUpTo(G(n), n)
  BY PowersUpTo
<1> HIDE DEF G
<1>2. h \in [Nat -> Nat \ {0}]
  BY <1>1
<1>3. h[0] = 1
  <2>1. RecursUpTo(G(0), 0) /\ h[0] = G(0)[0]
    BY <1>1
  <2> HIDE DEF h
  <2> QED
    BY <2>1 DEF RecursUpTo
<1>4. ASSUME NEW n \in Nat PROVE h[n + 1] = 10 * h[n]
  <2>1. RecursUpTo(G(n), n) /\ RecursUpTo(G(n + 1), n + 1) /\ n + 1 \in Nat
    BY <1>1
  <2>2. RecursUpTo(G(n + 1), n) /\ G(n + 1)[n + 1] = 10 * G(n + 1)[n]
    BY <2>1 DEF RecursUpTo
  <2>3. G(n + 1)[n] = G(n)[n]
    BY <2>1, <2>2, PowersAgree
  <2> QED
    BY <2>1, <2>2, <2>3
<1>5. \A n \in Nat : h[n] = IF n = 0 THEN 1 ELSE 10 * h[n - 1]
  <2> SUFFICES ASSUME NEW n \in Nat PROVE h[n] = IF n = 0 THEN 1 ELSE 10 * h[n - 1]
    OBVIOUS
  <2> HIDE DEF h
  <2>1. CASE n = 0
    BY <1>3, <2>1
  <2>2. CASE n # 0
    <3>1. n - 1 \in Nat /\ (n - 1) + 1 = n
      BY <2>2
    <3> QED
      BY <1>4, <2>2, <3>1
  <2> QED
    BY <2>1, <2>2
<1>6. h = [n \in Nat |-> IF n = 0 THEN 1 ELSE 10 * h[n - 1]]
  <2> HIDE DEF h
  <2> QED
    BY <1>2, <1>5
<1>7. TenTo = [n \in Nat |-> IF n = 0 THEN 1 ELSE 10 * TenTo[n - 1]]
  <2> HIDE DEF h
  <2> QED
    BY <1>6 DEF TenTo
<1>8. /\ RecursUpTo(TenTo, 0) /\ \A n \in Nat : RecursUpTo(TenTo, n) /\ RecursUpTo(h, n)
  <2> HIDE DEF h
  <2>1. \A n \in Nat : TenTo[n] = IF n = 0 THEN 1 ELSE 10 * TenTo[n - 1]
    BY <1>7
  <2> QED
    BY <1>5, <2>1 DEF RecursUpTo
<1>9. TenTo = h
  <2>1. \A n \in Nat : TenTo[n] = h[n]
    <3> HIDE DEF h
    <3> QED
      BY <1>8, PowersAgree
  <2>2. TenTo = [n \in Nat |-> TenTo[n]]
    BY <1>7
  <2> HIDE DEF h
  <2>3. h = [n \in Nat |-> h[n]]
    BY <1>2
  <2> QED
    BY <2>1, <2>2, <2>3
<1> QED
  <2> HIDE DEF h
  <2> QED
    BY <1>2, <1>3, <1>4, <1>9

\* Exponents add up.
LEMMA TenToAdds ==
    ASSUME NEW m \in Nat, NEW n \in Nat
    PROVE  TenTo[m + n] = TenTo[m] * TenTo[n]
<1> DEFINE Q == {k \in Nat : TenTo[m + k] = TenTo[m] * TenTo[k]}
<1>0. \A k \in Nat : TenTo[k] \in Nat
  BY TenToUnfolds
<1>1. 0 \in Q
  <2>1. TenTo[m] \in Nat /\ TenTo[0] = 1 /\ m + 0 = m
    BY <1>0, TenToUnfolds
  <2> QED
    BY <2>1
<1>2. ASSUME NEW k \in Nat, k \in Q PROVE k + 1 \in Q
  <2> DEFINE a == TenTo[m]
             b == TenTo[k]
  <2>1. a \in Nat /\ b \in Nat /\ TenTo[m + k] = a * b
    BY <1>0, <1>2
  <2>2. TenTo[m + (k + 1)] = 10 * TenTo[m + k] /\ TenTo[k + 1] = 10 * b
    <3>1. m + k \in Nat /\ m + (k + 1) = (m + k) + 1
      OBVIOUS
    <3> QED
      BY <3>1, TenToUnfolds
  <2> HIDE DEF a, b
  <2>3. 10 * (a * b) = a * (10 * b)
    BY <2>1
  <2>4. TenTo[m + (k + 1)] = a * TenTo[k + 1]
    BY <2>1, <2>2, <2>3
  <2> QED
    BY <2>4 DEF a
<1>3. Nat \subseteq Q
  <2> HIDE DEF Q
  <2> QED
    BY <1>1, <1>2, NatStep
<1> QED
  BY <1>3

-----------------------------------------------------------------------------
(* Decimals. What the SDK writes and what the Node reads are the same base  *)
(* units, however many trailing zeros are dropped or put back on the way.   *)

Decimal == [units : Nat, places : Nat]

\* a product divided by a factor
LEMMA ProductDivides ==
    ASSUME NEW a \in Nat, NEW n \in Nat \ {0}
    PROVE  (a * n) \div n = a /\ (a * n) % n = 0
<1>1. (a * n) \div n = a
  OBVIOUS
<1>2. (a * n) % n = 0
  OBVIOUS
<1> QED
  BY <1>1, <1>2

\* an exact quotient times the divisor
LEMMA QuotientIsExact ==
    ASSUME NEW a \in Nat, NEW n \in Nat \ {0}, a % n = 0
    PROVE  a \div n \in Nat /\ (a \div n) * n = a
  OBVIOUS

\* a power of ten is a positive number and a product of any two that add up
LEMMA TenToSplits ==
    ASSUME NEW m \in Nat, NEW n \in Nat, m <= n
    PROVE  /\ TenTo[m] \in Nat \ {0} /\ TenTo[n] \in Nat \ {0} /\ TenTo[n - m] \in Nat \ {0}
           /\ TenTo[n] = TenTo[n - m] * TenTo[m]
<1>1. n - m \in Nat /\ (n - m) + m = n
  OBVIOUS
<1> QED
  BY <1>1, TenToUnfolds, TenToAdds

\* Reduced keeps the value
LEMMA ReducedKeeps ==
    ASSUME NEW x \in Decimal
    PROVE  /\ Reduced(x) \in Decimal /\ Reduced(x).places <= x.places
           /\ x.units = Reduced(x).units * TenTo[x.places - Reduced(x).places]
<1> DEFINE S == {q \in 0 .. x.places : x.units % TenTo[x.places - q] = 0}
           p == Min(S)
           t == TenTo[x.places - p]
<1>0. x.units \in Nat /\ x.places \in Nat
  BY DEF Decimal
<1>1. x.places \in S
  <2>1. x.places - x.places = 0 /\ x.places \in 0 .. x.places /\ TenTo[0] = 1
    BY <1>0, TenToUnfolds
  <2>2. x.units % 1 = 0
    BY <1>0
  <2> QED
    BY <2>1, <2>2
<1>2. p \in S
  <2>1. S \in SUBSET (0 .. x.places)
    OBVIOUS
  <2> HIDE DEF S
  <2> QED
    BY <1>0, <1>1, <2>1, LeastExists DEF Min
<1>3. p \in Nat /\ p <= x.places /\ x.units % t = 0 /\ t \in Nat \ {0}
  <2> HIDE DEF p
  <2>1. p \in 0 .. x.places /\ x.units % TenTo[x.places - p] = 0
    BY <1>2
  <2>2. p \in Nat /\ p <= x.places /\ x.places - p \in Nat
    BY <1>0, <2>1
  <2> QED
    BY <2>1, <2>2, TenToUnfolds
<1>4. Reduced(x) = [units |-> x.units \div t, places |-> p]
  BY DEF Reduced
<1> HIDE DEF S, p, t
<1>5. x.units \div t \in Nat /\ (x.units \div t) * t = x.units
  BY <1>0, <1>3, QuotientIsExact
<1>6. Reduced(x).units = x.units \div t /\ Reduced(x).places = p /\ Reduced(x) \in Decimal
  BY <1>3, <1>4, <1>5 DEF Decimal
<1>7. TenTo[x.places - Reduced(x).places] = t
  BY <1>6 DEF t
<1> QED
  BY <1>3, <1>5, <1>6, <1>7

\* Number(text) is a decimal
LEMMA NumberIsDecimal ==
    ASSUME NEW x \in Decimal PROVE ToNumber(x) \in Decimal
<1> DEFINE r == Reduced(x)
           y == [r EXCEPT !.units = (@ \div 10) * 10]
<1>1. r \in Decimal
  BY ReducedKeeps
<1>2. y \in Decimal
  <2> HIDE DEF r
  <2>1. r.units \in Nat /\ r.places \in Nat
    BY <1>1 DEF Decimal
  <2>2. (r.units \div 10) * 10 \in Nat
    BY <2>1
  <2> QED
    BY <1>1, <2>2 DEF Decimal
<1>3. Reduced(y) \in Decimal
  <2> HIDE DEF y
  <2> QED
    BY <1>2, ReducedKeeps
<1> QED
  BY <1>1, <1>3 DEF ToNumber

\* what parses has its base units, and the Node computes the same
LEMMA NodeReadsBaseUnits ==
    ASSUME NEW d \in Nat, NEW x \in Decimal, Parses(x, d)
    PROVE  BaseUnits(x, d) \in Nat /\ NodeParses(x, d) /\ NodeUnits(x, d) = BaseUnits(x, d)
<1> DEFINE u == x.units
           s == TenTo[d - x.places]
           t == TenTo[x.places]
<1>0. u \in Nat /\ x.places \in Nat /\ x.places <= d
  BY DEF Decimal, Parses
<1>1. t \in Nat \ {0} /\ s \in Nat \ {0} /\ TenTo[d] = s * t
  BY <1>0, TenToSplits
<1>2. BaseUnits(x, d) = u * s
  BY DEF BaseUnits
<1>3. NodeParses(x, d) <=> (u * TenTo[d]) % t = 0
  BY DEF NodeParses
<1>4. NodeUnits(x, d) = (u * TenTo[d]) \div t
  BY DEF NodeUnits
<1> HIDE DEF u, s, t
<1>5. u * s \in Nat /\ u * (s * t) = (u * s) * t
  BY <1>0, <1>1
<1>6. ((u * s) * t) \div t = u * s /\ ((u * s) * t) % t = 0
  BY <1>1, <1>5, ProductDivides
<1> QED
  BY <1>1, <1>2, <1>3, <1>4, <1>5, <1>6

\* formatTokenBaseUnits: the Node reads back what was formatted
LEMMA NodeReadsFormatted ==
    ASSUME NEW d \in Nat, NEW units \in Nat
    PROVE  NodeUnits(Formatted(units, d), d) = units
<1> DEFINE y == [units |-> units, places |-> d]
           r == Reduced(y)
<1>0. y \in Decimal /\ y.units = units /\ y.places = d
  BY DEF Decimal
<1>1. /\ r \in Decimal /\ r.places <= d
      /\ units = r.units * TenTo[d - r.places]
  <2> HIDE DEF y
  <2> QED
    BY <1>0, ReducedKeeps
<1>2. Formatted(units, d) = IF d > 0 /\ r.places = 0
                         THEN [units |-> r.units * 100, places |-> 2] ELSE r
  BY DEF Formatted
<1> HIDE DEF r
<1>3. CASE d > 0 /\ r.places = 0
  <2>1. r.units \in Nat /\ units = r.units * TenTo[d] /\ TenTo[d] \in Nat
    <3>1. r.units \in Nat /\ d - 0 = d
      BY <1>0, <1>1 DEF Decimal
    <3> QED
      BY <1>0, <1>1, <1>3, <3>1, TenToUnfolds
  <2>2. TenTo[2] = 100
    <3>1. TenTo[1] = 10
      BY TenToUnfolds
    <3> QED
      BY <3>1, TenToUnfolds
  <2>3. NodeUnits(Formatted(units, d), d) = (r.units * 100 * TenTo[d]) \div 100
    BY <1>2, <1>3, <2>2 DEF NodeUnits
  <2> DEFINE a == r.units
             t == TenTo[d]
  <2>4. a \in Nat /\ t \in Nat /\ units = a * t
    BY <2>1
  <2>5. NodeUnits(Formatted(units, d), d) = (a * 100 * t) \div 100
    BY <2>3
  <2> HIDE DEF a, t
  <2>6. a * t \in Nat /\ a * 100 * t = (a * t) * 100
    BY <2>4
  <2>7. ((a * t) * 100) \div 100 = a * t
    BY <2>6, ProductDivides
  <2> QED
    BY <2>4, <2>5, <2>6, <2>7
<1>4. CASE ~ (d > 0 /\ r.places = 0)
  <2>1. Formatted(units, d) = r
    BY <1>2, <1>4
  <2>2. Parses(r, d) /\ BaseUnits(r, d) = units
    BY <1>1 DEF Parses, BaseUnits
  <2>3. NodeUnits(r, d) = BaseUnits(r, d)
    BY <1>1, <2>2, NodeReadsBaseUnits
  <2> QED
    BY <2>1, <2>2, <2>3
<1> QED
  BY <1>3, <1>4

-----------------------------------------------------------------------------
(* A wallet's amounts. The SDK refuses a request whose numbers do not stand *)
(* for the signed amounts (Represents); nothing signs an authorization      *)
(* again, so that stays true of every work posted for a wallet, and the     *)
(* Node's two comparisons of amounts cannot fail for it.                    *)

QuoteFields == {"pc", "startedAt", "margin", "fee"}

\* margins are numbers and fees are decimals, wherever they come from
QuotesTyped ==
    /\ payChain.margin \in Nat /\ DOMAIN payChain = {"margin", "active", "name"}
    /\ feeCache # NoPayment => feeCache.value \in Nat
    /\ DOMAIN quotes = Signer
    /\ \A p \in Signer : /\ DOMAIN quotes[p] = QuoteFields
                         /\ quotes[p].margin \in Nat
                         /\ quotes[p].pc = "quoted" => quotes[p].fee \in Decimal

\* an authorization is signed once, for amounts that are decimals
AuthorizationsTyped ==
    /\ DOMAIN payAuths = Signer
    /\ \A a \in Signer : payAuths[a] # NoPayment =>
          /\ quotes[a].pc = "signed"
          /\ payAuths[a].amount \in Decimal /\ payAuths[a].fee \in Decimal

\* the request of a wallet's work represents what was signed
WalletWorksRepresent ==
    \A p \in Payment : works[p].path = "wallet" =>
        /\ works[p].status # "NONE"
        /\ works[p].auth \in Signer /\ payAuths[works[p].auth] # NoPayment
        /\ WalletRequest(works[p].auth)

\* an instance that rejects amounts does not verify a wallet's work
AmountRejections ==
    \A n \in Verifier :
        verifiers[n].pc # "idle" /\ verifiers[n].reason \in {"amount", "deposit"} =>
            works[verifiers[n].work].path # "wallet"

ExactInv == /\ QuotesTyped /\ AuthorizationsTyped /\ WalletWorksRepresent
            /\ AmountRejections /\ WalletRequestsAreExact

\* a number that represents an amount is read by the Node as the amount's own
\* base units, and so is the signed text
LEMMA RepresentedIsRead ==
    ASSUME NEW x \in Decimal, Represents(x)
    PROVE  /\ NodeParses(ToNumber(x), TokenDecimals)
           /\ NodeUnits(ToNumber(x), TokenDecimals) = BaseUnits(x, TokenDecimals)
           /\ NodeUnits(SignedUnits(x, TokenDecimals), TokenDecimals) = BaseUnits(x, TokenDecimals)
<1> DEFINE n == ToNumber(x)
           d == TokenDecimals
<1>0. d \in Nat
  BY PaymentAssumption
<1>1. n \in Decimal
  BY NumberIsDecimal
<1>2. Parses(x, d) /\ Parses(n, d) /\ BaseUnits(n, d) = BaseUnits(x, d)
  BY DEF Represents
<1> HIDE DEF n, d
<1>3. NodeParses(n, d) /\ NodeUnits(n, d) = BaseUnits(n, d)
  BY <1>0, <1>1, <1>2, NodeReadsBaseUnits
<1>4. BaseUnits(x, d) \in Nat
  BY <1>0, <1>2, NodeReadsBaseUnits
<1>5. NodeUnits(SignedUnits(x, d), d) = BaseUnits(x, d)
  BY <1>0, <1>4, NodeReadsFormatted DEF SignedUnits
<1> QED
  BY <1>2, <1>3, <1>5 DEF n, d

\* the Node's two comparisons hold for a wallet's work
LEMMA WalletAmountsAgree ==
    ASSUME ExactInv, NEW n \in Verifier, verifiers[n].work \in Payment,
           works[verifiers[n].work].path = "wallet"
    PROVE  AmountsAgree(AuthOf(n)) /\ DepositAgrees(n)
<1> DEFINE auth == AuthOf(n)
           d == TokenDecimals
<1>1. /\ auth.amount \in Decimal /\ Represents(auth.amount)
      /\ auth.fee \in Decimal /\ Represents(auth.fee) /\ ~ auth.routed
  BY DEF ExactInv, AuthorizationsTyped, WalletWorksRepresent, WalletRequest, NumbersRepresent, AuthOf
<1> HIDE DEF auth
<1>2. /\ NodeParses(ToNumber(auth.amount), d)
      /\ NodeUnits(ToNumber(auth.amount), d) = BaseUnits(auth.amount, d)
      /\ NodeUnits(SignedUnits(auth.amount, d), d) = BaseUnits(auth.amount, d)
  BY <1>1, RepresentedIsRead
<1>3. /\ NodeParses(ToNumber(auth.fee), d)
      /\ NodeUnits(ToNumber(auth.fee), d) = BaseUnits(auth.fee, d)
      /\ NodeUnits(SignedUnits(auth.fee, d), d) = BaseUnits(auth.fee, d)
  BY <1>1, RepresentedIsRead
<1>4. DecimalsOf(auth) = d
  BY <1>1 DEF DecimalsOf
<1>5. AmountsAgree(auth)
  <2> HIDE DEF d
  <2> QED
    BY <1>2, <1>3, <1>4 DEF AmountsAgree
<1>6. Deposited(auth) = ExpectedDeposit(auth)
  BY <1>1, <1>2, <1>4 DEF Deposited, ExpectedDeposit
<1> QED
  BY <1>5, <1>6 DEF auth, DepositAgrees

\* the smaller of two numbers
LEMMA MinOfTwo ==
    ASSUME NEW a \in Nat, NEW b \in Nat PROVE Min({a, b}) \in Nat
<1>1. \E m \in {a, b} : \A k \in {a, b} : m <= k
  OBVIOUS
<1> QED
  BY <1>1 DEF Min

\* quoteTransferFeeUiAmount returns a decimal
LEMMA FeeIsDecimal ==
    ASSUME NEW net \in NetworkFee, NEW margin \in Nat
    PROVE  ToNumber(TransferFee(net, margin)) \in Decimal
<1> DEFINE part == (net * margin + 99) \div 100
           covered == net + Min({part, MarginCap})
<1>0. net \in Nat /\ MarginCap \in Nat /\ FeeCap \in Nat /\ TokenDecimals \in Nat
  BY PaymentAssumption DEF NetworkFee
<1>1. part \in Nat
  <2>1. net * margin \in Nat
    BY <1>0
  <2> DEFINE a == net * margin
  <2> HIDE DEF a
  <2>2. (a + 99) \div 100 \in Nat
    BY <2>1 DEF a
  <2> QED
    BY <2>2 DEF a
<1> HIDE DEF part
<1>2. covered \in Nat
  BY <1>0, <1>1, MinOfTwo
<1> HIDE DEF covered
<1>3. Min({covered, FeeCap}) \in Nat
  BY <1>0, <1>2, MinOfTwo
<1>4. TransferFee(net, margin) =
         [units |-> IF net = 0 THEN 0 ELSE Min({covered, FeeCap}), places |-> TokenDecimals]
  BY DEF TransferFee, covered, part
<1>5. TransferFee(net, margin) \in Decimal
  BY <1>0, <1>3, <1>4 DEF Decimal
<1> QED
  BY <1>5, NumberIsDecimal

\* a quote has its margin and a decimal fee
LEMMA QuotedIsTyped ==
    ASSUME NEW quote, DOMAIN quote = QuoteFields, NEW margin \in Nat, NEW q \in Quoted(quote, margin)
    PROVE  /\ DOMAIN q = QuoteFields /\ q.margin = margin /\ q.pc = "quoted" /\ q.fee \in Decimal
<1>1. PICK net \in NetworkFee :
         q = [quote EXCEPT !.pc = "quoted", !.margin = margin, !.fee = ToNumber(TransferFee(net, margin))]
  BY DEF Quoted
<1>2. ToNumber(TransferFee(net, margin)) \in Decimal
  BY FeeIsDecimal
<1> QED
  BY <1>1, <1>2 DEF QuoteFields

LEMMA ExactInitially == PayInit => ExactInv
<1> SUFFICES ASSUME PayInit PROVE ExactInv
  OBVIOUS
<1>1. /\ \A p \in Payment : works[p] = NoWork
      /\ \A n \in Verifier : verifiers[n] = Sleeping
      /\ DOMAIN quotes = Signer /\ \A p \in Signer : quotes[p] = NoQuote
      /\ DOMAIN payAuths = Signer /\ \A p \in Signer : payAuths[p] = NoPayment
      /\ feeCache = NoPayment
      /\ payChain.margin \in FeeBps /\ DOMAIN payChain = {"margin", "active", "name"}
  BY DEF PayInit
<1>2. NoWork.path = "none" /\ Sleeping.pc = "idle"
  BY DEF NoWork, Sleeping
<1>3. NoQuote.pc = "idle" /\ DOMAIN NoQuote = QuoteFields /\ NoQuote.margin = 0
  BY DEF NoQuote, QuoteFields
<1>4. payChain.margin \in Nat
  BY <1>1, PaymentAssumption
<1>5. QuotesTyped
  BY <1>1, <1>3, <1>4 DEF QuotesTyped
<1> QED
  BY <1>1, <1>2, <1>5
     DEF ExactInv, AuthorizationsTyped, WalletWorksRepresent, AmountRejections, WalletRequestsAreExact

LEMMA ExactStep == PayInv /\ ExactInv /\ [PayNext]_payVarsAll => ExactInv'
<1> SUFFICES ASSUME PayInv, ExactInv, [PayNext]_payVarsAll PROVE ExactInv'
  OBVIOUS
<1>0. PayShape /\ VerifiersSound
      /\ QuotesTyped /\ AuthorizationsTyped /\ WalletWorksRepresent
      /\ AmountRejections /\ WalletRequestsAreExact
  BY DEF PayInv, ExactInv
\* nothing that is signed is quoted again
<1>1. ASSUME UNCHANGED <<payAuths, works, verifiers>>, QuotesTyped',
             \A a \in Signer : quotes[a].pc = "signed" => quotes'[a].pc = "signed"
      PROVE  ExactInv'
  BY <1>0, <1>1 DEF ExactInv, AuthorizationsTyped, WalletWorksRepresent, WalletRequest,
     NumbersRepresent, AmountRejections, WalletRequestsAreExact
\* a quote that is not signed changes
<1>2. ASSUME NEW p \in Signer, NEW q, quotes' = [quotes EXCEPT ![p] = q],
             quotes[p].pc # "signed", DOMAIN q = QuoteFields, q.margin \in Nat,
             q.pc = "quoted" => q.fee \in Decimal,
             UNCHANGED <<payChain, payAuths, works, verifiers>>,
             feeCache' = feeCache \/ feeCache'.value \in Nat
      PROVE  ExactInv'
  <2>1. /\ DOMAIN quotes' = Signer /\ quotes'[p] = q
        /\ \A a \in Signer : a # p => quotes'[a] = quotes[a]
    BY <1>0, <1>2 DEF QuotesTyped
  <2>2. QuotesTyped'
    BY <1>0, <1>2, <2>1 DEF QuotesTyped
  <2> QED
    BY <1>1, <1>2, <2>1, <2>2
<1>3. CASE UNCHANGED payVarsAll
  BY <1>0, <1>1, <1>3 DEF payVarsAll, QuotesTyped
<1>4. ASSUME NEW p \in Signer, Estimate(p) PROVE ExactInv'
  <2> DEFINE quote == [NoQuote EXCEPT !.pc = "asking", !.startedAt = payClock]
  <2>1. DOMAIN quote = QuoteFields /\ quote.margin = 0 /\ quote.pc = "asking"
    BY DEF NoQuote, QuoteFields
  <2>2. PICK q \in IF CacheIsFresh THEN Quoted(quote, feeCache.value) ELSE {quote} :
           quotes' = [quotes EXCEPT ![p] = q]
    BY <1>4 DEF Estimate
  <2> HIDE DEF quote
  <2>3. DOMAIN q = QuoteFields /\ q.margin \in Nat /\ (q.pc = "quoted" => q.fee \in Decimal)
    <3>1. CASE CacheIsFresh
      <4>1. feeCache.value \in Nat
        BY <1>0, <3>1 DEF CacheIsFresh, QuotesTyped
      <4> QED
        BY <2>1, <2>2, <3>1, <4>1, QuotedIsTyped
    <3>2. CASE ~ CacheIsFresh
      BY <2>1, <2>2, <3>2
    <3> QED
      BY <3>1, <3>2
  <2>4. quotes[p].pc # "signed" /\ UNCHANGED <<payChain, payAuths, works, verifiers, feeCache>>
    BY <1>4 DEF Estimate
  <2> QED
    BY <1>2, <2>2, <2>3, <2>4
<1>5. ASSUME NEW p \in Signer, ServeConfig(p) PROVE ExactInv'
  <2> DEFINE q == [quotes[p] EXCEPT !.pc = "served", !.margin = payChain.margin]
  <2>1. quotes' = [quotes EXCEPT ![p] = q]
    BY <1>0, <1>5 DEF ServeConfig, QuotesTyped, QuoteFields
  <2>2. DOMAIN q = QuoteFields /\ q.margin = payChain.margin /\ q.pc = "served"
    BY <1>0 DEF QuotesTyped, QuoteFields
  <2> HIDE DEF q
  <2>3. /\ quotes[p].pc # "signed" /\ payChain.margin \in Nat
        /\ UNCHANGED <<payChain, payAuths, works, verifiers, feeCache>>
    BY <1>0, <1>5 DEF ServeConfig, QuotesTyped
  <2> QED
    BY <1>2, <2>1, <2>2, <2>3
<1>6. ASSUME NEW p \in Signer, ReadConfig(p) PROVE ExactInv'
  <2>1. PICK q \in Quoted(quotes[p], quotes[p].margin) : quotes' = [quotes EXCEPT ![p] = q]
    BY <1>6 DEF ReadConfig
  <2>2. /\ quotes[p].pc # "signed" /\ quotes[p].margin \in Nat /\ DOMAIN quotes[p] = QuoteFields
        /\ UNCHANGED <<payChain, payAuths, works, verifiers>>
        /\ feeCache' = feeCache \/ feeCache'.value = quotes[p].margin
    BY <1>0, <1>6 DEF ReadConfig, QuotesTyped
  <2>3. DOMAIN q = QuoteFields /\ q.margin \in Nat /\ (q.pc = "quoted" => q.fee \in Decimal)
    BY <2>1, <2>2, QuotedIsTyped
  <2> QED
    BY <1>2, <2>1, <2>2, <2>3
<1>7. ASSUME NEW p \in Signer, QuoteFails(p) PROVE ExactInv'
  <2>1. NoQuote.pc = "idle" /\ DOMAIN NoQuote = QuoteFields /\ NoQuote.margin = 0
    BY DEF NoQuote, QuoteFields
  <2>2. /\ quotes[p].pc # "signed" /\ quotes' = [quotes EXCEPT ![p] = NoQuote]
        /\ UNCHANGED <<payChain, payAuths, works, verifiers, feeCache>>
    BY <1>7 DEF QuoteFails
  <2>3. NoQuote.margin \in Nat /\ (NoQuote.pc = "quoted" => NoQuote.fee \in Decimal)
    BY <2>1
  <2>4. DOMAIN NoQuote = QuoteFields /\ (feeCache' = feeCache \/ feeCache'.value \in Nat)
    BY <2>1, <2>2
  <2> HIDE DEF NoQuote
  <2> QED
    BY <1>2, <2>2, <2>3, <2>4
<1>8. ASSUME NEW p \in Signer, NEW x \in UiAmount, Sign(p, x) \/ SignRoute(p, x) PROVE ExactInv'
  <2>. PICK routed \in BOOLEAN : Signed(p, x, routed)
    BY <1>8 DEF Sign, SignRoute
  <2> DEFINE auth == Authorization(x, quotes[p].fee, routed)
             q == [NoQuote EXCEPT !.pc = "signed"]
  <2>0. /\ quotes[p].pc = "quoted" /\ payAuths' = [payAuths EXCEPT ![p] = auth]
        /\ quotes' = [quotes EXCEPT ![p] = q]
        /\ UNCHANGED <<payChain, feeCache, works, verifiers>>
    BY DEF Signed
  <2>1. auth.amount = x /\ auth.fee = quotes[p].fee
    BY DEF Authorization
  <2>2. q.pc = "signed" /\ DOMAIN q = QuoteFields /\ q.margin = 0
    BY DEF NoQuote, QuoteFields
  <2> HIDE DEF auth, q
  <2>3. x \in Decimal /\ quotes[p].fee \in Decimal
    BY <1>0, <2>0, PaymentAssumption DEF QuotesTyped, Decimal
  <2>4. /\ DOMAIN quotes' = Signer /\ quotes'[p] = q
        /\ \A a \in Signer : a # p => quotes'[a] = quotes[a]
    BY <1>0, <2>0 DEF QuotesTyped
  <2>5. /\ DOMAIN payAuths' = Signer /\ payAuths'[p] = auth
        /\ \A a \in Signer : a # p => payAuths'[a] = payAuths[a]
    BY <1>0, <2>0 DEF AuthorizationsTyped
  <2>6. QuotesTyped'
    BY <1>0, <2>0, <2>2, <2>4 DEF QuotesTyped
  <2>7. AuthorizationsTyped'
    BY <1>0, <2>1, <2>2, <2>3, <2>4, <2>5 DEF AuthorizationsTyped
  <2>8. payAuths[p] = NoPayment
    BY <1>0, <2>0 DEF AuthorizationsTyped
  <2>9. WalletWorksRepresent'
    BY <1>0, <2>0, <2>5, <2>8 DEF WalletWorksRepresent, WalletRequest, NumbersRepresent
  <2> QED
    BY <1>0, <2>0, <2>6, <2>7, <2>9 DEF ExactInv, AmountRejections, WalletRequestsAreExact
\* the quotes and the authorizations stay
<1>9. ASSUME UNCHANGED <<payChain, feeCache, quotes, payAuths>>
      PROVE  QuotesTyped' /\ AuthorizationsTyped' /\ \A a : WalletRequest(a)' <=> WalletRequest(a)
  BY <1>0, <1>9 DEF QuotesTyped, AuthorizationsTyped, WalletRequest, NumbersRepresent
<1>10. ASSUME NEW p \in Payment, NEW a \in Signer, NEW path, Post(p, a, path) PROVE ExactInv'
  <2>1. /\ \A q \in Payment : q # p => works'[q] = works[q]
        /\ works'[p].status = "RECEIVED" /\ works'[p].path = path /\ works'[p].auth = a
        /\ works'[p].reason = "none"
    BY <1>0, <1>10 DEF Post, PayShape, NoWork
  <2>2. /\ works[p].status = "NONE" /\ payAuths[a] # NoPayment
        /\ path = "wallet" => WalletRequest(a)
        /\ UNCHANGED <<payChain, feeCache, quotes, payAuths, verifiers>>
    BY <1>10 DEF Post
  <2>3. QuotesTyped' /\ AuthorizationsTyped' /\ \A b : WalletRequest(b)' <=> WalletRequest(b)
    BY <1>9, <2>2
  <2>4. WalletWorksRepresent'
    BY <1>0, <2>1, <2>2, <2>3 DEF WalletWorksRepresent
  <2>5. AmountRejections' /\ WalletRequestsAreExact'
    BY <1>0, <2>1, <2>2 DEF AmountRejections, WalletRequestsAreExact, VerifiersSound
  <2> QED
    BY <2>3, <2>4, <2>5 DEF ExactInv
\* the works keep what was requested, and the instances their findings
<1>11. ASSUME UNCHANGED <<payChain, feeCache, quotes, payAuths>>,
              \A p \in Payment :
                 /\ works'[p].path = works[p].path /\ works'[p].auth = works[p].auth
                 /\ works[p].status # "NONE" => works'[p].status # "NONE"
                 /\ works'[p].path = "wallet" => works'[p].reason \notin {"amount", "deposit"},
              \A n \in Verifier :
                 \/ verifiers'[n] = verifiers[n]
                 \/ (verifiers'[n].pc # "idle" /\ verifiers'[n].reason \in {"amount", "deposit"})
                       => (works[verifiers'[n].work].path # "wallet" /\ verifiers'[n].work \in Payment)
       PROVE  ExactInv'
  <2>1. QuotesTyped' /\ AuthorizationsTyped' /\ \A b : WalletRequest(b)' <=> WalletRequest(b)
    BY <1>9, <1>11
  <2>2. WalletWorksRepresent'
    BY <1>0, <1>11, <2>1 DEF WalletWorksRepresent
  <2>3. AmountRejections' /\ WalletRequestsAreExact'
    BY <1>0, <1>11 DEF AmountRejections, WalletRequestsAreExact, VerifiersSound
  <2> QED
    BY <2>1, <2>2, <2>3 DEF ExactInv
<1>12. ASSUME NEW n \in Verifier, NEW p \in Payment, Lease(n, p) PROVE ExactInv'
  <2>1. /\ \A q \in Payment : q # p => works'[q] = works[q]
        /\ works'[p].status = "NODE_LEASED" /\ works'[p].auth = works[p].auth
        /\ works'[p].path = works[p].path /\ works'[p].reason = works[p].reason
    BY <1>0, <1>12 DEF Lease, PayShape, WorkFields
  <2>2. /\ \A m \in Verifier : m # n => verifiers'[m] = verifiers[m]
        /\ verifiers'[n].reason = "none"
        /\ UNCHANGED <<payChain, feeCache, quotes, payAuths>>
    BY <1>0, <1>12 DEF Lease, PayShape
  <2> QED
    BY <1>0, <1>11, <2>1, <2>2 DEF WalletRequestsAreExact
\* an instance goes on or rejects; for amounts, no wallet's work
<1>13. ASSUME NEW n \in Verifier, verifiers[n].pc # "idle",
              UNCHANGED <<payChain, feeCache, quotes, payAuths, works>>,
              \/ \E pc : Proceeds(n, pc)
              \/ \E reason : /\ Rejects(n, reason)
                             /\ reason \in {"amount", "deposit"} =>
                                   works[verifiers[n].work].path # "wallet"
       PROVE  ExactInv'
  <2>0. verifiers[n].work \in Payment
    BY <1>0, <1>13 DEF VerifiersSound
  <2>1. CASE \E pc : Proceeds(n, pc)
    <3>1. PICK pc : Proceeds(n, pc)
      BY <2>1
    <3>2. /\ \A m \in Verifier : m # n => verifiers'[m] = verifiers[m]
          /\ verifiers'[n].work = verifiers[n].work /\ verifiers'[n].reason = verifiers[n].reason
      BY <1>0, <3>1 DEF Proceeds, PayShape, VerifierFields
    <3> QED
      BY <1>0, <1>11, <1>13, <2>0, <3>2 DEF WalletRequestsAreExact, AmountRejections
  <2>2. CASE \E reason : /\ Rejects(n, reason)
                         /\ reason \in {"amount", "deposit"} =>
                               works[verifiers[n].work].path # "wallet"
    <3>1. PICK reason : /\ Rejects(n, reason)
                        /\ reason \in {"amount", "deposit"} =>
                              works[verifiers[n].work].path # "wallet"
      BY <2>2
    <3>2. /\ \A m \in Verifier : m # n => verifiers'[m] = verifiers[m]
          /\ verifiers'[n].work = verifiers[n].work /\ verifiers'[n].reason = reason
      BY <1>0, <3>1 DEF Rejects, PayShape, VerifierFields
    <3> QED
      BY <1>0, <1>11, <1>13, <2>0, <3>1, <3>2 DEF WalletRequestsAreExact
  <2> QED
    BY <1>13, <2>1, <2>2
<1>14. ASSUME NEW n \in Verifier, verifiers[n].pc # "idle"
       PROVE  works[verifiers[n].work].path = "wallet" => AmountsAgree(AuthOf(n)) /\ DepositAgrees(n)
  BY <1>0, <1>14, WalletAmountsAgree DEF VerifiersSound
<1>15. ASSUME NEW n \in Verifier, CheckFields(n) PROVE ExactInv'
  <2>1. verifiers[n].pc # "idle" /\ UNCHANGED <<payChain, feeCache, quotes, payAuths, works>>
    BY <1>15 DEF CheckFields
  <2>2. works[verifiers[n].work].path = "wallet" => AmountsAgree(AuthOf(n))
    BY <1>14, <2>1
  <2>3. CASE ~ AmountsAgree(AuthOf(n)) /\ Rejects(n, "amount")
    BY <1>13, <2>1, <2>2, <2>3
  <2>4. CASE \/ Rejects(n, "asset") \/ Rejects(n, "expired") \/ Rejects(n, "intent")
            \/ Proceeds(n, "identity")
    BY <1>13, <2>1, <2>4
  <2> QED
    BY <1>15, <2>3, <2>4 DEF CheckFields
<1>16. ASSUME NEW n \in Verifier, CheckIdentity(n) PROVE ExactInv'
  <2>1. verifiers[n].pc # "idle" /\ UNCHANGED <<payChain, feeCache, quotes, payAuths, works>>
    BY <1>16 DEF CheckIdentity
  <2>2. Proceeds(n, "nonce") \/ Rejects(n, "name")
    BY <1>16 DEF CheckIdentity
  <2> QED
    BY <1>13, <2>1, <2>2
<1>17. ASSUME NEW n \in Verifier, ConsumePaymentNonce(n) PROVE ExactInv'
  <2>1. verifiers[n].pc # "idle" /\ UNCHANGED <<payChain, feeCache, quotes, payAuths, works>>
    BY <1>17 DEF ConsumePaymentNonce
  <2>2. Proceeds(n, "deposit") \/ Rejects(n, "nonce")
    BY <1>17 DEF ConsumePaymentNonce
  <2> QED
    BY <1>13, <2>1, <2>2
<1>18. ASSUME NEW n \in Verifier, CheckDeposit(n) PROVE ExactInv'
  <2>1. verifiers[n].pc # "idle" /\ UNCHANGED <<payChain, feeCache, quotes, payAuths, works>>
    BY <1>18 DEF CheckDeposit
  <2>2. works[verifiers[n].work].path = "wallet" => DepositAgrees(n)
    BY <1>14, <2>1
  <2>3. CASE ~ DepositAgrees(n) /\ Rejects(n, "deposit")
    BY <1>13, <2>1, <2>2, <2>3
  <2>4. CASE Rejects(n, "route") \/ Rejects(n, "simulation") \/ Proceeds(n, "done")
    BY <1>13, <2>1, <2>4
  <2> QED
    BY <1>18, <2>3, <2>4 DEF CheckDeposit
<1>19. ASSUME NEW n \in Verifier, VerifierFails(n) PROVE ExactInv'
  <2>1. /\ verifiers[n].pc # "idle" /\ UNCHANGED <<payChain, feeCache, quotes, payAuths, works>>
        /\ Rejects(n, "failed")
    BY <1>19 DEF VerifierFails
  <2> QED
    BY <1>13, <2>1
\* an instance that sleeps has found nothing
<1>20. ASSUME NEW n \in Verifier, verifiers' = [verifiers EXCEPT ![n] = Sleeping]
       PROVE  /\ \A m \in Verifier : m # n => verifiers'[m] = verifiers[m]
              /\ verifiers'[n].pc = "idle"
  BY <1>0, <1>20 DEF PayShape, Sleeping
<1>21. ASSUME NEW n \in Verifier, VerifierStops(n) PROVE ExactInv'
  <2>1. /\ UNCHANGED <<payChain, feeCache, quotes, payAuths, works>>
        /\ verifiers' = [verifiers EXCEPT ![n] = Sleeping]
    BY <1>21 DEF VerifierStops
  <2> QED
    BY <1>0, <1>11, <1>20, <2>1 DEF WalletRequestsAreExact
<1>22. ASSUME NEW n \in Verifier, Answer(n) PROVE ExactInv'
  <2> DEFINE p == verifiers[n].work
             work == Completed(works[p], verifiers[n].reason)
  <2>0. /\ verifiers[n].pc = "done" /\ p \in Payment /\ works[p].status # "NONE"
        /\ UNCHANGED <<payChain, feeCache, quotes, payAuths>>
        /\ verifiers' = [verifiers EXCEPT ![n] = Sleeping]
    BY <1>0, <1>22 DEF Answer, VerifiersSound
  <2>1. CASE works' = works
    BY <1>0, <1>11, <1>20, <2>0, <2>1 DEF WalletRequestsAreExact
  <2>2. CASE works' = [works EXCEPT ![p] = Completed(@, verifiers[n].reason)]
    <3>1. /\ \A q \in Payment : q # p => works'[q] = works[q]
          /\ works'[p] = work
      BY <1>0, <2>0, <2>2 DEF PayShape
    <3>2. /\ work.path = works[p].path /\ work.auth = works[p].auth /\ work.status # "NONE"
          /\ work.reason = IF verifiers[n].reason # "none" THEN verifiers[n].reason ELSE works[p].reason
      <4> DEFINE w == works[p]
                 reason == verifiers[n].reason
      <4>1. DOMAIN w = WorkFields
        BY <1>0, <2>0 DEF PayShape
      <4> HIDE DEF w, reason
      <4>2. /\ Completed(w, reason).path = w.path /\ Completed(w, reason).auth = w.auth
            /\ Completed(w, reason).status # "NONE"
            /\ Completed(w, reason).reason = IF reason # "none" THEN reason ELSE w.reason
        BY <4>1 DEF Completed, WorkFields
      <4> QED
        BY <4>2 DEF w, reason
    <3> HIDE DEF work
    <3>3. work.path = "wallet" => work.reason \notin {"amount", "deposit"}
      BY <1>0, <2>0, <3>2 DEF WalletRequestsAreExact, AmountRejections
    <3> QED
      BY <1>0, <1>11, <1>20, <2>0, <3>1, <3>2, <3>3 DEF WalletRequestsAreExact
  <2> QED
    BY <1>22, <2>1, <2>2 DEF Answer
<1>23. CASE ChainChanges
  <2>1. UNCHANGED <<feeCache, quotes, payAuths, works, verifiers>>
    BY <1>23 DEF ChainChanges
  <2>2. payChain'.margin \in Nat /\ DOMAIN payChain' = {"margin", "active", "name"}
    <3>1. CASE \E m \in (FeeBps \cup {DefaultMargin}) \ {payChain.margin} :
                   payChain' = [payChain EXCEPT !.margin = m]
      BY <1>0, <3>1, PaymentAssumption DEF QuotesTyped
    <3>2. CASE payChain' = [payChain EXCEPT !.active = ~@]
      BY <1>0, <3>2 DEF QuotesTyped
    <3>3. CASE payChain' = [payChain EXCEPT !.name = 1 - @]
      BY <1>0, <3>3 DEF QuotesTyped
    <3> QED
      BY <1>23, <3>1, <3>2, <3>3 DEF ChainChanges
  <2>3. QuotesTyped'
    BY <1>0, <2>1, <2>2 DEF QuotesTyped
  <2> QED
    BY <1>1, <2>1, <2>3
<1>24. CASE PayTick
  BY <1>0, <1>1, <1>24 DEF PayTick, QuotesTyped
<1> QED
  BY <1>3, <1>4, <1>5, <1>6, <1>7, <1>8, <1>10, <1>12, <1>15, <1>16, <1>17, <1>18, <1>19,
     <1>21, <1>22, <1>23, <1>24 DEF PayNext

\* A request the SDK builds for a wallet's payment on this chain is never
\* rejected for its amounts or its deposit:
\* what passes the SDK's check of its own numbers (buildPaymentAuthorization-
\* IntentRequest) gives the Node's ui_amount_to_base_units the base units that
\* the message and the deposit were signed for.
THEOREM WalletRequestsAreAlwaysExact == PaySpec => []WalletRequestsAreExact
<1>1. PaySpec => []ExactInv
  BY ExactInitially, ExactStep, PaySound, PTL DEF PaySpec
<1>2. ExactInv => WalletRequestsAreExact
  BY DEF ExactInv
<1> QED
  BY <1>1, <1>2, PTL

\* Whatever amount parses, the text the SDK signs for it (parseTokenAmountTo-
\* BaseUnits, then formatTokenBaseUnits, which drops trailing zeros and puts
\* two back) is read by the Node's ui_amount_to_base_units as the same base
\* units, for any number of decimals.
THEOREM SignedTextIsExact ==
    \A d \in Nat, x \in Decimal :
        Parses(x, d) => NodeUnits(SignedUnits(x, d), d) = BaseUnits(x, d)
  BY NodeReadsBaseUnits, NodeReadsFormatted DEF SignedUnits

-----------------------------------------------------------------------------
(* The creation of a TIN. Every transaction of a daemon is about an intent  *)
(* that was signed. Whatever a stage holds, create_tin_v1 takes only what   *)
(* its owner signed, so a registered TIN, its owner's recovery record and   *)
(* its route leaf come from one attempt; they stay, since the program       *)
(* refuses an owner who has a recovery record, and all attempts for a TIN   *)
(* are of the wallet it was issued to.                                      *)

CrankFields == {"pc", "intent", "lease", "at", "sent"}

\* an attempt as the client prepares it
Attempt(i, t, name, expiry, large) ==
    [owner |-> IssuedTo[t], lookup |-> t, key |-> i, intentHash |-> IntentHash(i),
     identity |-> IdentityEnvelope(t, name), recovery |-> RecoveryEnvelope(IssuedTo[t], t, name),
     seed |-> SeedEnvelope(IssuedTo[t], name, i), expiry |-> expiry, large |-> large]

AttemptRecords ==
    {Attempt(i, t, name, expiry, large) :
        i \in Nat, t \in Tin, name \in DisplayName, expiry \in Nat, large \in BOOLEAN}

\* what the intents and the program's accounts are made of
TinShape ==
    /\ tinClock \in Nat
    /\ attempts \in Seq(AttemptRecords) /\ \A i \in DOMAIN attempts : attempts[i].key = i
    /\ routes \in Seq(Tin \X Nat)
    /\ DOMAIN registry = Tin /\ DOMAIN recovery = TinOwner
    /\ DOMAIN crank = TinCranker /\ \A c \in TinCranker : DOMAIN crank[c] = CrankFields

\* a transaction is about a signed intent
TinTxSound(x) == x.intent \in DOMAIN attempts

TinTxsSound == \A x \in tinTx : TinTxSound(x)

\* a daemon is at a step of the plan of the intent it holds
CranksSound ==
    \A c \in TinCranker :
        /\ crank[c].pc \in {"send", "await"} =>
              /\ crank[c].intent \in DOMAIN attempts
              /\ crank[c].at \in 1 .. Len(Plan(crank[c].intent))
        /\ crank[c].pc = "await" => crank[c].sent.intent = crank[c].intent

\* the owner of a TIN that has a route leaf has a recovery record
RoutesRecovered == \A m \in DOMAIN routes : recovery[IssuedTo[routes[m][1]]] # NoTin

TinInv == TinShape /\ TinTxsSound /\ CranksSound /\ RegisteredAsSigned /\ RoutesRecovered

LEMMA TinInitially == TinInit => TinInv
<1> SUFFICES ASSUME TinInit PROVE TinInv
  OBVIOUS
<1>1. TinShape
  BY EmptySeq DEF TinInit, TinShape, Resting, CrankFields
<1>2. TinTxsSound /\ CranksSound
  BY DEF TinInit, TinTxsSound, CranksSound, Resting
<1>3. RegisteredAsSigned /\ RoutesRecovered
  BY DEF TinInit, RegisteredAsSigned, RoutesRecovered
<1> QED
  BY <1>1, <1>2, <1>3 DEF TinInv

\* what an attempt is
LEMMA AttemptFacts ==
    ASSUME TinShape, NEW i \in DOMAIN attempts
    PROVE  \E name \in DisplayName : LET a == attempts[i] IN
           /\ i \in Nat
           /\ a.lookup \in Tin /\ a.owner = IssuedTo[a.lookup] /\ a.owner \in TinOwner
           /\ a.key = i /\ a.expiry \in Nat /\ a.large \in BOOLEAN
           /\ a.identity = IdentityEnvelope(a.lookup, name)
           /\ a.recovery = RecoveryEnvelope(a.owner, a.lookup, name)
           /\ a.seed = SeedEnvelope(a.owner, name, i)
<1>1. attempts[i] \in AttemptRecords /\ attempts[i].key = i /\ i \in Nat
  BY DEF TinShape
<1>2. PICK j \in Nat, t \in Tin, name \in DisplayName, expiry \in Nat, large \in BOOLEAN :
         attempts[i] = Attempt(j, t, name, expiry, large)
  BY <1>1 DEF AttemptRecords
<1>3. /\ attempts[i].lookup = t /\ attempts[i].owner = IssuedTo[t] /\ j = i
      /\ attempts[i].expiry = expiry /\ attempts[i].large = large
      /\ attempts[i].identity = IdentityEnvelope(t, name)
      /\ attempts[i].recovery = RecoveryEnvelope(IssuedTo[t], t, name)
      /\ attempts[i].seed = SeedEnvelope(IssuedTo[t], name, j)
  BY <1>1, <1>2 DEF Attempt
<1> QED
  BY <1>1, <1>3, TinAssumption

\* a recovery record is never mistaken for an absent one
LEMMA RecoveryIsPresent ==
    ASSUME TinShape, NEW i \in DOMAIN attempts
    PROVE  attempts[i].recovery # NoTin
<1>1. PICK name \in DisplayName :
         /\ attempts[i].lookup \in Tin /\ attempts[i].owner \in TinOwner
         /\ attempts[i].recovery = RecoveryEnvelope(attempts[i].owner, attempts[i].lookup, name)
  BY AttemptFacts
<1> QED
  BY <1>1, TinAssumption DEF RecoveryEnvelope, RecoveryMessage

\* the transactions a daemon sends
LEMMA TransactionSound ==
    ASSUME TinInv, NEW c \in TinCranker, crank[c].pc = "send"
    PROVE  TinTxSound(Transaction(c)) /\ Transaction(c).intent = crank[c].intent
  BY DEF TinInv, CranksSound, Transaction, TinTxSound

\* what RegisteredAsSigned says of one TIN and one attempt
Holds(t, i) ==
    /\ attempts[i].lookup = t
    /\ registry[t] = RegistryAccount(attempts[i])
    /\ recovery[attempts[i].owner] = attempts[i].recovery
    /\ \E n \in DOMAIN routes :
           /\ routes[n] = RouteLeaf(attempts[i])
           /\ \A m \in DOMAIN routes : routes[m][1] = t => m = n

\* a step that leaves the accounts and the intents alone
LEMMA AccountsKept ==
    ASSUME TinInv, UNCHANGED <<attempts, registry, recovery, routes>>
    PROVE  /\ routes' \in Seq(Tin \X Nat) /\ DOMAIN registry' = Tin /\ DOMAIN recovery' = TinOwner
           /\ RegisteredAsSigned' /\ RoutesRecovered'
  BY DEF TinInv, TinShape, RegisteredAsSigned, RoutesRecovered, RegistryAccount, RouteLeaf

\* an intent is signed: the earlier ones, and all that is about them, stay
LEMMA SubmitTinKeeps ==
    ASSUME TinInv, NEW t \in Tin, NEW name \in DisplayName, NEW large \in BOOLEAN,
           SubmitTin(t, name, large)
    PROVE  TinInv'
<1> DEFINE n == Len(attempts)
           a == Prepared(n + 1, IssuedTo[t], t, name, large)
<1>0. TinShape /\ TinTxsSound /\ CranksSound /\ RegisteredAsSigned /\ RoutesRecovered
  BY DEF TinInv
<1>1. n \in Nat /\ tinClock + Lifetime \in Nat
  BY <1>0, TinAssumption DEF TinShape
<1>2. a = Attempt(n + 1, t, name, tinClock + Lifetime, large)
  BY DEF Prepared, Attempt
<1>3. a \in AttemptRecords
  <2> HIDE DEF a
  <2>1. n + 1 \in Nat
    BY <1>1
  <2> QED
    BY <1>1, <1>2, <2>1 DEF AttemptRecords
<1>4. a.key = n + 1
  BY DEF Prepared
<1>5. /\ attempts' = Append(attempts, a)
      /\ UNCHANGED <<tinClock, registry, recovery, routes, crank, tinTx>>
  BY DEF SubmitTin
<1> HIDE DEF a
<1>6. /\ attempts' \in Seq(AttemptRecords) /\ Len(attempts') = n + 1
      /\ \A i \in 1 .. n : attempts'[i] = attempts[i]
      /\ attempts'[n + 1] = a
  BY <1>0, <1>3, <1>5, AppendProperties DEF TinShape
<1>8. /\ DOMAIN attempts = 1 .. n /\ DOMAIN attempts' = 1 .. n + 1
      /\ \A i \in 1 .. n : i \in 1 .. n + 1
      /\ \A i \in 1 .. n + 1 : i \in 1 .. n \/ i = n + 1
  BY <1>0, <1>1, <1>6 DEF TinShape
<1>9. TinShape'
  <2>1. \A i \in 1 .. n + 1 : attempts'[i].key = i
    BY <1>0, <1>4, <1>6, <1>8 DEF TinShape
  <2> QED
    BY <1>0, <1>5, <1>6, <1>8, <2>1 DEF TinShape
<1>10. TinTxsSound'
  BY <1>0, <1>5, <1>8 DEF TinTxsSound, TinTxSound
<1>11. CranksSound'
  <2> SUFFICES ASSUME NEW c \in TinCranker
               PROVE  /\ crank[c].pc \in {"send", "await"} =>
                            /\ crank[c].intent \in DOMAIN attempts'
                            /\ crank[c].at \in 1 .. Len(Plan(crank[c].intent)')
                      /\ crank[c].pc = "await" => crank[c].sent.intent = crank[c].intent
    BY <1>5 DEF CranksSound
  <2>1. crank[c].intent \in 1 .. n => Plan(crank[c].intent)' = Plan(crank[c].intent)
    BY <1>5, <1>6 DEF Plan, StagedPlan, Terms
  <2> QED
    BY <1>0, <1>8, <2>1 DEF CranksSound
<1>12. RegisteredAsSigned'
  <2> SUFFICES ASSUME NEW r \in Tin, registry[r] # NoTin
               PROVE  \E i \in 1 .. n + 1 : Holds(r, i)'
    BY <1>5, <1>8 DEF RegisteredAsSigned, Holds
  <2>1. PICK i \in 1 .. n : Holds(r, i)
    BY <1>0, <1>8 DEF RegisteredAsSigned, Holds
  <2>2. attempts'[i] = attempts[i] /\ i \in 1 .. n + 1
    BY <1>6, <1>8
  <2> QED
    BY <1>5, <2>1, <2>2 DEF Holds
<1>13. RoutesRecovered'
  BY <1>0, <1>5 DEF RoutesRecovered
<1> QED
  BY <1>9, <1>10, <1>11, <1>12, <1>13 DEF TinInv

\* creating what an owner signed: the new TIN's records come from that intent,
\* and no other TIN loses its own
LEMMA CreatedKeeps ==
    ASSUME TinInv, NEW creation, MayCreate(creation), Created(creation), UNCHANGED attempts
    PROVE  /\ routes' \in Seq(Tin \X Nat) /\ DOMAIN registry' = Tin /\ DOMAIN recovery' = TinOwner
           /\ RegisteredAsSigned' /\ RoutesRecovered'
<1>0. TinShape /\ RegisteredAsSigned /\ RoutesRecovered
  BY DEF TinInv
<1>1. PICK i \in DOMAIN attempts : attempts[i] = creation
  BY DEF MayCreate, OwnerSigned
<1> DEFINE o == creation.owner
           l == creation.lookup
           n == Len(routes)
           leaf == RouteLeaf(creation)
<1>2. o \in TinOwner /\ l \in Tin /\ o = IssuedTo[l] /\ creation.key \in Nat
  BY <1>0, <1>1, AttemptFacts
<1>3. creation.recovery # NoTin
  BY <1>0, <1>1, RecoveryIsPresent
<1>4. /\ DOMAIN registry' = Tin /\ DOMAIN recovery' = TinOwner
      /\ registry'[l] = RegistryAccount(creation) /\ recovery'[o] = creation.recovery
      /\ \A t \in Tin : t # l => registry'[t] = registry[t]
      /\ \A p \in TinOwner : p # o => recovery'[p] = recovery[p]
      /\ recovery[o] = NoTin
  BY <1>0, <1>2 DEF Created, MayCreate, TinShape
<1>5. leaf \in Tin \X Nat /\ leaf[1] = l
  BY <1>2 DEF RouteLeaf
<1>6. routes' = Append(routes, leaf) /\ routes \in Seq(Tin \X Nat)
  BY <1>0 DEF Created, TinShape
<1> HIDE DEF leaf
<1>7. /\ routes' \in Seq(Tin \X Nat) /\ n \in Nat
      /\ DOMAIN routes = 1 .. n /\ DOMAIN routes' = 1 .. n + 1
      /\ \A m \in 1 .. n : routes'[m] = routes[m] /\ routes[m][1] \in Tin
      /\ routes'[n + 1] = leaf
  BY <1>5, <1>6, AppendProperties
<1>8. \A m \in 1 .. n : m \in 1 .. n + 1 /\ m # n + 1
  BY <1>7
<1>9. \A m \in 1 .. n + 1 : m \in 1 .. n \/ m = n + 1
  BY <1>7
<1>10. ASSUME NEW m \in 1 .. n PROVE routes[m][1] # l
  <2>1. recovery[IssuedTo[routes[m][1]]] # NoTin
    BY <1>0, <1>7 DEF RoutesRecovered
  <2>2. recovery[IssuedTo[l]] = NoTin
    BY <1>2, <1>4
  <2> QED
    BY <2>1, <2>2
<1>11. RoutesRecovered'
  <2> SUFFICES ASSUME NEW m \in 1 .. n + 1 PROVE recovery'[IssuedTo[routes'[m][1]]] # NoTin
    BY <1>7 DEF RoutesRecovered
  <2>1. CASE m = n + 1
    BY <1>2, <1>3, <1>4, <1>5, <1>7, <2>1
  <2>2. CASE m \in 1 .. n
    <3>1. IssuedTo[routes[m][1]] \in TinOwner /\ recovery[IssuedTo[routes[m][1]]] # NoTin
      BY <1>0, <1>7, <2>2, TinAssumption DEF RoutesRecovered
    <3> QED
      BY <1>3, <1>4, <1>7, <2>2, <3>1
  <2> QED
    BY <1>9, <2>1, <2>2
<1>12. RegisteredAsSigned'
  <2> SUFFICES ASSUME NEW t \in Tin, registry'[t] # NoTin
               PROVE  \E j \in DOMAIN attempts : Holds(t, j)'
    BY DEF RegisteredAsSigned, Holds
  <2>1. CASE t = l
    <3>1. n + 1 \in DOMAIN routes' /\ routes'[n + 1] = RouteLeaf(attempts[i])
      BY <1>1, <1>7 DEF leaf
    <3>2. \A m \in DOMAIN routes' : routes'[m][1] = t => m = n + 1
      BY <1>7, <1>9, <1>10, <2>1
    <3>3. Holds(t, i)'
      BY <1>1, <1>4, <2>1, <3>1, <3>2 DEF Holds
    <3> QED
      BY <3>3
  <2>2. CASE t # l
    <3>1. PICK j \in DOMAIN attempts : Holds(t, j)
      BY <1>0, <1>4, <2>2 DEF RegisteredAsSigned, Holds
    <3>2. attempts[j].recovery # NoTin /\ attempts[j].owner \in TinOwner
      BY <1>0, RecoveryIsPresent, AttemptFacts
    <3>3. attempts[j].owner # o
      BY <1>4, <3>1, <3>2 DEF Holds
    <3>4. PICK r \in 1 .. n : /\ routes[r] = RouteLeaf(attempts[j])
                             /\ \A m \in 1 .. n : routes[m][1] = t => m = r
      BY <1>7, <3>1 DEF Holds
    <3>5. \A m \in DOMAIN routes' : routes'[m][1] = t => m = r
      BY <1>5, <1>7, <1>9, <2>2, <3>4
    <3>6. r \in DOMAIN routes' /\ routes'[r] = RouteLeaf(attempts[j])
      BY <1>7, <1>8, <3>4
    <3>7. Holds(t, j)'
      BY <1>4, <2>2, <3>1, <3>2, <3>3, <3>5, <3>6 DEF Holds
    <3> QED
      BY <3>7
  <2> QED
    BY <2>1, <2>2
<1> QED
  BY <1>4, <1>7, <1>11, <1>12

\* the accounts after any instruction, whoever sent it
LEMMA ExecutedKeeps ==
    ASSUME TinInv, NEW i, NEW s, Succeeds(i, s), Executed(i, s), UNCHANGED attempts
    PROVE  /\ routes' \in Seq(Tin \X Nat) /\ DOMAIN registry' = Tin /\ DOMAIN recovery' = TinOwner
           /\ RegisteredAsSigned' /\ RoutesRecovered'
<1>1. CASE s.step = "finalize"
  <2>1. MayCreate(StagedCreation(i)) /\ Created(StagedCreation(i))
    BY <1>1 DEF Succeeds, MayFinalize, Executed
  <2> QED
    BY <2>1, CreatedKeeps
<1>2. CASE s.step = "create"
  <2>1. MayCreate(attempts[i]) /\ Created(attempts[i])
    BY <1>2 DEF Succeeds, Executed
  <2> QED
    BY <2>1, CreatedKeeps
<1>3. CASE s.step \notin {"finalize", "create"}
  <2>1. UNCHANGED <<registry, recovery, routes>>
    BY <1>3 DEF Executed
  <2> QED
    BY <2>1, AccountsKept
<1> QED
  BY <1>1, <1>2, <1>3

LEMMA TinStep == TinInv /\ [TinNext]_tinVars => TinInv'
<1> SUFFICES ASSUME TinInv, [TinNext]_tinVars PROVE TinInv'
  OBVIOUS
<1>0. TinShape /\ TinTxsSound /\ CranksSound /\ RegisteredAsSigned /\ RoutesRecovered
  BY DEF TinInv
\* the daemons' part of a step
<1>1. ASSUME UNCHANGED <<attempts, registry, recovery, routes>>, tinClock' \in Nat,
             \A x \in tinTx' : x \in tinTx \/ TinTxSound(x),
             DOMAIN crank' = TinCranker, \A c \in TinCranker : DOMAIN crank'[c] = CrankFields,
             \A c \in TinCranker :
                \/ crank'[c] = crank[c]
                \/ crank'[c].pc \notin {"send", "await"}
                \/ /\ crank'[c].intent \in DOMAIN attempts
                   /\ crank'[c].at \in 1 .. Len(Plan(crank'[c].intent))
                   /\ crank'[c].pc = "await" => crank'[c].sent.intent = crank'[c].intent
      PROVE  TinInv'
  <2>1. TinShape'
    BY <1>0, <1>1 DEF TinShape
  <2>2. TinTxsSound'
    BY <1>0, <1>1 DEF TinTxsSound, TinTxSound
  <2>3. CranksSound'
    BY <1>0, <1>1 DEF CranksSound, Plan, StagedPlan, Terms
  <2>4. RegisteredAsSigned' /\ RoutesRecovered'
    BY <1>1, AccountsKept
  <2> QED
    BY <2>1, <2>2, <2>3, <2>4 DEF TinInv
<1>2. ASSUME UNCHANGED <<attempts, registry, recovery, routes, tinTx, crank>>, tinClock' \in Nat
      PROVE  TinInv'
  BY <1>0, <1>1, <1>2 DEF TinShape
<1>3. CASE UNCHANGED tinVars
  BY <1>0, <1>2, <1>3 DEF tinVars, TinShape
<1>4. ASSUME NEW t \in Tin, NEW name \in DisplayName, NEW large \in BOOLEAN, SubmitTin(t, name, large)
      PROVE  TinInv'
  BY <1>4, SubmitTinKeeps
<1>5. ASSUME NEW i \in DOMAIN attempts, CloseExpired(i) PROVE TinInv'
  BY <1>0, <1>2, <1>5 DEF CloseExpired, TinShape
<1>6. ASSUME NEW i \in DOMAIN attempts, ExpireTinLease(i) PROVE TinInv'
  BY <1>0, <1>2, <1>6 DEF ExpireTinLease, TinShape
<1>7. ASSUME NEW c \in TinCranker, NEW i \in DOMAIN attempts, LeaseTin(c, i) PROVE TinInv'
  <2>1. /\ DOMAIN crank' = TinCranker
        /\ \A d \in TinCranker : d # c => crank'[d] = crank[d]
        /\ DOMAIN crank'[c] = CrankFields
        /\ crank'[c].pc = "send" /\ crank'[c].intent = i /\ crank'[c].at = 1
    BY <1>0, <1>7 DEF LeaseTin, TinShape, Resting, CrankFields
  <2>2. 1 \in 1 .. Len(Plan(i))
    BY DEF Plan, StagedPlan, DirectPlan
  <2> QED
    BY <1>0, <1>1, <1>7, <2>1, <2>2 DEF LeaseTin, TinShape
<1>8. ASSUME NEW c \in TinCranker, SendTin(c) PROVE TinInv'
  <2>0. TinTxSound(Transaction(c)) /\ Transaction(c).intent = crank[c].intent
    BY <1>8, TransactionSound DEF SendTin
  <2>1. crank[c].intent \in DOMAIN attempts /\ crank[c].at \in 1 .. Len(Plan(crank[c].intent))
    BY <1>0, <1>8 DEF SendTin, CranksSound
  <2>2. CASE Succeeds(crank[c].intent, Transaction(c).does)
    <3>1. /\ DOMAIN crank' = TinCranker
          /\ \A d \in TinCranker : d # c => crank'[d] = crank[d]
          /\ DOMAIN crank'[c] = CrankFields
          /\ crank'[c].pc = "await" /\ crank'[c].sent = Transaction(c)
          /\ crank'[c].intent = crank[c].intent /\ crank'[c].at = crank[c].at
      BY <1>0, <1>8, <2>2 DEF SendTin, TinShape, CrankFields
    <3>2. tinTx' = tinTx \cup {Transaction(c)}
      BY <1>8, <2>2 DEF SendTin
    <3> QED
      BY <1>0, <1>1, <1>8, <2>0, <2>1, <3>1, <3>2 DEF SendTin, TinShape
  <2>3. CASE ~ Succeeds(crank[c].intent, Transaction(c).does)
    <3>1. /\ DOMAIN crank' = TinCranker
          /\ \A d \in TinCranker : d # c => crank'[d] = crank[d]
          /\ DOMAIN crank'[c] = CrankFields /\ crank'[c].pc = "fail"
      BY <1>0, <1>8, <2>3 DEF SendTin, TinShape, CrankFields
    <3>2. UNCHANGED <<attempts, registry, recovery, routes, tinTx, tinClock>>
      BY <1>8, <2>3 DEF SendTin
    <3> QED
      BY <1>0, <1>1, <3>1, <3>2 DEF TinShape
  <2> QED
    BY <2>2, <2>3
\* a daemon that only fails, checks, confirms or rests
<1>9. ASSUME NEW c \in TinCranker, UNCHANGED <<tinClock, attempts, registry, recovery, routes, tinTx>>,
             DOMAIN crank' = TinCranker, \A d \in TinCranker : d # c => crank'[d] = crank[d],
             DOMAIN crank'[c] = CrankFields, crank'[c].pc \notin {"send", "await"}
      PROVE  TinInv'
  BY <1>0, <1>1, <1>9 DEF TinShape
<1>10. ASSUME NEW c \in TinCranker, GiveUpTin(c) PROVE TinInv'
  <2>1. /\ DOMAIN crank' = TinCranker /\ \A d \in TinCranker : d # c => crank'[d] = crank[d]
        /\ DOMAIN crank'[c] = CrankFields /\ crank'[c].pc = "fail"
    BY <1>0, <1>10 DEF GiveUpTin, TinShape, CrankFields
  <2> QED
    BY <1>9, <1>10, <2>1 DEF GiveUpTin
<1>11. ASSUME NEW c \in TinCranker, CheckTin(c) PROVE TinInv'
  <2>1. /\ DOMAIN crank' = TinCranker /\ \A d \in TinCranker : d # c => crank'[d] = crank[d]
        /\ DOMAIN crank'[c] = CrankFields /\ crank'[c].pc \in {"confirm", "fail"}
    BY <1>0, <1>11 DEF CheckTin, TinShape, CrankFields
  <2> QED
    BY <1>9, <1>11, <2>1 DEF CheckTin
<1>12. ASSUME NEW c \in TinCranker, CrashTin(c) PROVE TinInv'
  <2>1. /\ DOMAIN crank' = TinCranker /\ \A d \in TinCranker : d # c => crank'[d] = crank[d]
        /\ DOMAIN crank'[c] = CrankFields /\ crank'[c].pc = "idle"
    BY <1>0, <1>12 DEF CrashTin, TinShape, Resting, CrankFields
  <2> QED
    BY <1>9, <1>12, <2>1 DEF CrashTin
<1>13. ASSUME NEW c \in TinCranker, NEW arrives \in BOOLEAN, NEW answered \in BOOLEAN,
              ReportTin(c, arrives, answered)
       PROVE  TinInv'
  <2>1. /\ DOMAIN crank' = TinCranker /\ \A d \in TinCranker : d # c => crank'[d] = crank[d]
        /\ DOMAIN crank'[c] = CrankFields /\ crank'[c].pc \in {"idle", "fail"}
    BY <1>0, <1>13 DEF ReportTin, TinShape, Resting, CrankFields
  <2> QED
    BY <1>9, <1>13, <2>1 DEF ReportTin
<1>14. ASSUME NEW x \in tinTx, LandTin(x) PROVE TinInv'
  <2>0. /\ UNCHANGED <<tinClock, attempts>> /\ tinTx' \subseteq tinTx
        /\ crank' = Learnt(x, Succeeds(x.intent, x.does))
    BY <1>14 DEF LandTin
  <2>1. /\ routes' \in Seq(Tin \X Nat) /\ DOMAIN registry' = Tin /\ DOMAIN recovery' = TinOwner
        /\ RegisteredAsSigned' /\ RoutesRecovered'
    <3>1. CASE Succeeds(x.intent, x.does)
      BY <1>14, <2>0, <3>1, ExecutedKeeps DEF LandTin
    <3>2. CASE UNCHANGED <<stages, registry, recovery, routes>>
      BY <2>0, <3>2, AccountsKept
    <3> QED
      BY <1>14, <3>1, <3>2 DEF LandTin
  <2>2. DOMAIN crank' = TinCranker /\ \A c \in TinCranker :
           /\ DOMAIN crank'[c] = CrankFields
           /\ \/ crank'[c] = crank[c]
              \/ crank'[c].pc \notin {"send", "await"}
              \/ /\ crank[c].pc = "await" /\ crank[c].sent = x
                 /\ crank'[c].pc = "send" /\ crank'[c].intent = crank[c].intent
                 /\ crank'[c].at = crank[c].at + 1
                 /\ crank[c].at < Len(Plan(x.intent))
    BY <1>0, <2>0, ZenonT(40) DEF Learnt, TinShape, CrankFields
  <2>3. TinShape'
    BY <1>0, <2>0, <2>1, <2>2 DEF TinShape
  <2>4. TinTxsSound'
    BY <1>0, <2>0 DEF TinTxsSound, TinTxSound
  <2>5. CranksSound'
    <3> SUFFICES ASSUME NEW c \in TinCranker
                 PROVE  /\ crank'[c].pc \in {"send", "await"} =>
                              /\ crank'[c].intent \in DOMAIN attempts
                              /\ crank'[c].at \in 1 .. Len(Plan(crank'[c].intent))
                        /\ crank'[c].pc = "await" => crank'[c].sent.intent = crank'[c].intent
      BY <2>0 DEF CranksSound, Plan, StagedPlan, Terms
    <3>1. CASE crank'[c] = crank[c]
      BY <1>0, <3>1 DEF CranksSound
    <3>2. CASE crank'[c].pc \notin {"send", "await"}
      BY <3>2
    <3>3. CASE /\ crank[c].pc = "await" /\ crank[c].sent = x
               /\ crank'[c].pc = "send" /\ crank'[c].intent = crank[c].intent
               /\ crank'[c].at = crank[c].at + 1
               /\ crank[c].at < Len(Plan(x.intent))
      <4>1. /\ crank[c].intent \in DOMAIN attempts /\ crank[c].at \in 1 .. Len(Plan(crank[c].intent))
            /\ x.intent = crank[c].intent
        BY <1>0, <3>3 DEF CranksSound
      <4>2. Len(Plan(x.intent)) \in Nat
        BY DEF Plan, StagedPlan, DirectPlan
      <4> QED
        BY <3>3, <4>1, <4>2
    <3> QED
      BY <2>2, <3>1, <3>2, <3>3
  <2> QED
    BY <2>1, <2>3, <2>4, <2>5 DEF TinInv
<1>15. CASE TinTick
  BY <1>0, <1>2, <1>15 DEF TinTick, TinShape
<1>16. ASSUME NEW i \in DOMAIN attempts, OtherSigner(i) PROVE TinInv'
  <2>1. PICK s \in OtherSteps(i) : Succeeds(i, s) /\ Executed(i, s)
    BY <1>16 DEF OtherSigner
  <2>2. UNCHANGED <<tinClock, attempts, crank, tinTx>>
    BY <1>16 DEF OtherSigner
  <2>3. /\ routes' \in Seq(Tin \X Nat) /\ DOMAIN registry' = Tin /\ DOMAIN recovery' = TinOwner
        /\ RegisteredAsSigned' /\ RoutesRecovered'
    BY <2>1, <2>2, ExecutedKeeps
  <2>4. TinShape'
    BY <1>0, <2>2, <2>3 DEF TinShape
  <2>5. TinTxsSound' /\ CranksSound'
    BY <1>0, <2>2 DEF TinTxsSound, TinTxSound, CranksSound, Plan, StagedPlan, Terms
  <2> QED
    BY <2>3, <2>4, <2>5 DEF TinInv
<1> QED
  BY <1>3, <1>4, <1>5, <1>6, <1>7, <1>8, <1>10, <1>11, <1>12, <1>13, <1>14, <1>15,
     <1>16 DEF TinNext

LEMMA TinSound == TinSpec => []TinInv
  BY TinInitially, TinStep, PTL DEF TinSpec

\* The registry account, the recovery record and the one route leaf of a
\* registered TIN come from one intent that its owner signed, whatever other
\* signers stage or write and whatever daemons send, repeat and give up waiting
\* for (tin_v1_creation_staging.rs and create_tin_v1::apply).
THEOREM AlwaysRegisteredAsSigned == TinSpec => []RegisteredAsSigned
<1>1. TinInv => RegisteredAsSigned
  BY DEF TinInv
<1> QED
  BY <1>1, TinSound, PTL

\* Every registered TIN can be recovered by its owner: the recovery record,
\* which the wallet opens, names it, and in the account resolved from it the
\* name in that record opens the seed its keys come from
\* (create_tin_v1::apply and the SDK's recovery functions).
THEOREM OwnerAlwaysRecovers == TinSpec => []OwnerRecovers
<1>1. TinInv => OwnerRecovers
  <2> SUFFICES ASSUME TinInv, NEW t \in Tin, registry[t] # NoTin
               PROVE  LET o == registry[t].owner
                      IN  /\ Recovered(o) # NoTin
                          /\ Recovered(o).tin = t
                          /\ Resolved(t) # NoTin
                          /\ OpenedSeed(Resolved(t), o, Recovered(o).name) = registry[t].key
    BY DEF OwnerRecovers
  <2>0. TinShape /\ RegisteredAsSigned
    BY DEF TinInv
  <2>1. PICK i \in DOMAIN attempts :
           /\ attempts[i].lookup = t
           /\ registry[t] = RegistryAccount(attempts[i])
           /\ recovery[attempts[i].owner] = attempts[i].recovery
    BY <2>0 DEF RegisteredAsSigned
  <2> DEFINE o == attempts[i].owner
  <2>2. PICK name \in DisplayName :
           /\ attempts[i].key = i
           /\ attempts[i].identity = IdentityEnvelope(t, name)
           /\ attempts[i].recovery = RecoveryEnvelope(o, t, name)
           /\ attempts[i].seed = SeedEnvelope(o, name, i)
    BY <2>0, <2>1, AttemptFacts
  <2>3. /\ registry[t].owner = o /\ registry[t].key = i
        /\ registry[t].identity = IdentityEnvelope(t, name)
        /\ registry[t].seed = SeedEnvelope(o, name, i)
    BY <2>1, <2>2 DEF RegistryAccount
  <2>4. recovery[o] # NoTin
    BY <2>0, <2>1, RecoveryIsPresent
  <2>5. Recovered(o) = recovery[o] /\ recovery[o].name = name /\ recovery[o].tin = t
    BY <2>1, <2>2, <2>4 DEF Recovered, RecoveryEnvelope
  <2>6. Resolved(t) = registry[t]
    BY <2>3 DEF Resolved, IdentityEnvelope
  <2>7. OpenedSeed(registry[t], o, name) = i
    BY <2>3 DEF OpenedSeed, SeedEnvelope
  <2> QED
    BY <2>3, <2>4, <2>5, <2>6, <2>7
<1> QED
  BY <1>1, TinSound, PTL

-----------------------------------------------------------------------------
(* Access to a TIN's seed. Every stored envelope is one the SDK can make,   *)
(* and a copy is made only from an envelope that was opened. All runs of a  *)
(* request that go on carry the receipt of the first one that consumed the  *)
(* nonce.                                                                   *)

Envs == {WalletOwned(RouteSeed, version, resource) : version \in Nat, resource \in Nat}
        \cup {DeviceOwned(d) : d \in Device}
        \cup {ThresholdOwned("lit-chipotle"), ThresholdOwned("lit-datil")}

CallFields == {"device", "op", "envelope", "pc", "key", "proof"}
ReleaseFields == {"pc", "receipt", "released"}

IsSequence(s) == \E S : s \in Seq(S)

\* what the store, the calls and the runs are made of
AccessShape ==
    /\ accessClock \in Nat
    /\ stored \in Seq(Envs)
    /\ IsSequence(calls) /\ IsSequence(runs) /\ Len(runs) = Len(calls) /\ Len(calls) <= MaxCalls
    /\ DOMAIN consumed = 1 .. MaxCalls
    /\ \A i \in DOMAIN calls : DOMAIN calls[i] = CallFields
    /\ \A i \in DOMAIN calls : \A k \in DOMAIN runs[i] : DOMAIN runs[i][k] = ReleaseFields

\* a call has an envelope the SDK can make, and one that is to be copied
\* has been opened
OpenedFirst ==
    \A i \in DOMAIN calls :
        /\ calls[i].envelope \in Envs
        /\ calls[i].pc = "rewrapped" =>
              Unsealed(calls[i].envelope.box, calls[i].key, calls[i].envelope.version) = RouteSeed

\* a request that the threshold nodes run has a proof of its own
RequestsProven ==
    \A i \in DOMAIN calls : DOMAIN runs[i] # {} =>
        /\ calls[i].envelope = ThresholdOwned("lit-chipotle")
        /\ calls[i].proof.nonce = i
        /\ calls[i].proof.issuedAt \in Nat /\ calls[i].proof.issuedAt <= accessClock

\* a nonce is consumed for one request, while its proof is valid
ReceiptsSound ==
    \A i \in 1 .. MaxCalls : consumed[i] # NoAccess =>
        /\ i \in DOMAIN calls
        /\ consumed[i].request = i
        /\ consumed[i].nonce = calls[i].proof.nonce
        /\ consumed[i].consumedAt >= calls[i].proof.issuedAt
        /\ consumed[i].consumedAt < calls[i].proof.expiresAt

\* every run that goes on has the one receipt
OneReceipt ==
    \A i \in DOMAIN calls : \A k \in DOMAIN runs[i] :
        /\ runs[i][k].pc # "refused"
        /\ runs[i][k].pc \in {"release", "done"} =>
              consumed[i] # NoAccess /\ runs[i][k].receipt = consumed[i]
        /\ runs[i][k].pc = "done" =>
              /\ runs[i][k].released.key = <<"threshold", 0>>
              /\ runs[i][k].released.wrappedFor = calls[i].proof

AccessInv == AccessShape /\ OpenedFirst /\ RequestsProven /\ ReceiptsSound /\ OneReceipt

LEMMA AppendAny ==
    ASSUME NEW s, IsSequence(s), NEW e
    PROVE  /\ IsSequence(Append(s, e)) /\ Len(s) \in Nat /\ Len(Append(s, e)) = Len(s) + 1
           /\ DOMAIN s = 1 .. Len(s) /\ DOMAIN Append(s, e) = 1 .. Len(s) + 1
           /\ \A i \in 1 .. Len(s) : Append(s, e)[i] = s[i]
           /\ Append(s, e)[Len(s) + 1] = e
<1>1. PICK S : s \in Seq(S)
  BY DEF IsSequence
<1>2. s \in Seq(S \cup {e}) /\ e \in S \cup {e}
  BY <1>1
<1>3. /\ Append(s, e) \in Seq(S \cup {e})
      /\ Len(Append(s, e)) = Len(s) + 1
      /\ \A i \in 1 .. Len(s) : Append(s, e)[i] = s[i]
      /\ Append(s, e)[Len(s) + 1] = e
  BY <1>2, AppendProperties
<1> QED
  BY <1>2, <1>3 DEF IsSequence

LEMMA ExceptAny ==
    ASSUME NEW s, IsSequence(s), NEW i \in DOMAIN s, NEW e
    PROVE  /\ IsSequence([s EXCEPT ![i] = e]) /\ Len([s EXCEPT ![i] = e]) = Len(s)
           /\ DOMAIN s = 1 .. Len(s) /\ DOMAIN [s EXCEPT ![i] = e] = 1 .. Len(s)
           /\ \A j \in DOMAIN s : [s EXCEPT ![i] = e][j] = IF j = i THEN e ELSE s[j]
<1>1. PICK S : s \in Seq(S)
  BY DEF IsSequence
<1>2. s \in Seq(S \cup {e}) /\ e \in S \cup {e} /\ i \in 1 .. Len(s) /\ DOMAIN s = 1 .. Len(s)
  BY <1>1
<1>3. /\ [s EXCEPT ![i] = e] \in Seq(S \cup {e})
      /\ Len([s EXCEPT ![i] = e]) = Len(s)
      /\ \A j \in 1 .. Len(s) : [s EXCEPT ![i] = e][j] = IF j = i THEN e ELSE s[j]
  BY <1>2, ExceptSeq
<1> QED
  BY <1>2, <1>3 DEF IsSequence

LEMMA AccessInitially == AccessInit => AccessInv
<1> SUFFICES ASSUME AccessInit PROVE AccessInv
  OBVIOUS
<1>1. PICK e \in Envs : stored = <<e>>
  BY DEF AccessInit, Envs
<1>2. stored \in Seq(Envs)
  BY <1>1
<1>3. IsSequence(<<>>) /\ Len(<<>>) = 0 /\ DOMAIN <<>> = {}
  BY EmptySeq DEF IsSequence
<1>4. calls = <<>> /\ runs = <<>> /\ accessClock = 0 /\ consumed = [i \in 1 .. MaxCalls |-> NoAccess]
  BY DEF AccessInit
<1>5. AccessShape
  BY <1>2, <1>3, <1>4, AccessAssumption DEF AccessShape
<1> QED
  BY <1>3, <1>4, <1>5
     DEF AccessInv, OpenedFirst, RequestsProven, ReceiptsSound, OneReceipt

\* an access begins
LEMMA BeginKeeps ==
    ASSUME AccessInv, NEW d \in Device, NEW op, NEW e \in Envs, BeginAccess(d, op, e)
    PROVE  AccessInv'
<1> DEFINE n == Len(calls)
           c == Call(d, op, e)
           call == IF LocalKey(d, e) # NoAccess
                   THEN [c EXCEPT !.key = LocalKey(d, e)]
                   ELSE IF e.provider = "lit-chipotle"
                   THEN [c EXCEPT !.pc = "wait", !.proof = AccessProof(d, e, n + 1)]
                   ELSE [c EXCEPT !.pc = "failed"]
           run == IF e.provider = "lit-chipotle" THEN [k \in 1 .. MaxRuns |-> ToRun] ELSE <<>>
<1>0. AccessShape /\ OpenedFirst /\ RequestsProven /\ ReceiptsSound /\ OneReceipt
  BY DEF AccessInv
<1>1. /\ calls' = Append(calls, call) /\ runs' = Append(runs, run)
      /\ n < MaxCalls /\ UNCHANGED <<accessClock, stored, consumed>>
  BY DEF BeginAccess
<1>2. /\ DOMAIN call = CallFields /\ call.envelope = e /\ call.pc # "rewrapped"
  BY DEF Call, CallFields
<1>3. \A k \in DOMAIN run : run[k] = ToRun
  OBVIOUS
<1>4. DOMAIN run # {} => /\ e = ThresholdOwned("lit-chipotle") /\ call.proof.nonce = n + 1
                         /\ call.proof.issuedAt = accessClock
  <2> SUFFICES ASSUME DOMAIN run # {}
               PROVE  /\ e = ThresholdOwned("lit-chipotle") /\ call.proof.nonce = n + 1
                      /\ call.proof.issuedAt = accessClock
    OBVIOUS
  <2>1. e.provider = "lit-chipotle"
    OBVIOUS
  <2>2. e = ThresholdOwned("lit-chipotle")
    <3>1. \A v, r \in Nat : WalletOwned(RouteSeed, v, r).provider = "wallet"
      BY DEF WalletOwned, Envelope
    <3>2. \A x \in Device : DeviceOwned(x).provider = "device"
      BY DEF DeviceOwned, Envelope
    <3>3. ThresholdOwned("lit-datil").provider = "lit-datil"
      BY DEF ThresholdOwned, Envelope
    <3> QED
      BY <2>1, <3>1, <3>2, <3>3 DEF Envs
  <2>3. LocalKey(d, e) = NoAccess
    BY <2>1 DEF LocalKey
  <2>4. call.proof = AccessProof(d, e, n + 1)
    BY <2>1, <2>3 DEF Call
  <2> QED
    BY <2>2, <2>4 DEF AccessProof
<1> HIDE DEF call, run
<1>5. /\ IsSequence(calls') /\ n \in Nat /\ Len(calls') = n + 1
      /\ DOMAIN calls = 1 .. n /\ DOMAIN calls' = 1 .. n + 1
      /\ \A i \in 1 .. n : calls'[i] = calls[i]
      /\ calls'[n + 1] = call
  BY <1>0, <1>1, AppendAny DEF AccessShape
<1>6. /\ IsSequence(runs') /\ Len(runs') = n + 1
      /\ \A i \in 1 .. n : runs'[i] = runs[i]
      /\ runs'[n + 1] = run
  BY <1>0, <1>1, AppendAny DEF AccessShape
<1>7. /\ \A i \in 1 .. n + 1 : i \in 1 .. n \/ i = n + 1
      /\ \A i \in 1 .. n : i \in 1 .. n + 1
      /\ n + 1 \in 1 .. MaxCalls /\ n + 1 \notin 1 .. n
  BY <1>1, <1>5, AccessAssumption
<1>8. DOMAIN ToRun = ReleaseFields /\ ToRun.pc = "verify"
  BY DEF ToRun, ReleaseFields
<1>9. AccessShape'
  BY <1>0, <1>1, <1>2, <1>3, <1>5, <1>6, <1>7, <1>8 DEF AccessShape
<1>10. OpenedFirst'
  BY <1>0, <1>2, <1>5, <1>7 DEF OpenedFirst
<1>11. RequestsProven'
  <2> SUFFICES ASSUME NEW i \in 1 .. n + 1, DOMAIN runs'[i] # {}
               PROVE  /\ calls'[i].envelope = ThresholdOwned("lit-chipotle")
                      /\ calls'[i].proof.nonce = i
                      /\ calls'[i].proof.issuedAt \in Nat /\ calls'[i].proof.issuedAt <= accessClock
    BY <1>1, <1>5 DEF RequestsProven, ThresholdOwned
  <2>1. CASE i \in 1 .. n
    BY <1>0, <1>5, <1>6, <2>1 DEF RequestsProven
  <2>2. CASE i = n + 1
    BY <1>0, <1>2, <1>4, <1>5, <1>6, <2>2 DEF AccessShape
  <2> QED
    BY <1>7, <2>1, <2>2
<1>12. ReceiptsSound'
  BY <1>0, <1>1, <1>5, <1>7 DEF ReceiptsSound
<1>13. OneReceipt'
  <2>0. UNCHANGED consumed
    BY <1>1
  <2> SUFFICES ASSUME NEW i \in 1 .. n + 1, NEW k \in DOMAIN runs'[i]
               PROVE  /\ runs'[i][k].pc # "refused"
                      /\ runs'[i][k].pc \in {"release", "done"} =>
                            consumed[i] # NoAccess /\ runs'[i][k].receipt = consumed[i]
                      /\ runs'[i][k].pc = "done" =>
                            /\ runs'[i][k].released.key = <<"threshold", 0>>
                            /\ runs'[i][k].released.wrappedFor = calls'[i].proof
    BY <1>5, <2>0 DEF OneReceipt
  <2>1. CASE i \in 1 .. n
    BY <1>0, <1>5, <1>6, <2>1 DEF OneReceipt
  <2>2. CASE i = n + 1
    BY <1>3, <1>6, <1>8, <2>2
  <2> QED
    BY <1>7, <2>1, <2>2
<1> QED
  BY <1>9, <1>10, <1>11, <1>12, <1>13 DEF AccessInv

\* a call goes on: its envelope and its proof stay
LEMMA CallKeeps ==
    ASSUME AccessInv, NEW i \in DOMAIN calls, NEW c, calls' = [calls EXCEPT ![i] = c],
           DOMAIN c = CallFields, c.envelope = calls[i].envelope, c.proof = calls[i].proof,
           c.pc = "rewrapped" => Unsealed(c.envelope.box, c.key, c.envelope.version) = RouteSeed,
           UNCHANGED <<accessClock, runs, consumed>>, stored' \in Seq(Envs)
    PROVE  AccessInv'
<1>0. AccessShape /\ OpenedFirst /\ RequestsProven /\ ReceiptsSound /\ OneReceipt
  BY DEF AccessInv
<1>1. /\ IsSequence(calls') /\ Len(calls') = Len(calls) /\ DOMAIN calls' = DOMAIN calls
      /\ \A j \in DOMAIN calls : calls'[j] = IF j = i THEN c ELSE calls[j]
  BY <1>0, ExceptAny DEF AccessShape
<1>2. \A j \in DOMAIN calls : /\ calls'[j].envelope = calls[j].envelope
                              /\ calls'[j].proof = calls[j].proof
  BY <1>1
<1>3. AccessShape'
  BY <1>0, <1>1 DEF AccessShape
<1>4. OpenedFirst'
  BY <1>0, <1>1 DEF OpenedFirst, Unsealed, RouteSeed
<1>5. RequestsProven'
  BY <1>0, <1>1, <1>2 DEF RequestsProven, ThresholdOwned
<1>6. ReceiptsSound'
  BY <1>0, <1>1, <1>2 DEF ReceiptsSound
<1>7. OneReceipt'
  BY <1>0, <1>1, <1>2 DEF OneReceipt
<1> QED
  BY <1>3, <1>4, <1>5, <1>6, <1>7 DEF AccessInv

\* a run of a request goes on, perhaps with the receipt it got
LEMMA RunKeeps ==
    ASSUME AccessInv, NEW i \in DOMAIN calls, NEW k \in DOMAIN runs[i], NEW r,
           runs' = [runs EXCEPT ![i][k] = r],
           UNCHANGED <<accessClock, stored, calls>>,
           DOMAIN r = ReleaseFields, r.pc # "refused",
           r.pc \in {"release", "done"} => consumed'[i] # NoAccess /\ r.receipt = consumed'[i],
           r.pc = "done" => r.released.key = <<"threshold", 0>> /\ r.released.wrappedFor = calls[i].proof,
           DOMAIN consumed' = 1 .. MaxCalls,
           \A j \in 1 .. MaxCalls : j # i \/ consumed[j] # NoAccess => consumed'[j] = consumed[j],
           ReceiptsSound'
    PROVE  AccessInv'
<1> DEFINE e == [runs[i] EXCEPT ![k] = r]
<1>0. AccessShape /\ OpenedFirst /\ RequestsProven /\ ReceiptsSound /\ OneReceipt
  BY DEF AccessInv
<1>1. DOMAIN e = DOMAIN runs[i] /\ \A l \in DOMAIN runs[i] : e[l] = IF l = k THEN r ELSE runs[i][l]
  OBVIOUS
<1>2. runs' = [runs EXCEPT ![i] = e]
  OBVIOUS
<1> HIDE DEF e
<1>3. DOMAIN runs = DOMAIN calls /\ DOMAIN calls \subseteq 1 .. MaxCalls
  <2>1. DOMAIN runs = 1 .. Len(runs) /\ DOMAIN calls = 1 .. Len(calls) /\ Len(calls) \in Nat
    BY <1>0, AppendAny DEF AccessShape
  <2> QED
    BY <1>0, <2>1, AccessAssumption DEF AccessShape
<1>4. /\ IsSequence(runs') /\ Len(runs') = Len(runs) /\ DOMAIN runs' = DOMAIN runs
      /\ \A j \in DOMAIN runs : runs'[j] = IF j = i THEN e ELSE runs[j]
  <2>1. IsSequence(runs) /\ i \in DOMAIN runs
    BY <1>0, <1>3 DEF AccessShape
  <2>2. /\ IsSequence([runs EXCEPT ![i] = e]) /\ Len([runs EXCEPT ![i] = e]) = Len(runs)
        /\ DOMAIN [runs EXCEPT ![i] = e] = DOMAIN runs
        /\ \A j \in DOMAIN runs : [runs EXCEPT ![i] = e][j] = IF j = i THEN e ELSE runs[j]
    BY <2>1, ExceptAny, ZenonT(40)
  <2> QED
    BY <1>2, <2>2
<1>5. \A j \in DOMAIN calls : /\ DOMAIN runs'[j] = DOMAIN runs[j]
                              /\ \A l \in DOMAIN runs[j] :
                                    runs'[j][l] = IF j = i /\ l = k THEN r ELSE runs[j][l]
  BY <1>1, <1>3, <1>4
<1>6. AccessShape'
  BY <1>0, <1>4, <1>5 DEF AccessShape
<1>7. OpenedFirst'
  BY <1>0 DEF OpenedFirst
<1>8. RequestsProven'
  BY <1>0, <1>5 DEF RequestsProven, ThresholdOwned
<1>9. OneReceipt'
  <2> SUFFICES ASSUME NEW j \in DOMAIN calls, NEW l \in DOMAIN runs[j]
               PROVE  /\ runs'[j][l].pc # "refused"
                      /\ runs'[j][l].pc \in {"release", "done"} =>
                            consumed'[j] # NoAccess /\ runs'[j][l].receipt = consumed'[j]
                      /\ runs'[j][l].pc = "done" =>
                            /\ runs'[j][l].released.key = <<"threshold", 0>>
                            /\ runs'[j][l].released.wrappedFor = calls[j].proof
    BY <1>5 DEF OneReceipt
  <2>1. CASE j = i /\ l = k
    BY <1>5, <2>1
  <2>2. CASE ~ (j = i /\ l = k)
    BY <1>0, <1>3, <1>5, <2>2 DEF OneReceipt
  <2> QED
    BY <2>1, <2>2
<1> QED
  BY <1>6, <1>7, <1>8, <1>9 DEF AccessInv

\* the Node gives every run of a request the receipt of the first
LEMMA ConsumeNonceKeeps ==
    ASSUME AccessInv, NEW i \in DOMAIN calls, NEW k \in DOMAIN runs[i], ConsumeNonce(i, k)
    PROVE  AccessInv'
<1> DEFINE receipt == IF ProofIsCurrent(i) THEN ReceiptFor(i) ELSE NoAccess
           pc == IF receipt # NoAccess THEN "release"
                 ELSE IF ProofIsCurrent(i) THEN "refused" ELSE "expired"
           r == [runs[i][k] EXCEPT !.receipt = receipt, !.pc = pc]
<1>0. AccessShape /\ RequestsProven /\ ReceiptsSound /\ OneReceipt
  BY DEF AccessInv
<1>1. /\ runs' = [runs EXCEPT ![i][k] = r]
      /\ consumed' = IF receipt = NoAccess THEN consumed ELSE [consumed EXCEPT ![i] = receipt]
      /\ UNCHANGED <<accessClock, stored, calls>>
  BY DEF ConsumeNonce
<1>2. i \in 1 .. MaxCalls /\ i \in Nat
  <2>1. DOMAIN calls = 1 .. Len(calls) /\ Len(calls) \in Nat
    BY <1>0, AppendAny DEF AccessShape
  <2> QED
    BY <1>0, <2>1, AccessAssumption DEF AccessShape
<1>3. DOMAIN runs[i] # {} /\ calls[i].proof.nonce = i
      /\ calls[i].proof.issuedAt \in Nat /\ calls[i].proof.issuedAt <= accessClock
  BY <1>0 DEF RequestsProven
<1>4. ProofIsCurrent(i) => /\ receipt # NoAccess
                           /\ receipt.request = i /\ receipt.nonce = calls[i].proof.nonce
                           /\ receipt.consumedAt >= calls[i].proof.issuedAt
                           /\ receipt.consumedAt < calls[i].proof.expiresAt
                           /\ consumed[i] # NoAccess => receipt = consumed[i]
  <2> SUFFICES ASSUME ProofIsCurrent(i)
               PROVE  /\ receipt # NoAccess
                      /\ receipt.request = i /\ receipt.nonce = calls[i].proof.nonce
                      /\ receipt.consumedAt >= calls[i].proof.issuedAt
                      /\ receipt.consumedAt < calls[i].proof.expiresAt
                      /\ consumed[i] # NoAccess => receipt = consumed[i]
    OBVIOUS
  <2>1. receipt = ReceiptFor(i)
    OBVIOUS
  <2> HIDE DEF receipt
  <2>2. CASE consumed[i] = NoAccess
    <3>1. receipt = [nonce |-> calls[i].proof.nonce, request |-> i, consumedAt |-> accessClock]
      BY <2>1, <2>2 DEF ReceiptFor
    <3>2. receipt \in [nonce : Nat, request : Nat, consumedAt : Nat]
      BY <1>0, <1>2, <1>3, <3>1 DEF AccessShape
    <3> QED
      BY <1>0, <1>3, <2>2, <3>1, <3>2, AccessAssumption DEF ProofIsCurrent, AccessShape
  <2>3. CASE consumed[i] # NoAccess
    <3>1. receipt = consumed[i]
      BY <1>0, <1>2, <2>1, <2>3 DEF ReceiptFor, ReceiptsSound
    <3> QED
      BY <1>0, <1>2, <2>3, <3>1 DEF ReceiptsSound
  <2> QED
    BY <2>2, <2>3
<1>5. receipt # NoAccess => ProofIsCurrent(i)
  OBVIOUS
<1> HIDE DEF receipt
<1>6. DOMAIN runs[i][k] = ReleaseFields
  BY <1>0 DEF AccessShape
<1>7. /\ DOMAIN r = ReleaseFields /\ r.pc = pc /\ r.receipt = receipt
  BY <1>6 DEF ReleaseFields
<1>8. pc \in {"release", "expired"} /\ (pc = "release" => receipt # NoAccess)
  BY <1>4
<1>9. /\ DOMAIN consumed' = 1 .. MaxCalls
      /\ \A j \in 1 .. MaxCalls : j # i => consumed'[j] = consumed[j]
      /\ consumed'[i] = IF receipt = NoAccess THEN consumed[i] ELSE receipt
  BY <1>0, <1>1, <1>2 DEF AccessShape
<1>10. \A j \in 1 .. MaxCalls : j # i \/ consumed[j] # NoAccess => consumed'[j] = consumed[j]
  BY <1>4, <1>5, <1>9
<1>11. ReceiptsSound'
  <2>1. UNCHANGED calls
    BY <1>1
  <2> QED
    BY <1>0, <1>4, <1>5, <1>9, <2>1 DEF ReceiptsSound
<1>12. r.pc \in {"release", "done"} => consumed'[i] # NoAccess /\ r.receipt = consumed'[i]
  BY <1>7, <1>8, <1>9
<1>13. r.pc # "refused" /\ r.pc # "done"
  BY <1>7, <1>8
<1>14. runs' = [runs EXCEPT ![i][k] = r] /\ UNCHANGED <<accessClock, stored, calls>>
  BY <1>1
<1> HIDE DEF r, pc
<1> QED
  BY <1>7, <1>9, <1>10, <1>11, <1>12, <1>13, <1>14, RunKeeps

LEMMA AccessStep == AccessInv /\ [AccessNext]_accessVars => AccessInv'
<1> SUFFICES ASSUME AccessInv, [AccessNext]_accessVars PROVE AccessInv'
  OBVIOUS
<1>0. AccessShape /\ OpenedFirst /\ RequestsProven /\ ReceiptsSound /\ OneReceipt
  BY DEF AccessInv
<1>1. ASSUME UNCHANGED <<stored, calls, runs, consumed>>, accessClock' \in Nat, accessClock <= accessClock'
      PROVE  AccessInv'
  <2>1. AccessShape'
    BY <1>0, <1>1 DEF AccessShape, IsSequence
  <2>2. OpenedFirst' /\ ReceiptsSound' /\ OneReceipt'
    BY <1>0, <1>1 DEF OpenedFirst, ReceiptsSound, OneReceipt
  <2>3. RequestsProven'
    BY <1>0, <1>1 DEF RequestsProven, AccessShape
  <2> QED
    BY <2>1, <2>2, <2>3 DEF AccessInv
<1>2. CASE UNCHANGED accessVars
  BY <1>0, <1>1, <1>2 DEF accessVars, AccessShape
<1>3. CASE AccessTick
  BY <1>0, <1>1, <1>3 DEF AccessTick, AccessShape
<1>4. ASSUME NEW d \in Device, NEW op, NEW v \in DOMAIN stored, BeginAccess(d, op, stored[v])
      PROVE  AccessInv'
  <2>1. stored[v] \in Envs
    BY <1>0 DEF AccessShape
  <2> QED
    BY <1>4, <2>1, BeginKeeps
\* a call changes its pc, and perhaps its key
<1>5. ASSUME NEW i \in DOMAIN calls, NEW c, calls' = [calls EXCEPT ![i] = c],
             DOMAIN c = CallFields, c.envelope = calls[i].envelope, c.proof = calls[i].proof,
             c.pc = "rewrapped" => Unsealed(c.envelope.box, c.key, c.envelope.version) = RouteSeed,
             UNCHANGED <<accessClock, runs, consumed, stored>>
      PROVE  AccessInv'
  <2>1. stored' \in Seq(Envs)
    BY <1>0, <1>5 DEF AccessShape
  <2> QED
    BY <1>5, <2>1, CallKeeps
<1>6. ASSUME NEW i \in DOMAIN calls, LoseKey(i) PROVE AccessInv'
  <2> DEFINE c == [calls[i] EXCEPT !.pc = "failed"]
  <2>1. calls' = [calls EXCEPT ![i] = c] /\ UNCHANGED <<accessClock, runs, consumed, stored>>
    BY <1>6 DEF LoseKey
  <2>2. DOMAIN c = CallFields /\ c.envelope = calls[i].envelope /\ c.proof = calls[i].proof /\ c.pc = "failed"
    BY <1>0 DEF AccessShape, CallFields
  <2> HIDE DEF c
  <2> QED
    BY <1>5, <2>1, <2>2
<1>7. ASSUME NEW i \in DOMAIN calls, OpenEnvelope(i) PROVE AccessInv'
  <2> DEFINE seed == Unsealed(calls[i].envelope.box, calls[i].key, calls[i].envelope.version)
             pc == IF seed # RouteSeed THEN "failed"
                   ELSE IF calls[i].op = "rewrap" THEN "rewrapped" ELSE "done"
             c == [calls[i] EXCEPT !.pc = pc]
  <2>1. calls' = [calls EXCEPT ![i] = c] /\ UNCHANGED <<accessClock, runs, consumed, stored>>
    BY <1>7 DEF OpenEnvelope
  <2>2. pc = "rewrapped" => seed = RouteSeed
    OBVIOUS
  <2> HIDE DEF seed, pc
  <2>3. /\ DOMAIN c = CallFields /\ c.envelope = calls[i].envelope /\ c.proof = calls[i].proof
        /\ c.pc = pc /\ c.key = calls[i].key
    BY <1>0 DEF AccessShape, CallFields
  <2> HIDE DEF c
  <2>4. c.pc = "rewrapped" => Unsealed(c.envelope.box, c.key, c.envelope.version) = RouteSeed
    BY <2>2, <2>3 DEF seed
  <2> QED
    BY <1>5, <2>1, <2>3, <2>4
<1>8. ASSUME NEW i \in DOMAIN calls, NEW k \in DOMAIN runs[i], ReceiveKey(i, k) PROVE AccessInv'
  <2>1. PICK c : /\ calls' = [calls EXCEPT ![i] = c]
                 /\ \/ c = [calls[i] EXCEPT !.pc = "open", !.key = runs[i][k].released.key]
                    \/ c = [calls[i] EXCEPT !.pc = "failed"]
    BY <1>8 DEF ReceiveKey
  <2>2. /\ DOMAIN c = CallFields /\ c.envelope = calls[i].envelope /\ c.proof = calls[i].proof
        /\ c.pc \in {"open", "failed"}
    BY <1>0, <2>1 DEF AccessShape, CallFields
  <2>3. UNCHANGED <<accessClock, runs, consumed, stored>>
    BY <1>8 DEF ReceiveKey
  <2> QED
    BY <1>5, <2>1, <2>2, <2>3
<1>9. ASSUME NEW i \in DOMAIN calls, StoreRewrap(i) PROVE AccessInv'
  <2> DEFINE c == [calls[i] EXCEPT !.pc = "done"]
             e == Rewrapped(calls[i], i)
  <2>1. /\ calls' = [calls EXCEPT ![i] = c] /\ stored' = Append(stored, e)
        /\ UNCHANGED <<accessClock, runs, consumed>>
    BY <1>9 DEF StoreRewrap
  <2>2. DOMAIN c = CallFields /\ c.envelope = calls[i].envelope /\ c.proof = calls[i].proof /\ c.pc = "done"
    BY <1>0 DEF AccessShape, CallFields
  <2>3. e = WalletOwned(RouteSeed, calls[i].envelope.version + 1, i)
    BY <1>0, <1>9 DEF StoreRewrap, OpenedFirst, Rewrapped
  <2>4. calls[i].envelope.version \in Nat
    <3>1. calls[i].envelope \in Envs
      BY <1>0 DEF OpenedFirst
    <3>2. \A v, r \in Nat : WalletOwned(RouteSeed, v, r).version = v
      BY DEF WalletOwned, Envelope
    <3>3. \A x \in Device : DeviceOwned(x).version = 1
      BY DEF DeviceOwned, Envelope
    <3>4. \A n : ThresholdOwned(n).version = 1
      BY DEF ThresholdOwned, Envelope
    <3> QED
      BY <3>1, <3>2, <3>3, <3>4 DEF Envs
  <2>5. i \in Nat
    <3>1. DOMAIN calls = 1 .. Len(calls) /\ Len(calls) \in Nat
      BY <1>0, AppendAny DEF AccessShape
    <3> QED
      BY <3>1
  <2> HIDE DEF c, e
  <2>6. e \in Envs
    <3>1. calls[i].envelope.version + 1 \in Nat
      BY <2>4
    <3> QED
      BY <2>3, <2>5, <3>1 DEF Envs
  <2>7. stored' \in Seq(Envs)
    BY <1>0, <2>1, <2>6, AppendProperties DEF AccessShape
  <2> QED
    BY <2>1, <2>2, <2>7, CallKeeps
<1>10. ASSUME NEW i \in DOMAIN calls, NEW k \in DOMAIN runs[i], ConsumeNonce(i, k) PROVE AccessInv'
  BY <1>10, ConsumeNonceKeeps
\* the nonces stay as they are
<1>11. ASSUME NEW i \in DOMAIN calls, NEW k \in DOMAIN runs[i], NEW r,
              runs' = [runs EXCEPT ![i][k] = r],
              UNCHANGED <<accessClock, stored, calls, consumed>>,
              DOMAIN r = ReleaseFields, r.pc # "refused",
              r.pc \in {"release", "done"} => consumed[i] # NoAccess /\ r.receipt = consumed[i],
              r.pc = "done" => r.released.key = <<"threshold", 0>> /\ r.released.wrappedFor = calls[i].proof
       PROVE  AccessInv'
  <2>1. ReceiptsSound'
    BY <1>0, <1>11 DEF ReceiptsSound
  <2>2. DOMAIN consumed' = 1 .. MaxCalls
    BY <1>0, <1>11 DEF AccessShape
  <2> QED
    BY <1>11, <2>1, <2>2, RunKeeps
<1>12. ASSUME NEW i \in DOMAIN calls, NEW k \in DOMAIN runs[i], DropRun(i, k) PROVE AccessInv'
  <2> DEFINE r == [runs[i][k] EXCEPT !.pc = "lost"]
  <2>1. runs' = [runs EXCEPT ![i][k] = r] /\ UNCHANGED <<accessClock, stored, calls, consumed>>
    BY <1>12 DEF DropRun
  <2>2. DOMAIN r = ReleaseFields /\ r.pc = "lost"
    BY <1>0 DEF AccessShape, ReleaseFields
  <2> HIDE DEF r
  <2> QED
    BY <1>11, <2>1, <2>2
<1>13. ASSUME NEW i \in DOMAIN calls, NEW k \in DOMAIN runs[i], ReleaseKey(i, k) PROVE AccessInv'
  <2> DEFINE key == <<"threshold", calls[i].envelope.resource>>
  <2>0. UNCHANGED <<accessClock, stored, calls, consumed>> /\ DOMAIN runs[i][k] = ReleaseFields
        /\ consumed[i] # NoAccess /\ runs[i][k].receipt = consumed[i]
    BY <1>0, <1>13 DEF ReleaseKey, AccessShape, OneReceipt
  <2>1. PICK r : /\ runs' = [runs EXCEPT ![i][k] = r]
                 /\ \/ r = [runs[i][k] EXCEPT !.pc = "done",
                                              !.released = WrappedForDevice(key, calls[i].proof)]
                    \/ r = [runs[i][k] EXCEPT !.pc = "expired"]
    <3>0. consumed[i].nonce = calls[i].proof.nonce /\ consumed[i].consumedAt < calls[i].proof.expiresAt
      <4>1. DOMAIN calls = 1 .. Len(calls) /\ Len(calls) \in Nat
        BY <1>0, AppendAny DEF AccessShape
      <4>2. i \in 1 .. MaxCalls
        BY <1>0, <4>1, AccessAssumption DEF AccessShape
      <4> QED
        BY <1>0, <2>0, <4>2 DEF ReceiptsSound
    <3>1. ProofIsCurrent(i) => ReceiptIsGood(i, k)
      BY <2>0, <3>0 DEF ReceiptIsGood, ProofIsCurrent
    <3>2. CASE ReceiptIsGood(i, k)
      BY <1>13, <3>2 DEF ReleaseKey
    <3>3. CASE ~ ReceiptIsGood(i, k)
      BY <1>13, <3>1, <3>3 DEF ReleaseKey
    <3> QED
      BY <3>2, <3>3
  <2>2. key = <<"threshold", 0>>
    <3>1. calls[i].envelope = ThresholdOwned("lit-chipotle")
      BY <1>0 DEF RequestsProven
    <3>2. calls[i].envelope.resource = 0
      BY <3>1 DEF ThresholdOwned, Envelope
    <3> QED
      BY <3>2
  <2> HIDE DEF key
  <2>3. CASE r = [runs[i][k] EXCEPT !.pc = "done", !.released = WrappedForDevice(key, calls[i].proof)]
    <3>1. /\ DOMAIN r = ReleaseFields /\ r.pc = "done" /\ r.receipt = runs[i][k].receipt
          /\ r.released = WrappedForDevice(key, calls[i].proof)
      BY <2>0, <2>3 DEF ReleaseFields
    <3>2. r.released.key = <<"threshold", 0>> /\ r.released.wrappedFor = calls[i].proof
      BY <2>2, <3>1 DEF WrappedForDevice
    <3> QED
      BY <1>11, <2>0, <2>1, <3>1, <3>2
  <2>4. CASE r = [runs[i][k] EXCEPT !.pc = "expired"]
    <3>1. DOMAIN r = ReleaseFields /\ r.pc = "expired"
      BY <2>0, <2>4 DEF ReleaseFields
    <3> QED
      BY <1>11, <2>0, <2>1, <3>1
  <2> QED
    BY <2>1, <2>3, <2>4
<1> QED
  BY <1>2, <1>3, <1>4, <1>6, <1>7, <1>8, <1>9, <1>10, <1>12, <1>13 DEF AccessNext

LEMMA AccessSound == AccessSpec => []AccessInv
  BY AccessInitially, AccessStep, PTL DEF AccessSpec

\* Once a TIN has been rewrapped, its owner's wallet alone opens every envelope
\* stored since, on any device, and finds the seed of the registered route
\* (rewrapTinPrivateIdentityForWalletOwner, unlockTinPrivateRoute).
THEOREM RouteAlwaysSurvives == AccessSpec => []RouteSurvives
<1>1. AccessInv => RouteSurvives
  <2> SUFFICES ASSUME AccessInv, NEW v \in DOMAIN stored, stored[v].provider = "wallet", NEW d \in Device
               PROVE  Unsealed(stored[v].box, LocalKey(d, stored[v]), stored[v].version) = RouteSeed
    BY DEF RouteSurvives
  <2>1. stored[v] \in Envs
    BY DEF AccessInv, AccessShape
  <2>2. \A x \in Device : DeviceOwned(x).provider = "device"
    BY DEF DeviceOwned, Envelope
  <2>3. \A n : ThresholdOwned(n).provider = n
    BY DEF ThresholdOwned, Envelope
  <2>4. PICK w \in Nat, r \in Nat : stored[v] = WalletOwned(RouteSeed, w, r)
    BY <2>1, <2>2, <2>3 DEF Envs
  <2>5. /\ stored[v].version = w /\ stored[v].resource = r
        /\ stored[v].box = Sealed(RouteSeed, OwnerMessage(w, r), w)
    BY <2>4 DEF WalletOwned, Envelope
  <2>6. LocalKey(d, stored[v]) = OwnerMessage(w, r)
    BY <2>5 DEF LocalKey
  <2> QED
    BY <2>5, <2>6 DEF Unsealed, Sealed
<1> QED
  BY <1>1, AccessSound, PTL

\* Running a release again after its first run was lost is not mistaken for a
\* replay: a run is never turned down while its proof is valid, every answer
\* carries the one receipt, and it opens on the device that asked
\* (consume_threshold_access_nonce, verifyTinThresholdNonceReceipt).
THEOREM RetriedReleaseAlwaysWorks == AccessSpec => []RetriedReleaseWorks
<1>1. AccessInv => RetriedReleaseWorks
  <2> SUFFICES ASSUME AccessInv, NEW i \in DOMAIN calls, NEW k \in DOMAIN runs[i]
               PROVE  /\ runs[i][k].pc # "refused"
                      /\ runs[i][k].pc = "done" =>
                           /\ runs[i][k].receipt = consumed[i]
                           /\ AnswerIsGood(calls[i], runs[i][k]) \/ ~ ProofIsCurrent(i)
                           /\ Unsealed(calls[i].envelope.box, runs[i][k].released.key,
                                       calls[i].envelope.version) = RouteSeed
    BY DEF RetriedReleaseWorks
  <2>0. AccessShape /\ RequestsProven /\ ReceiptsSound /\ OneReceipt
    BY DEF AccessInv
  <2>1. runs[i][k].pc # "refused"
    BY <2>0 DEF OneReceipt
  <2>2. ASSUME runs[i][k].pc = "done"
        PROVE  /\ runs[i][k].receipt = consumed[i]
               /\ AnswerIsGood(calls[i], runs[i][k]) \/ ~ ProofIsCurrent(i)
               /\ Unsealed(calls[i].envelope.box, runs[i][k].released.key,
                           calls[i].envelope.version) = RouteSeed
    <3>1. /\ runs[i][k].receipt = consumed[i] /\ consumed[i] # NoAccess
          /\ runs[i][k].released.key = <<"threshold", 0>>
          /\ runs[i][k].released.wrappedFor = calls[i].proof
      BY <2>0, <2>2 DEF OneReceipt
    <3>2. i \in 1 .. MaxCalls
      <4>1. DOMAIN calls = 1 .. Len(calls) /\ Len(calls) \in Nat
        BY <2>0, AppendAny DEF AccessShape
      <4> QED
        BY <2>0, <4>1, AccessAssumption DEF AccessShape
    <3>3. AnswerIsGood(calls[i], runs[i][k]) \/ ~ ProofIsCurrent(i)
      BY <2>0, <3>1, <3>2 DEF ReceiptsSound, AnswerIsGood, ProofIsCurrent
    <3>4. calls[i].envelope = ThresholdOwned("lit-chipotle")
      BY <2>0 DEF RequestsProven
    <3>5. calls[i].envelope.version = 1 /\ calls[i].envelope.box = Sealed(RouteSeed, <<"threshold", 0>>, 1)
      BY <3>4 DEF ThresholdOwned, Envelope
    <3>6. Unsealed(calls[i].envelope.box, runs[i][k].released.key, calls[i].envelope.version) = RouteSeed
      BY <3>1, <3>5 DEF Unsealed, Sealed
    <3> QED
      BY <3>1, <3>3, <3>6
  <2> QED
    BY <2>1, <2>2
<1> QED
  BY <1>1, AccessSound, PTL

=============================================================================
