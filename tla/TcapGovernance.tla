--------------------------- MODULE TcapGovernance ---------------------------
(***************************************************************************)
(* The governance of one TCAP asset: the accounts the program keeps of it  *)
(* (asset_governance.rs) and the command-line tool with which operators    *)
(* change them (scripts/tcap-asset-admin.mjs).                             *)
(*                                                                         *)
(* One invocation of the tool reads the accounts, decides whether the      *)
(* command is already done or may not be tried, simulates the transaction, *)
(* sends it, waits for its confirmation and compares the accounts with     *)
(* what the command promises.  Other operators, donors and the reserve's   *)
(* own instructions act between any two of these steps; a transaction may  *)
(* land late, or although its sender was told it did not.                  *)
(*                                                                         *)
(* Abstractions.  Addresses, authorities and account layouts are right:    *)
(* only the state is modelled.  The flags of settlement, public exit and   *)
(* confidential settlement have no entry: no instruction can set them, so  *)
(* disable-settlements always reports that it is done.  close and          *)
(* enable-settlements return at once.  The evidence file is left out.      *)
(* lib.rs dispatches no asset instruction of version 1 and none that sets  *)
(* the pause flag: an asset they made, and a flag they set, are initial    *)
(* states.                                                                 *)
(***************************************************************************)
EXTENDS Naturals

CONSTANTS
    Admin,       \* operators, each running the tool once at a time
    MaxRuns,     \* bound: invocations of the tool
    MaxMoves     \* bound: donations, and moves of the reserve's own accounts

ASSUME GovernanceAssumption == MaxRuns \in Nat /\ MaxMoves \in Nat

VARIABLES
    config,    \* the global configuration: version gate and pause flag
    entry,     \* TcapAssetEntryV1
    policy,    \* TcapAssetGovernancePolicyV2, created with the extension policy
    infra,     \* reserve state and vault
    admins,    \* admins[a]: the invocation operator a is running
    runs, moves

chainVars == <<config, entry, policy, infra>>
govVars == <<chainVars, admins, runs, moves>>

-----------------------------------------------------------------------------
(* The accounts.                                                           *)

Config == [version : {1, 2}, paused : BOOLEAN]
Entry == [exists : BOOLEAN, status : {"PROPOSED", "ACTIVE", "DEPOSITS_PAUSED", "DEPRECATED"},
          risk : {"PENDING_REVIEW", "APPROVED", "BLOCKED"}, deposits : BOOLEAN]
Policy == [exists : BOOLEAN, approval : {"PENDING", "APPROVED", "REJECTED", "REVOKED"},
           status : {"INACTIVE", "ACTIVE", "PAUSED", "DEPRECATED"}, deposits : BOOLEAN,
           reserve : BOOLEAN, vault : BOOLEAN]
(* surplus: the vault holds more than actual_assets; covered, backed:      *)
(* actual_assets, or what the vault holds, reaches total_liabilities.      *)
Infrastructure ==
    {i \in [reserve : BOOLEAN, vault : BOOLEAN, funding : BOOLEAN, paused : BOOLEAN,
            surplus : BOOLEAN, covered : BOOLEAN, backed : BOOLEAN] :
        (i.covered => i.backed) /\ (~i.surplus => i.covered = i.backed)}

(* deprecated_irreversible is set with the status and never cleared.       *)
Irreversible(p) == p.status = "DEPRECATED"
(* A handler that makes the entry ACTIVE clears its paused and deprecated. *)
EntryOpen(e) == e.exists /\ e.status = "ACTIVE" /\ e.risk = "APPROVED"

(* What deposit_asset_v2 and deposit_with_funding_commitment_v2 ask of the *)
(* asset, and of the protocol.                                             *)
AssetOpen ==
    /\ EntryOpen(entry) /\ entry.deposits
    /\ infra.reserve /\ infra.vault /\ infra.funding /\ ~infra.paused /\ ~infra.surplus
AssetDepositsOpen == ~config.paused /\ AssetOpen

(* The two checks of inspectAsset that the program does not keep true.     *)
ChecksPass == infra.reserve /\ infra.vault => ~infra.surplus /\ infra.covered

(* acceptedForDeposits of inspectAsset: the entry is not asked.            *)
AcceptedForDeposits ==
    /\ policy.exists /\ policy.approval = "APPROVED" /\ policy.status = "ACTIVE"
    /\ policy.deposits /\ policy.reserve /\ policy.vault
    /\ infra.reserve /\ infra.vault /\ infra.funding /\ ~infra.paused
    /\ ChecksPass

(* Mutant: the flags of the policy are enough.                             *)
LiveAcceptedByPolicy ==
    /\ entry.exists /\ policy.exists
    /\ policy.approval = "APPROVED" /\ policy.status = "ACTIVE"
    /\ policy.reserve /\ policy.vault /\ policy.deposits

(* liveAcceptanceReason for deposits.                                      *)
LiveAccepted ==
    /\ entry.exists /\ policy.exists
    /\ policy.approval = "APPROVED" /\ policy.status = "ACTIVE"
    /\ policy.reserve /\ infra.reserve /\ policy.vault /\ infra.vault
    /\ ChecksPass
    /\ policy.deposits /\ entry.deposits /\ infra.funding /\ ~infra.paused

-----------------------------------------------------------------------------
(* The instructions of version 2: when one succeeds and what it leaves.    *)

Lifecycle == [activate |-> "ACTIVE", resume |-> "ACTIVE", deactivate |-> "INACTIVE",
              pause |-> "PAUSED", deprecate |-> "DEPRECATED"]
Operational == DOMAIN Lifecycle \cup {"revoke-approval", "enable-deposits", "disable-deposits"}
Command == Operational \cup
    {"register", "migrate-legacy", "approve", "reject", "initialize-reserve",
     "initialize-vault", "sync-infrastructure", "raise-version-gate"}

Ready == policy.approval = "APPROVED" /\ policy.reserve /\ policy.vault

(* Mutant: a stale activation or resumption is not refused.                *)
AcceptsUnapproved(c) ==
    CASE c = "raise-version-gate" -> TRUE
      [] c = "register" -> ~entry.exists /\ ~config.paused
      [] c = "migrate-legacy" -> entry.exists /\ ~policy.exists
      [] OTHER -> policy.exists /\ (c \in Operational => infra.reserve /\ infra.vault)

(* The account constraints and the checks of the handler of c.             *)
Accepts(c) ==
    CASE c = "raise-version-gate" -> TRUE
      [] c = "register" -> ~entry.exists /\ ~config.paused
      [] c = "migrate-legacy" -> entry.exists /\ ~policy.exists
      [] OTHER ->
            /\ policy.exists
            /\ c \in {"approve", "reject"} =>
                  /\ policy.status = "INACTIVE"
                  /\ policy.approval \in {"PENDING", IF c = "approve" THEN "APPROVED" ELSE "REJECTED"}
            /\ c = "initialize-reserve" => policy.approval = "APPROVED" /\ ~infra.reserve
            /\ c = "initialize-vault" => policy.reserve /\ infra.reserve /\ ~infra.vault
            /\ c \in Operational \cup {"sync-infrastructure"} => infra.reserve /\ infra.vault
            /\ c = "sync-infrastructure" => infra.backed
            /\ c \in DOMAIN Lifecycle => (Irreversible(policy) => c = "deprecate")
            /\ c \in {"activate", "resume"} => Ready /\ ~infra.surplus
            /\ c = "revoke-approval" =>
                  ~Irreversible(policy) /\ policy.approval \in {"APPROVED", "REVOKED"}
            /\ c = "enable-deposits" =>
                  ~config.paused /\ Ready /\ policy.status = "ACTIVE" /\ ~infra.surplus

NewPolicy == [exists |-> TRUE, approval |-> "PENDING", status |-> "INACTIVE",
              deposits |-> FALSE, reserve |-> FALSE, vault |-> FALSE]
NewEntry == [exists |-> TRUE, status |-> "PROPOSED", risk |-> "PENDING_REVIEW", deposits |-> FALSE]

(* force_disable, with the status and the risk the caller gives.           *)
ForceDisabled(operational, status, risk) ==
    /\ policy' = [policy EXCEPT !.status = operational, !.deposits = FALSE]
    /\ entry' = [entry EXCEPT !.status = status, !.risk = risk, !.deposits = FALSE]
    /\ infra' = [infra EXCEPT !.funding = FALSE, !.paused = TRUE]

(* set_asset_operational_status_v2 *)
SetOperationalStatus(new) ==
    IF policy.status = new THEN UNCHANGED <<policy, entry, infra>>
    ELSE CASE new = "ACTIVE" ->
                /\ policy' = [policy EXCEPT !.status = "ACTIVE"]
                /\ entry' = [entry EXCEPT !.status = "ACTIVE"]
                /\ infra' = [infra EXCEPT !.paused = FALSE]
           [] new = "INACTIVE" -> ForceDisabled(new, "PROPOSED", entry.risk)
           [] new = "PAUSED" -> ForceDisabled(new, "DEPOSITS_PAUSED", entry.risk)
           [] new = "DEPRECATED" -> ForceDisabled(new, "DEPRECATED", "BLOCKED")

(* set_governed_deposit_policy_v2: nothing when the policy has the value.  *)
SetDeposits(b) ==
    IF policy.deposits = b THEN UNCHANGED <<policy, entry, infra>>
    ELSE /\ policy' = [policy EXCEPT !.deposits = b]
         /\ entry' = [entry EXCEPT !.deposits = b]
         /\ infra' = [infra EXCEPT !.funding = b]

Execute(c) ==
    /\ config' = IF c = "raise-version-gate" THEN [config EXCEPT !.version = 2] ELSE config
    /\ CASE c \in {"register", "migrate-legacy"} ->
                policy' = NewPolicy /\ entry' = NewEntry /\ UNCHANGED infra
         [] c \in {"approve", "reject"} ->
                /\ policy' = [policy EXCEPT !.approval =
                              IF c = "approve" THEN "APPROVED" ELSE "REJECTED"]
                /\ entry' = IF policy' = policy THEN entry
                            ELSE [entry EXCEPT !.risk = IF c = "approve" THEN "APPROVED" ELSE "BLOCKED"]
                /\ UNCHANGED infra
         [] c = "initialize-reserve" ->
                /\ policy' = [policy EXCEPT !.reserve = TRUE]
                /\ infra' = [infra EXCEPT !.reserve = TRUE, !.funding = FALSE, !.paused = TRUE]
                /\ UNCHANGED entry
         [] c = "initialize-vault" ->
                /\ policy' = [policy EXCEPT !.vault = TRUE]
                /\ infra' = [infra EXCEPT !.vault = TRUE]
                /\ UNCHANGED entry
         [] c = "sync-infrastructure" ->
                /\ policy' = [policy EXCEPT !.reserve = TRUE, !.vault = TRUE]
                /\ infra' = [infra EXCEPT !.surplus = FALSE, !.covered = TRUE]
                /\ UNCHANGED entry
         [] c = "revoke-approval" ->
                IF policy.approval = "REVOKED" THEN UNCHANGED <<policy, entry, infra>>
                ELSE /\ policy' = [policy EXCEPT !.approval = "REVOKED", !.status = "PAUSED",
                                                 !.deposits = FALSE]
                     /\ entry' = [entry EXCEPT !.status = "DEPOSITS_PAUSED", !.risk = "BLOCKED",
                                               !.deposits = FALSE]
                     /\ infra' = [infra EXCEPT !.funding = FALSE, !.paused = TRUE]
         [] c \in DOMAIN Lifecycle -> SetOperationalStatus(Lifecycle[c])
         [] c = "enable-deposits" -> SetDeposits(TRUE)
         [] c = "disable-deposits" -> SetDeposits(FALSE)
         [] OTHER -> UNCHANGED <<policy, entry, infra>>

-----------------------------------------------------------------------------
(* One invocation of the tool.                                             *)

(* evaluateMutationIdempotency, and the early returns of                   *)
(* raise-version-gate.                                                     *)
AlreadyDone(c) ==
    CASE c = "raise-version-gate" -> config.version = 2
      [] c = "register" -> entry.exists
      [] c = "migrate-legacy" -> ~entry.exists \/ policy.exists
      [] c = "approve" -> policy.exists /\ policy.approval = "APPROVED"
      [] c = "reject" -> policy.exists /\ policy.approval = "REJECTED"
      [] c = "revoke-approval" -> policy.exists /\ policy.approval = "REVOKED"
      [] c \in DOMAIN Lifecycle -> policy.exists /\ policy.status = Lifecycle[c]
      [] c = "initialize-reserve" -> infra.reserve
      [] c = "initialize-vault" -> infra.vault
      [] c = "sync-infrastructure" -> policy.reserve /\ policy.vault
      [] c = "enable-deposits" -> policy.deposits
      [] c = "disable-deposits" -> ~policy.deposits /\ entry.exists /\ ~entry.deposits

(* validateMutationPrerequisites returns a reason.                         *)
Blocked(c) ==
    CASE c = "raise-version-gate" -> FALSE
      [] c = "register" -> config.paused
      [] c = "migrate-legacy" -> FALSE
      [] OTHER ->
            \/ ~policy.exists
            \/ Irreversible(policy) /\ c # "deprecate"
            \/ c \in {"approve", "reject"} /\ (policy.status # "INACTIVE" \/ policy.approval # "PENDING")
            \/ c \in {"revoke-approval", "initialize-reserve"} /\ policy.approval # "APPROVED"
            \/ c = "initialize-vault" /\ ~(policy.reserve /\ infra.reserve)
            \/ c \in Operational \cup {"sync-infrastructure"} /\ ~(infra.reserve /\ infra.vault)
            \/ c \in {"activate", "resume", "enable-deposits"} /\ ~Ready
            \/ c = "enable-deposits" /\ policy.status # "ACTIVE"

(* Mutant: a confirmed transaction is taken for the state it left.         *)
PostconditionAssumed(c) == c \in {"register", "migrate-legacy"} => entry.exists /\ policy.exists

(* verifyMutationPostcondition *)
Postcondition(c) ==
    CASE c = "raise-version-gate" -> config.version = 2
      [] c \in {"register", "migrate-legacy"} -> entry.exists /\ policy.exists
      [] c = "approve" -> policy.approval = "APPROVED"
      [] c = "reject" -> policy.approval = "REJECTED"
      [] c = "revoke-approval" -> policy.approval = "REVOKED" /\ policy.status = "PAUSED"
      [] c \in DOMAIN Lifecycle -> policy.status = Lifecycle[c]
      [] c = "initialize-reserve" -> infra.reserve /\ policy.reserve
      [] c = "initialize-vault" -> infra.vault /\ policy.vault
      [] c = "sync-infrastructure" -> policy.reserve /\ policy.vault
      [] OTHER -> LET b == c = "enable-deposits"
                  IN  policy.deposits = b /\ entry.deposits = b /\ infra.funding = b
NoRun == [pc |-> "idle", command |-> "none", tx |-> "none"]
AdminStep(a, pc, tx) == admins' = [admins EXCEPT ![a].pc = pc, ![a].tx = tx]
Others == <<runs, moves>>

(* resolveAssetSelector, inspectAsset and the two checks on the snapshot.  *)
Inspect(a, c) ==
    /\ admins[a].pc = "idle" /\ runs < MaxRuns
    /\ runs' = runs + 1
    /\ admins' = [admins EXCEPT ![a] =
          [pc |-> IF AlreadyDone(c) THEN "idempotent" ELSE IF Blocked(c) THEN "blocked" ELSE "inspected",
           command |-> c, tx |-> "none"]]
    /\ UNCHANGED <<chainVars, moves>>

(* loadGovernanceSigner and verifySignerAuthority, which throw when the    *)
(* key is missing or is not the governance authority's.                    *)
LoadSigner(a) ==
    /\ admins[a].pc = "inspected"
    /\ AdminStep(a, "signed", "none") \/ AdminStep(a, "signer_refused", "none")
    /\ UNCHANGED <<chainVars, Others>>

(* buildGovernanceInstruction, which throws when an option of the command  *)
(* is missing or malformed; what it asks of the snapshot was asked before. *)
Build(a) ==
    /\ admins[a].pc = "signed"
    /\ AdminStep(a, "built", "none") \/ AdminStep(a, "build_refused", "none")
    /\ UNCHANGED <<chainVars, Others>>

(* simulateTransaction; without --confirm the tool stops here.             *)
Simulate(a) ==
    /\ admins[a].pc = "built"
    /\ IF Accepts(admins[a].command)
         THEN AdminStep(a, "simulated", "none") \/ AdminStep(a, "waiting_for_confirm", "none")
         ELSE AdminStep(a, "simulation_failed", "none")
    /\ UNCHANGED <<chainVars, Others>>

(* sendRawTransaction: its preflight refuses what would fail; it may also  *)
(* throw after the cluster has the transaction.                            *)
Send(a) ==
    /\ admins[a].pc = "simulated"
    /\ \/ AdminStep(a, "submission_failed", "none")
       \/ /\ Accepts(admins[a].command)
          /\ AdminStep(a, "submitted", "sent") \/ AdminStep(a, "submission_failed", "sent")
    /\ UNCHANGED <<chainVars, Others>>

(* The cluster executes the transaction, once; or its blockhash expires.   *)
LandCommand(a) ==
    /\ admins[a].tx = "sent"
    /\ IF Accepts(admins[a].command)
         THEN Execute(admins[a].command) /\ AdminStep(a, admins[a].pc, "landed")
         ELSE UNCHANGED chainVars /\ AdminStep(a, admins[a].pc, "failed")
    /\ UNCHANGED Others
ExpireCommand(a) ==
    /\ admins[a].tx = "sent"
    /\ AdminStep(a, admins[a].pc, "expired")
    /\ UNCHANGED <<chainVars, Others>>

(* confirmTransaction, getTransaction and the second inspectAsset; the     *)
(* first throws when the blockhash expired, each when the RPC fails.       *)
Confirm(a) ==
    /\ admins[a].pc = "submitted"
    /\ \/ AdminStep(a, "confirmation_unavailable", admins[a].tx)
       \/ /\ admins[a].tx = "landed"
          /\ AdminStep(a, IF Postcondition(admins[a].command) THEN "verified"
                                                              ELSE "verification_failed", "landed")
       \/ /\ admins[a].tx = "failed"
          /\ AdminStep(a, "confirmed_with_error", "failed")
    /\ UNCHANGED <<chainVars, Others>>

Ended == {"idempotent", "blocked", "signer_refused", "build_refused", "waiting_for_confirm",
          "simulation_failed", "submission_failed",
          "confirmation_unavailable", "verified", "verification_failed", "confirmed_with_error"}

(* The operator reads the report; a transaction may still be under way.    *)
Return(a) ==
    /\ admins[a].pc \in Ended /\ admins[a].tx # "sent"
    /\ admins' = [admins EXCEPT ![a] = NoRun]
    /\ UNCHANGED <<chainVars, Others>>

-----------------------------------------------------------------------------
(* What happens to the accounts outside the tool.                          *)

(* Somebody sends tokens to the vault.                                     *)
Donate ==
    /\ infra.vault /\ moves < MaxMoves
    /\ moves' = moves + 1
    /\ \E b \in {infra.backed, TRUE} :
          infra' = [infra EXCEPT !.surplus = TRUE, !.backed = b]
    /\ UNCHANGED <<config, entry, policy, admins, runs>>

(* Deposits, credits, debits and payouts (TcapReserve): actual_assets, the *)
(* vault and the liabilities move, the first two by the same amount.       *)
ReserveMoves ==
    /\ infra.reserve /\ moves < MaxMoves
    /\ moves' = moves + 1
    /\ \E c, b \in BOOLEAN : infra' = [infra EXCEPT !.covered = c, !.backed = b]
    /\ infra' \in Infrastructure
    /\ UNCHANGED <<config, entry, policy, admins, runs>>

(* Nothing is registered yet; or an approved asset waits for its vault; or *)
(* the asset takes deposits, set up by the instructions of version 1, or   *)
(* by those of version 2.                                                  *)
NoPolicy == [NewPolicy EXCEPT !.exists = FALSE]
OpenEntry == [exists |-> TRUE, status |-> "ACTIVE", risk |-> "APPROVED", deposits |-> TRUE]
OpenPolicy == [exists |-> TRUE, approval |-> "APPROVED", status |-> "ACTIVE", deposits |-> TRUE,
               reserve |-> TRUE, vault |-> TRUE]
OpenInfra == [reserve |-> TRUE, vault |-> TRUE, funding |-> TRUE, paused |-> FALSE,
              surplus |-> FALSE, covered |-> TRUE, backed |-> TRUE]

GovInit ==
    /\ \E p \in BOOLEAN : config = [version |-> 1, paused |-> p]
    /\ \/ /\ entry = [NewEntry EXCEPT !.exists = FALSE] /\ policy = NoPolicy
          /\ infra = [OpenInfra EXCEPT !.reserve = FALSE, !.vault = FALSE, !.funding = FALSE]
       \/ /\ entry = [NewEntry EXCEPT !.risk = "APPROVED"]
          /\ policy = [NewPolicy EXCEPT !.approval = "APPROVED", !.reserve = TRUE]
          /\ infra = [OpenInfra EXCEPT !.vault = FALSE, !.funding = FALSE, !.paused = TRUE]
       \/ entry = OpenEntry /\ policy \in {NoPolicy, OpenPolicy} /\ infra = OpenInfra
    /\ admins = [a \in Admin |-> NoRun]
    /\ runs = 0 /\ moves = 0

GovNext ==
    \/ \E a \in Admin :
          \/ \E c \in Command : Inspect(a, c)
          \/ LoadSigner(a) \/ Build(a) \/ Simulate(a) \/ Send(a) \/ LandCommand(a) \/ ExpireCommand(a)
          \/ Confirm(a) \/ Return(a)
    \/ Donate \/ ReserveMoves

GovSpec == GovInit /\ [][GovNext]_govVars

-----------------------------------------------------------------------------
(* Properties.                                                             *)

GovTypeOK ==
    /\ config \in Config /\ entry \in Entry /\ policy \in Policy /\ infra \in Infrastructure

Closed == policy.exists /\ (policy.approval = "REVOKED" \/ Irreversible(policy))

(* While the protocol is not paused, verify reports ACCEPTED, and inspect  *)
(* ACCEPTED_FOR_DEPOSITS, exactly when the program takes deposits and the  *)
(* assets cover the liabilities: three computations over different         *)
(* accounts.  The two conditions are differences of the code: neither      *)
(* verdict reads config.paused, and no deposit instruction asks for cover. *)
AcceptanceAgrees ==
    policy.exists /\ ~config.paused =>
        /\ LiveAccepted <=> AssetDepositsOpen /\ infra.covered
        /\ AcceptedForDeposits <=> AssetDepositsOpen /\ infra.covered

(* A revoked or deprecated asset takes no deposits and is never opened     *)
(* again, whatever commands were built, simulated or sent before the       *)
(* revocation landed.                                                      *)
ClosedForGood == [][Closed => Closed' /\ ~AssetOpen']_govVars

(* The tool reports a command that ends deposits as confirmed and verified *)
(* only when the asset takes no deposit at that moment: a command of       *)
(* another operator that opened it meanwhile makes the verification fail.  *)
Closing == {"pause", "deactivate", "deprecate", "revoke-approval", "disable-deposits"}
VerifiedIsClosed ==
    [][\A a \in Admin :
          /\ admins[a].pc = "submitted" /\ admins'[a].pc = "verified"
          /\ admins[a].command \in Closing
          => ~AssetOpen]_govVars

=============================================================================
